---------------------- MODULE SessionWriteBehindProofs ----------------------
(***************************************************************************)
(* Proofs about SessionWriteBehind for any bounds: who will write the      *)
(* queued events, that no admitted event is lost, and that the controller  *)
(* implements DurableLog.                                                  *)
(***************************************************************************)
EXTENDS SessionWriteBehind, SequenceTheorems, FiniteSetTheorems, TLAPS

USE DEF controller, owner, logs, vars

-----------------------------------------------------------------------------
\* The barrier and its continuations.

\* Control types: the values of the controller's states.
ControlOK ==
  /\ write \in {"none", "writing", "ok", "failed"}
  /\ continuation \in {"none", "automatic", "barrier", "rejected", "overlapped"}
  /\ barrier \in {"none", "overlapping", "draining"}
  /\ init \in {"pending", "ready", "failed"}
  /\ flushes \in Nat
  /\ background \in BOOLEAN

\* A write that a barrier started stands under that barrier; a continuation of the
\* barrier runs while nothing is written; a write that overtakes a queued automatic
\* continuation is a barrier's; and barriers open only after initialization.
BarrierShape ==
  /\ write # "none" /\ ~background => barrier = "draining"
  /\ continuation \in {"overlapped", "barrier", "rejected"} => write = "none" /\ barrier # "none"
  /\ continuation = "automatic" /\ write # "none" => barrier # "none"
  /\ barrier # "none" => init = "ready"

\* A barrier that is going to reject leaves the automatic path paused.
RejectionPauses ==
  continuation = "rejected" \/ (write = "failed" /\ barrier = "draining") => automaticPaused

\* WorkHasOwner without the steps in flight: a write or a continuation counts only for a
\* deadline that expired behind it.
OwnerBehindWrite ==
  pending # <<>> =>
    \/ timer \/ barrier # "none" \/ automaticPaused \/ flushes > 0 \/ init = "failed"
    \/ deadlineExpired /\ (write \in {"writing", "ok"} \/ continuation = "automatic")

WorkInvariant == ControlOK /\ BarrierShape /\ RejectionPauses /\ OwnerBehindWrite

LEMMA WorkInit == Init => WorkInvariant
<1> SUFFICES ASSUME Init PROVE WorkInvariant
  OBVIOUS
<1>1. ControlOK /\ BarrierShape
  BY DEF Init, ControlOK, BarrierShape
<1>2. RejectionPauses /\ OwnerBehindWrite
  BY DEF Init, RejectionPauses, OwnerBehindWrite
<1> QED
  BY <1>1, <1>2 DEF WorkInvariant

LEMMA ControlOKStep ==
  ASSUME ControlOK, [Next]_vars
  PROVE  ControlOK'
<1> USE DEF ControlOK
<1>1. CASE Enqueue
  BY <1>1 DEF Enqueue, Arms
<1>2. CASE RequestFlush
  BY <1>2 DEF RequestFlush
<1>3. CASE ProceedFlush
  <2>1. background' \in BOOLEAN
    BY <1>3 DEF ProceedFlush, Flush, StartWrite
  <2>2. flushes' \in Nat /\ init' \in {"pending", "ready", "failed"}
    BY <1>3 DEF ProceedFlush
  <2>3. /\ write' \in {"none", "writing", "ok", "failed"}
        /\ continuation' = continuation
        /\ barrier' \in {"none", "overlapping", "draining"}
    BY <1>3 DEF ProceedFlush, Flush, Resolve, StartWrite
  <2> QED
    BY <2>1, <2>2, <2>3
<1>4. CASE Crash
  BY <1>4 DEF Crash
<1>5. CASE Deadline
  BY <1>5 DEF Deadline, JobQueued, StartWrite
<1>6. CASE WriteSucceeds
  BY <1>6 DEF WriteSucceeds
<1>7. CASE WriteFails
  BY <1>7 DEF WriteFails
<1>8. CASE Finally
  BY <1>8 DEF Finally, AfterWrite, Awaited
<1>9. CASE ContinueAutomatic
  BY <1>9 DEF ContinueAutomatic, Overdue, StartWrite
<1>10. CASE ContinueBarrier
  BY <1>10 DEF ContinueBarrier, DrainLoop, Drained, Resolve, StartWrite
<1>11. CASE RejectBarrier
  BY <1>11 DEF RejectBarrier
<1>12. ASSUME NEW outcome \in {"ready", "failed"}, InitSettles(outcome) PROVE ControlOK'
  BY <1>12 DEF InitSettles
<1>13. CASE UNCHANGED vars
  BY <1>13
<1> QED
  BY <1>1, <1>2, <1>3, <1>4, <1>5, <1>6, <1>7, <1>8, <1>9, <1>10, <1>11, <1>12, <1>13 DEF Next, Jobs

LEMMA BarrierShapeStep ==
  ASSUME ControlOK, BarrierShape, [Next]_vars
  PROVE  BarrierShape'
<1> USE DEF ControlOK, BarrierShape
<1>1. CASE Enqueue
  BY <1>1 DEF Enqueue, Arms
<1>2. CASE RequestFlush
  BY <1>2 DEF RequestFlush
<1>3. CASE ProceedFlush
  BY <1>3 DEF ProceedFlush, Flush, Drained, Resolve, StartWrite
<1>4. CASE Crash
  BY <1>4 DEF Crash
<1>5. CASE Deadline
  BY <1>5 DEF Deadline, JobQueued, StartWrite
<1>6. CASE WriteSucceeds
  BY <1>6 DEF WriteSucceeds
<1>7. CASE WriteFails
  BY <1>7 DEF WriteFails
<1>8. CASE Finally
  BY <1>8 DEF Finally, AfterWrite, Awaited
<1>9. CASE ContinueAutomatic
  BY <1>9 DEF ContinueAutomatic, Overdue, StartWrite
<1>10. CASE ContinueBarrier
  BY <1>10 DEF ContinueBarrier, DrainLoop, Drained, Resolve, StartWrite
<1>11. CASE RejectBarrier
  BY <1>11 DEF RejectBarrier
<1>12. ASSUME NEW outcome \in {"ready", "failed"}, InitSettles(outcome) PROVE BarrierShape'
  BY <1>12 DEF InitSettles
<1>13. CASE UNCHANGED vars
  BY <1>13
<1> QED
  BY <1>1, <1>2, <1>3, <1>4, <1>5, <1>6, <1>7, <1>8, <1>9, <1>10, <1>11, <1>12, <1>13 DEF Next, Jobs

LEMMA RejectionPausesStep ==
  ASSUME ControlOK, BarrierShape, RejectionPauses, [Next]_vars
  PROVE  RejectionPauses'
<1> USE DEF ControlOK, BarrierShape, RejectionPauses
<1>1. CASE Enqueue
  BY <1>1 DEF Enqueue, Arms
<1>2. CASE RequestFlush
  BY <1>2 DEF RequestFlush
<1>3. CASE ProceedFlush
  BY <1>3 DEF ProceedFlush, Flush, Drained, Resolve, StartWrite
<1>4. CASE Crash
  BY <1>4 DEF Crash
<1>5. CASE Deadline
  BY <1>5 DEF Deadline, JobQueued, StartWrite
<1>6. CASE WriteSucceeds
  BY <1>6 DEF WriteSucceeds
<1>7. CASE WriteFails
  BY <1>7 DEF WriteFails
<1>8. CASE Finally
  BY <1>8 DEF Finally, AfterWrite, Awaited
<1>9. CASE ContinueAutomatic
  BY <1>9 DEF ContinueAutomatic, Overdue, StartWrite
<1>10. CASE ContinueBarrier
  BY <1>10 DEF ContinueBarrier, DrainLoop, Drained, Resolve, StartWrite
<1>11. CASE RejectBarrier
  BY <1>11 DEF RejectBarrier
<1>12. ASSUME NEW outcome \in {"ready", "failed"}, InitSettles(outcome) PROVE RejectionPauses'
  BY <1>12 DEF InitSettles
<1>13. CASE UNCHANGED vars
  BY <1>13
<1> QED
  BY <1>1, <1>2, <1>3, <1>4, <1>5, <1>6, <1>7, <1>8, <1>9, <1>10, <1>11, <1>12, <1>13 DEF Next, Jobs

LEMMA OwnerBehindWriteStep ==
  ASSUME ControlOK, BarrierShape, RejectionPauses, OwnerBehindWrite, [Next]_vars
  PROVE  OwnerBehindWrite'
<1> USE DEF ControlOK, BarrierShape, RejectionPauses, OwnerBehindWrite
<1>1. CASE Enqueue
  BY <1>1 DEF Enqueue, Arms
<1>2. CASE RequestFlush
  BY <1>2 DEF RequestFlush
<1>3. CASE ProceedFlush
  BY <1>3 DEF ProceedFlush, Flush, Drained, Resolve, StartWrite
<1>4. CASE Crash
  BY <1>4 DEF Crash
<1>5. CASE Deadline
  BY <1>5 DEF Deadline, JobQueued, StartWrite
<1>6. CASE WriteSucceeds
  BY <1>6 DEF WriteSucceeds
<1>7. CASE WriteFails
  BY <1>7 DEF WriteFails
<1>8. CASE Finally
  BY <1>8 DEF Finally, AfterWrite, Awaited
<1>9. CASE ContinueAutomatic
  BY <1>9 DEF ContinueAutomatic, Overdue, StartWrite
<1>10. CASE ContinueBarrier
  BY <1>10 DEF ContinueBarrier, DrainLoop, Drained, Resolve, StartWrite
<1>11. CASE RejectBarrier
  BY <1>11 DEF RejectBarrier
<1>12. ASSUME NEW outcome \in {"ready", "failed"}, InitSettles(outcome) PROVE OwnerBehindWrite'
  BY <1>12 DEF InitSettles
<1>13. CASE UNCHANGED vars
  BY <1>13
<1> QED
  BY <1>1, <1>2, <1>3, <1>4, <1>5, <1>6, <1>7, <1>8, <1>9, <1>10, <1>11, <1>12, <1>13 DEF Next, Jobs

LEMMA WorkInductive == Spec => []WorkInvariant
<1>1. WorkInvariant /\ [Next]_vars => WorkInvariant'
  BY ControlOKStep, BarrierShapeStep, RejectionPausesStep, OwnerBehindWriteStep DEF WorkInvariant
<1> QED
  BY <1>1, WorkInit, PTL DEF Spec

\* Queued events always have someone who will write them, unless a failure paused the
\* automatic path or initialization failed.
THEOREM QueueIsOwned == Spec => []WorkHasOwner
<1>1. WorkInvariant => WorkHasOwner
  BY DEF WorkInvariant, ControlOK, OwnerBehindWrite, WorkHasOwner
<1> QED
  BY <1>1, WorkInductive, PTL

-----------------------------------------------------------------------------
\* Runs of events. An event is its seq, so every part of the log is a run of consecutive
\* numbers, and what a sequence holds is where it starts and how long it is.

Run(q, s) == q \in Seq(Nat) /\ \A i \in 1..Len(q) : q[i] = s + i - 1

LEMMA RunLength == ASSUME NEW q, NEW s, Run(q, s) PROVE Len(q) \in Nat /\ DOMAIN q = 1..Len(q)
BY LenProperties DEF Run

LEMMA RunEmpty == ASSUME NEW s PROVE Run(<<>>, s) /\ Len(<<>>) = 0
BY DEF Run

LEMMA RunAppend ==
  ASSUME NEW q, NEW s \in Nat, Run(q, s)
  PROVE  Run(Append(q, s + Len(q)), s) /\ Len(Append(q, s + Len(q))) = Len(q) + 1
<1>1. Len(q) \in Nat /\ q \in Seq(Nat)
  BY RunLength DEF Run
<1>2. /\ Append(q, s + Len(q)) \in Seq(Nat)
      /\ Len(Append(q, s + Len(q))) = Len(q) + 1
      /\ \A i \in 1..Len(q) : Append(q, s + Len(q))[i] = q[i]
      /\ Append(q, s + Len(q))[Len(q) + 1] = s + Len(q)
  BY <1>1, AppendProperties
<1> QED
  BY <1>1, <1>2 DEF Run

LEMMA RunConcat ==
  ASSUME NEW a, NEW b, NEW s \in Nat, Run(a, s), Run(b, s + Len(a))
  PROVE  Run(a \o b, s) /\ Len(a \o b) = Len(a) + Len(b)
<1>1. Len(a) \in Nat /\ a \in Seq(Nat) /\ Len(b) \in Nat /\ b \in Seq(Nat)
  BY RunLength DEF Run
<1>2. /\ a \o b \in Seq(Nat)
      /\ Len(a \o b) = Len(a) + Len(b)
      /\ \A i \in 1..(Len(a) + Len(b)) : (a \o b)[i] = IF i <= Len(a) THEN a[i] ELSE b[i - Len(a)]
  BY <1>1, ConcatProperties
<1>3. \A i \in 1..Len(a) : a[i] = s + i - 1
  BY DEF Run
<1>4. \A i \in 1..Len(b) : b[i] = (s + Len(a)) + i - 1
  BY DEF Run
<1> HIDE DEF Run
<1>5. ASSUME NEW i \in 1..(Len(a) + Len(b)) PROVE (a \o b)[i] = s + i - 1
  <2>1. CASE i <= Len(a)
    BY <1>1, <1>2, <1>3, <2>1
  <2>2. CASE ~(i <= Len(a))
    <3>1. i - Len(a) \in 1..Len(b)
      BY <1>1, <2>2
    <3> QED
      BY <1>1, <1>2, <1>4, <2>2, <3>1
  <2> QED
    BY <2>1, <2>2
<1> QED
  BY <1>2, <1>5 DEF Run

LEMMA RunPrefix ==
  ASSUME NEW q, NEW s \in Nat, Run(q, s), NEW n \in 0..Len(q)
  PROVE  Run(SubSeq(q, 1, n), s) /\ Len(SubSeq(q, 1, n)) = n
<1>1. q \in Seq(Nat) /\ Len(q) \in Nat
  BY RunLength DEF Run
<1>2. SubSeq(q, 1, n) = [i \in 1..n |-> q[i]]
  BY <1>1
<1>3. \A i \in 1..n : q[i] \in Nat /\ q[i] = s + i - 1
  BY <1>1 DEF Run
<1>4. SubSeq(q, 1, n) \in Seq(Nat) /\ Len(SubSeq(q, 1, n)) = n
  BY <1>1, <1>2, <1>3
<1> QED
  BY <1>2, <1>3, <1>4 DEF Run

LEMMA RunEqual ==
  ASSUME NEW a, NEW b, NEW s, Run(a, s), Run(b, s), Len(a) = Len(b)
  PROVE  a = b
<1>1. a \in Seq(Nat) /\ b \in Seq(Nat) /\ \A i \in 1..Len(a) : a[i] = b[i]
  BY DEF Run
<1> QED
  BY <1>1, SeqEqual

\* Filtering a run from a cursor drops what is below the cursor.
LEMMA FilterRun ==
  ASSUME NEW q, NEW s \in Nat, Run(q, s), NEW cursor \in Nat
  PROVE  /\ Run(FilterFrom(q, cursor), IF cursor <= s THEN s ELSE cursor)
         /\ Len(FilterFrom(q, cursor)) = IF cursor <= s THEN Len(q)
                                         ELSE IF cursor <= s + Len(q) THEN s + Len(q) - cursor ELSE 0
<1> DEFINE n == Len(q)
           m == IF cursor <= s THEN 0 ELSE IF cursor <= s + n THEN cursor - s ELSE n
           kept == {i \in DOMAIN q : q[i] >= cursor}
           f == FilterFrom(q, cursor)
<1>1. n \in Nat /\ DOMAIN q = 1..n /\ \A i \in 1..n : q[i] = s + i - 1
  BY RunLength DEF Run
<1>2. m \in 0..n
  BY <1>1
<1>3. kept = (m + 1)..n
  <2>1. \A i \in 1..n : q[i] >= cursor <=> i >= m + 1
    BY <1>1
  <2> QED
    BY <1>1, <1>2, <2>1
<1> HIDE DEF kept, m, n
<1>4. Cardinality(kept) = n - m
  <2>1. Cardinality((m + 1)..n) = IF m + 1 > n THEN 0 ELSE n - (m + 1) + 1
    BY <1>1, <1>2, FS_Interval
  <2> QED
    BY <1>1, <1>2, <1>3, <2>1
<1>5. \A i \in kept : Cardinality({j \in kept : j <= i}) = i - m
  <2> SUFFICES ASSUME NEW i \in kept PROVE Cardinality({j \in kept : j <= i}) = i - m
    OBVIOUS
  <2>1. i \in (m + 1)..n
    BY <1>3
  <2>2. {j \in kept : j <= i} = (m + 1)..i
    BY <1>1, <1>2, <1>3, <2>1
  <2>3. Cardinality((m + 1)..i) = IF m + 1 > i THEN 0 ELSE i - (m + 1) + 1
    BY <1>1, <1>2, <2>1, FS_Interval
  <2>4. Cardinality((m + 1)..i) = i - m
    BY <1>1, <1>2, <2>1, <2>3
  <2> QED
    BY <2>2, <2>4
<1>6. ASSUME NEW k \in 1..(n - m)
      PROVE  (CHOOSE i \in kept : Cardinality({j \in kept : j <= i}) = k) = m + k
  <2>1. m + k \in kept
    BY <1>1, <1>2, <1>3
  <2>2. Cardinality({j \in kept : j <= m + k}) = k
    BY <1>1, <1>2, <1>5, <2>1
  <2>3. \A i \in kept : Cardinality({j \in kept : j <= i}) = k => i = m + k
    BY <1>1, <1>2, <1>3, <1>5
  <2> QED
    BY <2>1, <2>2, <2>3
<1>7. f = [k \in 1..(n - m) |-> q[CHOOSE i \in kept : Cardinality({j \in kept : j <= i}) = k]]
  BY <1>4 DEF FilterFrom, kept
<1>8. \A k \in 1..(n - m) : f[k] = s + m + k - 1
  <2> SUFFICES ASSUME NEW k \in 1..(n - m) PROVE f[k] = s + m + k - 1
    OBVIOUS
  <2>1. f[k] = q[m + k]
    BY <1>6, <1>7
  <2>2. m + k \in 1..n
    BY <1>1, <1>2
  <2> QED
    BY <1>1, <1>2, <2>1, <2>2
<1>9. f \in Seq(Nat) /\ Len(f) = n - m
  <2>1. \A k \in 1..(n - m) : s + m + k - 1 \in Nat
    BY <1>1, <1>2
  <2>2. f \in [1..(n - m) -> Nat]
    BY <1>7, <1>8, <2>1
  <2>3. n - m \in Nat
    BY <1>1, <1>2
  <2> QED
    BY <2>2, <2>3
<1>10. n - m = IF cursor <= s THEN n ELSE IF cursor <= s + n THEN s + n - cursor ELSE 0
  BY <1>1 DEF m
<1>11. \A k \in 1..(n - m) : s + m + k - 1 = (IF cursor <= s THEN s ELSE cursor) + k - 1
  BY <1>1 DEF m
<1> QED
  BY <1>8, <1>9, <1>10, <1>11 DEF Run, n

-----------------------------------------------------------------------------
\* Where every event is.

\* How many events are durable, or will be when initialization ends.
DurableLength == IF init = "ready" THEN Len(stored) ELSE seed

\* The log and the stored prefix are runs from 0; the queue is the run that ends the log,
\* the batch being written the run before the queue, and all before them is durable.
EventsPlaced ==
  /\ seed \in Nat /\ seed <= Len(admitted)
  /\ Run(admitted, 0) /\ Run(stored, 0) /\ Len(stored) <= Len(admitted)
  /\ init # "ready" => Len(stored) <= seed
  /\ Len(pending) <= Len(admitted)
  /\ Run(pending, Len(admitted) - Len(pending))
  /\ write = "writing" =>
       /\ Len(batch) <= Len(admitted) - Len(pending)
       /\ Run(batch, Len(admitted) - Len(pending) - Len(batch))
       /\ Len(admitted) - Len(pending) - Len(batch) <= DurableLength
  /\ write # "writing" => Len(admitted) - Len(pending) <= DurableLength

LEMMA PlacedInit == Init => EventsPlaced
<1> SUFFICES ASSUME Init PROVE EventsPlaced
  OBVIOUS
<1>1. seed \in Nat /\ admitted = [i \in 1..seed |-> i - 1]
  BY BoundsAssumption DEF Init
<1>2. Run(admitted, 0) /\ Len(admitted) = seed
  <2>1. admitted \in [1..seed -> Nat]
    BY <1>1
  <2>2. admitted \in Seq(Nat) /\ Len(admitted) = seed
    BY <1>1, <2>1
  <2> QED
    BY <1>1, <2>2 DEF Run
<1>3. PICK k \in 0..seed : stored = SubSeq(admitted, 1, k)
  BY DEF Init
<1>4. Run(stored, 0) /\ Len(stored) = k
  BY <1>2, <1>3, RunPrefix
<1>5. Len(pending) \in Nat /\ Len(pending) <= seed /\ Run(pending, seed - Len(pending))
  <2>1. CASE pending = <<>>
    BY <1>1, <2>1, RunEmpty
  <2>2. CASE seed > 0 /\ pending = <<seed - 1>>
    <3>1. pending \in Seq(Nat) /\ Len(pending) = 1 /\ pending[1] = seed - 1
      BY <1>1, <2>2
    <3> QED
      BY <1>1, <2>2, <3>1 DEF Run
  <2> QED
    BY <2>1, <2>2 DEF Init
<1> QED
  BY <1>1, <1>2, <1>3, <1>4, <1>5 DEF Init, EventsPlaced, DurableLength

\* The lengths are natural numbers.
LEMMA Lengths ==
  ASSUME EventsPlaced
  PROVE  /\ Len(admitted) \in Nat /\ Len(stored) \in Nat /\ Len(pending) \in Nat /\ seed \in Nat
         /\ DurableLength \in Nat /\ DurableLength <= Len(admitted)
         /\ write = "writing" => Len(batch) \in Nat
BY RunLength DEF EventsPlaced, DurableLength

\* A write that starts takes the whole queue.
LEMMA PlacedStart ==
  ASSUME EventsPlaced, write = "none", NEW bg, StartWrite(bg), UNCHANGED <<admitted, stored, init, seed>>
  PROVE  EventsPlaced'
<1>1. batch' = pending /\ pending' = <<>> /\ write' = "writing" /\ Len(pending') = 0
  BY DEF StartWrite
<1>2. Run(pending', Len(admitted) - Len(pending'))
  BY <1>1, RunEmpty
<1>3. Len(admitted) - 0 = Len(admitted)
  BY Lengths
<1> QED
  BY <1>1, <1>2, <1>3, Lengths DEF EventsPlaced, DurableLength

\* A step that moves no event.
LEMMA PlacedUnchanged ==
  ASSUME EventsPlaced, UNCHANGED <<admitted, stored, init, seed, pending, batch>>,
         write' = write \/ (write # "writing" /\ write' # "writing")
  PROVE  EventsPlaced'
BY DEF EventsPlaced, DurableLength

LEMMA EventsPlacedStep ==
  ASSUME ControlOK, BarrierShape, EventsPlaced, [Next]_vars
  PROVE  EventsPlaced'
<1>1. CASE Enqueue
  <2> DEFINE n == Len(admitted)
  <2>1. n \in Nat /\ Len(pending) \in Nat
    BY Lengths
  <2>2. admitted' = Append(admitted, 0 + Len(admitted)) /\ pending' = Append(pending, (n - Len(pending)) + Len(pending))
    BY <1>1, <2>1 DEF Enqueue
  <2>3. Run(admitted', 0) /\ Len(admitted') = n + 1
    BY <2>2, RunAppend DEF EventsPlaced
  <2>4. Run(pending', n - Len(pending)) /\ Len(pending') = Len(pending) + 1
    BY <2>1, <2>2, RunAppend DEF EventsPlaced
  <2>5. UNCHANGED <<write, batch, stored, init, seed>>
    BY <1>1 DEF Enqueue
  <2>6. (n + 1) - (Len(pending) + 1) = n - Len(pending)
    BY <2>1
  <2> QED
    BY <2>1, <2>3, <2>4, <2>5, <2>6, Lengths DEF EventsPlaced, DurableLength
<1>2. CASE RequestFlush
  BY <1>2, PlacedUnchanged DEF RequestFlush
<1>3. CASE ProceedFlush
  <2>1. CASE write = "none" /\ StartWrite(FALSE)
    BY <1>3, <2>1, PlacedStart DEF ProceedFlush
  <2>2. CASE UNCHANGED <<pending, batch, write>>
    BY <1>3, <2>2, PlacedUnchanged DEF ProceedFlush
  <2> QED
    BY <1>3, <2>1, <2>2 DEF ProceedFlush, Flush
<1>4. CASE Crash
  <2>1. /\ pending' = <<>> /\ Len(pending') = 0 /\ write' = "none" /\ admitted' = stored /\ stored' = stored
        /\ init' = "pending" /\ seed' = Len(stored)
    BY <1>4 DEF Crash
  <2>2. Run(pending', Len(stored) - 0)
    BY <2>1, RunEmpty
  <2> QED
    BY <2>1, <2>2, Lengths DEF EventsPlaced, DurableLength
<1>5. CASE Deadline
  <2>1. CASE write = "none" /\ StartWrite(TRUE)
    BY <1>5, <2>1, PlacedStart DEF Deadline
  <2>2. CASE UNCHANGED <<pending, batch, write>>
    BY <1>5, <2>2, PlacedUnchanged DEF Deadline
  <2> QED
    BY <1>5, <2>1, <2>2 DEF Deadline
<1>6. CASE WriteSucceeds
  <2> DEFINE n == Len(admitted)
             c == Len(stored)
             s == n - Len(pending) - Len(batch)
             f == FilterFrom(batch, c)
  <2>1. write = "writing" /\ init = "ready" /\ stored' = stored \o f /\ write' = "ok"
        /\ UNCHANGED <<admitted, pending, batch, init, seed>>
    BY <1>6 DEF WriteSucceeds, Fresh
  <2>2. n \in Nat /\ c \in Nat /\ Len(pending) \in Nat /\ Len(batch) \in Nat /\ c <= n
    BY <2>1, Lengths DEF EventsPlaced
  <2>3. s \in Nat /\ s <= c /\ Run(batch, s)
    BY <2>1, <2>2 DEF EventsPlaced, DurableLength
  <2>4. /\ Run(f, IF c <= s THEN s ELSE c)
        /\ Len(f) = IF c <= s THEN Len(batch) ELSE IF c <= s + Len(batch) THEN s + Len(batch) - c ELSE 0
    BY <2>2, <2>3, FilterRun
  <2>5. (IF c <= s THEN s ELSE c) = 0 + c
    BY <2>2, <2>3
  <2>6. Run(stored, 0)
    BY DEF EventsPlaced
  <2>7. Run(stored', 0) /\ Len(stored') = c + Len(f)
    BY <2>1, <2>4, <2>5, <2>6, RunConcat
  <2>8. c + Len(f) <= n /\ n - Len(pending) <= c + Len(f)
    BY <2>2, <2>3, <2>4
  <2> QED
    BY <2>1, <2>7, <2>8 DEF EventsPlaced, DurableLength
<1>7. CASE WriteFails
  <2> DEFINE s == Len(admitted) - Len(pending) - Len(batch)
  <2>1. write = "writing" /\ pending' = batch \o pending /\ write' = "failed" /\ UNCHANGED <<admitted, stored, init, seed>>
    BY <1>7 DEF WriteFails, Retained
  <2>2. Len(admitted) \in Nat /\ Len(pending) \in Nat /\ Len(batch) \in Nat
    BY <2>1, Lengths
  <2>3. s \in Nat /\ Run(batch, s) /\ Run(pending, Len(admitted) - Len(pending)) /\ s <= DurableLength
    BY <2>1, <2>2 DEF EventsPlaced
  <2>4. s + Len(batch) = Len(admitted) - Len(pending)
    BY <2>2
  <2>5. Run(pending', s) /\ Len(pending') = Len(batch) + Len(pending)
    BY <2>1, <2>3, <2>4, RunConcat
  <2>6. s = Len(admitted) - (Len(batch) + Len(pending))
    BY <2>2
  <2>7. Len(batch) + Len(pending) <= Len(admitted)
    BY <2>2, <2>3, <2>6
  <2> QED
    BY <2>1, <2>3, <2>5, <2>6, <2>7 DEF EventsPlaced, DurableLength
<1>8. CASE Finally
  BY <1>8 DEF Finally, EventsPlaced, DurableLength
<1>9. CASE ContinueAutomatic
  <2>1. CASE Overdue /\ StartWrite(TRUE)
    <3>1. write = "none"
      BY <1>9, <2>1 DEF ContinueAutomatic, Overdue, BarrierShape
    <3> QED
      BY <1>9, <2>1, <3>1, PlacedStart DEF ContinueAutomatic
  <2>2. CASE UNCHANGED <<pending, batch, write>>
    BY <1>9, <2>2, PlacedUnchanged DEF ContinueAutomatic
  <2> QED
    BY <1>9, <2>1, <2>2 DEF ContinueAutomatic
<1>10. CASE ContinueBarrier
  <2>1. CASE StartWrite(FALSE)
    <3>1. write = "none"
      BY <1>10 DEF ContinueBarrier, BarrierShape
    <3> QED
      BY <1>10, <2>1, <3>1, PlacedStart DEF ContinueBarrier
  <2>2. CASE UNCHANGED <<pending, batch, write>>
    BY <1>10, <2>2, PlacedUnchanged DEF ContinueBarrier
  <2> QED
    BY <1>10, <2>1, <2>2 DEF ContinueBarrier, DrainLoop
<1>11. CASE RejectBarrier
  BY <1>11, PlacedUnchanged DEF RejectBarrier
<1>12. ASSUME NEW outcome \in {"ready", "failed"}, InitSettles(outcome) PROVE EventsPlaced'
  <2>1. init = "pending" /\ init' = outcome /\ UNCHANGED <<admitted, pending, write, batch, seed>>
    BY <1>12 DEF InitSettles
  <2>2. CASE outcome = "failed"
    BY <1>12, <2>1, <2>2 DEF InitSettles, EventsPlaced, DurableLength
  <2>3. CASE outcome = "ready"
    <3>1. stored' = SubSeq(admitted, 1, seed) /\ seed \in 0..Len(admitted)
      BY <1>12, <2>3, Lengths DEF InitSettles, EventsPlaced
    <3>2. Run(stored', 0) /\ Len(stored') = seed
      BY <3>1, RunPrefix DEF EventsPlaced
    <3> QED
      BY <2>1, <2>3, <3>2 DEF EventsPlaced, DurableLength
  <2> QED
    BY <2>2, <2>3
<1>13. CASE UNCHANGED vars
  BY <1>13, PlacedUnchanged
<1> QED
  BY <1>1, <1>2, <1>3, <1>4, <1>5, <1>6, <1>7, <1>8, <1>9, <1>10, <1>11, <1>12, <1>13 DEF Next, Jobs

LEMMA PlacedInductive == Spec => []EventsPlaced
<1>1. WorkInvariant /\ EventsPlaced /\ [Next]_vars => EventsPlaced'
  BY EventsPlacedStep DEF WorkInvariant
<1> QED
  BY <1>1, PlacedInit, WorkInductive, PTL DEF Spec

\* Every admitted event is in one place and in order: durable or about to be with the
\* seed, in the batch being written, or in the queue, whatever failed or overlapped.
THEOREM NoEventLost == Spec => []NothingLost
<1>1. EventsPlaced => NothingLost
  <2> SUFFICES ASSUME EventsPlaced PROVE NothingLost
    OBVIOUS
  <2> DEFINE n == Len(admitted)
             d == DurableLength
             taken == IF write = "writing" THEN batch ELSE <<>>
             p == n - Len(pending)
             s == p - Len(taken)
             fb == FilterFrom(taken, d)
             fp == FilterFrom(pending, d)
  <2>1. n \in Nat /\ d \in Nat /\ d <= n /\ Len(pending) \in Nat
    BY Lengths
  <2>2. Run(Durable, 0) /\ Len(Durable) = d
    <3>1. CASE init = "ready"
      BY <3>1 DEF EventsPlaced, Durable, DurableLength
    <3>2. CASE init # "ready"
      <4>1. seed \in 0..n
        BY Lengths DEF EventsPlaced
      <4> QED
        BY <3>2, <4>1, RunPrefix DEF EventsPlaced, Durable, DurableLength
    <3> QED
      BY <3>1, <3>2
  <2>3. Len(taken) \in Nat /\ s \in Nat /\ s <= d /\ Run(taken, s)
    <3>1. CASE write = "writing"
      BY <3>1, Lengths DEF EventsPlaced
    <3>2. CASE write # "writing"
      <4>1. Len(taken) = 0 /\ s = p /\ p <= d /\ p \in Nat
        BY <2>1, <3>2 DEF EventsPlaced
      <4> QED
        BY <3>2, <4>1, RunEmpty
    <3> QED
      BY <3>1, <3>2
  <2> HIDE DEF taken, d
  <2>4. p \in Nat /\ Run(pending, p)
    BY <2>1, <2>3 DEF EventsPlaced
  <2>5. /\ Run(fb, IF d <= s THEN s ELSE d)
        /\ Len(fb) = IF d <= s THEN Len(taken) ELSE IF d <= s + Len(taken) THEN s + Len(taken) - d ELSE 0
    BY <2>1, <2>3, FilterRun
  <2>6. /\ Run(fp, IF d <= p THEN p ELSE d)
        /\ Len(fp) = IF d <= p THEN Len(pending) ELSE IF d <= p + Len(pending) THEN p + Len(pending) - d ELSE 0
    BY <2>1, <2>4, FilterRun
  <2>7. (IF d <= s THEN s ELSE d) = d /\ Len(fb) \in Nat /\ Len(fb) = IF d <= p THEN p - d ELSE 0
    BY <2>1, <2>3, <2>4, <2>5
  <2>8. (IF d <= p THEN p ELSE d) = d + Len(fb) /\ d + Len(fb) + Len(fp) = n
    BY <2>1, <2>4, <2>6, <2>7
  <2> HIDE DEF fb, fp
  <2>9. Run(Durable \o fb, 0) /\ Len(Durable \o fb) = d + Len(fb)
    <3>1. Run(fb, 0 + Len(Durable))
      BY <2>1, <2>2, <2>5, <2>7
    <3> QED
      BY <2>2, <3>1, RunConcat
  <2>10. Run((Durable \o fb) \o fp, 0) /\ Len((Durable \o fb) \o fp) = n
    <3>1. (IF d <= p THEN p ELSE d) = 0 + Len(Durable \o fb)
      <4>1. 0 + Len(Durable \o fb) = Len(Durable \o fb)
        BY <2>1, <2>7, <2>9
      <4> QED
        BY <4>1, <2>8, <2>9
    <3>2. Run(fp, 0 + Len(Durable \o fb))
      BY <2>6, <3>1
    <3> QED
      BY <2>8, <2>9, <3>2, RunConcat
  <2>11. admitted = (Durable \o fb) \o fp
    BY <2>10, RunEqual DEF EventsPlaced
  <2> QED
    BY <2>2, <2>11 DEF NothingLost, Beyond, fb, fp, taken
<1> QED
  BY <1>1, PlacedInductive, PTL

-----------------------------------------------------------------------------
\* The refinement.

\* Nothing queued and nothing written after initialization: everything is stored.
LEMMA QuietIsStored ==
  ASSUME EventsPlaced, pending = <<>>, write = "none", init = "ready"
  PROVE  stored = admitted
<1>1. Len(pending) = 0
  OBVIOUS
<1>2. Len(stored) = Len(admitted)
  BY <1>1, Lengths DEF EventsPlaced, DurableLength
<1> QED
  BY <1>2, RunEqual DEF EventsPlaced

\* Storing more of the log in order is a step of DurableLog, or none.
LEMMA StoreRefines ==
  ASSUME EventsPlaced, EventsPlaced', UNCHANGED <<admitted, acknowledged>>, Len(stored) <= Len(stored')
  PROVE  [DL!Next]_DL!vars
<1> DEFINE n == Len(stored')
<1>1. /\ Len(stored) \in Nat /\ n \in Nat /\ Len(admitted) \in Nat
      /\ Run(stored, 0) /\ Run(stored', 0) /\ Run(admitted, 0) /\ n <= Len(admitted)
  <2>1. Run(stored', 0) /\ Len(stored') <= Len(admitted)
    BY DEF EventsPlaced
  <2> QED
    BY <2>1, Lengths, RunLength DEF EventsPlaced
<1>2. Run(SubSeq(admitted, 1, n), 0) /\ Len(SubSeq(admitted, 1, n)) = n
  BY <1>1, RunPrefix
<1>3. stored' = SubSeq(admitted, 1, n)
  BY <1>1, <1>2, RunEqual
<1>4. CASE n = Len(stored)
  <2>1. stored' = stored
    BY <1>1, <1>4, RunEqual
  <2> QED
    BY <2>1 DEF DL!vars
<1>5. CASE n # Len(stored)
  <2>1. n \in (Len(stored) + 1)..Len(admitted)
    BY <1>1, <1>5
  <2> QED
    BY <1>3, <2>1 DEF DL!Next, DL!Store
<1> QED
  BY <1>4, <1>5

LEMMA RefinementStep ==
  ASSUME WorkInvariant, EventsPlaced, EventsPlaced', [Next]_vars
  PROVE  [DL!Next]_DL!vars
<1>1. CASE Enqueue
  <2>1. Len(admitted) \in 0..(MaxEvents - 1)
    BY <1>1, Lengths, BoundsAssumption DEF Enqueue
  <2> QED
    BY <1>1, <2>1 DEF Enqueue, DL!Next, DL!Admit
<1>2. CASE RequestFlush
  BY <1>2 DEF RequestFlush, DL!vars
<1>3. CASE ProceedFlush
  <2>1. CASE UNCHANGED <<admitted, stored, acknowledged>>
    BY <2>1 DEF DL!vars
  <2>2. CASE Resolve /\ Drained /\ write = "none" /\ init = "ready" /\ UNCHANGED <<admitted, stored>>
    BY <2>2, QuietIsStored DEF Resolve, Drained, DL!Next, DL!Acknowledge
  <2> QED
    BY <1>3, <2>1, <2>2 DEF ProceedFlush, Flush
<1>4. CASE Crash
  BY <1>4 DEF Crash, DL!Next, DL!Lose
<1>5. CASE Deadline
  BY <1>5 DEF Deadline, DL!vars
<1>6. CASE WriteSucceeds
  <2>1. stored' = stored \o Fresh(batch) /\ UNCHANGED <<admitted, acknowledged>> /\ write = "writing"
    BY <1>6 DEF WriteSucceeds
  <2>2. Len(stored) <= Len(stored')
    <3>1. Len(stored) \in Nat /\ Len(pending) \in Nat /\ Len(batch) \in Nat /\ Len(admitted) \in Nat
      BY <2>1, Lengths
    <3> DEFINE s == Len(admitted) - Len(pending) - Len(batch)
    <3>2. s \in Nat /\ Run(batch, s)
      BY <2>1, <3>1 DEF EventsPlaced
    <3> HIDE DEF s
    <3>3. Fresh(batch) \in Seq(Nat) /\ stored \in Seq(Nat)
      BY <3>1, <3>2, FilterRun DEF Fresh, EventsPlaced, Run
    <3>4. Len(stored') = Len(stored) + Len(Fresh(batch)) /\ Len(Fresh(batch)) \in Nat
      BY <2>1, <3>3, ConcatProperties, LenProperties
    <3> QED
      BY <3>1, <3>4
  <2> QED
    BY <2>1, <2>2, StoreRefines
<1>7. CASE WriteFails
  BY <1>7 DEF WriteFails, DL!vars
<1>8. CASE Finally
  BY <1>8 DEF Finally, DL!vars
<1>9. CASE ContinueAutomatic
  BY <1>9 DEF ContinueAutomatic, DL!vars
<1>10. CASE ContinueBarrier
  <2>1. write = "none" /\ init = "ready" /\ UNCHANGED <<admitted, stored>>
    BY <1>10 DEF ContinueBarrier, WorkInvariant, BarrierShape
  <2>2. CASE UNCHANGED acknowledged
    BY <2>1, <2>2 DEF DL!vars
  <2>3. CASE Resolve /\ Drained
    BY <2>1, <2>3, QuietIsStored DEF Resolve, Drained, DL!Next, DL!Acknowledge
  <2> QED
    BY <1>10, <2>2, <2>3 DEF ContinueBarrier, DrainLoop
<1>11. CASE RejectBarrier
  BY <1>11 DEF RejectBarrier, DL!vars
<1>12. ASSUME NEW outcome \in {"ready", "failed"}, InitSettles(outcome) PROVE [DL!Next]_DL!vars
  <2>1. UNCHANGED <<admitted, acknowledged>> /\ init = "pending" /\ (stored' = stored \/ stored' = SubSeq(admitted, 1, seed))
    BY <1>12 DEF InitSettles
  <2>2. seed \in 0..Len(admitted) /\ Len(stored) <= seed /\ Len(stored) \in Nat
    BY <2>1, Lengths DEF EventsPlaced
  <2>3. Len(SubSeq(admitted, 1, seed)) = seed
    BY <2>2, RunPrefix DEF EventsPlaced
  <2>4. Len(stored) <= Len(stored')
    BY <2>1, <2>2, <2>3
  <2> QED
    BY <2>1, <2>4, StoreRefines
<1>13. CASE UNCHANGED vars
  BY <1>13 DEF DL!vars
<1> QED
  BY <1>1, <1>2, <1>3, <1>4, <1>5, <1>6, <1>7, <1>8, <1>9, <1>10, <1>11, <1>12, <1>13 DEF Next, Jobs

\* The write controller implements the durable log: events become durable in the order
\* they were admitted, each once, and a resolved flush means that all were stored.
THEOREM WriteBehindRefinesDurableLog == Spec => ImplementsDurableLog
<1>1. Init => DL!Init
  <2> SUFFICES ASSUME Init PROVE DL!Init
    OBVIOUS
  <2>1. Len(admitted) = seed
    BY BoundsAssumption DEF Init
  <2> QED
    BY <2>1 DEF Init, DL!Init
<1>2. WorkInvariant /\ EventsPlaced /\ EventsPlaced' /\ [Next]_vars => [DL!Next]_DL!vars
  BY RefinementStep
<1> QED
  BY <1>1, <1>2, WorkInductive, PlacedInductive, PTL DEF Spec, ImplementsDurableLog, DL!Spec

=============================================================================
