--------------------------- MODULE ToolCallsProofs ---------------------------
(***************************************************************************)
(* Proofs about ToolCalls for any number of calls and any pool size.       *)
(***************************************************************************)
EXTENDS ToolCalls, SequenceTheorems, FiniteSetTheorems, TLAPS

USE CallsAssumption DEF groupVars, poolVars, resultVars, vars, Calls

-----------------------------------------------------------------------------
\* Types and the shape of a group.

\* The events the scheduler appends are events.
LEMMA EventTypes ==
  ASSUME NEW i \in Calls, NEW c \in BOOLEAN
  PROVE  ToolCall(i) \in Events /\ ToolResult(i, c) \in Events
BY DEF ToolCall, ToolResult, Events

\* What an abort appends for the calls from..N: a call and a result for each.
LEMMA SkippedEvents ==
  ASSUME NEW from \in 1..(N + 1)
  PROVE  /\ Skipped(from, N) \in Seq(Events)
         /\ Len(Skipped(from, N)) = 2 * (N + 1 - from)
         /\ \A k \in 1..(2 * (N + 1 - from)) :
              /\ Skipped(from, N)[k].call = from + (k - 1) \div 2
              /\ Skipped(from, N)[k].type = IF k % 2 = 1 THEN "tool/call" ELSE "tool/result"
              /\ k % 2 # 1 => Skipped(from, N)[k].concludes = FALSE
<1> DEFINE n == 2 * (N + 1 - from)
           s == Skipped(from, N)
<1>1. n \in Nat
  OBVIOUS
<1>2. ASSUME NEW k \in 1..n
      PROVE  /\ s[k] \in Events
             /\ s[k].call = from + (k - 1) \div 2
             /\ s[k].type = IF k % 2 = 1 THEN "tool/call" ELSE "tool/result"
             /\ k % 2 # 1 => s[k].concludes = FALSE
  <2> DEFINE i == from + (k - 1) \div 2
  <2>1. i \in Calls
    OBVIOUS
  <2>2. s[k] = IF k % 2 = 1
               THEN [type |-> "tool/call", call |-> i, skipped |-> TRUE]
               ELSE [type |-> "tool/result", call |-> i, skipped |-> TRUE, concludes |-> FALSE]
    BY DEF Skipped
  <2> HIDE DEF i, s
  <2>3. /\ s[k] \in Events
        /\ s[k].call = i
        /\ s[k].type = IF k % 2 = 1 THEN "tool/call" ELSE "tool/result"
        /\ k % 2 # 1 => s[k].concludes = FALSE
    BY <2>1, <2>2 DEF Events
  <2> QED
    BY <2>3 DEF i
<1>3. s \in [1..n -> Events]
  BY <1>2 DEF Skipped
<1>4. s \in Seq(Events) /\ Len(s) = n
  BY <1>1, <1>3
<1> QED
  BY <1>2, <1>4

\* The group's calls: started ones are below next, and committed ones below that.
GroupShape ==
  /\ base <= next /\ next <= GroupEnd + 1
  /\ pc \in {"preparing", "prepared"} => next <= GroupEnd
  /\ committed < next
  /\ \A i \in Calls :
       slots[i] # "none" \/ i \in inFlight => i < next \/ (pc = "prepared" /\ i = next)
  /\ \A i \in inFlight : base <= i
  /\ pc = "finalizing" => committed + 1 \in Calls /\ slots[committed + 1] # "none"
  /\ pc \in {"groupDone", "classify", "done"} => inFlight = {}

LEMMA TypeInit == Init => TypeOK /\ GroupShape
<1> SUFFICES ASSUME Init PROVE TypeOK /\ GroupShape
  OBVIOUS
<1>1. ControlTypeOK /\ GroupShape
  BY DEF Init, ControlTypeOK, GroupShape, GroupEnd, Modes
<1>2. FlagTypeOK
  BY DEF Init, FlagTypeOK
<1>3. RecordTypeOK
  BY DEF Init, RecordTypeOK
<1> QED
  BY <1>1, <1>2, <1>3 DEF TypeOK

LEMMA ControlTypeOKStep ==
  ASSUME ControlTypeOK, GroupShape, [Next]_vars
  PROVE  ControlTypeOK'
<1> USE DEF ControlTypeOK, GroupShape, GroupEnd, Modes
<1>1. CASE Abort
  BY <1>1 DEF Abort
<1>2. ASSUME NEW i \in Calls, NEW outcome \in {"post", "final", "reject"}, BodySettles(i, outcome) PROVE ControlTypeOK'
  BY <1>2 DEF BodySettles
<1>3. ASSUME NEW m \in Modes, Classify(m) PROVE ControlTypeOK'
  BY <1>3 DEF Classify
<1>4. ASSUME NEW m \in Modes, FillPool(m) PROVE ControlTypeOK'
  BY <1>4 DEF FillPool, StartCall, MayJoin
<1>5. ASSUME NEW outcome \in {"dispatch", "post", "final", "reject"}, Prepared(outcome) PROVE ControlTypeOK'
  <2>1. next \in Calls /\ pc = "preparing"
    BY <1>5 DEF Prepared
  <2>2. CASE Fails /\ UNCHANGED <<slots, inFlight>>
    BY <1>5, <2>2 DEF Prepared, Fails
  <2>3. CASE pc' = "prepared" /\ outcome = "dispatch" /\ inFlight' = inFlight \cup {next} /\ UNCHANGED slots
    BY <1>5, <2>1, <2>3 DEF Prepared
  <2>4. CASE pc' = "prepared" /\ outcome \in {"post", "final"} /\ slots' = [slots EXCEPT ![next] = outcome] /\ UNCHANGED inFlight
    BY <1>5, <2>1, <2>4 DEF Prepared
  <2> QED
    BY <1>5, <2>2, <2>3, <2>4 DEF Prepared
<1>6. CASE Started
  BY <1>6 DEF Started, Fails
<1>7. CASE Committed
  BY <1>7 DEF Committed, Fails, SeesAbort
<1>8. CASE LeaveGroup
  BY <1>8 DEF LeaveGroup
<1>9. CASE GroupDone
  BY <1>9 DEF GroupDone
<1>10. CASE Rethrow
  BY <1>10 DEF Rethrow
<1>11. ASSUME NEW concludes \in BOOLEAN, NEW context \in BOOLEAN, CommitReady(concludes, context) PROVE ControlTypeOK'
  BY <1>11 DEF CommitReady, Commit, Ready, Filled, NextToCommit
<1>12. ASSUME NEW concludes \in BOOLEAN, NEW context \in BOOLEAN, NEW ok \in BOOLEAN, Finalized(ok, concludes, context) PROVE ControlTypeOK'
  BY <1>12 DEF Finalized, Commit, NextToCommit, Fails
<1>13. ASSUME NEW i \in Calls, RaceSettles(i) PROVE ControlTypeOK'
  BY <1>13 DEF RaceSettles, Fails
<1>14. CASE UNCHANGED vars
  BY <1>14
<1> QED
  BY <1>1, <1>2, <1>3, <1>4, <1>5, <1>6, <1>7, <1>8, <1>9, <1>10, <1>11, <1>12, <1>13, <1>14
     DEF Next, Bodies, Scheduler

LEMMA FlagTypeOKStep ==
  ASSUME FlagTypeOK, [Next]_vars
  PROVE  FlagTypeOK'
<1> USE DEF FlagTypeOK
<1>1. CASE Abort
  BY <1>1 DEF Abort
<1>2. ASSUME NEW i \in Calls, NEW outcome \in {"post", "final", "reject"}, BodySettles(i, outcome) PROVE FlagTypeOK'
  BY <1>2 DEF BodySettles
<1>3. ASSUME NEW m \in Modes, Classify(m) PROVE FlagTypeOK'
  BY <1>3 DEF Classify
<1>4. ASSUME NEW m \in Modes, FillPool(m) PROVE FlagTypeOK'
  BY <1>4 DEF FillPool, StartCall, MayJoin
<1>5. ASSUME NEW outcome \in {"dispatch", "post", "final", "reject"}, Prepared(outcome) PROVE FlagTypeOK'
  BY <1>5 DEF Prepared, MayDispatch, Fails
<1>6. CASE Started
  BY <1>6 DEF Started, Fails
<1>7. CASE Committed
  BY <1>7 DEF Committed, Fails, SeesAbort
<1>8. CASE LeaveGroup
  BY <1>8 DEF LeaveGroup
<1>9. CASE GroupDone
  BY <1>9 DEF GroupDone
<1>10. CASE Rethrow
  BY <1>10 DEF Rethrow
<1>11. ASSUME NEW concludes \in BOOLEAN, NEW context \in BOOLEAN, CommitReady(concludes, context) PROVE FlagTypeOK'
  BY <1>11 DEF CommitReady, Commit, Ready, Filled, NextToCommit
<1>12. ASSUME NEW concludes \in BOOLEAN, NEW context \in BOOLEAN, NEW ok \in BOOLEAN, Finalized(ok, concludes, context) PROVE FlagTypeOK'
  BY <1>12 DEF Finalized, Commit, NextToCommit, Fails
<1>13. ASSUME NEW i \in Calls, RaceSettles(i) PROVE FlagTypeOK'
  BY <1>13 DEF RaceSettles, Fails
<1>14. CASE UNCHANGED vars
  BY <1>14
<1> QED
  BY <1>1, <1>2, <1>3, <1>4, <1>5, <1>6, <1>7, <1>8, <1>9, <1>10, <1>11, <1>12, <1>13, <1>14
     DEF Next, Bodies, Scheduler

LEMMA GroupShapeStep ==
  ASSUME ControlTypeOK, GroupShape, [Next]_vars
  PROVE  GroupShape'
<1> USE DEF ControlTypeOK, GroupShape, GroupEnd, Modes
<1>1. CASE Abort
  BY <1>1 DEF Abort
<1>2. ASSUME NEW i \in Calls, NEW outcome \in {"post", "final", "reject"}, BodySettles(i, outcome) PROVE GroupShape'
  BY <1>2 DEF BodySettles
<1>3. ASSUME NEW m \in Modes, Classify(m) PROVE GroupShape'
  BY <1>3 DEF Classify
<1>4. ASSUME NEW m \in Modes, FillPool(m) PROVE GroupShape'
  BY <1>4 DEF FillPool, StartCall, MayJoin
<1>5. ASSUME NEW outcome \in {"dispatch", "post", "final", "reject"}, Prepared(outcome) PROVE GroupShape'
  <2>1. next \in Calls /\ pc = "preparing"
    BY <1>5 DEF Prepared
  <2>2. CASE Fails /\ UNCHANGED <<slots, inFlight>>
    BY <1>5, <2>2 DEF Prepared, Fails
  <2>3. CASE pc' = "prepared" /\ outcome = "dispatch" /\ inFlight' = inFlight \cup {next} /\ UNCHANGED slots
    BY <1>5, <2>1, <2>3 DEF Prepared
  <2>4. CASE pc' = "prepared" /\ outcome \in {"post", "final"} /\ slots' = [slots EXCEPT ![next] = outcome] /\ UNCHANGED inFlight
    BY <1>5, <2>1, <2>4 DEF Prepared
  <2> QED
    BY <1>5, <2>2, <2>3, <2>4 DEF Prepared
<1>6. CASE Started
  BY <1>6 DEF Started, Fails
<1>7. CASE Committed
  BY <1>7 DEF Committed, Fails, SeesAbort
<1>8. CASE LeaveGroup
  BY <1>8 DEF LeaveGroup
<1>9. CASE GroupDone
  BY <1>9 DEF GroupDone
<1>10. CASE Rethrow
  BY <1>10 DEF Rethrow
<1>11. ASSUME NEW concludes \in BOOLEAN, NEW context \in BOOLEAN, CommitReady(concludes, context) PROVE GroupShape'
  BY <1>11 DEF CommitReady, Commit, Ready, Filled, NextToCommit
<1>12. ASSUME NEW concludes \in BOOLEAN, NEW context \in BOOLEAN, NEW ok \in BOOLEAN, Finalized(ok, concludes, context) PROVE GroupShape'
  BY <1>12 DEF Finalized, Commit, NextToCommit, Fails
<1>13. ASSUME NEW i \in Calls, RaceSettles(i) PROVE GroupShape'
  BY <1>13 DEF RaceSettles, Fails
<1>14. CASE UNCHANGED vars
  BY <1>14
<1> QED
  BY <1>1, <1>2, <1>3, <1>4, <1>5, <1>6, <1>7, <1>8, <1>9, <1>10, <1>11, <1>12, <1>13, <1>14
     DEF Next, Bodies, Scheduler

\* Committing a result: its call was started, and the records stay typed.
LEMMA CommitTypes ==
  ASSUME ControlTypeOK, GroupShape, RecordTypeOK, NEW concludes \in BOOLEAN, NEW context \in BOOLEAN,
         CommitReady(concludes, context) \/ \E ok \in BOOLEAN : Finalized(ok, concludes, context)
  PROVE  \/ UNCHANGED resultVars
         \/ /\ Commit(concludes, context)
            /\ committed + 1 \in Calls /\ committed + 1 < next
            /\ log' \in Seq(Events) /\ accepted' \in Seq(Calls)
<1> USE DEF ControlTypeOK, GroupShape, RecordTypeOK
<1>1. ASSUME Commit(concludes, context), committed + 1 \in Calls
      PROVE  log' \in Seq(Events) /\ accepted' \in Seq(Calls)
  <2>1. ToolResult(committed + 1, concludes) \in Events
    BY <1>1, EventTypes
  <2>2. log' = Append(log, ToolResult(committed + 1, concludes))
    BY <1>1 DEF Commit, NextToCommit
  <2>3. accepted' = accepted \/ accepted' = Append(accepted, committed + 1)
    BY <1>1 DEF Commit, NextToCommit
  <2>4. log' \in Seq(Events)
    BY <2>1, <2>2, AppendProperties
  <2>5. Append(accepted, committed + 1) \in Seq(Calls)
    BY <1>1, AppendProperties
  <2>6. accepted' \in Seq(Calls)
    BY <2>3, <2>5
  <2> QED
    BY <2>4, <2>6
<1>2. CASE CommitReady(concludes, context)
  <2>1. CASE UNCHANGED resultVars
    BY <2>1
  <2>2. CASE Ready /\ Commit(concludes, context) /\ pc = "commit"
    <3>1. committed + 1 \in Calls /\ committed + 1 < next
      BY <2>2 DEF Ready, Filled, NextToCommit
    <3> QED
      BY <1>1, <2>2, <3>1
  <2> QED
    BY <1>2, <2>1, <2>2 DEF CommitReady
<1>3. ASSUME NEW ok \in BOOLEAN, Finalized(ok, concludes, context)
      PROVE  \/ UNCHANGED resultVars
             \/ /\ Commit(concludes, context)
                /\ committed + 1 \in Calls /\ committed + 1 < next
                /\ log' \in Seq(Events) /\ accepted' \in Seq(Calls)
  <2>1. pc = "finalizing" /\ (UNCHANGED resultVars \/ Commit(concludes, context))
    BY <1>3 DEF Finalized
  <2>2. committed + 1 \in Calls /\ committed + 1 < next
    BY <2>1
  <2> QED
    BY <1>1, <2>1, <2>2
<1> QED
  BY <1>2, <1>3

LEMMA RecordTypeOKStep ==
  ASSUME ControlTypeOK, GroupShape, RecordTypeOK, [Next]_vars
  PROVE  RecordTypeOK'
<1> USE DEF RecordTypeOK, ControlTypeOK
<1>1. CASE Abort
  BY <1>1 DEF Abort
<1>2. ASSUME NEW i \in Calls, NEW outcome \in {"post", "final", "reject"}, BodySettles(i, outcome) PROVE RecordTypeOK'
  BY <1>2 DEF BodySettles
<1>3. ASSUME NEW m \in Modes, Classify(m) PROVE RecordTypeOK'
  BY <1>3 DEF Classify
<1>4. ASSUME NEW m \in Modes, FillPool(m) PROVE RecordTypeOK'
  <2>1. CASE log' = log
    BY <1>4, <2>1 DEF FillPool
  <2>2. CASE next <= GroupEnd /\ log' = Append(log, ToolCall(next))
    <3>1. next \in Calls
      BY <2>2 DEF GroupEnd
    <3>2. ToolCall(next) \in Events
      BY <3>1, EventTypes
    <3> QED
      BY <1>4, <2>2, <3>2 DEF FillPool
  <2> QED
    BY <1>4, <2>1, <2>2 DEF FillPool, StartCall
<1>5. ASSUME NEW outcome \in {"dispatch", "post", "final", "reject"}, Prepared(outcome) PROVE RecordTypeOK'
  BY <1>5 DEF Prepared, MayDispatch, Fails
<1>6. CASE Started
  BY <1>6 DEF Started, Fails
<1>7. CASE Committed
  BY <1>7 DEF Committed, Fails, SeesAbort
<1>8. CASE LeaveGroup
  <2>1. Skipped(next, N) \in Seq(Events)
    BY SkippedEvents
  <2>2. log' = log \/ log' = log \o Skipped(next, N)
    BY <1>8 DEF LeaveGroup, SkippedTo
  <2>3. log \o Skipped(next, N) \in Seq(Events)
    BY <2>1, ConcatProperties
  <2>4. log' \in Seq(Events)
    BY <2>2, <2>3
  <2> QED
    BY <1>8, <2>4 DEF LeaveGroup
<1>9. CASE GroupDone
  BY <1>9 DEF GroupDone
<1>10. CASE Rethrow
  BY <1>10 DEF Rethrow
<1>11. ASSUME NEW concludes \in BOOLEAN, NEW context \in BOOLEAN, CommitReady(concludes, context) PROVE RecordTypeOK'
  BY <1>11, CommitTypes
<1>12. ASSUME NEW concludes \in BOOLEAN, NEW context \in BOOLEAN, NEW ok \in BOOLEAN, Finalized(ok, concludes, context) PROVE RecordTypeOK'
  BY <1>12, CommitTypes
<1>13. ASSUME NEW i \in Calls, RaceSettles(i) PROVE RecordTypeOK'
  BY <1>13 DEF RaceSettles, Fails
<1>14. CASE UNCHANGED vars
  BY <1>14
<1> QED
  BY <1>1, <1>2, <1>3, <1>4, <1>5, <1>6, <1>7, <1>8, <1>9, <1>10, <1>11, <1>12, <1>13, <1>14
     DEF Next, Bodies, Scheduler

LEMMA ShapeCorrect == Spec => [](TypeOK /\ GroupShape)
<1>1. TypeOK /\ GroupShape /\ [Next]_vars => TypeOK' /\ GroupShape'
  BY ControlTypeOKStep, FlagTypeOKStep, RecordTypeOKStep, GroupShapeStep DEF TypeOK
<1> QED
  BY <1>1, TypeInit, PTL DEF Spec

\* In every reachable state of the scheduler every variable has its type.
THEOREM TypeCorrect == Spec => []TypeOK
BY ShapeCorrect, PTL

-----------------------------------------------------------------------------
\* Commits and failures.

\* A failure that the scheduler has not acted on is that of a call in settled, which only
\* the main loop removes; without one, a started call is running or has its slot; and where
\* commitReady has just looked, the next slot is one that was filled since.
CommitsKeepUp ==
  /\ failure => pc \in {"draining", "failed"} \/ settled # {}
  /\ \A i \in Calls :
       ~failure /\ (i < next \/ (pc = "prepared" /\ i = next)) => i \in inFlight \ settled \/ slots[i] # "none"
  /\ pc \in {"committed", "fill", "racing"} /\ committed < GroupEnd /\ committed + 1 \in Calls
       /\ slots[committed + 1] # "none" => committed + 1 \in inFlight
  /\ pc \in {"groupDone", "classify"} => committed + 1 = next

\* A group without calls in flight has committed all it started.
LEMMA AllCommitted ==
  ASSUME ControlTypeOK, GroupShape, CommitsKeepUp, pc = "racing", inFlight = {}
  PROVE  ~failure /\ committed + 1 = next
<1> USE DEF ControlTypeOK, GroupShape, CommitsKeepUp
<1>1. ~failure
  OBVIOUS
<1>2. ASSUME committed + 1 < next PROVE FALSE
  <2>1. committed + 1 \in Calls /\ committed < GroupEnd
    BY <1>2 DEF GroupEnd
  <2>2. slots[committed + 1] # "none"
    BY <1>1, <1>2, <2>1
  <2> QED
    BY <2>1, <2>2
<1> QED
  BY <1>1, <1>2

LEMMA CommitsKeepUpStep ==
  ASSUME ControlTypeOK, FlagTypeOK, GroupShape, CommitsKeepUp, [Next]_vars
  PROVE  CommitsKeepUp'
<1> USE DEF ControlTypeOK, FlagTypeOK, GroupShape, CommitsKeepUp, GroupEnd, Modes
<1>1. CASE Abort
  BY <1>1 DEF Abort
<1>2. ASSUME NEW i \in Calls, NEW outcome \in {"post", "final", "reject"}, BodySettles(i, outcome) PROVE CommitsKeepUp'
  BY <1>2 DEF BodySettles
<1>3. ASSUME NEW m \in Modes, Classify(m) PROVE CommitsKeepUp'
  BY <1>3 DEF Classify
<1>4. ASSUME NEW m \in Modes, FillPool(m) PROVE CommitsKeepUp'
  BY <1>4 DEF FillPool, StartCall, MayJoin
<1>5. ASSUME NEW outcome \in {"dispatch", "post", "final", "reject"}, Prepared(outcome) PROVE CommitsKeepUp'
  <2>1. next \in Calls /\ pc = "preparing"
    BY <1>5 DEF Prepared
  <2>2. CASE Fails /\ UNCHANGED <<slots, inFlight>>
    BY <1>5, <2>2 DEF Prepared, Fails
  <2>3. CASE ~failure /\ pc' = "prepared" /\ outcome = "dispatch" /\ inFlight' = inFlight \cup {next} /\ UNCHANGED <<slots, failure>>
    BY <1>5, <2>1, <2>3 DEF Prepared
  <2>4. CASE ~failure /\ pc' = "prepared" /\ outcome \in {"post", "final"} /\ slots' = [slots EXCEPT ![next] = outcome] /\ UNCHANGED <<inFlight, failure>>
    BY <1>5, <2>1, <2>4 DEF Prepared
  <2> QED
    BY <1>5, <2>2, <2>3, <2>4 DEF Prepared, MayDispatch
<1>6. CASE Started
  BY <1>6 DEF Started, Fails
<1>7. CASE Committed
  BY <1>7 DEF Committed, Fails, SeesAbort
<1>8. CASE LeaveGroup
  <2>1. pc = "racing" /\ inFlight = {} /\ settled = {}
    BY <1>8 DEF LeaveGroup
  <2>2. ~failure /\ committed + 1 = next
    BY <2>1, AllCommitted
  <2> QED
    BY <1>8, <2>1, <2>2 DEF LeaveGroup
<1>9. CASE GroupDone
  BY <1>9 DEF GroupDone
<1>10. CASE Rethrow
  BY <1>10 DEF Rethrow
<1>11. ASSUME NEW concludes \in BOOLEAN, NEW context \in BOOLEAN, CommitReady(concludes, context) PROVE CommitsKeepUp'
  BY <1>11 DEF CommitReady, Commit, Ready, Filled, NextToCommit
<1>12. ASSUME NEW concludes \in BOOLEAN, NEW context \in BOOLEAN, NEW ok \in BOOLEAN, Finalized(ok, concludes, context) PROVE CommitsKeepUp'
  BY <1>12 DEF Finalized, Commit, NextToCommit, Fails
<1>13. ASSUME NEW i \in Calls, RaceSettles(i) PROVE CommitsKeepUp'
  BY <1>13 DEF RaceSettles, Fails
<1>14. CASE UNCHANGED vars
  BY <1>14
<1> QED
  BY <1>1, <1>2, <1>3, <1>4, <1>5, <1>6, <1>7, <1>8, <1>9, <1>10, <1>11, <1>12, <1>13, <1>14
     DEF Next, Bodies, Scheduler


-----------------------------------------------------------------------------
\* Exclusive calls.

\* A call started as a barrier belongs to an earlier group or is the only call of this one.
BarriersAlone ==
  \A i \in exclusive :
    /\ i < base \/ (i = base /\ mode = "exclusive")
    /\ i < next \/ (i = next /\ pc \in {"preparing", "prepared", "draining", "failed"})

LEMMA BarriersAloneStep ==
  ASSUME ControlTypeOK, GroupShape, BarriersAlone, [Next]_vars
  PROVE  BarriersAlone'
<1> USE DEF ControlTypeOK, GroupShape, BarriersAlone, GroupEnd, Modes
<1>1. CASE Abort
  BY <1>1 DEF Abort
<1>2. ASSUME NEW i \in Calls, NEW outcome \in {"post", "final", "reject"}, BodySettles(i, outcome) PROVE BarriersAlone'
  BY <1>2 DEF BodySettles
<1>3. ASSUME NEW m \in Modes, Classify(m) PROVE BarriersAlone'
  BY <1>3 DEF Classify
<1>4. ASSUME NEW m \in Modes, FillPool(m) PROVE BarriersAlone'
  <2>1. CASE pc' = "racing" /\ UNCHANGED exclusive
    BY <1>4, <2>1 DEF FillPool
  <2>2. CASE StartCall(m) /\ MayJoin(m)
    <3>1. exclusive' \subseteq exclusive \cup {next} /\ (next \in exclusive' \ exclusive => next = base /\ mode = "exclusive")
      BY <2>2 DEF StartCall, MayJoin
    <3> QED
      BY <1>4, <2>2, <3>1 DEF FillPool, StartCall
  <2> QED
    BY <1>4, <2>1, <2>2 DEF FillPool
<1>5. ASSUME NEW outcome \in {"dispatch", "post", "final", "reject"}, Prepared(outcome) PROVE BarriersAlone'
  BY <1>5 DEF Prepared, MayDispatch, Fails
<1>6. CASE Started
  BY <1>6 DEF Started, Fails
<1>7. CASE Committed
  BY <1>7 DEF Committed, Fails, SeesAbort
<1>8. CASE LeaveGroup
  BY <1>8 DEF LeaveGroup
<1>9. CASE GroupDone
  BY <1>9 DEF GroupDone
<1>10. CASE Rethrow
  BY <1>10 DEF Rethrow
<1>11. ASSUME NEW concludes \in BOOLEAN, NEW context \in BOOLEAN, CommitReady(concludes, context) PROVE BarriersAlone'
  BY <1>11 DEF CommitReady, Commit, Ready, Filled, NextToCommit
<1>12. ASSUME NEW concludes \in BOOLEAN, NEW context \in BOOLEAN, NEW ok \in BOOLEAN, Finalized(ok, concludes, context) PROVE BarriersAlone'
  BY <1>12 DEF Finalized, Commit, NextToCommit, Fails
<1>13. ASSUME NEW i \in Calls, RaceSettles(i) PROVE BarriersAlone'
  BY <1>13 DEF RaceSettles, Fails
<1>14. CASE UNCHANGED vars
  BY <1>14
<1> QED
  BY <1>1, <1>2, <1>3, <1>4, <1>5, <1>6, <1>7, <1>8, <1>9, <1>10, <1>11, <1>12, <1>13, <1>14
     DEF Next, Bodies, Scheduler


\* An exclusive call never shares its execution: while it is prepared or runs, nothing
\* else is.
THEOREM ExclusiveRunsAlone == Spec => []ExclusiveAlone
<1>1. Init => BarriersAlone
  BY DEF Init, BarriersAlone
<1>2. ControlTypeOK /\ GroupShape /\ BarriersAlone => ExclusiveAlone
  <2> SUFFICES ASSUME ControlTypeOK, GroupShape, BarriersAlone, NEW i \in Executing \cap exclusive
               PROVE  Executing = {i}
    BY DEF ExclusiveAlone
  <2> USE DEF ControlTypeOK, GroupShape, BarriersAlone
  <2>1. \A k \in Executing : base <= k /\ k \in Int
    BY DEF Executing
  <2>2. i = base /\ mode = "exclusive"
    BY <2>1
  <2>3. \A k \in Executing : k <= base
    BY <2>2 DEF Executing, GroupEnd
  <2>4. \A k \in Executing : k = i
    BY <2>1, <2>2, <2>3
  <2> QED
    BY <2>4
<1>3. ControlTypeOK /\ GroupShape /\ BarriersAlone /\ [Next]_vars => BarriersAlone'
  BY BarriersAloneStep
<1> QED
  BY <1>1, <1>2, <1>3, ShapeCorrect, PTL DEF Spec, TypeOK

-----------------------------------------------------------------------------
\* The abort signal.

\* Where the scheduler is about to start a call, the group has seen an abort.
FillSeesAbort == pc = "fill" /\ signal => aborted

LEMMA FillSeesAbortStep ==
  ASSUME FlagTypeOK, FillSeesAbort, [Next]_vars
  PROVE  FillSeesAbort'
<1> USE DEF FlagTypeOK, FillSeesAbort, Suspended
<1>1. CASE Abort
  BY <1>1 DEF Abort
<1>2. ASSUME NEW i \in Calls, NEW outcome \in {"post", "final", "reject"}, BodySettles(i, outcome) PROVE FillSeesAbort'
  BY <1>2 DEF BodySettles
<1>3. ASSUME NEW m \in Modes, Classify(m) PROVE FillSeesAbort'
  BY <1>3 DEF Classify
<1>4. ASSUME NEW m \in Modes, FillPool(m) PROVE FillSeesAbort'
  BY <1>4 DEF FillPool, StartCall, MayJoin
<1>5. ASSUME NEW outcome \in {"dispatch", "post", "final", "reject"}, Prepared(outcome) PROVE FillSeesAbort'
  BY <1>5 DEF Prepared, MayDispatch, Fails
<1>6. CASE Started
  BY <1>6 DEF Started, Fails
<1>7. CASE Committed
  BY <1>7 DEF Committed, Fails, SeesAbort
<1>8. CASE LeaveGroup
  BY <1>8 DEF LeaveGroup
<1>9. CASE GroupDone
  BY <1>9 DEF GroupDone
<1>10. CASE Rethrow
  BY <1>10 DEF Rethrow
<1>11. ASSUME NEW concludes \in BOOLEAN, NEW context \in BOOLEAN, CommitReady(concludes, context) PROVE FillSeesAbort'
  BY <1>11 DEF CommitReady, Commit, Ready, Filled, NextToCommit
<1>12. ASSUME NEW concludes \in BOOLEAN, NEW context \in BOOLEAN, NEW ok \in BOOLEAN, Finalized(ok, concludes, context) PROVE FillSeesAbort'
  BY <1>12 DEF Finalized, Commit, NextToCommit, Fails
<1>13. ASSUME NEW i \in Calls, RaceSettles(i) PROVE FillSeesAbort'
  BY <1>13 DEF RaceSettles, Fails
<1>14. CASE UNCHANGED vars
  BY <1>14
<1> QED
  BY <1>1, <1>2, <1>3, <1>4, <1>5, <1>6, <1>7, <1>8, <1>9, <1>10, <1>11, <1>12, <1>13, <1>14
     DEF Next, Bodies, Scheduler

LEMMA AbortStep ==
  ASSUME TypeOK, GroupShape, FillSeesAbort, [Next]_vars
  PROVE  [signal /\ log' # log => LET e == log'[Len(log')] IN e.type = "tool/result"]_vars
<1> SUFFICES ASSUME signal, log' # log PROVE log'[Len(log')].type = "tool/result"
  OBVIOUS
<1> USE DEF TypeOK, ControlTypeOK, RecordTypeOK
<1>1. ASSUME NEW concludes \in BOOLEAN, NEW context \in BOOLEAN,
             CommitReady(concludes, context) \/ \E ok \in BOOLEAN : Finalized(ok, concludes, context)
      PROVE  log'[Len(log')].type = "tool/result"
  <2>1. Commit(concludes, context) /\ committed + 1 \in Calls
    BY <1>1, CommitTypes
  <2>2. log' = Append(log, ToolResult(committed + 1, concludes)) /\ ToolResult(committed + 1, concludes) \in Events
    BY <2>1, EventTypes DEF Commit, NextToCommit
  <2>3. Len(log') = Len(log) + 1 /\ log'[Len(log) + 1] = ToolResult(committed + 1, concludes)
    BY <2>2, AppendProperties
  <2> QED
    BY <2>3 DEF ToolResult
<1>2. CASE LeaveGroup
  <2> DEFINE n == 2 * (N + 1 - next)
             s == Skipped(next, N)
  <2>1. log' = log \o s
    BY <1>2 DEF LeaveGroup, SkippedTo
  <2>2. s \in Seq(Events) /\ Len(s) = n
    BY SkippedEvents
  <2>3. log' \in Seq(Events) /\ Len(log') = Len(log) + n
    BY <2>1, <2>2, ConcatProperties
  <2>4. n \in Nat /\ n # 0
    <3> SUFFICES ASSUME n = 0 PROVE FALSE
      OBVIOUS
    <3>1. s = <<>>
      BY <2>2, EmptySeq
    <3> QED
      BY <2>1, <3>1, ConcatEmptySeq
  <2>5. log'[Len(log) + n] = s[n]
    BY <2>1, <2>2, <2>4, ConcatProperties
  <2>6. s[n].type = "tool/result"
    <3>1. n \in 1..n /\ n % 2 # 1
      BY <2>4
    <3> QED
      BY <3>1, SkippedEvents
  <2> QED
    BY <2>3, <2>5, <2>6
<1>3. ASSUME NEW m \in Modes, FillPool(m) PROVE FALSE
  BY <1>3 DEF FillPool, FillSeesAbort
<1>4. ASSUME NEW m \in Modes, Classify(m) PROVE FALSE
  BY <1>4 DEF Classify
<1>5. ASSUME Abort \/ Bodies \/ (\E outcome \in {"dispatch", "post", "final", "reject"} : Prepared(outcome))
             \/ Started \/ Committed \/ GroupDone \/ Rethrow \/ (\E i \in Calls : RaceSettles(i))
      PROVE  FALSE
  BY <1>5 DEF Abort, Bodies, BodySettles, Prepared, Started, Committed, GroupDone, Rethrow, RaceSettles
<1> QED
  BY <1>1, <1>2, <1>3, <1>4, <1>5 DEF Next, Scheduler

\* Once the signal is aborted, the scheduler starts no call: the last event of what a step
\* appends is a result.
THEOREM AbortStops == Spec => AbortStartsNothing
<1>1. Init => FillSeesAbort
  BY DEF Init, FillSeesAbort
<1>2. FlagTypeOK /\ FillSeesAbort /\ [Next]_vars => FillSeesAbort'
  BY FillSeesAbortStep
<1>3. TypeOK /\ GroupShape /\ FillSeesAbort /\ [Next]_vars
        => [signal /\ log' # log => LET e == log'[Len(log')] IN e.type = "tool/result"]_vars
  BY AbortStep
<1> QED
  BY <1>1, <1>2, <1>3, ShapeCorrect, PTL DEF Spec, TypeOK, AbortStartsNothing

-----------------------------------------------------------------------------
\* The pool.

\* At most MaxParallel bodies are in flight, the call being prepared included.
PoolBounded ==
  /\ Cardinality(inFlight) <= MaxParallel
  /\ pc = "preparing" => Cardinality(inFlight) < MaxParallel

\* The pool never runs more calls than config.maxParallelToolCalls, although slots are
\* freed and filled while bodies settle in any order.
THEOREM PoolStaysBounded == Spec => []PoolBounded
<1>1. Init => PoolBounded
  BY FS_EmptySet, PoolAssumption DEF Init, PoolBounded
<1>2. ControlTypeOK /\ PoolBounded /\ [Next]_vars => PoolBounded'
  <2> SUFFICES ASSUME ControlTypeOK, PoolBounded, [Next]_vars PROVE PoolBounded'
    OBVIOUS
  <2>1. IsFiniteSet(inFlight) /\ Cardinality(inFlight) \in Nat
    <3>1. IsFiniteSet(Calls)
      BY FS_Interval
    <3>2. IsFiniteSet(inFlight)
      BY <3>1, FS_Subset DEF ControlTypeOK
    <3> QED
      BY <3>2, FS_CardinalityType
  <2>2. CASE inFlight' = inFlight /\ (pc' = "preparing" => pc = "preparing" \/ HasRoom)
    BY <2>2 DEF PoolBounded, HasRoom
  <2>3. ASSUME NEW outcome, Prepared(outcome), inFlight' # inFlight PROVE PoolBounded'
    <3>1. inFlight' = inFlight \cup {next} /\ pc = "preparing" /\ pc' = "prepared"
      BY <2>3 DEF Prepared, Fails
    <3>2. \/ Cardinality(inFlight') = Cardinality(inFlight) + 1
          \/ Cardinality(inFlight') = Cardinality(inFlight)
      BY <2>1, <3>1, FS_AddElement
    <3> QED
      BY <2>1, <3>1, <3>2, PoolAssumption DEF PoolBounded
  <2>4. ASSUME NEW i, RaceSettles(i) PROVE PoolBounded'
    <3>1. inFlight' \subseteq inFlight /\ pc' # "preparing"
      BY <2>4 DEF RaceSettles, Fails
    <3>2. IsFiniteSet(inFlight') /\ Cardinality(inFlight') <= Cardinality(inFlight)
      BY <2>1, <3>1, FS_Subset
    <3>3. Cardinality(inFlight') \in Nat
      BY <3>2, FS_CardinalityType
    <3> QED
      BY <2>1, <3>1, <3>2, <3>3, PoolAssumption DEF PoolBounded
  <2>5. ASSUME NEW m \in Modes, Classify(m) \/ FillPool(m) PROVE inFlight' = inFlight /\ (pc' = "preparing" => HasRoom)
    BY <2>5 DEF Classify, FillPool, StartCall
  <2>6. ASSUME NEW outcome, Prepared(outcome), inFlight' = inFlight PROVE pc' # "preparing"
    BY <2>6 DEF Prepared, Fails
  <2>7. CASE Abort \/ Bodies \/ UNCHANGED vars
    BY <2>2, <2>7 DEF Abort, Bodies, BodySettles
  <2>8. CASE Started \/ Committed \/ LeaveGroup \/ GroupDone \/ Rethrow
    BY <2>2, <2>8 DEF Started, Committed, LeaveGroup, GroupDone, Rethrow, Fails
  <2>9. ASSUME NEW concludes \in BOOLEAN, NEW context \in BOOLEAN,
               CommitReady(concludes, context) \/ \E ok \in BOOLEAN : Finalized(ok, concludes, context)
        PROVE  inFlight' = inFlight /\ pc' # "preparing"
    BY <2>9 DEF CommitReady, Finalized, Commit, Fails
  <2> QED
    BY <2>2, <2>3, <2>4, <2>5, <2>6, <2>7, <2>8, <2>9 DEF Next, Scheduler
<1> QED
  BY <1>1, <1>2, ShapeCorrect, PTL DEF Spec, TypeOK

-----------------------------------------------------------------------------
\* The record.

HasCall(i) == \E k \in DOMAIN log : log[k].type = "tool/call" /\ log[k].call = i
HasResult(i) == \E k \in DOMAIN log : log[k].type = "tool/result" /\ log[k].call = i

\* What is on record follows the scheduler's counters: until the end, exactly the started
\* calls and the committed results, in model order; at an ordinary end, all of them.
RecordFollows ==
  /\ \A i \in Calls : i < next \/ (pc \in {"preparing", "prepared"} /\ i = next) \/ pc = "done" => HasCall(i)
  /\ \A i \in Calls : i <= committed \/ pc = "done" => HasResult(i)
  /\ pc # "done" => \A k \in DOMAIN log :
       /\ ~log[k].skipped
       /\ log[k].type = "tool/call" =>
            log[k].call < next \/ (log[k].call = next /\ pc \in {"preparing", "prepared", "draining", "failed"})
       /\ log[k].type = "tool/result" => log[k].call <= committed

Concludes == \E k \in DOMAIN log : log[k].type = "tool/result" /\ log[k].concludes

RecordInvariant ==
  RecordFollows /\ ModelOrder /\ (concluded <=> Concludes) /\ \A k \in DOMAIN accepted : accepted[k] <= committed

\* The events on record are events.
LEMMA RecordTyped ==
  ASSUME NEW l \in Seq(Events), NEW k \in DOMAIN l
  PROVE  /\ l[k].call \in Calls
         /\ l[k].type \in {"tool/call", "tool/result"}
         /\ l[k].skipped \in BOOLEAN
         /\ l[k].type = "tool/result" => l[k].concludes \in BOOLEAN
<1>1. l[k] \in Events
  BY ElementOfSeq, LenProperties
<1> QED
  BY <1>1 DEF Events

\* A step that appends nothing to the record.
LEMMA RecordUnchanged ==
  ASSUME TypeOK, RecordInvariant, UNCHANGED resultVars,
         next' >= next, next' \in Nat,
         next' > next => pc = "prepared" /\ next' = next + 1,
         pc # "done", pc' # "done",
         pc' \in {"preparing", "prepared"} => pc \in {"preparing", "prepared"} /\ next' = next,
         pc \in {"preparing", "prepared", "draining", "failed"} =>
           pc' \in {"preparing", "prepared", "draining", "failed"} \/ next' = next + 1
  PROVE  RecordInvariant'
<1>T. \A k \in DOMAIN log : log[k].call \in Calls
  BY RecordTyped DEF TypeOK, RecordTypeOK
<1>N. next \in Nat /\ committed \in Nat
  BY DEF TypeOK, ControlTypeOK
<1>1. RecordFollows'
  BY <1>T, <1>N DEF RecordInvariant, RecordFollows, HasCall, HasResult
<1>2. ModelOrder' /\ (concluded' <=> Concludes') /\ (\A k \in DOMAIN accepted : accepted[k] <= committed)'
  BY DEF RecordInvariant, ModelOrder, Recorded, Increasing, Concludes
<1> QED
  BY <1>1, <1>2 DEF RecordInvariant

\* An event appended to the record.
LEMMA Appended ==
  ASSUME log \in Seq(Events), NEW e \in Events, log' = Append(log, e)
  PROVE  /\ log' \in Seq(Events)
         /\ Len(log) \in Nat
         /\ DOMAIN log = 1..Len(log)
         /\ DOMAIN log' = 1..(Len(log) + 1)
         /\ \A k \in 1..Len(log) : log'[k] = log[k]
         /\ log'[Len(log) + 1] = e
<1>1. /\ log' \in Seq(Events)
      /\ Len(log') = Len(log) + 1
      /\ \A k \in 1..Len(log) : log'[k] = log[k]
      /\ log'[Len(log) + 1] = e
  BY AppendProperties
<1>2. Len(log) \in Nat /\ DOMAIN log = 1..Len(log) /\ DOMAIN log' = 1..Len(log')
  BY <1>1, LenProperties
<1> QED
  BY <1>1, <1>2

\* startCall records its call.
LEMMA RecordCall ==
  ASSUME TypeOK, GroupShape, RecordInvariant, NEW m \in Modes, FillPool(m), StartCall(m), next <= GroupEnd
  PROVE  RecordInvariant'
<1> DEFINE n == Len(log)
<1>1. next \in Calls
  BY DEF GroupEnd, Modes, TypeOK, ControlTypeOK
<1>2. ToolCall(next) \in Events /\ log' = Append(log, ToolCall(next))
  BY <1>1, EventTypes DEF StartCall
<1>3. /\ n \in Nat /\ DOMAIN log = 1..n /\ DOMAIN log' = 1..(n + 1)
      /\ \A k \in 1..n : log'[k] = log[k]
      /\ log'[n + 1] = ToolCall(next)
  BY <1>2, Appended DEF TypeOK, RecordTypeOK
<1>4. pc = "fill" /\ pc' = "preparing" /\ UNCHANGED <<next, committed, concluded, accepted>>
  BY DEF FillPool, StartCall
<1>5. ToolCall(next).type = "tool/call" /\ ToolCall(next).call = next /\ ~ToolCall(next).skipped
  BY DEF ToolCall
<1> HIDE DEF n
<1>N. next \in Nat /\ committed \in Nat
  BY DEF TypeOK, ControlTypeOK
<1>T. \A k \in 1..n : log[k].call \in Calls
  BY <1>3, RecordTyped DEF TypeOK, RecordTypeOK
<1>6. RecordFollows'
  <2>1. \A i \in Calls : HasCall(i) => HasCall(i)'
    BY <1>3 DEF HasCall
  <2>2. \A i \in Calls : HasResult(i) => HasResult(i)'
    BY <1>3 DEF HasResult
  <2>3. HasCall(next)'
    BY <1>3, <1>4, <1>5 DEF HasCall
  <2>4. \A k \in DOMAIN log' :
          /\ ~log'[k].skipped /\ log'[k].call \in Calls
          /\ log'[k].type = "tool/call" => log'[k].call <= next
          /\ log'[k].type = "tool/result" => log'[k].call <= committed
    BY <1>1, <1>3, <1>4, <1>5, <1>T, <1>N DEF RecordInvariant, RecordFollows
  <2> QED
    BY <1>1, <1>N, <1>4, <2>1, <2>2, <2>3, <2>4 DEF RecordInvariant, RecordFollows
<1>7. ModelOrder'
  <2>1. (\A a, b \in DOMAIN log : a < b /\ log[a].type = log[b].type => log[a].call < log[b].call)'
    <3>1. \A k \in 1..n : log[k].type = "tool/call" => log[k].call < next
      BY <1>3, <1>4 DEF RecordInvariant, RecordFollows
    <3>2. \A a, b \in 1..n : a < b /\ log[a].type = log[b].type => log[a].call < log[b].call
      BY <1>3 DEF RecordInvariant, ModelOrder
    <3> QED
      BY <1>1, <1>3, <1>5, <1>T, <3>1, <3>2
  <2>2. ASSUME NEW b \in DOMAIN log'
        PROVE  /\ log'[b].call > 1 => Recorded(log[b].type, log[b].call - 1, b)'
               /\ log'[b].type = "tool/result" => Recorded("tool/call", log[b].call, b)'
    <3>1. CASE b \in 1..n
      BY <1>3, <3>1 DEF RecordInvariant, ModelOrder, Recorded
    <3>2. CASE b = n + 1
      <4>1. next > 1 => HasCall(next - 1)
        BY <1>1 DEF RecordInvariant, RecordFollows
      <4> QED
        BY <1>3, <1>5, <3>2, <4>1 DEF HasCall, Recorded
    <3> QED
      BY <1>3, <3>1, <3>2
  <2>3. Increasing(accepted)'
    BY <1>4 DEF RecordInvariant, ModelOrder, Increasing
  <2> QED
    BY <2>1, <2>2, <2>3 DEF ModelOrder
<1>8. concluded' <=> Concludes'
  BY <1>3, <1>4, <1>5 DEF RecordInvariant, Concludes
<1>9. (\A k \in DOMAIN accepted : accepted[k] <= committed)'
  BY <1>4 DEF RecordInvariant
<1> QED
  BY <1>6, <1>7, <1>8, <1>9 DEF RecordInvariant

\* commitReady and finalize record the next result.
LEMMA RecordResult ==
  ASSUME TypeOK, GroupShape, RecordInvariant, NEW concludes \in BOOLEAN, NEW context \in BOOLEAN,
         Commit(concludes, context), committed + 1 \in Calls, committed + 1 < next,
         pc \in {"commit", "finalizing"}, next' = next
  PROVE  RecordInvariant'
<1> DEFINE n == Len(log)
           e == ToolResult(committed + 1, concludes)
<1>1. e \in Events /\ log' = Append(log, e)
  BY EventTypes DEF Commit, NextToCommit
<1>2. next \in Nat /\ committed \in Nat
  BY DEF TypeOK, ControlTypeOK
<1>3. /\ n \in Nat /\ DOMAIN log = 1..n /\ DOMAIN log' = 1..(n + 1)
      /\ \A k \in 1..n : log'[k] = log[k]
      /\ log'[n + 1] = e
  BY <1>1, Appended DEF TypeOK, RecordTypeOK
<1>4. pc' = "commit" /\ committed' = committed + 1 /\ (concluded' <=> (concluded \/ concludes))
  BY DEF Commit
<1>5. /\ e.type = "tool/result" /\ e.call = committed + 1 /\ ~e.skipped
      /\ e.concludes = concludes
  BY DEF ToolResult
<1>6. \A k \in 1..n : log[k].call \in Calls
  BY <1>3, RecordTyped DEF TypeOK, RecordTypeOK
<1> HIDE DEF n, e
<1>7. RecordFollows'
  <2>1. \A i \in Calls : HasCall(i) => HasCall(i)'
    BY <1>3 DEF HasCall
  <2>2. \A i \in Calls : HasResult(i) => HasResult(i)'
    BY <1>3 DEF HasResult
  <2>3. HasResult(committed)'
    BY <1>3, <1>4, <1>5 DEF HasResult
  <2>4. \A k \in DOMAIN log' :
          /\ ~log'[k].skipped /\ log'[k].call \in Calls
          /\ log'[k].type = "tool/call" => log'[k].call < next
          /\ log'[k].type = "tool/result" => log'[k].call <= committed + 1
    BY <1>2, <1>3, <1>5, <1>6 DEF RecordInvariant, RecordFollows
  <2> QED
    BY <1>2, <1>4, <2>1, <2>2, <2>3, <2>4 DEF RecordInvariant, RecordFollows
<1>8. Increasing(accepted)' /\ (\A k \in DOMAIN accepted : accepted[k] <= committed)'
  <2>1. /\ Increasing(accepted) /\ \A k \in DOMAIN accepted : accepted[k] <= committed
    BY DEF RecordInvariant, ModelOrder
  <2>2. DOMAIN accepted = 1..Len(accepted) /\ Len(accepted) \in Nat
    BY LenProperties DEF TypeOK, RecordTypeOK
  <2>3. \A k \in 1..Len(accepted) : accepted[k] \in Calls
    BY ElementOfSeq DEF TypeOK, RecordTypeOK
  <2>4. CASE accepted' = accepted
    BY <1>2, <1>4, <2>1, <2>2, <2>3, <2>4 DEF Increasing
  <2>5. CASE accepted' = Append(accepted, committed + 1)
    <3>1. /\ DOMAIN accepted' = 1..(Len(accepted) + 1)
          /\ \A k \in 1..Len(accepted) : accepted'[k] = accepted[k]
          /\ accepted'[Len(accepted) + 1] = committed + 1
      BY <2>5, AppendProperties, LenProperties DEF TypeOK, RecordTypeOK
    <3> QED
      BY <1>2, <1>4, <2>1, <2>2, <2>3, <3>1 DEF Increasing
  <2> QED
    BY <2>4, <2>5 DEF Commit, NextToCommit
<1>9. ModelOrder'
  <2>1. (\A a, b \in DOMAIN log : a < b /\ log[a].type = log[b].type => log[a].call < log[b].call)'
    <3>1. \A k \in 1..n : log[k].type = "tool/result" => log[k].call <= committed
      BY <1>3 DEF RecordInvariant, RecordFollows
    <3>2. \A a, b \in 1..n : a < b /\ log[a].type = log[b].type => log[a].call < log[b].call
      BY <1>3 DEF RecordInvariant, ModelOrder
    <3> QED
      BY <1>2, <1>3, <1>5, <1>6, <3>1, <3>2
  <2>2. ASSUME NEW b \in DOMAIN log'
        PROVE  /\ log'[b].call > 1 => Recorded(log[b].type, log[b].call - 1, b)'
               /\ log'[b].type = "tool/result" => Recorded("tool/call", log[b].call, b)'
    <3>1. CASE b \in 1..n
      BY <1>3, <3>1 DEF RecordInvariant, ModelOrder, Recorded
    <3>2. CASE b = n + 1
      <4>1. committed + 1 > 1 => HasResult(committed)
        BY <1>2 DEF RecordInvariant, RecordFollows
      <4>2. HasCall(committed + 1)
        BY <1>2 DEF RecordInvariant, RecordFollows
      <4> QED
        BY <1>2, <1>3, <1>5, <3>2, <4>1, <4>2 DEF HasCall, HasResult, Recorded
    <3> QED
      BY <1>3, <3>1, <3>2
  <2>3. Increasing(accepted)'
    BY <1>8
  <2> QED
    BY <2>1, <2>2, <2>3 DEF ModelOrder
<1>10. concluded' <=> Concludes'
  BY <1>3, <1>4, <1>5 DEF RecordInvariant, Concludes
<1> QED
  BY <1>7, <1>8, <1>9, <1>10 DEF RecordInvariant

\* An abort records a call and a result for every call that was not started.
LEMMA RecordSkipped ==
  ASSUME TypeOK, GroupShape, CommitsKeepUp, RecordInvariant, LeaveGroup, aborted
  PROVE  RecordInvariant'
<1> DEFINE n == Len(log)
           m == 2 * (N + 1 - next)
           s == Skipped(next, N)
<1>1. next \in 1..(N + 1) /\ committed \in Nat /\ committed + 1 = next
  BY AllCommitted DEF TypeOK, ControlTypeOK, LeaveGroup
<1>2. pc' = "done" /\ pc = "racing" /\ UNCHANGED <<next, committed, concluded, accepted>> /\ log' = log \o s
  BY DEF LeaveGroup, SkippedTo
<1>3. /\ s \in Seq(Events) /\ Len(s) = m
      /\ \A j \in 1..m : /\ s[j].call = next + (j - 1) \div 2
                         /\ s[j].type = IF j % 2 = 1 THEN "tool/call" ELSE "tool/result"
                         /\ j % 2 # 1 => s[j].concludes = FALSE
  <2> HIDE DEF RecordInvariant, CommitsKeepUp
  <2> QED
    BY <1>1, SkippedEvents, Zenon
<1>M. m \in Nat
  BY <1>1
<1> HIDE DEF n, m, s
<1>4. /\ n \in Nat /\ m \in Nat /\ DOMAIN log = 1..n /\ DOMAIN log' = 1..(n + m)
      /\ \A k \in 1..n : log'[k] = log[k]
      /\ \A j \in 1..m : log'[n + j] = s[j]
  <2>1. log \in Seq(Events)
    BY DEF TypeOK, RecordTypeOK
  <2>2. /\ log' \in Seq(Events) /\ Len(log') = n + m
        /\ \A i \in 1..(n + m) : log'[i] = IF i <= n THEN log[i] ELSE s[i - n]
    BY <1>2, <1>3, <2>1, ConcatProperties DEF n
  <2>3. n \in Nat /\ DOMAIN log = 1..n /\ DOMAIN log' = 1..(n + m)
    BY <2>1, <2>2, LenProperties DEF n
  <2> QED
    BY <1>M, <2>2, <2>3
<1>5. \A j \in 1..m : /\ n + j \in DOMAIN log'
                      /\ log'[n + j].call = next + (j - 1) \div 2
                      /\ log'[n + j].type = IF j % 2 = 1 THEN "tool/call" ELSE "tool/result"
                      /\ j % 2 # 1 => log'[n + j].concludes = FALSE
  <2> SUFFICES ASSUME NEW j \in 1..m
               PROVE  /\ n + j \in 1..(n + m)
                      /\ s[j].call = next + (j - 1) \div 2
                      /\ s[j].type = IF j % 2 = 1 THEN "tool/call" ELSE "tool/result"
                      /\ j % 2 # 1 => s[j].concludes = FALSE
    BY <1>4
  <2>1. n + j \in 1..(n + m)
    BY <1>4
  <2> QED
    BY <1>3, <2>1
<1>6. \A k \in 1..n : /\ log[k].call \in Calls /\ log[k].call < next
                      /\ log[k].type \in {"tool/call", "tool/result"}
  <2>1. \A k \in 1..n : log[k].call \in Calls /\ log[k].type \in {"tool/call", "tool/result"}
    BY <1>4, RecordTyped DEF TypeOK, RecordTypeOK
  <2> QED
    BY <1>1, <1>2, <1>4, <2>1 DEF RecordInvariant, RecordFollows
<1>7. RecordFollows'
  <2>1. \A i \in 1..(next - 1) : HasCall(i)' /\ HasResult(i)'
    <3>1. \A i \in 1..(next - 1) : HasCall(i) /\ HasResult(i)
      BY <1>1 DEF RecordInvariant, RecordFollows
    <3> QED
      BY <1>4, <3>1 DEF HasCall, HasResult
  <2>2. ASSUME NEW i \in next..N PROVE HasCall(i)' /\ HasResult(i)'
    <3> DEFINE j == 2 * (i - next) + 1
    <3>1. j \in 1..m /\ j + 1 \in 1..m /\ j % 2 = 1 /\ (j + 1) % 2 # 1
      BY <1>1 DEF m
    <3>2. (j - 1) \div 2 = i - next /\ ((j + 1) - 1) \div 2 = i - next
      BY <1>1
    <3> HIDE DEF j
    <3>3. /\ n + j \in DOMAIN log' /\ log'[n + j].call = next + (i - next) /\ log'[n + j].type = "tool/call"
          /\ n + (j + 1) \in DOMAIN log' /\ log'[n + (j + 1)].call = next + (i - next)
          /\ log'[n + (j + 1)].type = "tool/result"
      BY <1>5, <3>1, <3>2
    <3>4. next + (i - next) = i
      BY <1>1
    <3> QED
      BY <3>3, <3>4 DEF HasCall, HasResult
  <2>3. \A i \in Calls : HasCall(i)' /\ HasResult(i)'
    BY <1>1, <2>1, <2>2
  <2> QED
    BY <1>2, <2>3 DEF RecordFollows
<1>8. (\A a, b \in DOMAIN log : a < b /\ log[a].type = log[b].type => log[a].call < log[b].call)'
  <2> SUFFICES ASSUME NEW a \in DOMAIN log', NEW b \in DOMAIN log', a < b, log'[a].type = log'[b].type
               PROVE  log'[a].call < log'[b].call
    OBVIOUS
  <2>1. CASE b \in 1..n
    <3>1. a \in 1..n
      BY <1>4, <2>1
    <3> QED
      BY <1>4, <2>1, <3>1 DEF RecordInvariant, ModelOrder
  <2>2. CASE a \in 1..n /\ b \notin 1..n
    <3>1. b - n \in 1..m /\ b = n + (b - n)
      BY <1>4, <2>2
    <3>2. log'[b].call = next + ((b - n) - 1) \div 2
      BY <1>5, <3>1
    <3>3. ((b - n) - 1) \div 2 \in Nat
      BY <3>1
    <3> QED
      BY <1>1, <1>4, <1>6, <2>2, <3>2, <3>3
  <2>3. CASE a \notin 1..n /\ b \notin 1..n
    <3> DEFINE p == a - n
               q == b - n
    <3>1. p \in 1..m /\ a = n + p /\ q \in 1..m /\ b = n + q /\ p < q
      BY <1>4, <2>3
    <3>2. (p % 2 = 1) = (q % 2 = 1)
      BY <1>5, <3>1
    <3>3. (p - 1) \div 2 < (q - 1) \div 2 /\ (p - 1) \div 2 \in Int /\ (q - 1) \div 2 \in Int
      BY <3>1, <3>2
    <3>4. log'[a].call = next + (p - 1) \div 2 /\ log'[b].call = next + (q - 1) \div 2
      BY <1>5, <3>1
    <3> QED
      BY <1>1, <3>3, <3>4
  <2> QED
    BY <1>4, <2>1, <2>2, <2>3
<1>9. ASSUME NEW b \in DOMAIN log'
      PROVE  /\ log'[b].call > 1 => Recorded(log[b].type, log[b].call - 1, b)'
             /\ log'[b].type = "tool/result" => Recorded("tool/call", log[b].call, b)'
  <2>1. CASE b \in 1..n
    BY <1>4, <2>1 DEF RecordInvariant, ModelOrder, Recorded
  <2>2. CASE b \notin 1..n
    <3> DEFINE j == b - n
               c == next + (j - 1) \div 2
    <3>1. j \in 1..m /\ b = n + j /\ b \in Nat
      BY <1>4, <2>2
    <3>2. log'[b].call = c /\ log'[b].type = IF j % 2 = 1 THEN "tool/call" ELSE "tool/result"
      BY <1>5, <3>1
    <3>3. ASSUME j > 2 PROVE Recorded(log[b].type, log[b].call - 1, b)'
      <4>1. j - 2 \in 1..m /\ n + (j - 2) < b /\ (j - 2) % 2 = j % 2
        BY <1>4, <3>1, <3>3
      <4>2. next + ((j - 2) - 1) \div 2 = c - 1
        BY <1>1, <3>1, <3>3
      <4>3. /\ n + (j - 2) \in DOMAIN log' /\ log'[n + (j - 2)].call = c - 1
            /\ log'[n + (j - 2)].type = log'[b].type
        BY <1>5, <3>2, <4>1, <4>2
      <4> QED
        BY <3>2, <4>1, <4>3 DEF Recorded
    <3>4. ASSUME j <= 2, c > 1 PROVE Recorded(log[b].type, log[b].call - 1, b)'
      <4>1. c = next
        BY <1>1, <3>1, <3>4
      <4>2. HasCall(next - 1) /\ HasResult(next - 1)
        BY <1>1, <3>4, <4>1 DEF RecordInvariant, RecordFollows
      <4>3. PICK k \in 1..n : log[k].type = log'[b].type /\ log[k].call = c - 1
        BY <1>4, <3>2, <4>1, <4>2 DEF HasCall, HasResult
      <4>4. k \in DOMAIN log' /\ k < b /\ log'[k].type = log'[b].type /\ log'[k].call = c - 1
        BY <1>4, <2>2, <3>1, <4>3
      <4> QED
        BY <3>2, <4>4 DEF Recorded
    <3>5. ASSUME log'[b].type = "tool/result" PROVE Recorded("tool/call", log[b].call, b)'
      <4>1. j % 2 # 1
        BY <3>2, <3>5
      <4>2. j - 1 \in 1..m /\ n + (j - 1) < b /\ (j - 1) % 2 = 1
        <5> HIDE DEF j
        <5>1. j # 1 /\ (j - 1) % 2 = 1
          BY <1>4, <3>1, <4>1
        <5> QED
          BY <1>4, <3>1, <5>1
      <4>3. next + ((j - 1) - 1) \div 2 = c
        BY <1>1, <3>1, <4>1
      <4>4. /\ n + (j - 1) \in DOMAIN log' /\ log'[n + (j - 1)].call = c
            /\ log'[n + (j - 1)].type = "tool/call"
        BY <1>5, <4>2, <4>3
      <4> QED
        BY <3>2, <4>2, <4>4 DEF Recorded
    <3>6. j > 2 \/ j <= 2
      BY <3>1
    <3> QED
      BY <3>2, <3>3, <3>4, <3>5, <3>6
  <2> QED
    BY <2>1, <2>2
<1>10. Increasing(accepted)' /\ (\A k \in DOMAIN accepted : accepted[k] <= committed)'
  BY <1>2 DEF RecordInvariant, ModelOrder, Increasing
<1>11. concluded' <=> Concludes'
  <2>1. \A k \in DOMAIN log' : k \in 1..n \/ (k - n \in 1..m /\ k = n + (k - n))
    BY <1>4
  <2>2. \A k \in DOMAIN log' : log'[k].type = "tool/result" /\ log'[k].concludes => k \in 1..n
    BY <1>5, <2>1
  <2> QED
    BY <1>2, <1>4, <2>2 DEF RecordInvariant, Concludes
<1> QED
  BY <1>7, <1>8, <1>9, <1>10, <1>11 DEF RecordInvariant, ModelOrder

LEMMA RecordInit == Init => RecordInvariant /\ CommitsKeepUp
<1> SUFFICES ASSUME Init PROVE RecordInvariant /\ CommitsKeepUp
  OBVIOUS
<1>1. DOMAIN log = {} /\ DOMAIN accepted = {}
  BY DEF Init
<1>2. RecordFollows
  BY <1>1 DEF Init, RecordFollows, HasCall, HasResult
<1>3. ModelOrder /\ (concluded <=> Concludes) /\ (\A k \in DOMAIN accepted : accepted[k] <= committed)
  BY <1>1 DEF Init, ModelOrder, Increasing, Concludes
<1>4. CommitsKeepUp
  BY DEF Init, CommitsKeepUp
<1> QED
  BY <1>2, <1>3, <1>4 DEF RecordInvariant

LEMMA RecordInvariantStep ==
  ASSUME TypeOK, GroupShape, CommitsKeepUp, RecordInvariant, [Next]_vars
  PROVE  RecordInvariant'
<1>1. CASE Abort
  BY <1>1, RecordUnchanged DEF Abort, Suspended, TypeOK, ControlTypeOK
<1>2. ASSUME NEW i \in Calls, NEW outcome \in {"post", "final", "reject"}, BodySettles(i, outcome) PROVE RecordInvariant'
  BY <1>2, RecordUnchanged DEF BodySettles, Suspended, TypeOK, ControlTypeOK
<1>3. ASSUME NEW m \in Modes, Classify(m) PROVE RecordInvariant'
  <2>1. CASE next > N
    <3>1. pc = "classify" /\ pc' = "done" /\ UNCHANGED <<next, resultVars>> /\ committed + 1 = next
      BY <1>3, <2>1 DEF Classify, CommitsKeepUp
    <3>2. next = N + 1 /\ committed = N
      BY <2>1, <3>1 DEF TypeOK, ControlTypeOK
    <3>3. \A i \in Calls : HasCall(i) /\ HasResult(i)
      BY <3>2 DEF RecordInvariant, RecordFollows
    <3>4. RecordFollows'
      BY <3>1, <3>3 DEF RecordFollows, HasCall, HasResult
    <3> QED
      BY <3>1, <3>4 DEF RecordInvariant, ModelOrder, Recorded, Increasing, Concludes
  <2>2. CASE ~(next > N)
    BY <1>3, <2>2, RecordUnchanged DEF Classify, TypeOK, ControlTypeOK
  <2> QED
    BY <2>1, <2>2
<1>4. ASSUME NEW m \in Modes, FillPool(m) PROVE RecordInvariant'
  <2>1. CASE StartCall(m) /\ next <= GroupEnd
    BY <1>4, <2>1, RecordCall
  <2>2. CASE pc' = "racing" /\ UNCHANGED log
    BY <1>4, <2>2, RecordUnchanged DEF FillPool, TypeOK, ControlTypeOK
  <2> QED
    BY <1>4, <2>1, <2>2 DEF FillPool
<1>5. ASSUME NEW outcome \in {"dispatch", "post", "final", "reject"}, Prepared(outcome) PROVE RecordInvariant'
  BY <1>5, RecordUnchanged DEF Prepared, MayDispatch, Fails, TypeOK, ControlTypeOK
<1>6. CASE Started
  BY <1>6, RecordUnchanged DEF Started, Fails, TypeOK, ControlTypeOK
<1>7. CASE Committed
  BY <1>7, RecordUnchanged DEF Committed, Fails, SeesAbort, TypeOK, ControlTypeOK
<1>8. CASE LeaveGroup
  <2>1. CASE aborted
    BY <1>8, <2>1, RecordSkipped
  <2>2. CASE ~aborted
    BY <1>8, <2>2, RecordUnchanged DEF LeaveGroup, TypeOK, ControlTypeOK
  <2> QED
    BY <2>1, <2>2
<1>9. CASE GroupDone
  BY <1>9, RecordUnchanged DEF GroupDone, TypeOK, ControlTypeOK
<1>10. CASE Rethrow
  BY <1>10, RecordUnchanged DEF Rethrow, TypeOK, ControlTypeOK
<1>11. ASSUME NEW concludes \in BOOLEAN, NEW context \in BOOLEAN, CommitReady(concludes, context) PROVE RecordInvariant'
  <2>1. CASE Commit(concludes, context) /\ committed + 1 \in Calls /\ committed + 1 < next
    BY <1>11, <2>1, RecordResult DEF CommitReady
  <2>2. CASE UNCHANGED resultVars
    <3>1. pc = "commit" /\ pc' \in {"finalizing", "commit", "committed"} /\ next' = next
      BY <1>11 DEF CommitReady, Commit
    <3> QED
      BY <2>2, <3>1, RecordUnchanged DEF TypeOK, ControlTypeOK
  <2> QED
    BY <1>11, <2>1, <2>2, CommitTypes DEF TypeOK
<1>12. ASSUME NEW concludes \in BOOLEAN, NEW context \in BOOLEAN, NEW ok \in BOOLEAN, Finalized(ok, concludes, context) PROVE RecordInvariant'
  <2>1. CASE Commit(concludes, context) /\ committed + 1 \in Calls /\ committed + 1 < next
    BY <1>12, <2>1, RecordResult DEF Finalized
  <2>2. CASE UNCHANGED resultVars
    <3>1. pc = "finalizing" /\ pc' \in {"commit", "draining"} /\ next' = next
      BY <1>12 DEF Finalized, Commit, Fails
    <3> QED
      BY <2>2, <3>1, RecordUnchanged DEF TypeOK, ControlTypeOK
  <2> QED
    BY <1>12, <2>1, <2>2, CommitTypes DEF TypeOK
<1>13. ASSUME NEW i \in Calls, RaceSettles(i) PROVE RecordInvariant'
  BY <1>13, RecordUnchanged DEF RaceSettles, Fails, TypeOK, ControlTypeOK
<1>14. CASE UNCHANGED vars
  <2>1. RecordFollows'
    BY <1>14 DEF RecordInvariant, RecordFollows, HasCall, HasResult
  <2> QED
    BY <1>14, <2>1 DEF RecordInvariant, ModelOrder, Recorded, Increasing, Concludes
<1> QED
  BY <1>1, <1>2, <1>3, <1>4, <1>5, <1>6, <1>7, <1>8, <1>9, <1>10, <1>11, <1>12, <1>13, <1>14
     DEF Next, Bodies, Scheduler


\* The invariant of the scheduler's record, along every behaviour.
LEMMA RecordCorrect == Spec => [](TypeOK /\ GroupShape /\ CommitsKeepUp /\ RecordInvariant)
<1>1. TypeOK /\ GroupShape /\ CommitsKeepUp /\ RecordInvariant /\ [Next]_vars => CommitsKeepUp' /\ RecordInvariant'
  BY CommitsKeepUpStep, RecordInvariantStep DEF TypeOK
<1> QED
  BY <1>1, RecordInit, ShapeCorrect, PTL DEF Spec

\* Calls and results are on record in model order without gaps, each result after its
\* call, and contexts are accepted in that order, however bodies overlap.
THEOREM RecordedInModelOrder == Spec => []ModelOrder
<1>1. RecordInvariant => ModelOrder
  BY DEF RecordInvariant
<1> QED
  BY <1>1, RecordCorrect, PTL

\* When executeToolCalls returns, aborted or not, every call of the assistant message has
\* its call and its result, and concluded says whether one of them concludes the turn.
THEOREM ReturnsWhenAnswered == Spec => []EveryCallAnswered
<1>1. TypeOK /\ RecordInvariant => EveryCallAnswered
  <2> SUFFICES ASSUME TypeOK, RecordInvariant, pc = "done" PROVE
         /\ \A i \in Calls, type \in {"tool/call", "tool/result"} : Recorded(type, i, Len(log) + 1)
         /\ concluded <=> Concludes
    BY DEF EveryCallAnswered, Concludes
  <2>1. \A i \in Calls : HasCall(i) /\ HasResult(i)
    BY DEF RecordInvariant, RecordFollows
  <2>2. \A k \in DOMAIN log : k < Len(log) + 1
    BY LenProperties DEF TypeOK, RecordTypeOK
  <2> QED
    BY <2>1, <2>2 DEF RecordInvariant, HasCall, HasResult, Recorded
<1> QED
  BY <1>1, RecordCorrect, PTL

\* A failed scheduler has waited for every body it dispatched and has made no result up.
THEOREM FailsWhenDrained == Spec => []FailureDrains
<1> DEFINE Drained == pc = "failed" => inFlight = settled
<1>1. Init => Drained
  BY DEF Init
<1>2. ControlTypeOK /\ Drained /\ [Next]_vars => Drained'
  <2> SUFFICES ASSUME ControlTypeOK, Drained, [Next]_vars, pc' = "failed" PROVE (inFlight = settled)'
    OBVIOUS
  <2>1. CASE Rethrow
    BY <2>1 DEF Rethrow, AllSettled
  <2>2. CASE pc = "failed" /\ UNCHANGED vars
    BY <2>2
  <2> QED
    BY <2>1, <2>2
       DEF Next, Abort, Bodies, BodySettles, Suspended, Scheduler, Classify, FillPool, StartCall,
           Prepared,
         Started, Committed, LeaveGroup, GroupDone, CommitReady, Commit, Finalized, RaceSettles, Fails
<1>3. Drained /\ RecordInvariant => FailureDrains
  BY DEF FailureDrains, RecordInvariant, RecordFollows
<1> QED
  BY <1>1, <1>2, <1>3, RecordCorrect, PTL DEF Spec, TypeOK

=============================================================================
