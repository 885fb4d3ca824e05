------------------------- MODULE SessionWriteBehind -------------------------
(***************************************************************************)
(* The write controller of one live session:                               *)
(* packages/session/session-persistence/src/write-behind.ts, with its use  *)
(* by coordinator.ts (flush, createWriteBehind, appendLiveBatch).          *)
(*                                                                         *)
(* One thread.  A write settles in three jobs, the settled operation (with *)
(* the catch clause), the finally clause and the continuation of whoever   *)
(* awaited it, so other jobs see the states between them; the timer fires  *)
(* only when no job is queued.                                             *)
(***************************************************************************)
EXTENDS Naturals, Sequences, FiniteSets

CONSTANTS
  MaxEvents,   \* bound: events of the session
  MaxSeed,     \* bound: events of the session before its controller exists
  MaxFlushes,  \* bound: coordinator flushes awaiting initialization at once
  MaxCrashes   \* bound: crashes of the process

ASSUME BoundsAssumption == MaxEvents \in Nat /\ MaxSeed \in 0..MaxEvents /\ MaxFlushes \in Nat /\ MaxCrashes \in Nat

VARIABLES
  pending,          \* this.pending
  timer,            \* this.timer is armed
  write,            \* this.active: "none", "writing", "ok" or "failed" (settled, before finally)
  background,       \* the argument of the active startWrite
  batch,            \* the batch of the active write
  continuation,     \* the job that follows a finally clause: "none", "automatic", "barrier", "rejected" or "overlapped"
  barrier,          \* drainBarrier: "none", "overlapping" (awaits this.active) or "draining"
  deadlineExpired,  \* this.deadlineExpired
  automaticPaused,  \* this.automaticPaused
  init,             \* live.init: "pending", "ready" or "failed"
  seed,             \* events of the session when initFor created the controller
  flushes,          \* coordinator flushes between cancelAutomaticWait and writes.flush
  admitted,         \* events of the live session (their seq), in order
  stored,           \* events the backend made durable; its length is the cursor
  acknowledged,     \* events covered by the last resolved flush
  crashes           \* crashes so far

controller == <<pending, timer, write, background, batch, continuation, barrier, deadlineExpired, automaticPaused>>
owner == <<init, seed, flushes, crashes>>
logs == <<admitted, stored, acknowledged>>
vars == <<controller, owner, logs>>

hasWork == pending # <<>> \/ write # "none"
JobQueued == write \in {"ok", "failed"} \/ continuation # "none"

-----------------------------------------------------------------------------
\* Mutant: an event that meets an active write arms no timer.
ArmsWhenIdle(wasEmpty) == barrier = "none" /\ (automaticPaused \/ (wasEmpty /\ write = "none"))

\* enqueue arms the window of a first pending event, or of one after a failure;
\* a barrier drains what is admitted while it stands.
Arms(wasEmpty) == barrier = "none" /\ (automaticPaused \/ wasEmpty)

\* enqueue, from the session/event listener.
Enqueue ==
  /\ Len(admitted) < MaxEvents
  /\ admitted' = Append(admitted, Len(admitted))
  /\ pending' = Append(pending, Len(admitted))
  /\ IF Arms(pending = <<>>)
     THEN /\ timer' = TRUE
          /\ automaticPaused' = FALSE
          /\ deadlineExpired' = IF automaticPaused THEN FALSE ELSE deadlineExpired
     ELSE UNCHANGED <<timer, automaticPaused, deadlineExpired>>
  /\ UNCHANGED <<write, background, batch, continuation, barrier, owner, stored, acknowledged>>

\* startWrite: take the whole queue, cancel the window.
StartWrite(bg) ==
  /\ batch' = pending
  /\ pending' = <<>>
  /\ timer' = FALSE
  /\ deadlineExpired' = FALSE
  /\ background' = bg
  /\ write' = "writing"

\* onDeadline: start a write, or remember that the active one used up the window.
Deadline ==
  /\ timer
  /\ ~JobQueued
  /\ IF write = "none" THEN StartWrite(TRUE)
     ELSE /\ timer' = FALSE
          /\ deadlineExpired' = TRUE
          /\ UNCHANGED <<pending, write, background, batch>>
  /\ UNCHANGED <<continuation, barrier, automaticPaused, owner, logs>>

-----------------------------------------------------------------------------
\* The active write.

\* filter: the events of q from the cursor on, in their order; the k-th of them is the
\* one at the position of q that has k such positions up to it.
FilterFrom(q, cursor) ==
  LET kept == {i \in DOMAIN q : q[i] >= cursor}
  IN [k \in 1..Cardinality(kept) |-> q[CHOOSE i \in kept : Cardinality({j \in kept : j <= i}) = k]]

\* appendLiveBatch drops what initialization already stored.
Fresh(b) == FilterFrom(b, Len(stored))

\* The backend commits the batch; initialization precedes every write.  The
\* contiguity check of appendCore never refuses it: NothingLost.
WriteSucceeds ==
  /\ write = "writing"
  /\ init = "ready"
  /\ stored' = stored \o Fresh(batch)
  /\ write' = "ok"
  /\ UNCHANGED <<pending, timer, background, batch, continuation, barrier, deadlineExpired,
                 automaticPaused, owner, admitted, acknowledged>>

\* Mutant: the failed batch is put behind what was admitted meanwhile.
RetainedLast == pending \o batch

\* The failed batch stays ahead of what was admitted meanwhile.
Retained == batch \o pending

\* The write rejects and the catch clause of startWrite runs.
WriteFails ==
  /\ write = "writing"
  /\ init # "pending"
  /\ pending' = Retained
  /\ timer' = FALSE
  /\ deadlineExpired' = FALSE
  /\ automaticPaused' = TRUE
  /\ write' = "failed"
  /\ UNCHANGED <<background, batch, continuation, barrier, owner, logs>>

Awaited == IF write = "ok" THEN (IF background THEN "automatic" ELSE "barrier")
           ELSE (IF background THEN "none" ELSE "rejected")

\* Mutant: the barrier awaits only a successful overlapping write.
AfterSuccess == IF barrier = "overlapping" /\ write = "ok" THEN "overlapped" ELSE Awaited

\* Who continues after the write: a barrier awaits the overlapping write however
\* it settles; the rejection of a background write is swallowed.
AfterWrite == IF barrier = "overlapping" THEN "overlapped" ELSE Awaited

\* finally of startWrite; its continuation is queued.
Finally ==
  /\ write \in {"ok", "failed"}
  /\ continuation = "none"
  /\ continuation' = AfterWrite
  /\ write' = "none"
  /\ batch' = <<>>
  /\ UNCHANGED <<pending, timer, background, barrier, deadlineExpired, automaticPaused, owner, logs>>

\* Mutant: an expired deadline is forgotten when the write ends.
NeverOverdue == FALSE

\* A deadline passed while the write was active.
Overdue == barrier = "none" /\ pending # <<>> /\ deadlineExpired

ContinueAutomatic ==
  /\ continuation = "automatic"
  /\ continuation' = "none"
  /\ IF Overdue THEN StartWrite(TRUE)
     ELSE UNCHANGED <<pending, timer, write, background, batch, deadlineExpired>>
  /\ UNCHANGED <<barrier, automaticPaused, owner, logs>>

-----------------------------------------------------------------------------
\* The quiescence barrier.

Resolve == barrier' = "none" /\ acknowledged' = Len(admitted)

\* Mutant: the barrier resolves after one write.
DrainedOnce == barrier = "draining" \/ pending = <<>>

\* The barrier's loop ends when it observes an empty queue.
Drained == pending = <<>>

\* The loop of drainBarrier: write until the queue is empty, resolve in the same job.
DrainLoop ==
  IF Drained
  THEN /\ Resolve
       /\ UNCHANGED <<pending, timer, deadlineExpired, write, background, batch>>
  ELSE /\ StartWrite(FALSE)
       /\ barrier' = "draining"
       /\ UNCHANGED acknowledged

\* writes.flush: join the barrier, or open one.
Flush ==
  IF barrier # "none" THEN UNCHANGED <<controller, acknowledged>>
  ELSE /\ automaticPaused' = FALSE
       /\ IF write # "none"
          THEN /\ barrier' = "overlapping"
               /\ timer' = FALSE
               /\ deadlineExpired' = FALSE
               /\ UNCHANGED <<pending, write, background, batch, acknowledged>>
          ELSE IF Drained
          THEN /\ Resolve
               /\ timer' = FALSE
               /\ deadlineExpired' = FALSE
               /\ UNCHANGED <<pending, write, background, batch>>
          ELSE /\ StartWrite(FALSE)
               /\ barrier' = "draining"
               /\ UNCHANGED acknowledged
       /\ UNCHANGED continuation

\* drainBarrier resumes: after the overlapping write, or after one of its own.
ContinueBarrier ==
  /\ continuation \in {"overlapped", "barrier"}
  /\ continuation' = "none"
  /\ automaticPaused' = IF continuation = "overlapped" THEN FALSE ELSE automaticPaused
  /\ DrainLoop
  /\ UNCHANGED <<owner, admitted, stored>>

\* The barrier's own write failed: the barrier rejects.
RejectBarrier ==
  /\ continuation = "rejected"
  /\ continuation' = "none"
  /\ barrier' = "none"
  /\ UNCHANGED <<pending, timer, write, background, batch, deadlineExpired, automaticPaused, owner, logs>>

-----------------------------------------------------------------------------
\* The coordinator.

\* flush of the coordinator: cancelAutomaticWait, then await initialization.
RequestFlush ==
  /\ flushes < MaxFlushes
  /\ flushes' = flushes + 1
  /\ timer' = FALSE
  /\ deadlineExpired' = FALSE
  /\ UNCHANGED <<pending, write, background, batch, continuation, barrier, automaticPaused,
                 init, seed, crashes, logs>>

\* Initialization settled: flush, or cancel the wait again and reject.
ProceedFlush ==
  /\ flushes > 0
  /\ flushes' = flushes - 1
  /\ \/ init = "ready" /\ Flush
     \/ /\ init = "failed"
        /\ timer' = FALSE
        /\ deadlineExpired' = FALSE
        /\ UNCHANGED <<pending, write, background, batch, continuation, barrier, automaticPaused, acknowledged>>
  /\ UNCHANGED <<init, seed, crashes, admitted, stored>>

\* onCreated, adoptLivePrefix or attachPrepared: the seed beyond what is stored
\* is made durable before any write of the controller, or not at all.
InitSettles(outcome) ==
  /\ init = "pending"
  /\ init' = outcome
  /\ stored' = IF outcome = "ready" THEN SubSeq(admitted, 1, seed) ELSE stored
  /\ UNCHANGED <<controller, seed, flushes, crashes, admitted, acknowledged>>

\* The process dies; a new one owns the stored prefix with a fresh controller.
Crash ==
  /\ crashes < MaxCrashes
  /\ crashes' = crashes + 1
  /\ admitted' = stored
  /\ pending' = <<>> /\ timer' = FALSE /\ write' = "none" /\ background' = FALSE /\ batch' = <<>>
  /\ continuation' = "none" /\ barrier' = "none" /\ deadlineExpired' = FALSE /\ automaticPaused' = FALSE
  /\ init' = "pending" /\ seed' = Len(stored) /\ flushes' = 0
  /\ UNCHANGED <<stored, acknowledged>>

-----------------------------------------------------------------------------
\* The session may be older than its controller and partly stored already (a fork,
\* or a reload of the plugin); a controller created by the event listener holds
\* the event that created it both in its seed and in its queue.
Init ==
  /\ seed \in 0..MaxSeed
  /\ admitted = [i \in 1..seed |-> i - 1]
  /\ \E k \in 0..seed : stored = SubSeq(admitted, 1, k)
  /\ \/ pending = <<>> /\ timer = FALSE
     \/ seed > 0 /\ pending = <<seed - 1>> /\ timer = TRUE
  /\ write = "none" /\ background = FALSE /\ batch = <<>>
  /\ continuation = "none" /\ barrier = "none" /\ deadlineExpired = FALSE /\ automaticPaused = FALSE
  /\ init = "pending" /\ flushes = 0 /\ crashes = 0
  /\ acknowledged = 0

Jobs == Finally \/ ContinueAutomatic \/ ContinueBarrier \/ RejectBarrier

Next ==
  \/ Enqueue \/ RequestFlush \/ ProceedFlush \/ Crash
  \/ Deadline \/ WriteSucceeds \/ WriteFails \/ Jobs
  \/ \E outcome \in {"ready", "failed"} : InitSettles(outcome)

Spec == Init /\ [][Next]_vars

\* Queued jobs run, an armed timer fires, writes and initialization settle.
Fairness ==
  /\ WF_vars(Jobs) /\ WF_vars(Deadline) /\ WF_vars(WriteSucceeds \/ WriteFails)
  /\ WF_vars(ProceedFlush)
  /\ WF_vars(InitSettles("ready") \/ InitSettles("failed"))

FairSpec == Spec /\ Fairness

-----------------------------------------------------------------------------
\* Properties.

\* Every variable holds a value of its type, and no more is stored than there are events.
TypeOK ==
  /\ pending \in Seq(Nat) /\ batch \in Seq(Nat) /\ admitted \in Seq(Nat) /\ stored \in Seq(Nat)
  /\ timer \in BOOLEAN /\ background \in BOOLEAN
  /\ deadlineExpired \in BOOLEAN /\ automaticPaused \in BOOLEAN
  /\ write \in {"none", "writing", "ok", "failed"}
  /\ continuation \in {"none", "automatic", "barrier", "rejected", "overlapped"}
  /\ barrier \in {"none", "overlapping", "draining"}
  /\ init \in {"pending", "ready", "failed"}
  /\ seed \in 0..MaxEvents /\ Len(stored) <= MaxEvents
  /\ flushes \in 0..MaxFlushes /\ crashes \in 0..MaxCrashes
  /\ acknowledged \in 0..MaxEvents

Durable == IF init = "ready" THEN stored ELSE SubSeq(admitted, 1, seed)
Beyond(q) == FilterFrom(q, Len(Durable))

\* Every admitted event is in one place and in order: durable (or in the seed
\* that initialization makes durable), in the batch being written, or in the
\* queue.  A failed batch is retained ahead of the events admitted meanwhile.
NothingLost ==
  admitted = Durable \o Beyond(IF write = "writing" THEN batch ELSE <<>>) \o Beyond(pending)

\* Queued events always have someone who will write them, unless a failure
\* paused the automatic path: a window, an active write, a barrier, a queued
\* continuation, or a flush that cancelled the window and will drain.
WorkHasOwner ==
  pending # <<>> =>
    \/ timer \/ write # "none" \/ barrier # "none" \/ continuation # "none"
    \/ automaticPaused \/ flushes > 0 \/ init = "failed"

DL == INSTANCE DurableLog WITH Events <- 0..(MaxEvents - 1)
\* The controller implements the durable log: order, at-most-once, and the
\* meaning of a resolved flush, across failures, overlaps and crashes.
ImplementsDurableLog == DL!Spec

\* Everybody who flushes is answered.
BarrierSettles == barrier # "none" ~> barrier = "none"

\* An admitted event becomes durable without anybody asking, unless a failure
\* pauses the automatic path or initialization failed (or a crash lost it).
EventuallyStored ==
  \A n \in 1..MaxEvents :
    Len(admitted) >= n ~> (Len(stored) >= n \/ automaticPaused \/ init = "failed" \/ Len(admitted) < n)
=============================================================================
