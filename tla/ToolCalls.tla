------------------------------ MODULE ToolCalls ------------------------------
(***************************************************************************)
(* The scheduler of one assistant step's tool calls:                       *)
(* packages/core/agent-loop/src/tool-calls.ts.  Calls are 1..N in model    *)
(* order; indices are absolute, where runGroup counts from its group.      *)
(*                                                                         *)
(* The scheduler is one async function.  While it is suspended (pc in      *)
(* Suspended) the bodies of dispatched tools settle and anyone may abort   *)
(* the signal; between two awaits only a session/event observer of the     *)
(* event just appended may.                                                *)
(***************************************************************************)
EXTENDS Naturals, Sequences, FiniteSets

CONSTANTS
  N,           \* tool calls of the assistant message
  MaxParallel  \* config.maxParallelToolCalls

ASSUME CallsAssumption == N \in Nat \ {0}
ASSUME PoolAssumption == MaxParallel \in Nat \ {0}

Calls == 1..N

VARIABLES
  pc,         \* where the scheduler is
  base,       \* first call of the current group
  mode,       \* the group's mode: "parallel" or "exclusive"
  next,       \* base + nextToStart: the next call to start
  committed,  \* calls whose results are appended (model-order prefix)
  slots,      \* slot of each call: "none", "post" or "final"
  inFlight,   \* dispatched calls the main loop has not seen settle
  settled,    \* the members of inFlight whose promise has settled
  exclusive,  \* calls started as an exclusive barrier
  signal,     \* the step's abort signal
  aborted,    \* the group's own copy of it
  failure,    \* schedulerFailure
  concluded,  \* some result concludes the turn
  log,        \* tool/call and tool/result events
  accepted    \* calls whose result context reached the inbox, in order

groupVars == <<base, mode, exclusive>>
poolVars == <<slots, inFlight, settled>>
resultVars == <<committed, concluded, log, accepted>>
vars == <<pc, groupVars, next, poolVars, resultVars, signal, aborted, failure>>

ToolCall(i) == [type |-> "tool/call", call |-> i, skipped |-> FALSE]
ToolResult(i, c) == [type |-> "tool/result", call |-> i, skipped |-> FALSE, concludes |-> c]

\* The call and result that answer each of the calls from..to, pair by pair.
Skipped(from, to) ==
  [k \in 1..(2 * (to + 1 - from)) |->
     LET i == from + (k - 1) \div 2
     IN IF k % 2 = 1
        THEN [type |-> "tool/call", call |-> i, skipped |-> TRUE]
        ELSE [type |-> "tool/result", call |-> i, skipped |-> TRUE, concludes |-> FALSE]]

\* The last call of the group: all that follow for a pool, one for a barrier.
GroupEnd == IF mode = "parallel" THEN N ELSE base

-----------------------------------------------------------------------------
Suspended == {"preparing", "prepared", "finalizing", "committed", "racing", "groupDone", "draining"}

\* The environment: anyone may abort, dispatched bodies settle in any order.

Abort ==
  /\ pc \in Suspended \cup {"commit"}
  /\ ~signal
  /\ signal' = TRUE
  /\ UNCHANGED <<pc, groupVars, next, poolVars, resultVars, aborted, failure>>

\* dispatch(...).then(onResult, onError): the slot is filled, or the failure
\* recorded, as soon as the body settles, wherever the scheduler is.
BodySettles(i, outcome) ==
  /\ pc \in Suspended
  /\ i \in inFlight \ settled
  /\ settled' = settled \cup {i}
  /\ \/ outcome \in {"post", "final"} /\ slots' = [slots EXCEPT ![i] = outcome] /\ UNCHANGED failure
     \/ outcome = "reject" /\ failure' = TRUE /\ UNCHANGED slots
  /\ UNCHANGED <<pc, groupVars, next, inFlight, resultVars, signal, aborted>>

-----------------------------------------------------------------------------
\* The scheduler.

\* The loop of executeToolCalls: classify the first unstarted call, open a group.
Classify(m) ==
  /\ pc = "classify"
  /\ IF next > N THEN pc' = "done" /\ UNCHANGED <<base, mode, aborted>>
     ELSE /\ base' = next
          /\ mode' = m
          /\ aborted' = signal
          /\ pc' = "fill"
  /\ UNCHANGED <<next, poolVars, resultVars, exclusive, signal, failure>>

HasRoom == Cardinality(inFlight) < MaxParallel

\* Mutant: a later call is not classified again.
MayJoinUnchecked(m) == TRUE

\* A later call of a parallel group joins it only while it is still parallel.
MayJoin(m) == next = base \/ m = "parallel"

\* startCall up to the await of prepare; m is the mode read for a later call.
StartCall(m) ==
  /\ log' = Append(log, ToolCall(next))
  /\ exclusive' = IF (IF next = base THEN mode ELSE m) = "exclusive"
                  THEN exclusive \cup {next} ELSE exclusive
  /\ pc' = "preparing"

\* One look at the head of fillPool's loop.
FillPool(m) ==
  /\ pc = "fill"
  /\ IF ~aborted /\ next <= GroupEnd /\ HasRoom /\ MayJoin(m)
     THEN StartCall(m)
     ELSE pc' = "racing" /\ UNCHANGED <<log, exclusive>>
  /\ UNCHANGED <<base, mode, next, poolVars, committed, concluded, accepted, signal, aborted, failure>>

\* The catch clause of runGroup: record the first failure, drain what is in flight.
Fails == failure' = TRUE /\ pc' = "draining"

\* A recorded failure stops the call whose prepare it overtook.
MayDispatch == ~failure

\* prepare settles; the call is dispatched or has its result already.
Prepared(outcome) ==
  /\ pc = "preparing"
  /\ IF outcome = "reject" \/ ~MayDispatch THEN Fails /\ UNCHANGED <<slots, inFlight>>
     ELSE /\ pc' = "prepared"
          /\ IF outcome = "dispatch"
             THEN inFlight' = inFlight \cup {next} /\ UNCHANGED slots
             ELSE slots' = [slots EXCEPT ![next] = outcome] /\ UNCHANGED inFlight
          /\ UNCHANGED failure
  /\ UNCHANGED <<groupVars, next, settled, resultVars, signal, aborted>>

\* fillPool resumes after startCall: nextToStart++, then commit what is ready.
Started ==
  /\ pc = "prepared"
  /\ next' = next + 1
  /\ IF failure THEN Fails ELSE pc' = "commit" /\ UNCHANGED failure
  /\ UNCHANGED <<groupVars, poolVars, resultVars, signal, aborted>>

Answered(i) == \E k \in DOMAIN log : log[k].type = "tool/result" /\ log[k].call = i

\* Mutant: results are committed as they settle.
FirstSettled ==
  IF \E i \in Calls : slots[i] # "none" /\ ~Answered(i)
  THEN CHOOSE i \in Calls : slots[i] # "none" /\ ~Answered(i) ELSE committed + 1

\* committed advances over contiguous slots in model order.
NextToCommit == committed + 1

Filled == {i \in Calls : slots[i] # "none"}
Ready == committed < GroupEnd /\ NextToCommit \in Filled

\* appendToolResult, acceptContext and concluded ||= of one committed slot.
Commit(concludes, context) ==
  /\ log' = Append(log, ToolResult(NextToCommit, concludes))
  /\ accepted' = IF context THEN Append(accepted, NextToCommit) ELSE accepted
  /\ concluded' = (concluded \/ concludes)
  /\ committed' = committed + 1
  /\ pc' = "commit"

\* One look at the head of commitReady's loop; a final slot commits at once.
CommitReady(concludes, context) ==
  /\ pc = "commit"
  /\ \/ /\ Ready /\ slots[NextToCommit] = "post"
        /\ pc' = "finalizing" /\ UNCHANGED resultVars
     \/ Ready /\ slots[NextToCommit] # "post" /\ Commit(concludes, context)
     \/ ~Ready /\ pc' = "committed" /\ UNCHANGED resultVars
  /\ UNCHANGED <<groupVars, next, poolVars, signal, aborted, failure>>

\* finalize settles.
Finalized(ok, concludes, context) ==
  /\ pc = "finalizing"
  /\ IF ok THEN Commit(concludes, context) /\ UNCHANGED failure
     ELSE Fails /\ UNCHANGED resultVars
  /\ UNCHANGED <<groupVars, next, poolVars, signal, aborted>>

\* Mutant: the abort is not looked at after a commit.
SeesNoAbort == aborted

\* Both callers of commitReady look at the signal after it.
SeesAbort == aborted \/ signal

\* Both callers of commitReady look at the failure and the signal, then fill the pool.
Committed ==
  /\ pc = "committed"
  /\ IF failure THEN Fails /\ UNCHANGED aborted
     ELSE aborted' = SeesAbort /\ pc' = "fill" /\ UNCHANGED failure
  /\ UNCHANGED <<groupVars, next, poolVars, resultVars, signal>>

\* The main loop of runGroup: await the race, or leave the group.
RaceSettles(i) ==
  /\ pc = "racing"
  /\ i \in settled
  /\ inFlight' = inFlight \ {i}
  /\ settled' = settled \ {i}
  /\ IF failure THEN Fails ELSE pc' = "commit" /\ UNCHANGED failure
  /\ UNCHANGED <<groupVars, next, slots, resultVars, signal, aborted>>

\* Mutant: only the group's own calls are answered after an abort.
SkippedInGroup == GroupEnd

\* The calls an abort answers: the rest of the group, then the rest of the plan.
SkippedTo == N

\* Leaving the group: an abort answers every unstarted call of the step.
LeaveGroup ==
  /\ pc = "racing"
  /\ inFlight = {}
  /\ IF aborted
     THEN /\ log' = log \o Skipped(next, SkippedTo)
          /\ pc' = "done"
     ELSE pc' = "groupDone" /\ UNCHANGED log
  /\ UNCHANGED <<groupVars, next, poolVars, committed, concluded, accepted, signal, aborted, failure>>

\* executeToolCalls resumes with the group's outcome.
GroupDone ==
  /\ pc = "groupDone"
  /\ pc' = "classify"
  /\ UNCHANGED <<groupVars, next, poolVars, resultVars, signal, aborted, failure>>

\* Mutant: the failure is thrown without waiting for the pool.
DrainedAtOnce == TRUE
\* Mutant: the drain waits for the map of calls, which only the main loop empties.
DrainedWhenEmpty == inFlight = {}

\* Promise.allSettled over the calls in flight.
AllSettled == inFlight = settled

\* The failure leaves runGroup and executeToolCalls.
Rethrow ==
  /\ pc = "draining"
  /\ AllSettled
  /\ pc' = "failed"
  /\ UNCHANGED <<groupVars, next, poolVars, resultVars, signal, aborted, failure>>

-----------------------------------------------------------------------------
Init ==
  /\ pc = "classify" /\ base = 1 /\ mode = "parallel" /\ next = 1 /\ committed = 0
  /\ slots = [i \in Calls |-> "none"] /\ inFlight = {} /\ settled = {} /\ exclusive = {}
  /\ signal \in BOOLEAN /\ aborted = FALSE /\ failure = FALSE /\ concluded = FALSE
  /\ log = <<>> /\ accepted = <<>>

Modes == {"parallel", "exclusive"}

Bodies == \E i \in Calls, outcome \in {"post", "final", "reject"} : BodySettles(i, outcome)

Scheduler ==
  \/ \E m \in Modes : Classify(m) \/ FillPool(m)
  \/ \E outcome \in {"dispatch", "post", "final", "reject"} : Prepared(outcome)
  \/ Started \/ Committed \/ LeaveGroup \/ GroupDone \/ Rethrow
  \/ \E concludes, context \in BOOLEAN :
       \/ CommitReady(concludes, context)
       \/ \E ok \in BOOLEAN : Finalized(ok, concludes, context)
  \/ \E i \in Calls : RaceSettles(i)

Next == Abort \/ Bodies \/ Scheduler

Spec == Init /\ [][Next]_vars

\* Every await of the scheduler settles and every dispatched body settles.
Fairness == WF_vars(Scheduler) /\ \A i \in Calls : WF_vars(BodySettles(i, "post") \/ BodySettles(i, "final") \/ BodySettles(i, "reject"))

FairSpec == Spec /\ Fairness

-----------------------------------------------------------------------------
\* Properties.

Finished == pc \in {"done", "failed"}

Events ==
  [type : {"tool/call"}, call : Calls, skipped : BOOLEAN]
    \cup [type : {"tool/result"}, call : Calls, skipped : BOOLEAN, concludes : BOOLEAN]

\* Every variable holds a value of its type, and only a started body settles.
ControlTypeOK ==
  /\ pc \in {"classify", "fill", "preparing", "prepared", "commit", "finalizing", "committed",
             "racing", "groupDone", "draining", "done", "failed"}
  /\ base \in Calls /\ mode \in Modes /\ next \in 1..(N + 1) /\ committed \in 0..N
  /\ slots \in [Calls -> {"none", "post", "final"}]
  /\ inFlight \subseteq Calls /\ settled \subseteq inFlight /\ exclusive \subseteq Calls
FlagTypeOK == signal \in BOOLEAN /\ aborted \in BOOLEAN /\ failure \in BOOLEAN /\ concluded \in BOOLEAN
RecordTypeOK == log \in Seq(Events) /\ accepted \in Seq(Calls)
TypeOK == ControlTypeOK /\ FlagTypeOK /\ RecordTypeOK

Recorded(type, i, upTo) == \E k \in DOMAIN log : k < upTo /\ log[k].type = type /\ log[k].call = i
Increasing(s) == \A a, b \in DOMAIN s : a < b => s[a] < s[b]

\* Bodies overlap and settle in any order, yet calls are recorded in model order without
\* gaps, and so are results, each result after its call, and contexts are accepted in
\* that order.
ModelOrder ==
  /\ \A a, b \in DOMAIN log : a < b /\ log[a].type = log[b].type => log[a].call < log[b].call
  /\ \A b \in DOMAIN log :
       /\ log[b].call > 1 => Recorded(log[b].type, log[b].call - 1, b)
       /\ log[b].type = "tool/result" => Recorded("tool/call", log[b].call, b)
  /\ Increasing(accepted)

\* An ordinary end, aborted or not, leaves a call and a result for every block of the
\* assistant message, so the transcript is valid for a provider; and a concluding result
\* of any group is reported.
EveryCallAnswered ==
  pc = "done" =>
    /\ \A i \in Calls, type \in {"tool/call", "tool/result"} : Recorded(type, i, Len(log) + 1)
    /\ concluded <=> \E k \in DOMAIN log : log[k].type = "tool/result" /\ log[k].concludes

\* A scheduler failure is thrown only when nothing is running any more, and it
\* fabricates no result: the results on record are the committed ones.
FailureDrains ==
  pc = "failed" => inFlight = settled /\ \A k \in DOMAIN log : ~log[k].skipped

Executing == (inFlight \ settled) \cup (IF pc = "preparing" THEN {next} ELSE {})

\* A call that was exclusive when it was started shares its execution with no
\* other call, before or after it, although modes may change after the group
\* was formed.
ExclusiveAlone == \A i \in Executing \cap exclusive : Executing = {i}

\* From the moment the signal is aborted no call is started: what is appended
\* are results of started calls and the pairs of skipped ones.
AbortStartsNothing ==
  [][signal /\ log' # log => LET e == log'[Len(log')] IN e.type = "tool/result"]_vars

\* The step's tool calls always come to an end once bodies and policies settle.
Terminates == <>Finished
=============================================================================
