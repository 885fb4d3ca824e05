--------------------------- MODULE SessionRecovery ---------------------------
(***************************************************************************)
(* What a process crash leaves of a session log, and how the next load     *)
(* closes it:                                                              *)
(*   packages/core/session/src/repair.ts                    the closers    *)
(*   packages/core/session/src/invariant.ts                 what is legal  *)
(*   packages/session/session-checkpoint-policy/src/index.ts  barriers     *)
(*   packages/session/session-persistence/src/coordinator.ts  prepare      *)
(*                                                                         *)
(* The agent appends to the in-memory log; the write-behind controller     *)
(* (SessionWriteBehind) makes ever longer prefixes of it durable.  The     *)
(* checkpoint policy holds a request or a tool body back until what was    *)
(* logged before it is durable.  Event seq is position - 1; 0 stands for   *)
(* null in turn, step and callSeq.                                         *)
(***************************************************************************)
EXTENDS Naturals, Sequences, FiniteSets, SequencesExt

CONSTANTS
  Calls,      \* tool-call ids; providers reuse them from step to step
  MaxTurns,   \* bound: turns begun
  MaxSteps,   \* bound: steps in the log
  MaxCrashes  \* bound: process crashes

ASSUME CallsFinite == IsFiniteSet(Calls)
ASSUME BoundsAssumption == MaxTurns \in Nat /\ MaxSteps \in Nat /\ MaxCrashes \in Nat

VARIABLES
  log,       \* the session's events; the stored ones while no process is up
  durable,   \* how many of them are certainly stored
  up,        \* a process has the session open
  pc,        \* its agent: "idle", "turn", "step", "asked" or "tools"
  turn,      \* the last turn begun
  step,      \* the last step begun in it
  plan,      \* the open step's tool calls, in model order
  tool,      \* how far each call of the plan has got
  crashes,
  asked,     \* history: the logs the provider was asked to continue
  ran        \* history: the <<turn, step, call>> tool bodies that ran

agentVars == <<pc, turn, step, plan, tool>>
history == <<asked, ran>>
vars == <<log, durable, up, agentVars, crashes, history>>

-----------------------------------------------------------------------------
\* Events.

TurnStart(t) == [type |-> "turn/start", turn |-> t]
TurnEnd(t) == [type |-> "turn/end", turn |-> t]
StepStart(t, s) == [type |-> "step/start", turn |-> t, step |-> s]
StepEnd(t, s) == [type |-> "step/end", turn |-> t, step |-> s]
AssistantMessage(t, s, cs) == [type |-> "assistant/message", turn |-> t, step |-> s, calls |-> cs]
ToolCall(t, s, c) == [type |-> "tool/call", turn |-> t, step |-> s, call |-> c]
ToolResult(t, s, c, code, cites) ==
  [type |-> "tool/result", turn |-> t, step |-> s, call |-> c, error |-> code, cites |-> cites]

-----------------------------------------------------------------------------
\* repair.ts: one scan of the log, then the closers of its open tail.

NothingOpen == [turn |-> 0, step |-> 0, pendingCalls |-> <<>>, seq |-> 0]

\* Calls of a closed step never leak into the repair of the tail.
CallsAtStepEnd(pending) == <<>>

\* pendingCalls.delete: a Map has one entry for a call id.
Deleted(pending, c) ==
  LET hits == {i \in DOMAIN pending : pending[i].call = c}
  IN IF hits = {} THEN pending ELSE RemoveAt(pending, CHOOSE i \in hits : TRUE)

\* The loop body of interruptedTurnClosers.
Scan(s, e) ==
  LET at == s.seq + 1
  IN CASE e.type = "turn/start" -> [turn |-> e.turn, step |-> 0, pendingCalls |-> <<>>, seq |-> at]
       [] e.type = "turn/end" -> [NothingOpen EXCEPT !.seq = at]
       [] e.type = "step/start" -> [s EXCEPT !.step = e.step, !.seq = at]
       [] e.type = "step/end" -> [s EXCEPT !.step = 0, !.pendingCalls = CallsAtStepEnd(@), !.seq = at]
       [] e.type = "assistant/message" ->
            [s EXCEPT !.seq = at,
                      !.pendingCalls = @ \o [i \in DOMAIN e.calls |->
                                               [call |-> e.calls[i], step |-> e.step, callSeq |-> 0]]]
       [] e.type = "tool/call" ->
            [s EXCEPT !.seq = at,
                      !.pendingCalls = [i \in DOMAIN @ |-> IF @[i].call = e.call
                                                           THEN [@[i] EXCEPT !.callSeq = at] ELSE @[i]]]
       [] e.type = "tool/result" ->
            [s EXCEPT !.seq = at,
                      !.pendingCalls = Deleted(@, e.call)]

\* The synthetic result of one unanswered call.
SyntheticResult(t, p) ==
  ToolResult(t, p.step, p.call,
             IF p.callSeq = 0 THEN "TOOL_NOT_STARTED" ELSE "TOOL_OUTCOME_UNKNOWN", p.callSeq)

\* Mutant: a turn is closed only where no step was open.
InnermostOnly(results, t, s) ==
  results \o <<IF s = 0 THEN TurnEnd(t) ELSE StepEnd(t, s)>>

\* Mutant: the boundaries are closed before the calls inside them.
BoundariesFirst(results, t, s) ==
  (IF s = 0 THEN <<>> ELSE <<StepEnd(t, s)>>) \o results \o <<TurnEnd(t)>>

\* Results first: a provider rejects a dangling call, a turn/end an open step.
InClosingOrder(results, t, s) ==
  results \o (IF s = 0 THEN <<>> ELSE <<StepEnd(t, s)>>) \o <<TurnEnd(t)>>

\* The loop of interruptedTurnClosers, and the open tail it ends with.
Scanned(events) ==
  LET scan[i \in 0 .. Len(events)] == IF i = 0 THEN NothingOpen ELSE Scan(scan[i - 1], events[i])
  IN scan
OpenTail(events) == Scanned(events)[Len(events)]

\* interruptedTurnClosers(events).
Closers(events) ==
  LET open == OpenTail(events)
  IN IF open.turn = 0 THEN <<>>
     ELSE InClosingOrder([i \in DOMAIN open.pendingCalls |->
                            SyntheticResult(open.turn, open.pendingCalls[i])],
                         open.turn, open.step)

-----------------------------------------------------------------------------
\* invariant.ts: what the package demands of every log.

FreshTrace == [ok |-> TRUE, turn |-> 0, step |-> 0, nextTurn |-> 1, nextStep |-> 1, pendingCalls |-> {}]

\* validateEvent, then applyTransition when it does not fail.
Validate(t, e) ==
  LET inStep == t.turn = e.turn /\ t.step = e.step
      notStarted == e.error = "TOOL_NOT_STARTED"
  IN CASE e.type = "turn/start" ->
            [t EXCEPT !.ok = @ /\ t.turn = 0 /\ e.turn = t.nextTurn, !.turn = e.turn, !.nextStep = 1]
       [] e.type = "turn/end" ->
            [t EXCEPT !.ok = @ /\ t.turn = e.turn /\ t.step = 0, !.turn = 0, !.nextTurn = @ + 1]
       [] e.type = "step/start" ->
            [t EXCEPT !.ok = @ /\ t.turn = e.turn /\ t.step = 0 /\ e.step = t.nextStep, !.step = e.step]
       [] e.type = "step/end" ->
            [t EXCEPT !.ok = @ /\ inStep, !.step = 0, !.nextStep = @ + 1, !.pendingCalls = {}]
       [] e.type = "assistant/message" -> [t EXCEPT !.ok = @ /\ inStep]
       [] e.type = "tool/call" -> [t EXCEPT !.ok = @ /\ inStep, !.pendingCalls = @ \cup {e.call}]
       [] e.type = "tool/result" ->
            [t EXCEPT !.ok = @ /\ inStep /\ (e.call \in t.pendingCalls \/ notStarted),
                      !.pendingCalls = @ \ {e.call}]

\* seedSession: the trace of a whole log.
Traced(events) ==
  LET trace[i \in 0 .. Len(events)] == IF i = 0 THEN FreshTrace ELSE Validate(trace[i - 1], events[i])
  IN trace
Trace(events) == Traced(events)[Len(events)]

-----------------------------------------------------------------------------
\* The running process: the agent appends, the policy holds it back.

Running(p) == up /\ pc = p
Appends(e) == log' = Append(log, e)
NoPlan == plan' = <<>> /\ tool' = [c \in Calls |-> "none"]

\* A write-behind batch lands.
Persist(n) ==
  /\ up
  /\ n \in durable + 1 .. Len(log)
  /\ durable' = n
  /\ UNCHANGED <<log, up, agentVars, crashes, history>>

BeginTurn ==
  /\ Running("idle")
  /\ turn < MaxTurns
  /\ turn' = turn + 1
  /\ step' = 0
  /\ Appends(TurnStart(turn + 1))
  /\ pc' = "turn"
  /\ UNCHANGED <<durable, up, plan, tool, crashes, history>>

\* agent/pre-step flushes what the preceding step logged.
StepCheckpointed == durable = Len(log)

BeginStep ==
  /\ Running("turn")
  /\ StepCheckpointed
  /\ Cardinality({i \in DOMAIN log : log[i].type = "step/start"}) < MaxSteps
  /\ step' = step + 1
  /\ Appends(StepStart(turn, step + 1))
  /\ pc' = "step"
  /\ UNCHANGED <<durable, up, turn, plan, tool, crashes, history>>

\* Mutant: the stream is built before the flush.
RequestHeldByNothing == TRUE

\* llm/stream flushes before it asks the adapter for the stream.
RequestCheckpointed == durable = Len(log)

SendRequest ==
  /\ Running("step")
  /\ RequestCheckpointed
  /\ pc' = "asked"
  /\ asked' = asked \cup {log}
  /\ UNCHANGED <<log, durable, up, turn, step, plan, tool, crashes, ran>>

\* The assistant message, with its tool calls.
Respond(cs) ==
  /\ Running("asked")
  /\ Appends(AssistantMessage(turn, step, cs))
  /\ plan' = cs
  /\ tool' = [c \in Calls |-> IF c \in Range(cs) THEN "planned" ELSE "none"]
  /\ pc' = "tools"
  /\ UNCHANGED <<durable, up, turn, step, crashes, history>>

\* The calls are recorded in model order, and answered in model order.
IsNext(i, stages) == tool[plan[i]] \in stages /\ \A j \in 1 .. i - 1 : tool[plan[j]] \notin stages

StartCall ==
  /\ Running("tools")
  /\ \E i \in DOMAIN plan :
       /\ IsNext(i, {"planned"})
       /\ Appends(ToolCall(turn, step, plan[i]))
       /\ tool' = [tool EXCEPT ![plan[i]] = "started"]
  /\ UNCHANGED <<durable, up, pc, turn, step, plan, crashes, history>>

CallSeq(c) == SelectLastInSeq(log, LAMBDA e : e.type = "tool/call" /\ e.call = c)

\* Mutant: the body runs as soon as it is dispatched.
BodyHeldByNothing(c) == TRUE

\* tools/execute flushes before the body.  The flush resolves over the call's
\* event, but the other calls of the step may be recorded or answered between
\* its resolution and the body: nothing after the call need be stored yet.
BodyCheckpointed(c) == durable >= CallSeq(c)

RunBody(c) ==
  /\ Running("tools")
  /\ tool[c] = "started"
  /\ BodyCheckpointed(c)
  /\ tool' = [tool EXCEPT ![c] = "settled"]
  /\ ran' = ran \cup {<<turn, step, c>>}
  /\ UNCHANGED <<log, durable, up, pc, turn, step, plan, crashes, asked>>

\* A failed flush, or an abort that lands during it, settles the call unrun.
RefuseBody(c) ==
  /\ Running("tools")
  /\ tool[c] = "started"
  /\ tool' = [tool EXCEPT ![c] = "settled"]
  /\ UNCHANGED <<log, durable, up, pc, turn, step, plan, crashes, history>>

CommitResult ==
  /\ Running("tools")
  /\ \E i \in DOMAIN plan :
       /\ IsNext(i, {"planned", "started", "settled"})
       /\ tool[plan[i]] = "settled"
       /\ Appends(ToolResult(turn, step, plan[i], "none", CallSeq(plan[i])))
       /\ tool' = [tool EXCEPT ![plan[i]] = "answered"]
  /\ UNCHANGED <<durable, up, pc, turn, step, plan, crashes, history>>

\* step/end in the finally clause: after the answers, or after a failure that
\* left calls unanswered; the scheduler has drained its bodies in either case.
EndStep ==
  /\ up /\ pc \in {"step", "asked", "tools"}
  /\ \A c \in Calls : tool[c] # "started"
  /\ Appends(StepEnd(turn, step))
  /\ pc' = "turn"
  /\ NoPlan
  /\ UNCHANGED <<durable, up, turn, step, crashes, history>>

EndTurn ==
  /\ Running("turn")
  /\ Appends(TurnEnd(turn))
  /\ pc' = "idle"
  /\ UNCHANGED <<durable, up, turn, step, plan, tool, crashes, history>>

-----------------------------------------------------------------------------
\* Crash and load.

\* Any prefix that holds everything acknowledged may be what is found.
Crash(n) ==
  /\ up
  /\ crashes < MaxCrashes
  /\ crashes' = crashes + 1
  /\ n \in durable .. Len(log)
  /\ log' = SubSeq(log, 1, n)
  /\ durable' = n
  /\ up' = FALSE
  /\ pc' = "idle"
  /\ NoPlan
  /\ UNCHANGED <<turn, step, history>>

\* commitRepair is not atomic: a crash leaves any prefix of the closers.
CrashInRepair(j) ==
  /\ ~up
  /\ crashes < MaxCrashes
  /\ crashes' = crashes + 1
  /\ j \in 1 .. Len(Closers(log)) - 1
  /\ log' = log \o SubSeq(Closers(log), 1, j)
  /\ durable' = Len(log')
  /\ UNCHANGED <<up, agentVars, history>>

\* The durable cursor of a prepared source.
Cursor(events) == Len(events)

\* commitPrepared writes the closers and asks for the source to be read again.
CommitRepair ==
  /\ ~up
  /\ Closers(log) # <<>>
  /\ log' = log \o Closers(log)
  /\ durable' = Cursor(log')
  /\ UNCHANGED <<up, agentVars, crashes, history>>

\* Mutant: the new agent counts turns from its own start.
TurnsFromOne(events) == 0

\* A new agent numbers its turns after the last turn/start of the log.
LastTurn(events) ==
  LET i == SelectLastInSeq(events, LAMBDA e : e.type = "turn/start")
  IN IF i = 0 THEN 0 ELSE events[i].turn

\* A source that needs no repair is published.
Reopen ==
  /\ ~up
  /\ Closers(log) = <<>>
  /\ up' = TRUE
  /\ turn' = LastTurn(log)
  /\ step' = 0
  /\ UNCHANGED <<log, durable, pc, plan, tool, crashes, history>>

-----------------------------------------------------------------------------
Init ==
  /\ log = <<>> /\ durable = 0 /\ up = TRUE
  /\ pc = "idle" /\ turn = 0 /\ step = 0
  /\ plan = <<>> /\ tool = [c \in Calls |-> "none"]
  /\ crashes = 0 /\ asked = {} /\ ran = {}

\* Distinct ids in some order: what an assistant message can carry.
Plans == {cs \in BoundedSeq(Calls, Cardinality(Calls)) : IsInjective(cs)}

Next ==
  \/ \E n \in 1 .. Len(log) : Persist(n)
  \/ BeginTurn \/ BeginStep \/ SendRequest
  \/ \E cs \in Plans : Respond(cs)
  \/ StartCall
  \/ \E c \in Calls : RunBody(c) \/ RefuseBody(c)
  \/ CommitResult \/ EndStep \/ EndTurn
  \/ \E n \in 0 .. Len(log) : Crash(n)
  \/ \E j \in 1 .. Len(log) + 2 : CrashInRepair(j)
  \/ CommitRepair \/ Reopen

Spec == Init /\ [][Next]_vars

-----------------------------------------------------------------------------
Codes == {"none", "TOOL_NOT_STARTED", "TOOL_OUTCOME_UNKNOWN"}

Events ==
  [type : {"turn/start", "turn/end"}, turn : Nat]
    \cup [type : {"step/start", "step/end"}, turn : Nat, step : Nat]
    \cup [type : {"assistant/message"}, turn : Nat, step : Nat, calls : Seq(Calls)]
    \cup [type : {"tool/call"}, turn : Nat, step : Nat, call : Calls]
    \cup [type : {"tool/result"}, turn : Nat, step : Nat, call : Calls, error : Codes, cites : Nat]

\* Every variable has its type, and what is acknowledged as stored is logged.
TypeOK ==
  /\ log \in Seq(Events)
  /\ durable \in 0 .. Len(log)
  /\ up \in BOOLEAN
  /\ pc \in {"idle", "turn", "step", "asked", "tools"}
  /\ turn \in Nat /\ step \in Nat
  /\ plan \in Seq(Calls)
  /\ tool \in [Calls -> {"none", "planned", "started", "settled", "answered"}]

Repaired(events) == events \o Closers(events)

\* Whatever a crash left, and wherever the repair of it was cut short, the log and its
\* repair pass the relational invariants of dsh-session: turns and steps are numbered
\* without a gap and never nest, and results have their calls.
LogValid == Trace(log).ok /\ Trace(Repaired(log)).ok

\* The repair closes everything: a repaired log needs no second repair (or commitPrepared
\* would reload for ever), and each call of the step that was open is answered exactly once.
RepairComplete ==
  LET repaired == Repaired(log)
  IN
  /\ Closers(repaired) = <<>>
  /\ \A i \in DOMAIN log :
       /\ log[i].type = "assistant/message"
       /\ \A k \in i + 1 .. Len(log) : log[k].type # "step/end"
       => \A c \in Range(log[i].calls) :
            Cardinality({k \in i + 1 .. Len(repaired) :
                           /\ repaired[k].type = "tool/result"
                           /\ repaired[k].call = c}) = 1

\* commitRepair need not be atomic: from any prefix of the closers the next load goes on
\* to the very log the first would have written.
RepairResumes ==
  LET closers == Closers(log)
  IN \A j \in DOMAIN closers : Repaired(log \o SubSeq(closers, 1, j)) = log \o closers

\* A model told TOOL_NOT_STARTED may simply call again, so no call whose body ran is ever
\* answered that way: its tool/call was durable before the body ran, on any crash.
RanNotDenied ==
  \A r \in ran : \A i \in DOMAIN log :
    log[i].type = "tool/result" /\ <<log[i].turn, log[i].step, log[i].call>> = r
      => log[i].error # "TOOL_NOT_STARTED"

\* The transcript a provider was asked to continue is never taken back: after any crash
\* the log still begins with every log a request was made from.
RequestsKept == \A sent \in asked : IsPrefix(sent, log)

=============================================================================
