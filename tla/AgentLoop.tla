------------------------------ MODULE AgentLoop ------------------------------
(***************************************************************************)
(* The turn/step driver of one agent: packages/core/agent-loop/src/        *)
(* agent.ts (class ReactLoopAgent) over the pending lists of               *)
(* packages/core/agent/src/inbox.ts.                                       *)
(*                                                                         *)
(* One JavaScript thread runs everything, so an action is one stretch of   *)
(* code between two places where other code can run.  Other code runs      *)
(*   - while the driver is suspended at an await (pc in Awaiting);         *)
(*   - inside a live notification (agent/status, agent/error,              *)
(*     agent/inbox/inserted), where listeners may call back;               *)
(*   - inside session.append, where a session/event observer may abort     *)
(*     the activity but cannot append again (pc in Publishing).            *)
(* A call of wakeDriver that is still below a notification on the stack is *)
(* a member of frames.                                                     *)
(***************************************************************************)
EXTENDS Naturals, Sequences, FiniteSets, SequencesExt

CONSTANTS
  Messages,        \* identities of user messages; each is submitted once
  RuntimeContext,  \* the runtime-context message a pre-step may add
  MaxStep,         \* bound: steps of one turn
  MaxNesting       \* bound: wakeDriver calls on the stack at once

ASSUME RuntimeContextAssumption == RuntimeContext \notin Messages
ASSUME BoundsAssumption == MaxStep \in Nat \ {0} /\ MaxNesting \in Nat \ {0}

Targets == {"next-turn", "next-step"}
Causes == {"user", "disposed"}
NoCause == "none"

StepEnds == {"completed", "max-tokens"}
Endings == StepEnds \cup {"blocked", "aborted", "error"}

\* Awaits of the driver: any other code may run before the next driver action.
Awaiting == {"none", "assemble", "preStep", "decided", "request", "stream",
             "requestError", "tools", "stepDone", "stopping", "continuing", "settling"}
\* The agent/status listeners of setPhase and the agent/error listeners of throwError.
Notifying == {"reserved", "failing"}
\* Synchronous stretches right after a session.append: observers may only abort.
Publishing == {"boundary", "stepOpen", "stepClosed", "closing", "closed"}

VARIABLES
  phase,          \* Phase.kind
  abort,          \* the cause the activity's AbortController was aborted with
  wakeRequested,  \* Phase.wakeRequested
  turn,           \* Phase.turn, Phase.lastTurn when not running
  step,           \* Phase.step
  pc,             \* where the driver is
  target,         \* local of turn(): the list the next claim reads
  turnEnds,       \* local of turn(): "null" until a step decides
  exit,           \* how turn() is left: "normal", "return" or "throw"
  inbox,          \* the two pending lists
  batch,          \* messages claimed, then the decision's messages
  decision,       \* PreparedStep.kind while pc = "decided"
  frames,         \* wakeDriver calls pending on the stack, innermost last
  turnLog,        \* the session events the current or last turn appended
  transcript,     \* user messages appended to the session, in order
  disposal,       \* the lifecycle owner: live, drainIdle, drainActive, drained
  sent            \* how each message was submitted: unsent, quiet or waking

phaseVars == <<phase, abort, wakeRequested, turn, step>>
turnVars == <<target, turnEnds, exit, batch, decision>>
logs == <<turnLog, transcript>>
vars == <<phaseVars, pc, turnVars, inbox, frames, logs, disposal, sent>>

-----------------------------------------------------------------------------
\* Session events (the fields the properties read).  Inbox mutations appear
\* only as the claims made inside a turn: module AgentInbox models their records.

TurnStart(t) == [type |-> "turn/start", turn |-> t]
TurnEnd(t, r) == [type |-> "turn/end", turn |-> t, reason |-> r]
StepStart(t, s) == [type |-> "step/start", turn |-> t, step |-> s]
StepEnd(t, s) == [type |-> "step/end", turn |-> t, step |-> s]
AssistantMessage(f) == [type |-> "assistant/message", finish |-> f]
ClaimedTurn(n) == [type |-> "claimed", count |-> n]

hasPending == inbox["next-turn"] # <<>> \/ inbox["next-step"] # <<>>

\* Inbox.splice of one message at the end, as send calls it.
Insert(tgt, m, how) ==
  /\ inbox' = [inbox EXCEPT ![tgt] = Append(@, m)]
  /\ sent' = [sent EXCEPT ![m] = how]

-----------------------------------------------------------------------------
\* Callers of the public API.

\* Other code can run; code that appends needs the session's append to be over.
CallersRun == pc \in Awaiting \cup Notifying
\* The driver resumes from an await only with an empty stack.
Resumes(p) == pc = p /\ frames = <<>>

\* wakeDriver from idle: reserve the running phase and publish agent/status.
StartDriver ==
  /\ phase' = "running"
  /\ abort' = NoCause
  /\ step' = 0
  /\ wakeRequested' = FALSE
  /\ pc' = "reserved"
  /\ UNCHANGED turn

\* An activity that cannot deliver the wake latches it, unless it is being disposed.
Latches(wakeAfterAbort) ==
  abort # "disposed" /\ (phase = "maintenance" \/ wakeAfterAbort)

\* Mutant: a cancelled activity counts as idle, so a wake overlaps it.
StartsOverAborted(wakeAfterAbort) == phase = "idle" \/ wakeAfterAbort

\* wakeDriver: only the idle phase starts a driver.
StartsDriver(wakeAfterAbort) == phase = "idle"

WakeDriver(wakeAfterAbort) ==
  IF StartsDriver(wakeAfterAbort) THEN StartDriver
  ELSE /\ wakeRequested' = IF Latches(wakeAfterAbort) THEN TRUE ELSE wakeRequested
       /\ UNCHANGED <<phase, abort, turn, step, pc>>

\* send(message, target, wakeup) up to the agent/inbox/inserted notification;
\* a waking send leaves its wakeDriver call on the stack with the
\* classification captured before the insertion.
Send(m, tgt, wakeup) ==
  /\ CallersRun
  /\ disposal # "drained"
  /\ sent[m] = "unsent"
  /\ wakeup => Len(frames) < MaxNesting
  /\ LET wakingAfterAbort == wakeup /\ phase # "idle" /\ abort # NoCause
         resolvedTarget == IF wakingAfterAbort THEN "next-turn" ELSE tgt
     IN /\ Insert(resolvedTarget, m, IF wakeup THEN "waking" ELSE "quiet")
        /\ frames' = IF ~wakeup THEN frames
                     ELSE Append(frames, IF wakingAfterAbort THEN "sendAfterAbort" ELSE "send")
  /\ UNCHANGED <<phaseVars, pc, turnVars, logs, disposal>>

\* The innermost notification returns and its caller reaches wakeDriver.  The
\* replay of kick() is suppressed when the queue no longer holds the wake.
ReturnToWake ==
  /\ frames # <<>>
  /\ pc \notin Publishing
  /\ frames' = Front(frames)
  /\ \/ Last(frames) = "send" /\ WakeDriver(FALSE)
     \/ Last(frames) = "sendAfterAbort" /\ WakeDriver(TRUE)
     \/ Last(frames) = "replay" /\ hasPending /\ WakeDriver(FALSE)
     \/ Last(frames) = "replay" /\ ~hasPending /\ UNCHANGED <<phaseVars, pc>>
  /\ UNCHANGED <<turnVars, inbox, logs, disposal, sent>>

\* cancel(cause, {keepInbox}).  Inside an append, clearing a non-empty inbox
\* throws before anything changes.
Cancel(cause, keepInbox) ==
  /\ CallersRun \/ keepInbox \/ ~hasPending
  /\ IF keepInbox THEN UNCHANGED <<inbox, wakeRequested>>
     ELSE /\ inbox' = [t \in Targets |-> <<>>]
          /\ wakeRequested' = IF phase = "idle" THEN wakeRequested ELSE FALSE
  /\ abort' = IF phase # "idle" /\ abort = NoCause THEN cause ELSE abort
  /\ UNCHANGED <<phase, turn, step, pc, turnVars, frames, logs, sent>>

UserCancel(keepInbox) ==
  /\ disposal # "drained"
  /\ Cancel("user", keepInbox)
  /\ UNCHANGED disposal

\* Inbox.remove of one pending message by its identity.
RemovePending(tgt, i) ==
  /\ CallersRun
  /\ disposal # "drained"
  /\ i \in 1..Len(inbox[tgt])
  /\ inbox' = [inbox EXCEPT ![tgt] = RemoveAt(@, i)]
  /\ UNCHANGED <<phaseVars, pc, turnVars, frames, logs, disposal, sent>>

\* runMaintenance: claims the idle phase and starts the job.
RunMaintenance ==
  /\ CallersRun
  /\ disposal # "drained"
  /\ phase = "idle"
  /\ phase' = "maintenance"
  /\ abort' = NoCause
  /\ wakeRequested' = FALSE
  /\ UNCHANGED <<turn, step, pc, turnVars, inbox, frames, logs, disposal, sent>>

\* The job settles: idle again, and a latched wake is replayed in the same
\* stretch (maintenance is publicly idle, so no status is published).
MaintenanceSettles ==
  /\ phase = "maintenance"
  /\ Resumes("none")
  /\ IF wakeRequested /\ hasPending
     THEN StartDriver
     ELSE /\ phase' = "idle"
          /\ abort' = NoCause
          /\ wakeRequested' = FALSE
          /\ UNCHANGED <<turn, step, pc>>
  /\ UNCHANGED <<turnVars, inbox, frames, logs, disposal, sent>>

\* The lifecycle owner's dispose: cancel({kind: 'disposed'}), then whenIdle.
Dispose ==
  /\ disposal = "live"
  /\ CallersRun \/ ~hasPending
  /\ Cancel("disposed", FALSE)
  /\ disposal' = IF phase = "idle" THEN "drainIdle" ELSE "drainActive"

\* whenIdle resolves once no activity replaced the one it awaited; the agent
\* then leaves the registry and callers no longer reach it.
Drained ==
  /\ disposal \in {"drainIdle", "drainActive"}
  /\ phase = "idle"
  /\ Resumes("none")
  /\ disposal' = "drained"
  /\ UNCHANGED <<phaseVars, pc, turnVars, inbox, frames, logs, sent>>

-----------------------------------------------------------------------------
\* The driver: kick() and turn().

\* Mutant: the catch clause of an abort assigns no ending.
CaughtWithoutEnding == IF abort # NoCause THEN turnEnds ELSE "error"

\* The catch clause of turn() classifies a throw by the signal.
CaughtEnding == IF abort # NoCause THEN "aborted" ELSE "error"

\* A throw that leaves the loop of turn().  An error is published (agent/error) before turn/end, an abort is not.
Throw ==
  /\ turnEnds' = CaughtEnding
  /\ exit' = "throw"
  /\ pc' = IF abort # NoCause THEN "closing" ELSE "failing"
  /\ batch' = <<>>
  /\ decision' = "none"
  /\ UNCHANGED target

\* turn() up to the turn/start append: an aborted driver never opens a turn.
OpenTurn ==
  /\ pc = "reserved" \/ Resumes("continuing")
  /\ IF abort # NoCause
     THEN /\ pc' = "settling"
          /\ exit' = "throw"
          /\ UNCHANGED <<turn, target, turnEnds, turnLog>>
     ELSE /\ turnLog' = <<TurnStart(turn + 1)>>
          /\ turn' = turn + 1
          /\ target' = "next-turn"
          /\ turnEnds' = "null"
          /\ exit' = "normal"
          /\ pc' = "boundary"
  /\ UNCHANGED <<phase, abort, wakeRequested, step, batch, decision, inbox, frames,
                 transcript, disposal, sent>>

\* How many queued turns a claim takes.
TurnsToClaim(tgt) == IF tgt = "next-turn" /\ inbox["next-turn"] # <<>> THEN 1 ELSE 0

\* Mutant: the claim leaves the queued turn in the list.
TurnsKept(k) == inbox["next-turn"]

\* The queued turns a claim of k leaves.
TurnsLeft(k) == SubSeq(inbox["next-turn"], k + 1, Len(inbox["next-turn"]))

\* Inbox.claim: all of next-step, then one next-turn message at a turn boundary.
ClaimBatch(tgt) ==
  LET k == TurnsToClaim(tgt)
  IN /\ batch' = inbox["next-step"] \o SubSeq(inbox["next-turn"], 1, k)
     /\ inbox' = [inbox EXCEPT !["next-step"] = <<>>,
                               !["next-turn"] = TurnsLeft(k)]
     /\ turnLog' = IF k = 0 THEN turnLog ELSE Append(turnLog, ClaimedTurn(k))

\* Top of the loop in turn(): claim synchronously, then await the assembly.
ProposeStep ==
  /\ pc = "boundary"
  /\ IF abort # NoCause
     THEN Throw /\ UNCHANGED <<inbox, turnLog>>
     ELSE /\ ClaimBatch(target)
          /\ pc' = "assemble"
          /\ UNCHANGED <<target, turnEnds, exit, decision>>
  /\ UNCHANGED <<phaseVars, frames, transcript, disposal, sent>>

\* systemPrompt.assemble settles; throwIfAborted.
Assembled(ok) ==
  /\ Resumes("assemble")
  /\ IF ok /\ abort = NoCause
     THEN pc' = "preStep" /\ UNCHANGED turnVars
     ELSE Throw
  /\ UNCHANGED <<phaseVars, inbox, frames, logs, disposal, sent>>

\* The agent/pre-step waterfall settles: listeners reject, enter the claimed
\* messages (with runtime context or not), or rewrite them away.
PreStep(kind, messages) ==
  /\ Resumes("preStep")
  /\ IF kind # "throw" /\ abort = NoCause
     THEN /\ decision' = kind
          /\ batch' = messages
          /\ pc' = "decided"
          /\ UNCHANGED <<target, turnEnds, exit>>
     ELSE Throw
  /\ UNCHANGED <<phaseVars, inbox, frames, logs, disposal, sent>>

PreStepSettles ==
  \/ PreStep("throw", <<>>)
  \/ PreStep("reject", <<>>)
  \/ \E messages \in {batch, Append(batch, RuntimeContext), <<>>} : PreStep("enter", messages)

\* Mutant: the signal is not consulted again after the decision.
StepAlwaysOpens == TRUE

\* The last look at the signal before step/start.
StepMayOpen == abort = NoCause

\* The step/start append of turn().
OpenStep ==
  IF ~StepMayOpen THEN Throw /\ UNCHANGED <<step, turnLog>>
  ELSE /\ step' = step + 1
       /\ turnLog' = Append(turnLog, StepStart(turn, step + 1))
       /\ pc' = "stepOpen"
       /\ decision' = "none"
       /\ UNCHANGED <<target, turnEnds, exit, batch>>

\* turn() resumes with the decision of preStep.
Decide ==
  /\ Resumes("decided")
  /\ \/ /\ decision = "reject"
        /\ turnEnds' = "blocked" /\ exit' = "return" /\ pc' = "closing"
        /\ decision' = "none" /\ UNCHANGED <<step, target, batch, turnLog>>
     \/ /\ decision = "enter" /\ batch = <<>> /\ turnEnds # "null"
        /\ exit' = "normal" /\ pc' = "closing"
        /\ decision' = "none" /\ UNCHANGED <<step, target, turnEnds, batch, turnLog>>
     \/ /\ decision = "enter" /\ batch = <<>> /\ turnEnds = "null" /\ step = 0
        /\ turnEnds' = "completed" /\ exit' = "return" /\ pc' = "closing"
        /\ decision' = "none" /\ UNCHANGED <<step, target, batch, turnLog>>
     \/ /\ decision = "enter" /\ (batch # <<>> \/ (turnEnds = "null" /\ step # 0))
        /\ OpenStep
  /\ UNCHANGED <<phase, abort, wakeRequested, turn, inbox, frames, transcript, disposal, sent>>

\* The user/message appends of the entered batch, in order.
EnterMessage ==
  /\ pc = "stepOpen"
  /\ batch # <<>>
  /\ transcript' = Append(transcript, Head(batch))
  /\ batch' = Tail(batch)
  /\ UNCHANGED <<phaseVars, pc, target, turnEnds, exit, decision, inbox, frames, turnLog, disposal, sent>>

\* step(): every await of the request leads to one of the outcomes below.  A
\* throw inside step() reaches the finally clause that appends step/end.
StepThrows ==
  /\ exit' = "throw"
  /\ pc' = "stepDone"
  /\ UNCHANGED turnEnds

\* max-tokens is sticky: a later step that completes does not downgrade it.
EndAfterStep(stepEnd) == IF turnEnds = "max-tokens" THEN turnEnds ELSE stepEnd

StepReturns(stepEnd) ==
  /\ turnEnds' = EndAfterStep(stepEnd)
  /\ pc' = "stepDone"
  /\ UNCHANGED exit

BeginStep ==
  /\ pc = "stepOpen"
  /\ batch = <<>>
  /\ IF abort # NoCause THEN StepThrows
     ELSE pc' = "request" /\ UNCHANGED <<turnEnds, exit>>
  /\ UNCHANGED <<phaseVars, target, batch, decision, inbox, frames, logs, disposal, sent>>

\* buildRequest settles.
RequestBuilt(ok) ==
  /\ Resumes("request")
  /\ IF ok /\ abort = NoCause THEN pc' = "stream" /\ UNCHANGED <<turnEnds, exit>>
     ELSE StepThrows
  /\ UNCHANGED <<phaseVars, target, batch, decision, inbox, frames, logs, disposal, sent>>

\* The model stream ends: cut by an abort (the visible prefix is kept), failed
\* by a throw, finished with an error chunk, or finished with a message.
StreamCut(visible) ==
  /\ abort # NoCause
  /\ turnLog' = IF visible THEN Append(turnLog, AssistantMessage("interrupted")) ELSE turnLog
  /\ StepThrows

StreamFails ==
  /\ abort = NoCause
  /\ \/ StepThrows
     \/ pc' = "requestError" /\ UNCHANGED <<turnEnds, exit>>
  /\ UNCHANGED turnLog

StreamFinishes(finish) ==
  /\ abort = NoCause
  /\ turnLog' = Append(turnLog, AssistantMessage(finish))
  /\ CASE finish = "max-tokens" -> StepReturns("max-tokens")
       [] finish = "stop" -> StepReturns("completed")
       [] finish = "tool-calls" -> pc' = "tools" /\ UNCHANGED <<turnEnds, exit>>

StreamEnds ==
  /\ Resumes("stream")
  /\ \/ \E visible \in BOOLEAN : StreamCut(visible)
     \/ StreamFails
     \/ \E finish \in {"max-tokens", "stop", "tool-calls"} : StreamFinishes(finish)
  /\ UNCHANGED <<phaseVars, target, batch, decision, inbox, frames, transcript, disposal, sent>>

\* The agent/request-error waterfall: retry builds the request again inside the step.
RequestErrorSettles(action) ==
  /\ Resumes("requestError")
  /\ IF action = "retry" /\ abort = NoCause
     THEN pc' = "request" /\ UNCHANGED <<turnEnds, exit>>
     ELSE StepThrows
  /\ UNCHANGED <<phaseVars, target, batch, decision, inbox, frames, logs, disposal, sent>>

\* executeToolCalls accepts one result context into the next-step inbox (also
\* while draining after an abort).
ToolContext(m) ==
  /\ Resumes("tools")
  /\ sent[m] = "unsent"
  /\ Insert("next-step", m, "quiet")
  /\ UNCHANGED <<phaseVars, pc, turnVars, frames, logs, disposal>>

\* executeToolCalls settles: a concluding result, more steps to run, or a
\* scheduler failure.  The bound on steps stops the model, not the code.
ToolsSettle(outcome) ==
  /\ Resumes("tools")
  /\ outcome = "continue" => step < MaxStep
  /\ CASE outcome = "concluded" -> StepReturns("completed")
       [] outcome = "continue" -> StepReturns("null")
       [] outcome = "failure" -> StepThrows
  /\ UNCHANGED <<phaseVars, target, batch, decision, inbox, frames, logs, disposal, sent>>

\* Mutant: step/end outside the finally clause.
LogStepEndOnReturn == IF exit = "throw" THEN turnLog ELSE Append(turnLog, StepEnd(turn, step))

\* finally of the step: step/end is appended however the step ended.
LogWithStepEnd == Append(turnLog, StepEnd(turn, step))

CloseStep ==
  /\ Resumes("stepDone")
  /\ turnLog' = LogWithStepEnd
  /\ pc' = "stepClosed"
  /\ UNCHANGED <<phaseVars, turnVars, inbox, frames, transcript, disposal, sent>>

\* After step/end: rethrow, observe the abort, or decide whether the turn stops.
AfterStep ==
  /\ pc = "stepClosed"
  /\ \/ (exit = "throw" \/ abort # NoCause) /\ Throw
     \/ /\ exit # "throw" /\ abort = NoCause
        /\ turnEnds # "null" /\ inbox["next-step"] = <<>>
        /\ pc' = "stopping" /\ UNCHANGED turnVars
     \/ /\ exit # "throw" /\ abort = NoCause
        /\ turnEnds = "null" \/ inbox["next-step"] # <<>>
        /\ target' = "next-step" /\ pc' = "boundary"
        /\ UNCHANGED <<turnEnds, exit, batch, decision>>
  /\ UNCHANGED <<phaseVars, inbox, frames, logs, disposal, sent>>

\* The agent/turn-stopping listeners settle; steering they queued keeps the turn open.
StoppingSettles(ok) ==
  /\ Resumes("stopping")
  /\ IF ~ok \/ abort # NoCause THEN Throw
     ELSE IF inbox["next-step"] = <<>>
          THEN pc' = "closing" /\ UNCHANGED turnVars
          ELSE target' = "next-step" /\ pc' = "boundary"
               /\ UNCHANGED <<turnEnds, exit, batch, decision>>
  /\ UNCHANGED <<phaseVars, inbox, frames, logs, disposal, sent>>

\* The agent/error listeners return.
ErrorReported ==
  /\ Resumes("failing")
  /\ pc' = "closing"
  /\ UNCHANGED <<phaseVars, turnVars, inbox, frames, logs, disposal, sent>>

\* Mutant: turn/end outside the finally clause.
LogTurnEndOnReturn == IF exit = "throw" THEN turnLog ELSE Append(turnLog, TurnEnd(turn, turnEnds))

\* finally of turn(): turn/end is appended however the turn ended.
LogWithTurnEnd == Append(turnLog, TurnEnd(turn, turnEnds))

CloseTurn ==
  /\ pc = "closing"
  /\ turnLog' = LogWithTurnEnd
  /\ pc' = "closed"
  /\ UNCHANGED <<phaseVars, turnVars, inbox, frames, transcript, disposal, sent>>

\* After turn/end: only a turn that fell out of its loop looks at the queue again.
AfterTurn ==
  /\ pc = "closed"
  /\ IF exit = "normal" /\ hasPending
     THEN /\ abort' = NoCause
          /\ wakeRequested' = FALSE
          /\ step' = 0
          /\ pc' = "continuing"
     ELSE pc' = "settling" /\ UNCHANGED <<abort, wakeRequested, step>>
  /\ UNCHANGED <<phase, turn, turnVars, inbox, frames, logs, disposal, sent>>

\* Mutants: a thrown turn leaves the phase running; the exiting driver drops its latch.
RetiredOnReturn == IF exit = "throw" THEN phase ELSE "idle"
ReplayNothing == <<>>

\* finally of kick(): idle is published, then a latched wake is replayed.
RetiredPhase == "idle"
ReplayFrames == IF wakeRequested THEN <<"replay">> ELSE <<>>

Retire ==
  /\ Resumes("settling")
  /\ phase' = RetiredPhase
  /\ abort' = NoCause
  /\ wakeRequested' = FALSE
  /\ step' = 0
  /\ pc' = "none"
  /\ frames' = ReplayFrames
  /\ UNCHANGED <<turn, turnVars, inbox, logs, disposal, sent>>

-----------------------------------------------------------------------------
Init ==
  /\ phase = "idle" /\ abort = NoCause /\ wakeRequested = FALSE
  /\ turn = 0 /\ step = 0 /\ pc = "none"
  /\ target = "next-turn" /\ turnEnds = "null" /\ exit = "normal"
  /\ inbox = [t \in Targets |-> <<>>]
  /\ batch = <<>> /\ decision = "none"
  /\ frames = <<>> /\ turnLog = <<>> /\ transcript = <<>> /\ disposal = "live" /\ sent = [m \in Messages |-> "unsent"]

Callers ==
  \/ \E m \in Messages, tgt \in Targets, wakeup \in BOOLEAN : Send(m, tgt, wakeup)
  \/ \E keepInbox \in BOOLEAN : UserCancel(keepInbox)
  \/ \E tgt \in Targets : \E i \in 1..Len(inbox[tgt]) : RemovePending(tgt, i)
  \/ RunMaintenance
  \/ Dispose

Driver ==
  \/ ReturnToWake \/ OpenTurn \/ ProposeStep
  \/ \E ok \in BOOLEAN : Assembled(ok) \/ RequestBuilt(ok) \/ StoppingSettles(ok)
  \/ PreStepSettles \/ Decide \/ EnterMessage \/ BeginStep \/ StreamEnds
  \/ \E action \in {"retry", "none"} : RequestErrorSettles(action)
  \/ \E outcome \in {"concluded", "continue", "failure"} : ToolsSettle(outcome)
  \/ CloseStep \/ AfterStep \/ ErrorReported \/ CloseTurn \/ AfterTurn \/ Retire

Next ==
  \/ Callers
  \/ Driver
  \/ \E m \in Messages : ToolContext(m)
  \/ MaintenanceSettles
  \/ Drained

Spec == Init /\ [][Next]_vars

\* Every await of the driver, and every maintenance job, is assumed to settle;
\* a stack unwinds.  Callers owe nothing.
Fairness ==
  /\ WF_vars(Driver)
  /\ WF_vars(MaintenanceSettles)

FairSpec == Spec /\ Fairness

-----------------------------------------------------------------------------
\* Properties.

Events ==
  [type : {"turn/start"}, turn : Nat]
    \cup [type : {"turn/end"}, turn : Nat, reason : Endings]
    \cup [type : {"step/start", "step/end"}, turn : Nat, step : Nat]
    \cup [type : {"assistant/message"}, finish : {"interrupted", "max-tokens", "stop", "tool-calls"}]
    \cup [type : {"claimed"}, count : Nat]

PhaseTypeOK ==
  /\ phase \in {"idle", "maintenance", "running"}
  /\ abort \in Causes \cup {NoCause}
  /\ turn \in Nat /\ step \in Nat
  /\ disposal \in {"live", "drainIdle", "drainActive", "drained"}

TurnTypeOK ==
  /\ pc \in Awaiting \cup Notifying \cup Publishing
  /\ target \in Targets
  /\ turnEnds \in Endings \cup {"null"}
  /\ exit \in {"normal", "return", "throw"}
  /\ decision \in {"none", "reject", "enter"}

QueueTypeOK ==
  /\ inbox \in [Targets -> Seq(Messages)]
  /\ batch \in Seq(Messages \cup {RuntimeContext})
  /\ transcript \in Seq(Messages \cup {RuntimeContext})
  /\ frames \in Seq({"send", "sendAfterAbort", "replay"})
  /\ sent \in [Messages -> {"unsent", "quiet", "waking"}]

\* Every variable holds a value of its type.
TypeOK ==
  /\ PhaseTypeOK
  /\ wakeRequested \in BOOLEAN
  /\ TurnTypeOK
  /\ QueueTypeOK
  /\ turnLog \in Seq(Events)

Of(kind) == {i \in DOMAIN turnLog : turnLog[i].type = kind}

\* The durable structure replay and repair rely on: a turn's events start with
\* its turn/start, its steps are numbered 1, 2, ... and closed one by one before
\* the next opens, and nothing follows its turn/end or precedes an open step's end.
TurnBracketed ==
  turnLog # <<>> =>
    /\ turnLog[1] = TurnStart(turn) /\ Of("turn/start") = {1}
    /\ \A i \in Of("turn/end") :
         i = Len(turnLog) /\ turnLog[i].turn = turn
           /\ Cardinality(Of("step/start")) = Cardinality(Of("step/end"))
    /\ \A i \in Of("step/start") :
         LET earlier == {k \in Of("step/start") : k < i}
         IN /\ turnLog[i] = StepStart(turn, Cardinality(earlier) + 1)
            /\ \A k \in earlier : \E e \in Of("step/end") :
                 k < e /\ e < i /\ turnLog[e] = StepEnd(turn, turnLog[k].step)
    /\ \A i \in Of("step/end") : \E k \in Of("step/start") :
         k < i /\ turnLog[k].step = turnLog[i].step /\ turnLog[i].turn = turn

\* Without an active driver the last turn is closed, so a log read at idle needs
\* no repair: turn/end is appended on every path out of a turn.
IdleLogClosed ==
  phase # "running" /\ turnLog # <<>> => Last(turnLog).type = "turn/end"

\* A new turn is opened only over a closed one and takes the next number, across
\* latched replays, continued drivers and reentrant wakes.
TurnsDoNotOverlap ==
  [][turn' # turn => turn' = turn + 1 /\ (turnLog = <<>> \/ Last(turnLog).type = "turn/end")]_vars

Occurrences(m, q) == Cardinality({i \in DOMAIN q : q[i] = m})

\* A submitted message is pending, claimed, or in the transcript, never in two of
\* these places and never twice in one: claims under cancellation, latched
\* replays and tool contexts do not duplicate model input.
NoMessageTwice ==
  \A m \in Messages :
    Occurrences(m, inbox["next-turn"]) + Occurrences(m, inbox["next-step"])
      + Occurrences(m, batch) + Occurrences(m, transcript) <= IF sent[m] = "unsent" THEN 0 ELSE 1

\* A running driver holds a latch only under a cancellation by someone other
\* than the disposer: a live driver has none (a fresh controller makes an older
\* one stale), and a disposed activity never replays.
LatchOnlyAfterCancel == phase = "running" /\ wakeRequested => abort = "user"

\* After a cancellation the activity opens neither a turn nor a step: every
\* throwIfAborted between two awaits is in place.
AbortOpensNothing ==
  [][abort # NoCause /\ turnLog' # turnLog =>
       Last(turnLog').type \notin {"turn/start", "step/start"}]_vars

\* The parts of the inductive invariant behind the safety properties.

\* The running phase is held exactly as long as a driver exists.
DriverHasPhase == phase = "running" <=> pc # "none"

\* A turn that is being left has an ending: no path reaches the turn/end append
\* with the initial null.
EndingKnown == pc \in {"stopping", "failing", "closing"} => turnEnds # "null"

LogClosed == turnLog = <<>> \/ Last(turnLog).type = "turn/end"
\* A driver outside a turn left a closed turn behind.
ClosedBetweenTurns == pc \in {"none", "reserved", "continuing", "settling", "closed"} => LogClosed

\* A wakeDriver call that saw a cancelled activity still meets that activity when
\* the stack unwinds to it: no driver step slips in between that would replace it.
AbortedSendMeetsAbort ==
  (\E i \in DOMAIN frames : frames[i] = "sendAfterAbort") =>
    abort # NoCause /\ phase # "idle" /\ pc \notin Publishing

\* The driver's inductive invariant: a driver, its phase, the turn it closes and
\* the wakes pending on the stack agree at every interruption point.
DriverInvariant ==
  /\ DriverHasPhase
  /\ EndingKnown
  /\ ClosedBetweenTurns
  /\ AbortedSendMeetsAbort
  /\ LatchOnlyAfterCancel

\* A cancelled activity always ends: it converges to idle, or a fresh controller
\* starts in its place (a latched wake replayed by maintenance, or a driver whose
\* turn had already ended and goes on with the queue).
CancelConverges ==
  (phase # "idle" /\ abort # NoCause) ~> (phase = "idle" \/ pc \in {"reserved", "continuing"})

\* A turn whose turn/start is the only event so far.
JustOpened == pc = "boundary" /\ Len(turnLog) = 1

\* A wake latched behind an aborted activity or a maintenance job is not lost:
\* a turn opens, unless the queue empties or a later cancellation parks it.
LatchedWakeRuns ==
  (wakeRequested /\ hasPending)
    ~> (JustOpened \/ ~hasPending \/ (abort # NoCause /\ ~wakeRequested))

\* Claims of the repository that the code does not keep.

\* "disposal never latches, so teardown waits on no model turn" (agent.ts): once
\* a disposal hit an active agent, no wake is latched while it drains.
DisposalNeverLatches == disposal = "drainActive" /\ phase = "running" => ~wakeRequested

\* "Live drivers claim queued work themselves" (agent.ts): a driver that nobody
\* cancelled and whose turn completed does not stop over a queued waking prompt.
LiveDriverClaims ==
  [][pc = "closed" /\ abort = NoCause /\ turnEnds = "completed" /\ pc' = "settling" =>
       \A i \in DOMAIN inbox["next-turn"] : sent[inbox["next-turn"][i]] # "waking"]_vars

=============================================================================
