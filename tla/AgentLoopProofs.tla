--------------------------- MODULE AgentLoopProofs ---------------------------
(***************************************************************************)
(* Proofs about AgentLoop for any set of messages and any bounds: its      *)
(* types, the inductive invariant DriverInvariant and the safety           *)
(* properties that follow from it, where each message is, and the brackets *)
(* of a turn.                                                              *)
(***************************************************************************)
EXTENDS AgentLoop, SequenceTheorems, FiniteSetTheorems, TLAPS

\* The definitions that make an action a statement about single variables.
USE DEF phaseVars, turnVars, logs, vars

-----------------------------------------------------------------------------
\* Types.

\* Every event the driver appends is an event.
LEMMA EventTypes ==
  ASSUME NEW t \in Nat, NEW s \in Nat
  PROVE  /\ TurnStart(t) \in Events
         /\ \A r \in Endings : TurnEnd(t, r) \in Events
         /\ StepStart(t, s) \in Events
         /\ StepEnd(t, s) \in Events
         /\ \A f \in {"interrupted", "max-tokens", "stop", "tool-calls"} : AssistantMessage(f) \in Events
         /\ ClaimedTurn(t) \in Events
BY DEF TurnStart, TurnEnd, StepStart, StepEnd, AssistantMessage, ClaimedTurn, Events

\* The fixed sequences the actions assign.
LEMMA EmptySequences ==
  /\ <<>> \in Seq(Messages)
  /\ <<>> \in Seq(Messages \cup {RuntimeContext})
  /\ <<>> \in Seq({"send", "sendAfterAbort", "replay"})
  /\ <<"replay">> \in Seq({"send", "sendAfterAbort", "replay"})
  /\ [t \in Targets |-> <<>>] \in [Targets -> Seq(Messages)]
OBVIOUS

\* Inbox.claim moves messages between the lists and the batch.
LEMMA ClaimTypes ==
  ASSUME QueueTypeOK, NEW tgt \in Targets, ClaimBatch(tgt)
  PROVE  /\ inbox' \in [Targets -> Seq(Messages)]
         /\ batch' \in Seq(Messages \cup {RuntimeContext})
<1> DEFINE k == TurnsToClaim(tgt)
<1>1. k \in {0, 1} /\ k <= Len(inbox["next-turn"])
  BY DEF TurnsToClaim, QueueTypeOK, Targets
<1>2. inbox["next-turn"] \in Seq(Messages) /\ inbox["next-step"] \in Seq(Messages)
  BY DEF QueueTypeOK, Targets
<1>3. SubSeq(inbox["next-turn"], 1, k) \in Seq(Messages)
  BY <1>1, <1>2
<1>4. TurnsLeft(k) \in Seq(Messages)
  BY <1>1, <1>2 DEF TurnsLeft
<1>5. inbox' \in [Targets -> Seq(Messages)]
  BY <1>4, EmptySequences DEF ClaimBatch, QueueTypeOK, Targets
<1>6. batch' \in Seq(Messages)
  BY <1>2, <1>3 DEF ClaimBatch
<1> QED
  BY <1>5, <1>6

LEMMA TypeInit == Init => TypeOK
<1> SUFFICES ASSUME Init PROVE TypeOK
  OBVIOUS
<1>1. wakeRequested \in BOOLEAN
  BY DEF Init
<1>2. turnLog \in Seq(Events)
  BY DEF Init
<1>3. QueueTypeOK
  BY EmptySequences DEF Init, QueueTypeOK
<1>4. PhaseTypeOK /\ TurnTypeOK
  BY DEF Init, PhaseTypeOK, TurnTypeOK, Targets, NoCause, Awaiting
<1> QED
  BY <1>1, <1>3, <1>4, <1>2 DEF TypeOK

\* The phase fields keep their types.
LEMMA PhaseTypeStep == TypeOK /\ [Next]_vars => (PhaseTypeOK)'
<1> SUFFICES ASSUME TypeOK, [Next]_vars PROVE (PhaseTypeOK)'
  OBVIOUS
<1> USE DEF Targets, Causes, NoCause, Endings, StepEnds, Awaiting, Notifying, Publishing, Resumes
<1>1. ASSUME NEW m \in Messages, NEW tgt \in Targets, NEW wakeup \in BOOLEAN, Send(m, tgt, wakeup) PROVE (PhaseTypeOK)'
  BY <1>1 DEF TypeOK, PhaseTypeOK, Send, Insert
<1>2. ASSUME NEW keepInbox \in BOOLEAN, UserCancel(keepInbox) PROVE (PhaseTypeOK)'
  BY <1>2 DEF TypeOK, PhaseTypeOK, UserCancel, Cancel
<1>3. ASSUME NEW tgt \in Targets, NEW i \in 1..Len(inbox[tgt]), RemovePending(tgt, i) PROVE (PhaseTypeOK)'
  BY <1>3 DEF TypeOK, PhaseTypeOK, RemovePending, RemoveAt
<1>4. CASE RunMaintenance
  BY <1>4 DEF TypeOK, PhaseTypeOK, RunMaintenance
<1>5. CASE Dispose
  BY <1>5 DEF TypeOK, PhaseTypeOK, Dispose, Cancel
<1>6. CASE ReturnToWake
  <2>1. WakeDriver(TRUE) \/ WakeDriver(FALSE) \/ UNCHANGED <<phaseVars, pc>>
    BY <1>6 DEF ReturnToWake
  <2>2. \/ phase' = "running" /\ abort' = NoCause /\ step' = 0 /\ turn' = turn
        \/ UNCHANGED <<phase, abort, turn, step>>
    BY <2>1, Zenon DEF WakeDriver, StartDriver
  <2> QED
    BY <1>6, <2>2 DEF TypeOK, PhaseTypeOK, ReturnToWake
<1>7. CASE OpenTurn
  BY <1>7 DEF TypeOK, PhaseTypeOK, OpenTurn
<1>8. CASE ProposeStep
  BY <1>8 DEF TypeOK, PhaseTypeOK, ProposeStep, Throw, CaughtEnding, ClaimBatch, TurnsToClaim, TurnsLeft
<1>9. ASSUME NEW ok \in BOOLEAN, Assembled(ok) PROVE (PhaseTypeOK)'
  BY <1>9 DEF TypeOK, PhaseTypeOK, Assembled, Throw, CaughtEnding
<1>10. ASSUME NEW ok \in BOOLEAN, RequestBuilt(ok) PROVE (PhaseTypeOK)'
  BY <1>10 DEF TypeOK, PhaseTypeOK, RequestBuilt, StepThrows
<1>11. ASSUME NEW ok \in BOOLEAN, StoppingSettles(ok) PROVE (PhaseTypeOK)'
  BY <1>11 DEF TypeOK, PhaseTypeOK, StoppingSettles, Throw, CaughtEnding
<1>12. CASE PreStepSettles
  BY <1>12 DEF TypeOK, PhaseTypeOK, PreStepSettles, PreStep, Throw, CaughtEnding
<1>13. CASE Decide
  BY <1>13 DEF TypeOK, PhaseTypeOK, Decide, OpenStep, StepMayOpen, Throw, CaughtEnding
<1>14. CASE EnterMessage
  BY <1>14 DEF TypeOK, PhaseTypeOK, EnterMessage
<1>15. CASE BeginStep
  BY <1>15 DEF TypeOK, PhaseTypeOK, BeginStep, StepThrows
<1>16. CASE StreamEnds
  BY <1>16
     DEF TypeOK, PhaseTypeOK, StreamEnds, StreamCut, StreamFails, StreamFinishes, StepThrows,
         StepReturns, EndAfterStep
<1>17. ASSUME NEW action \in {"retry", "none"}, RequestErrorSettles(action) PROVE (PhaseTypeOK)'
  BY <1>17 DEF TypeOK, PhaseTypeOK, RequestErrorSettles, StepThrows
<1>18. ASSUME NEW outcome \in {"concluded", "continue", "failure"}, ToolsSettle(outcome) PROVE (PhaseTypeOK)'
  BY <1>18 DEF TypeOK, PhaseTypeOK, ToolsSettle, StepThrows, StepReturns, EndAfterStep
<1>19. CASE CloseStep
  BY <1>19 DEF TypeOK, PhaseTypeOK, CloseStep, LogWithStepEnd
<1>20. CASE AfterStep
  BY <1>20 DEF TypeOK, PhaseTypeOK, AfterStep, Throw, CaughtEnding
<1>21. CASE ErrorReported
  BY <1>21 DEF TypeOK, PhaseTypeOK, ErrorReported
<1>22. CASE CloseTurn
  BY <1>22 DEF TypeOK, PhaseTypeOK, CloseTurn, LogWithTurnEnd
<1>23. CASE AfterTurn
  BY <1>23 DEF TypeOK, PhaseTypeOK, AfterTurn
<1>24. CASE Retire
  BY <1>24 DEF TypeOK, PhaseTypeOK, Retire, RetiredPhase, ReplayFrames
<1>25. ASSUME NEW m \in Messages, ToolContext(m) PROVE (PhaseTypeOK)'
  BY <1>25 DEF TypeOK, PhaseTypeOK, ToolContext, Insert
<1>26. CASE MaintenanceSettles
  BY <1>26 DEF TypeOK, PhaseTypeOK, MaintenanceSettles, StartDriver
<1>27. CASE Drained
  BY <1>27 DEF TypeOK, PhaseTypeOK, Drained
<1>28. CASE UNCHANGED vars
  BY <1>28 DEF TypeOK, PhaseTypeOK
<1> QED
  BY <1>1, <1>2, <1>3, <1>4, <1>5, <1>6, <1>7, <1>8, <1>9, <1>10, <1>11, <1>12, <1>13, <1>14,
     <1>15, <1>16, <1>17, <1>18, <1>19, <1>20, <1>21, <1>22, <1>23, <1>24, <1>25, <1>26, <1>27,
     <1>28
     DEF Next, Callers, Driver

\* Phase.wakeRequested stays a flag.
LEMMA LatchTypeStep == TypeOK /\ [Next]_vars => (wakeRequested \in BOOLEAN)'
<1> SUFFICES ASSUME TypeOK, [Next]_vars PROVE (wakeRequested \in BOOLEAN)'
  OBVIOUS
<1> USE DEF Targets, Causes, NoCause, Endings, StepEnds, Awaiting, Notifying, Publishing, Resumes
<1>1. ASSUME NEW m \in Messages, NEW tgt \in Targets, NEW wakeup \in BOOLEAN, Send(m, tgt, wakeup)
     PROVE (wakeRequested \in BOOLEAN)'
  BY <1>1 DEF TypeOK, Send, Insert
<1>2. ASSUME NEW keepInbox \in BOOLEAN, UserCancel(keepInbox) PROVE (wakeRequested \in BOOLEAN)'
  BY <1>2 DEF TypeOK, UserCancel, Cancel
<1>3. ASSUME NEW tgt \in Targets, NEW i \in 1..Len(inbox[tgt]), RemovePending(tgt, i) PROVE (wakeRequested \in BOOLEAN)'
  BY <1>3 DEF TypeOK, RemovePending, RemoveAt
<1>4. CASE RunMaintenance
  BY <1>4 DEF TypeOK, RunMaintenance
<1>5. CASE Dispose
  BY <1>5 DEF TypeOK, Dispose, Cancel
<1>6. CASE ReturnToWake
  BY <1>6 DEF TypeOK, ReturnToWake, WakeDriver, StartDriver, StartsDriver, Latches, Front,
     Last
<1>7. CASE OpenTurn
  BY <1>7 DEF TypeOK, OpenTurn
<1>8. CASE ProposeStep
  BY <1>8 DEF TypeOK, ProposeStep, Throw, CaughtEnding, ClaimBatch, TurnsToClaim, TurnsLeft
<1>9. ASSUME NEW ok \in BOOLEAN, Assembled(ok) PROVE (wakeRequested \in BOOLEAN)'
  BY <1>9 DEF TypeOK, Assembled, Throw, CaughtEnding
<1>10. ASSUME NEW ok \in BOOLEAN, RequestBuilt(ok) PROVE (wakeRequested \in BOOLEAN)'
  BY <1>10 DEF TypeOK, RequestBuilt, StepThrows
<1>11. ASSUME NEW ok \in BOOLEAN, StoppingSettles(ok) PROVE (wakeRequested \in BOOLEAN)'
  BY <1>11 DEF TypeOK, StoppingSettles, Throw, CaughtEnding
<1>12. CASE PreStepSettles
  BY <1>12 DEF TypeOK, PreStepSettles, PreStep, Throw, CaughtEnding
<1>13. CASE Decide
  BY <1>13 DEF TypeOK, Decide, OpenStep, StepMayOpen, Throw, CaughtEnding
<1>14. CASE EnterMessage
  BY <1>14 DEF TypeOK, EnterMessage
<1>15. CASE BeginStep
  BY <1>15 DEF TypeOK, BeginStep, StepThrows
<1>16. CASE StreamEnds
  BY <1>16 DEF TypeOK, StreamEnds, StreamCut, StreamFails, StreamFinishes, StepThrows,
     StepReturns, EndAfterStep
<1>17. ASSUME NEW action \in {"retry", "none"}, RequestErrorSettles(action) PROVE (wakeRequested \in BOOLEAN)'
  BY <1>17 DEF TypeOK, RequestErrorSettles, StepThrows
<1>18. ASSUME NEW outcome \in {"concluded", "continue", "failure"}, ToolsSettle(outcome)
     PROVE (wakeRequested \in BOOLEAN)'
  BY <1>18 DEF TypeOK, ToolsSettle, StepThrows, StepReturns, EndAfterStep
<1>19. CASE CloseStep
  BY <1>19 DEF TypeOK, CloseStep, LogWithStepEnd
<1>20. CASE AfterStep
  BY <1>20 DEF TypeOK, AfterStep, Throw, CaughtEnding
<1>21. CASE ErrorReported
  BY <1>21 DEF TypeOK, ErrorReported
<1>22. CASE CloseTurn
  BY <1>22 DEF TypeOK, CloseTurn, LogWithTurnEnd
<1>23. CASE AfterTurn
  BY <1>23 DEF TypeOK, AfterTurn
<1>24. CASE Retire
  BY <1>24 DEF TypeOK, Retire, RetiredPhase, ReplayFrames
<1>25. ASSUME NEW m \in Messages, ToolContext(m) PROVE (wakeRequested \in BOOLEAN)'
  BY <1>25 DEF TypeOK, ToolContext, Insert
<1>26. CASE MaintenanceSettles
  BY <1>26 DEF TypeOK, MaintenanceSettles, StartDriver
<1>27. CASE Drained
  BY <1>27 DEF TypeOK, Drained
<1>28. CASE UNCHANGED vars
  BY <1>28 DEF TypeOK
<1> QED
  BY <1>1, <1>2, <1>3, <1>4, <1>5, <1>6, <1>7, <1>8, <1>9, <1>10, <1>11, <1>12, <1>13, <1>14,
     <1>15, <1>16, <1>17, <1>18, <1>19, <1>20, <1>21, <1>22, <1>23, <1>24, <1>25, <1>26, <1>27,
     <1>28
     DEF Next, Callers, Driver

\* The locals of turn() keep their types.
LEMMA TurnTypeStep == TypeOK /\ [Next]_vars => (TurnTypeOK)'
<1> SUFFICES ASSUME TypeOK, [Next]_vars PROVE (TurnTypeOK)'
  OBVIOUS
<1> USE DEF Targets, Causes, NoCause, Endings, StepEnds, Awaiting, Notifying, Publishing, Resumes
<1>1. ASSUME NEW m \in Messages, NEW tgt \in Targets, NEW wakeup \in BOOLEAN, Send(m, tgt, wakeup) PROVE (TurnTypeOK)'
  BY <1>1 DEF TypeOK, TurnTypeOK, Send, Insert
<1>2. ASSUME NEW keepInbox \in BOOLEAN, UserCancel(keepInbox) PROVE (TurnTypeOK)'
  BY <1>2 DEF TypeOK, TurnTypeOK, UserCancel, Cancel
<1>3. ASSUME NEW tgt \in Targets, NEW i \in 1..Len(inbox[tgt]), RemovePending(tgt, i) PROVE (TurnTypeOK)'
  BY <1>3 DEF TypeOK, TurnTypeOK, RemovePending, RemoveAt
<1>4. CASE RunMaintenance
  BY <1>4 DEF TypeOK, TurnTypeOK, RunMaintenance
<1>5. CASE Dispose
  BY <1>5 DEF TypeOK, TurnTypeOK, Dispose, Cancel
<1>6. CASE ReturnToWake
  BY <1>6
     DEF TypeOK, TurnTypeOK, ReturnToWake, WakeDriver, StartDriver, StartsDriver, Latches, Front, Last
<1>7. CASE OpenTurn
  BY <1>7 DEF TypeOK, TurnTypeOK, OpenTurn
<1>8. CASE ProposeStep
  BY <1>8 DEF TypeOK, TurnTypeOK, ProposeStep, Throw, CaughtEnding, ClaimBatch, TurnsToClaim, TurnsLeft
<1>9. ASSUME NEW ok \in BOOLEAN, Assembled(ok) PROVE (TurnTypeOK)'
  BY <1>9 DEF TypeOK, TurnTypeOK, Assembled, Throw, CaughtEnding
<1>10. ASSUME NEW ok \in BOOLEAN, RequestBuilt(ok) PROVE (TurnTypeOK)'
  BY <1>10 DEF TypeOK, TurnTypeOK, RequestBuilt, StepThrows
<1>11. ASSUME NEW ok \in BOOLEAN, StoppingSettles(ok) PROVE (TurnTypeOK)'
  BY <1>11 DEF TypeOK, TurnTypeOK, StoppingSettles, Throw, CaughtEnding
<1>12. CASE PreStepSettles
  BY <1>12 DEF TypeOK, TurnTypeOK, PreStepSettles, PreStep, Throw, CaughtEnding
<1>13. CASE Decide
  BY <1>13 DEF TypeOK, TurnTypeOK, Decide, OpenStep, StepMayOpen, Throw, CaughtEnding
<1>14. CASE EnterMessage
  BY <1>14 DEF TypeOK, TurnTypeOK, EnterMessage
<1>15. CASE BeginStep
  BY <1>15 DEF TypeOK, TurnTypeOK, BeginStep, StepThrows
<1>16. CASE StreamEnds
  BY <1>16
     DEF TypeOK, TurnTypeOK, StreamEnds, StreamCut, StreamFails, StreamFinishes, StepThrows,
         StepReturns, EndAfterStep
<1>17. ASSUME NEW action \in {"retry", "none"}, RequestErrorSettles(action) PROVE (TurnTypeOK)'
  BY <1>17 DEF TypeOK, TurnTypeOK, RequestErrorSettles, StepThrows
<1>18. ASSUME NEW outcome \in {"concluded", "continue", "failure"}, ToolsSettle(outcome) PROVE (TurnTypeOK)'
  BY <1>18 DEF TypeOK, TurnTypeOK, ToolsSettle, StepThrows, StepReturns, EndAfterStep
<1>19. CASE CloseStep
  BY <1>19 DEF TypeOK, TurnTypeOK, CloseStep, LogWithStepEnd
<1>20. CASE AfterStep
  BY <1>20 DEF TypeOK, TurnTypeOK, AfterStep, Throw, CaughtEnding
<1>21. CASE ErrorReported
  BY <1>21 DEF TypeOK, TurnTypeOK, ErrorReported
<1>22. CASE CloseTurn
  BY <1>22 DEF TypeOK, TurnTypeOK, CloseTurn, LogWithTurnEnd
<1>23. CASE AfterTurn
  BY <1>23 DEF TypeOK, TurnTypeOK, AfterTurn
<1>24. CASE Retire
  BY <1>24 DEF TypeOK, TurnTypeOK, Retire, RetiredPhase, ReplayFrames
<1>25. ASSUME NEW m \in Messages, ToolContext(m) PROVE (TurnTypeOK)'
  BY <1>25 DEF TypeOK, TurnTypeOK, ToolContext, Insert
<1>26. CASE MaintenanceSettles
  BY <1>26 DEF TypeOK, TurnTypeOK, MaintenanceSettles, StartDriver
<1>27. CASE Drained
  BY <1>27 DEF TypeOK, TurnTypeOK, Drained
<1>28. CASE UNCHANGED vars
  BY <1>28 DEF TypeOK, TurnTypeOK
<1> QED
  BY <1>1, <1>2, <1>3, <1>4, <1>5, <1>6, <1>7, <1>8, <1>9, <1>10, <1>11, <1>12, <1>13, <1>14,
     <1>15, <1>16, <1>17, <1>18, <1>19, <1>20, <1>21, <1>22, <1>23, <1>24, <1>25, <1>26, <1>27,
     <1>28
     DEF Next, Callers, Driver

\* The pending lists, the batch, the transcript and the stack keep their types.
LEMMA QueueTypeStep == TypeOK /\ [Next]_vars => (QueueTypeOK)'
<1> SUFFICES ASSUME TypeOK, [Next]_vars PROVE (QueueTypeOK)'
  OBVIOUS
<1> USE DEF Targets, Causes, NoCause, Endings, StepEnds, Awaiting, Notifying, Publishing, Resumes
<1>1. ASSUME NEW m \in Messages, NEW tgt \in Targets, NEW wakeup \in BOOLEAN, Send(m, tgt, wakeup) PROVE (QueueTypeOK)'
  BY <1>1 DEF TypeOK, QueueTypeOK, Send, Insert
<1>2. ASSUME NEW keepInbox \in BOOLEAN, UserCancel(keepInbox) PROVE (QueueTypeOK)'
  BY <1>2, EmptySequences DEF TypeOK, QueueTypeOK, UserCancel, Cancel
<1>3. ASSUME NEW tgt \in Targets, NEW i \in 1..Len(inbox[tgt]), RemovePending(tgt, i) PROVE (QueueTypeOK)'
  BY <1>3 DEF TypeOK, QueueTypeOK, RemovePending, RemoveAt
<1>4. CASE RunMaintenance
  BY <1>4 DEF TypeOK, QueueTypeOK, RunMaintenance
<1>5. CASE Dispose
  BY <1>5, EmptySequences DEF TypeOK, QueueTypeOK, Dispose, Cancel
<1>6. CASE ReturnToWake
  BY <1>6
     DEF TypeOK, QueueTypeOK, ReturnToWake, WakeDriver, StartDriver, StartsDriver, Latches, Front, Last
<1>7. CASE OpenTurn
  BY <1>7 DEF TypeOK, QueueTypeOK, OpenTurn
<1>8. CASE ProposeStep
  <2>1. CASE ClaimBatch(target)
    BY <1>8, <2>1, ClaimTypes DEF TypeOK, TurnTypeOK, QueueTypeOK, ProposeStep
  <2>2. CASE Throw /\ UNCHANGED inbox
    BY <1>8, <2>2, EmptySequences DEF TypeOK, QueueTypeOK, ProposeStep, Throw
  <2> QED
    BY <1>8, <2>1, <2>2 DEF ProposeStep
<1>9. ASSUME NEW ok \in BOOLEAN, Assembled(ok) PROVE (QueueTypeOK)'
  BY <1>9, EmptySequences DEF TypeOK, QueueTypeOK, Assembled, Throw
<1>10. ASSUME NEW ok \in BOOLEAN, RequestBuilt(ok) PROVE (QueueTypeOK)'
  BY <1>10 DEF TypeOK, QueueTypeOK, RequestBuilt, StepThrows
<1>11. ASSUME NEW ok \in BOOLEAN, StoppingSettles(ok) PROVE (QueueTypeOK)'
  BY <1>11, EmptySequences DEF TypeOK, QueueTypeOK, StoppingSettles, Throw
<1>12. CASE PreStepSettles
  <2>1. Append(batch, RuntimeContext) \in Seq(Messages \cup {RuntimeContext})
    BY DEF TypeOK, QueueTypeOK
  <2>2. batch' \in Seq(Messages \cup {RuntimeContext})
    BY <1>12, <2>1, EmptySequences DEF TypeOK, QueueTypeOK, PreStepSettles, PreStep, Throw
  <2> QED
    BY <1>12, <2>2 DEF TypeOK, QueueTypeOK, PreStepSettles, PreStep
<1>13. CASE Decide
  BY <1>13, EmptySequences DEF TypeOK, QueueTypeOK, Decide, OpenStep, Throw
<1>14. CASE EnterMessage
  BY <1>14 DEF TypeOK, QueueTypeOK, EnterMessage
<1>15. CASE BeginStep
  BY <1>15 DEF TypeOK, QueueTypeOK, BeginStep, StepThrows
<1>16. CASE StreamEnds
  BY <1>16
     DEF TypeOK, QueueTypeOK, StreamEnds, StreamCut, StreamFails, StreamFinishes, StepThrows,
         StepReturns, EndAfterStep
<1>17. ASSUME NEW action \in {"retry", "none"}, RequestErrorSettles(action) PROVE (QueueTypeOK)'
  BY <1>17 DEF TypeOK, QueueTypeOK, RequestErrorSettles, StepThrows
<1>18. ASSUME NEW outcome \in {"concluded", "continue", "failure"}, ToolsSettle(outcome) PROVE (QueueTypeOK)'
  BY <1>18 DEF TypeOK, QueueTypeOK, ToolsSettle, StepThrows, StepReturns, EndAfterStep
<1>19. CASE CloseStep
  BY <1>19 DEF TypeOK, QueueTypeOK, CloseStep, LogWithStepEnd
<1>20. CASE AfterStep
  BY <1>20, EmptySequences DEF TypeOK, QueueTypeOK, AfterStep, Throw
<1>21. CASE ErrorReported
  BY <1>21 DEF TypeOK, QueueTypeOK, ErrorReported
<1>22. CASE CloseTurn
  BY <1>22 DEF TypeOK, QueueTypeOK, CloseTurn, LogWithTurnEnd
<1>23. CASE AfterTurn
  BY <1>23 DEF TypeOK, QueueTypeOK, AfterTurn
<1>24. CASE Retire
  BY <1>24, EmptySequences DEF TypeOK, QueueTypeOK, Retire, ReplayFrames
<1>25. ASSUME NEW m \in Messages, ToolContext(m) PROVE (QueueTypeOK)'
  BY <1>25 DEF TypeOK, QueueTypeOK, ToolContext, Insert
<1>26. CASE MaintenanceSettles
  BY <1>26 DEF TypeOK, QueueTypeOK, MaintenanceSettles, StartDriver
<1>27. CASE Drained
  BY <1>27 DEF TypeOK, QueueTypeOK, Drained
<1>28. CASE UNCHANGED vars
  BY <1>28 DEF TypeOK, QueueTypeOK
<1> QED
  BY <1>1, <1>2, <1>3, <1>4, <1>5, <1>6, <1>7, <1>8, <1>9, <1>10, <1>11, <1>12, <1>13, <1>14,
     <1>15, <1>16, <1>17, <1>18, <1>19, <1>20, <1>21, <1>22, <1>23, <1>24, <1>25, <1>26, <1>27,
     <1>28
     DEF Next, Callers, Driver

\* The turn's log holds events only; its turn/end needs a known ending.
LEMMA LogTypeStep == TypeOK /\ EndingKnown /\ [Next]_vars => (turnLog \in Seq(Events))'
<1> SUFFICES ASSUME TypeOK /\ EndingKnown, [Next]_vars PROVE (turnLog \in Seq(Events))'
  OBVIOUS
<1> USE DEF Targets, Causes, NoCause, Endings, StepEnds, Awaiting, Notifying, Publishing, Resumes
<1>1. CASE OpenTurn
  <2>1. TurnStart(turn + 1) \in Events
    BY EventTypes DEF TypeOK, PhaseTypeOK
  <2>2. <<TurnStart(turn + 1)>> \in Seq(Events)
    BY <2>1
  <2>3. turnLog' = turnLog \/ turnLog' = <<TurnStart(turn + 1)>>
    BY <1>1 DEF OpenTurn
  <2> QED
    BY <2>2, <2>3 DEF TypeOK
<1>2. CASE ProposeStep
  <2>1. TurnsToClaim(target) \in Nat
    BY DEF TurnsToClaim
  <2>2. ClaimedTurn(TurnsToClaim(target)) \in Events
    BY <2>1, EventTypes
  <2>3. turnLog' = turnLog \/ turnLog' = Append(turnLog, ClaimedTurn(TurnsToClaim(target)))
    BY <1>2 DEF ProposeStep, ClaimBatch
  <2> QED
    BY <2>2, <2>3 DEF TypeOK
<1>3. CASE Decide
  BY <1>3, EventTypes DEF TypeOK, PhaseTypeOK, TurnTypeOK, EndingKnown, Decide, OpenStep, Throw
<1>4. CASE StreamEnds
  BY <1>4, EventTypes
     DEF TypeOK, PhaseTypeOK, TurnTypeOK, EndingKnown, StreamEnds, StreamCut, StreamFails,
         StreamFinishes
<1>5. CASE CloseStep
  BY <1>5, EventTypes DEF TypeOK, PhaseTypeOK, TurnTypeOK, EndingKnown, CloseStep, LogWithStepEnd
<1>6. CASE CloseTurn
  BY <1>6, EventTypes DEF TypeOK, PhaseTypeOK, TurnTypeOK, EndingKnown, CloseTurn, LogWithTurnEnd
<1>7. ASSUME NEW m \in Messages, NEW tgt \in Targets, NEW wakeup \in BOOLEAN, Send(m, tgt, wakeup)
     PROVE (turnLog \in Seq(Events))'
  BY <1>7 DEF TypeOK, PhaseTypeOK, TurnTypeOK, EndingKnown, Send, Insert
<1>8. ASSUME NEW keepInbox \in BOOLEAN, UserCancel(keepInbox) PROVE (turnLog \in Seq(Events))'
  BY <1>8 DEF TypeOK, PhaseTypeOK, TurnTypeOK, EndingKnown, UserCancel, Cancel
<1>9. ASSUME NEW tgt \in Targets, NEW i \in 1..Len(inbox[tgt]), RemovePending(tgt, i) PROVE (turnLog \in Seq(Events))'
  BY <1>9 DEF TypeOK, PhaseTypeOK, TurnTypeOK, EndingKnown, RemovePending, RemoveAt
<1>10. CASE RunMaintenance
  BY <1>10 DEF TypeOK, PhaseTypeOK, TurnTypeOK, EndingKnown, RunMaintenance
<1>11. CASE Dispose
  BY <1>11 DEF TypeOK, PhaseTypeOK, TurnTypeOK, EndingKnown, Dispose, Cancel
<1>12. CASE ReturnToWake
  BY <1>12 DEF TypeOK, PhaseTypeOK, TurnTypeOK, EndingKnown, ReturnToWake, WakeDriver,
     StartDriver, StartsDriver, Latches, Front, Last
<1>13. ASSUME NEW ok \in BOOLEAN, Assembled(ok) PROVE (turnLog \in Seq(Events))'
  BY <1>13 DEF TypeOK, PhaseTypeOK, TurnTypeOK, EndingKnown, Assembled, Throw, CaughtEnding
<1>14. ASSUME NEW ok \in BOOLEAN, RequestBuilt(ok) PROVE (turnLog \in Seq(Events))'
  BY <1>14 DEF TypeOK, PhaseTypeOK, TurnTypeOK, EndingKnown, RequestBuilt, StepThrows
<1>15. ASSUME NEW ok \in BOOLEAN, StoppingSettles(ok) PROVE (turnLog \in Seq(Events))'
  BY <1>15 DEF TypeOK, PhaseTypeOK, TurnTypeOK, EndingKnown, StoppingSettles, Throw,
     CaughtEnding
<1>16. CASE PreStepSettles
  BY <1>16 DEF TypeOK, PhaseTypeOK, TurnTypeOK, EndingKnown, PreStepSettles, PreStep, Throw,
     CaughtEnding
<1>17. CASE EnterMessage
  BY <1>17 DEF TypeOK, PhaseTypeOK, TurnTypeOK, EndingKnown, EnterMessage
<1>18. CASE BeginStep
  BY <1>18 DEF TypeOK, PhaseTypeOK, TurnTypeOK, EndingKnown, BeginStep, StepThrows
<1>19. ASSUME NEW action \in {"retry", "none"}, RequestErrorSettles(action) PROVE (turnLog \in Seq(Events))'
  BY <1>19 DEF TypeOK, PhaseTypeOK, TurnTypeOK, EndingKnown, RequestErrorSettles, StepThrows
<1>20. ASSUME NEW outcome \in {"concluded", "continue", "failure"}, ToolsSettle(outcome)
     PROVE (turnLog \in Seq(Events))'
  BY <1>20 DEF TypeOK, PhaseTypeOK, TurnTypeOK, EndingKnown, ToolsSettle, StepThrows,
     StepReturns, EndAfterStep
<1>21. CASE AfterStep
  BY <1>21 DEF TypeOK, PhaseTypeOK, TurnTypeOK, EndingKnown, AfterStep, Throw, CaughtEnding
<1>22. CASE ErrorReported
  BY <1>22 DEF TypeOK, PhaseTypeOK, TurnTypeOK, EndingKnown, ErrorReported
<1>23. CASE AfterTurn
  BY <1>23 DEF TypeOK, PhaseTypeOK, TurnTypeOK, EndingKnown, AfterTurn
<1>24. CASE Retire
  BY <1>24 DEF TypeOK, PhaseTypeOK, TurnTypeOK, EndingKnown, Retire, RetiredPhase,
     ReplayFrames
<1>25. ASSUME NEW m \in Messages, ToolContext(m) PROVE (turnLog \in Seq(Events))'
  BY <1>25 DEF TypeOK, PhaseTypeOK, TurnTypeOK, EndingKnown, ToolContext, Insert
<1>26. CASE MaintenanceSettles
  BY <1>26 DEF TypeOK, PhaseTypeOK, TurnTypeOK, EndingKnown, MaintenanceSettles, StartDriver
<1>27. CASE Drained
  BY <1>27 DEF TypeOK, PhaseTypeOK, TurnTypeOK, EndingKnown, Drained
<1>28. CASE UNCHANGED vars
  BY <1>28 DEF TypeOK, PhaseTypeOK, TurnTypeOK, EndingKnown
<1> QED
  BY <1>1, <1>2, <1>3, <1>4, <1>5, <1>6, <1>7, <1>8, <1>9, <1>10, <1>11, <1>12, <1>13, <1>14,
     <1>15, <1>16, <1>17, <1>18, <1>19, <1>20, <1>21, <1>22, <1>23, <1>24, <1>25, <1>26, <1>27,
     <1>28
     DEF Next, Callers, Driver

\* Every path out of a turn assigns its ending first.
LEMMA EndingStep == TypeOK /\ EndingKnown /\ [Next]_vars => (EndingKnown)'
<1> SUFFICES ASSUME TypeOK /\ EndingKnown, [Next]_vars PROVE (EndingKnown)'
  OBVIOUS
<1> USE DEF Targets, Causes, NoCause, Endings, StepEnds, Awaiting, Notifying, Publishing, Resumes
<1>1. ASSUME NEW m \in Messages, NEW tgt \in Targets, NEW wakeup \in BOOLEAN, Send(m, tgt, wakeup) PROVE (EndingKnown)'
  BY <1>1 DEF TypeOK, TurnTypeOK, EndingKnown, Send, Insert
<1>2. ASSUME NEW keepInbox \in BOOLEAN, UserCancel(keepInbox) PROVE (EndingKnown)'
  BY <1>2 DEF TypeOK, TurnTypeOK, EndingKnown, UserCancel, Cancel
<1>3. ASSUME NEW tgt \in Targets, NEW i \in 1..Len(inbox[tgt]), RemovePending(tgt, i) PROVE (EndingKnown)'
  BY <1>3 DEF TypeOK, TurnTypeOK, EndingKnown, RemovePending, RemoveAt
<1>4. CASE RunMaintenance
  BY <1>4 DEF TypeOK, TurnTypeOK, EndingKnown, RunMaintenance
<1>5. CASE Dispose
  BY <1>5 DEF TypeOK, TurnTypeOK, EndingKnown, Dispose, Cancel
<1>6. CASE ReturnToWake
  BY <1>6 DEF TypeOK, TurnTypeOK, EndingKnown, ReturnToWake, WakeDriver, StartDriver,
     StartsDriver, Latches, Front, Last
<1>7. CASE OpenTurn
  BY <1>7 DEF TypeOK, TurnTypeOK, EndingKnown, OpenTurn
<1>8. CASE ProposeStep
  BY <1>8 DEF TypeOK, TurnTypeOK, EndingKnown, ProposeStep, Throw, CaughtEnding, ClaimBatch,
     TurnsToClaim, TurnsLeft
<1>9. ASSUME NEW ok \in BOOLEAN, Assembled(ok) PROVE (EndingKnown)'
  BY <1>9 DEF TypeOK, TurnTypeOK, EndingKnown, Assembled, Throw, CaughtEnding
<1>10. ASSUME NEW ok \in BOOLEAN, RequestBuilt(ok) PROVE (EndingKnown)'
  BY <1>10 DEF TypeOK, TurnTypeOK, EndingKnown, RequestBuilt, StepThrows
<1>11. ASSUME NEW ok \in BOOLEAN, StoppingSettles(ok) PROVE (EndingKnown)'
  BY <1>11 DEF TypeOK, TurnTypeOK, EndingKnown, StoppingSettles, Throw, CaughtEnding
<1>12. CASE PreStepSettles
  BY <1>12 DEF TypeOK, TurnTypeOK, EndingKnown, PreStepSettles, PreStep, Throw, CaughtEnding
<1>13. CASE Decide
  BY <1>13 DEF TypeOK, TurnTypeOK, EndingKnown, Decide, OpenStep, StepMayOpen, Throw,
     CaughtEnding
<1>14. CASE EnterMessage
  BY <1>14 DEF TypeOK, TurnTypeOK, EndingKnown, EnterMessage
<1>15. CASE BeginStep
  BY <1>15 DEF TypeOK, TurnTypeOK, EndingKnown, BeginStep, StepThrows
<1>16. CASE StreamEnds
  BY <1>16 DEF TypeOK, TurnTypeOK, EndingKnown, StreamEnds, StreamCut, StreamFails,
     StreamFinishes, StepThrows, StepReturns, EndAfterStep
<1>17. ASSUME NEW action \in {"retry", "none"}, RequestErrorSettles(action) PROVE (EndingKnown)'
  BY <1>17 DEF TypeOK, TurnTypeOK, EndingKnown, RequestErrorSettles, StepThrows
<1>18. ASSUME NEW outcome \in {"concluded", "continue", "failure"}, ToolsSettle(outcome) PROVE (EndingKnown)'
  BY <1>18 DEF TypeOK, TurnTypeOK, EndingKnown, ToolsSettle, StepThrows, StepReturns,
     EndAfterStep
<1>19. CASE CloseStep
  BY <1>19 DEF TypeOK, TurnTypeOK, EndingKnown, CloseStep, LogWithStepEnd
<1>20. CASE AfterStep
  BY <1>20 DEF TypeOK, TurnTypeOK, EndingKnown, AfterStep, Throw, CaughtEnding
<1>21. CASE ErrorReported
  BY <1>21 DEF TypeOK, TurnTypeOK, EndingKnown, ErrorReported
<1>22. CASE CloseTurn
  BY <1>22 DEF TypeOK, TurnTypeOK, EndingKnown, CloseTurn, LogWithTurnEnd
<1>23. CASE AfterTurn
  BY <1>23 DEF TypeOK, TurnTypeOK, EndingKnown, AfterTurn
<1>24. CASE Retire
  BY <1>24 DEF TypeOK, TurnTypeOK, EndingKnown, Retire, RetiredPhase, ReplayFrames
<1>25. ASSUME NEW m \in Messages, ToolContext(m) PROVE (EndingKnown)'
  BY <1>25 DEF TypeOK, TurnTypeOK, EndingKnown, ToolContext, Insert
<1>26. CASE MaintenanceSettles
  BY <1>26 DEF TypeOK, TurnTypeOK, EndingKnown, MaintenanceSettles, StartDriver
<1>27. CASE Drained
  BY <1>27 DEF TypeOK, TurnTypeOK, EndingKnown, Drained
<1>28. CASE UNCHANGED vars
  BY <1>28 DEF TypeOK, TurnTypeOK, EndingKnown
<1> QED
  BY <1>1, <1>2, <1>3, <1>4, <1>5, <1>6, <1>7, <1>8, <1>9, <1>10, <1>11, <1>12, <1>13, <1>14,
     <1>15, <1>16, <1>17, <1>18, <1>19, <1>20, <1>21, <1>22, <1>23, <1>24, <1>25, <1>26, <1>27,
     <1>28
     DEF Next, Callers, Driver

-----------------------------------------------------------------------------
\* The driver and its log.

\* Only wakeDriver starts a driver and only the finally clause of kick() retires it.
LEMMA DriverHasPhaseStep == TypeOK /\ DriverHasPhase /\ [Next]_vars => (DriverHasPhase)'
<1> SUFFICES ASSUME TypeOK /\ DriverHasPhase, [Next]_vars PROVE (DriverHasPhase)'
  OBVIOUS
<1> USE DEF Targets, Causes, NoCause, Endings, StepEnds, Awaiting, Notifying, Publishing, Resumes
<1>1. ASSUME NEW m \in Messages, NEW tgt \in Targets, NEW wakeup \in BOOLEAN, Send(m, tgt, wakeup)
     PROVE (DriverHasPhase)'
  BY <1>1 DEF TypeOK, PhaseTypeOK, TurnTypeOK, DriverHasPhase, Send, Insert
<1>2. ASSUME NEW keepInbox \in BOOLEAN, UserCancel(keepInbox) PROVE (DriverHasPhase)'
  BY <1>2 DEF TypeOK, PhaseTypeOK, TurnTypeOK, DriverHasPhase, UserCancel, Cancel
<1>3. ASSUME NEW tgt \in Targets, NEW i \in 1..Len(inbox[tgt]), RemovePending(tgt, i) PROVE (DriverHasPhase)'
  BY <1>3 DEF TypeOK, PhaseTypeOK, TurnTypeOK, DriverHasPhase, RemovePending, RemoveAt
<1>4. CASE RunMaintenance
  BY <1>4 DEF TypeOK, PhaseTypeOK, TurnTypeOK, DriverHasPhase, RunMaintenance
<1>5. CASE Dispose
  BY <1>5 DEF TypeOK, PhaseTypeOK, TurnTypeOK, DriverHasPhase, Dispose, Cancel
<1>6. CASE ReturnToWake
  BY <1>6 DEF TypeOK, PhaseTypeOK, TurnTypeOK, DriverHasPhase, ReturnToWake, WakeDriver,
     StartDriver, StartsDriver, Latches, Front, Last
<1>7. CASE OpenTurn
  BY <1>7 DEF TypeOK, PhaseTypeOK, TurnTypeOK, DriverHasPhase, OpenTurn
<1>8. CASE ProposeStep
  BY <1>8 DEF TypeOK, PhaseTypeOK, TurnTypeOK, DriverHasPhase, ProposeStep, Throw,
     CaughtEnding, ClaimBatch, TurnsToClaim, TurnsLeft
<1>9. ASSUME NEW ok \in BOOLEAN, Assembled(ok) PROVE (DriverHasPhase)'
  BY <1>9 DEF TypeOK, PhaseTypeOK, TurnTypeOK, DriverHasPhase, Assembled, Throw, CaughtEnding
<1>10. ASSUME NEW ok \in BOOLEAN, RequestBuilt(ok) PROVE (DriverHasPhase)'
  BY <1>10 DEF TypeOK, PhaseTypeOK, TurnTypeOK, DriverHasPhase, RequestBuilt, StepThrows
<1>11. ASSUME NEW ok \in BOOLEAN, StoppingSettles(ok) PROVE (DriverHasPhase)'
  BY <1>11 DEF TypeOK, PhaseTypeOK, TurnTypeOK, DriverHasPhase, StoppingSettles, Throw,
     CaughtEnding
<1>12. CASE PreStepSettles
  BY <1>12 DEF TypeOK, PhaseTypeOK, TurnTypeOK, DriverHasPhase, PreStepSettles, PreStep, Throw,
     CaughtEnding
<1>13. CASE Decide
  BY <1>13 DEF TypeOK, PhaseTypeOK, TurnTypeOK, DriverHasPhase, Decide, OpenStep, StepMayOpen,
     Throw, CaughtEnding
<1>14. CASE EnterMessage
  BY <1>14 DEF TypeOK, PhaseTypeOK, TurnTypeOK, DriverHasPhase, EnterMessage
<1>15. CASE BeginStep
  BY <1>15 DEF TypeOK, PhaseTypeOK, TurnTypeOK, DriverHasPhase, BeginStep, StepThrows
<1>16. CASE StreamEnds
  BY <1>16 DEF TypeOK, PhaseTypeOK, TurnTypeOK, DriverHasPhase, StreamEnds, StreamCut,
     StreamFails, StreamFinishes, StepThrows, StepReturns, EndAfterStep
<1>17. ASSUME NEW action \in {"retry", "none"}, RequestErrorSettles(action) PROVE (DriverHasPhase)'
  BY <1>17 DEF TypeOK, PhaseTypeOK, TurnTypeOK, DriverHasPhase, RequestErrorSettles,
     StepThrows
<1>18. ASSUME NEW outcome \in {"concluded", "continue", "failure"}, ToolsSettle(outcome) PROVE (DriverHasPhase)'
  BY <1>18 DEF TypeOK, PhaseTypeOK, TurnTypeOK, DriverHasPhase, ToolsSettle, StepThrows,
     StepReturns, EndAfterStep
<1>19. CASE CloseStep
  BY <1>19 DEF TypeOK, PhaseTypeOK, TurnTypeOK, DriverHasPhase, CloseStep, LogWithStepEnd
<1>20. CASE AfterStep
  BY <1>20 DEF TypeOK, PhaseTypeOK, TurnTypeOK, DriverHasPhase, AfterStep, Throw, CaughtEnding
<1>21. CASE ErrorReported
  BY <1>21 DEF TypeOK, PhaseTypeOK, TurnTypeOK, DriverHasPhase, ErrorReported
<1>22. CASE CloseTurn
  BY <1>22 DEF TypeOK, PhaseTypeOK, TurnTypeOK, DriverHasPhase, CloseTurn, LogWithTurnEnd
<1>23. CASE AfterTurn
  BY <1>23 DEF TypeOK, PhaseTypeOK, TurnTypeOK, DriverHasPhase, AfterTurn
<1>24. CASE Retire
  BY <1>24 DEF TypeOK, PhaseTypeOK, TurnTypeOK, DriverHasPhase, Retire, RetiredPhase,
     ReplayFrames
<1>25. ASSUME NEW m \in Messages, ToolContext(m) PROVE (DriverHasPhase)'
  BY <1>25 DEF TypeOK, PhaseTypeOK, TurnTypeOK, DriverHasPhase, ToolContext, Insert
<1>26. CASE MaintenanceSettles
  BY <1>26 DEF TypeOK, PhaseTypeOK, TurnTypeOK, DriverHasPhase, MaintenanceSettles,
     StartDriver
<1>27. CASE Drained
  BY <1>27 DEF TypeOK, PhaseTypeOK, TurnTypeOK, DriverHasPhase, Drained
<1>28. CASE UNCHANGED vars
  BY <1>28 DEF TypeOK, PhaseTypeOK, TurnTypeOK, DriverHasPhase
<1> QED
  BY <1>1, <1>2, <1>3, <1>4, <1>5, <1>6, <1>7, <1>8, <1>9, <1>10, <1>11, <1>12, <1>13, <1>14,
     <1>15, <1>16, <1>17, <1>18, <1>19, <1>20, <1>21, <1>22, <1>23, <1>24, <1>25, <1>26, <1>27,
     <1>28
     DEF Next, Callers, Driver

\* turn/end is the last event of a turn however it is left, and nothing is appended between turns.
LEMMA ClosedStep == TypeOK /\ DriverHasPhase /\ ClosedBetweenTurns /\ [Next]_vars => (ClosedBetweenTurns)'
<1> SUFFICES ASSUME TypeOK /\ DriverHasPhase /\ ClosedBetweenTurns, [Next]_vars PROVE (ClosedBetweenTurns)'
  OBVIOUS
<1> USE DEF Targets, Causes, NoCause, Endings, StepEnds, Awaiting, Notifying, Publishing, Resumes
<1>1. CASE CloseTurn
  <2>1. turnLog' = Append(turnLog, TurnEnd(turn, turnEnds)) /\ turnLog \in Seq(Events)
    BY <1>1 DEF CloseTurn, LogWithTurnEnd, TypeOK
  <2>2. Last(turnLog') = TurnEnd(turn, turnEnds)
    BY <2>1 DEF Last
  <2> QED
    BY <2>2 DEF ClosedBetweenTurns, LogClosed, TurnEnd
<1>2. ASSUME NEW m \in Messages, NEW tgt \in Targets, NEW wakeup \in BOOLEAN, Send(m, tgt, wakeup)
     PROVE (ClosedBetweenTurns)'
  BY <1>2 DEF TypeOK, PhaseTypeOK, TurnTypeOK, DriverHasPhase, ClosedBetweenTurns, LogClosed,
     Send, Insert
<1>3. ASSUME NEW keepInbox \in BOOLEAN, UserCancel(keepInbox) PROVE (ClosedBetweenTurns)'
  BY <1>3 DEF TypeOK, PhaseTypeOK, TurnTypeOK, DriverHasPhase, ClosedBetweenTurns, LogClosed,
     UserCancel, Cancel
<1>4. ASSUME NEW tgt \in Targets, NEW i \in 1..Len(inbox[tgt]), RemovePending(tgt, i) PROVE (ClosedBetweenTurns)'
  BY <1>4 DEF TypeOK, PhaseTypeOK, TurnTypeOK, DriverHasPhase, ClosedBetweenTurns, LogClosed,
     RemovePending, RemoveAt
<1>5. CASE RunMaintenance
  BY <1>5 DEF TypeOK, PhaseTypeOK, TurnTypeOK, DriverHasPhase, ClosedBetweenTurns, LogClosed,
     RunMaintenance
<1>6. CASE Dispose
  BY <1>6 DEF TypeOK, PhaseTypeOK, TurnTypeOK, DriverHasPhase, ClosedBetweenTurns, LogClosed,
     Dispose, Cancel
<1>7. CASE ReturnToWake
  BY <1>7 DEF TypeOK, PhaseTypeOK, TurnTypeOK, DriverHasPhase, ClosedBetweenTurns, LogClosed,
     ReturnToWake, WakeDriver, StartDriver, StartsDriver, Latches, Front, Last
<1>8. CASE OpenTurn
  BY <1>8 DEF TypeOK, PhaseTypeOK, TurnTypeOK, DriverHasPhase, ClosedBetweenTurns, LogClosed,
     OpenTurn
<1>9. CASE ProposeStep
  BY <1>9 DEF TypeOK, PhaseTypeOK, TurnTypeOK, DriverHasPhase, ClosedBetweenTurns, LogClosed,
     ProposeStep, Throw, CaughtEnding, ClaimBatch, TurnsToClaim, TurnsLeft
<1>10. ASSUME NEW ok \in BOOLEAN, Assembled(ok) PROVE (ClosedBetweenTurns)'
  BY <1>10 DEF TypeOK, PhaseTypeOK, TurnTypeOK, DriverHasPhase, ClosedBetweenTurns, LogClosed,
     Assembled, Throw, CaughtEnding
<1>11. ASSUME NEW ok \in BOOLEAN, RequestBuilt(ok) PROVE (ClosedBetweenTurns)'
  BY <1>11 DEF TypeOK, PhaseTypeOK, TurnTypeOK, DriverHasPhase, ClosedBetweenTurns, LogClosed,
     RequestBuilt, StepThrows
<1>12. ASSUME NEW ok \in BOOLEAN, StoppingSettles(ok) PROVE (ClosedBetweenTurns)'
  BY <1>12 DEF TypeOK, PhaseTypeOK, TurnTypeOK, DriverHasPhase, ClosedBetweenTurns, LogClosed,
     StoppingSettles, Throw, CaughtEnding
<1>13. CASE PreStepSettles
  BY <1>13 DEF TypeOK, PhaseTypeOK, TurnTypeOK, DriverHasPhase, ClosedBetweenTurns, LogClosed,
     PreStepSettles, PreStep, Throw, CaughtEnding
<1>14. CASE Decide
  BY <1>14 DEF TypeOK, PhaseTypeOK, TurnTypeOK, DriverHasPhase, ClosedBetweenTurns, LogClosed,
     Decide, OpenStep, StepMayOpen, Throw, CaughtEnding
<1>15. CASE EnterMessage
  BY <1>15 DEF TypeOK, PhaseTypeOK, TurnTypeOK, DriverHasPhase, ClosedBetweenTurns, LogClosed,
     EnterMessage
<1>16. CASE BeginStep
  BY <1>16 DEF TypeOK, PhaseTypeOK, TurnTypeOK, DriverHasPhase, ClosedBetweenTurns, LogClosed,
     BeginStep, StepThrows
<1>17. CASE StreamEnds
  BY <1>17 DEF TypeOK, PhaseTypeOK, TurnTypeOK, DriverHasPhase, ClosedBetweenTurns, LogClosed,
     StreamEnds, StreamCut, StreamFails, StreamFinishes, StepThrows, StepReturns, EndAfterStep
<1>18. ASSUME NEW action \in {"retry", "none"}, RequestErrorSettles(action) PROVE (ClosedBetweenTurns)'
  BY <1>18 DEF TypeOK, PhaseTypeOK, TurnTypeOK, DriverHasPhase, ClosedBetweenTurns, LogClosed,
     RequestErrorSettles, StepThrows
<1>19. ASSUME NEW outcome \in {"concluded", "continue", "failure"}, ToolsSettle(outcome) PROVE (ClosedBetweenTurns)'
  BY <1>19 DEF TypeOK, PhaseTypeOK, TurnTypeOK, DriverHasPhase, ClosedBetweenTurns, LogClosed,
     ToolsSettle, StepThrows, StepReturns, EndAfterStep
<1>20. CASE CloseStep
  BY <1>20 DEF TypeOK, PhaseTypeOK, TurnTypeOK, DriverHasPhase, ClosedBetweenTurns, LogClosed,
     CloseStep, LogWithStepEnd
<1>21. CASE AfterStep
  BY <1>21 DEF TypeOK, PhaseTypeOK, TurnTypeOK, DriverHasPhase, ClosedBetweenTurns, LogClosed,
     AfterStep, Throw, CaughtEnding
<1>22. CASE ErrorReported
  BY <1>22 DEF TypeOK, PhaseTypeOK, TurnTypeOK, DriverHasPhase, ClosedBetweenTurns, LogClosed,
     ErrorReported
<1>23. CASE AfterTurn
  BY <1>23 DEF TypeOK, PhaseTypeOK, TurnTypeOK, DriverHasPhase, ClosedBetweenTurns, LogClosed,
     AfterTurn
<1>24. CASE Retire
  BY <1>24 DEF TypeOK, PhaseTypeOK, TurnTypeOK, DriverHasPhase, ClosedBetweenTurns, LogClosed,
     Retire, RetiredPhase, ReplayFrames
<1>25. ASSUME NEW m \in Messages, ToolContext(m) PROVE (ClosedBetweenTurns)'
  BY <1>25 DEF TypeOK, PhaseTypeOK, TurnTypeOK, DriverHasPhase, ClosedBetweenTurns, LogClosed,
     ToolContext, Insert
<1>26. CASE MaintenanceSettles
  BY <1>26 DEF TypeOK, PhaseTypeOK, TurnTypeOK, DriverHasPhase, ClosedBetweenTurns, LogClosed,
     MaintenanceSettles, StartDriver
<1>27. CASE Drained
  BY <1>27 DEF TypeOK, PhaseTypeOK, TurnTypeOK, DriverHasPhase, ClosedBetweenTurns, LogClosed,
     Drained
<1>28. CASE UNCHANGED vars
  BY <1>28 DEF TypeOK, PhaseTypeOK, TurnTypeOK, DriverHasPhase, ClosedBetweenTurns, LogClosed
<1> QED
  BY <1>1, <1>2, <1>3, <1>4, <1>5, <1>6, <1>7, <1>8, <1>9, <1>10, <1>11, <1>12, <1>13, <1>14,
     <1>15, <1>16, <1>17, <1>18, <1>19, <1>20, <1>21, <1>22, <1>23, <1>24, <1>25, <1>26, <1>27,
     <1>28
     DEF Next, Callers, Driver

-----------------------------------------------------------------------------
\* Cancellation.

\* The driver does not move while a wake that saw an abort is on the stack.
LEMMA AbortedSendStep == TypeOK /\ DriverHasPhase /\ AbortedSendMeetsAbort /\ [Next]_vars => (AbortedSendMeetsAbort)'
<1> SUFFICES ASSUME TypeOK /\ DriverHasPhase /\ AbortedSendMeetsAbort, [Next]_vars PROVE (AbortedSendMeetsAbort)'
  OBVIOUS
<1> USE DEF Targets, Causes, NoCause, Endings, StepEnds, Awaiting, Notifying, Publishing, Resumes
<1>1. ASSUME NEW m \in Messages, NEW tgt \in Targets, NEW wakeup \in BOOLEAN, Send(m, tgt, wakeup) PROVE (AbortedSendMeetsAbort)'
  <2> SUFFICES ASSUME NEW i \in DOMAIN frames', frames'[i] = "sendAfterAbort"
                PROVE  (abort # NoCause /\ phase # "idle" /\ pc \notin Publishing)'
    BY DEF AbortedSendMeetsAbort
  <2>1. UNCHANGED <<phase, abort, pc>> /\ pc \notin Publishing
    BY <1>1 DEF Send, CallersRun
  <2>2. CASE i \in DOMAIN frames /\ frames'[i] = frames[i]
    BY <2>1, <2>2 DEF AbortedSendMeetsAbort
  <2>3. CASE frames' = Append(frames, "sendAfterAbort") /\ phase # "idle" /\ abort # NoCause
    BY <2>1, <2>3
  <2>4. CASE frames' = Append(frames, "send")
    <3>1. i # Len(frames) + 1
      BY <2>4 DEF TypeOK, QueueTypeOK
    <3> QED
      BY <2>2, <2>4, <3>1 DEF TypeOK, QueueTypeOK
  <2> QED
    BY <1>1, <2>2, <2>3, <2>4 DEF Send
<1>2. CASE ReturnToWake
  <2> SUFFICES ASSUME NEW i \in DOMAIN frames', frames'[i] = "sendAfterAbort"
                PROVE  (abort # NoCause /\ phase # "idle" /\ pc \notin Publishing)'
    BY DEF AbortedSendMeetsAbort
  <2>1. i \in DOMAIN frames /\ frames[i] = "sendAfterAbort"
    BY <1>2 DEF ReturnToWake, Front, TypeOK, QueueTypeOK
  <2>2. abort # NoCause /\ phase # "idle" /\ pc \notin Publishing
    BY <2>1 DEF AbortedSendMeetsAbort
  <2>3. WakeDriver(TRUE) \/ WakeDriver(FALSE) \/ UNCHANGED <<phaseVars, pc>>
    BY <1>2 DEF ReturnToWake
  <2>4. UNCHANGED <<phase, abort, pc>>
    BY <2>2, <2>3, Zenon DEF WakeDriver, StartsDriver
  <2> QED
    BY <2>2, <2>4
<1>3. ASSUME NEW keepInbox \in BOOLEAN, UserCancel(keepInbox) PROVE (AbortedSendMeetsAbort)'
  BY <1>3 DEF TypeOK, PhaseTypeOK, TurnTypeOK, QueueTypeOK, DriverHasPhase,
     AbortedSendMeetsAbort, UserCancel, Cancel
<1>4. ASSUME NEW tgt \in Targets, NEW i \in 1..Len(inbox[tgt]), RemovePending(tgt, i) PROVE (AbortedSendMeetsAbort)'
  BY <1>4 DEF TypeOK, PhaseTypeOK, TurnTypeOK, QueueTypeOK, DriverHasPhase,
     AbortedSendMeetsAbort, RemovePending, RemoveAt
<1>5. CASE RunMaintenance
  BY <1>5 DEF TypeOK, PhaseTypeOK, TurnTypeOK, QueueTypeOK, DriverHasPhase,
     AbortedSendMeetsAbort, RunMaintenance
<1>6. CASE Dispose
  BY <1>6 DEF TypeOK, PhaseTypeOK, TurnTypeOK, QueueTypeOK, DriverHasPhase,
     AbortedSendMeetsAbort, Dispose, Cancel
<1>7. CASE OpenTurn
  BY <1>7 DEF TypeOK, PhaseTypeOK, TurnTypeOK, QueueTypeOK, DriverHasPhase,
     AbortedSendMeetsAbort, OpenTurn
<1>8. CASE ProposeStep
  BY <1>8 DEF TypeOK, PhaseTypeOK, TurnTypeOK, QueueTypeOK, DriverHasPhase,
     AbortedSendMeetsAbort, ProposeStep, Throw, CaughtEnding, ClaimBatch, TurnsToClaim,
     TurnsLeft
<1>9. ASSUME NEW ok \in BOOLEAN, Assembled(ok) PROVE (AbortedSendMeetsAbort)'
  BY <1>9 DEF TypeOK, PhaseTypeOK, TurnTypeOK, QueueTypeOK, DriverHasPhase,
     AbortedSendMeetsAbort, Assembled, Throw, CaughtEnding
<1>10. ASSUME NEW ok \in BOOLEAN, RequestBuilt(ok) PROVE (AbortedSendMeetsAbort)'
  BY <1>10 DEF TypeOK, PhaseTypeOK, TurnTypeOK, QueueTypeOK, DriverHasPhase,
     AbortedSendMeetsAbort, RequestBuilt, StepThrows
<1>11. ASSUME NEW ok \in BOOLEAN, StoppingSettles(ok) PROVE (AbortedSendMeetsAbort)'
  BY <1>11 DEF TypeOK, PhaseTypeOK, TurnTypeOK, QueueTypeOK, DriverHasPhase,
     AbortedSendMeetsAbort, StoppingSettles, Throw, CaughtEnding
<1>12. CASE PreStepSettles
  BY <1>12 DEF TypeOK, PhaseTypeOK, TurnTypeOK, QueueTypeOK, DriverHasPhase,
     AbortedSendMeetsAbort, PreStepSettles, PreStep, Throw, CaughtEnding
<1>13. CASE Decide
  BY <1>13 DEF TypeOK, PhaseTypeOK, TurnTypeOK, QueueTypeOK, DriverHasPhase,
     AbortedSendMeetsAbort, Decide, OpenStep, StepMayOpen, Throw, CaughtEnding
<1>14. CASE EnterMessage
  BY <1>14 DEF TypeOK, PhaseTypeOK, TurnTypeOK, QueueTypeOK, DriverHasPhase,
     AbortedSendMeetsAbort, EnterMessage
<1>15. CASE BeginStep
  BY <1>15 DEF TypeOK, PhaseTypeOK, TurnTypeOK, QueueTypeOK, DriverHasPhase,
     AbortedSendMeetsAbort, BeginStep, StepThrows
<1>16. CASE StreamEnds
  BY <1>16 DEF TypeOK, PhaseTypeOK, TurnTypeOK, QueueTypeOK, DriverHasPhase,
     AbortedSendMeetsAbort, StreamEnds, StreamCut, StreamFails, StreamFinishes, StepThrows,
     StepReturns, EndAfterStep
<1>17. ASSUME NEW action \in {"retry", "none"}, RequestErrorSettles(action) PROVE (AbortedSendMeetsAbort)'
  BY <1>17 DEF TypeOK, PhaseTypeOK, TurnTypeOK, QueueTypeOK, DriverHasPhase,
     AbortedSendMeetsAbort, RequestErrorSettles, StepThrows
<1>18. ASSUME NEW outcome \in {"concluded", "continue", "failure"}, ToolsSettle(outcome) PROVE (AbortedSendMeetsAbort)'
  BY <1>18 DEF TypeOK, PhaseTypeOK, TurnTypeOK, QueueTypeOK, DriverHasPhase,
     AbortedSendMeetsAbort, ToolsSettle, StepThrows, StepReturns, EndAfterStep
<1>19. CASE CloseStep
  BY <1>19 DEF TypeOK, PhaseTypeOK, TurnTypeOK, QueueTypeOK, DriverHasPhase,
     AbortedSendMeetsAbort, CloseStep, LogWithStepEnd
<1>20. CASE AfterStep
  BY <1>20 DEF TypeOK, PhaseTypeOK, TurnTypeOK, QueueTypeOK, DriverHasPhase,
     AbortedSendMeetsAbort, AfterStep, Throw, CaughtEnding
<1>21. CASE ErrorReported
  BY <1>21 DEF TypeOK, PhaseTypeOK, TurnTypeOK, QueueTypeOK, DriverHasPhase,
     AbortedSendMeetsAbort, ErrorReported
<1>22. CASE CloseTurn
  BY <1>22 DEF TypeOK, PhaseTypeOK, TurnTypeOK, QueueTypeOK, DriverHasPhase,
     AbortedSendMeetsAbort, CloseTurn, LogWithTurnEnd
<1>23. CASE AfterTurn
  BY <1>23 DEF TypeOK, PhaseTypeOK, TurnTypeOK, QueueTypeOK, DriverHasPhase,
     AbortedSendMeetsAbort, AfterTurn
<1>24. CASE Retire
  BY <1>24 DEF TypeOK, PhaseTypeOK, TurnTypeOK, QueueTypeOK, DriverHasPhase,
     AbortedSendMeetsAbort, Retire, RetiredPhase, ReplayFrames
<1>25. ASSUME NEW m \in Messages, ToolContext(m) PROVE (AbortedSendMeetsAbort)'
  BY <1>25 DEF TypeOK, PhaseTypeOK, TurnTypeOK, QueueTypeOK, DriverHasPhase,
     AbortedSendMeetsAbort, ToolContext, Insert
<1>26. CASE MaintenanceSettles
  BY <1>26 DEF TypeOK, PhaseTypeOK, TurnTypeOK, QueueTypeOK, DriverHasPhase,
     AbortedSendMeetsAbort, MaintenanceSettles, StartDriver
<1>27. CASE Drained
  BY <1>27 DEF TypeOK, PhaseTypeOK, TurnTypeOK, QueueTypeOK, DriverHasPhase,
     AbortedSendMeetsAbort, Drained
<1>28. CASE UNCHANGED vars
  BY <1>28 DEF TypeOK, PhaseTypeOK, TurnTypeOK, QueueTypeOK, DriverHasPhase, AbortedSendMeetsAbort
<1> QED
  BY <1>1, <1>2, <1>3, <1>4, <1>5, <1>6, <1>7, <1>8, <1>9, <1>10, <1>11, <1>12, <1>13, <1>14,
     <1>15, <1>16, <1>17, <1>18, <1>19, <1>20, <1>21, <1>22, <1>23, <1>24, <1>25, <1>26, <1>27,
     <1>28
     DEF Next, Callers, Driver

\* A latch is set under a user's cancellation and reset with its controller.
LEMMA LatchStep == TypeOK /\ DriverHasPhase /\ AbortedSendMeetsAbort /\ LatchOnlyAfterCancel /\ [Next]_vars => (LatchOnlyAfterCancel)'
<1> SUFFICES ASSUME TypeOK /\ DriverHasPhase /\ AbortedSendMeetsAbort /\ LatchOnlyAfterCancel, [Next]_vars PROVE (LatchOnlyAfterCancel)'
  OBVIOUS
<1> USE DEF Targets, Causes, NoCause, Endings, StepEnds, Awaiting, Notifying, Publishing, Resumes
<1>1. CASE ReturnToWake
  <2>1. CASE Last(frames) = "sendAfterAbort" /\ WakeDriver(TRUE)
    <3>1. abort # NoCause /\ phase # "idle"
      BY <1>1, <2>1 DEF ReturnToWake, AbortedSendMeetsAbort, Last, TypeOK, QueueTypeOK
    <3> QED
      BY <2>1, <3>1 DEF LatchOnlyAfterCancel, WakeDriver, StartsDriver, Latches, TypeOK, PhaseTypeOK
  <2>2. CASE WakeDriver(FALSE)
    BY <2>2 DEF LatchOnlyAfterCancel, WakeDriver, StartDriver, StartsDriver, Latches
  <2>3. CASE UNCHANGED <<phaseVars, pc>>
    BY <2>3 DEF LatchOnlyAfterCancel
  <2> QED
    BY <1>1, <2>1, <2>2, <2>3 DEF ReturnToWake
<1>2. ASSUME NEW m \in Messages, NEW tgt \in Targets, NEW wakeup \in BOOLEAN, Send(m, tgt, wakeup)
     PROVE (LatchOnlyAfterCancel)'
  BY <1>2 DEF TypeOK, PhaseTypeOK, TurnTypeOK, DriverHasPhase, AbortedSendMeetsAbort,
     LatchOnlyAfterCancel, Send, Insert
<1>3. ASSUME NEW keepInbox \in BOOLEAN, UserCancel(keepInbox) PROVE (LatchOnlyAfterCancel)'
  BY <1>3 DEF TypeOK, PhaseTypeOK, TurnTypeOK, DriverHasPhase, AbortedSendMeetsAbort,
     LatchOnlyAfterCancel, UserCancel, Cancel
<1>4. ASSUME NEW tgt \in Targets, NEW i \in 1..Len(inbox[tgt]), RemovePending(tgt, i) PROVE (LatchOnlyAfterCancel)'
  BY <1>4 DEF TypeOK, PhaseTypeOK, TurnTypeOK, DriverHasPhase, AbortedSendMeetsAbort,
     LatchOnlyAfterCancel, RemovePending, RemoveAt
<1>5. CASE RunMaintenance
  BY <1>5 DEF TypeOK, PhaseTypeOK, TurnTypeOK, DriverHasPhase, AbortedSendMeetsAbort,
     LatchOnlyAfterCancel, RunMaintenance
<1>6. CASE Dispose
  BY <1>6 DEF TypeOK, PhaseTypeOK, TurnTypeOK, DriverHasPhase, AbortedSendMeetsAbort,
     LatchOnlyAfterCancel, Dispose, Cancel
<1>7. CASE OpenTurn
  BY <1>7 DEF TypeOK, PhaseTypeOK, TurnTypeOK, DriverHasPhase, AbortedSendMeetsAbort,
     LatchOnlyAfterCancel, OpenTurn
<1>8. CASE ProposeStep
  BY <1>8 DEF TypeOK, PhaseTypeOK, TurnTypeOK, DriverHasPhase, AbortedSendMeetsAbort,
     LatchOnlyAfterCancel, ProposeStep, Throw, CaughtEnding, ClaimBatch, TurnsToClaim,
     TurnsLeft
<1>9. ASSUME NEW ok \in BOOLEAN, Assembled(ok) PROVE (LatchOnlyAfterCancel)'
  BY <1>9 DEF TypeOK, PhaseTypeOK, TurnTypeOK, DriverHasPhase, AbortedSendMeetsAbort,
     LatchOnlyAfterCancel, Assembled, Throw, CaughtEnding
<1>10. ASSUME NEW ok \in BOOLEAN, RequestBuilt(ok) PROVE (LatchOnlyAfterCancel)'
  BY <1>10 DEF TypeOK, PhaseTypeOK, TurnTypeOK, DriverHasPhase, AbortedSendMeetsAbort,
     LatchOnlyAfterCancel, RequestBuilt, StepThrows
<1>11. ASSUME NEW ok \in BOOLEAN, StoppingSettles(ok) PROVE (LatchOnlyAfterCancel)'
  BY <1>11 DEF TypeOK, PhaseTypeOK, TurnTypeOK, DriverHasPhase, AbortedSendMeetsAbort,
     LatchOnlyAfterCancel, StoppingSettles, Throw, CaughtEnding
<1>12. CASE PreStepSettles
  BY <1>12 DEF TypeOK, PhaseTypeOK, TurnTypeOK, DriverHasPhase, AbortedSendMeetsAbort,
     LatchOnlyAfterCancel, PreStepSettles, PreStep, Throw, CaughtEnding
<1>13. CASE Decide
  BY <1>13 DEF TypeOK, PhaseTypeOK, TurnTypeOK, DriverHasPhase, AbortedSendMeetsAbort,
     LatchOnlyAfterCancel, Decide, OpenStep, StepMayOpen, Throw, CaughtEnding
<1>14. CASE EnterMessage
  BY <1>14 DEF TypeOK, PhaseTypeOK, TurnTypeOK, DriverHasPhase, AbortedSendMeetsAbort,
     LatchOnlyAfterCancel, EnterMessage
<1>15. CASE BeginStep
  BY <1>15 DEF TypeOK, PhaseTypeOK, TurnTypeOK, DriverHasPhase, AbortedSendMeetsAbort,
     LatchOnlyAfterCancel, BeginStep, StepThrows
<1>16. CASE StreamEnds
  BY <1>16 DEF TypeOK, PhaseTypeOK, TurnTypeOK, DriverHasPhase, AbortedSendMeetsAbort,
     LatchOnlyAfterCancel, StreamEnds, StreamCut, StreamFails, StreamFinishes, StepThrows,
     StepReturns, EndAfterStep
<1>17. ASSUME NEW action \in {"retry", "none"}, RequestErrorSettles(action) PROVE (LatchOnlyAfterCancel)'
  BY <1>17 DEF TypeOK, PhaseTypeOK, TurnTypeOK, DriverHasPhase, AbortedSendMeetsAbort,
     LatchOnlyAfterCancel, RequestErrorSettles, StepThrows
<1>18. ASSUME NEW outcome \in {"concluded", "continue", "failure"}, ToolsSettle(outcome) PROVE (LatchOnlyAfterCancel)'
  BY <1>18 DEF TypeOK, PhaseTypeOK, TurnTypeOK, DriverHasPhase, AbortedSendMeetsAbort,
     LatchOnlyAfterCancel, ToolsSettle, StepThrows, StepReturns, EndAfterStep
<1>19. CASE CloseStep
  BY <1>19 DEF TypeOK, PhaseTypeOK, TurnTypeOK, DriverHasPhase, AbortedSendMeetsAbort,
     LatchOnlyAfterCancel, CloseStep, LogWithStepEnd
<1>20. CASE AfterStep
  BY <1>20 DEF TypeOK, PhaseTypeOK, TurnTypeOK, DriverHasPhase, AbortedSendMeetsAbort,
     LatchOnlyAfterCancel, AfterStep, Throw, CaughtEnding
<1>21. CASE ErrorReported
  BY <1>21 DEF TypeOK, PhaseTypeOK, TurnTypeOK, DriverHasPhase, AbortedSendMeetsAbort,
     LatchOnlyAfterCancel, ErrorReported
<1>22. CASE CloseTurn
  BY <1>22 DEF TypeOK, PhaseTypeOK, TurnTypeOK, DriverHasPhase, AbortedSendMeetsAbort,
     LatchOnlyAfterCancel, CloseTurn, LogWithTurnEnd
<1>23. CASE AfterTurn
  BY <1>23 DEF TypeOK, PhaseTypeOK, TurnTypeOK, DriverHasPhase, AbortedSendMeetsAbort,
     LatchOnlyAfterCancel, AfterTurn
<1>24. CASE Retire
  BY <1>24 DEF TypeOK, PhaseTypeOK, TurnTypeOK, DriverHasPhase, AbortedSendMeetsAbort,
     LatchOnlyAfterCancel, Retire, RetiredPhase, ReplayFrames
<1>25. ASSUME NEW m \in Messages, ToolContext(m) PROVE (LatchOnlyAfterCancel)'
  BY <1>25 DEF TypeOK, PhaseTypeOK, TurnTypeOK, DriverHasPhase, AbortedSendMeetsAbort,
     LatchOnlyAfterCancel, ToolContext, Insert
<1>26. CASE MaintenanceSettles
  BY <1>26 DEF TypeOK, PhaseTypeOK, TurnTypeOK, DriverHasPhase, AbortedSendMeetsAbort,
     LatchOnlyAfterCancel, MaintenanceSettles, StartDriver
<1>27. CASE Drained
  BY <1>27 DEF TypeOK, PhaseTypeOK, TurnTypeOK, DriverHasPhase, AbortedSendMeetsAbort,
     LatchOnlyAfterCancel, Drained
<1>28. CASE UNCHANGED vars
  BY <1>28
     DEF TypeOK, PhaseTypeOK, TurnTypeOK, DriverHasPhase, AbortedSendMeetsAbort, LatchOnlyAfterCancel
<1> QED
  BY <1>1, <1>2, <1>3, <1>4, <1>5, <1>6, <1>7, <1>8, <1>9, <1>10, <1>11, <1>12, <1>13, <1>14,
     <1>15, <1>16, <1>17, <1>18, <1>19, <1>20, <1>21, <1>22, <1>23, <1>24, <1>25, <1>26, <1>27,
     <1>28
     DEF Next, Callers, Driver

\* After an abort an append is an interrupted message, a step/end or a turn/end.
LEMMA AbortStep ==
  ASSUME TypeOK, abort # NoCause, [Next]_vars
  PROVE  turnLog' # turnLog => Last(turnLog').type \notin {"turn/start", "step/start"}
<1>1. CASE StreamEnds
  <2>1. turnLog' = turnLog \/ turnLog' = Append(turnLog, AssistantMessage("interrupted"))
    BY <1>1 DEF StreamEnds, StreamCut, StreamFails, StreamFinishes
  <2>2. turnLog' # turnLog => Last(turnLog') = AssistantMessage("interrupted")
    BY <2>1 DEF Last, TypeOK
  <2> QED
    BY <2>2 DEF AssistantMessage
<1>2. CASE CloseStep
  <2>1. turnLog' = Append(turnLog, StepEnd(turn, step)) /\ turnLog \in Seq(Events)
    BY <1>2 DEF CloseStep, LogWithStepEnd, TypeOK
  <2>2. Last(turnLog') = StepEnd(turn, step)
    BY <2>1 DEF Last
  <2> QED
    BY <2>2 DEF StepEnd
<1>3. CASE CloseTurn
  <2>1. turnLog' = Append(turnLog, TurnEnd(turn, turnEnds)) /\ turnLog \in Seq(Events)
    BY <1>3 DEF CloseTurn, LogWithTurnEnd, TypeOK
  <2>2. Last(turnLog') = TurnEnd(turn, turnEnds)
    BY <2>1 DEF Last
  <2> QED
    BY <2>2 DEF TurnEnd
<1>4. ASSUME NEW m \in Messages, NEW tgt \in Targets, NEW wakeup \in BOOLEAN, Send(m, tgt, wakeup)
     PROVE turnLog' # turnLog => Last(turnLog').type \notin {"turn/start", "step/start"}
  BY <1>4 DEF NoCause, Send, Insert
<1>5. ASSUME NEW keepInbox \in BOOLEAN, UserCancel(keepInbox)
     PROVE turnLog' # turnLog => Last(turnLog').type \notin {"turn/start", "step/start"}
  BY <1>5 DEF NoCause, UserCancel, Cancel
<1>6. ASSUME NEW tgt \in Targets, NEW i \in 1..Len(inbox[tgt]), RemovePending(tgt, i)
     PROVE turnLog' # turnLog => Last(turnLog').type \notin {"turn/start", "step/start"}
  BY <1>6 DEF NoCause, RemovePending, RemoveAt
<1>7. CASE RunMaintenance
  BY <1>7 DEF NoCause, RunMaintenance
<1>8. CASE Dispose
  BY <1>8 DEF NoCause, Dispose, Cancel
<1>9. CASE ReturnToWake
  BY <1>9 DEF NoCause, ReturnToWake, WakeDriver, StartDriver, StartsDriver, Latches, Front,
     Last
<1>10. CASE OpenTurn
  BY <1>10 DEF NoCause, OpenTurn
<1>11. CASE ProposeStep
  BY <1>11 DEF NoCause, ProposeStep, Throw, CaughtEnding, ClaimBatch, TurnsToClaim, TurnsLeft
<1>12. ASSUME NEW ok \in BOOLEAN, Assembled(ok)
     PROVE turnLog' # turnLog => Last(turnLog').type \notin {"turn/start", "step/start"}
  BY <1>12 DEF NoCause, Assembled, Throw, CaughtEnding
<1>13. ASSUME NEW ok \in BOOLEAN, RequestBuilt(ok)
     PROVE turnLog' # turnLog => Last(turnLog').type \notin {"turn/start", "step/start"}
  BY <1>13 DEF NoCause, RequestBuilt, StepThrows
<1>14. ASSUME NEW ok \in BOOLEAN, StoppingSettles(ok)
     PROVE turnLog' # turnLog => Last(turnLog').type \notin {"turn/start", "step/start"}
  BY <1>14 DEF NoCause, StoppingSettles, Throw, CaughtEnding
<1>15. CASE PreStepSettles
  BY <1>15 DEF NoCause, PreStepSettles, PreStep, Throw, CaughtEnding
<1>16. CASE Decide
  BY <1>16 DEF NoCause, Decide, OpenStep, StepMayOpen, Throw, CaughtEnding
<1>17. CASE EnterMessage
  BY <1>17 DEF NoCause, EnterMessage
<1>18. CASE BeginStep
  BY <1>18 DEF NoCause, BeginStep, StepThrows
<1>19. ASSUME NEW action \in {"retry", "none"}, RequestErrorSettles(action)
     PROVE turnLog' # turnLog => Last(turnLog').type \notin {"turn/start", "step/start"}
  BY <1>19 DEF NoCause, RequestErrorSettles, StepThrows
<1>20. ASSUME NEW outcome \in {"concluded", "continue", "failure"}, ToolsSettle(outcome)
     PROVE turnLog' # turnLog => Last(turnLog').type \notin {"turn/start", "step/start"}
  BY <1>20 DEF NoCause, ToolsSettle, StepThrows, StepReturns, EndAfterStep
<1>21. CASE AfterStep
  BY <1>21 DEF NoCause, AfterStep, Throw, CaughtEnding
<1>22. CASE ErrorReported
  BY <1>22 DEF NoCause, ErrorReported
<1>23. CASE AfterTurn
  BY <1>23 DEF NoCause, AfterTurn
<1>24. CASE Retire
  BY <1>24 DEF NoCause, Retire, RetiredPhase, ReplayFrames
<1>25. ASSUME NEW m \in Messages, ToolContext(m)
     PROVE turnLog' # turnLog => Last(turnLog').type \notin {"turn/start", "step/start"}
  BY <1>25 DEF NoCause, ToolContext, Insert
<1>26. CASE MaintenanceSettles
  BY <1>26 DEF NoCause, MaintenanceSettles, StartDriver
<1>27. CASE Drained
  BY <1>27 DEF NoCause, Drained
<1>28. CASE UNCHANGED vars
  BY <1>28 DEF NoCause
<1> QED
  BY <1>1, <1>2, <1>3, <1>4, <1>5, <1>6, <1>7, <1>8, <1>9, <1>10, <1>11, <1>12, <1>13, <1>14,
     <1>15, <1>16, <1>17, <1>18, <1>19, <1>20, <1>21, <1>22, <1>23, <1>24, <1>25, <1>26, <1>27,
     <1>28
     DEF Next, Callers, Driver

\* Only turn() numbers turns.
LEMMA TurnMoves ==
  ASSUME TypeOK, [Next]_vars, turn' # turn
  PROVE  OpenTurn
<1>1. CASE ReturnToWake
  <2>1. WakeDriver(TRUE) \/ WakeDriver(FALSE) \/ UNCHANGED <<phaseVars, pc>>
    BY <1>1 DEF ReturnToWake
  <2> QED
    BY <2>1, Zenon DEF WakeDriver, StartDriver
<1>2. CASE OpenTurn
  BY <1>2
<1>3. ASSUME NEW m \in Messages, NEW tgt \in Targets, NEW wakeup \in BOOLEAN, Send(m, tgt, wakeup) PROVE OpenTurn
  BY <1>3 DEF Send, Insert
<1>4. ASSUME NEW keepInbox \in BOOLEAN, UserCancel(keepInbox) PROVE OpenTurn
  BY <1>4 DEF UserCancel, Cancel
<1>5. ASSUME NEW tgt \in Targets, NEW i \in 1..Len(inbox[tgt]), RemovePending(tgt, i) PROVE OpenTurn
  BY <1>5 DEF RemovePending, RemoveAt
<1>6. CASE RunMaintenance
  BY <1>6 DEF RunMaintenance
<1>7. CASE Dispose
  BY <1>7 DEF Dispose, Cancel
<1>8. CASE ProposeStep
  BY <1>8 DEF ProposeStep, Throw, CaughtEnding, ClaimBatch, TurnsToClaim, TurnsLeft
<1>9. ASSUME NEW ok \in BOOLEAN, Assembled(ok) PROVE OpenTurn
  BY <1>9 DEF Assembled, Throw, CaughtEnding
<1>10. ASSUME NEW ok \in BOOLEAN, RequestBuilt(ok) PROVE OpenTurn
  BY <1>10 DEF RequestBuilt, StepThrows
<1>11. ASSUME NEW ok \in BOOLEAN, StoppingSettles(ok) PROVE OpenTurn
  BY <1>11 DEF StoppingSettles, Throw, CaughtEnding
<1>12. CASE PreStepSettles
  BY <1>12 DEF PreStepSettles, PreStep, Throw, CaughtEnding
<1>13. CASE Decide
  BY <1>13 DEF Decide, OpenStep, StepMayOpen, Throw, CaughtEnding
<1>14. CASE EnterMessage
  BY <1>14 DEF EnterMessage
<1>15. CASE BeginStep
  BY <1>15 DEF BeginStep, StepThrows
<1>16. CASE StreamEnds
  BY <1>16 DEF StreamEnds, StreamCut, StreamFails, StreamFinishes, StepThrows, StepReturns,
     EndAfterStep
<1>17. ASSUME NEW action \in {"retry", "none"}, RequestErrorSettles(action) PROVE OpenTurn
  BY <1>17 DEF RequestErrorSettles, StepThrows
<1>18. ASSUME NEW outcome \in {"concluded", "continue", "failure"}, ToolsSettle(outcome) PROVE OpenTurn
  BY <1>18 DEF ToolsSettle, StepThrows, StepReturns, EndAfterStep
<1>19. CASE CloseStep
  BY <1>19 DEF CloseStep, LogWithStepEnd
<1>20. CASE AfterStep
  BY <1>20 DEF AfterStep, Throw, CaughtEnding
<1>21. CASE ErrorReported
  BY <1>21 DEF ErrorReported
<1>22. CASE CloseTurn
  BY <1>22 DEF CloseTurn, LogWithTurnEnd
<1>23. CASE AfterTurn
  BY <1>23 DEF AfterTurn
<1>24. CASE Retire
  BY <1>24 DEF Retire, RetiredPhase, ReplayFrames
<1>25. ASSUME NEW m \in Messages, ToolContext(m) PROVE OpenTurn
  BY <1>25 DEF ToolContext, Insert
<1>26. CASE MaintenanceSettles
  BY <1>26 DEF MaintenanceSettles, StartDriver
<1>27. CASE Drained
  BY <1>27 DEF Drained
<1>28. CASE UNCHANGED vars
  BY <1>28
<1> QED
  BY <1>1, <1>2, <1>3, <1>4, <1>5, <1>6, <1>7, <1>8, <1>9, <1>10, <1>11, <1>12, <1>13, <1>14,
     <1>15, <1>16, <1>17, <1>18, <1>19, <1>20, <1>21, <1>22, <1>23, <1>24, <1>25, <1>26, <1>27,
     <1>28
     DEF Next, Callers, Driver

-----------------------------------------------------------------------------
\* Theorems.

\* In every behaviour of the driver, for any messages and bounds, DriverInvariant
\* holds together with the types: the running phase and the driver come and go
\* together, a turn is left only with an ending and closed, a wake that saw an
\* abort meets it, and a latch stands only under a user's cancellation.
THEOREM DriverInvariantHolds == Spec => [](TypeOK /\ DriverInvariant)
<1>1. Init => TypeOK /\ DriverInvariant
  <2> SUFFICES ASSUME Init PROVE DriverInvariant
    BY TypeInit
  <2> QED
    BY DEF Init, DriverInvariant, DriverHasPhase, EndingKnown, ClosedBetweenTurns, LogClosed,
           AbortedSendMeetsAbort, LatchOnlyAfterCancel
<1>2. TypeOK /\ DriverInvariant /\ [Next]_vars => (TypeOK /\ DriverInvariant)'
  <2> SUFFICES ASSUME TypeOK, DriverInvariant, [Next]_vars PROVE (TypeOK /\ DriverInvariant)'
    OBVIOUS
  <2>0. DriverHasPhase /\ EndingKnown /\ ClosedBetweenTurns /\ AbortedSendMeetsAbort /\ LatchOnlyAfterCancel
    BY DEF DriverInvariant
  <2>1. TypeOK'
    BY <2>0, PhaseTypeStep, LatchTypeStep, TurnTypeStep, QueueTypeStep, LogTypeStep DEF TypeOK
  <2>2. (DriverHasPhase /\ EndingKnown /\ ClosedBetweenTurns)'
    BY <2>0, DriverHasPhaseStep, EndingStep, ClosedStep
  <2>3. (AbortedSendMeetsAbort /\ LatchOnlyAfterCancel)'
    BY <2>0, AbortedSendStep, LatchStep
  <2> QED
    BY <2>1, <2>2, <2>3 DEF DriverInvariant
<1> QED
  BY <1>1, <1>2, PTL DEF Spec

\* Every variable of the driver keeps its type.  A turn/end with the initial
\* ending of turn() would break it, so this rests on EndingKnown.
THEOREM TypeCorrect == Spec => []TypeOK
<1> QED
  BY DriverInvariantHolds, PTL

\* Whenever no driver runs, the last turn of the log is closed by its turn/end:
\* the finally clauses of turn() and kick() cover every exit.
THEOREM IdleLogIsClosed == Spec => []IdleLogClosed
<1>1. TypeOK /\ DriverInvariant => IdleLogClosed
  BY DEF DriverInvariant, DriverHasPhase, ClosedBetweenTurns, LogClosed, IdleLogClosed
<1> QED
  BY <1>1, DriverInvariantHolds, PTL

\* wakeDriver latches on a running driver only under a cancellation that is not
\* a disposal.
THEOREM LatchNeedsCancel == Spec => []LatchOnlyAfterCancel
<1>1. TypeOK /\ DriverInvariant => LatchOnlyAfterCancel
  BY DEF DriverInvariant
<1> QED
  BY <1>1, DriverInvariantHolds, PTL

\* A turn is opened only over a closed one and with the next number, whichever
\* of a send, a replay or the continuing driver opens it.
THEOREM TurnsNeverOverlap == Spec => TurnsDoNotOverlap
<1>1. TypeOK /\ DriverInvariant /\ [Next]_vars =>
        [turn' # turn => turn' = turn + 1 /\ (turnLog = <<>> \/ Last(turnLog).type = "turn/end")]_vars
  <2> SUFFICES ASSUME TypeOK, DriverInvariant, [Next]_vars, turn' # turn
               PROVE  turn' = turn + 1 /\ LogClosed
    BY DEF LogClosed
  <2>1. OpenTurn
    BY TurnMoves
  <2> QED
    BY <2>1 DEF OpenTurn, Resumes, DriverInvariant, ClosedBetweenTurns
<1> QED
  BY <1>1, DriverInvariantHolds, PTL DEF Spec, TurnsDoNotOverlap

\* After a cancellation no turn/start and no step/start is appended by the
\* cancelled activity, wherever the abort fell between two awaits.
THEOREM AbortedOpensNothing == Spec => AbortOpensNothing
<1>1. TypeOK /\ [Next]_vars =>
        [abort # NoCause /\ turnLog' # turnLog =>
           Last(turnLog').type \notin {"turn/start", "step/start"}]_vars
  BY AbortStep
<1> QED
  BY <1>1, TypeCorrect, PTL DEF Spec, AbortOpensNothing

-----------------------------------------------------------------------------
\* Messages: where each one is.

\* No message occurs twice in a sequence, none in both of two, and all that occur were
\* submitted.
Single(a) == \A i, j \in DOMAIN a : a[i] = a[j] /\ a[i] \in Messages => i = j
Apart(a, b) == \A i \in DOMAIN a, j \in DOMAIN b : a[i] = b[j] => a[i] \notin Messages
Submitted(a) == \A i \in DOMAIN a : a[i] \in Messages => sent[a[i]] # "unsent"

turns == inbox["next-turn"]
steps == inbox["next-step"]

\* Every list holds a submitted message at most once and no two lists share one.
HeldOnce ==
  /\ Single(turns) /\ Single(steps) /\ Single(batch) /\ Single(transcript)
  /\ Apart(turns, steps) /\ Apart(turns, batch) /\ Apart(turns, transcript)
  /\ Apart(steps, batch) /\ Apart(steps, transcript) /\ Apart(batch, transcript)

HeldIsSent == Submitted(turns) /\ Submitted(steps) /\ Submitted(batch) /\ Submitted(transcript)

\* The five ways a step changes where messages are.
Inserted(tgt, m) ==
  /\ sent[m] = "unsent" /\ sent' \in [Messages -> {"unsent", "quiet", "waking"}]
  /\ sent'[m] # "unsent" /\ \A n \in Messages : n # m => sent'[n] = sent[n]
  /\ inbox' = [inbox EXCEPT ![tgt] = Append(@, m)]
  /\ UNCHANGED <<batch, transcript>>

Discarded ==
  /\ inbox' = inbox \/ inbox' = [t \in Targets |-> <<>>]
  /\ batch' = batch \/ batch' = Append(batch, RuntimeContext) \/ batch' = <<>>
  /\ UNCHANGED <<transcript, sent>>

Removed(tgt, i) ==
  /\ inbox' = [inbox EXCEPT ![tgt] = RemoveAt(@, i)]
  /\ UNCHANGED <<batch, transcript, sent>>

Claimed ==
  /\ ClaimBatch(target)
  /\ UNCHANGED <<transcript, sent>>

Entered ==
  /\ batch # <<>>
  /\ transcript' = Append(transcript, Head(batch))
  /\ batch' = Tail(batch)
  /\ UNCHANGED <<inbox, sent>>

Moved ==
  \/ \E tgt \in Targets, m \in Messages : Inserted(tgt, m)
  \/ Discarded
  \/ \E tgt \in Targets : \E i \in 1..Len(inbox[tgt]) : Removed(tgt, i)
  \/ Claimed
  \/ Entered

\* Every step moves messages in one of these ways, or leaves them where they are.
LEMMA MovedStep ==
  ASSUME TypeOK, [Next]_vars
  PROVE  Moved
<1>1. ASSUME NEW m \in Messages, NEW tgt \in Targets, NEW wakeup \in BOOLEAN, Send(m, tgt, wakeup) PROVE Moved
  <2>1. PICK how \in {"quiet", "waking"}, tgt2 \in Targets :
         sent[m] = "unsent" /\ Insert(tgt2, m, how) /\ UNCHANGED <<batch, transcript>>
    BY <1>1 DEF Send, Targets
  <2>2. Inserted(tgt2, m)
    BY <2>1 DEF Insert, Inserted, TypeOK, QueueTypeOK
  <2> QED
    BY <2>2 DEF Moved
<1>2. ASSUME NEW keepInbox \in BOOLEAN, UserCancel(keepInbox) PROVE Moved
  BY <1>2 DEF UserCancel, Cancel, Moved, Discarded
<1>3. ASSUME NEW tgt \in Targets, NEW i \in 1..Len(inbox[tgt]), RemovePending(tgt, i) PROVE Moved
  <2>1. Removed(tgt, i)
    BY <1>3 DEF RemovePending, Removed
  <2> QED
    BY <2>1 DEF Moved
<1>4. CASE RunMaintenance
  BY <1>4 DEF RunMaintenance, Moved, Discarded
<1>5. CASE Dispose
  BY <1>5 DEF Dispose, Cancel, Moved, Discarded
<1>6. CASE ReturnToWake
  BY <1>6 DEF ReturnToWake, Moved, Discarded
<1>7. CASE OpenTurn
  BY <1>7 DEF OpenTurn, Moved, Discarded
<1>8. CASE ProposeStep
  BY <1>8 DEF ProposeStep, Throw, Claimed, Discarded, Moved, Discarded
<1>9. ASSUME NEW ok \in BOOLEAN, Assembled(ok) PROVE Moved
  BY <1>9 DEF Assembled, Throw, Moved, Discarded
<1>10. ASSUME NEW ok \in BOOLEAN, RequestBuilt(ok) PROVE Moved
  BY <1>10 DEF RequestBuilt, StepThrows, Moved, Discarded
<1>11. ASSUME NEW ok \in BOOLEAN, StoppingSettles(ok) PROVE Moved
  BY <1>11 DEF StoppingSettles, Throw, Moved, Discarded
<1>12. CASE PreStepSettles
  BY <1>12 DEF PreStepSettles, PreStep, Throw, Moved, Discarded
<1>13. CASE Decide
  BY <1>13 DEF Decide, OpenStep, Throw, Moved, Discarded
<1>14. CASE EnterMessage
  BY <1>14 DEF EnterMessage, Entered, Moved, Discarded
<1>15. CASE BeginStep
  BY <1>15 DEF BeginStep, StepThrows, Moved, Discarded
<1>16. CASE StreamEnds
  BY <1>16
     DEF StreamEnds, StreamCut, StreamFails, StreamFinishes, StepThrows, StepReturns, Moved, Discarded
<1>17. ASSUME NEW action \in {"retry", "none"}, RequestErrorSettles(action) PROVE Moved
  BY <1>17 DEF RequestErrorSettles, StepThrows, Moved, Discarded
<1>18. ASSUME NEW outcome \in {"concluded", "continue", "failure"}, ToolsSettle(outcome) PROVE Moved
  BY <1>18 DEF ToolsSettle, StepThrows, StepReturns, Moved, Discarded
<1>19. CASE CloseStep
  BY <1>19 DEF CloseStep, Moved, Discarded
<1>20. CASE AfterStep
  BY <1>20 DEF AfterStep, Throw, Moved, Discarded
<1>21. CASE ErrorReported
  BY <1>21 DEF ErrorReported, Moved, Discarded
<1>22. CASE CloseTurn
  BY <1>22 DEF CloseTurn, Moved, Discarded
<1>23. CASE AfterTurn
  BY <1>23 DEF AfterTurn, Moved, Discarded
<1>24. CASE Retire
  BY <1>24 DEF Retire, Moved, Discarded
<1>25. ASSUME NEW m \in Messages, ToolContext(m) PROVE Moved
  <2>1. PICK how \in {"quiet", "waking"}, tgt2 \in Targets :
         sent[m] = "unsent" /\ Insert(tgt2, m, how) /\ UNCHANGED <<batch, transcript>>
    BY <1>25 DEF ToolContext, Targets
  <2>2. Inserted(tgt2, m)
    BY <2>1 DEF Insert, Inserted, TypeOK, QueueTypeOK
  <2> QED
    BY <2>2 DEF Moved
<1>26. CASE MaintenanceSettles
  BY <1>26 DEF MaintenanceSettles, Moved, Discarded
<1>27. CASE Drained
  BY <1>27 DEF Drained, Moved, Discarded
<1>28. CASE UNCHANGED vars
  BY <1>28 DEF Moved, Discarded
<1> QED
  BY <1>1, <1>2, <1>3, <1>4, <1>5, <1>6, <1>7, <1>8, <1>9, <1>10, <1>11, <1>12, <1>13, <1>14, <1>15,
     <1>16, <1>17, <1>18, <1>19, <1>20, <1>21, <1>22, <1>23, <1>24, <1>25, <1>26, <1>27, <1>28
     DEF Next, Callers, Driver

\* The two inbox lists and the lists beside them are sequences of messages.
LEMMA HeldTypes ==
  ASSUME TypeOK
  PROVE  /\ turns \in Seq(Messages) /\ steps \in Seq(Messages)
         /\ batch \in Seq(Messages \cup {RuntimeContext})
         /\ transcript \in Seq(Messages \cup {RuntimeContext})
BY DEF TypeOK, QueueTypeOK, turns, steps, Targets

\* What appending one element does to a sequence.
LEMMA SingleAppend ==
  ASSUME NEW S, NEW a \in Seq(S), NEW m \in S, Single(a), \A i \in DOMAIN a : a[i] # m
  PROVE  Single(Append(a, m))
BY DEF Single

LEMMA ApartAppend ==
  ASSUME NEW S, NEW a \in Seq(S), NEW m \in S, NEW b, Apart(a, b), \A j \in DOMAIN b : b[j] # m
  PROVE  Apart(Append(a, m), b)
BY DEF Apart

\* The runtime context is no message, so appending it duplicates nothing.
LEMMA ContextAppend ==
  ASSUME NEW S, NEW a \in Seq(S), NEW b, RuntimeContext \in S
  PROVE  /\ Single(a) => Single(Append(a, RuntimeContext))
         /\ Apart(a, b) => Apart(Append(a, RuntimeContext), b)
         /\ Apart(b, a) => Apart(b, Append(a, RuntimeContext))
         /\ Submitted(a) => Submitted(Append(a, RuntimeContext))
<1> DEFINE c == Append(a, RuntimeContext)
<1>1. /\ DOMAIN c = 1..(Len(a) + 1) /\ DOMAIN a = 1..Len(a)
      /\ \A i \in 1..Len(a) : c[i] = a[i]
      /\ c[Len(a) + 1] = RuntimeContext
      /\ Len(a) \in Nat
  OBVIOUS
<1> HIDE DEF c
<1>2. \A i \in DOMAIN c : c[i] \in Messages => i \in DOMAIN a /\ c[i] = a[i]
  BY <1>1, RuntimeContextAssumption
<1> QED
  BY <1>2 DEF Single, Apart, Submitted, c

LEMMA ApartCommutes ==
  ASSUME NEW a, NEW b
  PROVE  Apart(a, b) <=> Apart(b, a)
BY DEF Apart

\* The empty list holds nothing.
LEMMA NothingHeld ==
  ASSUME NEW a
  PROVE  Single(<<>>) /\ Apart(<<>>, a) /\ Apart(a, <<>>) /\ Submitted(<<>>)
BY DEF Single, Apart, Submitted

\* What is left of a sequence without one element.
LEMMA SuffixIs ==
  ASSUME NEW S, NEW a \in Seq(S), NEW i \in 1..Len(a)
  PROVE  /\ SubSeq(a, i + 1, Len(a)) \in Seq(S)
         /\ Len(SubSeq(a, i + 1, Len(a))) = Len(a) - i
         /\ \A j \in 1..(Len(a) - i) : SubSeq(a, i + 1, Len(a))[j] = a[i + j]
<1> DEFINE n == Len(a)
           y == SubSeq(a, i + 1, n)
<1>1. n \in Nat /\ i \in Int /\ 1 <= i /\ i <= n /\ DOMAIN a = 1..n
  OBVIOUS
<1>2. n \in Int /\ i + 1 \in Int /\ \A j \in (i + 1)..n : a[j] \in S
  BY <1>1
<1>3. /\ y \in Seq(S)
      /\ Len(y) = IF i + 1 <= n THEN n - (i + 1) + 1 ELSE 0
      /\ \A j \in 1..(n - (i + 1) + 1) : y[j] = a[(i + 1) + j - 1]
  <2> HIDE DEF n
  <2> QED
    BY <1>2, SubSeqProperties
<1> HIDE DEF n, y
<1>4. n - (i + 1) + 1 = n - i /\ (i + 1 <= n \/ n - i = 0)
  BY <1>1
<1>5. Len(y) = n - i
  BY <1>3, <1>4, <1>1
<1>6. \A j \in 1..(n - i) : (i + 1) + j - 1 = i + j
  BY <1>1
<1>7. \A j \in 1..(n - i) : y[j] = a[i + j]
  BY <1>3, <1>4, <1>6
<1> QED
  BY <1>3, <1>5, <1>7 DEF n, y

LEMMA RemoveAtIs ==
  ASSUME NEW S, NEW a \in Seq(S), NEW i \in 1..Len(a)
  PROVE  /\ DOMAIN RemoveAt(a, i) = 1..(Len(a) - 1) /\ DOMAIN a = 1..Len(a) /\ Len(a) \in Nat
         /\ \A j \in 1..(Len(a) - 1) : RemoveAt(a, i)[j] = IF j < i THEN a[j] ELSE a[j + 1]
<1> DEFINE x == SubSeq(a, 1, i - 1)
           y == SubSeq(a, i + 1, Len(a))
           c == RemoveAt(a, i)
<1>1. Len(a) \in Nat /\ i \in Int /\ 1 <= i /\ i <= Len(a) /\ DOMAIN a = 1..Len(a)
  OBVIOUS
<1>2. x \in Seq(S) /\ Len(x) = i - 1 /\ \A j \in 1..(i - 1) : x[j] = a[j]
  BY <1>1
<1>3. y \in Seq(S) /\ Len(y) = Len(a) - i /\ \A j \in 1..(Len(a) - i) : y[j] = a[i + j]
  BY SuffixIs
<1>4. c = x \o y
  BY DEF RemoveAt
<1> HIDE DEF x, y, c
<1>5. c \in Seq(S) /\ Len(c) = Len(x) + Len(y)
  BY <1>2, <1>3, <1>4, ConcatProperties
<1>6. \A j \in 1..(Len(x) + Len(y)) : c[j] = IF j <= Len(x) THEN x[j] ELSE y[j - Len(x)]
  BY <1>2, <1>3, <1>4, ConcatProperties
<1>7. /\ DOMAIN c = 1..(Len(a) - 1)
      /\ \A j \in 1..(Len(a) - 1) : c[j] = IF j <= i - 1 THEN x[j] ELSE y[j - (i - 1)]
  BY <1>1, <1>2, <1>3, <1>5, <1>6
<1>8. ASSUME NEW j \in 1..(Len(a) - 1) PROVE c[j] = IF j < i THEN a[j] ELSE a[j + 1]
  <2>1. CASE j < i
    <3>1. j \in 1..(i - 1) /\ j <= i - 1
      BY <1>1, <2>1
    <3> QED
      BY <1>2, <1>7, <2>1, <3>1
  <2>2. CASE ~(j < i)
    <3>1. j - (i - 1) \in 1..(Len(a) - i) /\ ~(j <= i - 1) /\ i + (j - (i - 1)) = j + 1
      BY <1>1, <2>2
    <3> QED
      BY <1>3, <1>7, <2>2, <3>1
  <2> QED
    BY <2>1, <2>2
<1> QED
  BY <1>1, <1>7, <1>8 DEF c

\* Removing an element keeps the others.
LEMMA RemoveAtHolds ==
  ASSUME NEW S, NEW a \in Seq(S), NEW i \in 1..Len(a), NEW b
  PROVE  /\ Single(a) => Single(RemoveAt(a, i))
         /\ Apart(a, b) => Apart(RemoveAt(a, i), b) /\ Apart(b, RemoveAt(a, i))
         /\ Submitted(a) => Submitted(RemoveAt(a, i))
<1> DEFINE c == RemoveAt(a, i)
<1>1. /\ DOMAIN c = 1..(Len(a) - 1) /\ DOMAIN a = 1..Len(a) /\ Len(a) \in Nat
      /\ \A j \in 1..(Len(a) - 1) : c[j] = IF j < i THEN a[j] ELSE a[j + 1]
  BY RemoveAtIs
<1> HIDE DEF c
<1>2. Single(a) => Single(c)
  <2> DEFINE old(j) == IF j < i THEN j ELSE j + 1
  <2>1. \A j \in DOMAIN c : old(j) \in DOMAIN a /\ c[j] = a[old(j)]
    BY <1>1
  <2>2. \A j, k \in DOMAIN c : old(j) = old(k) => j = k
    BY <1>1
  <2> HIDE DEF old
  <2> QED
    BY <2>1, <2>2 DEF Single
<1>3. Apart(a, b) => Apart(c, b) /\ Apart(b, c)
  <2>1. \A j \in DOMAIN c : \E k \in DOMAIN a : c[j] = a[k]
    BY <1>1
  <2> QED
    BY <2>1, Zenon DEF Apart
<1>4. Submitted(a) => Submitted(c)
  <2>1. \A j \in DOMAIN c : \E k \in DOMAIN a : c[j] = a[k]
    BY <1>1
  <2> QED
    BY <2>1 DEF Submitted
<1> QED
  BY <1>2, <1>3, <1>4 DEF c

\* A new message is in no list yet.
LEMMA UnsentIsNowhere ==
  ASSUME TypeOK, HeldIsSent, NEW m \in Messages, sent[m] = "unsent"
  PROVE  /\ \A i \in DOMAIN turns : turns[i] # m
         /\ \A i \in DOMAIN steps : steps[i] # m
         /\ \A i \in DOMAIN batch : batch[i] # m
         /\ \A i \in DOMAIN transcript : transcript[i] # m
BY DEF HeldIsSent, Submitted

LEMMA InsertedHeld ==
  ASSUME TypeOK, HeldOnce, HeldIsSent, NEW tgt \in Targets, NEW m \in Messages, Inserted(tgt, m)
  PROVE  HeldOnce' /\ HeldIsSent'
<1>1. sent[m] = "unsent" /\ batch' = batch /\ transcript' = transcript
  BY DEF Inserted
<1>2. \/ turns' = Append(turns, m) /\ steps' = steps
      \/ turns' = turns /\ steps' = Append(steps, m)
  BY DEF Inserted, turns, steps, TypeOK, QueueTypeOK, Targets
<1>3. /\ Apart(Append(turns, m), steps) /\ Apart(Append(turns, m), batch)
      /\ Apart(Append(turns, m), transcript) /\ Single(Append(turns, m))
  BY <1>1, HeldTypes, UnsentIsNowhere, SingleAppend, ApartAppend DEF HeldOnce
<1>4. /\ Apart(Append(steps, m), turns) /\ Apart(Append(steps, m), batch)
      /\ Apart(Append(steps, m), transcript) /\ Single(Append(steps, m))
  BY <1>1, HeldTypes, UnsentIsNowhere, SingleAppend, ApartAppend, ApartCommutes DEF HeldOnce
<1>5. HeldOnce'
  BY <1>1, <1>2, <1>3, <1>4, ApartCommutes DEF HeldOnce
<1>6. \A n \in Messages : sent[n] # "unsent" => sent'[n] # "unsent"
  BY DEF Inserted
<1>7. sent'[m] # "unsent"
  BY DEF Inserted
<1>8. /\ \A i \in DOMAIN turns' : turns'[i] = m \/ (i \in DOMAIN turns /\ turns'[i] = turns[i])
      /\ \A i \in DOMAIN steps' : steps'[i] = m \/ (i \in DOMAIN steps /\ steps'[i] = steps[i])
  <2>1. /\ DOMAIN turns = 1..Len(turns) /\ Len(turns) \in Nat
        /\ DOMAIN Append(turns, m) = 1..(Len(turns) + 1)
        /\ \A i \in 1..Len(turns) : Append(turns, m)[i] = turns[i]
        /\ Append(turns, m)[Len(turns) + 1] = m
    BY HeldTypes
  <2>2. /\ DOMAIN steps = 1..Len(steps) /\ Len(steps) \in Nat
        /\ DOMAIN Append(steps, m) = 1..(Len(steps) + 1)
        /\ \A i \in 1..Len(steps) : Append(steps, m)[i] = steps[i]
        /\ Append(steps, m)[Len(steps) + 1] = m
    BY HeldTypes
  <2>3. CASE turns' = Append(turns, m) /\ steps' = steps
    BY <2>1, <2>3
  <2>4. CASE turns' = turns /\ steps' = Append(steps, m)
    BY <2>2, <2>4
  <2> QED
    BY <1>2, <2>3, <2>4
<1>9. HeldIsSent'
  BY <1>1, <1>6, <1>7, <1>8 DEF HeldIsSent, Submitted
<1> QED
  BY <1>5, <1>9

LEMMA DiscardedHeld ==
  ASSUME TypeOK, HeldOnce, HeldIsSent, Discarded
  PROVE  HeldOnce' /\ HeldIsSent'
<1>1. (turns' = turns /\ steps' = steps) \/ (turns' = <<>> /\ steps' = <<>>)
  BY DEF Discarded, turns, steps, Targets
<1>2. batch' = batch \/ batch' = Append(batch, RuntimeContext) \/ batch' = <<>>
  BY DEF Discarded
<1>3. transcript' = transcript /\ sent' = sent
  BY DEF Discarded
<1>4. /\ Single(batch') /\ Apart(turns, batch') /\ Apart(steps, batch') /\ Apart(batch', transcript)
      /\ Submitted(batch')
  <2>1. CASE batch' = batch
    BY <2>1 DEF HeldOnce, HeldIsSent
  <2>2. CASE batch' = <<>>
    BY <2>2, NothingHeld
  <2>3. CASE batch' = Append(batch, RuntimeContext)
    <3> DEFINE S == Messages \cup {RuntimeContext}
    <3>1. batch \in Seq(S) /\ RuntimeContext \in S
      BY HeldTypes
    <3> HIDE DEF S
    <3>2. /\ Single(batch) /\ Apart(turns, batch) /\ Apart(steps, batch) /\ Apart(batch, transcript)
          /\ Submitted(batch)
      BY DEF HeldOnce, HeldIsSent
    <3> QED
      BY <2>3, <3>1, <3>2, ContextAppend
  <2> QED
    BY <1>2, <2>1, <2>2, <2>3
<1>5. HeldOnce'
  BY <1>1, <1>3, <1>4, NothingHeld DEF HeldOnce
<1> QED
  BY <1>1, <1>3, <1>4, <1>5, NothingHeld DEF HeldIsSent, Submitted

LEMMA RemovedHeld ==
  ASSUME TypeOK, HeldOnce, HeldIsSent, NEW tgt \in Targets, NEW i \in 1..Len(inbox[tgt]), Removed(tgt, i)
  PROVE  HeldOnce' /\ HeldIsSent'
<1>1. batch' = batch /\ transcript' = transcript /\ sent' = sent
  BY DEF Removed
<1>2. \/ turns' = RemoveAt(turns, i) /\ steps' = steps /\ i \in 1..Len(turns)
      \/ turns' = turns /\ steps' = RemoveAt(steps, i) /\ i \in 1..Len(steps)
  BY DEF Removed, turns, steps, TypeOK, QueueTypeOK, Targets
<1>3. CASE turns' = RemoveAt(turns, i) /\ steps' = steps /\ i \in 1..Len(turns)
  <2>1. Single(turns') /\ Apart(turns', steps) /\ Apart(turns', batch) /\ Apart(turns', transcript) /\ Submitted(turns')
    BY <1>3, HeldTypes, RemoveAtHolds DEF HeldOnce, HeldIsSent
  <2> QED
    BY <2>1, <1>1, <1>3 DEF HeldOnce, HeldIsSent, Submitted
<1>4. CASE turns' = turns /\ steps' = RemoveAt(steps, i) /\ i \in 1..Len(steps)
  <2>1. Apart(steps, turns)
    BY ApartCommutes DEF HeldOnce
  <2>2. Single(steps') /\ Apart(turns, steps') /\ Apart(steps', batch) /\ Apart(steps', transcript) /\ Submitted(steps')
    BY <1>4, <2>1, HeldTypes, RemoveAtHolds DEF HeldOnce, HeldIsSent
  <2> QED
    BY <2>2, <1>1, <1>4 DEF HeldOnce, HeldIsSent, Submitted
<1> QED
  BY <1>2, <1>3, <1>4

LEMMA ClaimedHeld ==
  ASSUME TypeOK, HeldOnce, HeldIsSent, Claimed
  PROVE  HeldOnce' /\ HeldIsSent'
<1> DEFINE k == TurnsToClaim(target)
<1>1. k \in {0, 1} /\ k <= Len(turns)
  BY DEF TurnsToClaim, TypeOK, QueueTypeOK, Targets, turns
<1>2. transcript' = transcript /\ sent' = sent /\ steps' = <<>>
  BY DEF Claimed, ClaimBatch, steps, TypeOK, QueueTypeOK, Targets
<1>3. batch' = steps \o SubSeq(turns, 1, k)
  BY DEF Claimed, ClaimBatch, steps, turns
<1>4. turns' = SubSeq(turns, k + 1, Len(turns))
  BY DEF Claimed, ClaimBatch, TurnsLeft, turns, TypeOK, QueueTypeOK, Targets
<1> HIDE DEF k
<1>5. /\ DOMAIN turns' = 1..(Len(turns) - k) /\ \A i \in DOMAIN turns' : turns'[i] = turns[i + k]
      /\ DOMAIN turns = 1..Len(turns) /\ Len(turns) \in Nat
  BY <1>1, <1>4, HeldTypes
<1>6. /\ DOMAIN batch' = 1..(Len(steps) + k) /\ DOMAIN steps = 1..Len(steps) /\ Len(steps) \in Nat
      /\ \A i \in 1..Len(steps) : batch'[i] = steps[i]
      /\ k = 1 => batch'[Len(steps) + 1] = turns[1]
  BY <1>1, <1>3, HeldTypes
<1>7. Single(turns') /\ Apart(turns', transcript) /\ Submitted(turns')
  BY <1>1, <1>5 DEF HeldOnce, HeldIsSent, Single, Apart, Submitted
<1>8. \A i \in DOMAIN batch' : \/ i \in DOMAIN steps /\ batch'[i] = steps[i]
                               \/ k = 1 /\ i = Len(steps) + 1 /\ batch'[i] = turns[1] /\ 1 \in DOMAIN turns
  BY <1>1, <1>5, <1>6
<1>9. Single(batch')
  BY <1>8 DEF HeldOnce, Single, Apart
<1>10. Apart(batch', transcript) /\ Submitted(batch')
  BY <1>8 DEF HeldOnce, HeldIsSent, Apart, Submitted
<1>11. Apart(turns', batch')
  <2>1. \A i \in DOMAIN turns' : i + k \in DOMAIN turns /\ (k = 1 => i + k # 1)
    BY <1>1, <1>5
  <2> QED
    BY <1>5, <1>8, <2>1 DEF HeldOnce, Single, Apart
<1> QED
  BY <1>2, <1>7, <1>9, <1>10, <1>11, NothingHeld DEF HeldOnce, HeldIsSent, Submitted

LEMMA EnteredHeld ==
  ASSUME TypeOK, HeldOnce, HeldIsSent, Entered
  PROVE  HeldOnce' /\ HeldIsSent'
<1>1. turns' = turns /\ steps' = steps /\ sent' = sent
  BY DEF Entered, turns, steps
<1>2. batch' = Tail(batch) /\ transcript' = Append(transcript, Head(batch)) /\ batch # <<>>
  BY DEF Entered
<1>3. /\ DOMAIN batch' = 1..(Len(batch) - 1) /\ DOMAIN batch = 1..Len(batch) /\ Len(batch) \in Nat \ {0}
      /\ \A i \in 1..(Len(batch) - 1) : batch'[i] = batch[i + 1]
  BY <1>2, HeldTypes
<1>4. /\ DOMAIN transcript' = 1..(Len(transcript) + 1) /\ DOMAIN transcript = 1..Len(transcript)
      /\ Len(transcript) \in Nat
      /\ \A i \in 1..Len(transcript) : transcript'[i] = transcript[i]
      /\ transcript'[Len(transcript) + 1] = batch[1]
  BY <1>2, HeldTypes
<1>5. \A i \in DOMAIN transcript' : \/ i \in DOMAIN transcript /\ transcript'[i] = transcript[i]
                                    \/ i = Len(transcript) + 1 /\ transcript'[i] = batch[1]
  BY <1>4
<1>6. \A i \in DOMAIN batch' : i + 1 \in DOMAIN batch /\ i + 1 # 1 /\ batch'[i] = batch[i + 1]
  BY <1>3
<1>7. 1 \in DOMAIN batch
  BY <1>3
<1>8. Single(batch') /\ Submitted(batch')
  BY <1>3, <1>6 DEF HeldOnce, HeldIsSent, Single, Submitted
<1>9. Single(transcript') /\ Submitted(transcript')
  BY <1>5, <1>7 DEF HeldOnce, HeldIsSent, Single, Apart, Submitted
<1>10. Apart(turns, batch') /\ Apart(steps, batch')
  BY <1>6 DEF HeldOnce, Apart
<1>11. Apart(turns, transcript') /\ Apart(steps, transcript')
  BY <1>5, <1>7 DEF HeldOnce, Apart
<1>12. Apart(batch', transcript')
  BY <1>5, <1>6, <1>7 DEF HeldOnce, Single, Apart
<1> QED
  BY <1>1, <1>8, <1>9, <1>10, <1>11, <1>12 DEF HeldOnce, HeldIsSent, Submitted

LEMMA HeldStep ==
  ASSUME TypeOK, HeldOnce, HeldIsSent, [Next]_vars
  PROVE  HeldOnce' /\ HeldIsSent'
BY MovedStep, InsertedHeld, DiscardedHeld, RemovedHeld, ClaimedHeld, EnteredHeld DEF Moved

\* In counts: what occurs at most once has a set of at most one index.
LEMMA OccurrencesOf ==
  ASSUME NEW a, NEW m \in Messages, Single(a)
  PROVE  /\ Occurrences(m, a) \in {0, 1}
         /\ Occurrences(m, a) = 1 => \E i \in DOMAIN a : a[i] = m
<1> DEFINE I == {i \in DOMAIN a : a[i] = m}
<1>1. CASE I = {}
  BY <1>1, FS_EmptySet DEF Occurrences
<1>2. CASE I # {}
  <2>1. PICK i \in I : TRUE
    BY <1>2
  <2>2. I = {i}
    BY <2>1 DEF Single
  <2>3. Cardinality(I) = 1
    BY <2>2, FS_Singleton
  <2> QED
    BY <2>1, <2>3 DEF Occurrences
<1> QED
  BY <1>1, <1>2

LEMMA HeldOnceCounts == TypeOK /\ HeldOnce /\ HeldIsSent => NoMessageTwice
<1> SUFFICES ASSUME TypeOK, HeldOnce, HeldIsSent, NEW m \in Messages
             PROVE  Occurrences(m, turns) + Occurrences(m, steps) + Occurrences(m, batch)
                      + Occurrences(m, transcript) <= IF sent[m] = "unsent" THEN 0 ELSE 1
  BY DEF NoMessageTwice, turns, steps
<1> DEFINE Has(a) == \E i \in DOMAIN a : a[i] = m
<1>1. /\ ~(Has(turns) /\ Has(steps)) /\ ~(Has(turns) /\ Has(batch)) /\ ~(Has(turns) /\ Has(transcript))
      /\ ~(Has(steps) /\ Has(batch)) /\ ~(Has(steps) /\ Has(transcript)) /\ ~(Has(batch) /\ Has(transcript))
  BY DEF HeldOnce, Apart
<1>2. sent[m] = "unsent" => ~Has(turns) /\ ~Has(steps) /\ ~Has(batch) /\ ~Has(transcript)
  BY UnsentIsNowhere
<1>3. /\ Occurrences(m, turns) \in {0, 1} /\ (Occurrences(m, turns) = 1 => Has(turns))
      /\ Occurrences(m, steps) \in {0, 1} /\ (Occurrences(m, steps) = 1 => Has(steps))
      /\ Occurrences(m, batch) \in {0, 1} /\ (Occurrences(m, batch) = 1 => Has(batch))
      /\ Occurrences(m, transcript) \in {0, 1} /\ (Occurrences(m, transcript) = 1 => Has(transcript))
  BY OccurrencesOf DEF HeldOnce
<1> HIDE DEF Has
<1> QED
  BY <1>1, <1>2, <1>3

\* A message is never in two places and never twice in one: it is pending, claimed or in
\* the transcript, whatever cancels, replays and tool contexts interleave.
THEOREM NoMessageRunsTwice == Spec => []NoMessageTwice
<1>1. Init => HeldOnce /\ HeldIsSent
  BY NothingHeld DEF Init, HeldOnce, HeldIsSent, turns, steps, Targets
<1>2. TypeOK /\ HeldOnce /\ HeldIsSent /\ [Next]_vars => (HeldOnce /\ HeldIsSent)'
  BY HeldStep
<1> QED
  BY <1>1, <1>2, HeldOnceCounts, TypeCorrect, PTL DEF Spec

-----------------------------------------------------------------------------
\* The brackets of a turn.

\* TurnBracketed of any log, and the log of a turn that is still open: between two steps,
\* or inside its last step.
Kind(log, k) == {i \in DOMAIN log : log[i].type = k}
Starts(log) == Kind(log, "step/start")
Ends(log) == Kind(log, "step/end")
Earlier(log, i) == {k \in Starts(log) : k < i}

OpensTurn(log, t) == log[1] = TurnStart(t) /\ Kind(log, "turn/start") = {1}
ClosesTurn(log, t) ==
  \A i \in Kind(log, "turn/end") :
    i = Len(log) /\ log[i].turn = t /\ Cardinality(Starts(log)) = Cardinality(Ends(log))
StepsInOrder(log, t) ==
  \A i \in Starts(log) :
    /\ log[i] = StepStart(t, Cardinality(Earlier(log, i)) + 1)
    /\ \A k \in Earlier(log, i) : \E e \in Ends(log) : k < e /\ e < i /\ log[e] = StepEnd(t, log[k].step)
EndsMatch(log, t) ==
  \A i \in Ends(log) : \E k \in Starts(log) : k < i /\ log[k].step = log[i].step /\ log[i].turn = t

Bracketed(log, t) == OpensTurn(log, t) /\ ClosesTurn(log, t) /\ StepsInOrder(log, t) /\ EndsMatch(log, t)

\* The steps numbered up to n are closed.
ClosedUpTo(log, t, n) ==
  \A k \in Starts(log) : log[k].step <= n => \E e \in Ends(log) : k < e /\ log[e] = StepEnd(t, log[k].step)

\* s steps were opened, c of them closed, and the turn is not.
Counted(log, t, s, c) ==
  /\ log # <<>> /\ Kind(log, "turn/end") = {}
  /\ Cardinality(Starts(log)) = s /\ Cardinality(Ends(log)) = c
  /\ \A k \in Starts(log) : log[k].step \in 1..s
  /\ \A n \in 1..s : \E k \in Starts(log) : log[k].step = n
  /\ ClosedUpTo(log, t, c)

Inside == {"boundary", "assemble", "preStep", "decided", "stepClosed", "stopping", "failing", "closing"}
InStep == {"stepOpen", "request", "stream", "requestError", "tools", "stepDone"}

\* What the driver's position says of the log of its turn.
LogFollows ==
  /\ pc \in {"reserved", "continuing"} => step = 0
  /\ pc \in Inside => Counted(turnLog, turn, step, step)
  /\ pc \in InStep => step >= 1 /\ Counted(turnLog, turn, step, step - 1)

\* The ways a step of the system moves the driver and its log.
Silent ==
  /\ UNCHANGED <<turnLog, turn>>
  /\ pc' \in Inside => pc \in Inside /\ step' = step
  /\ pc' \in InStep => pc \in InStep /\ step' = step
  /\ pc' \in {"reserved", "continuing"} => step' = 0 \/ (pc' = pc /\ step' = step)
Notes(e) ==
  /\ turnLog' = Append(turnLog, e) /\ UNCHANGED <<turn, step>>
  /\ e \in Events /\ e.type \in {"claimed", "assistant/message"}
  /\ pc' \notin {"reserved", "continuing"}
  /\ (pc \in Inside /\ pc' \in Inside) \/ (pc \in InStep /\ pc' \in InStep)
OpensIt ==
  /\ turnLog' = <<TurnStart(turn + 1)>> /\ turn' = turn + 1 /\ step' = step
  /\ pc \in {"reserved", "continuing"} /\ pc' = "boundary"
OpensStep ==
  /\ turnLog' = Append(turnLog, StepStart(turn, step + 1)) /\ step' = step + 1 /\ turn' = turn
  /\ pc = "decided" /\ pc' = "stepOpen"
ClosesStep ==
  /\ turnLog' = Append(turnLog, StepEnd(turn, step)) /\ UNCHANGED <<turn, step>>
  /\ pc = "stepDone" /\ pc' = "stepClosed"
ClosesIt ==
  /\ turnLog' = Append(turnLog, TurnEnd(turn, turnEnds)) /\ turnEnds \in Endings /\ UNCHANGED <<turn, step>>
  /\ pc = "closing" /\ pc' = "closed"

Logged ==
  \/ Silent
  \/ \E e \in Events : Notes(e)
  \/ OpensIt \/ OpensStep \/ ClosesStep \/ ClosesIt

\* Every step is one of them.
LEMMA LoggedStep ==
  ASSUME TypeOK, DriverInvariant, [Next]_vars
  PROVE  Logged
<1>1. ASSUME NEW m \in Messages, NEW tgt \in Targets, NEW wakeup \in BOOLEAN, Send(m, tgt, wakeup) PROVE Logged
  BY <1>1 DEF Send, Insert, Logged, Silent, Inside, InStep, Resumes
<1>2. ASSUME NEW keepInbox \in BOOLEAN, UserCancel(keepInbox) PROVE Logged
  BY <1>2 DEF UserCancel, Cancel, Logged, Silent, Inside, InStep, Resumes
<1>3. ASSUME NEW tgt \in Targets, NEW i \in 1..Len(inbox[tgt]), RemovePending(tgt, i) PROVE Logged
  BY <1>3 DEF RemovePending, Logged, Silent, Inside, InStep, Resumes
<1>4. CASE RunMaintenance
  BY <1>4 DEF RunMaintenance, Logged, Silent, Inside, InStep, Resumes
<1>5. CASE Dispose
  BY <1>5 DEF Dispose, Cancel, Logged, Silent, Inside, InStep, Resumes
<1>6. CASE ReturnToWake
  <2>1. WakeDriver(TRUE) \/ WakeDriver(FALSE) \/ UNCHANGED <<phaseVars, pc>>
    BY <1>6 DEF ReturnToWake
  <2>2. \/ step' = 0 /\ turn' = turn /\ pc' = "reserved"
        \/ UNCHANGED <<turn, step, pc>>
    BY <2>1, Zenon DEF WakeDriver, StartDriver
  <2> QED
    BY <1>6, <2>2 DEF Logged, Silent, Inside, InStep, ReturnToWake
<1>7. CASE OpenTurn
  BY <1>7 DEF OpenTurn, OpensIt, Logged, Silent, Inside, InStep, Resumes
<1>8. CASE ProposeStep
  <2> DEFINE k == TurnsToClaim(target)
  <2>1. k \in {0, 1}
    BY DEF TurnsToClaim
  <2>2. ClaimedTurn(k) \in Events /\ ClaimedTurn(k).type = "claimed"
    BY <2>1, EventTypes DEF ClaimedTurn
  <2>3. \/ turnLog' = turnLog
        \/ turnLog' = Append(turnLog, ClaimedTurn(k))
    BY <1>8 DEF ProposeStep, ClaimBatch
  <2>4. pc = "boundary" /\ pc' \in {"assemble", "closing", "failing"} /\ turn' = turn /\ step' = step
    BY <1>8 DEF ProposeStep, Throw
  <2> HIDE DEF k
  <2>5. CASE turnLog' = turnLog
    BY <2>4, <2>5 DEF Logged, Silent, Inside, InStep
  <2>6. CASE turnLog' = Append(turnLog, ClaimedTurn(k))
    <3>1. Notes(ClaimedTurn(k))
      BY <2>2, <2>4, <2>6 DEF Notes, Inside, InStep
    <3> QED
      BY <2>2, <3>1 DEF Logged
  <2> QED
    BY <2>3, <2>5, <2>6
<1>9. ASSUME NEW ok \in BOOLEAN, Assembled(ok) PROVE Logged
  BY <1>9 DEF Assembled, Throw, Logged, Silent, Inside, InStep, Resumes
<1>10. ASSUME NEW ok \in BOOLEAN, RequestBuilt(ok) PROVE Logged
  BY <1>10 DEF RequestBuilt, StepThrows, Logged, Silent, Inside, InStep, Resumes
<1>11. ASSUME NEW ok \in BOOLEAN, StoppingSettles(ok) PROVE Logged
  BY <1>11 DEF StoppingSettles, Throw, Logged, Silent, Inside, InStep, Resumes
<1>12. CASE PreStepSettles
  BY <1>12 DEF PreStepSettles, PreStep, Throw, Logged, Silent, Inside, InStep, Resumes
<1>13. CASE Decide
  <2>1. \/ turnLog' = turnLog /\ step' = step /\ pc' \in {"closing", "failing"}
        \/ OpensStep
    BY <1>13 DEF Decide, OpenStep, Throw, OpensStep, Resumes
  <2>2. turn' = turn /\ pc = "decided"
    BY <1>13 DEF Decide, Resumes
  <2> QED
    BY <2>1, <2>2 DEF Logged, Silent, Inside, InStep
<1>14. CASE EnterMessage
  BY <1>14 DEF EnterMessage, Logged, Silent, Inside, InStep, Resumes
<1>15. CASE BeginStep
  BY <1>15 DEF BeginStep, StepThrows, Logged, Silent, Inside, InStep, Resumes
<1>16. CASE StreamEnds
  <2>1. pc = "stream" /\ pc' \in {"stepDone", "requestError", "tools"} /\ turn' = turn /\ step' = step
    BY <1>16 DEF StreamEnds, StreamCut, StreamFails, StreamFinishes, StepThrows, StepReturns, Resumes
  <2>2. \/ turnLog' = turnLog
        \/ \E f \in {"interrupted", "max-tokens", "stop", "tool-calls"} : turnLog' = Append(turnLog, AssistantMessage(f))
    BY <1>16 DEF StreamEnds, StreamCut, StreamFails, StreamFinishes, StepThrows, StepReturns
  <2>3. CASE turnLog' = turnLog
    BY <2>1, <2>3 DEF Logged, Silent, Inside, InStep
  <2>4. ASSUME NEW f \in {"interrupted", "max-tokens", "stop", "tool-calls"}, turnLog' = Append(turnLog, AssistantMessage(f))
        PROVE  Logged
    <3>1. AssistantMessage(f) \in Events /\ AssistantMessage(f).type = "assistant/message"
      BY EventTypes, 0 \in Nat DEF AssistantMessage
    <3>2. Notes(AssistantMessage(f))
      BY <2>1, <2>4, <3>1 DEF Notes, Inside, InStep
    <3> QED
      BY <3>1, <3>2 DEF Logged
  <2> QED
    BY <2>2, <2>3, <2>4
<1>17. ASSUME NEW action \in {"retry", "none"}, RequestErrorSettles(action) PROVE Logged
  BY <1>17 DEF RequestErrorSettles, StepThrows, Logged, Silent, Inside, InStep, Resumes
<1>18. ASSUME NEW outcome \in {"concluded", "continue", "failure"}, ToolsSettle(outcome) PROVE Logged
  BY <1>18 DEF ToolsSettle, StepThrows, StepReturns, Logged, Silent, Inside, InStep, Resumes
<1>19. CASE CloseStep
  BY <1>19 DEF CloseStep, ClosesStep, LogWithStepEnd, Logged, Silent, Inside, InStep, Resumes
<1>20. CASE AfterStep
  BY <1>20 DEF AfterStep, Throw, Logged, Silent, Inside, InStep, Resumes
<1>21. CASE ErrorReported
  BY <1>21 DEF ErrorReported, Logged, Silent, Inside, InStep, Resumes
<1>22. CASE CloseTurn
  BY <1>22
     DEF CloseTurn, ClosesIt, LogWithTurnEnd, TypeOK, TurnTypeOK, DriverInvariant, EndingKnown, Logged,
         Silent, Inside, InStep, Resumes
<1>23. CASE AfterTurn
  BY <1>23 DEF AfterTurn, Logged, Silent, Inside, InStep, Resumes
<1>24. CASE Retire
  BY <1>24 DEF Retire, Logged, Silent, Inside, InStep, Resumes
<1>25. ASSUME NEW m \in Messages, ToolContext(m) PROVE Logged
  BY <1>25 DEF ToolContext, Insert, Logged, Silent, Inside, InStep, Resumes
<1>26. CASE MaintenanceSettles
  BY <1>26 DEF MaintenanceSettles, StartDriver, Logged, Silent, Inside, InStep, Resumes
<1>27. CASE Drained
  BY <1>27 DEF Drained, Logged, Silent, Inside, InStep, Resumes
<1>28. CASE UNCHANGED vars
  BY <1>28 DEF Logged, Silent, Inside, InStep, Resumes
<1> QED
  BY <1>1, <1>2, <1>3, <1>4, <1>5, <1>6, <1>7, <1>8, <1>9, <1>10, <1>11, <1>12, <1>13, <1>14, <1>15,
     <1>16, <1>17, <1>18, <1>19, <1>20, <1>21, <1>22, <1>23, <1>24, <1>25, <1>26, <1>27, <1>28
     DEF Next, Callers, Driver

\* The indexes of a log are finite sets of numbers.
LEMMA KindsFinite ==
  ASSUME NEW log \in Seq(Events), NEW k
  PROVE  /\ IsFiniteSet(Kind(log, k)) /\ Cardinality(Kind(log, k)) \in Nat
         /\ Kind(log, k) \subseteq 1..Len(log)
<1>1. Kind(log, k) \subseteq 1..Len(log) /\ 1 \in Int /\ Len(log) \in Int
  BY DEF Kind
<1>2. IsFiniteSet(1..Len(log))
  BY <1>1, FS_Interval
<1>3. IsFiniteSet(Kind(log, k))
  BY <1>1, <1>2, FS_Subset
<1> QED
  BY <1>1, <1>3, FS_CardinalityType

\* What appending an event does to the sets of indexes.
LEMMA AppendKinds ==
  ASSUME NEW log \in Seq(Events), NEW e \in Events
  PROVE  LET m == Append(log, e)
             n == Len(log) + 1
         IN /\ m \in Seq(Events) /\ Len(m) = n /\ m # <<>> /\ n \in Nat
            /\ m[n] = e /\ \A i \in 1..Len(log) : m[i] = log[i]
            /\ \A k : Kind(m, k) = Kind(log, k) \cup {i \in {n} : e.type = k}
            /\ \A k : \A i \in Kind(log, k) : i \in 1..Len(log) /\ i < n /\ m[i] = log[i]
            /\ \A i \in 1..Len(log) : Earlier(m, i) = Earlier(log, i)
            /\ Earlier(m, n) = Starts(log)
<1> DEFINE m == Append(log, e)
           n == Len(log) + 1
<1>1. /\ m \in Seq(Events) /\ Len(m) = n /\ m # <<>> /\ n \in Nat /\ Len(log) \in Nat
      /\ m[n] = e /\ \A i \in 1..Len(log) : m[i] = log[i]
      /\ DOMAIN m = 1..n /\ DOMAIN log = 1..Len(log)
  OBVIOUS
<1> HIDE DEF m
<1>2. \A k : Kind(m, k) = Kind(log, k) \cup {i \in {n} : e.type = k}
  BY <1>1 DEF Kind
<1>3. \A k : \A i \in Kind(log, k) : i \in 1..Len(log) /\ i < n /\ m[i] = log[i]
  BY <1>1 DEF Kind
<1>4. \A i \in 1..Len(log) : Earlier(m, i) = Earlier(log, i)
  BY <1>1, <1>2 DEF Earlier, Starts
<1>5. Earlier(m, n) = Starts(log)
  BY <1>1, <1>2, <1>3 DEF Earlier, Starts
<1> QED
  BY <1>1, <1>2, <1>3, <1>4, <1>5 DEF m

\* An event that is no bracket leaves the brackets as they are.
LEMMA NoteKeeps ==
  ASSUME NEW log \in Seq(Events), NEW t \in Nat, NEW s \in Nat, NEW c \in Nat,
         NEW e \in Events, e.type \in {"claimed", "assistant/message"},
         Bracketed(log, t), Counted(log, t, s, c)
  PROVE  Bracketed(Append(log, e), t) /\ Counted(Append(log, e), t, s, c)
<1> DEFINE m == Append(log, e)
           n == Len(log) + 1
<1>1. /\ m # <<>> /\ \A i \in 1..Len(log) : m[i] = log[i]
      /\ \A k : Kind(m, k) = Kind(log, k) \cup {i \in {n} : e.type = k}
      /\ \A k : \A i \in Kind(log, k) : i \in 1..Len(log) /\ m[i] = log[i]
      /\ \A i \in 1..Len(log) : Earlier(m, i) = Earlier(log, i)
  BY AppendKinds
<1> HIDE DEF m
<1>2. \A k \in {"turn/start", "turn/end", "step/start", "step/end"} : Kind(m, k) = Kind(log, k)
  BY <1>1
<1>3. Starts(m) = Starts(log) /\ Ends(m) = Ends(log)
  BY <1>2 DEF Starts, Ends
<1>4. \A i \in Starts(log) \cup Ends(log) : i \in 1..Len(log) /\ m[i] = log[i]
  BY <1>1 DEF Starts, Ends
<1>5. OpensTurn(m, t)
  BY <1>1, <1>2 DEF Bracketed, OpensTurn
<1>6. ClosesTurn(m, t)
  BY <1>2 DEF Counted, ClosesTurn
<1>7. StepsInOrder(m, t)
  <2> SUFFICES ASSUME NEW i \in Starts(log)
               PROVE  /\ m[i] = StepStart(t, Cardinality(Earlier(m, i)) + 1)
                      /\ \A k \in Earlier(m, i) : \E x \in Ends(m) : k < x /\ x < i /\ m[x] = StepEnd(t, m[k].step)
    BY <1>3 DEF StepsInOrder
  <2>1. Earlier(m, i) = Earlier(log, i) /\ m[i] = log[i] /\ Earlier(log, i) \subseteq Starts(log)
    BY <1>1, <1>4 DEF Earlier
  <2> QED
    BY <1>3, <1>4, <2>1 DEF Bracketed, StepsInOrder
<1>8. EndsMatch(m, t)
  BY <1>3, <1>4 DEF Bracketed, EndsMatch
<1>9. ClosedUpTo(m, t, c)
  BY <1>3, <1>4 DEF Counted, ClosedUpTo
<1>10. /\ m # <<>> /\ Kind(m, "turn/end") = {}
       /\ Cardinality(Starts(m)) = s /\ Cardinality(Ends(m)) = c
  BY <1>1, <1>2, <1>3 DEF Counted
<1>11. /\ \A k \in Starts(m) : m[k].step \in 1..s
       /\ \A j \in 1..s : \E k \in Starts(m) : m[k].step = j
  BY <1>3, <1>4 DEF Counted
<1> QED
  BY <1>5, <1>6, <1>7, <1>8, <1>9, <1>10, <1>11 DEF Bracketed, Counted, m

\* A new turn starts with its turn/start alone.
LEMMA TurnStartOpens ==
  ASSUME NEW t \in Nat
  PROVE  Bracketed(<<TurnStart(t)>>, t) /\ Counted(<<TurnStart(t)>>, t, 0, 0)
<1> DEFINE m == <<TurnStart(t)>>
<1>1. DOMAIN m = {1} /\ m # <<>> /\ m[1] = TurnStart(t)
  OBVIOUS
<1>2. m[1].type = "turn/start"
  BY <1>1 DEF TurnStart
<1> HIDE DEF m
<1>3. Kind(m, "turn/start") = {1} /\ Kind(m, "turn/end") = {} /\ Starts(m) = {} /\ Ends(m) = {}
  BY <1>1, <1>2 DEF Kind, Starts, Ends
<1>4. Cardinality(Starts(m)) = 0 /\ Cardinality(Ends(m)) = 0
  BY <1>3, FS_EmptySet
<1> QED
  BY <1>1, <1>3, <1>4
     DEF Bracketed, OpensTurn, ClosesTurn, StepsInOrder, EndsMatch, Counted, ClosedUpTo, m

\* step/start over closed steps opens the next one.
LEMMA StepStartOpens ==
  ASSUME NEW log \in Seq(Events), NEW t \in Nat, NEW s \in Nat,
         Bracketed(log, t), Counted(log, t, s, s)
  PROVE  Bracketed(Append(log, StepStart(t, s + 1)), t) /\ Counted(Append(log, StepStart(t, s + 1)), t, s + 1, s)
<1> DEFINE e == StepStart(t, s + 1)
           m == Append(log, e)
           n == Len(log) + 1
<1>0. e \in Events /\ e.type = "step/start" /\ e.step = s + 1
  BY EventTypes DEF StepStart
<1> HIDE DEF e
<1>1. /\ m # <<>> /\ m[n] = e /\ n \in Nat /\ \A i \in 1..Len(log) : m[i] = log[i]
      /\ \A k : Kind(m, k) = Kind(log, k) \cup {i \in {n} : e.type = k}
      /\ \A k : \A i \in Kind(log, k) : i \in 1..Len(log) /\ i < n /\ m[i] = log[i]
      /\ \A i \in 1..Len(log) : Earlier(m, i) = Earlier(log, i)
      /\ Earlier(m, n) = Starts(log)
  BY <1>0, AppendKinds
<1> HIDE DEF m, n
<1>2. \A k \in {"turn/start", "turn/end", "step/end"} : Kind(m, k) = Kind(log, k)
  BY <1>0, <1>1
<1>3. Starts(m) = Starts(log) \cup {n} /\ Ends(m) = Ends(log)
  BY <1>0, <1>1, <1>2 DEF Starts, Ends
<1>4. \A i \in Starts(log) \cup Ends(log) : i \in 1..Len(log) /\ i < n /\ m[i] = log[i]
  BY <1>1 DEF Starts, Ends
<1>5. OpensTurn(m, t)
  BY <1>1, <1>2 DEF Bracketed, OpensTurn
<1>6. ClosesTurn(m, t)
  BY <1>2 DEF Counted, ClosesTurn
<1>7. StepsInOrder(m, t)
  <2> SUFFICES ASSUME NEW i \in Starts(m)
               PROVE  /\ m[i] = StepStart(t, Cardinality(Earlier(m, i)) + 1)
                      /\ \A k \in Earlier(m, i) : \E x \in Ends(m) : k < x /\ x < i /\ m[x] = StepEnd(t, m[k].step)
    BY DEF StepsInOrder
  <2>1. CASE i \in Starts(log)
    <3>1. Earlier(m, i) = Earlier(log, i) /\ m[i] = log[i] /\ Earlier(log, i) \subseteq Starts(log)
      BY <1>1, <1>4, <2>1 DEF Earlier
    <3> QED
      BY <1>3, <1>4, <2>1, <3>1 DEF Bracketed, StepsInOrder
  <2>2. CASE i = n
    <3>1. m[i] = StepStart(t, Cardinality(Earlier(m, i)) + 1)
      BY <1>1, <2>2 DEF Counted, e
    <3>2. ASSUME NEW k \in Starts(log) PROVE \E x \in Ends(m) : k < x /\ x < i /\ m[x] = StepEnd(t, m[k].step)
      <4>1. PICK x \in Ends(log) : k < x /\ log[x] = StepEnd(t, log[k].step)
        BY DEF Counted, ClosedUpTo
      <4> QED
        BY <1>3, <1>4, <2>2, <4>1
    <3> QED
      BY <1>1, <2>2, <3>1, <3>2
  <2> QED
    BY <1>3, <2>1, <2>2
<1>8. EndsMatch(m, t)
  BY <1>3, <1>4 DEF Bracketed, EndsMatch
<1>9. ClosedUpTo(m, t, s)
  <2>1. ~(m[n].step <= s)
    BY <1>0, <1>1
  <2> QED
    BY <1>3, <1>4, <2>1 DEF Counted, ClosedUpTo
<1>10. Cardinality(Starts(m)) = s + 1 /\ Cardinality(Ends(m)) = s
  <2>1. n \notin Starts(log) /\ IsFiniteSet(Starts(log)) /\ Cardinality(Starts(log)) = s
    BY <1>1, <1>4, KindsFinite DEF Counted, Starts
  <2>2. Cardinality(Starts(log) \cup {n}) = s + 1
    BY <2>1, FS_AddElement
  <2> QED
    BY <1>3, <2>2 DEF Counted
<1>11. \A k \in Starts(m) : m[k].step \in 1..(s + 1)
  <2>1. \A k \in Starts(log) : m[k].step \in 1..s
    BY <1>4 DEF Counted
  <2> QED
    BY <1>0, <1>1, <1>3, <2>1
<1>12. \A j \in 1..(s + 1) : \E k \in Starts(m) : m[k].step = j
  <2>1. \A j \in 1..s : \E k \in Starts(log) : m[k].step = j
    BY <1>4 DEF Counted
  <2> QED
    BY <1>0, <1>1, <1>3, <2>1
<1> QED
  BY <1>1, <1>2, <1>5, <1>6, <1>7, <1>8, <1>9, <1>10, <1>11, <1>12 DEF Bracketed, Counted, m, e

\* step/end closes the last step.
LEMMA StepEndCloses ==
  ASSUME NEW log \in Seq(Events), NEW t \in Nat, NEW s \in Nat, s >= 1,
         Bracketed(log, t), Counted(log, t, s, s - 1)
  PROVE  Bracketed(Append(log, StepEnd(t, s)), t) /\ Counted(Append(log, StepEnd(t, s)), t, s, s)
<1> DEFINE e == StepEnd(t, s)
           m == Append(log, e)
           n == Len(log) + 1
<1>0. e \in Events /\ e.type = "step/end" /\ e.step = s /\ e.turn = t
  BY EventTypes DEF StepEnd
<1> HIDE DEF e
<1>1. /\ m # <<>> /\ m[n] = e /\ n \in Nat /\ \A i \in 1..Len(log) : m[i] = log[i]
      /\ \A k : Kind(m, k) = Kind(log, k) \cup {i \in {n} : e.type = k}
      /\ \A k : \A i \in Kind(log, k) : i \in 1..Len(log) /\ i < n /\ m[i] = log[i]
      /\ \A i \in 1..Len(log) : Earlier(m, i) = Earlier(log, i)
  BY <1>0, AppendKinds
<1> HIDE DEF m, n
<1>2. \A k \in {"turn/start", "turn/end", "step/start"} : Kind(m, k) = Kind(log, k)
  BY <1>0, <1>1
<1>3. Ends(m) = Ends(log) \cup {n} /\ Starts(m) = Starts(log)
  BY <1>0, <1>1, <1>2 DEF Starts, Ends
<1>4. \A i \in Starts(log) \cup Ends(log) : i \in 1..Len(log) /\ i < n /\ m[i] = log[i]
  BY <1>1 DEF Starts, Ends
<1>5. OpensTurn(m, t)
  BY <1>1, <1>2 DEF Bracketed, OpensTurn
<1>6. ClosesTurn(m, t)
  BY <1>2 DEF Counted, ClosesTurn
<1>7. StepsInOrder(m, t)
  <2> SUFFICES ASSUME NEW i \in Starts(log)
               PROVE  /\ m[i] = StepStart(t, Cardinality(Earlier(m, i)) + 1)
                      /\ \A k \in Earlier(m, i) : \E x \in Ends(m) : k < x /\ x < i /\ m[x] = StepEnd(t, m[k].step)
    BY <1>3 DEF StepsInOrder
  <2>1. Earlier(m, i) = Earlier(log, i) /\ m[i] = log[i] /\ Earlier(log, i) \subseteq Starts(log)
    BY <1>1, <1>4 DEF Earlier
  <2> QED
    BY <1>3, <1>4, <2>1 DEF Bracketed, StepsInOrder
<1>8. EndsMatch(m, t)
  <2>1. PICK k \in Starts(log) : log[k].step = s
    BY DEF Counted
  <2>2. k < n /\ m[k].step = m[n].step /\ m[n].turn = t
    BY <1>0, <1>1, <1>4, <2>1
  <2>3. \A i \in Ends(log) : \E j \in Starts(m) : j < i /\ m[j].step = m[i].step /\ m[i].turn = t
    BY <1>3, <1>4 DEF Bracketed, EndsMatch
  <2> QED
    BY <1>3, <2>1, <2>2, <2>3 DEF EndsMatch
<1>9. ClosedUpTo(m, t, s)
  <2> SUFFICES ASSUME NEW k \in Starts(log)
               PROVE  \E x \in Ends(m) : k < x /\ m[x] = StepEnd(t, m[k].step)
    BY <1>3 DEF ClosedUpTo
  <2>1. log[k].step \in 1..s /\ m[k] = log[k] /\ k < n
    BY <1>4 DEF Counted
  <2>2. CASE log[k].step = s
    BY <1>1, <1>3, <2>1, <2>2 DEF e
  <2>3. CASE log[k].step <= s - 1
    <3>1. PICK x \in Ends(log) : k < x /\ log[x] = StepEnd(t, log[k].step)
      BY <2>3 DEF Counted, ClosedUpTo
    <3> QED
      BY <1>3, <1>4, <2>1, <3>1
  <2> QED
    BY <2>1, <2>2, <2>3
<1>10. Cardinality(Ends(m)) = s /\ Cardinality(Starts(m)) = s
  <2>1. n \notin Ends(log) /\ IsFiniteSet(Ends(log)) /\ Cardinality(Ends(log)) = s - 1
    BY <1>1, <1>4, KindsFinite DEF Counted, Ends
  <2>2. Cardinality(Ends(log) \cup {n}) = (s - 1) + 1
    BY <2>1, FS_AddElement
  <2> QED
    BY <1>3, <2>2 DEF Counted
<1>11. /\ \A k \in Starts(m) : m[k].step \in 1..s
       /\ \A j \in 1..s : \E k \in Starts(m) : m[k].step = j
  BY <1>3, <1>4 DEF Counted
<1> QED
  BY <1>1, <1>2, <1>5, <1>6, <1>7, <1>8, <1>9, <1>10, <1>11 DEF Bracketed, Counted, m, e

\* turn/end over closed steps ends the turn.
LEMMA TurnEndCloses ==
  ASSUME NEW log \in Seq(Events), NEW t \in Nat, NEW s \in Nat, NEW r \in Endings,
         Bracketed(log, t), Counted(log, t, s, s)
  PROVE  Bracketed(Append(log, TurnEnd(t, r)), t)
<1> DEFINE e == TurnEnd(t, r)
           m == Append(log, e)
           n == Len(log) + 1
<1>0. e \in Events /\ e.type = "turn/end" /\ e.turn = t
  BY EventTypes DEF TurnEnd
<1> HIDE DEF e
<1>1. /\ m # <<>> /\ m[n] = e /\ Len(m) = n /\ \A i \in 1..Len(log) : m[i] = log[i]
      /\ \A k : Kind(m, k) = Kind(log, k) \cup {i \in {n} : e.type = k}
      /\ \A k : \A i \in Kind(log, k) : i \in 1..Len(log) /\ i < n /\ m[i] = log[i]
      /\ \A i \in 1..Len(log) : Earlier(m, i) = Earlier(log, i)
  BY <1>0, AppendKinds
<1> HIDE DEF m, n
<1>2. \A k \in {"turn/start", "step/end", "step/start"} : Kind(m, k) = Kind(log, k)
  BY <1>0, <1>1
<1>3. Ends(m) = Ends(log) /\ Starts(m) = Starts(log) /\ Kind(m, "turn/end") = {n}
  BY <1>0, <1>1, <1>2 DEF Starts, Ends, Counted
<1>4. \A i \in Starts(log) \cup Ends(log) : i \in 1..Len(log) /\ m[i] = log[i]
  BY <1>1 DEF Starts, Ends
<1>5. OpensTurn(m, t)
  BY <1>1, <1>2 DEF Bracketed, OpensTurn
<1>6. ClosesTurn(m, t)
  BY <1>0, <1>1, <1>3 DEF Counted, ClosesTurn
<1>7. StepsInOrder(m, t)
  <2> SUFFICES ASSUME NEW i \in Starts(log)
               PROVE  /\ m[i] = StepStart(t, Cardinality(Earlier(m, i)) + 1)
                      /\ \A k \in Earlier(m, i) : \E x \in Ends(m) : k < x /\ x < i /\ m[x] = StepEnd(t, m[k].step)
    BY <1>3 DEF StepsInOrder
  <2>1. Earlier(m, i) = Earlier(log, i) /\ m[i] = log[i] /\ Earlier(log, i) \subseteq Starts(log)
    BY <1>1, <1>4 DEF Earlier
  <2> QED
    BY <1>3, <1>4, <2>1 DEF Bracketed, StepsInOrder
<1>8. EndsMatch(m, t)
  BY <1>3, <1>4 DEF Bracketed, EndsMatch
<1> QED
  BY <1>5, <1>6, <1>7, <1>8 DEF Bracketed, m, e

\* The invariant over the driver's own variables.
BracketInvariant == (turnLog # <<>> => Bracketed(turnLog, turn)) /\ LogFollows

LEMMA BracketStep ==
  ASSUME TypeOK, DriverInvariant, BracketInvariant, [Next]_vars
  PROVE  BracketInvariant'
<1>0. turnLog \in Seq(Events) /\ turn \in Nat /\ step \in Nat
  BY DEF TypeOK, PhaseTypeOK
<1>1. /\ pc \in Inside => Bracketed(turnLog, turn) /\ Counted(turnLog, turn, step, step)
      /\ pc \in InStep => Bracketed(turnLog, turn) /\ step >= 1 /\ Counted(turnLog, turn, step, step - 1)
  BY DEF BracketInvariant, LogFollows, Counted
<1>2. CASE Silent
  <2>1. turnLog' = turnLog /\ turn' = turn
    BY <1>2 DEF Silent
  <2>2. LogFollows'
    BY <1>2 DEF Silent, BracketInvariant, LogFollows
  <2> QED
    BY <2>1, <2>2 DEF BracketInvariant
<1>3. ASSUME NEW e \in Events, Notes(e) PROVE BracketInvariant'
  <2>1. CASE pc \in Inside /\ pc' \in Inside
    <3>1. Bracketed(turnLog', turn) /\ Counted(turnLog', turn, step, step)
      BY <1>0, <1>1, <1>3, <2>1, NoteKeeps DEF Notes
    <3> QED
      BY <1>3, <2>1, <3>1 DEF Notes, BracketInvariant, LogFollows, Inside, InStep
  <2>2. CASE pc \in InStep /\ pc' \in InStep
    <3>0. step - 1 \in Nat /\ step >= 1
      BY <1>0, <1>1, <2>2
    <3>1. Bracketed(turnLog', turn) /\ Counted(turnLog', turn, step, step - 1)
      BY <1>0, <1>1, <1>3, <2>2, <3>0, NoteKeeps DEF Notes
    <3> QED
      BY <1>3, <2>2, <3>0, <3>1 DEF Notes, BracketInvariant, LogFollows, Inside, InStep
  <2> QED
    BY <1>3, <2>1, <2>2 DEF Notes
<1>4. CASE OpensIt
  <2>1. step' = 0 /\ pc' = "boundary" /\ turnLog' = <<TurnStart(turn')>> /\ turn' \in Nat
    BY <1>0, <1>4 DEF OpensIt, BracketInvariant, LogFollows
  <2>2. Bracketed(turnLog', turn') /\ Counted(turnLog', turn', 0, 0)
    BY <2>1, TurnStartOpens
  <2> QED
    BY <2>1, <2>2 DEF BracketInvariant, LogFollows, Inside, InStep
<1>5. CASE OpensStep
  <2>1. Bracketed(turnLog', turn) /\ Counted(turnLog', turn, step + 1, step)
    BY <1>0, <1>1, <1>5, StepStartOpens DEF OpensStep, Inside
  <2>2. step' = step + 1 /\ step' - 1 = step /\ step' >= 1 /\ pc' = "stepOpen" /\ turn' = turn
    BY <1>0, <1>5 DEF OpensStep
  <2> QED
    BY <2>1, <2>2 DEF BracketInvariant, LogFollows, Inside, InStep
<1>6. CASE ClosesStep
  <2>1. Bracketed(turnLog', turn) /\ Counted(turnLog', turn, step, step)
    BY <1>0, <1>1, <1>6, StepEndCloses DEF ClosesStep, InStep
  <2>2. step' = step /\ pc' = "stepClosed" /\ turn' = turn
    BY <1>6 DEF ClosesStep
  <2> QED
    BY <2>1, <2>2 DEF BracketInvariant, LogFollows, Inside, InStep
<1>7. CASE ClosesIt
  <2>1. Bracketed(turnLog', turn)
    BY <1>0, <1>1, <1>7, TurnEndCloses DEF ClosesIt, Inside
  <2>2. pc' = "closed" /\ turn' = turn
    BY <1>7 DEF ClosesIt
  <2> QED
    BY <2>1, <2>2 DEF BracketInvariant, LogFollows, Inside, InStep
<1> QED
  BY LoggedStep, <1>2, <1>3, <1>4, <1>5, <1>6, <1>7 DEF Logged

\* A turn's events are bracketed at every moment, not only when it is over: one turn/start
\* first, steps numbered in order and closed one by one, nothing after turn/end.
THEOREM TurnsAreBracketed == Spec => []TurnBracketed
<1>1. Init => BracketInvariant
  BY DEF Init, BracketInvariant, LogFollows, Inside, InStep
<1>2. TypeOK /\ DriverInvariant /\ BracketInvariant /\ [Next]_vars => BracketInvariant'
  BY BracketStep
<1>3. BracketInvariant => TurnBracketed
  <2> SUFFICES ASSUME turnLog # <<>>, Bracketed(turnLog, turn) PROVE TurnBracketed
    BY DEF BracketInvariant, TurnBracketed
  <2> QED
    BY
       DEF Bracketed, OpensTurn, ClosesTurn, StepsInOrder, EndsMatch, Earlier, Starts, Ends, Kind,
           TurnBracketed, Of
<1> QED
  BY <1>1, <1>2, <1>3, DriverInvariantHolds, PTL DEF Spec
=============================================================================
