# Verification of the agent harness

TLA+ models of the core of this repository, the TLC runs that check them on
small instances, and TLAPS proofs of all their safety properties for any
instance. Paths are relative to `src/packages/`.

The harness runs language-model agents. An *agent* owns a *session*, an
append-only log of events. User input waits in an *inbox*; a *driver* claims it
in *turns*, each a series of *steps*: one model request, its streamed reply,
and the tool calls the reply asks for. Everything is logged, a write-behind
controller makes the log durable, and a crashed session is repaired when it is
opened again. Tools may leave *background jobs* behind, whose ends are reported
to the agent.

Everything in one process runs on one JavaScript thread. A model's action is
therefore one stretch of code between two places where other code can run: an
`await`, a live notification whose listeners may call back, or a `session.append`
whose observers may abort the activity.

## Inventory

| component | state | operations | who it talks to | what is hard | what makes it correct |
|---|---|---|---|---|---|
| turn/step driver, `core/agent-loop/src/agent.ts` | phase (idle, maintenance, running), abort controller, latched wake, turn and step number | `send`, `cancel`, `runMaintenance`, `whenIdle`, `wakeDriver`; `kick`, `turn`, `preStep`, `step` | claims from the inbox, appends to the session, runs the tool scheduler, calls waterfalls and listeners that may call back | wakes racing a cancellation or the driver's retirement, an abort during any await, a throw with a step open, reentrant listeners, disposal | turns never overlap and are always closed; nothing opens after an abort; no message is lost or run twice; a cancelled activity ends and a latched wake runs |
| inbox, `core/agent/src/inbox.ts`; consumed work, `consumed-work.ts` | two pending lists, a projection of the log | `append`, `prepend`, `replace`, `remove`, `splice`, `clear`, `claim`; replay; `foldConsumedWork` | written by callers and the driver; rebuilt from the log | clamped coordinates, ids across two lists, restart from any prefix, forks | replay gives the live lists; nothing is pending twice; the account names the last turn over work |
| tool-call scheduler, `core/agent-loop/src/tool-calls.ts` | group, slots, pool of running bodies, commit position | `executeToolCalls`, `runGroup` (`fillPool`, `startCall`, `commitReady`) | called by a step; appends call and result events; policies and bodies are plugins | bodies settling in any order, modes that change, abort or failure at any await | results in model order; every call answered; a bounded pool; exclusive calls alone; a failure drains |
| write-behind, `session/session-persistence/src/write-behind.ts` | queue, timer, active write, barrier | `enqueue`, `flush`, `cancelAutomaticWait`; deadline and continuations | fed by the session, writes through the coordinator to a backend | a deadline or a flush overlapping a write that fails | stored log is an in-order prefix; a resolved flush means durable; no event without an owner |
| crash repair, `core/session/src/repair.ts`; log rules, `core/session/src/invariant.ts`; `session/session-checkpoint-policy` | the log | `interruptedTurnClosers`, `validateEvent`, the three barriers | run by the coordinator when a session is opened; the barriers hold back requests and tool bodies | a crash at any point, in the repair too | the repaired log is legal and complete; no call whose body ran is called not started; no request is forgotten |
| job registry, `jobs/jobs-local/src/index.ts` | job records, waiter counts, owner cleanups | `start`, `read`, `kill`, `wait`, `settle`, both teardowns | producers settle promises; listeners turn ends into inbox messages | a timeout or abort in the tick of the settlement, throwing cancels | an end is told once; limits hold; teardown ends |
| persistence coordinator, `session/session-persistence/src/coordinator.ts` | per-session state and owner, per-session queues, retirements, live write-behind controllers | `create`, `append`, `prepare`, `load`, `inspect`, `flush`; reactions to a session's creation, events and detachment | owns the write-behind controllers and the preparations; called by resume, by the API proxy for detached sessions | every operation awaits the backend between a check and its use; retirement against prepare; a foreign process | at most one owner, holding what is stored; nothing acknowledged is lost; a repair happens once; reads are not stale |
| session preparations, `session/session-persistence/src/preparations.ts` | one entry per session: loading, ready, committing, reserved; readers; waiters in turn | `inspect`, `reserve`, `release`, `invalidate`, `reservationFor` | used by the coordinator only | an entry invalidated, evicted or aborted while others wait on it | a reservation is exclusive and current; no waiter is forgotten |
| agent service, `core/agent-loop/src/index.ts`; registry, `core/agent/src/index.ts`; store, `core/session/src/index.ts` | tracked teardowns, startup tasks, the two registries, each attempt's signal and memoized teardown | `create`, `createAgent`, `resume`, configured start, handle `dispose`; `enter`, `announce`, detach | mints the driver and its scope, loads through persistence, followed by the caller's fiber and its own | listeners that veto, abort or unload in the middle of a publication; loads and setups that never settle; two calls for one id | rollback leaves nothing behind; a published agent stays registered until its own teardown; an unload ends |

`PROJECT.json` lists every other subsystem of `docs/subsystems` with the reason it
is not modelled: transport, I/O, user interface and text assembly have no
interleaving that these models would say anything about; subagents, schedule,
goal, approval, storage, settings, compaction, retry and workflow have, and are
in the plan. Its `hazards` list is what the properties below are for.

## Modules

| module | models | checked by |
|---|---|---|
| `AgentLoop` | the driver | runs `agent_loop*`, proofs in `AgentLoopProofs` |
| `AgentInbox` | inbox and consumed work | `inbox`, proofs in `AgentInboxProofs` |
| `ToolCalls` | the tool-call scheduler | `tool_calls`, proofs in `ToolCallsProofs` |
| `DurableLog` | abstract: what persistence of a live session promises | refined by the next |
| `SessionWriteBehind` | the write-behind controller under the coordinator's flush and seed | `write_behind`, proofs in `SessionWriteBehindProofs` |
| `SessionRecovery` | events, barriers, crash, repair, reopening | `recovery`, proofs in `SessionRecoveryProofs` |
| `JobRegistry` | background jobs | `jobs`, proofs in `JobRegistryProofs` |
| `SessionCoordinator` | the coordinator with the preparations, over storage another process may write | `coordinator`, `coordinator_cold_append`, invariants in `SessionCoordinatorInvariants`, proofs in `SessionCoordinatorProofs` |
| `AgentLifecycle` | creation, resumption, publication and teardown of an agent | `lifecycle`, `lifecycle_owner`, proofs in `AgentLifecycleProofs` |

Each `MC*` module gives its constants as model values. Definitions whose comment starts with
"Mutant" are not part of a model: they are the wrong variants with which
`PROJECT.json` shows that each property can fail.

### AgentLoop

`phase`, `abort`, `wakeRequested`, `turn`, `step` are the fields of `Phase`; `pc`
says at which await, notification or append the driver is; `frames` are the calls
of `wakeDriver` still on the stack below a notification. Callers (`Send`,
`UserCancel`, `RemovePending`, `RunMaintenance`, `Dispose`) run whenever the
driver is suspended or notifies; observers of an append may only abort. `Driver`
is the code of `kick`, `turn`, `preStep` and `step` piece by piece; the outcomes of
waterfalls, streams and tool batches are chosen with `\E`. `turnLog` holds the
events of the current turn.

Abstractions: the content of messages and requests; failing `session.append`
calls (the session accepts what the driver appends); reentrancy deeper than
`MaxNesting`; listeners of the discard notifications inside `clear()`; callers
after the disposal has drained. A wake that falls between the last pending check
of a turn and the retirement of its driver, a few promise reactions apart with no
foreign code, is taken after the retirement. `session.append` is not reentrant
(`core/session/src/index.ts:634`), which is why observers cannot send.

### AgentInbox

`inbox` is the live projection, `log` the recorded splices with the turn and step
events `foldConsumedWork` reads, `seedLength` a fork's inherited prefix. Every
public mutation goes through `Mutate`, which clamps as `splice` does, validates,
appends, then applies. `Restart(n)` is a new process over any prefix of the log.
The arguments of a call (`Starts`, `Counts`, `Inserts`) are constants: any integers
and any sequences of messages for the proofs, at most one inserted
message in the run. Notifications are left out.

### ToolCalls

Calls are `1..N`. The scheduler's `pc` follows `executeToolCalls` and
`runGroup`; `BodySettles` is any running body. A mode is read at `Classify` for the
group and again in `MayJoin`, each time with a free answer. The signal is aborted
at any await; between two awaits only an observer of an append can abort it.
`maxParallelToolCalls >= 1` is validated where it is configured
(`core/agent-loop/src/index.ts:134`).

### SessionWriteBehind and DurableLog

`DurableLog` says: events become durable in the order they were admitted, each
once; a flush is acknowledged only when everything is durable; a crash forgets
what is not. `SessionWriteBehind` has the controller's fields, the backend's
outcome for each write, the promise continuations as queued jobs
(`continuation`), and around it the coordinator's `flush`, which first awaits
initialization, and the seed that initialization stores. Its variables
`admitted`, `stored` and `acknowledged` are the refinement mapping. A backend
write is all or nothing. A failed automatic write pauses until the next event or
flush, by design; `EventuallyStored` exempts it.

### SessionRecovery

The agent appends the boundary, message and tool events of turns; `Persist` makes
longer prefixes durable; the three barriers of the checkpoint policy are guards
on what is durable. `Crash(n)` keeps any prefix that includes the durable
one. `Closers` is `interruptedTurnClosers`; `CommitRepair` appends them, and
`CrashInRepair` only some of them, since `commitRepair` need not be atomic.
`Trace` is `validateEvent` over a whole log. Assumed: the policy is mounted, as the
first-party compositions do; call ids are distinct within a message; one process
at a time. Of the barrier before a body the model keeps what the properties
need, that the call itself is durable; the policy flushes the whole log. Chunk, user and header events are left out. Calls of a step that was
*closed* after a scheduler failure stay unanswered by design, so
`RepairComplete` speaks of the open step.

### JobRegistry

A job's record, the call of each waiter and the two teardowns. `settle` is one
action, and a released waiter resumes in a later one, so a timeout, an abort and a
settlement interleave as promise reactions do. The registry is withdrawn from
consumers when its teardown begins, so nothing starts during it. Output, labels,
the caller fence and listener layers are left out; `notices` records the ends
announced as unreported.

### SessionCoordinator

One session id. `stored` is the backend's artifact, whose content stands for
its revision; `state` the coordinator's record of it (cursor, owner); `entry` the
preparations' entry with its generation and reservation; `chain` the jobs behind
`serialize`, of which the running one is cut at each of its awaits (`LoadStart`/`LoadEnd`, `CommitStart`/`CommitEnd`, `AppendStart`/`AppendEnd`, ...).
A caller is one call of `prepare`, `load`, `inspect` or `create`, or the API
proxy's model switch of a detached child (inspect, then append). Sessions are
created or resumed, bound by `attachPrepared` or `adoptLivePrefix`, write,
are vetoed, rolled back or retire. A wait for a retirement that fails rejects its
caller (`Rejects`). A cold append prepares the log it adopts (`AppendRead`) and is
refused when its id is live by then; the suffix a resumed session brings is fixed
when it is attached (`Suffix`) and refused when the cursor has moved. An upset is an eviction, an abort, a
reload of the plugin or a write by another process; a fault is a failing backend
call. The write-behind controller is reduced to its drains: `SessionWriteBehind`
has the detail.

A foreign process writes only while no live session or reservation exists here:
the package's README (line 59) says its freshness check "does not add
cross-process writer exclusion", so writing into an open session is outside what
the code promises.
`list` and `readFrom` change nothing and are left out.

Abstractions: a reload happens when the disposer has drained and nothing is
held, so a reload under a held preparation is not explored, nor the disposer's
second flush of a session whose retirement failed; a drain that fails for a
retiring session makes it stuck at once, which is more than fails in the code. The
entry of a commit that failed or has to be read again leaves the pool together with
the end of its job, one promise reaction earlier than in the code.

### AgentLifecycle

One identity. An attempt is one call with its locals: `pc` (waiting, loading,
loaded, minting, setup, the stages of `publish`, failing), the fused abort signal,
`teardown` (the memoized `dispose`: draining, unwinding, detaching, done), the
effects it left with its owner (`follows`), the persistence preparation it asked
for or holds, the driver, and the lifecycle edges announced (`said`). `life` is the
state of the two fibers, `fired` and `joined` are `FactoryOwnership.dispose` and the
snapshot it awaits. A publication is synchronous, but its listeners may veto it
or call back: `stack` holds the runs in progress, reactions wait until it is
empty, public calls do not. A fiber's unload closes it at once and runs its
effects in later reactions, as `src/vendor/cordis/src/fiber.ts` does. A call is
`create`, `createAgent`, `resume`, or the factory's configured start, which
restores an exact id after waiting for it, or else creates it (`config`), or
resumes `resumeSessionId` without waiting (`configResume`). `createAgent` and
`resume` give their caller the handle, which may dispose of the agent.

Abstractions: the driver is idle or busy (`AgentLoop` has the detail; senders
after the teardown began are excluded, as the comment at `index.ts:502` does);
detaches requested inside a creation dispatch, which the factory never makes;
agents registered by others; restart of a fiber; the unwinding of an agent's scope
as a child of the factory's fiber (see Observations).

## Runs

| run | instance | shows |
|---|---|---|
| `agent_loop` | 2 messages, 2 steps per turn, 2 nested wakes, fair | brackets (`TurnBracketed`), `NoMessageTwice`, `DriverInvariant`, `TurnsDoNotOverlap`, `AbortOpensNothing`, `CancelConverges`, `LatchedWakeRuns` |
| `agent_loop_teardown` | as `agent_loop` | violated: a disposal after a user cancel does latch a wake |
| `agent_loop_queued` | as `agent_loop` | violated: a live driver may stop over a queued prompt |
| `inbox` | 2 messages, 5 events | `ReplayIsLive`, `WorkAccounted`, `PendingOnce` |
| `tool_calls` | 3 calls, pool of 2, fair | `ModelOrder`, `EveryCallAnswered`, `FailureDrains`, `ExclusiveAlone`, `AbortStartsNothing`, `Terminates` |
| `write_behind` | 4 events, seed of 2, 2 flushes, 1 crash, fair | `NothingLost`, `WorkHasOwner`, `ImplementsDurableLog`, `BarrierSettles`, `EventuallyStored` |
| `recovery` | 2 turns, 2 steps, 2 calls, 2 crashes | `LogValid`, `RepairComplete`, `RepairResumes`, `RanNotDenied`, `RequestsKept` |
| `jobs` | 2 jobs, 2 waits, 1 agent, limit 1, fair | `NotToldTwice`, `NotLost`, `TeardownEnds` |
| `coordinator` | 2 callers of any operation, 1 live session at a time, 2 events, 1 upset, 1 fault | `ReservedIsCurrent`, `AckedIsStored`, `NoStaleRead`, `ClosedOnce`, `OwnerPresent`, `WaitersAwaited` |
| `coordinator_cold_append` | 2 callers of prepare and of the model switch | violated: a cold append overtakes a resumption |
| `lifecycle` | 2 calls of any kind for one identity, fair | `NothingLeftBehind`, `LiveIsRegistered`, `UnloadIsFinal`, `UnloadEnds` |
| `lifecycle_owner` | 1 call | violated: an owner unloaded after a handle-first disposal ends before the agent has left the registries |

`agent_loop` also checks the type invariant that the proofs use.

The four violated properties are sentences of the repository (quoted in
`findings`) that the code does not keep. The first makes a disposal wait for one
more turn; the second leaves a prompt queued until the next wake; in the third a
model switch that found its child detached is appended after the child was
resumed, takes the sequence number of the live session's next event, and that
event is dropped by a flush that succeeds. In the fourth the owner's lifecycle
effect finds a teardown that the handle began and returns at once
(`core/agent-loop/src/index.ts:527`), so the owner is gone while its agent still
drains; `UnloadIsFinal` therefore promises an owner only the teardowns it began.

### Observations

Read off the code and the models while they were written, without a run of
their own:

- On an unload of the factory each agent's scope, a child of its fiber, is
  unwound beside the ordered teardown and may be gone before the driver has
  stopped; `core/agent-loop/README.md:17` gives the order stop, unwind, detach.
  `core/agent/README.md:45` and the comment at `index.ts:494` put the scope last,
  which the code does not do either.
- `waitForDrainingConfiguredIdentity` waits for any occupant; the comment at
  `index.ts:432` says a healthy one is a collision that surfaces. And the
  `persistence.list()` of a configured start is not raced against teardown:
  `UnloadEnds` needs it to settle.
- `prepare` and `load` of the coordinator read the retirement one reaction
  before they check the live sessions; a detach in between lets a call overtake
  the retirement. The call, or the retiring drain, is then refused with an error.
- `docs/agent-lifecycle.md:76` says recovery from a failed request works after
  the failed step is closed; the code runs it inside the open step (`agent.ts:374`).
- Between the last pending check of a turn and the driver's retirement
  (`agent.ts:324`) a wake starts nothing; only promise reactions lie between them.

### Bounds

- Two messages give a turn in progress and one that races it; each is sent
  once, so a turn number is bounded by them. Two steps show a step after a step.
  Two nested wakes show a latch made below another.
- Three calls over a pool of two: a full pool, a call waiting for it, and a group
  boundary before, between or after them.
- Four events: one stored, one in the batch, one queued and one arriving. The
  second flush joins the first or follows it.
- Two crashes: one in a turn and one in its repair, or in the next turn.
- Five events in the inbox's log cover an insertion, a turn with a claim and its
  end, and one more mutation; the coordinates lie before, in and beyond a list of
  two.
- Two jobs with a limit of one: one is refused because of the other. Two waits:
  one times out or aborts while the other is released.
- Two callers in the coordinator: one holds, commits or waits, the other
  overtakes, aborts or reads. One live session at a time already gives owner
  against caller, retirement against prepare, and a session created under a
  retiring one; the branch in which a second live session reclaims the first
  one's state needs two and does not occur. Instances with two sessions (without
  upsets, or with one event) take longer than the run allows; they were explored
  separately without a violation, and so were three callers that prepare, inspect
  and switch the model without upsets, the least in which a cold append moves the
  cursor before the suffix of a resumed session is written.
- Two calls for one identity: a winner and a loser, an occupant and a
  configured start that waits for it, a call made by another's listener.

The proofs lift all of these bounds for the safety properties, so they also cover
what the coordinator's run does not reach, such as a second live session that
reclaims the first one's state. For liveness the bounds stand.

Deadlock is not checked where a system may come to rest: all messages sent, all
calls answered, the bound on events reached.

### Fairness

Weak fairness only, of steps that the event loop or a promise owes:

- `AgentLoop`: the driver's awaits (hooks, request, stream, tools) and
  maintenance jobs settle. The code passes the abort signal to each and cannot end a
  turn whose plugin ignores it. Callers owe nothing.
- `ToolCalls`: the scheduler's own awaits and each body settle.
- `SessionWriteBehind`: queued continuations run, an armed timer fires, a write
  and the initialization settle either way. Nothing says a write succeeds.
- `AgentLifecycle`: the thread goes on, `list` and a scope's disposal settle, a
  cancelled driver comes to rest (which `CancelConverges` shows). Nothing is
  assumed of a load, a setup or a late preparation.
- `JobRegistry`: a producer whose `cancel` returned settles; the code names this
  assumption at `cancelForTeardown`. One whose `cancel` threw owes nothing.

## Proofs

Each `*Proofs` module extends its component and proves the component's safety
properties for every value of the constants. Its assumptions are the `ASSUME`s of
the component, which TLC evaluates on every run; they say only that bounds are
numbers, and what is named below. In each module the properties rest on one
inductive invariant, because none of them is inductive alone; TLC checked
every part of it on the run's instance before it was proved. One lemma per part
and action shows that the part survives, or that the action changes nothing the
part speaks of; the temporal theorem then combines them.

| module | theorem | statement: `Spec` implies |
|---|---|---|
| `AgentLoopProofs` | `DriverInvariantHolds` | `[](TypeOK /\ DriverInvariant)` |
| | `TypeCorrect` | `[]TypeOK` |
| | `IdleLogIsClosed` | whenever no driver runs, the last turn of the log is closed |
| | `LatchNeedsCancel` | a running driver holds a latch only under a user's cancellation |
| | `TurnsNeverOverlap`, `AbortedOpensNothing` | `TurnsDoNotOverlap`, `AbortOpensNothing` |
| | `NoMessageRunsTwice` | `[]NoMessageTwice` |
| | `TurnsAreBracketed` | `[]TurnBracketed` |
| `AgentInboxProofs` | `InboxInvariantHolds`, `TypeCorrect` | `[]InboxInvariant`, `[]TypeOK` |
| | `ReplayAlwaysLive` | `[]ReplayIsLive` |
| | `NeverPendingTwice` | `[]PendingOnce` |
| | `WorkIsAccounted` | `[]WorkAccounted` |
| `ToolCallsProofs` | `TypeCorrect` | `[]TypeOK` |
| | `ExclusiveRunsAlone` | `[]ExclusiveAlone` |
| | `AbortStops` | `AbortStartsNothing` |
| | `PoolStaysBounded` | at most `MaxParallel` bodies run |
| | `RecordedInModelOrder` | `[]ModelOrder` |
| | `ReturnsWhenAnswered`, `FailsWhenDrained` | `[]EveryCallAnswered`, `[]FailureDrains` |
| `SessionWriteBehindProofs` | `QueueIsOwned` | `[]WorkHasOwner` |
| | `NoEventLost` | `[]NothingLost` |
| | `WriteBehindRefinesDurableLog` | `ImplementsDurableLog` |
| `SessionRecoveryProofs` | `RecoveryInvariantHolds`, `TypeCorrect` | `[]RecoveryInvariant`, `[]TypeOK` |
| | `LogStaysValid` | `[]LogValid` |
| | `RepairIsComplete`, `RepairIsResumable` | `[]RepairComplete`, `[]RepairResumes` |
| | `RanNeverDenied`, `RequestsNeverTakenBack` | `[]RanNotDenied`, `[]RequestsKept` |
| `JobRegistryProofs` | `TypeCorrect` | `[]TypeOK` |
| | `ToldOnce`, `NoEndLost` | `[]NotToldTwice`, `[]NotLost` |
| | `TeardownComplete` | after a teardown no job of its owner is left running |
| | `LimitKept` | an owner never has more live jobs than `Limit` |
| `AgentLifecycleProofs` | `TypeCorrect` | `[]TypeOK` |
| | `AlwaysRegistered` | `[]LiveIsRegistered` |
| | `LeavesNothing` | `[]NothingLeftBehind` |
| | `UnloadFinal` | `[]UnloadIsFinal` |
| `SessionCoordinatorProofs` | `InvariantHolds`, `TypeCorrect` | `[]CoordinatorInvariant`, `[]TypeOK` |
| | `WaitersAreAwaited` | `[]WaitersAwaited` |
| | `ReservedStaysCurrent` | `[]ReservedIsCurrent` |
| | `OwnerIsPresent` | `[]OwnerPresent` |
| | `LedgerHolds` | `[]Ledger` |
| | `TurnsAreClosedOnce` | `[]ClosedOnce` |
| | `AcknowledgedIsStored` | `[]AckedIsStored` |
| | `NoReadIsStale` | `[]NoStaleRead` |

### AgentLoop

From `RuntimeContextAssumption` (the runtime context is not a user's message) and
`BoundsAssumption`. `DriverInvariant` has five parts:

- `DriverHasPhase`: the running phase is held exactly as long as a driver exists.
  Without it a wake could start a second driver.
- `EndingKnown`: a turn that is being left has an ending. `TypeOK` needs it: a
  `turn/end` with the initial null is not an event.
- `ClosedBetweenTurns`: a driver outside a turn left a closed one behind. It gives
  `IdleLogClosed` and `TurnsDoNotOverlap`.
- `AbortedSendMeetsAbort`: a `wakeDriver` call that saw a cancelled activity, and
  is still on the stack, will meet that same activity. It is what makes the
  latch it then sets legitimate.
- `LatchOnlyAfterCancel`, which rests on the previous part.

`AbortOpensNothing` follows from `AbortStep`: the actions that append `turn/start`
or `step/start` have the code's `throwIfAborted` as a guard. `NoMessageTwice` says
of four lists, the inbox's two, the claimed batch and the transcript, that
together they hold a message once and only if it was sent; every action is one
of five moves between them (a message enters, is discarded, removed, claimed, or
becomes part of the transcript), and each kind of move has its lemma.
`TurnBracketed` needs `LogFollows`, which ties the open brackets of the turn's
log to the driver's `pc`.

### AgentInbox

From `EventsAssumption` and `ArgumentsAssumption` (a start and a count are
integers, an insertion is a sequence of messages). Since a process may restart
over any prefix of the log, `InboxInvariant` speaks of the log and of every
prefix at least as long as the seed: turns are numbered upwards, an end follows
its start, replaying the prefix gives lists in which nothing is twice, and
`foldConsumedWork` over it gives the account that `WorkAccounted` names. Then the
live lists are those of the whole log. The lemmas give what the replay and the
fold do with one more event of each kind.

### ToolCalls

From `CallsAssumption` and `PoolAssumption` (both positive). `GroupShape` orders the
committed, the started and the open calls of a group; `BarriersAlone`: a call
started as a barrier is of an earlier group or the only one of this;
`FillSeesAbort`: where a call is about to start, the group has seen an abort;
`CommitsKeepUp`: a failure the scheduler has not acted on is that of a settled
call, and without one a started call is running or has its slot;
`RecordInvariant`: the log holds records of started calls and results of
committed ones, in model order. The answers given after an abort are written as
a closed form, `Skipped`, instead of the code's loop.

### SessionWriteBehind

From `BoundsAssumption`. `WorkInvariant` (`ControlOK`, `BarrierShape`,
`RejectionPauses`, `OwnerBehindWrite`) relates the controller's fields: which
combinations of timer, write, barrier and queued continuation occur, so that a
queue with events always has one that will take them, or a recorded pause.
`EventsPlaced` says that stored, batch and queue are adjacent pieces of the
admitted events; with it every step is a step of `DurableLog` or stutters. The
refinement is of `DurableLog`'s safety part, which is all it has.

### SessionRecovery

From `CallsFinite` and `BoundsAssumption`. `RecoveryInvariant` says of every
prefix of the log (`LogGood`), because a crash may leave any: what the scan of
`repair.ts` finds open is what the rules of `invariant.ts` have open (`Agree`),
numbers increase, a result cites a call of its step, a call is answered once, and
none whose body ran is denied. With it, `RanIsDurable` and `AskedIsDurable` say
what the barriers have made durable before a body runs and a request leaves. Each
kind of event has a lemma that it keeps a log good; the repair is followed one
closer at a time (`CloseOne`, then `RepairSteps`), so the same lemmas also serve
a crash in the middle of a repair.

### JobRegistry

From `UnownedAssumption`, `LimitAssumption` and `JobsAssumption` (there is a
job id). `RegistryInvariant` adds to the types: a pending wait is for a running job
and a released one for an ended one (`WaitsFollowJobs`); only ended jobs are
announced, and none that a wait will return (`AnnouncedOrTaken`); a report
claimed before the end was claimed by who asked for the end
(`ClaimedEarlyIsKilled`). `TeardownCollects` (a teardown has every running job of
its owner in its list) gives `TeardownComplete`, and `LimitKept` counts: only
`Start` adds to an owner's active jobs.

### AgentLifecycle

From `MaxAttemptsAssumption`. `LifecycleInvariant` fixes which attempts are on the
publication stack and in which order, what a teardown's stage says about
registries, followers and preparation (`TeardownShape`, `Registered`, `Followed`,
`Collected`), and which edges have been announced (`SaidShape`).

### SessionCoordinator

From `OpsAssumption`, `CallersFinite` (finitely many calls, so that a new entry has an
identity nobody uses: `NewGenIs`) and `BoundsAssumption`. `CoordinatorInvariant` is

- `PoolOK`, which relates the entry, the callers, the queue and the sessions.
  `JobOK` and `PairOK` say whose each queued job is, where its caller or session
  stands, and what cannot be queued together: nothing that binds the log is
  behind the load of the pool's entry, so an entry that has been read meets only
  the commit of the caller that has it. `Loads` and `Turns` say that who waits has
  a job or a holder to wait for, and that an entry has one holder. These give
  `WaitersAwaited`;
- `RunningShape` and `HeldIsStored`: no entry is reserved while the running job
  writes, a commit that found its source current still does, and what is reserved
  is what is stored. `Frame` states what every step that is no job's leaves alone;
  the jobs are followed one by one. With `Turns` they give `ReservedIsCurrent`;
- `NoLiveWithEntry`, `InitShape`, `OwnerShape`: no session is live beside an entry,
  and one on its way out then is on record in `raced`; an owner has acknowledged
  nothing above the cursor, and one whose initialization failed met a fault or a cold
  append. They make `OwnerPresent` inductive: the flush of an owner can fail
  without one of these only against a held entry, which is a resume that overtook
  the retirement.

The lemmas `PoolPop`, `PoolPush`, `PoolLeave`, `PoolFree` and their like say what one
operation on the queue or the pool preserves, over any entry, callers and
sessions; the lemma of an action puts them together in the order of the action.

What is stored needs a second invariant, `Ledger`, inductive relative to the first:

- `Succession` and `Title`: the store has one session of the id; of two queued
  initializations the first is of a session that is no longer live; and an
  initialized session that may still write, or whose suffix is queued, owns the
  log. Without them a retiring session could drain into its successor's log;
- `Found`: what a running job read before its await (no state, the artifact, an
  unclaimed log, a cursor below its batch) is still so after it;
- `Extent`: the artifact exists exactly when it has events, and the cursor of an
  owned log is its end;
- `OldClosers`, `Beginnings`, `Seeded`: no session has a closer that is not stored; a
  session begins with what its holder prepared, or with nothing; only a reloaded
  session has a seed, at the head of the queue and with no state to meet it.

`LedgerMoves` first shows that every step is a `Move`: one of twenty effects on the log,
its state and the sessions (`Repairs`, `Binds`, `Acks`, `Reclaims`, ...), in terms of which
the parts are then preserved one by one. The log only grows (`Adds`), by a cold append, the
closers of a repair, a foreign write, or events of a session that continue it. Only
a repair or a foreign writer adds a closer, right behind the turn that is open, and
the closers a session has are stored already: this gives `ClosedOnce`.

`Agreement` and `Accounts` extend `Ledger` for `AckedIsStored`: while no cold append
raced, an owner's log goes on with the stored one, so what a drain writes above the
cursor is at its place in both (`ContinuesCovers`), and only an owner acknowledges. `Reads`
extends them for `NoStaleRead`: a call's `since` is at most the length of the log,
a queued check is of its caller's source, and a source found current covers what was
stored at the call; `CallsProceed` shows that a call turns stale only by an answer that
misses something (`Misses`), and `NoneMisses` that no answer does. The invariants are in
`SessionCoordinatorInvariants`, apart from their proofs.

### Recursion

`Replay`, `FoldConsumedWork`, `Closers` and `Trace` are recursive functions over a
log. That such a function exists and satisfies its equation is proved from its
definition, and what it computes by taking the least length at which the claim
fails (`LeastOf`, from the well-foundedness of `<` on the naturals), which needs no
induction rule with an operator as a parameter.

### Only model-checked

- Liveness under fairness, out of the prover's reach: `CancelConverges`,
  `LatchedWakeRuns`, `Terminates`, `BarrierSettles`, `EventuallyStored`, `TeardownEnds`,
  `UnloadEnds`.
- The counterexamples of the four violated runs.

## Plan

1. A composition of the scheduler's records with the recovery model, so that
   the events of `SessionRecovery` are those of `ToolCalls`.
2. `tool-jobs` as a client of `JobRegistry`; then subagents, request retry,
   compaction, schedule, goal and approval, in this order.

## Not modelled

The repository is a product of some four hundred thousand lines: user interface,
transport, adapters to models, devices and operating systems, code generation.
These modules cover the core that decides what an agent does, what is remembered
of it and who owns it. `PROJECT.json` gives the reason for each part left out. In
the parts that are modelled, message content, text assembly, wire formats and the
backends' files are abstracted, as said with each module.
