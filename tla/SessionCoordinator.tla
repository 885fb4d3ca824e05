------------------------- MODULE SessionCoordinator -------------------------
(***************************************************************************)
(* The persistence coordinator and its pool of unpublished sessions, for   *)
(* one session id: packages/session/session-persistence/src/coordinator.ts *)
(* and preparations.ts, with the two places that use them on a cold id,    *)
(* resume (packages/core/agent-loop/src/index.ts) and the model switch of  *)
(* a detached child (packages/host/apiproxy/src/api-proxy.ts).             *)
(*                                                                         *)
(* One thread: code is atomic up to its awaits.  Every storage operation   *)
(* of the id runs on one promise chain (serialize), here a queue of jobs   *)
(* whose head is at a stage of its core function.  A queued job starts two *)
(* ticks after its predecessor's end, before whoever awaited that end goes *)
(* on (Started).  The write-behind controller of a live session is the     *)
(* subject of SessionWriteBehind; here it is its acknowledged position.    *)
(* Other ids reach this one only through the LRU of the pool (Evict).      *)
(* Another process may write the log while nobody here writes or has       *)
(* reserved it: the code excludes no foreign writer.                       *)
(***************************************************************************)
EXTENDS Integers, Sequences, FiniteSets

CONSTANTS
  Callers,      \* calls of the service, each made once
  Ops,          \* the methods they may call
  MaxSessions,  \* bound: Session objects published
  MaxEvents,    \* bound: length of a session's log
  MaxUpsets,    \* bound: external writes, evictions, vetoes, failed operations and reloads together
  MaxFaults     \* bound: failed storage operations

ASSUME OpsAssumption == Ops \subseteq {"prepare", "load", "inspect", "switch", "create"}
ASSUME CallersFinite == IsFiniteSet(Callers)
ASSUME BoundsAssumption ==
  {MaxSessions, MaxEvents, MaxUpsets, MaxFaults} \subseteq Nat

\* Events are told apart by who wrote them; a session writes its own number.
Old == 0       \* an event of an earlier lifecycle
Open == -1     \* one that leaves its turn open
Closer == -2   \* a synthetic closing event
Cold == -3     \* a public append to a detached id
Foreign == -4  \* another process
Nobody == 0    \* no session

Sessions == 1..MaxSessions

VARIABLES
  stored,    \* the durable artifact; its content stands for its revision
  state,     \* states.get(id): cursor, materialized, owner
  entry,     \* preparations.entries.get(id)
  chain,     \* the jobs of chains.get(id), the running one first
  retiring,  \* retirements.get(id): the session whose retirement it is
  sess,      \* each Session object
  call,      \* each call
  upsets,    \* how many of them so far
  faults,    \* the faults among them
  raced      \* history: "append", a cold append was written under an owner or at a cursor that
             \* was not the log's end, or is found to be; "resume", a resume overtook a retirement

vars == <<stored, state, entry, chain, retiring, sess, call, upsets, faults, raced>>

Absent == [made |-> FALSE, log |-> <<>>, torn |-> FALSE]
NoSession == [life |-> "unborn", log |-> <<>>, acked |-> 0, init |-> "none"]
NoState == [there |-> FALSE, cursor |-> 0, made |-> FALSE, owner |-> Nobody]
NoCall == [op |-> "none", pc |-> "idle", gen |-> 0, src |-> Absent, since |-> 0, upto |-> 0,
           awaits |-> Nobody, aborted |-> FALSE, fresh |-> TRUE]
NoEntry == [gen |-> 0, phase |-> "none", src |-> Absent]

State(cursor, made, owner) == [there |-> TRUE, cursor |-> cursor, made |-> made, owner |-> owner]

\* Mutant: the closers of a turn that was opened, closed or not.
ClosersAgain(src) == IF Open \in {src.log[i] : i \in DOMAIN src.log} THEN <<Closer>> ELSE <<>>

\* interruptedTurnClosers, and the balanced view a source gives.
Closers(src) == IF src.log # <<>> /\ src.log[Len(src.log)] = Open THEN <<Closer>> ELSE <<>>
Balanced(src) == src.log \o Closers(src)
NeedsRepair(src) == src.torn \/ Closers(src) # <<>>

\* seedCoversPrefix
Covers(seed, prefix) == Len(prefix) <= Len(seed) /\ \A i \in 1..Len(prefix) : seed[i] = prefix[i]

\* sessions.get(id), and the sessions of the coordinator's live map.
Registered == {k \in Sessions : sess[k].life \in {"entered", "live"}}
Live == {k \in Sessions : sess[k].life \in {"live", "flushing", "cleaning", "stuck"}}
Unborn == {k \in Sessions : sess[k].life = "unborn"}
Life(k, life) == [sess EXCEPT ![k].life = life]
Next1(S) == CHOOSE k \in S : \A l \in S : k <= l
HasWork(k) == sess[k].acked < Len(sess[k].log) \/ \E i \in DOMAIN chain : chain[i].kind = "drain" /\ chain[i].who = k

Job(kind, who) == [kind |-> kind, who |-> who, stage |-> "queued", gen |-> 0, src |-> Absent, upto |-> 0]
Runs(kind, stage) == chain # <<>> /\ chain[1].kind = kind /\ chain[1].stage = stage
AtStage(stage, src) == [chain EXCEPT ![1].stage = stage, ![1].src = src]
Started == chain # <<>> => chain[1].stage # "queued"

\* What the environment may do to a run, a failed storage operation in particular.
Upset == upsets < MaxUpsets /\ upsets' = upsets + 1
Fault == Upset /\ faults < MaxFaults /\ faults' = faults + 1
NoFault == UNCHANGED <<upsets, faults>>

-----------------------------------------------------------------------------
(* The pool.  These give the next value of call: who waits is woken. *)

\* Mutant: an entry leaves the pool and its waiters sleep on.
Forgotten(calls, g) == calls

\* settleReservation: every reserve that awaits it looks again.
Settled(calls, g) ==
  [c \in Callers |-> IF calls[c].pc = "settled" /\ calls[c].gen = g
                     THEN [calls[c] EXCEPT !.pc = "turn"] ELSE calls[c]]

At(c, pc) == [call EXCEPT ![c].pc = pc]

\* A call is over; fresh tells whether its answer, if it was read, was good.
Over(c, pc, fresh) == [call EXCEPT ![c] = [NoCall EXCEPT !.pc = pc, !.fresh = fresh]]
Ended(c) == Over(c, "over", TRUE)
Failed(c) == Over(c, "over", TRUE) \* rejected: no step and no property tells it from resolved

\* Everything stored when the call was made begins the answer.
Answers(c, view) == Covers(view, SubSeq(stored.log, 1, call[c].since))
Current(c) == entry.gen = call[c].gen

\* remove: calls is the rest of the step's effect on the callers.
Remove(calls) == entry' = NoEntry /\ call' = Settled(calls, entry.gen)
RemoveOf(c, calls) == IF Current(c) THEN Remove(calls) ELSE UNCHANGED entry /\ call' = calls
MakeReady(calls) ==
  /\ entry' = [entry EXCEPT !.phase = "ready"]
  /\ call' = Settled(calls, entry.gen)

\* The for (;;) of prepare, load and inspect starts over, unless it was cancelled.
Again(c) ==
  IF call[c].aborted THEN Failed(c)
  ELSE [call EXCEPT ![c].pc = "retirement", ![c].awaits = retiring, ![c].gen = 0, ![c].src = Absent]

\* touch, for another id: the oldest ready entry leaves, nobody waits on it.
Evict ==
  /\ Upset
  /\ entry.phase = "ready"
  /\ entry' = NoEntry
  /\ UNCHANGED <<stored, state, chain, retiring, sess, call, faults, raced>>

-----------------------------------------------------------------------------
(* Calls. *)

\* prepare, load and inspect first await the retirement they find; the model
\* switch of a detached child looks for a live session and inspects.
Begin(c, op) ==
  /\ call[c].pc = "idle"
  /\ op = "switch" => Registered = {} /\ stored.made \* a child's log is known
  /\ call' = [call EXCEPT ![c].op = op, ![c].since = Len(stored.log), ![c].awaits = retiring,
                          ![c].pc = IF op = "create" THEN "create" ELSE "retirement"]
  /\ chain' = IF op = "create" THEN Append(chain, Job("create", c)) ELSE chain
  /\ UNCHANGED <<stored, state, entry, retiring, sess, upsets, faults, raced>>

Retired(k) == k # Nobody => sess[k].life = "retired"

\* waitForRetirement has resolved, unless the retirement failed (Rejects); inspect does not even await one it does not find.
Waited(c) ==
  /\ call[c].pc = "retirement" /\ Retired(call[c].awaits)
  /\ call[c].op \in {"inspect", "switch"} /\ call[c].awaits = Nobody => retiring = Nobody

\* A view ends an inspection; the model switch goes on to append after its last event.
Inspected(c, fresh, view, rest) ==
  IF call[c].op = "switch"
  THEN /\ call' = Over(c, "append", fresh)
       /\ chain' = Append(rest, [Job("append", c) EXCEPT !.upto = Len(view)])
  ELSE call' = Over(c, "over", fresh) /\ chain' = rest

\* A session entered by the holder of a preparation and not announced yet.
Entering(k) == \E c \in Callers : call[c].pc = "entered" /\ call[c].awaits = k

AwaitsFlush(c, k) == [call EXCEPT ![c].pc = "flush", ![c].awaits = k, ![c].upto = Len(sess[k].log)]

\* initFor of a session no preparation is for: onCreated is queued.
StartInit(k) ==
  /\ sess' = [sess EXCEPT ![k].life = "live", ![k].init = "pending"]
  /\ chain' = Append(chain, [Job("init", k) EXCEPT !.upto = Len(sess[k].log)])

\* attachPrepared: the exact session is bound, and only its unpublished suffix written.
Attach(k, log, calls) ==
  /\ state.there /\ state.owner = Nobody /\ state.cursor = Len(Balanced(entry.src))
  /\ LET setup == Len(log) > state.cursor
     IN /\ sess' = [sess EXCEPT ![k] = [life |-> "live", log |-> log, acked |-> Len(log),
                                        init |-> IF setup THEN "pending" ELSE "ok"]]
        /\ chain' = IF setup THEN Append(chain, [Job("suffix", k) EXCEPT !.upto = Len(log), !.src = entry.src]) ELSE chain
  /\ state' = [state EXCEPT !.owner = k]
  /\ Remove(calls)

\* loadLiveSnapshot: its flush installs the controller of a session nobody announced,
\* and fails for one that a preparation of its id vetoes.
LoadLive(c, k) ==
  CASE sess[k].life = "live" -> call' = AwaitsFlush(c, k) /\ UNCHANGED <<state, entry, sess, chain>>
    [] sess[k].life # "live" /\ Entering(k) -> Attach(k, sess[k].log, AwaitsFlush(c, k))
    [] sess[k].life # "live" /\ ~Entering(k) /\ entry.phase = "none" ->
         StartInit(k) /\ call' = AwaitsFlush(c, k) /\ UNCHANGED <<state, entry>>
    [] OTHER -> call' = Failed(c) /\ UNCHANGED <<state, entry, sess, chain>>

\* A live session answers in place of storage.
MeetLive(c) ==
  /\ Waited(c)
  /\ \E k \in Registered :
       CASE call[c].op = "prepare" -> call' = Failed(c) /\ UNCHANGED <<state, entry, sess, chain>>
         [] call[c].op = "load" -> LoadLive(c, k)
         [] OTHER -> Inspected(c, TRUE, sess[k].log, chain) /\ UNCHANGED <<state, entry, sess>>
  /\ UNCHANGED <<stored, retiring, upsets, faults, raced>>

AfterResult(c) == IF call[c].op \in {"prepare", "load"} THEN "turn" ELSE "seen"

\* The identity of a new entry: nobody refers to another of that number.
NewGen ==
  CHOOSE g \in 1..(Cardinality(Callers) + Len(chain) + 1) :
    (\A c \in Callers : call[c].gen # g) /\ (\A i \in DOMAIN chain : chain[i].gen # g)

\* entryFor, then the await of entry.result: an entry past loading has its result.
Join(c) ==
  /\ Waited(c)
  /\ Registered = {}
  /\ LET after == AfterResult(c)
     IN IF entry.phase = "none"
        THEN /\ entry' = [gen |-> NewGen, phase |-> "loading", src |-> Absent]
             /\ chain' = Append(chain, [Job("load", c) EXCEPT !.gen = NewGen])
             /\ call' = [call EXCEPT ![c].pc = "result", ![c].gen = NewGen]
        ELSE /\ call' = [call EXCEPT ![c].gen = entry.gen, ![c].src = IF after = "seen" THEN entry.src ELSE Absent,
                                     ![c].pc = IF entry.phase = "loading" THEN "result" ELSE after]
             /\ UNCHANGED <<entry, chain>>
  /\ raced' = IF \E k \in Sessions : sess[k].life \in {"flushing", "cleaning"} THEN raced \cup {"resume"} ELSE raced
  /\ UNCHANGED <<stored, state, retiring, sess, upsets, faults>>

\* reserve: gone, the caller starts over; ready, it commits; held, it waits.
Turn(c) ==
  /\ call[c].pc = "turn"
  /\ \/ /\ ~Current(c)
        /\ call' = Again(c)
        /\ UNCHANGED <<entry, chain>>
     \/ /\ Current(c) /\ entry.phase = "ready"
        /\ entry' = [entry EXCEPT !.phase = "committing"]
        /\ chain' = Append(chain, [Job("commit", c) EXCEPT !.src = entry.src])
        /\ call' = [call EXCEPT ![c].pc = "commit"]
     \/ /\ Current(c) /\ entry.phase \in {"committing", "reserved"}
        /\ call' = At(c, "settled")
        /\ UNCHANGED <<entry, chain>>
  /\ UNCHANGED <<stored, state, retiring, sess, upsets, faults, raced>>

\* inspect, with its source: a live session answers, or the revision is read again.
Seen(c) ==
  /\ call[c].pc = "seen"
  /\ IF Registered # {}
     THEN \E k \in Registered : Inspected(c, TRUE, sess[k].log, chain)
     ELSE call' = At(c, "check") /\ chain' = Append(chain, [Job("check", c) EXCEPT !.src = call[c].src])
  /\ UNCHANGED <<stored, state, entry, retiring, sess, upsets, faults, raced>>

\* The catch clause of inspect: a session that went live answers for the failed read.
Caught(c) ==
  /\ call[c].pc = "caught"
  /\ IF Registered # {} /\ ~call[c].aborted
     THEN \E k \in Registered : Inspected(c, TRUE, sess[k].log, chain)
     ELSE call' = Failed(c) /\ UNCHANGED chain
  /\ UNCHANGED <<stored, state, entry, retiring, sess, upsets, faults, raced>>

\* A wait is rejected: its signal aborts it, or the retirement it is for failed.
Rejects(c) ==
  \/ call[c].op \in {"prepare", "inspect"} /\ ~call[c].aborted /\ call[c].pc \in {"retirement", "result", "settled"}
  \/ call[c].pc = "retirement" /\ call[c].awaits # Nobody /\ sess[call[c].awaits].life = "stuck"

\* observeQueuedAbort: a wait ends at once, a started job is awaited; reserve
\* drops the entry whose commit it abandons in the queue.
Abort(c) ==
  /\ \/ Rejects(c) /\ call' = Failed(c) /\ UNCHANGED entry
     \/ /\ call[c].op \in {"prepare", "inspect"} /\ ~call[c].aborted
        /\ call[c].pc \in {"commit", "check"}
        /\ LET started == chain[1].kind = call[c].pc /\ chain[1].who = c /\ chain[1].stage # "queued"
           IN CASE started -> call' = [call EXCEPT ![c].aborted = TRUE] /\ UNCHANGED entry
                [] ~started /\ call[c].pc = "check" -> call' = Failed(c) /\ UNCHANGED entry
                [] OTHER -> RemoveOf(c, Failed(c))
  /\ UNCHANGED <<stored, state, chain, retiring, sess, upsets, faults, raced>>

-----------------------------------------------------------------------------
(* Jobs of the chain. *)

\* prepareCore: the artifact is read, then repaired and validated in memory.
LoadStart ==
  /\ Runs("load", "queued")
  /\ chain' = AtStage("read", stored)
  /\ UNCHANGED <<stored, state, entry, retiring, sess, call, upsets, faults, raced>>

\* The load settles its entry, if it is still the pool's, and then its result; no Session
\* can be prepared for an id the store has.
LoadEnd ==
  /\ Runs("load", "read")
  /\ LET job == chain[1]
         mine == entry.gen = job.gen
         Waits(c) == call[c].pc = "result" /\ call[c].gen = job.gen
         loaded == [c \in Callers |->
                      IF ~Waits(c) THEN call[c]
                      ELSE [call[c] EXCEPT !.pc = AfterResult(c),
                                           !.src = IF AfterResult(c) = "seen" THEN job.src ELSE Absent]]
         refused == [c \in Callers |->
                       CASE ~Waits(c) -> call[c]
                         [] Waits(c) /\ AfterResult(c) = "seen" -> At(c, "caught")[c]
                         [] OTHER -> Failed(c)[c]]
         valid == job.src.made /\ Registered = {}
     IN \/ /\ valid /\ NoFault
           /\ call' = loaded
           /\ entry' = IF mine THEN [entry EXCEPT !.phase = "ready", !.src = job.src] ELSE entry
        \/ /\ (~valid /\ NoFault) \/ (valid /\ Fault)
           /\ call' = refused
           /\ entry' = IF mine THEN NoEntry ELSE entry
  /\ chain' = Tail(chain)
  /\ UNCHANGED <<stored, state, retiring, sess, raced>>

\* A commit whose caller gave up is not started; a bound log is refused.
CommitStart ==
  /\ Runs("commit", "queued")
  /\ LET c == chain[1].who
     IN CASE call[c].pc # "commit" -> chain' = Tail(chain) /\ UNCHANGED <<entry, call>>
          [] call[c].pc = "commit" /\ state.there /\ state.owner # Nobody -> chain' = Tail(chain) /\ RemoveOf(c, Failed(c))
          [] OTHER -> chain' = [chain EXCEPT ![1].stage = IF stored = chain[1].src THEN "current" ELSE "stale"]
                      /\ UNCHANGED <<entry, call>>
  /\ UNCHANGED <<stored, state, retiring, sess, upsets, faults, raced>>

\* commitRepair: the artifact ends where its complete events do, with its closers.
Repaired(src) == [made |-> TRUE, log |-> Balanced(src), torn |-> FALSE]

\* isPreparedSourceCurrent, as read when the job started.
SourceCurrent(stage) == stage = "current"

\* reserve gives up a commit that found another revision or repaired the log, and starts over.
CommitRetry ==
  /\ Runs("commit", "current") \/ Runs("commit", "stale")
  /\ LET c == chain[1].who
     IN /\ ~SourceCurrent(chain[1].stage) \/ NeedsRepair(chain[1].src)
        /\ stored' = IF SourceCurrent(chain[1].stage) THEN Repaired(chain[1].src) ELSE stored
        /\ RemoveOf(c, Again(c))
  /\ NoFault
  /\ chain' = Tail(chain)
  /\ UNCHANGED <<state, retiring, sess, raced>>

\* The ownerless durable cursor is set, and the caller holds the entry, unless it
\* was cancelled meanwhile or the entry is gone.
CommitEnd ==
  /\ Runs("commit", "current") \/ Runs("commit", "stale")
  /\ LET c == chain[1].who
     IN /\ SourceCurrent(chain[1].stage) /\ ~NeedsRepair(chain[1].src)
        /\ state' = State(Len(Balanced(chain[1].src)), TRUE, state.owner)
        /\ CASE call[c].aborted /\ Current(c) -> MakeReady(Failed(c))
             [] call[c].aborted /\ ~Current(c) -> call' = Failed(c) /\ UNCHANGED entry
             [] ~call[c].aborted /\ ~Current(c) -> call' = Again(c) /\ UNCHANGED entry
             [] OTHER -> entry' = [entry EXCEPT !.phase = "reserved"] /\ call' = At(c, "reserved")
  /\ NoFault
  /\ chain' = Tail(chain)
  /\ UNCHANGED <<stored, retiring, sess, raced>>

\* The revision read or the repair fails.
CommitFault ==
  /\ Runs("commit", "current") \/ Runs("commit", "stale")
  /\ Fault
  /\ LET c == chain[1].who IN RemoveOf(c, Failed(c))
  /\ chain' = Tail(chain)
  /\ UNCHANGED <<stored, state, retiring, sess, raced>>

\* Mutant: the cached source is returned without reading the revision.
CheckUnread ==
  /\ Runs("check", "queued")
  /\ chain' = IF call[chain[1].who].pc # "check" THEN Tail(chain) ELSE AtStage("current", chain[1].src)
  /\ UNCHANGED <<stored, state, entry, retiring, sess, call, upsets, faults, raced>>

\* inspect reads the revision again, unless its caller gave up.
CheckStart ==
  /\ Runs("check", "queued")
  /\ LET c == chain[1].who
     IN IF call[c].pc # "check" THEN chain' = Tail(chain)
        ELSE chain' = [chain EXCEPT ![1].stage = IF stored = chain[1].src THEN "current" ELSE "stale"]
  /\ UNCHANGED <<stored, state, entry, retiring, sess, call, upsets, faults, raced>>

\* inspect: a session that went live answers; a current source is returned; a
\* stale one is discarded when ready, borrowed when held, otherwise read again.
CheckEnd ==
  /\ Runs("check", "current") \/ Runs("check", "stale")
  /\ LET c == chain[1].who
         current == SourceCurrent(chain[1].stage)
         mine == Current(c) /\ entry.phase # "loading"
     IN \/ /\ (call[c].aborted /\ NoFault) \/ (~call[c].aborted /\ Fault)
           /\ call' = At(c, "caught") /\ chain' = Tail(chain) /\ UNCHANGED entry
        \/ /\ NoFault
           /\ \E k \in Registered : Inspected(c, TRUE, sess[k].log, Tail(chain))
           /\ UNCHANGED entry
        \/ /\ NoFault /\ Registered = {} /\ current
           /\ LET view == Balanced(call[c].src) IN Inspected(c, Answers(c, view), view, Tail(chain)) /\ UNCHANGED entry
        \/ /\ NoFault /\ Registered = {} /\ ~current /\ mine /\ entry.phase # "ready"
           /\ Inspected(c, TRUE, Balanced(call[c].src), Tail(chain)) /\ UNCHANGED entry
        \/ /\ NoFault /\ Registered = {} /\ ~current /\ mine /\ entry.phase = "ready"
           /\ Remove(Again(c)) /\ chain' = Tail(chain)
        \/ /\ NoFault /\ Registered = {} /\ ~current /\ ~mine
           /\ call' = Again(c) /\ chain' = Tail(chain) /\ UNCHANGED entry
  /\ UNCHANGED <<stored, state, retiring, sess, raced>>

\* createCore: a tracked, prepared or stored id is refused.
CreateStart ==
  /\ Runs("create", "queued")
  /\ IF state.there \/ entry.phase # "none"
     THEN chain' = Tail(chain) /\ call' = Failed(chain[1].who)
     ELSE chain' = AtStage("read", stored) /\ UNCHANGED call
  /\ UNCHANGED <<stored, state, entry, retiring, sess, upsets, faults, raced>>

CreateEnd ==
  /\ Runs("create", "read")
  /\ IF chain[1].src.made
     THEN call' = Failed(chain[1].who) /\ UNCHANGED state
     ELSE call' = Ended(chain[1].who) /\ state' = State(0, FALSE, Nobody)
  /\ chain' = Tail(chain)
  /\ UNCHANGED <<stored, entry, retiring, sess, upsets, faults, raced>>

\* Mutant: a held preparation does not stop a write.
AlwaysWritable == TRUE

\* assertWritable
Writable == entry.phase \notin {"committing", "reserved"}

\* appendCore of a cold id: an untracked log is adopted from the pool or from storage.
AppendStart ==
  /\ Runs("append", "queued")
  /\ LET c == chain[1].who
         ready == entry.phase = "ready"
     IN \/ /\ ~Writable
           /\ call' = Failed(c) /\ chain' = Tail(chain) /\ UNCHANGED entry
        \/ /\ Writable /\ state.there
           /\ chain' = AtStage("write", Absent) /\ UNCHANGED <<call, entry>>
        \/ /\ Writable /\ ~state.there /\ ready
           /\ chain' = AtStage("adopt", entry.src) /\ Remove(call)
        \/ /\ Writable /\ ~state.there /\ ~ready
           /\ chain' = AtStage("read", stored) /\ UNCHANGED <<call, entry>>
  /\ UNCHANGED <<stored, state, retiring, sess, upsets, faults, raced>>

\* prepareCore again: no Session can be prepared of no log or for an id the store has.
AppendRead ==
  /\ Runs("append", "read")
  /\ LET valid == chain[1].src.made /\ Registered = {}
     IN \/ /\ valid /\ NoFault
           /\ chain' = AtStage("adopt", chain[1].src) /\ UNCHANGED call
        \/ /\ (~valid /\ NoFault) \/ (valid /\ Fault)
           /\ call' = Failed(chain[1].who) /\ chain' = Tail(chain)
  /\ UNCHANGED <<stored, state, entry, retiring, sess, raced>>

\* adopt: commit the source, or read the log again after another revision or a repair.
Adopt ==
  /\ Runs("append", "adopt")
  /\ LET src == chain[1].src
     IN \/ /\ stored # src
           /\ chain' = AtStage("read", stored) /\ UNCHANGED <<stored, state>>
        \/ /\ stored = src /\ NeedsRepair(src)
           /\ stored' = Repaired(src) /\ chain' = AtStage("read", Repaired(src)) /\ UNCHANGED state
        \/ /\ stored = src /\ ~NeedsRepair(src)
           /\ state' = State(Len(src.log), TRUE, Nobody) /\ chain' = AtStage("write", src) /\ UNCHANGED stored
  /\ UNCHANGED <<entry, retiring, sess, call, upsets, faults, raced>>

\* preparations.invalidate, after a durable write.
Invalidate(calls) == IF entry.phase = "none" THEN UNCHANGED entry /\ call' = calls ELSE Remove(calls)

\* appendBatch of the events after the cursor: they must continue it.
Written(events) == [made |-> TRUE, log |-> stored.log \o events, torn |-> FALSE]
Advanced(n) == [state EXCEPT !.cursor = @ + n, !.made = TRUE]

AppendEnd ==
  /\ Runs("append", "write")
  /\ LET c == chain[1].who
     IN \/ /\ chain[1].upto = state.cursor /\ NoFault
           /\ stored' = Written(<<Cold>>)
           /\ state' = Advanced(1)
           /\ Invalidate(Over(c, "over", call[c].fresh))
           /\ raced' = IF state.owner # Nobody \/ state.cursor # Len(stored.log) THEN raced \cup {"append"} ELSE raced
        \/ /\ (chain[1].upto # state.cursor /\ NoFault) \/ (chain[1].upto = state.cursor /\ Fault)
           /\ call' = Failed(c)
           /\ UNCHANGED <<stored, state, entry, raced>>
  /\ chain' = Tail(chain)
  /\ UNCHANGED <<retiring, sess>>

-----------------------------------------------------------------------------
(* Sessions. *)

\* The continuation of reserve: load discards what it reserved, prepare hands it out.
\* A session of the id that entered the store meanwhile wins.
Reserved(c) ==
  /\ call[c].pc = "reserved"
  /\ \/ /\ call[c].op = "prepare" /\ Registered = {}
        /\ call' = At(c, "holding") /\ UNCHANGED <<entry, sess, chain>>
     \/ /\ call[c].op = "prepare" /\ Registered # {}
        /\ Remove(Failed(c)) /\ UNCHANGED <<sess, chain>>
     \/ /\ call[c].op = "load" /\ Registered = {}
        /\ Remove(Over(c, "over", Answers(c, Balanced(entry.src)))) /\ UNCHANGED <<sess, chain>>
     \/ /\ call[c].op = "load"
        /\ \E k \in Registered : Remove(AwaitsFlush(c, k)) /\ StartInit(k)
  /\ UNCHANGED <<stored, state, retiring, upsets, faults, raced>>

\* The preparation is disposed unpublished: it can be used again unless setup added events.
Unpublished(c, log) == IF log = Balanced(entry.src) THEN MakeReady(Ended(c)) ELSE Remove(Ended(c))

\* Setup may append to the prepared session before it is published.
PreparedLog(setup) == Balanced(entry.src) \o IF setup THEN <<Next1(Unborn)>> ELSE <<>>

Release(c) ==
  /\ call[c].pc = "holding"
  /\ \E setup \in BOOLEAN : (setup => Unborn # {}) /\ Unpublished(c, PreparedLog(setup))
  /\ UNCHANGED <<stored, state, chain, retiring, sess, upsets, faults, raced>>

\* The session enters the store and is announced.
Publish(c, setup) ==
  /\ call[c].pc = "holding"
  /\ Registered = {} /\ Unborn # {}
  /\ Attach(Next1(Unborn), PreparedLog(setup), Ended(c))
  /\ UNCHANGED <<stored, retiring, upsets, faults, raced>>

\* The session enters the store, and its publication fails before the coordinator hears of it.
Enter(c, setup) ==
  /\ call[c].pc = "holding"
  /\ Registered = {} /\ Unborn # {}
  /\ sess' = [sess EXCEPT ![Next1(Unborn)].life = "entered", ![Next1(Unborn)].log = PreparedLog(setup)]
  /\ call' = [call EXCEPT ![c].pc = "entered", ![c].awaits = Next1(Unborn)]
  /\ UNCHANGED <<stored, state, entry, chain, retiring, upsets, faults, raced>>

\* It leaves the store once its agent is idle; a load may have attached it by then.
Rollback(c) ==
  /\ call[c].pc = "entered"
  /\ LET k == call[c].awaits
     IN \/ /\ sess[k].life = "entered"
           /\ sess' = [sess EXCEPT ![k] = NoSession]
           /\ Unpublished(c, sess[k].log) /\ UNCHANGED retiring
        \/ /\ sess[k].life = "live"
           /\ sess' = Life(k, "flushing") /\ retiring' = k
           /\ call' = Ended(c) /\ UNCHANGED entry
  /\ UNCHANGED <<stored, state, chain, upsets, faults, raced>>

\* A fresh session of the same id awaits onCreated.
Create ==
  /\ Registered = {} /\ Unborn # {}
  /\ entry.phase = "none"
  /\ StartInit(Next1(Unborn))
  /\ UNCHANGED <<stored, state, entry, retiring, call, upsets, faults, raced>>

\* An entry of the pool vetoes it: it stays in the store until its agent is idle.
Veto ==
  /\ Upset
  /\ Registered = {} /\ Unborn # {}
  /\ entry.phase # "none"
  /\ sess' = Life(Next1(Unborn), "entered")
  /\ UNCHANGED <<stored, state, entry, chain, retiring, call, faults, raced>>

Discard(k) ==
  /\ sess[k].life = "entered" /\ ~Entering(k)
  /\ sess' = [sess EXCEPT ![k] = NoSession]
  /\ UNCHANGED <<stored, state, entry, chain, retiring, call, upsets, faults, raced>>

\* The session appends; the listener queues the event for the write-behind.
SessionEvent(k) ==
  /\ sess[k].life = "live"
  /\ Len(sess[k].log) < MaxEvents
  /\ sess' = [sess EXCEPT ![k].log = Append(@, k)]
  /\ UNCHANGED <<stored, state, entry, chain, retiring, call, upsets, faults, raced>>

\* retire, when the store emits session/detached.
Detach(k) ==
  /\ sess[k].life = "live" /\ ~Entering(k)
  /\ sess' = Life(k, "flushing")
  /\ retiring' = k
  /\ UNCHANGED <<stored, state, entry, chain, call, upsets, faults, raced>>

Forgets(k) == retiring' = IF retiring = k THEN Nobody ELSE retiring

\* retireCore: the final flush fails with its initialization, or leads to the cleanup job.
RetireFlushed(k) ==
  /\ sess[k].life = "flushing"
  /\ \/ /\ sess[k].init = "failed"
        /\ sess' = Life(k, "stuck") /\ Forgets(k) /\ UNCHANGED chain
     \/ /\ sess[k].init = "ok" /\ ~HasWork(k)
        /\ sess' = Life(k, "cleaning") /\ chain' = Append(chain, Job("retire", k)) /\ UNCHANGED retiring
  /\ UNCHANGED <<stored, state, entry, call, upsets, faults, raced>>

\* Mutant: the cleanup leaves the state to the next owner.
KeepState(k) == FALSE

\* The state leaves with the session that owns it.
OwnsState(k) == state.owner = k

RetireRun ==
  /\ Runs("retire", "queued")
  /\ LET k == chain[1].who
     IN /\ sess' = IF \E c \in Callers : call[c].awaits = k THEN Life(k, "retired")
                   ELSE [sess EXCEPT ![k] = [NoSession EXCEPT !.life = "retired"]] \* nobody refers to it
        /\ state' = IF OwnsState(k) THEN NoState ELSE state
        /\ Forgets(k)
  /\ chain' = Tail(chain)
  /\ UNCHANGED <<stored, entry, call, upsets, faults, raced>>

InitFailed(k) == [sess EXCEPT ![k].init = "failed"]
InitDone(k) == [sess EXCEPT ![k].init = "ok"]
SeedOf(job) == SubSeq(sess[job.who].log, 1, job.upto)

\* Mutant: any live session may claim state nobody owns.
ClaimAny(seed) == TRUE

\* seedMatchesPersisted
SeedMatches(seed) == state.cursor = 0 \/ Covers(seed, SubSeq(stored.log, 1, state.cursor))

\* onCreated, up to its first read: a tracked id is claimed, reclaimed or a collision.
InitStart ==
  /\ Runs("init", "queued")
  /\ LET k == chain[1].who
     IN \/ /\ state.there /\ state.owner = Nobody /\ SeedMatches(SeedOf(chain[1]))
           /\ chain' = AtStage("claim", stored) /\ UNCHANGED <<state, sess>>
        \/ /\ ~state.there
           /\ chain' = AtStage("read", stored) /\ UNCHANGED <<state, sess>>
        \/ /\ state.there /\ state.owner # Nobody /\ ~state.made /\ ~HasWork(state.owner)
           /\ chain' = AtStage("read", stored) /\ state' = NoState /\ UNCHANGED sess
        \/ /\ state.there
           /\ IF state.owner = Nobody THEN ~SeedMatches(SeedOf(chain[1])) ELSE state.made \/ HasWork(state.owner)
           /\ sess' = InitFailed(k) /\ chain' = Tail(chain) /\ UNCHANGED state
  /\ UNCHANGED <<stored, entry, retiring, call, upsets, faults, raced>>

\* The session is bound at a cursor, then the rest of its seed is written.
Bind(k, base, cursor, made, seed) ==
  LET suffix == SubSeq(seed, cursor + 1, Len(seed))
  IN \/ /\ suffix = <<>> \/ Writable
        /\ NoFault
        /\ stored' = IF suffix = <<>> THEN base ELSE [made |-> TRUE, log |-> base.log \o suffix, torn |-> FALSE]
        /\ state' = State(cursor + Len(suffix), made \/ suffix # <<>>, k)
        /\ sess' = InitDone(k)
        /\ IF suffix = <<>> THEN UNCHANGED <<entry, call>> ELSE Invalidate(call)
     \/ /\ suffix # <<>>
        /\ (~Writable /\ NoFault) \/ (Writable /\ Fault)
        /\ stored' = base
        /\ state' = State(cursor, made, k)
        /\ sess' = InitFailed(k)
        /\ UNCHANGED <<entry, call>>

\* onCreated, after its reads: a matching artifact is adopted, no artifact is a new session.
InitEnd ==
  /\ Runs("init", "claim") \/ Runs("init", "read")
  /\ LET k == chain[1].who
         src == chain[1].src
         seed == SeedOf(chain[1])
     IN \/ /\ chain[1].stage = "claim"
           /\ Bind(k, stored, state.cursor, state.made, seed)
        \/ /\ chain[1].stage = "read" /\ src.made /\ Covers(seed, src.log)
           /\ Bind(k, [stored EXCEPT !.torn = FALSE], Len(src.log), TRUE, seed)
        \/ /\ chain[1].stage = "read" /\ ~src.made /\ entry.phase = "none"
           /\ Bind(k, stored, 0, FALSE, seed)
        \/ /\ chain[1].stage = "read"
           /\ IF src.made THEN ~Covers(seed, src.log) ELSE entry.phase # "none"
           /\ sess' = InitFailed(k) /\ NoFault
           /\ UNCHANGED <<stored, state, entry, call>>
  /\ chain' = Tail(chain)
  /\ UNCHANGED <<retiring, raced>>

\* The unpublished suffix of a resumed session, which a cold append may have overtaken.
Suffix ==
  /\ Runs("suffix", "queued")
  /\ LET k == chain[1].who
     IN \/ /\ state.cursor = Len(Balanced(chain[1].src))
           /\ Bind(k, stored, state.cursor, state.made, SeedOf(chain[1]))
           /\ UNCHANGED raced
        \/ /\ state.cursor # Len(Balanced(chain[1].src))
           /\ sess' = InitFailed(k) /\ raced' = raced \cup {"append"}
           /\ NoFault /\ UNCHANGED <<stored, state, entry, call>>
  /\ chain' = Tail(chain)
  /\ UNCHANGED retiring

\* The write-behind of a session writes what is queued, once its initialization is done.
DrainCall(k) ==
  /\ sess[k].life \in {"live", "flushing"} /\ sess[k].init = "ok"
  /\ sess[k].acked < Len(sess[k].log)
  /\ ~\E i \in DOMAIN chain : chain[i].kind = "drain" /\ chain[i].who = k
  /\ chain' = Append(chain, [Job("drain", k) EXCEPT !.upto = Len(sess[k].log)])
  /\ UNCHANGED <<stored, state, entry, retiring, sess, call, upsets, faults, raced>>

Fresh(job) == SubSeq(sess[job.who].log, state.cursor + 1, job.upto)

\* A failed write keeps its events, and fails the flush of a retirement or a load.
DrainFailed(k) ==
  /\ IF sess[k].life = "flushing" THEN sess' = Life(k, "stuck") /\ Forgets(k) ELSE UNCHANGED <<sess, retiring>>
  /\ call' = [c \in Callers |-> IF call[c].pc = "flush" /\ call[c].awaits = k THEN Failed(c)[c] ELSE call[c]]
  /\ chain' = Tail(chain)

\* appendLiveBatch: events below the cursor count as written by the initialization,
\* the others must continue it and meet no held preparation.
DrainStart ==
  /\ Runs("drain", "queued")
  /\ LET k == chain[1].who
         fresh == Fresh(chain[1])
     IN \/ /\ fresh = <<>>
           /\ sess' = [sess EXCEPT ![k].acked = chain[1].upto]
           /\ chain' = Tail(chain) /\ UNCHANGED <<retiring, call>>
        \/ /\ fresh # <<>> /\ Writable /\ sess[k].acked <= state.cursor
           /\ chain' = AtStage("write", Absent) /\ UNCHANGED <<sess, retiring, call>>
        \/ /\ fresh # <<>> /\ (~Writable \/ sess[k].acked > state.cursor)
           /\ DrainFailed(k)
  /\ UNCHANGED <<stored, state, entry, upsets, faults, raced>>

DrainEnd ==
  /\ Runs("drain", "write")
  /\ LET k == chain[1].who
         fresh == Fresh(chain[1])
     IN \/ /\ NoFault
           /\ sess' = [sess EXCEPT ![k].acked = chain[1].upto]
           /\ stored' = Written(fresh) /\ state' = Advanced(Len(fresh)) /\ Invalidate(call)
           /\ chain' = Tail(chain) /\ UNCHANGED retiring
        \/ Fault /\ DrainFailed(k) /\ UNCHANGED <<stored, state, entry>>
  /\ UNCHANGED <<raced>>

\* loadLiveSnapshot: the view is returned once it is flushed.
Flushed(c) ==
  /\ call[c].pc = "flush"
  /\ LET k == call[c].awaits
     IN \/ /\ sess[k].init = "failed" \/ (sess[k].init = "ok" /\ call[c].upto = 0)
           /\ call' = Failed(c)
        \/ /\ sess[k].init = "ok" /\ call[c].upto > 0 /\ sess[k].acked >= call[c].upto
           /\ call' = Over(c, "over", "append" \in raced \/ Covers(stored.log, SubSeq(sess[k].log, 1, call[c].upto)))
  /\ UNCHANGED <<stored, state, entry, chain, retiring, sess, upsets, faults, raced>>

\* The coordinator's disposer drains the chain; its successor finds the live sessions.
HotReload ==
  /\ Upset
  /\ chain = <<>> /\ entry = NoEntry
  /\ \A c \in Callers : call[c].pc \in {"idle", "over"}
  /\ \A k \in Sessions : sess[k].life \notin {"entered", "flushing", "cleaning"}
  /\ sess' = [k \in Sessions |->
                CASE sess[k].life = "live" -> [sess[k] EXCEPT !.init = "pending", !.acked = Len(sess[k].log)]
                  [] sess[k].life = "stuck" -> [sess[k] EXCEPT !.life = "retired"]
                  [] OTHER -> sess[k]]
  /\ chain' = IF Registered = {} THEN <<>>
              ELSE LET k == Next1(Registered) IN <<[Job("init", k) EXCEPT !.upto = Len(sess[k].log)]>>
  /\ state' = NoState
  /\ UNCHANGED <<stored, entry, retiring, call, faults, raced>>

\* Another process appends to the log, after the repair it would make itself.
ExternalWrite ==
  /\ Upset
  /\ stored.made
  /\ Registered = {} /\ Live = {} /\ state.owner = Nobody
  /\ entry.phase # "reserved"
  /\ \A i \in DOMAIN chain : chain[i].kind = "commit" => chain[i].stage = "queued"
  /\ \A i \in DOMAIN chain : chain[i].kind \notin {"append", "init", "suffix"}
  /\ stored' = [made |-> TRUE, log |-> Append(Balanced(stored), Foreign), torn |-> FALSE]
  /\ UNCHANGED <<state, entry, chain, retiring, sess, call, faults, raced>>

-----------------------------------------------------------------------------
\* Nothing stored, a log that ends cleanly, or one that ends inside a turn and inside a record.
Init ==
  /\ stored \in {Absent, [made |-> TRUE, log |-> <<Old>>, torn |-> FALSE], [made |-> TRUE, log |-> <<Open>>, torn |-> TRUE]}
  /\ state = NoState
  /\ entry = NoEntry
  /\ chain = <<>>
  /\ retiring = Nobody
  /\ sess = [k \in Sessions |-> NoSession]
  /\ call = [c \in Callers |-> NoCall]
  /\ upsets = 0 /\ faults = 0
  /\ raced = {}

Chain ==
  \/ LoadStart \/ LoadEnd
  \/ CommitStart \/ CommitRetry \/ CommitEnd \/ CommitFault
  \/ CheckStart \/ CheckEnd
  \/ CreateStart \/ CreateEnd
  \/ AppendStart \/ AppendRead \/ Adopt \/ AppendEnd
  \/ InitStart \/ InitEnd \/ Suffix
  \/ DrainStart \/ DrainEnd \/ RetireRun

Resume(c) == MeetLive(c) \/ Join(c) \/ Turn(c) \/ Seen(c) \/ Caught(c) \/ Reserved(c) \/ Flushed(c)

Settle(c) == Release(c) \/ Rollback(c) \/ \E setup \in BOOLEAN : Publish(c, setup) \/ Enter(c, setup)

Steps ==
  \/ \E c \in Callers : Resume(c) \/ Settle(c) \/ Abort(c)
  \/ \E c \in Callers, op \in Ops : Begin(c, op)
  \/ \E k \in Sessions : SessionEvent(k) \/ Detach(k) \/ RetireFlushed(k) \/ DrainCall(k) \/ Discard(k)
  \/ Create \/ Veto \/ HotReload \/ ExternalWrite \/ Evict

Next == Chain \/ (Started /\ Steps)

Spec == Init /\ [][Next]_vars

-----------------------------------------------------------------------------
\* c holds a preparation that no session was attached with.
Holds(c) ==
  \/ call[c].pc \in {"reserved", "holding"}
  \/ call[c].pc = "entered" /\ sess[call[c].awaits].life = "entered"

\* Who holds a preparation holds it alone, it is the log as stored, and the ownerless
\* cursor stands at its end: attachPrepared never meets a preparation that no longer
\* matches, whatever is appended, inspected, aborted or retired meanwhile.
ReservedIsCurrent ==
  \A c \in Callers : Holds(c) =>
    /\ Current(c) /\ entry.phase = "reserved"
    /\ \A d \in Callers \ {c} : ~Holds(d)
    /\ stored.log = Balanced(entry.src) /\ ~stored.torn
    /\ state.there /\ state.owner = Nobody /\ state.cursor = Len(stored.log)

\* A flushed event of a live session is in the stored log at its place, and a session
\* that has retired leaves its whole log, unless a cold append was written under it.
AckedIsStored ==
  "append" \in raced \/ \A k \in Sessions : sess[k].init = "ok" =>
    /\ sess[k].life \in {"live", "flushing", "cleaning", "stuck"} => Covers(stored.log, SubSeq(sess[k].log, 1, sess[k].acked))
    /\ sess[k].life = "cleaning" => Covers(stored.log, sess[k].log)

\* What a session's flush acknowledged is stored, whoever else appends.
FlushedIsStored ==
  \A k \in Sessions : sess[k].init = "ok" /\ sess[k].life = "live" => Covers(stored.log, SubSeq(sess[k].log, 1, sess[k].acked))

\* load and inspect never answer from before their call: the log that was stored when
\* they were called begins their answer, and what load takes from a live session is
\* stored; only an inspection may borrow a view that a resume is about to commit.
NoStaleRead == \A c \in Callers : call[c].fresh

\* An interrupted turn is closed once, however many callers prepare it.
ClosedOnce ==
  \A i \in 1..Len(stored.log) : stored.log[i] = Closer => i > 1 /\ stored.log[i - 1] = Open

\* The stored log is owned by a session that is live or on its way out; one that is gone
\* left its ownership, so the id can be resumed, unless a write failed, a cold append took
\* the place of its first event, or a resume that looked for a retirement before the
\* detach read the log during it.
OwnerPresent ==
  state.owner # Nobody =>
    \/ sess[state.owner].life \in {"live", "flushing", "cleaning"}
    \/ sess[state.owner].life = "stuck" /\ (faults > 0 \/ raced # {})

\* No wake-up is lost: who waits for an entry waits for the pool's own entry, and another
\* call holds it or is committing it; who waits for a read waits for one that is queued.
WaitersAwaited ==
  \A c \in Callers :
    /\ call[c].pc = "settled" =>
         /\ Current(c)
         /\ \E d \in Callers \ {c} : Holds(d) \/ (call[d].pc = "commit" /\ Current(d))
    /\ call[c].pc = "result" => \E i \in DOMAIN chain : chain[i].kind = "load" /\ chain[i].gen = call[c].gen

=============================================================================
