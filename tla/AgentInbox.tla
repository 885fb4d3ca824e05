------------------------------ MODULE AgentInbox ------------------------------
(***************************************************************************)
(* The durable inbox of an agent and the account of consumed work:         *)
(*   packages/core/agent/src/inbox.ts          the two pending lists       *)
(*   packages/core/agent/src/consumed-work.ts  foldConsumedWork            *)
(*                                                                         *)
(* The lists live in memory; each mutation first appends its normalized    *)
(* splice to the session log, from which a new process rebuilds the lists. *)
(* Messages are their ids; splice arguments are integers (Math.trunc and   *)
(* NaN are left out).                                                      *)
(***************************************************************************)
EXTENDS Integers, Sequences, FiniteSets, SequencesExt

CONSTANTS
  Messages,   \* message ids
  MaxEvents,  \* bound: events of the log
  Starts, Counts, Inserts  \* arguments of the calls of splice

ASSUME EventsAssumption == MaxEvents \in Nat
ASSUME ArgumentsAssumption ==
  Starts \subseteq Int /\ Counts \subseteq Int /\ Inserts \subseteq Seq(Messages)

Targets == {"next-turn", "next-step"}

VARIABLES
  inbox,       \* the pending list of each target
  log,         \* the session's turn, step and inbox events
  seedLength,  \* events inherited from the parent of a fork
  open         \* the open turn, or 0

vars == <<inbox, log, seedLength, open>>

EmptyInbox == [t \in Targets |-> <<>>]

TurnStart(t) == [type |-> "turn/start", turn |-> t]
StepStart(t) == [type |-> "step/start", turn |-> t]
TurnEnd(t, reason) == [type |-> "turn/end", turn |-> t, reason |-> reason]
Spliced(t, at, n, ins, outcome) ==
  [type |-> "agent/inbox/spliced", target |-> t, start |-> at, removedCount |-> n,
   inserted |-> ins, outcome |-> outcome]

-----------------------------------------------------------------------------
\* Splice semantics.

ActualStart(len, start) ==
  IF start < 0 THEN Max({len + start, 0}) ELSE Min({start, len})

ActualDeleteCount(len, at, count) == Min({Max({count, 0}), len - at})

Splice(s, at, n, ins) == SubSeq(s, 1, at) \o ins \o SubSeq(s, at + n + 1, Len(s))

\* Mutant: identities are compared within the target list only.
IdsOfTarget(box, t, candidate) == candidate

\* Both lists as they would be after the splice.
PendingIds(box, t, candidate) ==
  IF t = "next-turn" THEN candidate \o box["next-step"] ELSE box["next-turn"] \o candidate

\* validate: coordinates in range and no identity pending twice.
Valid(box, e) ==
  /\ e.start \in 0 .. Len(box[e.target])
  /\ e.start + e.removedCount <= Len(box[e.target])
  /\ IsInjective(PendingIds(box, e.target, Splice(box[e.target], e.start, e.removedCount, e.inserted)))

\* apply: one recorded splice.
Apply(box, e) ==
  [box EXCEPT ![e.target] = Splice(@, e.start, e.removedCount, e.inserted)]

\* Mutant: the splice is recorded with the arguments of the call.
RecordedAsCalled(at, start) == start

\* What the event says of the position.
RecordedStart(at, start) == at

\* mutate: nothing to do, a thrown validation error, or append and then splice.
Mutate(state, t, start, count, ins, discard) ==
  LET len == Len(state.inbox[t])
      at == ActualStart(len, start)
      n == ActualDeleteCount(len, at, count)
      e == Spliced(t, at, n, ins, IF discard /\ n > 0 THEN "canceled" ELSE "none")
  IN IF (n = 0 /\ ins = <<>>) \/ ~Valid(state.inbox, e) THEN state
     ELSE [inbox |-> Apply(state.inbox, e),
           log |-> Append(state.log, [e EXCEPT !.start = RecordedStart(@, start)])]

\* The projection a constructor builds: the loop over its own events, which ends at the
\* first that validate refuses.
NothingPending == [ok |-> TRUE, inbox |-> EmptyInbox]
Projected(p, e) ==
  IF e.type # "agent/inbox/spliced" \/ ~p.ok THEN p
  ELSE IF ~Valid(p.inbox, e) THEN [p EXCEPT !.ok = FALSE]
  ELSE [p EXCEPT !.inbox = Apply(@, e)]
Projections(events) ==
  LET p[i \in 0 .. Len(events)] == IF i = 0 THEN NothingPending ELSE Projected(p[i - 1], events[i])
  IN p
Replay(events) == Projections(events)[Len(events)]

\* The events after those a fork inherited.
OwnedBy(events, seed) == SubSeq(events, seed + 1, Len(events))

-----------------------------------------------------------------------------
\* Operations.

Live == [inbox |-> inbox, log |-> log]

Becomes(state) ==
  /\ state # Live
  /\ Len(state.log) <= MaxEvents
  /\ inbox' = state.inbox
  /\ log' = state.log
  /\ UNCHANGED <<seedLength, open>>

AppendMessage(t, m) == Becomes(Mutate(Live, t, Len(inbox[t]), 0, <<m>>, TRUE))

Prepend(t, m) == Becomes(Mutate(Live, t, 0, 0, <<m>>, TRUE))

Locations(m) == {t \in Targets : m \in Range(inbox[t])}
Locate(m) == IF m \in Range(inbox["next-turn"]) THEN "next-turn" ELSE "next-step"
IndexIn(t, m) == SelectInSeq(inbox[t], LAMBDA x : x = m) - 1

Replace(m, new) ==
  /\ Locations(m) # {}
  /\ Becomes(Mutate(Live, Locate(m), IndexIn(Locate(m), m), 1, <<new>>, TRUE))

RemoveMessage(m) ==
  /\ Locations(m) # {}
  /\ Becomes(Mutate(Live, Locate(m), IndexIn(Locate(m), m), 1, <<>>, TRUE))

SpliceCall(t, start, count, ins) == Becomes(Mutate(Live, t, start, count, ins, TRUE))

\* clear: next-step before next-turn.
Clear ==
  Becomes(LET first == Mutate(Live, "next-step", 0, Len(inbox["next-step"]), <<>>, TRUE)
          IN Mutate(first, "next-turn", 0, Len(inbox["next-turn"]), <<>>, TRUE))

\* claim, at a step boundary of the open turn.
Claim(t) ==
  /\ open # 0
  /\ Becomes(LET first == Mutate(Live, "next-step", 0, Len(inbox["next-step"]), <<>>, FALSE)
             IN IF t = "next-turn" THEN Mutate(first, "next-turn", 0, 1, <<>>, FALSE) ELSE first)

-----------------------------------------------------------------------------
\* The agent's turns, and the processes that own the log.

Logs(e) ==
  /\ Len(log) < MaxEvents
  /\ log' = Append(log, e)
  /\ UNCHANGED <<inbox, seedLength>>

LastTurn(events) ==
  LET i == SelectLastInSeq(events, LAMBDA e : e.type = "turn/start")
  IN IF i = 0 THEN 0 ELSE events[i].turn

BeginTurn == open = 0 /\ open' = LastTurn(log) + 1 /\ Logs(TurnStart(open'))

BeginStep == open # 0 /\ Logs(StepStart(open)) /\ UNCHANGED open

\* completed, blocked by pre-step, aborted, or failed.
EndTurn(reason) == open # 0 /\ Logs(TurnEnd(open, reason)) /\ open' = 0

\* The last turn, if it has no end.
OpenTurn(events) ==
  LET t == LastTurn(events)
  IN IF \E i \in DOMAIN events : events[i].type = "turn/end" /\ events[i].turn = t THEN 0 ELSE t

\* A crash keeps a prefix; the next load closes its open turn and replays it.
Restart(n) ==
  LET kept == SubSeq(log, 1, n)
      t == OpenTurn(kept)
      repaired == IF t = 0 THEN kept ELSE Append(kept, TurnEnd(t, "interrupted"))
  IN /\ n \in seedLength .. Len(log)
     /\ Len(repaired) <= MaxEvents
     /\ log' = repaired
     /\ inbox' = Replay(OwnedBy(repaired, seedLength)).inbox
     /\ open' = 0
     /\ UNCHANGED seedLength

\* A fork inherits the parent's events but none of its pending input.
Fork ==
  /\ open = 0
  /\ seedLength' = Len(log)
  /\ inbox' = EmptyInbox
  /\ UNCHANGED <<log, open>>

-----------------------------------------------------------------------------
\* foldConsumedWork.

AccountsForClaim(reason) == reason # "completed"

\* Mutant: a replaced message counts as dropped.
DropsReplacedToo(e) == e.outcome = "canceled"

\* A cancellation that leaves nothing behind.
DropsUnrun(e) == e.outcome = "canceled" /\ e.inserted = <<>>

NoWork == [stepped |-> {}, claimed |-> {}, open |-> 0, end |-> 0, droppedUnrun |-> FALSE]

\* The loop body; i is the event's position.
Account(w, e, i) ==
  CASE e.type = "turn/start" -> [w EXCEPT !.open = e.turn]
    [] e.type = "step/start" -> [w EXCEPT !.stepped = @ \cup {e.turn}]
    [] e.type = "agent/inbox/spliced" ->
         IF e.removedCount = 0 THEN w
         ELSE IF e.outcome = "canceled" THEN [w EXCEPT !.droppedUnrun = @ \/ DropsUnrun(e)]
         ELSE IF w.open # 0 THEN [w EXCEPT !.claimed = @ \cup {w.open}] ELSE w
    [] e.type = "turn/end" ->
         IF e.turn \in w.stepped
         THEN [w EXCEPT !.open = 0, !.stepped = @ \ {e.turn}, !.end = i, !.droppedUnrun = FALSE]
         ELSE IF e.turn \in w.claimed /\ AccountsForClaim(e.reason)
         THEN [w EXCEPT !.open = 0, !.claimed = @ \ {e.turn}, !.end = i, !.droppedUnrun = FALSE]
         ELSE [w EXCEPT !.open = 0, !.claimed = @ \ {e.turn}]

Accounts(events) ==
  LET w[i \in 0 .. Len(events)] == IF i = 0 THEN NoWork ELSE Account(w[i - 1], events[i], i)
  IN w
FoldConsumedWork(events) == Accounts(events)[Len(events)]

-----------------------------------------------------------------------------
Init == inbox = EmptyInbox /\ log = <<>> /\ seedLength = 0 /\ open = 0

Next ==
  \/ \E t \in Targets, m \in Messages : AppendMessage(t, m) \/ Prepend(t, m)
  \/ \E m, new \in Messages : Replace(m, new)
  \/ \E m \in Messages : RemoveMessage(m)
  \/ \E t \in Targets, start \in Starts, count \in Counts, ins \in Inserts :
       SpliceCall(t, start, count, ins)
  \/ Clear
  \/ \E t \in Targets : Claim(t)
  \/ BeginTurn \/ BeginStep
  \/ \E reason \in {"completed", "blocked", "aborted", "error"} : EndTurn(reason)
  \/ \E n \in 0 .. Len(log) : Restart(n)
  \/ Fork

Spec == Init /\ [][Next]_vars

-----------------------------------------------------------------------------
Turns == Nat \ {0}
Splices ==
  {e \in [type : {"agent/inbox/spliced"}, target : Targets, start : Nat, removedCount : Nat,
          inserted : Seq(Messages), outcome : {"canceled", "none"}] :
     e.outcome = "canceled" => e.removedCount > 0}
Reasons == {"completed", "blocked", "aborted", "error", "interrupted"}
Events ==
  [type : {"turn/start", "step/start"}, turn : Turns]
    \cup [type : {"turn/end"}, turn : Turns, reason : Reasons] \cup Splices

TypeOK ==
  /\ inbox \in [Targets -> Seq(Messages)]
  /\ log \in Seq(Events)
  /\ seedLength \in 0 .. Len(log)
  /\ open \in Nat

\* The session's own part of its log.
Owned == OwnedBy(log, seedLength)

\* The recorded splices are the live lists: at any moment a new process that replays the
\* log is accepted by validate and gets exactly the lists the old one had.
ReplayIsLive == Replay(Owned) = [ok |-> TRUE, inbox |-> inbox]

\* No message is pending twice, in one list or across the two, however it got there.
PendingOnce == IsInjective(inbox["next-turn"] \o inbox["next-step"])

\* The turn that ends at i took input: it entered a step, or claimed and did not complete.
EndsWork(events, i) ==
  /\ events[i].type = "turn/end"
  /\ \E s \in 1 .. i : /\ events[s] = TurnStart(events[i].turn)
                       /\ \E k \in s .. i :
                            \/ events[k].type = "step/start"
                            \/ /\ events[k].type = "agent/inbox/spliced"
                               /\ events[k].removedCount > 0 /\ events[k].outcome = "none"
                               /\ events[i].reason # "completed"

\* foldConsumedWork on a session's own events names the last turn that ended over work,
\* and reports dropped work exactly when input was cancelled, not replaced, after it.
WorkAccounted ==
  LET w == FoldConsumedWork(Owned)
      ends == {i \in DOMAIN Owned : EndsWork(Owned, i)}
  IN /\ w.end = (IF ends = {} THEN 0 ELSE Max(ends))
     /\ w.droppedUnrun = \E k \in w.end + 1 .. Len(Owned) :
                           /\ Owned[k].type = "agent/inbox/spliced"
                           /\ Owned[k].outcome = "canceled" /\ Owned[k].inserted = <<>>

=============================================================================
