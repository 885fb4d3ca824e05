--------------------------- MODULE AgentLifecycle ---------------------------
(***************************************************************************)
(* The life of an agent from the call that asks for it to the end of its   *)
(* teardown: AgentLoop's prepare, create, createAgent, resume and          *)
(* configured start, FactoryOwnership, and the enter/announce/detach       *)
(* protocol of the session store and the agent registry.                   *)
(*                                                                         *)
(* All attempts ask for one identity.  An attempt is one call; it and the  *)
(* agent it may publish are followed by two fibers that can be unloaded:   *)
(* the caller's ("owner") and the AgentLoop plugin's ("factory").  The     *)
(* code is single-threaded: a publication is one synchronous run, but the  *)
(* listeners it calls may call back.  `stack` holds the attempts whose     *)
(* synchronous run is on the call stack, innermost first; a reaction of a  *)
(* promise runs only when it is empty, a public call at any time.          *)
(***************************************************************************)
EXTENDS Naturals, Sequences

CONSTANT MaxAttempts  \* bound: the calls that ask for the identity

ASSUME MaxAttemptsAssumption == MaxAttempts \in Nat

VARIABLES life,      \* each fiber: "active", "unloading" or "gone"
          fired,     \* FactoryOwnership.dispose has run: no longer accepting
          joined,    \* the lifecycles and wrappers that dispose awaits
          tracked,   \* FactoryOwnership.liveAgents
          session,   \* the session store's entry for the identity
          agent,     \* the agent registry's entry for the identity
          att,       \* the attempts
          stack      \* the synchronous runs on the call stack

vars == <<life, fired, joined, tracked, session, agent, att, stack>>

\* Calls are numbered in the order they are made; an empty slot is 0.
Attempts == 1 .. MaxAttempts
None == 0

Fibers == {"owner", "factory"}
Kinds == {"create", "agent", "resume", "config", "configResume"}

\* A configured start restores an exact id (config) or resumes a stored one
\* (configResume); a restore that finds nothing goes on as a fresh create.
Configured == {"config", "configResume", "fresh"}
Synchronous == {"create", "fresh"}
Loading == {"resume", "config", "configResume"}
Signalled == {"agent", "resume"}

Idle == [pc |-> "off", kind |-> "create", aborted |-> FALSE, teardown |-> "none",
         byOwner |-> FALSE, follows |-> {}, held |-> "none", driver |-> "none",
         said |-> {}]

-----------------------------------------------------------------------------
(* Who owns an attempt, and what is on the stack. *)

OwnerOf(a) == IF att[a].kind \in Configured THEN "factory" ELSE "owner"

Active == life["factory"] = "active" /\ ~fired

Reaction == stack = <<>>
Top(a) == stack # <<>> /\ Head(stack) = a

Settled(a) == att[a].pc \in {"off", "live", "failed"}

\* FactoryOwnership.startupTasks: the wrappers of asynchronous calls and the
\* configured starts that have not settled.
StartupTasks == {a \in Attempts : ~Settled(a) /\ att[a].kind \notin {"create"}}

Put(a, r) == att' = [att EXCEPT ![a] = r]

-----------------------------------------------------------------------------
(* The memoized teardown. *)

\* What the first call of `dispose` does before its first await: abort and
\* cancel the driver.  A later call joins the one under way.
Begun(r, byOwner) ==
  IF r.teardown # "none" THEN r
  ELSE [r EXCEPT !.aborted = TRUE, !.teardown = "draining", !.byOwner = byOwner]

\* Mutant: a detach that removes whatever has the identity.
LeavesAny(slot, a) == None

\* A detach removes the exact entry it was created for.
Leaves(slot, a) == IF slot = a THEN None ELSE slot

\* The disposal edge of a registry pairs a creation edge that was begun.
WithDisposed(said, what) ==
  IF <<what, "created">> \in said THEN said \cup {<<what, "disposed">>} ELSE said

\* The driver is quiescent: whenIdle resolves.
Quiet(a) == att[a].driver # "busy"

\* The driver has been drained; the scope is unwound next.
Drained(a) ==
  /\ Reaction /\ att[a].teardown = "draining" /\ att[a].driver # "none" /\ Quiet(a)
  /\ Put(a, [att[a] EXCEPT !.teardown = "unwinding"])
  /\ UNCHANGED <<life, fired, joined, tracked, session, agent, stack>>

\* scope.dispose settles, or no machine was ever built: detachAgent removes the
\* entry, then listeners of agent/disposed run.
DetachAgent(a) ==
  /\ Reaction
  /\ \/ att[a].teardown = "unwinding"
     \/ att[a].teardown = "draining" /\ att[a].driver = "none"
  /\ agent' = Leaves(agent, a)
  /\ Put(a, [att[a] EXCEPT !.teardown = "detaching", !.said = WithDisposed(@, "agent")])
  /\ stack' = <<a>>
  /\ UNCHANGED <<life, fired, joined, tracked, session>>

\* A configured start is woken by the session/disposed that frees the identity.
Wakes(b, said) == att[b].pc = "waiting" /\ <<"session", "disposed">> \in said /\ agent = None

\* detachSession, untrack, and the return of the owner's effect.
DetachSession(a) ==
  LET said == WithDisposed(att[a].said, "session")
  IN /\ Top(a) /\ att[a].teardown = "detaching"
     /\ session' = Leaves(session, a)
     /\ att' = [b \in Attempts |->
          IF b = a THEN [att[a] EXCEPT !.teardown = "done", !.byOwner = FALSE,
                                            !.said = said, !.follows = @ \ {"life"}]
          ELSE IF session = a /\ Wakes(b, said) THEN [att[b] EXCEPT !.pc = "woken"]
          ELSE att[b]]
     /\ tracked' = tracked \ {a}
     /\ stack' = Tail(stack)
     /\ UNCHANGED <<life, fired, joined, agent>>

-----------------------------------------------------------------------------
(* Starting: the checks of prepare, and the load of a resume. *)

\* Mutant: what was active before an await is taken to be active after it.
CanAlways(r, owner) == ~r.aborted

\* prepare's assertActive, isActive and callerSignal checks.
CanPrepare(r, owner) == life[owner] = "active" /\ Active /\ ~r.aborted

\* create and createAgent first build a session, refused while one has the id.
CanBuild(r, owner) == session = None /\ CanPrepare(r, owner)

\* prepare registers the teardown with the factory and the owner, then mints
\* the scope, whose listeners may call back.
Prepare(a, r) ==
  /\ Put(a, [r EXCEPT !.pc = "minting", !.follows = {"life"}])
  /\ tracked' = tracked \cup {a}
  /\ stack' = <<a>> \o stack

\* An error before publication: the preparation is released, a configured
\* start goes on to ask whether anything is stored.
Rejected(r) ==
  [r EXCEPT !.pc = IF r.kind = "config" /\ Active THEN "listing" ELSE "failed",
            !.follows = @ \ {"load"},
            !.held = IF @ = "held" THEN "released" ELSE @]

\* resumeWith up to its first await.
Loads(r, owner) ==
  IF life[owner] # "active" \/ r.aborted \/ fired THEN Rejected(r)
  ELSE [r EXCEPT !.pc = "loading", !.follows = {"load"}, !.held = "asked"]

\* create, createAgent, resume and the two configured starts, each up to its
\* first await; only an exact id waits for an occupant to leave.  The caller's
\* signal may be aborted already.
Start(a, kind) ==
  /\ att[a].pc = "off" /\ \A b \in Attempts : b < a => att[b].pc # "off"
  /\ kind \in Configured => Active
  /\ \E aborted \in (IF kind \in Signalled THEN BOOLEAN ELSE {FALSE}) :
       LET r == [att[a] EXCEPT !.kind = kind, !.aborted = aborted]
           owner == IF kind \in Configured THEN "factory" ELSE "owner"
       IN \/ /\ kind \notin Loading /\ CanBuild(r, owner)
             /\ Prepare(a, r)
          \/ /\ kind \notin Loading /\ ~CanBuild(r, owner)
             /\ Put(a, [r EXCEPT !.pc = "failed"])
             /\ UNCHANGED <<tracked, stack>>
          \/ /\ kind \in Loading
             /\ Put(a, IF kind = "config" /\ (agent # None \/ session # None)
                       THEN [r EXCEPT !.pc = "waiting"] ELSE Loads(r, owner))
             /\ UNCHANGED <<tracked, stack>>
  /\ UNCHANGED <<life, fired, joined, session, agent>>

\* waitForDrainingConfiguredIdentity returns: the identity was free at some
\* disposal, or the factory is being torn down.
StopWaiting(a) ==
  /\ Reaction
  /\ \/ att[a].pc = "woken"
     \/ att[a].pc = "waiting" /\ fired
  /\ Put(a, IF Active THEN Loads(att[a], "factory") ELSE [att[a] EXCEPT !.pc = "failed"])
  /\ UNCHANGED <<life, fired, joined, tracked, session, agent, stack>>

\* persistence.prepare answers in time, fails, or loses to the fused signal.
Loaded(a) ==
  /\ Reaction /\ att[a].pc = "loading"
  /\ Put(a, [att[a] EXCEPT !.pc = "loaded", !.held = "held"])
  /\ UNCHANGED <<life, fired, joined, tracked, session, agent, stack>>

LoadFails(a) ==
  /\ Reaction /\ att[a].pc = "loading"
  /\ Put(a, Rejected([att[a] EXCEPT !.held = "none"]))
  /\ UNCHANGED <<life, fired, joined, tracked, session, agent, stack>>

\* Mutant: the operation is awaited without the signal.
NeverStops(a) == FALSE

\* raceAbort: an aborted signal ends the wait, whatever the operation does.
StopsWaiting(a) == att[a].aborted \/ fired

LoadAborted(a) ==
  /\ Reaction /\ att[a].pc = "loading" /\ StopsWaiting(a)
  /\ Put(a, Rejected(att[a]))
  /\ UNCHANGED <<life, fired, joined, tracked, session, agent, stack>>

\* Mutant: a preparation nobody awaits is dropped.
Dropped == "held"

\* releaseAbandoned: a preparation nobody awaits any more is released.
Abandoned == "released"

Arrives(a) ==
  /\ Reaction /\ att[a].held = "asked" /\ att[a].pc # "loading"
  /\ \E held \in {Abandoned, "none"} : Put(a, [att[a] EXCEPT !.held = held])
  /\ UNCHANGED <<life, fired, joined, tracked, session, agent, stack>>

\* After the load: the owner is unfollowed and everything is checked again.
Resumes(a) ==
  /\ Reaction /\ att[a].pc = "loaded"
  /\ IF CanPrepare(att[a], OwnerOf(a)) THEN Prepare(a, att[a])
     ELSE Put(a, Rejected(att[a])) /\ UNCHANGED <<tracked, stack>>
  /\ UNCHANGED <<life, fired, joined, session, agent>>

\* The artifact list of a failed configured restore: stored, unreadable, or
\* the identity taken or the factory unloaded meanwhile, and the start fails;
\* absent, and the identity is created.  A teardown still under way here is one
\* without a machine, over before the list is read.
Listed(a) ==
  /\ Reaction /\ att[a].pc = "listing" /\ att[a].teardown \in {"none", "done"}
  /\ \/ Put(a, [att[a] EXCEPT !.pc = "failed"]) /\ UNCHANGED <<tracked, stack>>
     \/ LET r == [Idle EXCEPT !.kind = "fresh", !.held = att[a].held]
        IN CanBuild(r, "factory") /\ Prepare(a, r)
  /\ UNCHANGED <<life, fired, joined, session, agent>>

-----------------------------------------------------------------------------
(* Minting, setup and publication. *)

\* The constructor throws, or the signal was aborted while it ran: prepare
\* disposes in the background and throws.
Mint(a) ==
  /\ Top(a) /\ att[a].pc = "minting"
  /\ \E built \in BOOLEAN :
       LET r == IF built THEN [att[a] EXCEPT !.driver = "idle"] ELSE att[a]
           ok == built /\ ~att[a].aborted
       IN /\ Put(a, IF ok THEN [r EXCEPT !.pc = IF r.kind \in Synchronous THEN "enter" ELSE "setup"]
                    ELSE Begun(Rejected(r), FALSE))
          /\ stack' = IF ok /\ r.kind \in Synchronous THEN stack ELSE Tail(stack)
  /\ UNCHANGED <<life, fired, joined, tracked, session, agent>>

\* setup settles; its commit and the publication run synchronously.
SetupEnds(a) ==
  /\ Reaction /\ att[a].pc = "setup"
  /\ Put(a, [att[a] EXCEPT !.pc = "enter"])
  /\ stack' = <<a>>
  /\ UNCHANGED <<life, fired, joined, tracked, session, agent>>

\* The catch of setupAndPublish awaits the teardown; create does not.
Failing(r) == Begun([r EXCEPT !.pc = IF r.kind \in Synchronous THEN "failed" ELSE "failing"], FALSE)

SetupFails(a) ==
  /\ Reaction /\ att[a].pc = "setup"
  /\ Put(a, Failing(att[a]))
  /\ UNCHANGED <<life, fired, joined, tracked, session, agent, stack>>

SetupAborted(a) ==
  /\ StopsWaiting(a)
  /\ SetupFails(a)

NextStage == [enter |-> "session", session |-> "agent", agent |-> "start", start |-> "live"]

\* A throwing commit or creation listener vetoes the publication; the
\* session-start notification cannot.
Vetoable(r) == r.pc \in {"session", "agent"} \/ (r.pc = "enter" /\ r.kind \notin Synchronous)

Vetoed(a) ==
  /\ Top(a) /\ Vetoable(att[a])
  /\ Put(a, Failing(att[a]))
  /\ stack' = Tail(stack)
  /\ UNCHANGED <<life, fired, joined, tracked, session, agent>>

\* assertLive before each stage of publish.
Live(r) == ~r.aborted

\* publish: enter both registries, announce the session, announce the agent,
\* notify session-start.  Leaving a stage means its listeners have returned.
Publish(a) ==
  LET r     == att[a]
      enter == r.pc = "enter" /\ Live(r) /\ session = None
      ok    == Live(r) /\ (r.pc = "enter" => session = None /\ agent = None)
      stage == NextStage[r.pc]
      said  == IF stage \in {"session", "agent"} THEN {<<stage, "created">>} ELSE {}
  IN /\ Top(a) /\ r.pc \in DOMAIN NextStage
     /\ session' = IF enter THEN a ELSE session
     /\ agent' = IF enter /\ agent = None THEN a ELSE agent
     /\ Put(a, IF ~ok THEN Failing(r)
               ELSE [r EXCEPT !.pc = stage, !.said = @ \cup said,
                              !.held = IF stage = "live" /\ @ = "held" THEN "released" ELSE @])
     /\ stack' = IF ok /\ stage # "live" THEN stack ELSE Tail(stack)
     /\ UNCHANGED <<life, fired, joined, tracked>>

\* The awaited rollback is over: the call rejects.
Fails(a) ==
  /\ Reaction /\ att[a].pc = "failing" /\ att[a].teardown = "done"
  /\ Put(a, Rejected(att[a]))
  /\ UNCHANGED <<life, fired, joined, tracked, session, agent, stack>>

-----------------------------------------------------------------------------
(* What the others do: the driver, the caller and the two fibers. *)

\* Deliveries from session-start on wake the driver.  Work sent after the
\* teardown began is the sender's error.
Wake(a) ==
  /\ att[a].pc \in {"start", "live"} /\ att[a].teardown = "none" /\ att[a].driver = "idle"
  /\ Put(a, [att[a] EXCEPT !.driver = "busy"])
  /\ UNCHANGED <<life, fired, joined, tracked, session, agent, stack>>

Rest(a) ==
  /\ Reaction /\ att[a].driver = "busy"
  /\ Put(a, [att[a] EXCEPT !.driver = "idle"])
  /\ UNCHANGED <<life, fired, joined, tracked, session, agent, stack>>

\* The caller's signal: it stays attached to a published agent, and means
\* nothing to it.
CallerAborts(a) ==
  /\ att[a].kind \in Signalled /\ att[a].pc \notin {"off", "failed"} /\ ~att[a].aborted
  /\ Put(a, [att[a] EXCEPT !.aborted = TRUE])
  /\ UNCHANGED <<life, fired, joined, tracked, session, agent, stack>>

\* AgentHandle.dispose: createAgent and resume hand the handle to the caller.
HandleDispose(a) ==
  /\ att[a].pc = "live" /\ att[a].kind \in Signalled /\ att[a].teardown = "none"
  /\ Put(a, Begun(att[a], FALSE))
  /\ UNCHANGED <<life, fired, joined, tracked, session, agent, stack>>

\* A fiber's unload closes it at once; its effects run in later reactions.
Unload(f) ==
  /\ life[f] = "active"
  /\ life' = [life EXCEPT ![f] = "unloading"]
  /\ UNCHANGED <<fired, joined, tracked, session, agent, att, stack>>

\* The two effects an attempt leaves with its owner.  The lifecycle's returns
\* at once when a teardown is already under way.
OwnerEffect(a) ==
  /\ Reaction /\ life[OwnerOf(a)] = "unloading"
  /\ \/ /\ "load" \in att[a].follows
        /\ Put(a, [att[a] EXCEPT !.aborted = TRUE, !.follows = @ \ {"load"}])
     \/ /\ "life" \in att[a].follows
        /\ Put(a, [Begun(att[a], TRUE) EXCEPT !.follows = @ \ {"life"}])
  /\ UNCHANGED <<life, fired, joined, tracked, session, agent, stack>>

\* FactoryOwnership.dispose up to its await.
FactoryDispose ==
  /\ Reaction /\ life["factory"] = "unloading" /\ ~fired
  /\ fired' = TRUE
  /\ joined' = [lives |-> tracked, tasks |-> StartupTasks]
  /\ att' = [a \in Attempts |-> IF a \in tracked THEN Begun(att[a], FALSE) ELSE att[a]]
  /\ UNCHANGED <<life, tracked, session, agent, stack>>

\* What an unloading fiber still awaits.
Awaits(f) ==
  \/ \E a \in Attempts : OwnerOf(a) = f /\ (att[a].follows # {} \/ att[a].byOwner)
  \/ /\ f = "factory"
     /\ \/ ~fired
        \/ \E a \in joined.lives : att[a].teardown # "done"
        \/ \E a \in joined.tasks : ~Settled(a)

Unloaded(f) ==
  /\ Reaction /\ life[f] = "unloading" /\ ~Awaits(f)
  /\ life' = [life EXCEPT ![f] = "gone"]
  /\ UNCHANGED <<fired, joined, tracked, session, agent, att, stack>>

-----------------------------------------------------------------------------
Init ==
  /\ life = [f \in Fibers |-> "active"]
  /\ fired = FALSE
  /\ joined = [lives |-> {}, tasks |-> {}]
  /\ tracked = {}
  /\ session = None /\ agent = None
  /\ att = [a \in Attempts |-> Idle]
  /\ stack = <<>>

Teardown(a) == Drained(a) \/ DetachAgent(a) \/ DetachSession(a)

\* What the single thread does without waiting for anybody.
Proceeds(a) ==
  \/ Teardown(a) \/ StopWaiting(a) \/ LoadAborted(a) \/ Resumes(a) \/ Listed(a)
  \/ Mint(a) \/ SetupAborted(a) \/ Publish(a) \/ Fails(a) \/ OwnerEffect(a)

\* What others may or may not do.
Environment(a) ==
  \/ \E kind \in Kinds : Start(a, kind)
  \/ Loaded(a) \/ LoadFails(a) \/ Arrives(a) \/ SetupEnds(a) \/ SetupFails(a) \/ Vetoed(a)
  \/ Wake(a) \/ Rest(a) \/ CallerAborts(a) \/ HandleDispose(a)

Next ==
  \/ \E a \in Attempts : Proceeds(a) \/ Environment(a)
  \/ \E f \in Fibers : Unload(f) \/ Unloaded(f)
  \/ FactoryDispose

Spec == Init /\ [][Next]_vars

\* The thread goes on, and a driver whose teardown has begun comes to rest.
\* Nothing is assumed of a load or a setup: either may never settle.
Fairness ==
  /\ \A a \in Attempts : WF_vars(Proceeds(a)) /\ WF_vars(att[a].teardown # "none" /\ Rest(a))
  /\ \A f \in Fibers : WF_vars(Unloaded(f))
  /\ WF_vars(FactoryDispose)

FairSpec == Spec /\ Fairness

-----------------------------------------------------------------------------
(* Properties. *)

\* The attempt is over: its call rejected or returned, and no teardown of it is
\* due or under way.
Over(a) ==
  \/ att[a].pc = "failed" /\ att[a].teardown \in {"none", "done"}
  \/ att[a].pc = "live" /\ att[a].teardown = "done"

\* Whatever stopped an attempt, and wherever it was stopped, it leaves nothing
\* behind: no registry entry, no teardown tracked by the factory, no effect on
\* its owner, no stored session held in reserve, and no creation
\* announced without its disposal.  (prepare's dispose, publish, raceAbortCall,
\* and both detachEntered.)
NothingLeftBehind ==
  \A a \in Attempts : Over(a) =>
    /\ session # a /\ agent # a /\ a \notin tracked
    /\ att[a].follows = {} /\ att[a].held # "held"
    /\ \A what \in {"session", "agent"} :
         (<<what, "created">> \in att[a].said) <=> (<<what, "disposed">> \in att[a].said)

\* A published agent is in both registries until its own teardown takes it
\* out, whatever the caller's signal, a losing attempt for the same identity or
\* a configured start does meanwhile; and it leaves only when its driver is at
\* rest.  (enter, detachEntered and dispose.)
LiveIsRegistered ==
  \A a \in Attempts :
    /\ att[a].pc = "live" /\ att[a].teardown \notin {"detaching", "done"} => session = a /\ agent = a
    /\ agent = a => session = a
    /\ att[a].driver = "busy" => agent = a

\* When the factory's unload has ended nothing of it is left and no call is
\* pending that could publish later; when an owner's has ended, every teardown
\* it began is over and no agent of its own is left without one.
\* (FactoryOwnership.dispose, trackWrapper, prepare's owner effect.)
UnloadIsFinal ==
  /\ life["factory"] = "gone" =>
       /\ session = None /\ agent = None /\ tracked = {}
       /\ \A a \in Attempts : Settled(a)
  /\ \A a \in Attempts : life[OwnerOf(a)] = "gone" =>
       /\ ~att[a].byOwner
       /\ session = a => att[a].teardown # "none"

\* An owner's unload ends only when its published agents have left the
\* registries: the caller's unload, the handle's disposal and the provider's
\* unload converge on one quiescence.  (prepare's dispose and owner effect.)
OwnerAwaitsQuiescence ==
  \A a \in Attempts : att[a].pc = "live" /\ life[OwnerOf(a)] = "gone" => session # a /\ agent # a

\* An unload ends although a load or a setup it interrupts never settles.
\* (raceAbort, raceAbortCall, waitWhileActive and the memoized dispose.)
UnloadEnds == \A f \in Fibers : life[f] = "unloading" ~> life[f] = "gone"
=============================================================================
