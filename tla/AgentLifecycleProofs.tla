------------------------ MODULE AgentLifecycleProofs ------------------------
(***************************************************************************)
(* Proofs about AgentLifecycle: a published agent is in both registries, an *)
(* attempt that is over leaves nothing behind, and an unload is final.      *)
(***************************************************************************)
EXTENDS AgentLifecycle, TLAPS

-----------------------------------------------------------------------------
(* The state space. *)

Places == {"off", "waiting", "woken", "loading", "loaded", "listing", "minting", "setup",
           "enter", "session", "agent", "start", "live", "failing", "failed"}

Announcements == {"session", "agent"} \X {"created", "disposed"}

Attempt ==
  [pc : Places, kind : Kinds \cup {"fresh"}, aborted : BOOLEAN,
   teardown : {"none", "draining", "unwinding", "detaching", "done"}, byOwner : BOOLEAN,
   follows : SUBSET {"load", "life"}, held : {"none", "asked", "held", "released"},
   driver : {"none", "idle", "busy"},
   said : SUBSET Announcements]

TypeOK ==
  /\ life \in [Fibers -> {"active", "unloading", "gone"}]
  /\ fired \in BOOLEAN
  /\ joined \in [lives : SUBSET Attempts, tasks : SUBSET Attempts]
  /\ tracked \in SUBSET Attempts
  /\ session \in Attempts \cup {None} /\ agent \in Attempts \cup {None}
  /\ att \in [Attempts -> Attempt]
  /\ stack \in Seq(Attempts)

-----------------------------------------------------------------------------
(* The inductive invariant. *)

\* Where an attempt is before its lifecycle is registered, and where its
\* synchronous run is on the call stack.
Early == {"off", "waiting", "woken", "loading", "loaded"}
Running == {"minting", "enter", "session", "agent", "start"}
Published == {"session", "agent", "start", "live"}

\* A synchronous run, and the listeners of agent/disposed, are on the stack: a
\* reaction meets neither half way.
OnCall(a) == \E i \in 1 .. Len(stack) : stack[i] = a

OnStack ==
  \A a \in Attempts : att[a].pc \in Running \/ att[a].teardown = "detaching" => OnCall(a)

\* No teardown begins under a synchronous run, and one that has begun aborts.
TeardownOf(r) ==
  /\ r.teardown # "none" => r.aborted = TRUE
  /\ r.pc \in Early \cup (Running \ {"enter"}) => r.teardown = "none"
  /\ r.pc = "enter" => r.teardown # "detaching"
  /\ r.teardown \in {"unwinding", "detaching", "done"} => r.driver # "busy"

TeardownShape == \A a \in Attempts : TeardownOf(att[a])

\* What each kind of call can be doing.
KindOf(r) ==
  /\ r.pc = "off" => r = Idle
  /\ r.pc \in {"waiting", "woken"} => r.kind = "config" /\ r.follows = {} /\ r.held = "none"
  /\ r.kind \in Synchronous => r.pc \in Running \cup {"off", "live", "failed"}
  /\ r.held = "held" =>
       r.kind \notin Synchronous /\ r.pc \in {"loaded", "setup", "failing"} \cup Running

KindShape == \A a \in Attempts : KindOf(att[a])

\* A disposal is announced after its creation, and when the teardown has
\* detached the registry; nothing is announced before the publication.
SaidOf(r) ==
  /\ \A what \in {"session", "agent"} :
       <<what, "disposed">> \in r.said => <<what, "created">> \in r.said
  /\ r.teardown = "none" /\ r.pc \notin Published => r.said = {}
  /\ r.teardown \in {"detaching", "done"} /\ <<"agent", "created">> \in r.said =>
       <<"agent", "disposed">> \in r.said
  /\ r.teardown = "done" /\ <<"session", "created">> \in r.said => <<"session", "disposed">> \in r.said

SaidShape == \A a \in Attempts : SaidOf(att[a])

\* Who has the entries: an attempt from `enter` to its own detach.
RegisteredOf(a) ==
  /\ session = a =>
       /\ a \in tracked /\ att[a].pc \in Published \cup {"failing", "failed"}
       /\ att[a].pc \in {"failing", "failed"} => att[a].teardown # "none"
  /\ agent = a => session = a /\ att[a].teardown # "detaching"
  /\ att[a].pc \in Published /\ att[a].teardown \notin {"detaching", "done"} =>
       session = a /\ agent = a
  /\ att[a].driver = "busy" => agent = a

Registered == \A a \in Attempts : RegisteredOf(a)

\* A registered lifecycle: the factory tracks it and its owner follows it,
\* until its teardown is over or the owner has begun it.
FollowedOf(a) ==
  /\ a \in tracked =>
       /\ att[a].teardown # "done" /\ att[a].pc \notin Early
       /\ att[a].pc \in {"failing", "failed", "listing"} => att[a].teardown # "none"
       /\ att[a].teardown = "none" => "life" \in att[a].follows
  /\ att[a].pc \in {"minting", "setup", "enter"} /\ att[a].teardown # "done" => a \in tracked
  /\ "life" \in att[a].follows => a \in tracked
  /\ "load" \in att[a].follows => att[a].pc \in {"loading", "loaded"}

Followed == \A a \in Attempts : FollowedOf(a)

\* An owner that is gone has nothing left of its attempts.
OwnerDone(a) == life[OwnerOf(a)] = "gone" => att[a].follows = {} /\ att[a].byOwner = FALSE

\* What the factory's unload has collected, and what has ended with an unload.
Collected ==
  /\ fired =>
       /\ life["factory"] # "active" /\ tracked \subseteq joined.lives
       /\ \A a \in Attempts : ~Settled(a) => a \in joined.tasks
  /\ life["factory"] = "gone" => fired /\ tracked = {} /\ \A a \in Attempts : Settled(a)
  /\ \A a \in Attempts : OwnerDone(a)

LifecycleInvariant ==
  /\ TypeOK /\ OnStack /\ TeardownShape /\ KindShape /\ SaidShape /\ Registered /\ Followed
  /\ Collected


-----------------------------------------------------------------------------
(* The operators on records. *)

LEMMA BegunFields ==
  ASSUME NEW r \in Attempt
  PROVE  LET q == Begun(r, FALSE)
         IN /\ q \in Attempt
            /\ q.pc = r.pc /\ q.kind = r.kind /\ q.follows = r.follows /\ q.held = r.held
            /\ q.driver = r.driver /\ q.said = r.said
            /\ q.teardown = IF r.teardown = "none" THEN "draining" ELSE r.teardown
            /\ q.teardown # "none" /\ (r.teardown = "none" => q.aborted = TRUE)
            /\ (r.teardown # "none" => q.aborted = r.aborted)
            /\ q.byOwner \in {FALSE, r.byOwner}
BY DEF Begun, Attempt

LEMMA BegunByOwnerFields ==
  ASSUME NEW r \in Attempt
  PROVE  LET q == Begun(r, TRUE)
         IN /\ q \in Attempt
            /\ q.pc = r.pc /\ q.kind = r.kind /\ q.follows = r.follows /\ q.held = r.held
            /\ q.driver = r.driver /\ q.said = r.said
            /\ q.teardown = IF r.teardown = "none" THEN "draining" ELSE r.teardown
            /\ q.teardown # "none" /\ (r.teardown = "none" => q.aborted = TRUE)
            /\ (r.teardown # "none" => q.aborted = r.aborted)
BY DEF Begun, Attempt

LEMMA RejectedFields ==
  ASSUME NEW r \in Attempt
  PROVE  LET q == Rejected(r)
         IN /\ q \in Attempt
            /\ q.pc \in {"listing", "failed"} /\ q.kind = r.kind /\ q.aborted = r.aborted
            /\ q.pc = "listing" => r.kind = "config" /\ Active
            /\ q.teardown = r.teardown /\ q.byOwner = r.byOwner /\ q.follows = r.follows \ {"load"}
            /\ q.held # "held" /\ q.driver = r.driver /\ q.said = r.said
<1>1. CASE r.kind = "config" /\ Active
  BY <1>1 DEF Rejected, Attempt, Places
<1>2. CASE ~(r.kind = "config" /\ Active)
  BY <1>2 DEF Rejected, Attempt, Places
<1> QED
  BY <1>1, <1>2

LEMMA FailingFields ==
  ASSUME NEW r \in Attempt
  PROVE  LET q == Failing(r)
         IN /\ q \in Attempt
            /\ q.pc = IF r.kind \in Synchronous THEN "failed" ELSE "failing"
            /\ q.kind = r.kind /\ q.follows = r.follows /\ q.held = r.held
            /\ q.driver = r.driver /\ q.said = r.said
            /\ q.teardown = IF r.teardown = "none" THEN "draining" ELSE r.teardown
            /\ q.teardown # "none" /\ (r.teardown = "none" => q.aborted = TRUE)
            /\ (r.teardown # "none" => q.aborted = r.aborted)
            /\ q.byOwner \in {FALSE, r.byOwner}
<1> DEFINE p == [r EXCEPT !.pc = IF r.kind \in Synchronous THEN "failed" ELSE "failing"]
<1>1. /\ p \in Attempt /\ p.pc = IF r.kind \in Synchronous THEN "failed" ELSE "failing"
      /\ p.kind = r.kind /\ p.follows = r.follows /\ p.held = r.held
      /\ p.driver = r.driver /\ p.said = r.said /\ p.teardown = r.teardown
      /\ p.aborted = r.aborted /\ p.byOwner = r.byOwner
  BY DEF Attempt, Places
<1>2. Failing(r) = Begun(p, FALSE)
  BY DEF Failing
<1> HIDE DEF p
<1>3. /\ Begun(p, FALSE) \in Attempt
      /\ Begun(p, FALSE).pc = p.pc /\ Begun(p, FALSE).kind = p.kind
      /\ Begun(p, FALSE).follows = p.follows /\ Begun(p, FALSE).held = p.held
      /\ Begun(p, FALSE).driver = p.driver /\ Begun(p, FALSE).said = p.said
      /\ Begun(p, FALSE).teardown = IF p.teardown = "none" THEN "draining" ELSE p.teardown
      /\ Begun(p, FALSE).teardown # "none"
  BY <1>1, BegunFields
<1>4. /\ p.teardown = "none" => Begun(p, FALSE).aborted = TRUE
      /\ p.teardown # "none" => Begun(p, FALSE).aborted = p.aborted
      /\ Begun(p, FALSE).byOwner \in {FALSE, p.byOwner}
  BY <1>1, BegunFields
<1>5. /\ r.teardown = "none" => Failing(r).aborted = TRUE
      /\ r.teardown # "none" => Failing(r).aborted = r.aborted
      /\ Failing(r).byOwner \in {FALSE, r.byOwner}
  BY <1>1, <1>2, <1>4
<1> QED
  BY <1>1, <1>2, <1>3, <1>5

LEMMA LoadsFields ==
  ASSUME NEW r \in Attempt, NEW f
  PROVE  LET q == Loads(r, f)
         IN /\ q \in Attempt
            /\ \/ /\ q.pc = "loading" /\ q.follows = {"load"} /\ q.held = "asked"
                  /\ life[f] = "active" /\ ~fired
               \/ /\ q.pc \in {"listing", "failed"} /\ q.follows = r.follows \ {"load"}
                  /\ q.held # "held" /\ (q.pc = "listing" => r.kind = "config" /\ Active)
            /\ q.kind = r.kind /\ q.aborted = r.aborted /\ q.teardown = r.teardown
            /\ q.byOwner = r.byOwner /\ q.driver = r.driver /\ q.said = r.said
<1> DEFINE p == [r EXCEPT !.pc = "loading", !.follows = {"load"}, !.held = "asked"]
<1>1. /\ p \in Attempt /\ p.pc = "loading" /\ p.follows = {"load"} /\ p.held = "asked"
      /\ p.kind = r.kind /\ p.aborted = r.aborted /\ p.teardown = r.teardown
      /\ p.byOwner = r.byOwner /\ p.driver = r.driver /\ p.said = r.said
  BY DEF Attempt, Places
<1>2. CASE life[f] # "active" \/ r.aborted \/ fired
  <2>1. Loads(r, f) = Rejected(r)
    BY <1>2 DEF Loads
  <2> QED
    BY <2>1, RejectedFields
<1>3. CASE ~(life[f] # "active" \/ r.aborted \/ fired)
  <2>1. Loads(r, f) = p
    BY <1>3 DEF Loads
  <2> QED
    BY <1>1, <1>3, <2>1
<1> QED
  BY <1>2, <1>3

\* prepare's record.
Prepared(r) == [r EXCEPT !.pc = "minting", !.follows = {"life"}]

LEMMA PreparedFields ==
  ASSUME NEW r \in Attempt
  PROVE  LET q == Prepared(r)
         IN /\ q \in Attempt
            /\ q.pc = "minting" /\ q.follows = {"life"}
            /\ q.kind = r.kind /\ q.aborted = r.aborted /\ q.teardown = r.teardown
            /\ q.byOwner = r.byOwner /\ q.held = r.held /\ q.driver = r.driver /\ q.said = r.said
BY DEF Prepared, Attempt, Places

LEMMA PutOne ==
  ASSUME att \in [Attempts -> Attempt], NEW a \in Attempts, NEW r \in Attempt, Put(a, r)
  PROVE  /\ att' \in [Attempts -> Attempt] /\ att'[a] = r
         /\ \A b \in Attempts : b # a => att'[b] = att[b]
BY DEF Put

-----------------------------------------------------------------------------
(* The stack. *)

LEMMA PushStack ==
  ASSUME stack \in Seq(Attempts), NEW a \in Attempts, stack' = <<a>> \o stack
  PROVE  stack' \in Seq(Attempts) /\ OnCall(a)' /\ \A b \in Attempts : OnCall(b) => OnCall(b)'
<1>1. /\ stack' \in Seq(Attempts) /\ Len(stack') = Len(stack) + 1 /\ stack'[1] = a /\ Len(stack) \in Nat
      /\ \A i \in 1 .. Len(stack) : stack'[i + 1] = stack[i]
  OBVIOUS
<1>2. OnCall(a)'
  BY <1>1 DEF OnCall
<1>3. ASSUME NEW b \in Attempts, OnCall(b) PROVE OnCall(b)'
  <2>1. PICK i \in 1 .. Len(stack) : stack[i] = b
    BY <1>3 DEF OnCall
  <2>2. i + 1 \in 1 .. Len(stack') /\ stack'[i + 1] = b
    BY <1>1, <2>1
  <2> QED
    BY <2>2 DEF OnCall
<1> QED
  BY <1>1, <1>2, <1>3

LEMMA FirstOnStack ==
  ASSUME NEW a \in Attempts, stack' = <<a>>
  PROVE  stack' \in Seq(Attempts) /\ OnCall(a)'
<1>1. stack' \in Seq(Attempts) /\ Len(stack') = 1 /\ stack'[1] = a
  OBVIOUS
<1> QED
  BY <1>1 DEF OnCall

LEMMA PopStack ==
  ASSUME stack \in Seq(Attempts), NEW a \in Attempts, Top(a), stack' = Tail(stack)
  PROVE  stack' \in Seq(Attempts) /\ \A b \in Attempts : OnCall(b) /\ b # a => OnCall(b)'
<1>1. /\ stack' \in Seq(Attempts) /\ Len(stack') = Len(stack) - 1 /\ stack[1] = a /\ Len(stack) \in Nat
      /\ \A i \in 1 .. Len(stack') : stack'[i] = stack[i + 1]
  BY DEF Top
<1>2. ASSUME NEW b \in Attempts, OnCall(b), b # a PROVE OnCall(b)'
  <2>1. PICK i \in 1 .. Len(stack) : stack[i] = b
    BY <1>2 DEF OnCall
  <2>2. i # 1
    BY <1>1, <1>2, <2>1
  <2>3. i - 1 \in 1 .. Len(stack') /\ stack'[i - 1] = b
    BY <1>1, <2>1, <2>2
  <2> QED
    BY <2>3 DEF OnCall
<1> QED
  BY <1>1, <1>2

LEMMA SameStack ==
  ASSUME stack' = stack
  PROVE  \A b \in Attempts : OnCall(b) => OnCall(b)'
BY DEF OnCall

\* A reaction meets no synchronous run.
LEMMA ReactionQuiet ==
  ASSUME OnStack, Reaction
  PROVE  \A b \in Attempts : att[b].pc \notin Running /\ att[b].teardown # "detaching"
<1>1. \A b \in Attempts : ~OnCall(b)
  <2>1. Len(stack) = 0
    BY DEF Reaction
  <2> QED
    BY <2>1 DEF OnCall
<1> QED
  BY <1>1 DEF OnStack

-----------------------------------------------------------------------------
(* What each action does to its attempt. *)

Only(a) == att' \in [Attempts -> Attempt] /\ \A b \in Attempts : b # a => att'[b] = att[b]

LEMMA DrainedDoes ==
  ASSUME TypeOK, NEW a \in Attempts, Drained(a)
  PROVE  LET r == att[a]
             q == att'[a]
         IN /\ Only(a)
            /\ Reaction /\ r.teardown = "draining" /\ r.driver = "idle"
            /\ q.teardown = "unwinding"
            /\ q.pc = r.pc /\ q.kind = r.kind /\ q.aborted = r.aborted /\ q.byOwner = r.byOwner
            /\ q.follows = r.follows /\ q.held = r.held /\ q.driver = r.driver
            /\ q.said = r.said
            /\ UNCHANGED <<life, fired, joined, tracked, session, agent, stack>>
<1> DEFINE u == [att[a] EXCEPT !.teardown = "unwinding"]
<1>1. att[a] \in Attempt /\ att \in [Attempts -> Attempt]
  BY DEF TypeOK
<1>2. u \in Attempt
  BY <1>1 DEF Attempt, Places
<1>3. Put(a, u)
  BY DEF Drained
<1>4. Only(a) /\ att'[a] = u
  BY <1>1, <1>2, <1>3, PutOne DEF Only
<1> QED
  BY <1>1, <1>4 DEF Drained, Attempt, Quiet

LEMMA LoadedDoes ==
  ASSUME TypeOK, NEW a \in Attempts, Loaded(a)
  PROVE  LET r == att[a]
             q == att'[a]
         IN /\ Only(a)
            /\ Reaction /\ r.pc = "loading" /\ q.pc = "loaded" /\ q.held = "held"
            /\ q.kind = r.kind /\ q.aborted = r.aborted /\ q.teardown = r.teardown
            /\ q.byOwner = r.byOwner /\ q.follows = r.follows /\ q.driver = r.driver
            /\ q.said = r.said
            /\ UNCHANGED <<life, fired, joined, tracked, session, agent, stack>>
<1> DEFINE u == [att[a] EXCEPT !.pc = "loaded", !.held = "held"]
<1>1. att[a] \in Attempt /\ att \in [Attempts -> Attempt]
  BY DEF TypeOK
<1>2. u \in Attempt
  BY <1>1 DEF Attempt, Places
<1>3. Put(a, u)
  BY DEF Loaded
<1>4. Only(a) /\ att'[a] = u
  BY <1>1, <1>2, <1>3, PutOne DEF Only
<1> QED
  BY <1>1, <1>4 DEF Loaded, Attempt

LEMMA SetupEndsDoes ==
  ASSUME TypeOK, NEW a \in Attempts, SetupEnds(a)
  PROVE  LET r == att[a]
             q == att'[a]
         IN /\ Only(a)
            /\ Reaction /\ r.pc = "setup" /\ q.pc = "enter" /\ stack' = <<a>>
            /\ q.kind = r.kind /\ q.aborted = r.aborted /\ q.teardown = r.teardown
            /\ q.byOwner = r.byOwner /\ q.follows = r.follows /\ q.held = r.held
            /\ q.driver = r.driver /\ q.said = r.said
            /\ UNCHANGED <<life, fired, joined, tracked, session, agent>>
<1> DEFINE u == [att[a] EXCEPT !.pc = "enter"]
<1>1. att[a] \in Attempt /\ att \in [Attempts -> Attempt]
  BY DEF TypeOK
<1>2. u \in Attempt
  BY <1>1 DEF Attempt, Places
<1>3. Put(a, u)
  BY DEF SetupEnds
<1>4. Only(a) /\ att'[a] = u
  BY <1>1, <1>2, <1>3, PutOne DEF Only
<1> QED
  BY <1>1, <1>4 DEF SetupEnds, Attempt

LEMMA WakeDoes ==
  ASSUME TypeOK, NEW a \in Attempts, Wake(a)
  PROVE  LET r == att[a]
             q == att'[a]
         IN /\ Only(a)
            /\ r.pc \in {"start", "live"} /\ r.teardown = "none" /\ q.driver = "busy"
            /\ q.pc = r.pc /\ q.kind = r.kind /\ q.aborted = r.aborted
            /\ q.teardown = r.teardown /\ q.byOwner = r.byOwner /\ q.follows = r.follows
            /\ q.held = r.held /\ q.said = r.said
            /\ UNCHANGED <<life, fired, joined, tracked, session, agent, stack>>
<1> DEFINE u == [att[a] EXCEPT !.driver = "busy"]
<1>1. att[a] \in Attempt /\ att \in [Attempts -> Attempt]
  BY DEF TypeOK
<1>2. u \in Attempt
  BY <1>1 DEF Attempt, Places
<1>3. Put(a, u)
  BY DEF Wake
<1>4. Only(a) /\ att'[a] = u
  BY <1>1, <1>2, <1>3, PutOne DEF Only
<1> QED
  BY <1>1, <1>4 DEF Wake, Attempt

LEMMA RestDoes ==
  ASSUME TypeOK, NEW a \in Attempts, Rest(a)
  PROVE  LET r == att[a]
             q == att'[a]
         IN /\ Only(a)
            /\ Reaction /\ r.driver = "busy" /\ q.driver = "idle"
            /\ q.pc = r.pc /\ q.kind = r.kind /\ q.aborted = r.aborted
            /\ q.teardown = r.teardown /\ q.byOwner = r.byOwner /\ q.follows = r.follows
            /\ q.held = r.held /\ q.said = r.said
            /\ UNCHANGED <<life, fired, joined, tracked, session, agent, stack>>
<1> DEFINE u == [att[a] EXCEPT !.driver = "idle"]
<1>1. att[a] \in Attempt /\ att \in [Attempts -> Attempt]
  BY DEF TypeOK
<1>2. u \in Attempt
  BY <1>1 DEF Attempt, Places
<1>3. Put(a, u)
  BY DEF Rest
<1>4. Only(a) /\ att'[a] = u
  BY <1>1, <1>2, <1>3, PutOne DEF Only
<1> QED
  BY <1>1, <1>4 DEF Rest, Attempt

LEMMA CallerAbortsDoes ==
  ASSUME TypeOK, NEW a \in Attempts, CallerAborts(a)
  PROVE  LET r == att[a]
             q == att'[a]
         IN /\ Only(a)
            /\ r.pc # "off" /\ q.aborted = TRUE
            /\ q.pc = r.pc /\ q.kind = r.kind /\ q.teardown = r.teardown
            /\ q.byOwner = r.byOwner /\ q.follows = r.follows /\ q.held = r.held
            /\ q.driver = r.driver /\ q.said = r.said
            /\ UNCHANGED <<life, fired, joined, tracked, session, agent, stack>>
<1> DEFINE u == [att[a] EXCEPT !.aborted = TRUE]
<1>1. att[a] \in Attempt /\ att \in [Attempts -> Attempt]
  BY DEF TypeOK
<1>2. u \in Attempt
  BY <1>1 DEF Attempt, Places
<1>3. Put(a, u)
  BY DEF CallerAborts
<1>4. Only(a) /\ att'[a] = u
  BY <1>1, <1>2, <1>3, PutOne DEF Only
<1> QED
  BY <1>1, <1>4 DEF CallerAborts, Attempt

LEMMA DetachAgentDoes ==
  ASSUME TypeOK, NEW a \in Attempts, DetachAgent(a)
  PROVE  LET r == att[a]
             q == att'[a]
         IN /\ Only(a)
            /\ Reaction /\ q.teardown = "detaching"
            /\ r.teardown = "unwinding" \/ (r.teardown = "draining" /\ r.driver = "none")
            /\ q.said = WithDisposed(r.said, "agent") /\ agent' = Leaves(agent, a)
            /\ stack' = <<a>>
            /\ q.pc = r.pc /\ q.kind = r.kind /\ q.aborted = r.aborted /\ q.byOwner = r.byOwner
            /\ q.follows = r.follows /\ q.held = r.held /\ q.driver = r.driver
            /\ UNCHANGED <<life, fired, joined, tracked, session>>
<1> DEFINE u == [att[a] EXCEPT !.teardown = "detaching", !.said = WithDisposed(@, "agent")]
<1>1. att[a] \in Attempt /\ att \in [Attempts -> Attempt]
  BY DEF TypeOK
<1>2. u \in Attempt
  <2>1. WithDisposed(att[a].said, "agent") \in SUBSET Announcements
    BY <1>1 DEF WithDisposed, Attempt, Announcements
  <2> QED
    BY <1>1, <2>1 DEF Attempt
<1>3. Put(a, u)
  BY DEF DetachAgent
<1>4. Only(a) /\ att'[a] = u
  BY <1>1, <1>2, <1>3, PutOne DEF Only
<1> QED
  BY <1>1, <1>4 DEF DetachAgent, Attempt

LEMMA ArrivesDoes ==
  ASSUME TypeOK, NEW a \in Attempts, Arrives(a)
  PROVE  LET r == att[a]
             q == att'[a]
         IN /\ Only(a)
            /\ Reaction /\ r.held = "asked" /\ q.held # "held"
            /\ q.pc = r.pc /\ q.kind = r.kind /\ q.aborted = r.aborted
            /\ q.teardown = r.teardown /\ q.byOwner = r.byOwner /\ q.follows = r.follows
            /\ q.driver = r.driver /\ q.said = r.said
            /\ UNCHANGED <<life, fired, joined, tracked, session, agent, stack>>
<1>1. att[a] \in Attempt /\ att \in [Attempts -> Attempt]
  BY DEF TypeOK
<1>2. PICK held \in {Abandoned, "none"} : Put(a, [att[a] EXCEPT !.held = held])
  BY DEF Arrives
<1>3. held \in {"released", "none"}
  BY <1>2 DEF Abandoned
<1>4. [att[a] EXCEPT !.held = held] \in Attempt
  BY <1>1, <1>3 DEF Attempt
<1>5. Only(a) /\ att'[a] = [att[a] EXCEPT !.held = held]
  BY <1>1, <1>2, <1>4, PutOne DEF Only
<1> QED
  BY <1>1, <1>3, <1>5 DEF Arrives, Attempt

LEMMA LoadAbortedDoes ==
  ASSUME TypeOK, NEW a \in Attempts, LoadAborted(a)
  PROVE  LET r == att[a]
             q == att'[a]
         IN /\ Only(a)
            /\ Reaction /\ r.pc = "loading"
            /\ q.pc \in {"listing", "failed"}
            /\ (q.pc = "listing" => r.kind = "config" /\ Active)
            /\ q.follows = r.follows \ {"load"} /\ q.held # "held"
            /\ q.kind = r.kind /\ q.aborted = r.aborted /\ q.teardown = r.teardown
            /\ q.byOwner = r.byOwner /\ q.driver = r.driver /\ q.said = r.said
            /\ UNCHANGED <<life, fired, joined, tracked, session, agent, stack>>
<1>1. att[a] \in Attempt /\ att \in [Attempts -> Attempt]
  BY DEF TypeOK
<1>2. Put(a, Rejected(att[a]))
  BY DEF LoadAborted
<1>3. Only(a) /\ att'[a] = Rejected(att[a])
  BY <1>1, <1>2, RejectedFields, PutOne DEF Only
<1> QED
  BY <1>1, <1>3, RejectedFields DEF LoadAborted

LEMMA FailsDoes ==
  ASSUME TypeOK, NEW a \in Attempts, Fails(a)
  PROVE  LET r == att[a]
             q == att'[a]
         IN /\ Only(a)
            /\ Reaction /\ r.pc = "failing" /\ r.teardown = "done"
            /\ q.pc \in {"listing", "failed"}
            /\ (q.pc = "listing" => r.kind = "config" /\ Active)
            /\ q.follows = r.follows \ {"load"} /\ q.held # "held"
            /\ q.kind = r.kind /\ q.aborted = r.aborted /\ q.teardown = r.teardown
            /\ q.byOwner = r.byOwner /\ q.driver = r.driver /\ q.said = r.said
            /\ UNCHANGED <<life, fired, joined, tracked, session, agent, stack>>
<1>1. att[a] \in Attempt /\ att \in [Attempts -> Attempt]
  BY DEF TypeOK
<1>2. Put(a, Rejected(att[a]))
  BY DEF Fails
<1>3. Only(a) /\ att'[a] = Rejected(att[a])
  BY <1>1, <1>2, RejectedFields, PutOne DEF Only
<1> QED
  BY <1>1, <1>3, RejectedFields DEF Fails

LEMMA LoadFailsDoes ==
  ASSUME TypeOK, NEW a \in Attempts, LoadFails(a)
  PROVE  LET r == att[a]
             q == att'[a]
         IN /\ Only(a)
            /\ Reaction /\ r.pc = "loading"
            /\ q.pc \in {"listing", "failed"}
            /\ (q.pc = "listing" => r.kind = "config" /\ Active)
            /\ q.follows = r.follows \ {"load"} /\ q.held # "held"
            /\ q.kind = r.kind /\ q.aborted = r.aborted /\ q.teardown = r.teardown
            /\ q.byOwner = r.byOwner /\ q.driver = r.driver /\ q.said = r.said
            /\ UNCHANGED <<life, fired, joined, tracked, session, agent, stack>>
<1> DEFINE u == [att[a] EXCEPT !.held = "none"]
<1>1. att[a] \in Attempt /\ att \in [Attempts -> Attempt]
  BY DEF TypeOK
<1>2. /\ u \in Attempt
      /\ u.pc = att[a].pc /\ u.kind = att[a].kind /\ u.aborted = att[a].aborted
      /\ u.teardown = att[a].teardown /\ u.byOwner = att[a].byOwner /\ u.follows = att[a].follows
      /\ u.driver = att[a].driver /\ u.said = att[a].said
  BY <1>1 DEF Attempt
<1>3. Put(a, Rejected(u))
  BY DEF LoadFails
<1> HIDE DEF u
<1>4. Only(a) /\ att'[a] = Rejected(u)
  BY <1>1, <1>2, <1>3, RejectedFields, PutOne DEF Only
<1> QED
  BY <1>1, <1>2, <1>4, RejectedFields DEF LoadFails

LEMMA PutFailingDoes ==
  ASSUME TypeOK, NEW a \in Attempts, Put(a, Failing(att[a]))
  PROVE  LET r == att[a]
             q == att'[a]
         IN /\ Only(a)
            /\ q.pc = (IF r.kind \in Synchronous THEN "failed" ELSE "failing")
            /\ q.teardown = (IF r.teardown = "none" THEN "draining" ELSE r.teardown)
            /\ (r.teardown = "none" => q.aborted = TRUE)
            /\ (r.teardown # "none" => q.aborted = r.aborted)
            /\ q.byOwner \in {FALSE, r.byOwner}
            /\ q.kind = r.kind /\ q.follows = r.follows /\ q.held = r.held
            /\ q.driver = r.driver /\ q.said = r.said
<1>1. att[a] \in Attempt /\ att \in [Attempts -> Attempt]
  BY DEF TypeOK
<1>2. Only(a) /\ att'[a] = Failing(att[a])
  BY <1>1, FailingFields, PutOne DEF Only
<1>3. LET r == att[a]
          q == Failing(att[a])
      IN /\ (r.teardown = "none" => q.aborted = TRUE) /\ (r.teardown # "none" => q.aborted = r.aborted)
         /\ q.byOwner \in {FALSE, r.byOwner}
  BY <1>1, FailingFields
<1>4. LET r == att[a]
          q == Failing(att[a])
      IN /\ q.pc = (IF r.kind \in Synchronous THEN "failed" ELSE "failing")
         /\ q.teardown = (IF r.teardown = "none" THEN "draining" ELSE r.teardown)
         /\ q.kind = r.kind /\ q.follows = r.follows /\ q.held = r.held /\ q.driver = r.driver
         /\ q.said = r.said
  BY <1>1, FailingFields
<1> QED
  BY <1>2, <1>3, <1>4

LEMMA SetupFailsDoes ==
  ASSUME TypeOK, NEW a \in Attempts, SetupFails(a)
  PROVE  LET r == att[a]
             q == att'[a]
         IN /\ Only(a)
            /\ Reaction /\ r.pc = "setup"
            /\ q.pc = (IF r.kind \in Synchronous THEN "failed" ELSE "failing")
            /\ q.teardown = (IF r.teardown = "none" THEN "draining" ELSE r.teardown)
            /\ (r.teardown = "none" => q.aborted = TRUE)
            /\ (r.teardown # "none" => q.aborted = r.aborted)
            /\ q.byOwner \in {FALSE, r.byOwner}
            /\ q.kind = r.kind /\ q.follows = r.follows /\ q.held = r.held
            /\ q.driver = r.driver /\ q.said = r.said
            /\ UNCHANGED <<life, fired, joined, tracked, session, agent, stack>>
<1>1. Put(a, Failing(att[a]))
  BY DEF SetupFails
<1>2. Reaction /\ att[a].pc = "setup" /\ UNCHANGED <<life, fired, joined, tracked, session, agent, stack>>
  BY DEF SetupFails
<1> QED
  BY <1>1, <1>2, PutFailingDoes

LEMMA VetoedDoes ==
  ASSUME TypeOK, NEW a \in Attempts, Vetoed(a)
  PROVE  LET r == att[a]
             q == att'[a]
         IN /\ Only(a)
            /\ Top(a) /\ r.pc \in {"enter", "session", "agent"} /\ stack' = Tail(stack)
            /\ q.pc = (IF r.kind \in Synchronous THEN "failed" ELSE "failing")
            /\ q.teardown = (IF r.teardown = "none" THEN "draining" ELSE r.teardown)
            /\ (r.teardown = "none" => q.aborted = TRUE)
            /\ (r.teardown # "none" => q.aborted = r.aborted)
            /\ q.byOwner \in {FALSE, r.byOwner}
            /\ q.kind = r.kind /\ q.follows = r.follows /\ q.held = r.held
            /\ q.driver = r.driver /\ q.said = r.said
            /\ UNCHANGED <<life, fired, joined, tracked, session, agent>>
<1>1. Put(a, Failing(att[a]))
  BY DEF Vetoed
<1>2. /\ Top(a) /\ att[a].pc \in {"enter", "session", "agent"} /\ stack' = Tail(stack)
      /\ UNCHANGED <<life, fired, joined, tracked, session, agent>>
  BY DEF Vetoed, Vetoable
<1> QED
  BY <1>1, <1>2, PutFailingDoes

LEMMA HandleDisposeDoes ==
  ASSUME TypeOK, NEW a \in Attempts, HandleDispose(a)
  PROVE  LET r == att[a]
             q == att'[a]
         IN /\ Only(a)
            /\ r.pc = "live" /\ r.teardown = "none" /\ q.teardown = "draining"
            /\ q.aborted = TRUE
            /\ q.byOwner \in {FALSE, r.byOwner}
            /\ q.pc = r.pc /\ q.kind = r.kind /\ q.follows = r.follows /\ q.held = r.held
            /\ q.driver = r.driver /\ q.said = r.said
            /\ UNCHANGED <<life, fired, joined, tracked, session, agent, stack>>
<1>1. att[a] \in Attempt /\ att \in [Attempts -> Attempt]
  BY DEF TypeOK
<1>2. Put(a, Begun(att[a], FALSE))
  BY DEF HandleDispose
<1>3. Only(a) /\ att'[a] = Begun(att[a], FALSE)
  BY <1>1, <1>2, BegunFields, PutOne DEF Only
<1>4. att[a].pc = "live" /\ att[a].teardown = "none"
  BY DEF HandleDispose
<1>5. UNCHANGED <<life, fired, joined, tracked, session, agent, stack>>
  BY DEF HandleDispose
<1> QED
  BY <1>1, <1>3, <1>4, <1>5, BegunFields

LEMMA StopWaitingDoes ==
  ASSUME TypeOK, NEW a \in Attempts, StopWaiting(a), KindShape
  PROVE  LET r == att[a]
             q == att'[a]
         IN /\ Only(a)
            /\ Reaction /\ r.pc \in {"woken", "waiting"} /\ q.held # "held"
            /\ (\/ q.pc = "loading" /\ q.follows = {"load"} /\ life["factory"] = "active" /\ ~fired
                \/ q.pc \in {"listing", "failed"} /\ q.follows \subseteq r.follows \ {"load"} /\ (q.pc = "listing" => r.kind = "config" /\ Active))
            /\ q.kind = r.kind /\ q.aborted = r.aborted /\ q.teardown = r.teardown
            /\ q.byOwner = r.byOwner /\ q.driver = r.driver /\ q.said = r.said
            /\ UNCHANGED <<life, fired, joined, tracked, session, agent, stack>>
<1>1. att[a] \in Attempt /\ att \in [Attempts -> Attempt]
  BY DEF TypeOK
<1>2. Reaction /\ att[a].pc \in {"woken", "waiting"} /\ UNCHANGED <<life, fired, joined, tracked, session, agent, stack>>
  BY DEF StopWaiting
<1>3. att[a].follows = {} /\ att[a].held # "held"
  BY <1>2 DEF KindShape, KindOf
<1>4. CASE Active
  <2>1. Put(a, Loads(att[a], "factory"))
    BY <1>4 DEF StopWaiting
  <2>2. Only(a) /\ att'[a] = Loads(att[a], "factory")
    BY <1>1, <2>1, LoadsFields, PutOne DEF Only
  <2>3. LET r == att[a]
            q == Loads(att[a], "factory")
        IN /\ \/ q.pc = "loading" /\ q.follows = {"load"} /\ life["factory"] = "active" /\ ~fired
              \/ q.pc \in {"listing", "failed"} /\ q.follows \subseteq r.follows \ {"load"} /\ (q.pc = "listing" => r.kind = "config" /\ Active)
           /\ q.held # "held"
           /\  q.kind = r.kind /\ q.aborted = r.aborted /\ q.teardown = r.teardown
           /\ q.byOwner = r.byOwner /\ q.driver = r.driver /\ q.said = r.said
    BY <1>1, LoadsFields
  <2> QED
    BY <1>2, <2>2, <2>3
<1>5. CASE ~Active
  <2> DEFINE u == [att[a] EXCEPT !.pc = "failed"]
  <2>1. Put(a, u)
    BY <1>5 DEF StopWaiting
  <2>2. u \in Attempt
    BY <1>1 DEF Attempt, Places
  <2>3. Only(a) /\ att'[a] = u
    BY <1>1, <2>1, <2>2, PutOne DEF Only
  <2> QED
    BY <1>1, <1>2, <1>3, <2>3 DEF Attempt
<1> QED
  BY <1>4, <1>5

LEMMA ResumesDoes ==
  ASSUME TypeOK, NEW a \in Attempts, Resumes(a)
  PROVE  LET r == att[a]
             q == att'[a]
         IN /\ Only(a)
            /\ Reaction /\ r.pc = "loaded"
            /\ (\/ /\ q.pc = "minting" /\ q.follows = {"life"} /\ q.held = r.held
                   /\ CanPrepare(r, OwnerOf(a)) /\ tracked' = tracked \cup {a} /\ stack' = <<a>> \o stack
                \/ /\ q.pc \in {"listing", "failed"} /\ (q.pc = "listing" => r.kind = "config" /\ Active)
                   /\ q.follows = r.follows \ {"load"} /\ q.held # "held" /\ UNCHANGED <<tracked, stack>>)
            /\ q.kind = r.kind /\ q.aborted = r.aborted /\ q.teardown = r.teardown
            /\ q.byOwner = r.byOwner /\ q.driver = r.driver /\ q.said = r.said
            /\ UNCHANGED <<life, fired, joined, session, agent>>
<1>1. att[a] \in Attempt /\ att \in [Attempts -> Attempt]
  BY DEF TypeOK
<1>2. Reaction /\ att[a].pc = "loaded" /\ UNCHANGED <<life, fired, joined, session, agent>>
  BY DEF Resumes
<1>3. CASE CanPrepare(att[a], OwnerOf(a))
  <2>1. Put(a, Prepared(att[a])) /\ tracked' = tracked \cup {a} /\ stack' = <<a>> \o stack
    BY <1>3 DEF Resumes, Prepare, Prepared
  <2>2. Only(a) /\ att'[a] = Prepared(att[a])
    BY <1>1, <2>1, PreparedFields, PutOne DEF Only
  <2> QED
    BY <1>1, <1>2, <1>3, <2>1, <2>2, PreparedFields
<1>4. CASE ~CanPrepare(att[a], OwnerOf(a))
  <2>1. Put(a, Rejected(att[a])) /\ UNCHANGED <<tracked, stack>>
    BY <1>4 DEF Resumes
  <2>2. Only(a) /\ att'[a] = Rejected(att[a])
    BY <1>1, <2>1, RejectedFields, PutOne DEF Only
  <2> QED
    BY <1>1, <1>2, <2>1, <2>2, RejectedFields
<1> QED
  BY <1>3, <1>4

LEMMA ListedDoes ==
  ASSUME TypeOK, NEW a \in Attempts, Listed(a)
  PROVE  LET r == att[a]
             q == att'[a]
         IN /\ Only(a)
            /\ Reaction /\ r.pc = "listing" /\ r.teardown \in {"none", "done"}
            /\ (\/ /\ q.pc = "failed"
                   /\ q.kind = r.kind /\ q.aborted = r.aborted /\ q.teardown = r.teardown /\ q.byOwner = r.byOwner /\ q.follows = r.follows /\ q.held = r.held /\ q.driver = r.driver /\ q.said = r.said
                   /\ UNCHANGED <<tracked, stack>>
                \/ /\ q.pc = "minting" /\ q.kind = "fresh" /\ q.teardown = "none" /\ q.byOwner = FALSE
                   /\ q.follows = {"life"} /\ q.held = r.held /\ q.driver = "none" /\ q.said = {}
                   /\ session = None /\ life["factory"] = "active" /\ ~fired
                   /\ tracked' = tracked \cup {a} /\ stack' = <<a>> \o stack)
            /\ UNCHANGED <<life, fired, joined, session, agent>>
<1>1. att[a] \in Attempt /\ att \in [Attempts -> Attempt]
  BY DEF TypeOK
<1>2. Reaction /\ att[a].pc = "listing" /\ att[a].teardown \in {"none", "done"} /\ UNCHANGED <<life, fired, joined, session, agent>>
  BY DEF Listed
<1> DEFINE u == [att[a] EXCEPT !.pc = "failed"]
           v == [Idle EXCEPT !.kind = "fresh", !.held = att[a].held]
<1>3. CASE Put(a, u) /\ UNCHANGED <<tracked, stack>>
  <2>1. u \in Attempt
    BY <1>1 DEF Attempt, Places
  <2>2. Only(a) /\ att'[a] = u
    BY <1>1, <1>3, <2>1, PutOne DEF Only
  <2> QED
    BY <1>1, <1>2, <1>3, <2>2 DEF Attempt
<1>4. CASE CanBuild(v, "factory") /\ Prepare(a, v)
  <2>1. /\ v \in Attempt /\ v.kind = "fresh" /\ v.teardown = "none" /\ v.byOwner = FALSE
        /\ v.held = att[a].held /\ v.driver = "none" /\ v.said = {}
    BY <1>1 DEF Idle, Attempt, Places
  <2>2. session = None /\ life["factory"] = "active" /\ ~fired
    BY <1>4 DEF CanBuild, CanPrepare, Active
  <2>3. Put(a, Prepared(v)) /\ tracked' = tracked \cup {a} /\ stack' = <<a>> \o stack
    BY <1>4 DEF Prepare, Prepared
  <2> HIDE DEF v
  <2>4. Only(a) /\ att'[a] = Prepared(v)
    BY <1>1, <2>1, <2>3, PreparedFields, PutOne DEF Only
  <2> QED
    BY <1>2, <2>1, <2>2, <2>3, <2>4, PreparedFields
<1> QED
  BY <1>3, <1>4 DEF Listed

LEMMA MintDoes ==
  ASSUME TypeOK, NEW a \in Attempts, Mint(a)
  PROVE  LET r == att[a]
             q == att'[a]
         IN /\ Only(a)
            /\ Top(a) /\ r.pc = "minting" /\ q.kind = r.kind /\ q.said = r.said
            /\ (\/ /\ q.pc = (IF r.kind \in Synchronous THEN "enter" ELSE "setup") /\ q.driver = "idle"
                   /\ ~r.aborted /\ q.aborted = r.aborted /\ q.teardown = r.teardown /\ q.byOwner = r.byOwner /\ q.follows = r.follows /\ q.held = r.held
                   /\ stack' = (IF r.kind \in Synchronous THEN stack ELSE Tail(stack))
                \/ /\ q.pc \in {"listing", "failed"} /\ (q.pc = "listing" => r.kind = "config" /\ Active)
                   /\ q.teardown = (IF r.teardown = "none" THEN "draining" ELSE r.teardown)
                   /\ (r.teardown = "none" => q.aborted = TRUE) /\ (r.teardown # "none" => q.aborted = r.aborted)
                   /\ q.byOwner \in {FALSE, r.byOwner} /\ q.follows = r.follows \ {"load"} /\ q.held # "held"
                   /\ q.driver \in {r.driver, "idle"} /\ stack' = Tail(stack))
            /\ UNCHANGED <<life, fired, joined, tracked, session, agent>>
<1>1. att[a] \in Attempt /\ att \in [Attempts -> Attempt]
  BY DEF TypeOK
<1>2. Top(a) /\ att[a].pc = "minting" /\ UNCHANGED <<life, fired, joined, tracked, session, agent>>
  BY DEF Mint
<1> DEFINE u(built) == IF built THEN [att[a] EXCEPT !.driver = "idle"] ELSE att[a]
           ok(built) == built /\ ~att[a].aborted
           done(r) == [r EXCEPT !.pc = IF r.kind \in Synchronous THEN "enter" ELSE "setup"]
<1>3. PICK built \in BOOLEAN :
        /\ Put(a, IF ok(built) THEN done(u(built)) ELSE Begun(Rejected(u(built)), FALSE))
        /\ stack' = IF ok(built) /\ u(built).kind \in Synchronous THEN stack ELSE Tail(stack)
  BY DEF Mint
<1> DEFINE v == u(built)
<1>4. /\ v \in Attempt /\ v.pc = att[a].pc /\ v.kind = att[a].kind /\ v.aborted = att[a].aborted
      /\ v.teardown = att[a].teardown /\ v.byOwner = att[a].byOwner /\ v.follows = att[a].follows
      /\ v.held = att[a].held /\ v.said = att[a].said
      /\ v.driver \in {att[a].driver, "idle"} /\ (built => v.driver = "idle")
  BY <1>1 DEF Attempt
<1> HIDE DEF v
<1>5. CASE ok(built)
  <2> DEFINE w == done(v)
  <2>1. /\ w \in Attempt /\ w.pc = (IF v.kind \in Synchronous THEN "enter" ELSE "setup")
        /\ w.kind = v.kind /\ w.aborted = v.aborted /\ w.teardown = v.teardown /\ w.byOwner = v.byOwner
        /\ w.follows = v.follows /\ w.held = v.held /\ w.said = v.said /\ w.driver = v.driver
    BY <1>4 DEF Attempt, Places
  <2>2. Put(a, w) /\ stack' = (IF att[a].kind \in Synchronous THEN stack ELSE Tail(stack))
    BY <1>3, <1>4, <1>5 DEF v
  <2> HIDE DEF w
  <2>3. Only(a) /\ att'[a] = w
    BY <1>1, <2>1, <2>2, PutOne DEF Only
  <2>4. ~att[a].aborted /\ w.driver = "idle"
    BY <1>4, <1>5, <2>1
  <2> QED
    BY <1>2, <1>4, <2>1, <2>2, <2>3, <2>4
<1>6. CASE ~ok(built)
  <2> DEFINE w == Rejected(v)
             z == Begun(w, FALSE)
  <2>1. Put(a, z) /\ stack' = Tail(stack)
    BY <1>3, <1>6 DEF v
  <2>2. /\ w \in Attempt /\ w.pc \in {"listing", "failed"}
        /\ (w.pc = "listing" => v.kind = "config" /\ Active)
        /\ w.kind = v.kind /\ w.aborted = v.aborted /\ w.teardown = v.teardown /\ w.byOwner = v.byOwner
        /\ w.follows = v.follows \ {"load"} /\ w.held # "held" /\ w.said = v.said /\ w.driver = v.driver
    BY <1>4, RejectedFields
  <2> HIDE DEF w
  <2>3. /\ z \in Attempt /\ z.pc = w.pc /\ z.kind = w.kind /\ z.follows = w.follows /\ z.held = w.held
        /\ z.driver = w.driver /\ z.said = w.said
        /\ z.teardown = (IF w.teardown = "none" THEN "draining" ELSE w.teardown)
    BY <2>2, BegunFields
  <2>4. /\ (w.teardown = "none" => z.aborted = TRUE) /\ (w.teardown # "none" => z.aborted = w.aborted)
        /\ z.byOwner \in {FALSE, w.byOwner}
    BY <2>2, BegunFields
  <2> HIDE DEF z
  <2>5. Only(a) /\ att'[a] = z
    BY <1>1, <2>1, <2>3, PutOne DEF Only
  <2>6. LET r == att[a]
            q == att'[a]
        IN /\ (r.teardown = "none" => q.aborted = TRUE) /\ (r.teardown # "none" => q.aborted = r.aborted)
           /\ q.byOwner \in {FALSE, r.byOwner}
    BY <1>4, <2>2, <2>4, <2>5
  <2> QED
    BY <1>2, <1>4, <2>1, <2>2, <2>3, <2>5, <2>6
<1> QED
  BY <1>5, <1>6

\* publish goes on to its next stage, or its catch begins the teardown.
Advances(a) ==
  LET r == att[a]
      q == att'[a]
  IN /\ ~r.aborted
     /\ \/ r.pc = "enter" /\ q.pc = "session" /\ q.said = r.said \cup {<<"session", "created">>}
        \/ r.pc = "session" /\ q.pc = "agent" /\ q.said = r.said \cup {<<"agent", "created">>}
        \/ r.pc = "agent" /\ q.pc = "start" /\ q.said = r.said
        \/ r.pc = "start" /\ q.pc = "live" /\ q.said = r.said
     /\ (r.pc = "enter" => session = None /\ agent = None /\ session' = a /\ agent' = a)
     /\ (r.pc # "enter" => UNCHANGED <<session, agent>>)
     /\ q.held = (IF q.pc = "live" /\ r.held = "held" THEN "released" ELSE r.held)
     /\ stack' = (IF q.pc = "live" THEN Tail(stack) ELSE stack)
     /\ q.kind = r.kind /\ q.aborted = r.aborted /\ q.teardown = r.teardown
     /\ q.byOwner = r.byOwner /\ q.follows = r.follows /\ q.driver = r.driver

Refused(a) ==
  LET r == att[a]
      q == att'[a]
  IN /\ (r.pc # "enter" => UNCHANGED <<session, agent>>)
     /\ (r.pc = "enter" =>
           /\ r.aborted \/ session # None \/ agent # None
           /\ session' = (IF ~r.aborted /\ session = None THEN a ELSE session)
           /\ agent' = (IF ~r.aborted /\ session = None /\ agent = None THEN a ELSE agent))
     /\ stack' = Tail(stack)
     /\ q.pc = (IF r.kind \in Synchronous THEN "failed" ELSE "failing")
     /\ q.teardown = (IF r.teardown = "none" THEN "draining" ELSE r.teardown)
     /\ (r.teardown = "none" => q.aborted = TRUE)
     /\ (r.teardown # "none" => q.aborted = r.aborted)
     /\ q.byOwner \in {FALSE, r.byOwner}
     /\ q.kind = r.kind /\ q.follows = r.follows /\ q.held = r.held /\ q.driver = r.driver
     /\ q.said = r.said

LEMMA PublishDoes ==
  ASSUME TypeOK, NEW a \in Attempts, Publish(a)
  PROVE  LET r == att[a]
             q == att'[a]
         IN /\ Only(a)
            /\ Top(a) /\ r.pc \in {"enter", "session", "agent", "start"}
            /\ (Advances(a) \/ Refused(a))
            /\ UNCHANGED <<life, fired, joined, tracked>>
<1>1. att[a] \in Attempt /\ att \in [Attempts -> Attempt]
  BY DEF TypeOK
<1> DEFINE r == att[a]
           ok == Live(r) /\ (r.pc = "enter" => session = None /\ agent = None)
           stage == NextStage[r.pc]
           said == IF stage \in {"session", "agent"} THEN {<<stage, "created">>} ELSE {}
           u == [r EXCEPT !.pc = stage, !.said = @ \cup said,
                          !.held = IF stage = "live" /\ @ = "held" THEN "released" ELSE @]
           enter == r.pc = "enter" /\ Live(r) /\ session = None
<1>2. /\ Top(a) /\ r.pc \in {"enter", "session", "agent", "start"}
      /\ UNCHANGED <<life, fired, joined, tracked>>
  BY DEF Publish, NextStage
<1>3. /\ session' = IF enter THEN a ELSE session
      /\ agent' = IF enter /\ agent = None THEN a ELSE agent
  BY DEF Publish
<1>4. Put(a, IF ok THEN u ELSE Failing(r)) /\ stack' = IF ok /\ stage # "live" THEN stack ELSE Tail(stack)
  BY DEF Publish
<1>5. CASE ok
  <2>1. stage \in {"session", "agent", "start", "live"}
    BY <1>2 DEF NextStage
  <2>2. said \in SUBSET Announcements
    BY <2>1 DEF Announcements
  <2> DEFINE now == r.said \cup said
             held == IF stage = "live" /\ r.held = "held" THEN "released" ELSE r.held
  <2>3. now \in SUBSET Announcements /\ held \in {"none", "asked", "held", "released"}
    BY <1>1, <2>2 DEF Attempt
  <2>4. u = [r EXCEPT !.pc = stage, !.said = now, !.held = held]
    OBVIOUS
  <2> HIDE DEF stage, said, now, held, u
  <2>5. /\ u \in Attempt /\ u.pc = stage /\ u.said = now /\ u.held = held
        /\ u.kind = r.kind /\ u.teardown = r.teardown /\ u.follows = r.follows /\ u.driver = r.driver
    BY <1>1, <2>1, <2>3, <2>4 DEF Attempt, Places
  <2>6. u.aborted = r.aborted /\ u.byOwner = r.byOwner
    BY <1>1, <2>1, <2>3, <2>4 DEF Attempt, Places
  <2>7. Put(a, u) /\ stack' = (IF stage = "live" THEN Tail(stack) ELSE stack)
    BY <1>4, <1>5 DEF u, stage, said
  <2>8. Only(a) /\ att'[a] = u
    BY <1>1, <2>5, <2>7, PutOne DEF Only
  <2>9. ~r.aborted /\ (r.pc = "enter" => session = None /\ agent = None /\ session' = a /\ agent' = a)
        /\ (r.pc # "enter" => UNCHANGED <<session, agent>>)
    BY <1>3, <1>5 DEF Live
  <2> QED
    <3>1. /\ \/ r.pc = "enter" /\ stage = "session" /\ now = r.said \cup {<<"session", "created">>}
             \/ r.pc = "session" /\ stage = "agent" /\ now = r.said \cup {<<"agent", "created">>}
             \/ r.pc = "agent" /\ stage = "start" /\ now = r.said
             \/ r.pc = "start" /\ stage = "live" /\ now = r.said
      BY <1>2 DEF stage, said, now, NextStage
    <3>2. Advances(a)
      BY <2>5, <2>6, <2>7, <2>8, <2>9, <3>1 DEF Advances, held
    <3> QED
      BY <1>2, <2>8, <3>2
<1>6. CASE ~ok
  <2>1. Put(a, Failing(att[a])) /\ stack' = Tail(stack)
    BY <1>4, <1>6
  <2>2. /\ (r.pc # "enter" => UNCHANGED <<session, agent>>)
        /\ (r.pc = "enter" => session' = (IF ~r.aborted /\ session = None THEN a ELSE session))
        /\ (r.pc = "enter" => agent' = (IF ~r.aborted /\ session = None /\ agent = None THEN a ELSE agent))
        /\ (r.pc = "enter" => r.aborted \/ session # None \/ agent # None)
    BY <1>3, <1>6 DEF Live
  <2> QED
    <3>1. Refused(a)
      BY <2>1, <2>2, PutFailingDoes DEF Refused
    <3> QED
      BY <1>2, <2>1, <3>1, PutFailingDoes
<1> QED
  BY <1>5, <1>6

LEMMA OwnerEffectDoes ==
  ASSUME TypeOK, NEW a \in Attempts, OwnerEffect(a)
  PROVE  LET r == att[a]
             q == att'[a]
         IN /\ Only(a)
            /\ Reaction /\ life[OwnerOf(a)] = "unloading" /\ q.pc = r.pc /\ q.kind = r.kind
            /\ q.held = r.held /\ q.driver = r.driver /\ q.said = r.said
            /\ (\/ /\ "load" \in r.follows /\ q.follows = r.follows \ {"load"} /\ q.aborted = TRUE
                   /\ q.teardown = r.teardown /\ q.byOwner = r.byOwner
                \/ /\ "life" \in r.follows /\ q.follows = r.follows \ {"life"}
                   /\ q.teardown = (IF r.teardown = "none" THEN "draining" ELSE r.teardown)
                   /\ (r.teardown = "none" => q.aborted = TRUE) /\ (r.teardown # "none" => q.aborted = r.aborted))
            /\ UNCHANGED <<life, fired, joined, tracked, session, agent, stack>>
<1>1. att[a] \in Attempt /\ att \in [Attempts -> Attempt]
  BY DEF TypeOK
<1>2. Reaction /\ life[OwnerOf(a)] = "unloading" /\ UNCHANGED <<life, fired, joined, tracked, session, agent, stack>>
  BY DEF OwnerEffect
<1> DEFINE u == [att[a] EXCEPT !.aborted = TRUE, !.follows = @ \ {"load"}]
           b == Begun(att[a], TRUE)
           v == [b EXCEPT !.follows = @ \ {"life"}]
<1>3. CASE "load" \in att[a].follows /\ Put(a, u)
  <2>1. u \in Attempt
    BY <1>1 DEF Attempt
  <2>2. Only(a) /\ att'[a] = u
    BY <1>1, <1>3, <2>1, PutOne DEF Only
  <2> QED
    BY <1>1, <1>2, <1>3, <2>2 DEF Attempt
<1>4. CASE "life" \in att[a].follows /\ Put(a, v)
  <2>1. /\ b \in Attempt /\ b.pc = att[a].pc /\ b.kind = att[a].kind /\ b.follows = att[a].follows
        /\ b.held = att[a].held /\ b.driver = att[a].driver /\ b.said = att[a].said
        /\ b.teardown = (IF att[a].teardown = "none" THEN "draining" ELSE att[a].teardown)
    BY <1>1, BegunByOwnerFields
  <2>2. /\ (att[a].teardown = "none" => b.aborted = TRUE)
        /\ (att[a].teardown # "none" => b.aborted = att[a].aborted)
    BY <1>1, BegunByOwnerFields
  <2> HIDE DEF b
  <2>3. /\ v \in Attempt /\ v.pc = b.pc /\ v.kind = b.kind /\ v.follows = b.follows \ {"life"}
        /\ v.held = b.held /\ v.driver = b.driver /\ v.said = b.said /\ v.teardown = b.teardown
        /\ v.aborted = b.aborted
    BY <2>1 DEF Attempt
  <2> HIDE DEF v
  <2>4. Only(a) /\ att'[a] = v
    BY <1>1, <1>4, <2>3, PutOne DEF Only
  <2>5. LET r == att[a]
            q == att'[a]
        IN (r.teardown = "none" => q.aborted = TRUE) /\ (r.teardown # "none" => q.aborted = r.aborted)
    BY <2>2, <2>3, <2>4
  <2> QED
    BY <1>2, <1>4, <2>1, <2>3, <2>4, <2>5
<1> QED
  BY <1>3, <1>4 DEF OwnerEffect

LEMMA StartDoes ==
  ASSUME TypeOK, NEW a \in Attempts, NEW kind \in Kinds, Start(a, kind), KindShape
  PROVE  LET r == att[a]
             q == att'[a]
         IN /\ Only(a)
            /\ r = Idle /\ q.kind = kind /\ q.teardown = "none" /\ q.byOwner = FALSE
            /\ q.driver = "none" /\ q.said = {}
            /\ (q.kind = "config" => Active)
            /\ (\/ /\ q.pc = "minting" /\ q.follows = {"life"} /\ q.held = "none" /\ session = None
                   /\ kind \notin Loading /\ life["owner"] = "active" /\ ~fired
                   /\ life["factory"] = "active" /\ tracked' = tracked \cup {a} /\ stack' = <<a>> \o stack
                \/ /\ q.pc = "loading" /\ q.follows = {"load"} /\ q.held = "asked" /\ UNCHANGED <<tracked, stack>>
                   /\ kind \in Loading /\ life[IF kind \in Configured THEN "factory" ELSE "owner"] = "active" /\ ~fired
                \/ /\ q.pc \in {"listing", "failed", "waiting"} /\ q.follows = {} /\ q.held = "none"
                   /\ (q.pc # "failed" => kind = "config" /\ Active) /\ UNCHANGED <<tracked, stack>>)
            /\ UNCHANGED <<life, fired, joined, session, agent>>
<1>1. att[a] \in Attempt /\ att \in [Attempts -> Attempt] /\ att[a] = Idle
  BY DEF TypeOK, KindShape, KindOf, Start
<1>2. UNCHANGED <<life, fired, joined, session, agent>> /\ (kind = "config" => Active)
  BY DEF Start, Configured
<1> DEFINE u(ab) == [att[a] EXCEPT !.kind = kind, !.aborted = ab]
           owner == IF kind \in Configured THEN "factory" ELSE "owner"
<1>3. PICK ab \in BOOLEAN :
         \/ /\ kind \notin Loading /\ CanBuild(u(ab), owner)
            /\ Prepare(a, u(ab))
         \/ /\ kind \notin Loading /\ ~CanBuild(u(ab), owner)
            /\ Put(a, [u(ab) EXCEPT !.pc = "failed"])
            /\ UNCHANGED <<tracked, stack>>
         \/ /\ kind \in Loading
            /\ Put(a, IF kind = "config" /\ (agent # None \/ session # None)
                      THEN [u(ab) EXCEPT !.pc = "waiting"] ELSE Loads(u(ab), owner))
            /\ UNCHANGED <<tracked, stack>>
  BY DEF Start
<1> DEFINE v == u(ab)
<1>4. /\ v \in Attempt /\ v.pc = "off" /\ v.kind = kind /\ v.teardown = "none"
      /\ v.follows = {} /\ v.held = "none" /\ v.driver = "none" /\ v.said = {}
  <2>1. v \in Attempt
    <3>1. kind \in Kinds \cup {"fresh"}
      OBVIOUS
    <3>2. CASE ab = TRUE
      BY <1>1, <3>1, <3>2 DEF Attempt
    <3>3. CASE ab = FALSE
      BY <1>1, <3>1, <3>3 DEF Attempt
    <3> QED
      BY <3>2, <3>3
  <2>2. /\ v.pc = "off" /\ v.kind = kind /\ v.teardown = "none"
        /\ v.follows = {} /\ v.held = "none" /\ v.driver = "none" /\ v.said = {}
    BY <1>1 DEF Idle
  <2> QED
    BY <2>1, <2>2
<1>5. v.byOwner = FALSE
  BY <1>1 DEF Idle
<1> HIDE DEF v
<1>6. CASE kind \notin Loading /\ CanBuild(v, owner) /\ Prepare(a, v)
  <2>1. /\ session = None /\ life["owner"] = "active" /\ life["factory"] = "active" /\ ~fired
    BY <1>6 DEF CanBuild, CanPrepare, Active, Loading, Kinds, Configured
  <2>2. Put(a, Prepared(v)) /\ tracked' = tracked \cup {a} /\ stack' = <<a>> \o stack
    BY <1>6 DEF Prepare, Prepared
  <2>3. Only(a) /\ att'[a] = Prepared(v)
    BY <1>1, <1>4, <2>2, PreparedFields, PutOne DEF Only
  <2> QED
    BY <1>1, <1>2, <1>4, <1>5, <1>6, <2>1, <2>2, <2>3, PreparedFields
<1>7. CASE kind \notin Loading /\ Put(a, [v EXCEPT !.pc = "failed"]) /\ UNCHANGED <<tracked, stack>>
  <2> DEFINE w == [v EXCEPT !.pc = "failed"]
  <2>1. /\ w \in Attempt /\ w.pc = "failed" /\ w.kind = kind /\ w.teardown = "none" /\ w.follows = {}
        /\ w.held = "none" /\ w.driver = "none" /\ w.said = {} /\ w.byOwner = FALSE
    BY <1>4, <1>5 DEF Attempt, Places
  <2> HIDE DEF w
  <2>2. Only(a) /\ att'[a] = w
    BY <1>1, <1>7, <2>1, PutOne DEF Only, w
  <2> QED
    BY <1>1, <1>2, <1>7, <2>1, <2>2
<1>8. CASE kind = "config" /\ Put(a, [v EXCEPT !.pc = "waiting"]) /\ UNCHANGED <<tracked, stack>>
  <2> DEFINE w == [v EXCEPT !.pc = "waiting"]
  <2>1. /\ w \in Attempt /\ w.pc = "waiting" /\ w.kind = kind /\ w.teardown = "none" /\ w.follows = {}
        /\ w.held = "none" /\ w.driver = "none" /\ w.said = {} /\ w.byOwner = FALSE
    BY <1>4, <1>5 DEF Attempt, Places
  <2> HIDE DEF w
  <2>2. Only(a) /\ att'[a] = w
    BY <1>1, <1>8, <2>1, PutOne DEF Only, w
  <2> QED
    BY <1>1, <1>2, <1>8, <2>1, <2>2
<1>9. CASE kind \in Loading /\ Put(a, Loads(v, owner)) /\ UNCHANGED <<tracked, stack>>
  <2> DEFINE w == Loads(v, owner)
  <2>1. /\ w \in Attempt /\ w.kind = kind /\ w.teardown = "none" /\ w.driver = "none" /\ w.said = {}
        /\ w.byOwner = FALSE
        /\ \/ /\ w.pc = "loading" /\ w.follows = {"load"} /\ w.held = "asked" /\ life[owner] = "active" /\ ~fired
           \/ /\ w.pc \in {"listing", "failed"} /\ w.follows = {}
              /\ (w.pc = "listing" => kind = "config" /\ Active)
    BY <1>4, <1>5, LoadsFields
  <2>2. w.pc # "loading" => w.held = "none"
    BY <1>4 DEF Loads, Rejected, Attempt
  <2> HIDE DEF w
  <2>3. Only(a) /\ att'[a] = w
    BY <1>1, <1>9, <2>1, PutOne DEF Only, w
  <2> QED
    BY <1>1, <1>2, <1>9, <2>1, <2>2, <2>3
<1> QED
  BY <1>3, <1>6, <1>7, <1>8, <1>9 DEF v


LEMMA DetachSessionDoes ==
  ASSUME TypeOK, NEW a \in Attempts, DetachSession(a)
  PROVE  LET r == att[a]
             q == att'[a]
         IN /\ Top(a) /\ r.teardown = "detaching" /\ q.teardown = "done" /\ q.byOwner = FALSE
            /\ q.said = WithDisposed(r.said, "session") /\ q.follows = r.follows \ {"life"}
            /\ q.pc = r.pc /\ q.kind = r.kind /\ q.aborted = r.aborted /\ q.held = r.held /\ q.driver = r.driver
            /\ att' \in [Attempts -> Attempt]
            /\ \A b \in Attempts : b # a =>
                 \/ att'[b] = att[b]
                 \/ /\ att[b].pc = "waiting" /\ att'[b] = [att[b] EXCEPT !.pc = "woken"]
            /\ session' = Leaves(session, a) /\ tracked' = tracked \ {a} /\ stack' = Tail(stack)
            /\ UNCHANGED <<life, fired, joined, agent>>
<1> DEFINE said == WithDisposed(att[a].said, "session")
           u == [att[a] EXCEPT !.teardown = "done", !.byOwner = FALSE, !.said = said, !.follows = @ \ {"life"}]
           w(b) == [att[b] EXCEPT !.pc = "woken"]
<1>1. att[a] \in Attempt /\ att \in [Attempts -> Attempt]
  BY DEF TypeOK
<1>2. /\ Top(a) /\ att[a].teardown = "detaching" /\ session' = Leaves(session, a)
      /\ tracked' = tracked \ {a} /\ stack' = Tail(stack) /\ UNCHANGED <<life, fired, joined, agent>>
      /\ att' = [b \in Attempts |-> IF b = a THEN u
                                    ELSE IF session = a /\ Wakes(b, said) THEN w(b) ELSE att[b]]
  BY DEF DetachSession
<1>3. said \in SUBSET Announcements
  BY <1>1 DEF WithDisposed, Attempt, Announcements
<1> HIDE DEF said
<1>4. /\ u \in Attempt /\ u.teardown = "done" /\ u.byOwner = FALSE /\ u.said = said
      /\ u.follows = att[a].follows \ {"life"} /\ u.pc = att[a].pc /\ u.kind = att[a].kind
      /\ u.aborted = att[a].aborted /\ u.held = att[a].held /\ u.driver = att[a].driver
  BY <1>1, <1>3 DEF Attempt
<1>5. \A b \in Attempts : w(b) \in Attempt
  BY <1>1 DEF Attempt, Places
<1> HIDE DEF u, w
<1>6. att' \in [Attempts -> Attempt] /\ att'[a] = u
  BY <1>1, <1>2, <1>4, <1>5
<1>7. \A b \in Attempts : b # a => att'[b] = att[b] \/ (att[b].pc = "waiting" /\ att'[b] = w(b))
  BY <1>2 DEF Wakes
<1>8. /\ att'[a].teardown = "done" /\ att'[a].byOwner = FALSE /\ att'[a].said = said
      /\ att'[a].follows = att[a].follows \ {"life"} /\ att'[a].pc = att[a].pc /\ att'[a].kind = att[a].kind
      /\ att'[a].aborted = att[a].aborted /\ att'[a].held = att[a].held /\ att'[a].driver = att[a].driver
  BY <1>4, <1>6
<1> QED
  BY <1>2, <1>6, <1>7, <1>8 DEF said, w

LEMMA FactoryDisposeDoes ==
  ASSUME TypeOK, FactoryDispose
  PROVE  /\ Reaction /\ life["factory"] = "unloading" /\ fired' = TRUE
         /\ joined' = [lives |-> tracked, tasks |-> StartupTasks]
         /\ att' \in [Attempts -> Attempt] /\ UNCHANGED <<life, tracked, session, agent, stack>>
         /\ \A a \in Attempts :
              LET r == att[a]
                  q == att'[a]
              IN /\ a \notin tracked => q = r
                 /\ q.pc = r.pc /\ q.kind = r.kind /\ q.follows = r.follows /\ q.held = r.held
                 /\ q.driver = r.driver /\ q.said = r.said
                 /\ q.teardown = r.teardown \/ (r.teardown = "none" /\ q.teardown = "draining")
                 /\ q.teardown = r.teardown => q.aborted = r.aborted
                 /\ q.teardown # r.teardown => q.aborted = TRUE
                 /\ q.byOwner \in {FALSE, r.byOwner}
                 /\ a \in tracked => q.teardown # "none"
<1>1. att \in [Attempts -> Attempt]
  BY DEF TypeOK
<1>2. /\ Reaction /\ life["factory"] = "unloading" /\ fired' = TRUE
      /\ joined' = [lives |-> tracked, tasks |-> StartupTasks]
      /\ UNCHANGED <<life, tracked, session, agent, stack>>
      /\ att' = [a \in Attempts |-> IF a \in tracked THEN Begun(att[a], FALSE) ELSE att[a]]
  BY DEF FactoryDispose
<1>3. att' \in [Attempts -> Attempt]
  BY <1>1, <1>2, BegunFields
<1>4. ASSUME NEW a \in Attempts
      PROVE  LET r == att[a]
                 q == att'[a]
             IN /\ a \notin tracked => q = r
                /\ q.pc = r.pc /\ q.kind = r.kind /\ q.follows = r.follows /\ q.held = r.held
                /\ q.driver = r.driver /\ q.said = r.said
                /\ q.teardown = r.teardown \/ (r.teardown = "none" /\ q.teardown = "draining")
                /\ q.teardown = r.teardown => q.aborted = r.aborted
                /\ q.teardown # r.teardown => q.aborted = TRUE
                /\ q.byOwner \in {FALSE, r.byOwner}
                /\ a \in tracked => q.teardown # "none"
  <2>1. att[a] \in Attempt
    BY <1>1
  <2>2. CASE a \notin tracked
    BY <1>2, <2>2
  <2>3. CASE a \in tracked
    <3>1. att'[a] = Begun(att[a], FALSE)
      BY <1>2, <2>3
    <3>2. LET r == att[a]
              q == Begun(att[a], FALSE)
          IN /\ q.pc = r.pc /\ q.kind = r.kind /\ q.follows = r.follows /\ q.held = r.held
             /\ q.driver = r.driver /\ q.said = r.said
             /\ q.teardown = r.teardown \/ (r.teardown = "none" /\ q.teardown = "draining")
             /\ q.teardown # "none"
      BY <2>1, BegunFields
    <3>3. LET r == att[a]
              q == Begun(att[a], FALSE)
          IN /\ q.teardown = r.teardown => q.aborted = r.aborted
             /\ q.teardown # r.teardown => q.aborted = TRUE
             /\ q.byOwner \in {FALSE, r.byOwner}
      BY <2>1, BegunFields
    <3> QED
      BY <2>3, <3>1, <3>2, <3>3
  <2> QED
    BY <2>2, <2>3
<1> QED
  BY <1>2, <1>3, <1>4

-----------------------------------------------------------------------------
(* Every step preserves the invariant. *)

LEMMA TypeOKStep ==
  ASSUME TypeOK, KindShape, [Next]_vars
  PROVE  TypeOK'
<1>1. ASSUME NEW a \in Attempts, Drained(a) PROVE TypeOK'
  BY <1>1, DrainedDoes DEF TypeOK, Only
<1>2. ASSUME NEW a \in Attempts, DetachAgent(a) PROVE TypeOK'
  <2>1. att' \in [Attempts -> Attempt]
    BY <1>2, DetachAgentDoes DEF Only
  <2>2. /\ tracked' \in SUBSET Attempts /\ UNCHANGED <<life, fired, joined>>
        /\ session' \in Attempts \cup {None} /\ agent' \in Attempts \cup {None}
    BY <1>2 DEF TypeOK, DetachAgent, Leaves
  <2>3. stack' \in Seq(Attempts)
    <3>1. (stack' = <<a>>) /\ stack \in Seq(Attempts)
      BY <1>2 DEF DetachAgent, Leaves, TypeOK
    <3> QED
      BY <3>1, FirstOnStack
  <2> QED
    BY <2>1, <2>2, <2>3 DEF TypeOK
<1>3. ASSUME NEW a \in Attempts, DetachSession(a) PROVE TypeOK'
  <2>1. att' \in [Attempts -> Attempt]
    BY <1>3, DetachSessionDoes DEF Only
  <2>2. /\ tracked' \in SUBSET Attempts /\ UNCHANGED <<life, fired, joined>>
        /\ session' \in Attempts \cup {None} /\ agent' \in Attempts \cup {None}
    BY <1>3 DEF TypeOK, DetachSession, Leaves
  <2>3. stack' \in Seq(Attempts)
    <3>1. Top(a) /\ (stack' = Tail(stack)) /\ stack \in Seq(Attempts)
      BY <1>3 DEF DetachSession, Leaves, TypeOK
    <3> QED
      BY <3>1, PopStack
  <2> QED
    BY <2>1, <2>2, <2>3 DEF TypeOK
<1>4. ASSUME NEW a \in Attempts, StopWaiting(a) PROVE TypeOK'
  BY <1>4, StopWaitingDoes DEF TypeOK, Only
<1>5. ASSUME NEW a \in Attempts, LoadAborted(a) PROVE TypeOK'
  BY <1>5, LoadAbortedDoes DEF TypeOK, Only
<1>6. ASSUME NEW a \in Attempts, Resumes(a) PROVE TypeOK'
  <2>1. att' \in [Attempts -> Attempt]
    BY <1>6, ResumesDoes DEF Only
  <2>2. /\ tracked' \in SUBSET Attempts /\ UNCHANGED <<life, fired, joined>>
        /\ session' \in Attempts \cup {None} /\ agent' \in Attempts \cup {None}
    BY <1>6 DEF TypeOK, Resumes, Prepare
  <2>3. stack' \in Seq(Attempts)
    <3>1. (stack' = <<a>> \o stack \/ stack' = stack) /\ stack \in Seq(Attempts)
      BY <1>6 DEF Resumes, Prepare, TypeOK
    <3> QED
      BY <3>1, PushStack
  <2> QED
    BY <2>1, <2>2, <2>3 DEF TypeOK
<1>7. ASSUME NEW a \in Attempts, Listed(a) PROVE TypeOK'
  <2>1. att' \in [Attempts -> Attempt]
    BY <1>7, ListedDoes DEF Only
  <2>2. /\ tracked' \in SUBSET Attempts /\ UNCHANGED <<life, fired, joined>>
        /\ session' \in Attempts \cup {None} /\ agent' \in Attempts \cup {None}
    BY <1>7 DEF TypeOK, Listed, Prepare
  <2>3. stack' \in Seq(Attempts)
    <3>1. (stack' = <<a>> \o stack \/ stack' = stack) /\ stack \in Seq(Attempts)
      BY <1>7 DEF Listed, Prepare, TypeOK
    <3> QED
      BY <3>1, PushStack
  <2> QED
    BY <2>1, <2>2, <2>3 DEF TypeOK
<1>8. ASSUME NEW a \in Attempts, Mint(a) PROVE TypeOK'
  <2>1. att' \in [Attempts -> Attempt]
    BY <1>8, MintDoes DEF Only
  <2>2. /\ tracked' \in SUBSET Attempts /\ UNCHANGED <<life, fired, joined>>
        /\ session' \in Attempts \cup {None} /\ agent' \in Attempts \cup {None}
    BY <1>8 DEF TypeOK, Mint
  <2>3. stack' \in Seq(Attempts)
    <3>1. Top(a) /\ (stack' = Tail(stack) \/ stack' = stack) /\ stack \in Seq(Attempts)
      BY <1>8 DEF Mint, TypeOK
    <3> QED
      BY <3>1, PopStack
  <2> QED
    BY <2>1, <2>2, <2>3 DEF TypeOK
<1>9. ASSUME NEW a \in Attempts, Publish(a) PROVE TypeOK'
  <2>1. att' \in [Attempts -> Attempt]
    BY <1>9, PublishDoes DEF Only
  <2>2. /\ tracked' \in SUBSET Attempts /\ UNCHANGED <<life, fired, joined>>
        /\ session' \in Attempts \cup {None} /\ agent' \in Attempts \cup {None}
    BY <1>9 DEF TypeOK, Publish
  <2>3. stack' \in Seq(Attempts)
    <3>1. Top(a) /\ (stack' = Tail(stack) \/ stack' = stack) /\ stack \in Seq(Attempts)
      BY <1>9 DEF Publish, TypeOK
    <3> QED
      BY <3>1, PopStack
  <2> QED
    BY <2>1, <2>2, <2>3 DEF TypeOK
<1>10. ASSUME NEW a \in Attempts, Fails(a) PROVE TypeOK'
  BY <1>10, FailsDoes DEF TypeOK, Only
<1>11. ASSUME NEW a \in Attempts, OwnerEffect(a) PROVE TypeOK'
  BY <1>11, OwnerEffectDoes DEF TypeOK, Only
<1>12. ASSUME NEW a \in Attempts, NEW kind \in Kinds, Start(a, kind) PROVE TypeOK'
  <2>1. att' \in [Attempts -> Attempt]
    BY <1>12, StartDoes DEF Only
  <2>2. /\ tracked' \in SUBSET Attempts /\ UNCHANGED <<life, fired, joined>>
        /\ session' \in Attempts \cup {None} /\ agent' \in Attempts \cup {None}
    BY <1>12 DEF TypeOK, Start, Prepare
  <2>3. stack' \in Seq(Attempts)
    <3>1. (stack' = <<a>> \o stack \/ stack' = stack) /\ stack \in Seq(Attempts)
      BY <1>12 DEF Start, Prepare, TypeOK
    <3> QED
      BY <3>1, PushStack
  <2> QED
    BY <2>1, <2>2, <2>3 DEF TypeOK
<1>13. ASSUME NEW a \in Attempts, Loaded(a) PROVE TypeOK'
  BY <1>13, LoadedDoes DEF TypeOK, Only
<1>14. ASSUME NEW a \in Attempts, LoadFails(a) PROVE TypeOK'
  BY <1>14, LoadFailsDoes DEF TypeOK, Only
<1>15. ASSUME NEW a \in Attempts, Arrives(a) PROVE TypeOK'
  BY <1>15, ArrivesDoes DEF TypeOK, Only
<1>16. ASSUME NEW a \in Attempts, SetupEnds(a) PROVE TypeOK'
  <2>1. att' \in [Attempts -> Attempt]
    BY <1>16, SetupEndsDoes DEF Only
  <2>2. /\ tracked' \in SUBSET Attempts /\ UNCHANGED <<life, fired, joined>>
        /\ session' \in Attempts \cup {None} /\ agent' \in Attempts \cup {None}
    BY <1>16 DEF TypeOK, SetupEnds
  <2>3. stack' \in Seq(Attempts)
    <3>1. (stack' = <<a>>) /\ stack \in Seq(Attempts)
      BY <1>16 DEF SetupEnds, TypeOK
    <3> QED
      BY <3>1, FirstOnStack
  <2> QED
    BY <2>1, <2>2, <2>3 DEF TypeOK
<1>17. ASSUME NEW a \in Attempts, SetupFails(a) PROVE TypeOK'
  <2>1. att' \in [Attempts -> Attempt] /\ UNCHANGED <<life, fired, joined, tracked, session, agent, stack>>
    BY <1>17, SetupFailsDoes DEF Only
  <2> QED
    BY <2>1 DEF TypeOK
<1>18. ASSUME NEW a \in Attempts, Vetoed(a) PROVE TypeOK'
  <2>1. att' \in [Attempts -> Attempt]
    BY <1>18, VetoedDoes DEF Only
  <2>2. /\ tracked' \in SUBSET Attempts /\ UNCHANGED <<life, fired, joined>>
        /\ session' \in Attempts \cup {None} /\ agent' \in Attempts \cup {None}
    BY <1>18 DEF TypeOK, Vetoed
  <2>3. stack' \in Seq(Attempts)
    <3>1. Top(a) /\ (stack' = Tail(stack)) /\ stack \in Seq(Attempts)
      BY <1>18 DEF Vetoed, TypeOK
    <3> QED
      BY <3>1, PopStack
  <2> QED
    BY <2>1, <2>2, <2>3 DEF TypeOK
<1>19. ASSUME NEW a \in Attempts, Wake(a) PROVE TypeOK'
  BY <1>19, WakeDoes DEF TypeOK, Only
<1>20. ASSUME NEW a \in Attempts, Rest(a) PROVE TypeOK'
  BY <1>20, RestDoes DEF TypeOK, Only
<1>21. ASSUME NEW a \in Attempts, CallerAborts(a) PROVE TypeOK'
  BY <1>21, CallerAbortsDoes DEF TypeOK, Only
<1>22. ASSUME NEW a \in Attempts, HandleDispose(a) PROVE TypeOK'
  BY <1>22, HandleDisposeDoes DEF TypeOK, Only
<1>23. ASSUME NEW f \in Fibers, Unload(f) PROVE TypeOK'
  BY <1>23 DEF Unload, TypeOK, Only
<1>24. ASSUME NEW f \in Fibers, Unloaded(f) PROVE TypeOK'
  BY <1>24 DEF Unloaded, TypeOK, Only
<1>25. CASE FactoryDispose
  <2>1. att' \in [Attempts -> Attempt] /\ fired' = TRUE /\ UNCHANGED <<life, tracked, session, agent, stack>>
        /\ joined' = [lives |-> tracked, tasks |-> StartupTasks]
    BY <1>25, FactoryDisposeDoes
  <2>2. tracked \in SUBSET Attempts /\ StartupTasks \in SUBSET Attempts
    BY DEF TypeOK, StartupTasks
  <2> QED
    BY <2>1, <2>2 DEF TypeOK
<1>26. CASE UNCHANGED vars
  BY <1>26 DEF vars, TypeOK
<1> QED
  BY <1>1, <1>2, <1>3, <1>4, <1>5, <1>6, <1>7, <1>8, <1>9, <1>10, <1>11, <1>12, <1>13, <1>14, <1>15,
     <1>16, <1>17, <1>18, <1>19, <1>20, <1>21, <1>22, <1>23, <1>24, <1>25, <1>26
     DEF Next, Proceeds, Environment, Teardown, SetupAborted

\* The other attempts keep their registrations.
Elsewhere(a) ==
  \A b \in Attempts : b # a =>
    (session' = b <=> session = b) /\ (agent' = b <=> agent = b) /\ (b \in tracked' <=> b \in tracked)

LEMMA NoneIsNoAttempt == \A b \in Attempts : b # None
BY DEF Attempts, None

LEMMA DetachAgentElsewhere == ASSUME NEW a \in Attempts, DetachAgent(a) PROVE Elsewhere(a)
BY NoneIsNoAttempt DEF DetachAgent, Leaves, Elsewhere

LEMMA DetachSessionElsewhere == ASSUME NEW a \in Attempts, DetachSession(a) PROVE Elsewhere(a)
BY NoneIsNoAttempt DEF DetachSession, Leaves, Elsewhere

LEMMA ResumesElsewhere == ASSUME NEW a \in Attempts, Resumes(a) PROVE Elsewhere(a)
BY NoneIsNoAttempt DEF Resumes, Prepare, Elsewhere

LEMMA ListedElsewhere == ASSUME NEW a \in Attempts, Listed(a) PROVE Elsewhere(a)
BY NoneIsNoAttempt DEF Listed, Prepare, Elsewhere

LEMMA PublishElsewhere == ASSUME NEW a \in Attempts, Publish(a) PROVE Elsewhere(a)
BY NoneIsNoAttempt DEF Publish, Elsewhere

LEMMA StartElsewhere == ASSUME NEW a \in Attempts, NEW kind, Start(a, kind) PROVE Elsewhere(a)
BY NoneIsNoAttempt DEF Start, Prepare, Elsewhere

LEMMA RegisteredFrame ==
  ASSUME Registered, NEW a \in Attempts, Only(a), Elsewhere(a), RegisteredOf(a)'
  PROVE  Registered'
BY DEF Registered, RegisteredOf, Only, Elsewhere

LEMMA FollowedFrame ==
  ASSUME Followed, NEW a \in Attempts, Only(a), Elsewhere(a), FollowedOf(a)'
  PROVE  Followed'
BY DEF Followed, FollowedOf, Only, Elsewhere

LEMMA IdleFields ==
  /\ Idle.pc = "off" /\ Idle.teardown = "none" /\ Idle.driver = "none" /\ Idle.held = "none"
  /\ Idle.follows = {}
BY DEF Idle

LEMMA Stages ==
  /\ NextStage["enter"] = "session" /\ NextStage["session"] = "agent"
  /\ NextStage["agent"] = "start" /\ NextStage["start"] = "live"
BY DEF NextStage

\* A disposal is announced only for a creation; nothing else changes.
LEMMA DisposedSays ==
  ASSUME NEW said, NEW what \in {"session", "agent"}, NEW w \in {"session", "agent"}
  PROVE  /\ <<w, "created">> \in WithDisposed(said, what) <=> <<w, "created">> \in said
         /\ <<w, "disposed">> \in WithDisposed(said, what) <=>
              <<w, "disposed">> \in said \/ (w = what /\ <<w, "created">> \in said)
BY DEF WithDisposed

LEMMA CreatedSays ==
  ASSUME NEW said, NEW what \in {"session", "agent"}, NEW w \in {"session", "agent"}
  PROVE  /\ <<w, "disposed">> \in said \cup {<<what, "created">>} <=> <<w, "disposed">> \in said
         /\ <<w, "created">> \in said \cup {<<what, "created">>} <=> <<w, "created">> \in said \/ w = what
OBVIOUS

LEMMA TeardownShapeStep ==
  ASSUME TypeOK, OnStack, TeardownShape, KindShape, SaidShape, Registered, Followed, [Next]_vars
  PROVE  TeardownShape'
<1>1. ASSUME NEW a \in Attempts, Drained(a) PROVE TeardownShape'
  BY <1>1, DrainedDoes, ReactionQuiet DEF TeardownShape, TeardownOf, Only, Early, Running, Published
<1>2. ASSUME NEW a \in Attempts, DetachAgent(a) PROVE TeardownShape'
  <2>1. TeardownOf(att[a]) /\ RegisteredOf(a)
    BY DEF TeardownShape, Registered
  <2>2. TeardownOf(att'[a])
    BY <1>2, <2>1, DetachAgentDoes, ReactionQuiet
       DEF TeardownOf, RegisteredOf, Early, Running, Published
  <2>3. Only(a)
    BY <1>2, DetachAgentDoes
  <2> QED
    BY <2>2, <2>3 DEF TeardownShape, Only
<1>3. ASSUME NEW a \in Attempts, DetachSession(a) PROVE TeardownShape'
  <2>1. TeardownOf(att[a]) /\ att[a].pc \notin Running
    BY <1>3, DetachSessionDoes DEF TeardownShape, TeardownOf, Running, TeardownShape
  <2>2. TeardownOf(att'[a])
    BY <1>3, <2>1, DetachSessionDoes DEF TeardownOf, WithDisposed, Leaves, Early, Running, Published
  <2>3. ASSUME NEW b \in Attempts, b # a PROVE TeardownOf(att'[b])
    <3>1. TeardownOf(att[b]) /\ att[b] \in Attempt
      BY DEF TeardownShape, TypeOK
    <3>2. att'[b] = att[b] \/ (att[b].pc = "waiting" /\ att'[b] = [att[b] EXCEPT !.pc = "woken"])
      BY <1>3, <2>3, DetachSessionDoes
    <3>3. /\ att'[b] = att[b] \/ (att[b].pc = "waiting" /\ att'[b].pc = "woken")
          /\ att'[b].kind = att[b].kind /\ att'[b].aborted = att[b].aborted /\ att'[b].teardown = att[b].teardown
          /\ att'[b].byOwner = att[b].byOwner /\ att'[b].follows = att[b].follows /\ att'[b].held = att[b].held
          /\ att'[b].driver = att[b].driver /\ att'[b].said = att[b].said
      BY <3>1, <3>2 DEF Attempt
    <3> QED
      BY <3>1, <3>3 DEF TeardownOf, Early, Running, Published
  <2> QED
    BY <2>2, <2>3 DEF TeardownShape
<1>4. ASSUME NEW a \in Attempts, StopWaiting(a) PROVE TeardownShape'
  BY <1>4, StopWaitingDoes, ReactionQuiet DEF TeardownShape, TeardownOf, Only, Early, Running, Published
<1>5. ASSUME NEW a \in Attempts, LoadAborted(a) PROVE TeardownShape'
  BY <1>5, LoadAbortedDoes, ReactionQuiet DEF TeardownShape, TeardownOf, Only, Early, Running, Published
<1>6. ASSUME NEW a \in Attempts, Resumes(a) PROVE TeardownShape'
  <2>1. TeardownOf(att[a])
    BY DEF TeardownShape
  <2>2. TeardownOf(att'[a])
    BY <1>6, <2>1, ResumesDoes, ReactionQuiet DEF TeardownOf, Early, Running, Published
  <2>3. Only(a)
    BY <1>6, ResumesDoes
  <2> QED
    BY <2>2, <2>3 DEF TeardownShape, Only
<1>7. ASSUME NEW a \in Attempts, Listed(a) PROVE TeardownShape'
  <2>1. TeardownOf(att[a])
    BY DEF TeardownShape
  <2>2. TeardownOf(att'[a])
    BY <1>7, <2>1, ListedDoes, ReactionQuiet DEF TeardownOf, Early, Running, Published
  <2>3. Only(a)
    BY <1>7, ListedDoes
  <2> QED
    BY <2>2, <2>3 DEF TeardownShape, Only
<1>8. ASSUME NEW a \in Attempts, Mint(a) PROVE TeardownShape'
  <2>1. TeardownOf(att[a])
    BY DEF TeardownShape
  <2>2. TeardownOf(att'[a])
    BY <1>8, <2>1, MintDoes DEF TeardownOf, Early, Running, Published
  <2>3. Only(a)
    BY <1>8, MintDoes
  <2> QED
    BY <2>2, <2>3 DEF TeardownShape, Only
<1>9. ASSUME NEW a \in Attempts, Publish(a) PROVE TeardownShape'
  <2>1. TeardownOf(att[a])
    BY DEF TeardownShape
  <2>2. TeardownOf(att'[a])
    <3>1. CASE Advances(a)
      BY <2>1, <3>1 DEF Advances, TeardownOf, Early, Running
    <3>2. CASE Refused(a)
      BY <1>9, <2>1, <3>2, PublishDoes DEF Refused, TeardownOf, Early, Running
    <3> QED
      BY <1>9, <3>1, <3>2, PublishDoes
  <2>3. Only(a)
    BY <1>9, PublishDoes
  <2> QED
    BY <2>2, <2>3 DEF TeardownShape, Only
<1>10. ASSUME NEW a \in Attempts, Fails(a) PROVE TeardownShape'
  BY <1>10, FailsDoes, ReactionQuiet DEF TeardownShape, TeardownOf, Only, Early, Running, Published
<1>11. ASSUME NEW a \in Attempts, OwnerEffect(a) PROVE TeardownShape'
  <2>1. TeardownOf(att[a]) /\ FollowedOf(a)
    BY DEF TeardownShape, Followed
  <2>2. TeardownOf(att'[a])
    BY <1>11, <2>1, OwnerEffectDoes, ReactionQuiet DEF TeardownOf, FollowedOf, Early, Running, Published
  <2>3. Only(a)
    BY <1>11, OwnerEffectDoes
  <2> QED
    BY <2>2, <2>3 DEF TeardownShape, Only
<1>12. ASSUME NEW a \in Attempts, NEW kind \in Kinds, Start(a, kind) PROVE TeardownShape'
  <2>1. TeardownOf(att[a])
    BY DEF TeardownShape
  <2>2. TeardownOf(att'[a])
    BY <1>12, <2>1, StartDoes DEF TeardownOf, Early, Running, Published
  <2>3. Only(a)
    BY <1>12, StartDoes
  <2> QED
    BY <2>2, <2>3 DEF TeardownShape, Only
<1>13. ASSUME NEW a \in Attempts, Loaded(a) PROVE TeardownShape'
  BY <1>13, LoadedDoes, ReactionQuiet DEF TeardownShape, TeardownOf, Only, Early, Running, Published
<1>14. ASSUME NEW a \in Attempts, LoadFails(a) PROVE TeardownShape'
  BY <1>14, LoadFailsDoes, ReactionQuiet DEF TeardownShape, TeardownOf, Only, Early, Running, Published
<1>15. ASSUME NEW a \in Attempts, Arrives(a) PROVE TeardownShape'
  BY <1>15, ArrivesDoes, ReactionQuiet DEF TeardownShape, TeardownOf, Only, Early, Running, Published
<1>16. ASSUME NEW a \in Attempts, SetupEnds(a) PROVE TeardownShape'
  BY <1>16, SetupEndsDoes, ReactionQuiet DEF TeardownShape, TeardownOf, Only, Early, Running, Published
<1>17. ASSUME NEW a \in Attempts, SetupFails(a) PROVE TeardownShape'
  <2>1. TeardownOf(att[a])
    BY DEF TeardownShape
  <2>2. TeardownOf(att'[a])
    BY <1>17, <2>1, SetupFailsDoes, ReactionQuiet DEF TeardownOf, Early, Running, Published
  <2>3. Only(a)
    BY <1>17, SetupFailsDoes
  <2> QED
    BY <2>2, <2>3 DEF TeardownShape, Only
<1>18. ASSUME NEW a \in Attempts, Vetoed(a) PROVE TeardownShape'
  <2>1. TeardownOf(att[a])
    BY DEF TeardownShape
  <2>2. TeardownOf(att'[a])
    BY <1>18, <2>1, VetoedDoes DEF TeardownOf, Early, Running, Published
  <2>3. Only(a)
    BY <1>18, VetoedDoes
  <2> QED
    BY <2>2, <2>3 DEF TeardownShape, Only
<1>19. ASSUME NEW a \in Attempts, Wake(a) PROVE TeardownShape'
  BY <1>19, WakeDoes DEF TeardownShape, TeardownOf, Only, Early, Running, Published
<1>20. ASSUME NEW a \in Attempts, Rest(a) PROVE TeardownShape'
  BY <1>20, RestDoes, ReactionQuiet DEF TeardownShape, TeardownOf, Only, Early, Running, Published
<1>21. ASSUME NEW a \in Attempts, CallerAborts(a) PROVE TeardownShape'
  <2>1. TeardownOf(att[a])
    BY DEF TeardownShape
  <2>2. TeardownOf(att'[a])
    BY <1>21, <2>1, CallerAbortsDoes DEF TeardownOf, Early, Running, Published
  <2>3. Only(a)
    BY <1>21, CallerAbortsDoes
  <2> QED
    BY <2>2, <2>3 DEF TeardownShape, Only
<1>22. ASSUME NEW a \in Attempts, HandleDispose(a) PROVE TeardownShape'
  <2>1. TeardownOf(att[a])
    BY DEF TeardownShape
  <2>2. TeardownOf(att'[a])
    BY <1>22, <2>1, HandleDisposeDoes DEF TeardownOf, Early, Running, Published
  <2>3. Only(a)
    BY <1>22, HandleDisposeDoes
  <2> QED
    BY <2>2, <2>3 DEF TeardownShape, Only
<1>23. ASSUME NEW f \in Fibers, Unload(f) PROVE TeardownShape'
  BY <1>23 DEF Unload, TeardownShape
<1>24. ASSUME NEW f \in Fibers, Unloaded(f) PROVE TeardownShape'
  BY <1>24 DEF Unloaded, TeardownShape
<1>25. CASE FactoryDispose
  <2>1. ASSUME NEW a \in Attempts PROVE TeardownOf(att'[a])
    <3>1. TeardownOf(att[a]) /\ FollowedOf(a)
      BY DEF TeardownShape, Followed
    <3> QED
      BY <1>25, <3>1, FactoryDisposeDoes, ReactionQuiet
         DEF TeardownOf, FollowedOf, Early, Running, Published
  <2> QED
    BY <2>1 DEF TeardownShape
<1>26. CASE UNCHANGED vars
  BY <1>26 DEF vars, TeardownShape
<1> QED
  BY <1>1, <1>2, <1>3, <1>4, <1>5, <1>6, <1>7, <1>8, <1>9, <1>10, <1>11, <1>12, <1>13, <1>14, <1>15,
     <1>16, <1>17, <1>18, <1>19, <1>20, <1>21, <1>22, <1>23, <1>24, <1>25, <1>26
     DEF Next, Proceeds, Environment, Teardown, SetupAborted

LEMMA KindShapeStep ==
  ASSUME TypeOK, OnStack, TeardownShape, KindShape, SaidShape, Registered, Followed, [Next]_vars
  PROVE  KindShape'
<1>1. ASSUME NEW a \in Attempts, Drained(a) PROVE KindShape'
  <2>1. KindOf(att[a]) /\ TeardownOf(att[a])
    BY DEF KindShape, TeardownShape
  <2>2. KindOf(att'[a])
    BY <1>1, <2>1, DrainedDoes, ReactionQuiet DEF KindOf, TeardownOf, Early, Running, Published
  <2>3. Only(a)
    BY <1>1, DrainedDoes
  <2> QED
    BY <2>2, <2>3 DEF KindShape, Only
<1>2. ASSUME NEW a \in Attempts, DetachAgent(a) PROVE KindShape'
  <2>1. KindOf(att[a]) /\ TeardownOf(att[a])
    BY DEF KindShape, TeardownShape
  <2>2. KindOf(att'[a])
    BY <1>2, <2>1, DetachAgentDoes, ReactionQuiet DEF KindOf, TeardownOf, Early, Running, Published
  <2>3. Only(a)
    BY <1>2, DetachAgentDoes
  <2> QED
    BY <2>2, <2>3 DEF KindShape, Only
<1>3. ASSUME NEW a \in Attempts, DetachSession(a) PROVE KindShape'
  <2>1. KindOf(att[a]) /\ TeardownOf(att[a]) /\ att[a].pc \notin Running
    BY <1>3, DetachSessionDoes DEF TeardownShape, TeardownOf, Running, KindShape, TeardownShape
  <2>2. KindOf(att'[a])
    BY <1>3, <2>1, DetachSessionDoes
       DEF KindOf, TeardownOf, WithDisposed, Leaves, Early, Running, Published
  <2>3. ASSUME NEW b \in Attempts, b # a PROVE KindOf(att'[b])
    <3>1. KindOf(att[b]) /\ att[b] \in Attempt
      BY DEF KindShape, TypeOK
    <3>2. att'[b] = att[b] \/ (att[b].pc = "waiting" /\ att'[b] = [att[b] EXCEPT !.pc = "woken"])
      BY <1>3, <2>3, DetachSessionDoes
    <3>3. /\ att'[b] = att[b] \/ (att[b].pc = "waiting" /\ att'[b].pc = "woken")
          /\ att'[b].kind = att[b].kind /\ att'[b].aborted = att[b].aborted /\ att'[b].teardown = att[b].teardown
          /\ att'[b].byOwner = att[b].byOwner /\ att'[b].follows = att[b].follows /\ att'[b].held = att[b].held
          /\ att'[b].driver = att[b].driver /\ att'[b].said = att[b].said
      BY <3>1, <3>2 DEF Attempt
    <3> QED
      BY <3>1, <3>3 DEF KindOf, Early, Running, Published
  <2> QED
    BY <2>2, <2>3 DEF KindShape
<1>4. ASSUME NEW a \in Attempts, StopWaiting(a) PROVE KindShape'
  BY <1>4, StopWaitingDoes, ReactionQuiet DEF KindShape, KindOf, Only, Early, Running, Published
<1>5. ASSUME NEW a \in Attempts, LoadAborted(a) PROVE KindShape'
  BY <1>5, LoadAbortedDoes, ReactionQuiet DEF KindShape, KindOf, Only, Early, Running, Published
<1>6. ASSUME NEW a \in Attempts, Resumes(a) PROVE KindShape'
  <2>1. KindOf(att[a])
    BY DEF KindShape
  <2>2. KindOf(att'[a])
    BY <1>6, <2>1, ResumesDoes, ReactionQuiet DEF KindOf, Early, Running, Published
  <2>3. Only(a)
    BY <1>6, ResumesDoes
  <2> QED
    BY <2>2, <2>3 DEF KindShape, Only
<1>7. ASSUME NEW a \in Attempts, Listed(a) PROVE KindShape'
  <2>1. KindOf(att[a])
    BY DEF KindShape
  <2>2. KindOf(att'[a])
    BY <1>7, <2>1, ListedDoes, ReactionQuiet DEF KindOf, Early, Running, Published
  <2>3. Only(a)
    BY <1>7, ListedDoes
  <2> QED
    BY <2>2, <2>3 DEF KindShape, Only
<1>8. ASSUME NEW a \in Attempts, Mint(a) PROVE KindShape'
  <2>1. KindOf(att[a])
    BY DEF KindShape
  <2>2. KindOf(att'[a])
    BY <1>8, <2>1, MintDoes DEF KindOf, Synchronous, Early, Running, Published
  <2>3. Only(a)
    BY <1>8, MintDoes
  <2> QED
    BY <2>2, <2>3 DEF KindShape, Only
<1>9. ASSUME NEW a \in Attempts, Publish(a) PROVE KindShape'
  <2>1. KindOf(att[a])
    BY DEF KindShape
  <2>2. KindOf(att'[a])
    <3>1. CASE Advances(a)
      BY <2>1, <3>1 DEF Advances, KindOf, Running
    <3>2. CASE Refused(a)
      BY <1>9, <2>1, <3>2, PublishDoes DEF Refused, KindOf, Running
    <3> QED
      BY <1>9, <3>1, <3>2, PublishDoes
  <2>3. Only(a)
    BY <1>9, PublishDoes
  <2> QED
    BY <2>2, <2>3 DEF KindShape, Only
<1>10. ASSUME NEW a \in Attempts, Fails(a) PROVE KindShape'
  BY <1>10, FailsDoes, ReactionQuiet DEF KindShape, KindOf, Only, Early, Running, Published
<1>11. ASSUME NEW a \in Attempts, OwnerEffect(a) PROVE KindShape'
  <2>1. KindOf(att[a]) /\ FollowedOf(a)
    BY DEF KindShape, Followed
  <2>2. KindOf(att'[a])
    BY <1>11, <2>1, OwnerEffectDoes, ReactionQuiet DEF KindOf, FollowedOf, Early, Running, Published
  <2>3. Only(a)
    BY <1>11, OwnerEffectDoes
  <2> QED
    BY <2>2, <2>3 DEF KindShape, Only
<1>12. ASSUME NEW a \in Attempts, NEW kind \in Kinds, Start(a, kind) PROVE KindShape'
  <2>1. KindOf(att[a])
    BY DEF KindShape
  <2>2. KindOf(att'[a])
    BY <1>12, <2>1, StartDoes DEF KindOf, Synchronous, Kinds, Loading, Early, Running, Published
  <2>3. Only(a)
    BY <1>12, StartDoes
  <2> QED
    BY <2>2, <2>3 DEF KindShape, Only
<1>13. ASSUME NEW a \in Attempts, Loaded(a) PROVE KindShape'
  BY <1>13, LoadedDoes, ReactionQuiet DEF KindShape, KindOf, Only, Early, Running, Published
<1>14. ASSUME NEW a \in Attempts, LoadFails(a) PROVE KindShape'
  BY <1>14, LoadFailsDoes, ReactionQuiet DEF KindShape, KindOf, Only, Early, Running, Published
<1>15. ASSUME NEW a \in Attempts, Arrives(a) PROVE KindShape'
  <2>1. KindOf(att[a])
    BY DEF KindShape
  <2>2. KindOf(att'[a])
    BY <1>15, <2>1, ArrivesDoes, ReactionQuiet, IdleFields DEF KindOf, Early, Running, Published
  <2>3. Only(a)
    BY <1>15, ArrivesDoes
  <2> QED
    BY <2>2, <2>3 DEF KindShape, Only
<1>16. ASSUME NEW a \in Attempts, SetupEnds(a) PROVE KindShape'
  BY <1>16, SetupEndsDoes, ReactionQuiet DEF KindShape, KindOf, Only, Early, Running, Published
<1>17. ASSUME NEW a \in Attempts, SetupFails(a) PROVE KindShape'
  <2>1. KindOf(att[a])
    BY DEF KindShape
  <2>2. KindOf(att'[a])
    BY <1>17, <2>1, SetupFailsDoes, ReactionQuiet DEF KindOf, Early, Running, Published
  <2>3. Only(a)
    BY <1>17, SetupFailsDoes
  <2> QED
    BY <2>2, <2>3 DEF KindShape, Only
<1>18. ASSUME NEW a \in Attempts, Vetoed(a) PROVE KindShape'
  <2>1. KindOf(att[a])
    BY DEF KindShape
  <2>2. KindOf(att'[a])
    BY <1>18, <2>1, VetoedDoes DEF KindOf, Early, Running, Published
  <2>3. Only(a)
    BY <1>18, VetoedDoes
  <2> QED
    BY <2>2, <2>3 DEF KindShape, Only
<1>19. ASSUME NEW a \in Attempts, Wake(a) PROVE KindShape'
  BY <1>19, WakeDoes DEF KindShape, KindOf, Only, Early, Running, Published
<1>20. ASSUME NEW a \in Attempts, Rest(a) PROVE KindShape'
  <2>1. KindOf(att[a])
    BY DEF KindShape
  <2>2. KindOf(att'[a])
    BY <1>20, <2>1, RestDoes, ReactionQuiet, IdleFields DEF KindOf, Early, Running, Published
  <2>3. Only(a)
    BY <1>20, RestDoes
  <2> QED
    BY <2>2, <2>3 DEF KindShape, Only
<1>21. ASSUME NEW a \in Attempts, CallerAborts(a) PROVE KindShape'
  <2>1. KindOf(att[a])
    BY DEF KindShape
  <2>2. KindOf(att'[a])
    BY <1>21, <2>1, CallerAbortsDoes DEF KindOf, Early, Running, Published
  <2>3. Only(a)
    BY <1>21, CallerAbortsDoes
  <2> QED
    BY <2>2, <2>3 DEF KindShape, Only
<1>22. ASSUME NEW a \in Attempts, HandleDispose(a) PROVE KindShape'
  <2>1. KindOf(att[a])
    BY DEF KindShape
  <2>2. KindOf(att'[a])
    BY <1>22, <2>1, HandleDisposeDoes DEF KindOf, Early, Running, Published
  <2>3. Only(a)
    BY <1>22, HandleDisposeDoes
  <2> QED
    BY <2>2, <2>3 DEF KindShape, Only
<1>23. ASSUME NEW f \in Fibers, Unload(f) PROVE KindShape'
  BY <1>23 DEF Unload, KindShape
<1>24. ASSUME NEW f \in Fibers, Unloaded(f) PROVE KindShape'
  BY <1>24 DEF Unloaded, KindShape
<1>25. CASE FactoryDispose
  <2>1. ASSUME NEW a \in Attempts PROVE KindOf(att'[a])
    <3>1. KindOf(att[a]) /\ FollowedOf(a)
      BY DEF KindShape, Followed
    <3> QED
      BY <1>25, <3>1, FactoryDisposeDoes, ReactionQuiet
         DEF KindOf, FollowedOf, Early, Running, Published
  <2> QED
    BY <2>1 DEF KindShape
<1>26. CASE UNCHANGED vars
  BY <1>26 DEF vars, KindShape
<1> QED
  BY <1>1, <1>2, <1>3, <1>4, <1>5, <1>6, <1>7, <1>8, <1>9, <1>10, <1>11, <1>12, <1>13, <1>14, <1>15,
     <1>16, <1>17, <1>18, <1>19, <1>20, <1>21, <1>22, <1>23, <1>24, <1>25, <1>26
     DEF Next, Proceeds, Environment, Teardown, SetupAborted

LEMMA SaidShapeStep ==
  ASSUME TypeOK, OnStack, TeardownShape, KindShape, SaidShape, Registered, Followed, [Next]_vars
  PROVE  SaidShape'
<1>1. ASSUME NEW a \in Attempts, Drained(a) PROVE SaidShape'
  BY <1>1, DrainedDoes, ReactionQuiet DEF SaidShape, SaidOf, Only, Early, Running, Published
<1>2. ASSUME NEW a \in Attempts, DetachAgent(a) PROVE SaidShape'
  <2>1. SaidOf(att[a])
    BY DEF SaidShape
  <2>2. SaidOf(att'[a])
    BY <1>2, <2>1, DetachAgentDoes, ReactionQuiet, DisposedSays DEF SaidOf, Early, Running, Published
  <2>3. Only(a)
    BY <1>2, DetachAgentDoes
  <2> QED
    BY <2>2, <2>3 DEF SaidShape, Only
<1>3. ASSUME NEW a \in Attempts, DetachSession(a) PROVE SaidShape'
  <2>1. SaidOf(att[a]) /\ att[a].pc \notin Running
    BY <1>3, DetachSessionDoes DEF TeardownShape, TeardownOf, Running, SaidShape
  <2>2. SaidOf(att'[a])
    <3>1. /\ att[a].teardown = "detaching" /\ att'[a].teardown = "done"
          /\ att'[a].said = WithDisposed(att[a].said, "session")
      BY <1>3, DetachSessionDoes
    <3>2. \A w \in {"session", "agent"} :
            /\ <<w, "created">> \in att'[a].said <=> <<w, "created">> \in att[a].said
            /\ <<w, "disposed">> \in att'[a].said <=>
                 <<w, "disposed">> \in att[a].said \/ (w = "session" /\ <<w, "created">> \in att[a].said)
      BY <3>1, DisposedSays
    <3> QED
      BY <2>1, <3>1, <3>2 DEF SaidOf
  <2>3. ASSUME NEW b \in Attempts, b # a PROVE SaidOf(att'[b])
    <3>1. SaidOf(att[b]) /\ att[b] \in Attempt
      BY DEF SaidShape, TypeOK
    <3>2. att'[b] = att[b] \/ (att[b].pc = "waiting" /\ att'[b] = [att[b] EXCEPT !.pc = "woken"])
      BY <1>3, <2>3, DetachSessionDoes
    <3>3. /\ att'[b] = att[b] \/ (att[b].pc = "waiting" /\ att'[b].pc = "woken")
          /\ att'[b].kind = att[b].kind /\ att'[b].aborted = att[b].aborted /\ att'[b].teardown = att[b].teardown
          /\ att'[b].byOwner = att[b].byOwner /\ att'[b].follows = att[b].follows /\ att'[b].held = att[b].held
          /\ att'[b].driver = att[b].driver /\ att'[b].said = att[b].said
      BY <3>1, <3>2 DEF Attempt
    <3> QED
      BY <3>1, <3>3 DEF SaidOf, Early, Running, Published
  <2> QED
    BY <2>2, <2>3 DEF SaidShape
<1>4. ASSUME NEW a \in Attempts, StopWaiting(a) PROVE SaidShape'
  <2>1. SaidOf(att[a]) /\ TeardownOf(att[a])
    BY DEF SaidShape, TeardownShape
  <2>2. SaidOf(att'[a])
    BY <1>4, <2>1, StopWaitingDoes, ReactionQuiet DEF SaidOf, TeardownOf, Early, Running, Published
  <2>3. Only(a)
    BY <1>4, StopWaitingDoes
  <2> QED
    BY <2>2, <2>3 DEF SaidShape, Only
<1>5. ASSUME NEW a \in Attempts, LoadAborted(a) PROVE SaidShape'
  <2>1. SaidOf(att[a]) /\ TeardownOf(att[a])
    BY DEF SaidShape, TeardownShape
  <2>2. SaidOf(att'[a])
    BY <1>5, <2>1, LoadAbortedDoes, ReactionQuiet DEF SaidOf, TeardownOf, Early, Running, Published
  <2>3. Only(a)
    BY <1>5, LoadAbortedDoes
  <2> QED
    BY <2>2, <2>3 DEF SaidShape, Only
<1>6. ASSUME NEW a \in Attempts, Resumes(a) PROVE SaidShape'
  <2>1. SaidOf(att[a]) /\ TeardownOf(att[a])
    BY DEF SaidShape, TeardownShape
  <2>2. SaidOf(att'[a])
    BY <1>6, <2>1, ResumesDoes, ReactionQuiet DEF SaidOf, TeardownOf, Early, Running, Published
  <2>3. Only(a)
    BY <1>6, ResumesDoes
  <2> QED
    BY <2>2, <2>3 DEF SaidShape, Only
<1>7. ASSUME NEW a \in Attempts, Listed(a) PROVE SaidShape'
  <2>1. SaidOf(att[a])
    BY DEF SaidShape
  <2>2. SaidOf(att'[a])
    BY <1>7, <2>1, ListedDoes, ReactionQuiet DEF SaidOf, Early, Running, Published
  <2>3. Only(a)
    BY <1>7, ListedDoes
  <2> QED
    BY <2>2, <2>3 DEF SaidShape, Only
<1>8. ASSUME NEW a \in Attempts, Mint(a) PROVE SaidShape'
  <2>1. SaidOf(att[a]) /\ TeardownOf(att[a])
    BY DEF SaidShape, TeardownShape
  <2>2. SaidOf(att'[a])
    BY <1>8, <2>1, MintDoes DEF SaidOf, TeardownOf, Early, Running, Published
  <2>3. Only(a)
    BY <1>8, MintDoes
  <2> QED
    BY <2>2, <2>3 DEF SaidShape, Only
<1>9. ASSUME NEW a \in Attempts, Publish(a) PROVE SaidShape'
  <2>1. SaidOf(att[a]) /\ TeardownOf(att[a])
    BY DEF SaidShape, TeardownShape
  <2>2. SaidOf(att'[a])
    <3>1. CASE Advances(a)
      <4>1. att[a].teardown = "none" /\ att'[a].teardown = "none" /\ att'[a].pc \in Published
        BY <2>1, <3>1 DEF Advances, TeardownOf, Published
      <4>2. \/ att'[a].said = att[a].said
            \/ \E what \in {"session", "agent"} : att'[a].said = att[a].said \cup {<<what, "created">>}
        BY <3>1 DEF Advances
      <4>3. \A w \in {"session", "agent"} :
              <<w, "disposed">> \in att'[a].said => <<w, "created">> \in att'[a].said
        BY <2>1, <4>2, CreatedSays DEF SaidOf
      <4> QED
        BY <4>1, <4>3 DEF SaidOf
    <3>2. CASE Refused(a)
      BY <1>9, <2>1, <3>2, PublishDoes DEF Refused, SaidOf, TeardownOf, Published, Running
    <3> QED
      BY <1>9, <3>1, <3>2, PublishDoes
  <2>3. Only(a)
    BY <1>9, PublishDoes
  <2> QED
    BY <2>2, <2>3 DEF SaidShape, Only
<1>10. ASSUME NEW a \in Attempts, Fails(a) PROVE SaidShape'
  <2>1. SaidOf(att[a]) /\ TeardownOf(att[a])
    BY DEF SaidShape, TeardownShape
  <2>2. SaidOf(att'[a])
    BY <1>10, <2>1, FailsDoes, ReactionQuiet DEF SaidOf, TeardownOf, Early, Running, Published
  <2>3. Only(a)
    BY <1>10, FailsDoes
  <2> QED
    BY <2>2, <2>3 DEF SaidShape, Only
<1>11. ASSUME NEW a \in Attempts, OwnerEffect(a) PROVE SaidShape'
  <2>1. SaidOf(att[a]) /\ TeardownOf(att[a])
    BY DEF SaidShape, TeardownShape
  <2>2. SaidOf(att'[a])
    BY <1>11, <2>1, OwnerEffectDoes, ReactionQuiet DEF SaidOf, TeardownOf, Early, Running, Published
  <2>3. Only(a)
    BY <1>11, OwnerEffectDoes
  <2> QED
    BY <2>2, <2>3 DEF SaidShape, Only
<1>12. ASSUME NEW a \in Attempts, NEW kind \in Kinds, Start(a, kind) PROVE SaidShape'
  <2>1. SaidOf(att[a]) /\ TeardownOf(att[a])
    BY DEF SaidShape, TeardownShape
  <2>2. SaidOf(att'[a])
    BY <1>12, <2>1, StartDoes DEF SaidOf, TeardownOf, Early, Running, Published
  <2>3. Only(a)
    BY <1>12, StartDoes
  <2> QED
    BY <2>2, <2>3 DEF SaidShape, Only
<1>13. ASSUME NEW a \in Attempts, Loaded(a) PROVE SaidShape'
  BY <1>13, LoadedDoes, ReactionQuiet DEF SaidShape, SaidOf, Only, Early, Running, Published
<1>14. ASSUME NEW a \in Attempts, LoadFails(a) PROVE SaidShape'
  <2>1. SaidOf(att[a]) /\ TeardownOf(att[a])
    BY DEF SaidShape, TeardownShape
  <2>2. SaidOf(att'[a])
    BY <1>14, <2>1, LoadFailsDoes, ReactionQuiet DEF SaidOf, TeardownOf, Early, Running, Published
  <2>3. Only(a)
    BY <1>14, LoadFailsDoes
  <2> QED
    BY <2>2, <2>3 DEF SaidShape, Only
<1>15. ASSUME NEW a \in Attempts, Arrives(a) PROVE SaidShape'
  BY <1>15, ArrivesDoes, ReactionQuiet DEF SaidShape, SaidOf, Only, Early, Running, Published
<1>16. ASSUME NEW a \in Attempts, SetupEnds(a) PROVE SaidShape'
  BY <1>16, SetupEndsDoes, ReactionQuiet DEF SaidShape, SaidOf, Only, Early, Running, Published
<1>17. ASSUME NEW a \in Attempts, SetupFails(a) PROVE SaidShape'
  <2>1. SaidOf(att[a]) /\ TeardownOf(att[a])
    BY DEF SaidShape, TeardownShape
  <2>2. SaidOf(att'[a])
    BY <1>17, <2>1, SetupFailsDoes, ReactionQuiet DEF SaidOf, TeardownOf, Early, Running, Published
  <2>3. Only(a)
    BY <1>17, SetupFailsDoes
  <2> QED
    BY <2>2, <2>3 DEF SaidShape, Only
<1>18. ASSUME NEW a \in Attempts, Vetoed(a) PROVE SaidShape'
  <2>1. SaidOf(att[a]) /\ TeardownOf(att[a])
    BY DEF SaidShape, TeardownShape
  <2>2. SaidOf(att'[a])
    BY <1>18, <2>1, VetoedDoes DEF SaidOf, TeardownOf, Early, Running, Published
  <2>3. Only(a)
    BY <1>18, VetoedDoes
  <2> QED
    BY <2>2, <2>3 DEF SaidShape, Only
<1>19. ASSUME NEW a \in Attempts, Wake(a) PROVE SaidShape'
  BY <1>19, WakeDoes DEF SaidShape, SaidOf, Only, Early, Running, Published
<1>20. ASSUME NEW a \in Attempts, Rest(a) PROVE SaidShape'
  BY <1>20, RestDoes, ReactionQuiet DEF SaidShape, SaidOf, Only, Early, Running, Published
<1>21. ASSUME NEW a \in Attempts, CallerAborts(a) PROVE SaidShape'
  <2>1. SaidOf(att[a])
    BY DEF SaidShape
  <2>2. SaidOf(att'[a])
    BY <1>21, <2>1, CallerAbortsDoes DEF SaidOf, Early, Running, Published
  <2>3. Only(a)
    BY <1>21, CallerAbortsDoes
  <2> QED
    BY <2>2, <2>3 DEF SaidShape, Only
<1>22. ASSUME NEW a \in Attempts, HandleDispose(a) PROVE SaidShape'
  <2>1. SaidOf(att[a])
    BY DEF SaidShape
  <2>2. SaidOf(att'[a])
    BY <1>22, <2>1, HandleDisposeDoes DEF SaidOf, Early, Running, Published
  <2>3. Only(a)
    BY <1>22, HandleDisposeDoes
  <2> QED
    BY <2>2, <2>3 DEF SaidShape, Only
<1>23. ASSUME NEW f \in Fibers, Unload(f) PROVE SaidShape'
  BY <1>23 DEF Unload, SaidShape
<1>24. ASSUME NEW f \in Fibers, Unloaded(f) PROVE SaidShape'
  BY <1>24 DEF Unloaded, SaidShape
<1>25. CASE FactoryDispose
  <2>1. ASSUME NEW a \in Attempts PROVE SaidOf(att'[a])
    <3>1. SaidOf(att[a]) /\ FollowedOf(a)
      BY DEF SaidShape, Followed
    <3> QED
      BY <1>25, <3>1, FactoryDisposeDoes, ReactionQuiet
         DEF SaidOf, FollowedOf, Early, Running, Published
  <2> QED
    BY <2>1 DEF SaidShape
<1>26. CASE UNCHANGED vars
  BY <1>26 DEF vars, SaidShape
<1> QED
  BY <1>1, <1>2, <1>3, <1>4, <1>5, <1>6, <1>7, <1>8, <1>9, <1>10, <1>11, <1>12, <1>13, <1>14, <1>15,
     <1>16, <1>17, <1>18, <1>19, <1>20, <1>21, <1>22, <1>23, <1>24, <1>25, <1>26
     DEF Next, Proceeds, Environment, Teardown, SetupAborted

\* The agent's entry is inside the session's.
LEMMA SessionFirst == ASSUME TypeOK, Registered PROVE session = None => agent = None
BY NoneIsNoAttempt DEF TypeOK, Registered, RegisteredOf

LEMMA RegisteredStep ==
  ASSUME TypeOK, OnStack, TeardownShape, KindShape, SaidShape, Registered, Followed, [Next]_vars
  PROVE  Registered'
<1>1. ASSUME NEW a \in Attempts, Drained(a) PROVE Registered'
  BY <1>1, DrainedDoes, ReactionQuiet
     DEF Registered, RegisteredOf, Only, Elsewhere, Early, Running, Published
<1>2. ASSUME NEW a \in Attempts, DetachAgent(a) PROVE Registered'
  <2>1. RegisteredOf(a) /\ TeardownOf(att[a])
    BY DEF Registered, TeardownShape
  <2>2. RegisteredOf(a)'
    BY <1>2, <2>1, DetachAgentDoes, ReactionQuiet, NoneIsNoAttempt
       DEF RegisteredOf, TeardownOf, Leaves, Early, Running, Published
  <2>3. Only(a)
    BY <1>2, DetachAgentDoes
  <2>4. Elsewhere(a)
    BY <1>2, DetachAgentElsewhere
  <2> QED
    BY <2>2, <2>3, <2>4, RegisteredFrame
<1>3. ASSUME NEW a \in Attempts, DetachSession(a) PROVE Registered'
  <2>1. RegisteredOf(a) /\ FollowedOf(a) /\ TeardownOf(att[a]) /\ att[a].pc \notin Running
    BY <1>3, DetachSessionDoes
       DEF TeardownShape, TeardownOf, Running, Registered, Followed, TeardownShape
  <2>2. RegisteredOf(a)'
    <3>1. /\ att[a].teardown = "detaching" /\ att'[a].teardown = "done" /\ att'[a].driver = att[a].driver
          /\ session' = Leaves(session, a) /\ agent' = agent
      BY <1>3, DetachSessionDoes
    <3>2. session' # a /\ agent' # a /\ att'[a].driver # "busy"
      BY <2>1, <3>1, NoneIsNoAttempt DEF Leaves, RegisteredOf, TeardownOf
    <3> QED
      BY <3>1, <3>2 DEF RegisteredOf
  <2>3. ASSUME NEW b \in Attempts, b # a PROVE RegisteredOf(b)'
    <3>1. RegisteredOf(b) /\ att[b] \in Attempt
      BY DEF Registered, TypeOK
    <3>2. att'[b] = att[b] \/ (att[b].pc = "waiting" /\ att'[b] = [att[b] EXCEPT !.pc = "woken"])
      BY <1>3, <2>3, DetachSessionDoes
    <3>3. /\ att'[b] = att[b] \/ (att[b].pc = "waiting" /\ att'[b].pc = "woken")
          /\ att'[b].kind = att[b].kind /\ att'[b].aborted = att[b].aborted /\ att'[b].teardown = att[b].teardown
          /\ att'[b].byOwner = att[b].byOwner /\ att'[b].follows = att[b].follows /\ att'[b].held = att[b].held
          /\ att'[b].driver = att[b].driver /\ att'[b].said = att[b].said
      BY <3>1, <3>2 DEF Attempt
    <3>4. (session' = b <=> session = b) /\ agent' = agent /\ (b \in tracked' <=> b \in tracked)
      <4>1. agent' = agent
        BY <1>3, DetachSessionDoes
      <4> QED
        BY <1>3, <2>3, <4>1, DetachSessionElsewhere DEF Elsewhere
    <3> QED
      BY <3>1, <3>3, <3>4 DEF RegisteredOf, Early, Running, Published
  <2> QED
    BY <2>2, <2>3 DEF Registered
<1>4. ASSUME NEW a \in Attempts, StopWaiting(a) PROVE Registered'
  BY <1>4, StopWaitingDoes, ReactionQuiet
     DEF Registered, RegisteredOf, Only, Elsewhere, Early, Running, Published
<1>5. ASSUME NEW a \in Attempts, LoadAborted(a) PROVE Registered'
  BY <1>5, LoadAbortedDoes, ReactionQuiet
     DEF Registered, RegisteredOf, Only, Elsewhere, Early, Running, Published
<1>6. ASSUME NEW a \in Attempts, Resumes(a) PROVE Registered'
  <2>1. RegisteredOf(a)
    BY DEF Registered
  <2>2. RegisteredOf(a)'
    BY <1>6, <2>1, ResumesDoes, ReactionQuiet DEF RegisteredOf, Early, Running, Published
  <2>3. Only(a)
    BY <1>6, ResumesDoes
  <2>4. Elsewhere(a)
    BY <1>6, ResumesElsewhere
  <2> QED
    BY <2>2, <2>3, <2>4, RegisteredFrame
<1>7. ASSUME NEW a \in Attempts, Listed(a) PROVE Registered'
  <2>1. RegisteredOf(a)
    BY DEF Registered
  <2>2. RegisteredOf(a)'
    BY <1>7, <2>1, ListedDoes, ReactionQuiet DEF RegisteredOf, Early, Running, Published
  <2>3. Only(a)
    BY <1>7, ListedDoes
  <2>4. Elsewhere(a)
    BY <1>7, ListedElsewhere
  <2> QED
    BY <2>2, <2>3, <2>4, RegisteredFrame
<1>8. ASSUME NEW a \in Attempts, Mint(a) PROVE Registered'
  <2>1. RegisteredOf(a)
    BY DEF Registered
  <2>2. RegisteredOf(a)'
    BY <1>8, <2>1, MintDoes DEF RegisteredOf, Early, Running, Published
  <2>3. Only(a) /\ Elsewhere(a)
    BY <1>8, MintDoes DEF Elsewhere
  <2> QED
    BY <2>2, <2>3, RegisteredFrame
<1>9. ASSUME NEW a \in Attempts, Publish(a) PROVE Registered'
  <2>1. RegisteredOf(a) /\ TeardownOf(att[a]) /\ FollowedOf(a)
    BY DEF Registered, TeardownShape, Followed
  <2>2. RegisteredOf(a)'
    <3>1. a # None /\ tracked' = tracked /\ att[a].pc \in {"enter", "session", "agent", "start"}
      BY <1>9, PublishDoes, NoneIsNoAttempt
    <3>2. CASE Advances(a)
      <4>1. att[a].teardown = "none" /\ att'[a].teardown = "none"
        BY <2>1, <3>2 DEF Advances, TeardownOf
      <4>2. a \in tracked /\ session' = a /\ agent' = a /\ att'[a].pc \in Published
        <5>1. CASE att[a].pc = "enter"
          <6>1. a \in tracked /\ session' = a /\ agent' = a /\ att'[a].pc = "session"
            BY <2>1, <3>2, <5>1 DEF Advances, TeardownOf, FollowedOf
          <6> QED
            BY <6>1 DEF Published
        <5>2. CASE att[a].pc # "enter"
          BY <2>1, <3>1, <3>2, <4>1, <5>2 DEF Advances, RegisteredOf, Published
        <5> QED
          BY <5>1, <5>2
      <4> QED
        BY <3>1, <4>1, <4>2 DEF RegisteredOf, Published
    <3>3. CASE Refused(a)
      <4>1. /\ att'[a].teardown = (IF att[a].teardown = "none" THEN "draining" ELSE att[a].teardown)
            /\ att'[a].pc \in {"failed", "failing"} /\ att'[a].driver = att[a].driver
        BY <3>3 DEF Refused
      <4>2. UNCHANGED <<session, agent>>
        BY <2>1, <3>1, <3>3, SessionFirst DEF Refused
      <4> QED
        BY <2>1, <3>1, <4>1, <4>2 DEF RegisteredOf, TeardownOf, Published, Running
    <3> QED
      BY <1>9, <3>2, <3>3, PublishDoes
  <2>3. Only(a)
    BY <1>9, PublishDoes
  <2>4. Elsewhere(a)
    BY <1>9, PublishElsewhere
  <2> QED
    BY <2>2, <2>3, <2>4, RegisteredFrame
<1>10. ASSUME NEW a \in Attempts, Fails(a) PROVE Registered'
  <2>1. RegisteredOf(a) /\ FollowedOf(a)
    BY DEF Registered, Followed
  <2>2. RegisteredOf(a)'
    BY <1>10, <2>1, FailsDoes, ReactionQuiet DEF RegisteredOf, FollowedOf, Early, Running, Published
  <2>3. Only(a) /\ Elsewhere(a)
    BY <1>10, FailsDoes DEF Elsewhere
  <2> QED
    BY <2>2, <2>3, RegisteredFrame
<1>11. ASSUME NEW a \in Attempts, OwnerEffect(a) PROVE Registered'
  <2>1. RegisteredOf(a)
    BY DEF Registered
  <2>2. RegisteredOf(a)'
    BY <1>11, <2>1, OwnerEffectDoes, ReactionQuiet DEF RegisteredOf, Early, Running, Published
  <2>3. Only(a) /\ Elsewhere(a)
    BY <1>11, OwnerEffectDoes DEF Elsewhere
  <2> QED
    BY <2>2, <2>3, RegisteredFrame
<1>12. ASSUME NEW a \in Attempts, NEW kind \in Kinds, Start(a, kind) PROVE Registered'
  <2>1. RegisteredOf(a)
    BY DEF Registered
  <2>2. RegisteredOf(a)'
    <3>1. /\ att'[a].pc \in Early \cup {"minting", "listing", "failed"} /\ att'[a].driver = "none"
          /\ att[a] = Idle /\ UNCHANGED <<session, agent>>
      BY <1>12, StartDoes DEF Early
    <3>2. session # a /\ agent # a
      BY <2>1, <3>1, IdleFields DEF RegisteredOf, Published
    <3> QED
      BY <3>1, <3>2 DEF RegisteredOf, Published, Early
  <2>3. Only(a)
    BY <1>12, StartDoes
  <2>4. Elsewhere(a)
    BY <1>12, StartElsewhere
  <2> QED
    BY <2>2, <2>3, <2>4, RegisteredFrame
<1>13. ASSUME NEW a \in Attempts, Loaded(a) PROVE Registered'
  BY <1>13, LoadedDoes, ReactionQuiet
     DEF Registered, RegisteredOf, Only, Elsewhere, Early, Running, Published
<1>14. ASSUME NEW a \in Attempts, LoadFails(a) PROVE Registered'
  BY <1>14, LoadFailsDoes, ReactionQuiet
     DEF Registered, RegisteredOf, Only, Elsewhere, Early, Running, Published
<1>15. ASSUME NEW a \in Attempts, Arrives(a) PROVE Registered'
  BY <1>15, ArrivesDoes, ReactionQuiet
     DEF Registered, RegisteredOf, Only, Elsewhere, Early, Running, Published
<1>16. ASSUME NEW a \in Attempts, SetupEnds(a) PROVE Registered'
  BY <1>16, SetupEndsDoes, ReactionQuiet
     DEF Registered, RegisteredOf, Only, Elsewhere, Early, Running, Published
<1>17. ASSUME NEW a \in Attempts, SetupFails(a) PROVE Registered'
  <2>1. RegisteredOf(a)
    BY DEF Registered
  <2>2. RegisteredOf(a)'
    BY <1>17, <2>1, SetupFailsDoes, ReactionQuiet DEF RegisteredOf, Early, Running, Published
  <2>3. Only(a) /\ Elsewhere(a)
    BY <1>17, SetupFailsDoes DEF Elsewhere
  <2> QED
    BY <2>2, <2>3, RegisteredFrame
<1>18. ASSUME NEW a \in Attempts, Vetoed(a) PROVE Registered'
  <2>1. RegisteredOf(a)
    BY DEF Registered
  <2>2. RegisteredOf(a)'
    BY <1>18, <2>1, VetoedDoes DEF RegisteredOf, Early, Running, Published
  <2>3. Only(a) /\ Elsewhere(a)
    BY <1>18, VetoedDoes DEF Elsewhere
  <2> QED
    BY <2>2, <2>3, RegisteredFrame
<1>19. ASSUME NEW a \in Attempts, Wake(a) PROVE Registered'
  BY <1>19, WakeDoes DEF Registered, RegisteredOf, Only, Elsewhere, Early, Running, Published
<1>20. ASSUME NEW a \in Attempts, Rest(a) PROVE Registered'
  BY <1>20, RestDoes, ReactionQuiet
     DEF Registered, RegisteredOf, Only, Elsewhere, Early, Running, Published
<1>21. ASSUME NEW a \in Attempts, CallerAborts(a) PROVE Registered'
  <2>1. RegisteredOf(a)
    BY DEF Registered
  <2>2. RegisteredOf(a)'
    BY <1>21, <2>1, CallerAbortsDoes DEF RegisteredOf, Early, Running, Published
  <2>3. Only(a) /\ Elsewhere(a)
    BY <1>21, CallerAbortsDoes DEF Elsewhere
  <2> QED
    BY <2>2, <2>3, RegisteredFrame
<1>22. ASSUME NEW a \in Attempts, HandleDispose(a) PROVE Registered'
  <2>1. RegisteredOf(a)
    BY DEF Registered
  <2>2. RegisteredOf(a)'
    BY <1>22, <2>1, HandleDisposeDoes DEF RegisteredOf, Early, Running, Published
  <2>3. Only(a) /\ Elsewhere(a)
    BY <1>22, HandleDisposeDoes DEF Elsewhere
  <2> QED
    BY <2>2, <2>3, RegisteredFrame
<1>23. ASSUME NEW f \in Fibers, Unload(f) PROVE Registered'
  BY <1>23 DEF Unload, Registered, RegisteredOf
<1>24. ASSUME NEW f \in Fibers, Unloaded(f) PROVE Registered'
  BY <1>24 DEF Unloaded, Registered, RegisteredOf
<1>25. CASE FactoryDispose
  <2>1. ASSUME NEW a \in Attempts PROVE RegisteredOf(a)'
    <3>1. RegisteredOf(a) /\ FollowedOf(a) /\ TeardownOf(att[a])
      BY DEF Registered, Followed, TeardownShape
    <3> QED
      BY <1>25, <3>1, FactoryDisposeDoes, ReactionQuiet
         DEF RegisteredOf, FollowedOf, TeardownOf, Early, Running, Published
  <2> QED
    BY <2>1 DEF Registered
<1>26. CASE UNCHANGED vars
  BY <1>26 DEF vars, Registered, RegisteredOf
<1> QED
  BY <1>1, <1>2, <1>3, <1>4, <1>5, <1>6, <1>7, <1>8, <1>9, <1>10, <1>11, <1>12, <1>13, <1>14, <1>15,
     <1>16, <1>17, <1>18, <1>19, <1>20, <1>21, <1>22, <1>23, <1>24, <1>25, <1>26
     DEF Next, Proceeds, Environment, Teardown, SetupAborted

LEMMA FollowedStep ==
  ASSUME TypeOK, OnStack, TeardownShape, KindShape, SaidShape, Registered, Followed, [Next]_vars
  PROVE  Followed'
<1>1. ASSUME NEW a \in Attempts, Drained(a) PROVE Followed'
  BY <1>1, DrainedDoes, ReactionQuiet
     DEF Followed, FollowedOf, Only, Elsewhere, Early, Running, Published
<1>2. ASSUME NEW a \in Attempts, DetachAgent(a) PROVE Followed'
  <2>1. FollowedOf(a)
    BY DEF Followed
  <2>2. FollowedOf(a)'
    BY <1>2, <2>1, DetachAgentDoes, ReactionQuiet, NoneIsNoAttempt
       DEF FollowedOf, Leaves, Early, Running, Published
  <2>3. Only(a)
    BY <1>2, DetachAgentDoes
  <2>4. Elsewhere(a)
    BY <1>2, DetachAgentElsewhere
  <2> QED
    BY <2>2, <2>3, <2>4, FollowedFrame
<1>3. ASSUME NEW a \in Attempts, DetachSession(a) PROVE Followed'
  <2>1. FollowedOf(a) /\ TeardownOf(att[a]) /\ att[a].pc \notin Running
    BY <1>3, DetachSessionDoes DEF TeardownShape, TeardownOf, Running, Followed, TeardownShape
  <2>2. FollowedOf(a)'
    BY <1>3, <2>1, DetachSessionDoes
       DEF FollowedOf, TeardownOf, WithDisposed, Leaves, Early, Running, Published
  <2>3. ASSUME NEW b \in Attempts, b # a PROVE FollowedOf(b)'
    <3>1. FollowedOf(b) /\ att[b] \in Attempt
      BY DEF Followed, TypeOK
    <3>2. att'[b] = att[b] \/ (att[b].pc = "waiting" /\ att'[b] = [att[b] EXCEPT !.pc = "woken"])
      BY <1>3, <2>3, DetachSessionDoes
    <3>3. /\ att'[b] = att[b] \/ (att[b].pc = "waiting" /\ att'[b].pc = "woken")
          /\ att'[b].kind = att[b].kind /\ att'[b].aborted = att[b].aborted /\ att'[b].teardown = att[b].teardown
          /\ att'[b].byOwner = att[b].byOwner /\ att'[b].follows = att[b].follows /\ att'[b].held = att[b].held
          /\ att'[b].driver = att[b].driver /\ att'[b].said = att[b].said
      BY <3>1, <3>2 DEF Attempt
    <3>4. (session' = b <=> session = b) /\ agent' = agent /\ (b \in tracked' <=> b \in tracked)
      <4>1. agent' = agent
        BY <1>3, DetachSessionDoes
      <4> QED
        BY <1>3, <2>3, <4>1, DetachSessionElsewhere DEF Elsewhere
    <3> QED
      BY <3>1, <3>3, <3>4 DEF FollowedOf, Early, Running, Published
  <2> QED
    BY <2>2, <2>3 DEF Followed
<1>4. ASSUME NEW a \in Attempts, StopWaiting(a) PROVE Followed'
  BY <1>4, StopWaitingDoes, ReactionQuiet
     DEF Followed, FollowedOf, Only, Elsewhere, Early, Running, Published
<1>5. ASSUME NEW a \in Attempts, LoadAborted(a) PROVE Followed'
  BY <1>5, LoadAbortedDoes, ReactionQuiet
     DEF Followed, FollowedOf, Only, Elsewhere, Early, Running, Published
<1>6. ASSUME NEW a \in Attempts, Resumes(a) PROVE Followed'
  <2>1. FollowedOf(a) /\ TeardownOf(att[a])
    BY DEF Followed, TeardownShape
  <2>2. FollowedOf(a)'
    <3>1. CASE att'[a].pc = "minting"
      <4>1. att'[a].follows = {"life"} /\ tracked' = tracked \cup {a} /\ att'[a].teardown = "none"
        BY <1>6, <2>1, <3>1, ResumesDoes DEF TeardownOf, Early
      <4> QED
        BY <3>1, <4>1 DEF FollowedOf, Early
    <3>2. CASE att'[a].pc # "minting"
      <4>1. att'[a].pc \notin {"minting", "setup", "enter"} /\ a \notin tracked' /\ att'[a].follows = att[a].follows \ {"load"} /\ "life" \notin att[a].follows
        BY <1>6, <2>1, <3>2, ResumesDoes DEF TeardownOf, FollowedOf, Early
      <4> QED
        BY <2>1, <4>1 DEF FollowedOf, Early
    <3> QED
      BY <3>1, <3>2
  <2>3. Only(a)
    BY <1>6, ResumesDoes
  <2>4. Elsewhere(a)
    BY <1>6, ResumesElsewhere
  <2> QED
    BY <2>2, <2>3, <2>4, FollowedFrame
<1>7. ASSUME NEW a \in Attempts, Listed(a) PROVE Followed'
  <2>1. FollowedOf(a) /\ TeardownOf(att[a])
    BY DEF Followed, TeardownShape
  <2>2. FollowedOf(a)'
    <3>1. CASE att'[a].pc = "minting"
      <4>1. att'[a].follows = {"life"} /\ tracked' = tracked \cup {a} /\ att'[a].teardown = "none"
        BY <1>7, <2>1, <3>1, ListedDoes DEF TeardownOf, Early
      <4> QED
        BY <3>1, <4>1 DEF FollowedOf, Early
    <3>2. CASE att'[a].pc # "minting"
      <4>1. att'[a].pc \notin {"minting", "setup", "enter"} /\ a \notin tracked' /\ att'[a].follows = att[a].follows /\ "life" \notin att[a].follows /\ "load" \notin att[a].follows
        BY <1>7, <2>1, <3>2, ListedDoes DEF TeardownOf, FollowedOf, Early
      <4> QED
        BY <2>1, <4>1 DEF FollowedOf, Early
    <3> QED
      BY <3>1, <3>2
  <2>3. Only(a)
    BY <1>7, ListedDoes
  <2>4. Elsewhere(a)
    BY <1>7, ListedElsewhere
  <2> QED
    BY <2>2, <2>3, <2>4, FollowedFrame
<1>8. ASSUME NEW a \in Attempts, Mint(a) PROVE Followed'
  <2>1. FollowedOf(a)
    BY DEF Followed
  <2>2. FollowedOf(a)'
    BY <1>8, <2>1, MintDoes DEF FollowedOf, Early, Running, Published
  <2>3. Only(a) /\ Elsewhere(a)
    BY <1>8, MintDoes DEF Elsewhere
  <2> QED
    BY <2>2, <2>3, FollowedFrame
<1>9. ASSUME NEW a \in Attempts, Publish(a) PROVE Followed'
  <2>1. FollowedOf(a)
    BY DEF Followed
  <2>2. FollowedOf(a)'
    BY <1>9, <2>1, PublishDoes, NoneIsNoAttempt
       DEF FollowedOf, Advances, Refused, Early, Running, Published
  <2>3. Only(a)
    BY <1>9, PublishDoes
  <2>4. Elsewhere(a)
    BY <1>9, PublishElsewhere
  <2> QED
    BY <2>2, <2>3, <2>4, FollowedFrame
<1>10. ASSUME NEW a \in Attempts, Fails(a) PROVE Followed'
  BY <1>10, FailsDoes, ReactionQuiet
     DEF Followed, FollowedOf, Only, Elsewhere, Early, Running, Published
<1>11. ASSUME NEW a \in Attempts, OwnerEffect(a) PROVE Followed'
  <2>1. FollowedOf(a)
    BY DEF Followed
  <2>2. FollowedOf(a)'
    BY <1>11, <2>1, OwnerEffectDoes, ReactionQuiet DEF FollowedOf, Early, Running, Published
  <2>3. Only(a) /\ Elsewhere(a)
    BY <1>11, OwnerEffectDoes DEF Elsewhere
  <2> QED
    BY <2>2, <2>3, FollowedFrame
<1>12. ASSUME NEW a \in Attempts, NEW kind \in Kinds, Start(a, kind) PROVE Followed'
  <2>1. FollowedOf(a) /\ TeardownOf(att[a])
    BY DEF Followed, TeardownShape
  <2>2. FollowedOf(a)'
    <3>1. CASE att'[a].pc = "minting"
      <4>1. att'[a].follows = {"life"} /\ tracked' = tracked \cup {a} /\ att'[a].teardown = "none"
        BY <1>12, <2>1, <3>1, StartDoes DEF TeardownOf, Early
      <4> QED
        BY <3>1, <4>1 DEF FollowedOf, Early
    <3>2. CASE att'[a].pc # "minting"
      <4>1. /\ att'[a].pc \notin {"minting", "setup", "enter"} /\ a \notin tracked'
            /\ att'[a].follows = {} \/ (att'[a].follows = {"load"} /\ att'[a].pc = "loading")
        BY <1>12, <2>1, <3>2, StartDoes, IdleFields DEF TeardownOf, FollowedOf, Early
      <4> QED
        BY <2>1, <4>1 DEF FollowedOf, Early
    <3> QED
      BY <3>1, <3>2
  <2>3. Only(a)
    BY <1>12, StartDoes
  <2>4. Elsewhere(a)
    BY <1>12, StartElsewhere
  <2> QED
    BY <2>2, <2>3, <2>4, FollowedFrame
<1>13. ASSUME NEW a \in Attempts, Loaded(a) PROVE Followed'
  BY <1>13, LoadedDoes, ReactionQuiet
     DEF Followed, FollowedOf, Only, Elsewhere, Early, Running, Published
<1>14. ASSUME NEW a \in Attempts, LoadFails(a) PROVE Followed'
  BY <1>14, LoadFailsDoes, ReactionQuiet
     DEF Followed, FollowedOf, Only, Elsewhere, Early, Running, Published
<1>15. ASSUME NEW a \in Attempts, Arrives(a) PROVE Followed'
  BY <1>15, ArrivesDoes, ReactionQuiet
     DEF Followed, FollowedOf, Only, Elsewhere, Early, Running, Published
<1>16. ASSUME NEW a \in Attempts, SetupEnds(a) PROVE Followed'
  BY <1>16, SetupEndsDoes, ReactionQuiet
     DEF Followed, FollowedOf, Only, Elsewhere, Early, Running, Published
<1>17. ASSUME NEW a \in Attempts, SetupFails(a) PROVE Followed'
  <2>1. FollowedOf(a)
    BY DEF Followed
  <2>2. FollowedOf(a)'
    BY <1>17, <2>1, SetupFailsDoes, ReactionQuiet DEF FollowedOf, Early, Running, Published
  <2>3. Only(a) /\ Elsewhere(a)
    BY <1>17, SetupFailsDoes DEF Elsewhere
  <2> QED
    BY <2>2, <2>3, FollowedFrame
<1>18. ASSUME NEW a \in Attempts, Vetoed(a) PROVE Followed'
  <2>1. FollowedOf(a)
    BY DEF Followed
  <2>2. FollowedOf(a)'
    BY <1>18, <2>1, VetoedDoes DEF FollowedOf, Early, Running, Published
  <2>3. Only(a) /\ Elsewhere(a)
    BY <1>18, VetoedDoes DEF Elsewhere
  <2> QED
    BY <2>2, <2>3, FollowedFrame
<1>19. ASSUME NEW a \in Attempts, Wake(a) PROVE Followed'
  BY <1>19, WakeDoes DEF Followed, FollowedOf, Only, Elsewhere, Early, Running, Published
<1>20. ASSUME NEW a \in Attempts, Rest(a) PROVE Followed'
  BY <1>20, RestDoes, ReactionQuiet DEF Followed, FollowedOf, Only, Elsewhere, Early, Running, Published
<1>21. ASSUME NEW a \in Attempts, CallerAborts(a) PROVE Followed'
  <2>1. FollowedOf(a)
    BY DEF Followed
  <2>2. FollowedOf(a)'
    BY <1>21, <2>1, CallerAbortsDoes DEF FollowedOf, Early, Running, Published
  <2>3. Only(a) /\ Elsewhere(a)
    BY <1>21, CallerAbortsDoes DEF Elsewhere
  <2> QED
    BY <2>2, <2>3, FollowedFrame
<1>22. ASSUME NEW a \in Attempts, HandleDispose(a) PROVE Followed'
  <2>1. FollowedOf(a)
    BY DEF Followed
  <2>2. FollowedOf(a)'
    BY <1>22, <2>1, HandleDisposeDoes DEF FollowedOf, Early, Running, Published
  <2>3. Only(a) /\ Elsewhere(a)
    BY <1>22, HandleDisposeDoes DEF Elsewhere
  <2> QED
    BY <2>2, <2>3, FollowedFrame
<1>23. ASSUME NEW f \in Fibers, Unload(f) PROVE Followed'
  BY <1>23 DEF Unload, Followed, FollowedOf
<1>24. ASSUME NEW f \in Fibers, Unloaded(f) PROVE Followed'
  BY <1>24 DEF Unloaded, Followed, FollowedOf
<1>25. CASE FactoryDispose
  <2>1. ASSUME NEW a \in Attempts PROVE FollowedOf(a)'
    <3>1. FollowedOf(a) /\ TeardownOf(att[a])
      BY DEF Followed, TeardownShape
    <3> QED
      BY <1>25, <3>1, FactoryDisposeDoes, ReactionQuiet
         DEF FollowedOf, TeardownOf, Early, Running, Published
  <2> QED
    BY <2>1 DEF Followed
<1>26. CASE UNCHANGED vars
  BY <1>26 DEF vars, Followed, FollowedOf
<1> QED
  BY <1>1, <1>2, <1>3, <1>4, <1>5, <1>6, <1>7, <1>8, <1>9, <1>10, <1>11, <1>12, <1>13, <1>14, <1>15,
     <1>16, <1>17, <1>18, <1>19, <1>20, <1>21, <1>22, <1>23, <1>24, <1>25, <1>26
     DEF Next, Proceeds, Environment, Teardown, SetupAborted

LEMMA OnStackFrame ==
  ASSUME OnStack, NEW a \in Attempts, Only(a), \A b \in Attempts : b # a /\ OnCall(b) => OnCall(b)',
         att'[a].pc \in Running \/ att'[a].teardown = "detaching" => OnCall(a)'
  PROVE  OnStack'
BY DEF OnStack, Only

LEMMA PushIsNew == ASSUME stack \in Seq(Attempts), NEW a \in Attempts PROVE <<a>> \o stack # stack
<1>1. Len(<<a>> \o stack) = Len(stack) + 1 /\ Len(stack) \in Nat
  OBVIOUS
<1> QED
  BY <1>1

LEMMA EmptyStack == ASSUME Reaction PROVE \A b \in Attempts : ~OnCall(b)
<1>1. Len(stack) = 0
  BY DEF Reaction
<1> QED
  BY <1>1 DEF OnCall

LEMMA OnStackStep ==
  ASSUME TypeOK, OnStack, TeardownShape, KindShape, SaidShape, Registered, Followed, [Next]_vars
  PROVE  OnStack'
<1>1. ASSUME NEW a \in Attempts, Drained(a) PROVE OnStack'
  BY <1>1, DrainedDoes, SameStack, ReactionQuiet DEF OnStack, Only, Running
<1>2. ASSUME NEW a \in Attempts, DetachAgent(a) PROVE OnStack'
  <2>1. TeardownOf(att[a]) /\ stack \in Seq(Attempts)
    BY DEF TeardownShape, TypeOK
  <2>2. Only(a)
    BY <1>2, DetachAgentDoes
  <2>3. \A b \in Attempts : b # a /\ OnCall(b) => OnCall(b)'
    BY <1>2, EmptyStack, DetachAgentDoes
  <2>4. OnCall(a)'
    BY <1>2, FirstOnStack, DetachAgentDoes
  <2> QED
    BY <2>2, <2>3, <2>4, OnStackFrame
<1>3. ASSUME NEW a \in Attempts, DetachSession(a) PROVE OnStack'
  <2>1. TeardownOf(att[a]) /\ stack \in Seq(Attempts) /\ att[a].teardown = "detaching" /\ att \in [Attempts -> Attempt]
    BY <1>3, DetachSessionDoes DEF TeardownShape, TypeOK
  <2>2. \A b \in Attempts : b # a /\ OnCall(b) => OnCall(b)'
    BY <1>3, <2>1, PopStack DEF DetachSession
  <2>3. att'[a].pc \notin Running /\ att'[a].teardown = "done"
    BY <1>3, <2>1, DetachSessionDoes DEF TeardownOf, Running
  <2>4. ASSUME NEW b \in Attempts, b # a, att'[b].pc \in Running \/ att'[b].teardown = "detaching"
        PROVE  att[b].pc \in Running \/ att[b].teardown = "detaching"
    <3>1. att'[b] = att[b] \/ att'[b] = [att[b] EXCEPT !.pc = "woken"]
      BY <1>3, <2>4, DetachSessionDoes
    <3> QED
      BY <2>1, <2>4, <3>1 DEF Attempt, Running
  <2> QED
    BY <2>2, <2>3, <2>4 DEF OnStack
<1>4. ASSUME NEW a \in Attempts, StopWaiting(a) PROVE OnStack'
  BY <1>4, StopWaitingDoes, SameStack, ReactionQuiet DEF OnStack, Only, Running
<1>5. ASSUME NEW a \in Attempts, LoadAborted(a) PROVE OnStack'
  BY <1>5, LoadAbortedDoes, SameStack, ReactionQuiet DEF OnStack, Only, Running
<1>6. ASSUME NEW a \in Attempts, Resumes(a) PROVE OnStack'
  <2>1. TeardownOf(att[a]) /\ stack \in Seq(Attempts)
    BY DEF TeardownShape, TypeOK
  <2>2. Only(a)
    BY <1>6, ResumesDoes
  <2>3. \A b \in Attempts : b # a /\ OnCall(b) => OnCall(b)'
    BY <1>6, <2>1, SameStack, PushStack DEF Resumes, Prepare
  <2>4. att'[a].pc \in Running \/ att'[a].teardown = "detaching" => OnCall(a)'
    <3>1. CASE stack' = <<a>> \o stack
      BY <2>1, <3>1, PushStack
    <3>2. CASE stack' = stack
      <4>1. att'[a].pc \notin Running /\ att'[a].teardown # "detaching"
        BY <1>6, <2>1, <3>2, ResumesDoes, PushIsNew, ReactionQuiet DEF Running, TeardownOf, Early
      <4> QED
        BY <4>1
    <3> QED
      BY <1>6, <3>1, <3>2 DEF Resumes, Prepare
  <2> QED
    BY <2>2, <2>3, <2>4, OnStackFrame
<1>7. ASSUME NEW a \in Attempts, Listed(a) PROVE OnStack'
  <2>1. TeardownOf(att[a]) /\ stack \in Seq(Attempts)
    BY DEF TeardownShape, TypeOK
  <2>2. Only(a)
    BY <1>7, ListedDoes
  <2>3. \A b \in Attempts : b # a /\ OnCall(b) => OnCall(b)'
    BY <1>7, <2>1, SameStack, PushStack DEF Listed, Prepare
  <2>4. att'[a].pc \in Running \/ att'[a].teardown = "detaching" => OnCall(a)'
    <3>1. CASE stack' = <<a>> \o stack
      BY <2>1, <3>1, PushStack
    <3>2. CASE stack' = stack
      <4>1. att'[a].pc \notin Running /\ att'[a].teardown # "detaching"
        BY <1>7, <2>1, <3>2, ListedDoes, PushIsNew, ReactionQuiet DEF Running, TeardownOf, Early
      <4> QED
        BY <4>1
    <3> QED
      BY <1>7, <3>1, <3>2 DEF Listed, Prepare
  <2> QED
    BY <2>2, <2>3, <2>4, OnStackFrame
<1>8. ASSUME NEW a \in Attempts, Mint(a) PROVE OnStack'
  <2>1. TeardownOf(att[a]) /\ stack \in Seq(Attempts)
    BY DEF TeardownShape, TypeOK
  <2>2. Only(a)
    BY <1>8, MintDoes
  <2>3. \A b \in Attempts : b # a /\ OnCall(b) => OnCall(b)'
    <3>1. Top(a) /\ (stack' = Tail(stack) \/ stack' = stack)
      BY <1>8 DEF Mint
    <3> QED
      BY <2>1, <3>1, PopStack, SameStack
  <2>4. att'[a].pc \in Running \/ att'[a].teardown = "detaching" => OnCall(a)'
    BY <1>8, <2>1, MintDoes, SameStack DEF OnStack, Running, TeardownOf
  <2> QED
    BY <2>2, <2>3, <2>4, OnStackFrame
<1>9. ASSUME NEW a \in Attempts, Publish(a) PROVE OnStack'
  <2>1. TeardownOf(att[a]) /\ stack \in Seq(Attempts)
    BY DEF TeardownShape, TypeOK
  <2>2. Only(a)
    BY <1>9, PublishDoes
  <2>3. \A b \in Attempts : b # a /\ OnCall(b) => OnCall(b)'
    <3>1. Top(a) /\ (stack' = Tail(stack) \/ stack' = stack)
      BY <1>9 DEF Publish
    <3> QED
      BY <2>1, <3>1, PopStack, SameStack
  <2>4. att'[a].pc \in Running \/ att'[a].teardown = "detaching" => OnCall(a)'
    <3>1. OnCall(a)
      BY <1>9, PublishDoes DEF OnStack, Running
    <3>2. CASE Advances(a)
      <4>1. att'[a].teardown = "none" /\ (att'[a].pc = "live" \/ stack' = stack)
        BY <2>1, <3>2 DEF Advances, TeardownOf
      <4> QED
        BY <3>1, <4>1, SameStack DEF Running
    <3>3. CASE Refused(a)
      BY <1>9, <2>1, <3>3, PublishDoes DEF Refused, Running, TeardownOf
    <3> QED
      BY <1>9, <3>2, <3>3, PublishDoes
  <2> QED
    BY <2>2, <2>3, <2>4, OnStackFrame
<1>10. ASSUME NEW a \in Attempts, Fails(a) PROVE OnStack'
  BY <1>10, FailsDoes, SameStack, ReactionQuiet DEF OnStack, Only, Running
<1>11. ASSUME NEW a \in Attempts, OwnerEffect(a) PROVE OnStack'
  <2>1. TeardownOf(att[a]) /\ stack \in Seq(Attempts)
    BY DEF TeardownShape, TypeOK
  <2>2. Only(a)
    BY <1>11, OwnerEffectDoes
  <2>3. stack' = stack /\ \A b \in Attempts : b # a /\ OnCall(b) => OnCall(b)'
    BY <1>11, OwnerEffectDoes, SameStack
  <2>4. att'[a].pc \in Running \/ att'[a].teardown = "detaching" => OnCall(a)'
    BY <1>11, <2>1, <2>3, OwnerEffectDoes, SameStack, ReactionQuiet DEF OnStack, Running
  <2> QED
    BY <2>2, <2>3, <2>4, OnStackFrame
<1>12. ASSUME NEW a \in Attempts, NEW kind \in Kinds, Start(a, kind) PROVE OnStack'
  <2>1. TeardownOf(att[a]) /\ stack \in Seq(Attempts)
    BY DEF TeardownShape, TypeOK
  <2>2. Only(a)
    BY <1>12, StartDoes
  <2>3. \A b \in Attempts : b # a /\ OnCall(b) => OnCall(b)'
    BY <1>12, <2>1, SameStack, PushStack DEF Start, Prepare
  <2>4. att'[a].pc \in Running \/ att'[a].teardown = "detaching" => OnCall(a)'
    <3>1. CASE stack' = <<a>> \o stack
      BY <2>1, <3>1, PushStack
    <3>2. CASE stack' = stack
      <4>1. att'[a].pc \notin Running /\ att'[a].teardown # "detaching"
        BY <1>12, <2>1, <3>2, StartDoes, PushIsNew DEF Running, TeardownOf, Early
      <4> QED
        BY <4>1
    <3> QED
      BY <1>12, <3>1, <3>2 DEF Start, Prepare
  <2> QED
    BY <2>2, <2>3, <2>4, OnStackFrame
<1>13. ASSUME NEW a \in Attempts, Loaded(a) PROVE OnStack'
  BY <1>13, LoadedDoes, SameStack, ReactionQuiet DEF OnStack, Only, Running
<1>14. ASSUME NEW a \in Attempts, LoadFails(a) PROVE OnStack'
  BY <1>14, LoadFailsDoes, SameStack, ReactionQuiet DEF OnStack, Only, Running
<1>15. ASSUME NEW a \in Attempts, Arrives(a) PROVE OnStack'
  BY <1>15, ArrivesDoes, SameStack, ReactionQuiet DEF OnStack, Only, Running
<1>16. ASSUME NEW a \in Attempts, SetupEnds(a) PROVE OnStack'
  <2>1. TeardownOf(att[a]) /\ stack \in Seq(Attempts)
    BY DEF TeardownShape, TypeOK
  <2>2. Only(a)
    BY <1>16, SetupEndsDoes
  <2>3. \A b \in Attempts : b # a /\ OnCall(b) => OnCall(b)'
    BY <1>16, EmptyStack, SetupEndsDoes
  <2>4. OnCall(a)'
    BY <1>16, FirstOnStack, SetupEndsDoes
  <2> QED
    BY <2>2, <2>3, <2>4, OnStackFrame
<1>17. ASSUME NEW a \in Attempts, SetupFails(a) PROVE OnStack'
  <2>1. TeardownOf(att[a]) /\ stack \in Seq(Attempts)
    BY DEF TeardownShape, TypeOK
  <2>2. Only(a)
    BY <1>17, SetupFailsDoes
  <2>3. stack' = stack /\ \A b \in Attempts : b # a /\ OnCall(b) => OnCall(b)'
    BY <1>17, SetupFailsDoes, SameStack
  <2>4. att'[a].pc \in Running \/ att'[a].teardown = "detaching" => OnCall(a)'
    BY <1>17, <2>1, <2>3, SetupFailsDoes, SameStack, ReactionQuiet DEF OnStack, Running
  <2> QED
    BY <2>2, <2>3, <2>4, OnStackFrame
<1>18. ASSUME NEW a \in Attempts, Vetoed(a) PROVE OnStack'
  <2>1. TeardownOf(att[a]) /\ stack \in Seq(Attempts)
    BY DEF TeardownShape, TypeOK
  <2>2. Only(a)
    BY <1>18, VetoedDoes
  <2>3. \A b \in Attempts : b # a /\ OnCall(b) => OnCall(b)'
    <3>1. Top(a) /\ (stack' = Tail(stack) \/ stack' = stack)
      BY <1>18 DEF Vetoed
    <3> QED
      BY <2>1, <3>1, PopStack, SameStack
  <2>4. att'[a].pc \in Running \/ att'[a].teardown = "detaching" => OnCall(a)'
    BY <1>18, <2>1, VetoedDoes DEF Running, TeardownOf
  <2> QED
    BY <2>2, <2>3, <2>4, OnStackFrame
<1>19. ASSUME NEW a \in Attempts, Wake(a) PROVE OnStack'
  BY <1>19, WakeDoes, SameStack DEF OnStack, Only, Running
<1>20. ASSUME NEW a \in Attempts, Rest(a) PROVE OnStack'
  BY <1>20, RestDoes, SameStack, ReactionQuiet DEF OnStack, Only, Running
<1>21. ASSUME NEW a \in Attempts, CallerAborts(a) PROVE OnStack'
  <2>1. TeardownOf(att[a]) /\ stack \in Seq(Attempts)
    BY DEF TeardownShape, TypeOK
  <2>2. Only(a)
    BY <1>21, CallerAbortsDoes
  <2>3. stack' = stack /\ \A b \in Attempts : b # a /\ OnCall(b) => OnCall(b)'
    BY <1>21, CallerAbortsDoes, SameStack
  <2>4. att'[a].pc \in Running \/ att'[a].teardown = "detaching" => OnCall(a)'
    BY <1>21, <2>1, <2>3, CallerAbortsDoes, SameStack DEF OnStack, Running
  <2> QED
    BY <2>2, <2>3, <2>4, OnStackFrame
<1>22. ASSUME NEW a \in Attempts, HandleDispose(a) PROVE OnStack'
  <2>1. TeardownOf(att[a]) /\ stack \in Seq(Attempts)
    BY DEF TeardownShape, TypeOK
  <2>2. Only(a)
    BY <1>22, HandleDisposeDoes
  <2>3. stack' = stack /\ \A b \in Attempts : b # a /\ OnCall(b) => OnCall(b)'
    BY <1>22, HandleDisposeDoes, SameStack
  <2>4. att'[a].pc \in Running \/ att'[a].teardown = "detaching" => OnCall(a)'
    BY <1>22, <2>1, <2>3, HandleDisposeDoes, SameStack DEF OnStack, Running
  <2> QED
    BY <2>2, <2>3, <2>4, OnStackFrame
<1>23. ASSUME NEW f \in Fibers, Unload(f) PROVE OnStack'
  BY <1>23, SameStack DEF Unload, OnStack
<1>24. ASSUME NEW f \in Fibers, Unloaded(f) PROVE OnStack'
  BY <1>24, SameStack DEF Unloaded, OnStack
<1>25. CASE FactoryDispose
  <2>1. stack' = stack /\ \A b \in Attempts : att'[b].pc = att[b].pc
        /\ (att'[b].teardown = att[b].teardown \/ att'[b].teardown = "draining")
    BY <1>25, FactoryDisposeDoes
  <2> QED
    BY <2>1, SameStack DEF OnStack
<1>26. CASE UNCHANGED vars
  BY <1>26, SameStack DEF vars, OnStack
<1> QED
  BY <1>1, <1>2, <1>3, <1>4, <1>5, <1>6, <1>7, <1>8, <1>9, <1>10, <1>11, <1>12, <1>13, <1>14, <1>15,
     <1>16, <1>17, <1>18, <1>19, <1>20, <1>21, <1>22, <1>23, <1>24, <1>25, <1>26
     DEF Next, Proceeds, Environment, Teardown, SetupAborted

LEMMA CollectedFrame ==
  ASSUME Collected, NEW a \in Attempts, Only(a), UNCHANGED <<life, fired, joined>>,
         fired => tracked' \subseteq tracked, fired /\ Settled(a) => Settled(a)', OwnerDone(a)'
  PROVE  Collected'
<1>1. \A b \in Attempts : b # a => (Settled(b)' <=> Settled(b)) /\ (OwnerDone(b)' <=> OwnerDone(b))
  BY DEF Only, Settled, OwnerDone, OwnerOf
<1> QED
  BY <1>1 DEF Collected

\* The owner of an attempt that keeps its kind and gains nothing has no more to do.
LEMMA OwnerDoneKept ==
  ASSUME NEW a \in Attempts, OwnerDone(a), UNCHANGED life, att'[a].kind = att[a].kind,
         att'[a].follows \subseteq att[a].follows, att'[a].byOwner \in {FALSE, att[a].byOwner}
  PROVE  OwnerDone(a)'
BY DEF OwnerDone, OwnerOf

LEMMA CollectedStep ==
  ASSUME TypeOK, OnStack, TeardownShape, KindShape, SaidShape, Registered, Followed, Collected, [Next]_vars
  PROVE  Collected'
<1>1. ASSUME NEW a \in Attempts, Drained(a) PROVE Collected'
  <2>1. OwnerDone(a) /\ Only(a)
    BY <1>1, DrainedDoes DEF Collected
  <2>2. UNCHANGED <<life, fired, joined>>
    BY <1>1, DrainedDoes
  <2>3. fired => tracked' \subseteq tracked
    BY <1>1, DrainedDoes DEF CanPrepare, Active
  <2>4. fired /\ Settled(a) => Settled(a)'
    BY <1>1, DrainedDoes, IdleFields DEF Settled, Active, CanPrepare
  <2>5. OwnerDone(a)'
    BY <1>1, <2>1, <2>2, DrainedDoes, OwnerDoneKept DEF Collected
  <2> QED
    BY <2>1, <2>2, <2>3, <2>4, <2>5, CollectedFrame
<1>2. ASSUME NEW a \in Attempts, DetachAgent(a) PROVE Collected'
  <2>1. OwnerDone(a) /\ Only(a)
    BY <1>2, DetachAgentDoes DEF Collected
  <2>2. UNCHANGED <<life, fired, joined>>
    BY <1>2, DetachAgentDoes
  <2>3. fired => tracked' \subseteq tracked
    BY <1>2, DetachAgentDoes DEF CanPrepare, Active
  <2>4. fired /\ Settled(a) => Settled(a)'
    BY <1>2, DetachAgentDoes, IdleFields DEF Settled, Active, CanPrepare
  <2>5. OwnerDone(a)'
    BY <1>2, <2>1, <2>2, DetachAgentDoes, OwnerDoneKept DEF Collected
  <2> QED
    BY <2>1, <2>2, <2>3, <2>4, <2>5, CollectedFrame
<1>3. ASSUME NEW a \in Attempts, DetachSession(a) PROVE Collected'
  <2>1. /\ UNCHANGED <<life, fired, joined>> /\ tracked' = tracked \ {a} /\ att'[a].pc = att[a].pc
        /\ att'[a].kind = att[a].kind /\ att'[a].follows = att[a].follows \ {"life"} /\ att'[a].byOwner = FALSE
    BY <1>3, DetachSessionDoes
  <2>2. ASSUME NEW b \in Attempts PROVE (Settled(b) => Settled(b)') /\ OwnerDone(b)' /\ (Settled(b)' => Settled(b))
    <3>1. CASE b = a
      BY <2>1, <3>1, OwnerDoneKept DEF Settled, Collected
    <3>2. CASE b # a
      <4>1. att[b] \in Attempt /\ (att'[b] = att[b] \/ (att[b].pc = "waiting" /\ att'[b] = [att[b] EXCEPT !.pc = "woken"]))
        BY <1>3, <3>2, DetachSessionDoes DEF TypeOK
      <4>2. /\ att'[b].pc = att[b].pc \/ (att[b].pc = "waiting" /\ att'[b].pc = "woken")
            /\ att'[b].kind = att[b].kind /\ att'[b].follows = att[b].follows /\ att'[b].byOwner = att[b].byOwner
        BY <4>1 DEF Attempt
      <4> QED
        BY <2>1, <4>2, OwnerDoneKept DEF Settled, Collected
    <3> QED
      BY <3>1, <3>2
  <2> QED
    BY <2>1, <2>2 DEF Collected
<1>4. ASSUME NEW a \in Attempts, StopWaiting(a) PROVE Collected'
  <2>1. OwnerDone(a) /\ Only(a)
    BY <1>4, StopWaitingDoes DEF Collected
  <2>2. UNCHANGED <<life, fired, joined>>
    BY <1>4, StopWaitingDoes
  <2>3. fired => tracked' \subseteq tracked
    BY <1>4, StopWaitingDoes DEF CanPrepare, Active
  <2>4. fired /\ Settled(a) => Settled(a)'
    BY <1>4, StopWaitingDoes, IdleFields DEF Settled, Active, CanPrepare
  <2>5. OwnerDone(a)'
    <3>1. att'[a].kind = "config" /\ att[a].follows = {}
      BY <1>4, StopWaitingDoes DEF KindShape, KindOf
    <3>2. CASE att'[a].pc = "loading"
      BY <1>4, <3>1, <3>2, StopWaitingDoes DEF OwnerDone, OwnerOf, Configured
    <3>3. CASE att'[a].pc # "loading"
      BY <1>4, <2>1, <3>1, <3>3, StopWaitingDoes, OwnerDoneKept
    <3> QED
      BY <3>2, <3>3
  <2> QED
    BY <2>1, <2>2, <2>3, <2>4, <2>5, CollectedFrame
<1>5. ASSUME NEW a \in Attempts, LoadAborted(a) PROVE Collected'
  <2>1. OwnerDone(a) /\ Only(a)
    BY <1>5, LoadAbortedDoes DEF Collected
  <2>2. UNCHANGED <<life, fired, joined>>
    BY <1>5, LoadAbortedDoes
  <2>3. fired => tracked' \subseteq tracked
    BY <1>5, LoadAbortedDoes DEF CanPrepare, Active
  <2>4. fired /\ Settled(a) => Settled(a)'
    BY <1>5, LoadAbortedDoes, IdleFields DEF Settled, Active, CanPrepare
  <2>5. OwnerDone(a)'
    BY <1>5, <2>1, <2>2, LoadAbortedDoes, OwnerDoneKept DEF Collected
  <2> QED
    BY <2>1, <2>2, <2>3, <2>4, <2>5, CollectedFrame
<1>6. ASSUME NEW a \in Attempts, Resumes(a) PROVE Collected'
  <2>1. OwnerDone(a) /\ Only(a)
    BY <1>6, ResumesDoes DEF Collected
  <2>2. UNCHANGED <<life, fired, joined>>
    BY <1>6, ResumesDoes
  <2>3. fired => tracked' \subseteq tracked
    BY <1>6, ResumesDoes DEF CanPrepare, Active
  <2>4. fired /\ Settled(a) => Settled(a)'
    BY <1>6, ResumesDoes, IdleFields DEF Settled, Active, CanPrepare
  <2>5. OwnerDone(a)'
    <3>1. CASE att'[a].pc = "minting"
      <4>1. life[OwnerOf(a)] = "active" /\ att'[a].kind = att[a].kind
        BY <1>6, <3>1, ResumesDoes DEF CanPrepare
      <4> QED
        BY <2>2, <4>1 DEF OwnerDone, OwnerOf
    <3>2. CASE att'[a].pc # "minting"
      BY <1>6, <2>1, <3>2, ResumesDoes, OwnerDoneKept
    <3> QED
      BY <3>1, <3>2
  <2> QED
    BY <2>1, <2>2, <2>3, <2>4, <2>5, CollectedFrame
<1>7. ASSUME NEW a \in Attempts, Listed(a) PROVE Collected'
  <2>1. OwnerDone(a) /\ Only(a)
    BY <1>7, ListedDoes DEF Collected
  <2>2. UNCHANGED <<life, fired, joined>>
    BY <1>7, ListedDoes
  <2>3. fired => tracked' \subseteq tracked
    BY <1>7, ListedDoes DEF CanPrepare, Active
  <2>4. fired /\ Settled(a) => Settled(a)'
    BY <1>7, ListedDoes, IdleFields DEF Settled, Active, CanPrepare
  <2>5. OwnerDone(a)'
    <3>1. CASE att'[a].pc = "minting"
      BY <1>7, <3>1, ListedDoes DEF OwnerDone, OwnerOf, Configured
    <3>2. CASE att'[a].pc # "minting"
      BY <1>7, <2>1, <3>2, ListedDoes, OwnerDoneKept
    <3> QED
      BY <3>1, <3>2
  <2> QED
    BY <2>1, <2>2, <2>3, <2>4, <2>5, CollectedFrame
<1>8. ASSUME NEW a \in Attempts, Mint(a) PROVE Collected'
  <2>1. OwnerDone(a) /\ Only(a)
    BY <1>8, MintDoes DEF Collected
  <2>2. UNCHANGED <<life, fired, joined>>
    BY <1>8, MintDoes
  <2>3. fired => tracked' \subseteq tracked
    BY <1>8, MintDoes DEF CanPrepare, Active
  <2>4. fired /\ Settled(a) => Settled(a)'
    BY <1>8, MintDoes, IdleFields DEF Settled, Active, CanPrepare
  <2>5. OwnerDone(a)'
    BY <1>8, <2>1, <2>2, MintDoes, OwnerDoneKept DEF Collected
  <2> QED
    BY <2>1, <2>2, <2>3, <2>4, <2>5, CollectedFrame
<1>9. ASSUME NEW a \in Attempts, Publish(a) PROVE Collected'
  <2>1. OwnerDone(a) /\ Only(a)
    BY <1>9, PublishDoes DEF Collected
  <2>2. UNCHANGED <<life, fired, joined>>
    BY <1>9, PublishDoes
  <2>3. fired => tracked' \subseteq tracked
    BY <1>9, PublishDoes DEF CanPrepare, Active
  <2>4. fired /\ Settled(a) => Settled(a)'
    BY <1>9, PublishDoes, IdleFields DEF Settled, Active, CanPrepare, Advances, Refused
  <2>5. OwnerDone(a)'
    BY <1>9, <2>1, <2>2, PublishDoes, OwnerDoneKept DEF Advances, Refused
  <2> QED
    BY <2>1, <2>2, <2>3, <2>4, <2>5, CollectedFrame
<1>10. ASSUME NEW a \in Attempts, Fails(a) PROVE Collected'
  <2>1. OwnerDone(a) /\ Only(a)
    BY <1>10, FailsDoes DEF Collected
  <2>2. UNCHANGED <<life, fired, joined>>
    BY <1>10, FailsDoes
  <2>3. fired => tracked' \subseteq tracked
    BY <1>10, FailsDoes DEF CanPrepare, Active
  <2>4. fired /\ Settled(a) => Settled(a)'
    BY <1>10, FailsDoes, IdleFields DEF Settled, Active, CanPrepare
  <2>5. OwnerDone(a)'
    BY <1>10, <2>1, <2>2, FailsDoes, OwnerDoneKept DEF Collected
  <2> QED
    BY <2>1, <2>2, <2>3, <2>4, <2>5, CollectedFrame
<1>11. ASSUME NEW a \in Attempts, OwnerEffect(a) PROVE Collected'
  <2>1. OwnerDone(a) /\ Only(a)
    BY <1>11, OwnerEffectDoes DEF Collected
  <2>2. UNCHANGED <<life, fired, joined>>
    BY <1>11, OwnerEffectDoes
  <2>3. fired => tracked' \subseteq tracked
    BY <1>11, OwnerEffectDoes DEF CanPrepare, Active
  <2>4. fired /\ Settled(a) => Settled(a)'
    BY <1>11, OwnerEffectDoes, IdleFields DEF Settled, Active, CanPrepare
  <2>5. OwnerDone(a)'
    BY <1>11, <2>2, OwnerEffectDoes DEF OwnerDone, OwnerOf
  <2> QED
    BY <2>1, <2>2, <2>3, <2>4, <2>5, CollectedFrame
<1>12. ASSUME NEW a \in Attempts, NEW kind \in Kinds, Start(a, kind) PROVE Collected'
  <2>1. OwnerDone(a) /\ Only(a)
    BY <1>12, StartDoes DEF Collected
  <2>2. UNCHANGED <<life, fired, joined>>
    BY <1>12, StartDoes
  <2>3. fired => tracked' \subseteq tracked
    BY <1>12, StartDoes DEF CanPrepare, Active
  <2>4. fired /\ Settled(a) => Settled(a)'
    BY <1>12, StartDoes, IdleFields DEF Settled, Active, CanPrepare
  <2>5. OwnerDone(a)'
    BY <1>12, <2>1, StartDoes DEF OwnerDone, OwnerOf, Kinds, Loading
  <2> QED
    BY <2>1, <2>2, <2>3, <2>4, <2>5, CollectedFrame
<1>13. ASSUME NEW a \in Attempts, Loaded(a) PROVE Collected'
  <2>1. OwnerDone(a) /\ Only(a)
    BY <1>13, LoadedDoes DEF Collected
  <2>2. UNCHANGED <<life, fired, joined>>
    BY <1>13, LoadedDoes
  <2>3. fired => tracked' \subseteq tracked
    BY <1>13, LoadedDoes DEF CanPrepare, Active
  <2>4. fired /\ Settled(a) => Settled(a)'
    BY <1>13, LoadedDoes, IdleFields DEF Settled, Active, CanPrepare
  <2>5. OwnerDone(a)'
    BY <1>13, <2>1, <2>2, LoadedDoes, OwnerDoneKept DEF Collected
  <2> QED
    BY <2>1, <2>2, <2>3, <2>4, <2>5, CollectedFrame
<1>14. ASSUME NEW a \in Attempts, LoadFails(a) PROVE Collected'
  <2>1. OwnerDone(a) /\ Only(a)
    BY <1>14, LoadFailsDoes DEF Collected
  <2>2. UNCHANGED <<life, fired, joined>>
    BY <1>14, LoadFailsDoes
  <2>3. fired => tracked' \subseteq tracked
    BY <1>14, LoadFailsDoes DEF CanPrepare, Active
  <2>4. fired /\ Settled(a) => Settled(a)'
    BY <1>14, LoadFailsDoes, IdleFields DEF Settled, Active, CanPrepare
  <2>5. OwnerDone(a)'
    BY <1>14, <2>1, <2>2, LoadFailsDoes, OwnerDoneKept DEF Collected
  <2> QED
    BY <2>1, <2>2, <2>3, <2>4, <2>5, CollectedFrame
<1>15. ASSUME NEW a \in Attempts, Arrives(a) PROVE Collected'
  <2>1. OwnerDone(a) /\ Only(a)
    BY <1>15, ArrivesDoes DEF Collected
  <2>2. UNCHANGED <<life, fired, joined>>
    BY <1>15, ArrivesDoes
  <2>3. fired => tracked' \subseteq tracked
    BY <1>15, ArrivesDoes DEF CanPrepare, Active
  <2>4. fired /\ Settled(a) => Settled(a)'
    BY <1>15, ArrivesDoes, IdleFields DEF Settled, Active, CanPrepare
  <2>5. OwnerDone(a)'
    BY <1>15, <2>1, <2>2, ArrivesDoes, OwnerDoneKept DEF Collected
  <2> QED
    BY <2>1, <2>2, <2>3, <2>4, <2>5, CollectedFrame
<1>16. ASSUME NEW a \in Attempts, SetupEnds(a) PROVE Collected'
  <2>1. OwnerDone(a) /\ Only(a)
    BY <1>16, SetupEndsDoes DEF Collected
  <2>2. UNCHANGED <<life, fired, joined>>
    BY <1>16, SetupEndsDoes
  <2>3. fired => tracked' \subseteq tracked
    BY <1>16, SetupEndsDoes DEF CanPrepare, Active
  <2>4. fired /\ Settled(a) => Settled(a)'
    BY <1>16, SetupEndsDoes, IdleFields DEF Settled, Active, CanPrepare
  <2>5. OwnerDone(a)'
    BY <1>16, <2>1, <2>2, SetupEndsDoes, OwnerDoneKept DEF Collected
  <2> QED
    BY <2>1, <2>2, <2>3, <2>4, <2>5, CollectedFrame
<1>17. ASSUME NEW a \in Attempts, SetupFails(a) PROVE Collected'
  <2>1. OwnerDone(a) /\ Only(a)
    BY <1>17, SetupFailsDoes DEF Collected
  <2>2. UNCHANGED <<life, fired, joined>>
    BY <1>17, SetupFailsDoes
  <2>3. fired => tracked' \subseteq tracked
    BY <1>17, SetupFailsDoes DEF CanPrepare, Active
  <2>4. fired /\ Settled(a) => Settled(a)'
    BY <1>17, SetupFailsDoes, IdleFields DEF Settled, Active, CanPrepare
  <2>5. OwnerDone(a)'
    BY <1>17, <2>1, <2>2, SetupFailsDoes, OwnerDoneKept DEF Collected
  <2> QED
    BY <2>1, <2>2, <2>3, <2>4, <2>5, CollectedFrame
<1>18. ASSUME NEW a \in Attempts, Vetoed(a) PROVE Collected'
  <2>1. OwnerDone(a) /\ Only(a)
    BY <1>18, VetoedDoes DEF Collected
  <2>2. UNCHANGED <<life, fired, joined>>
    BY <1>18, VetoedDoes
  <2>3. fired => tracked' \subseteq tracked
    BY <1>18, VetoedDoes DEF CanPrepare, Active
  <2>4. fired /\ Settled(a) => Settled(a)'
    BY <1>18, VetoedDoes, IdleFields DEF Settled, Active, CanPrepare
  <2>5. OwnerDone(a)'
    BY <1>18, <2>1, <2>2, VetoedDoes, OwnerDoneKept DEF Collected
  <2> QED
    BY <2>1, <2>2, <2>3, <2>4, <2>5, CollectedFrame
<1>19. ASSUME NEW a \in Attempts, Wake(a) PROVE Collected'
  <2>1. OwnerDone(a) /\ Only(a)
    BY <1>19, WakeDoes DEF Collected
  <2>2. UNCHANGED <<life, fired, joined>>
    BY <1>19, WakeDoes
  <2>3. fired => tracked' \subseteq tracked
    BY <1>19, WakeDoes DEF CanPrepare, Active
  <2>4. fired /\ Settled(a) => Settled(a)'
    BY <1>19, WakeDoes, IdleFields DEF Settled, Active, CanPrepare
  <2>5. OwnerDone(a)'
    BY <1>19, <2>1, <2>2, WakeDoes, OwnerDoneKept DEF Collected
  <2> QED
    BY <2>1, <2>2, <2>3, <2>4, <2>5, CollectedFrame
<1>20. ASSUME NEW a \in Attempts, Rest(a) PROVE Collected'
  <2>1. OwnerDone(a) /\ Only(a)
    BY <1>20, RestDoes DEF Collected
  <2>2. UNCHANGED <<life, fired, joined>>
    BY <1>20, RestDoes
  <2>3. fired => tracked' \subseteq tracked
    BY <1>20, RestDoes DEF CanPrepare, Active
  <2>4. fired /\ Settled(a) => Settled(a)'
    BY <1>20, RestDoes, IdleFields DEF Settled, Active, CanPrepare
  <2>5. OwnerDone(a)'
    BY <1>20, <2>1, <2>2, RestDoes, OwnerDoneKept DEF Collected
  <2> QED
    BY <2>1, <2>2, <2>3, <2>4, <2>5, CollectedFrame
<1>21. ASSUME NEW a \in Attempts, CallerAborts(a) PROVE Collected'
  <2>1. OwnerDone(a) /\ Only(a)
    BY <1>21, CallerAbortsDoes DEF Collected
  <2>2. UNCHANGED <<life, fired, joined>>
    BY <1>21, CallerAbortsDoes
  <2>3. fired => tracked' \subseteq tracked
    BY <1>21, CallerAbortsDoes DEF CanPrepare, Active
  <2>4. fired /\ Settled(a) => Settled(a)'
    BY <1>21, CallerAbortsDoes, IdleFields DEF Settled, Active, CanPrepare
  <2>5. OwnerDone(a)'
    BY <1>21, <2>1, <2>2, CallerAbortsDoes, OwnerDoneKept DEF Collected
  <2> QED
    BY <2>1, <2>2, <2>3, <2>4, <2>5, CollectedFrame
<1>22. ASSUME NEW a \in Attempts, HandleDispose(a) PROVE Collected'
  <2>1. OwnerDone(a) /\ Only(a)
    BY <1>22, HandleDisposeDoes DEF Collected
  <2>2. UNCHANGED <<life, fired, joined>>
    BY <1>22, HandleDisposeDoes
  <2>3. fired => tracked' \subseteq tracked
    BY <1>22, HandleDisposeDoes DEF CanPrepare, Active
  <2>4. fired /\ Settled(a) => Settled(a)'
    BY <1>22, HandleDisposeDoes, IdleFields DEF Settled, Active, CanPrepare
  <2>5. OwnerDone(a)'
    BY <1>22, <2>1, <2>2, HandleDisposeDoes, OwnerDoneKept DEF Collected
  <2> QED
    BY <2>1, <2>2, <2>3, <2>4, <2>5, CollectedFrame
<1>23. ASSUME NEW f \in Fibers, Unload(f) PROVE Collected'
  <2>1. /\ life' \in [Fibers -> {"active", "unloading", "gone"}] /\ UNCHANGED <<fired, joined, tracked, att>>
        /\ \A g \in Fibers : life'[g] # life[g] => life[g] = "active" /\ life'[g] = "unloading"
    BY <1>23 DEF Unload, TypeOK
  <2>2. \A b \in Attempts : OwnerOf(b) \in Fibers /\ OwnerOf(b)' = OwnerOf(b) /\ Settled(b)' = Settled(b)
    BY <2>1 DEF OwnerOf, Fibers, Settled
  <2>3. "factory" \in Fibers
    BY DEF Fibers
  <2> QED
    BY <2>1, <2>2, <2>3 DEF Collected, OwnerDone
<1>24. ASSUME NEW f \in Fibers, Unloaded(f) PROVE Collected'
  <2>1. /\ life[f] = "unloading" /\ UNCHANGED <<fired, joined, tracked, att>> /\ ~Awaits(f)
        /\ life' = [life EXCEPT ![f] = "gone"] /\ life \in [Fibers -> {"active", "unloading", "gone"}]
    BY <1>24 DEF Unloaded, TypeOK
  <2>2. \A b \in Attempts : OwnerOf(b) \in Fibers /\ OwnerOf(b)' = OwnerOf(b) /\ Settled(b)' = Settled(b)
    BY <2>1 DEF OwnerOf, Fibers, Settled
  <2>3. ASSUME NEW b \in Attempts PROVE OwnerDone(b)'
    <3>1. att[b].follows \in SUBSET {"load", "life"} /\ att[b].byOwner \in BOOLEAN
      BY DEF TypeOK, Attempt
    <3>2. CASE OwnerOf(b) = f
      <4>1. att[b].follows = {} /\ ~att[b].byOwner
        BY <2>1, <3>2 DEF Awaits
      <4>2. att[b].byOwner = FALSE
        BY <3>1, <4>1
      <4> QED
        BY <2>1, <2>2, <4>1, <4>2 DEF OwnerDone
    <3>3. CASE OwnerOf(b) # f
      BY <2>1, <2>2, <3>3 DEF OwnerDone, Collected
    <3> QED
      BY <3>2, <3>3
  <2>4. CASE f = "factory"
    <3>1. /\ fired /\ (\A b \in joined.lives : att[b].teardown = "done")
          /\ (\A b \in joined.tasks : Settled(b))
      BY <2>1, <2>4 DEF Awaits
    <3>2. tracked = {}
      <4>1. \A b \in tracked : b \in joined.lives /\ b \in Attempts /\ att[b].teardown # "done"
        BY <3>1 DEF Collected, Followed, FollowedOf, TypeOK
      <4> QED
        BY <3>1, <4>1
    <3>3. \A b \in Attempts : Settled(b)
      BY <3>1 DEF Collected
    <3> QED
      BY <2>1, <2>2, <2>3, <2>4, <3>1, <3>2, <3>3 DEF Collected
  <2>5. CASE f # "factory"
    <3>1. life'["factory"] = life["factory"]
      BY <2>1, <2>5 DEF Fibers
    <3> QED
      BY <2>1, <2>2, <2>3, <3>1 DEF Collected
  <2> QED
    BY <2>4, <2>5
<1>25. CASE FactoryDispose
  <2>1. /\ Reaction /\ life["factory"] = "unloading" /\ joined' = [lives |-> tracked, tasks |-> StartupTasks]
        /\ UNCHANGED <<life, tracked>>
    BY <1>25, FactoryDisposeDoes
  <2>2. \A b \in Attempts : /\ att'[b].pc = att[b].pc /\ att'[b].kind = att[b].kind
                            /\ att'[b].follows = att[b].follows /\ att'[b].byOwner \in {FALSE, att[b].byOwner}
    BY <1>25, FactoryDisposeDoes
  <2>3. ASSUME NEW b \in Attempts, ~Settled(b)' PROVE b \in joined'.tasks
    <3>1. ~Settled(b) /\ KindOf(att[b]) /\ att[b].pc \notin Running
      BY <2>1, <2>2, <2>3, ReactionQuiet DEF Settled, KindShape
    <3>2. att[b].kind # "create"
      BY <3>1 DEF KindOf, Settled, Synchronous
    <3> QED
      BY <2>1, <3>1, <3>2 DEF StartupTasks
  <2>4. \A b \in Attempts : OwnerDone(b)'
    BY <2>1, <2>2, OwnerDoneKept DEF Collected
  <2>5. life'["factory"] = "unloading" /\ joined'.lives = tracked'
    BY <2>1
  <2> QED
    BY <2>3, <2>4, <2>5 DEF Collected
<1>26. CASE UNCHANGED vars
  BY <1>26 DEF vars, Collected, Settled, OwnerDone, OwnerOf
<1> QED
  BY <1>1, <1>2, <1>3, <1>4, <1>5, <1>6, <1>7, <1>8, <1>9, <1>10, <1>11, <1>12, <1>13, <1>14, <1>15,
     <1>16, <1>17, <1>18, <1>19, <1>20, <1>21, <1>22, <1>23, <1>24, <1>25, <1>26
     DEF Next, Proceeds, Environment, Teardown, SetupAborted

-----------------------------------------------------------------------------
(* The theorems. *)

LEMMA InvariantInit == Init => LifecycleInvariant
<1> SUFFICES ASSUME Init PROVE LifecycleInvariant
  OBVIOUS
<1>1. Idle \in Attempt /\ Idle.pc = "off" /\ Idle.teardown = "none" /\ Idle.said = {} /\ Idle.driver = "none"
      /\ Idle.held = "none" /\ Idle.follows = {} /\ Idle.byOwner = FALSE
  BY DEF Idle, Attempt, Places, Kinds
<1>2. att \in [Attempts -> Attempt] /\ \A a \in Attempts : att[a] = Idle
  BY <1>1 DEF Init
<1>3. TypeOK
  <2>1. stack \in Seq(Attempts)
    BY DEF Init
  <2>2. joined \in [lives : SUBSET Attempts, tasks : SUBSET Attempts]
    BY DEF Init
  <2> QED
    BY <1>2, <2>1, <2>2 DEF Init, TypeOK
<1>4. OnStack /\ TeardownShape /\ SaidShape
  BY <1>1, <1>2 DEF OnStack, TeardownShape, TeardownOf, SaidShape, SaidOf, Running, Early
<1>5. KindShape
  BY <1>1, <1>2 DEF KindShape, KindOf
<1>6. Registered /\ Followed
  BY <1>1, <1>2, NoneIsNoAttempt DEF Init, Registered, RegisteredOf, Followed, FollowedOf, Published
<1>7. Collected
  BY <1>1, <1>2 DEF Init, Collected, OwnerDone, OwnerOf, Fibers
<1> QED
  BY <1>3, <1>4, <1>5, <1>6, <1>7 DEF LifecycleInvariant

LEMMA InvariantStep == LifecycleInvariant /\ [Next]_vars => LifecycleInvariant'
<1> SUFFICES ASSUME LifecycleInvariant, [Next]_vars PROVE LifecycleInvariant'
  OBVIOUS
<1>1. TypeOK /\ OnStack /\ TeardownShape /\ KindShape /\ SaidShape /\ Registered /\ Followed /\ Collected
  BY DEF LifecycleInvariant
<1>2. TypeOK' /\ TeardownShape' /\ KindShape' /\ SaidShape'
  BY <1>1, TypeOKStep, TeardownShapeStep, KindShapeStep, SaidShapeStep
<1>3. OnStack' /\ Registered' /\ Followed' /\ Collected'
  BY <1>1, OnStackStep, RegisteredStep, FollowedStep, CollectedStep
<1> QED
  BY <1>2, <1>3 DEF LifecycleInvariant

LEMMA InvariantInductive == Spec => []LifecycleInvariant
BY InvariantInit, InvariantStep, PTL DEF Spec

\* Every variable keeps its type: the records of prepare, dispose and publish stay
\* within the states the code distinguishes.
THEOREM TypeCorrect == Spec => []TypeOK
<1>1. LifecycleInvariant => TypeOK
  BY DEF LifecycleInvariant
<1> QED
  BY <1>1, InvariantInductive, PTL

\* However many calls ask for one identity and whenever they are aborted, a published
\* agent has both registry entries until its own teardown detaches it, the agent's entry
\* is never without the session's, and a busy driver has its agent registered.
THEOREM AlwaysRegistered == Spec => []LiveIsRegistered
<1>1. LifecycleInvariant => LiveIsRegistered
  BY DEF LifecycleInvariant, Registered, RegisteredOf, LiveIsRegistered, Published
<1> QED
  BY <1>1, InvariantInductive, PTL

\* An attempt that is over, wherever it was stopped, has left no registry entry, no
\* tracked teardown, no effect on its owner, no held preparation and no creation
\* announced without its disposal.
THEOREM LeavesNothing == Spec => []NothingLeftBehind
<1>1. LifecycleInvariant => NothingLeftBehind
  <2> SUFFICES ASSUME LifecycleInvariant, NEW a \in Attempts, Over(a)
               PROVE  /\ session # a /\ agent # a /\ a \notin tracked
                      /\ att[a].follows = {} /\ att[a].held # "held"
                      /\ \A what \in {"session", "agent"} :
                           (<<what, "created">> \in att[a].said) <=> (<<what, "disposed">> \in att[a].said)
    BY DEF NothingLeftBehind
  <2>1. TeardownOf(att[a]) /\ KindOf(att[a]) /\ SaidOf(att[a]) /\ RegisteredOf(a) /\ FollowedOf(a)
    BY DEF LifecycleInvariant, TeardownShape, KindShape, SaidShape, Registered, Followed
  <2>2. att[a].pc \in {"failed", "live"} /\ att[a].teardown \in {"none", "done"}
        /\ (att[a].teardown = "none" => att[a].pc = "failed")
    BY DEF Over
  <2>3. a \notin tracked
    BY <2>1, <2>2 DEF FollowedOf
  <2>4. session # a /\ agent # a
    BY <2>1, <2>3 DEF RegisteredOf
  <2>5. att[a].follows = {}
    <3>1. att[a].follows \in SUBSET {"load", "life"}
      BY DEF LifecycleInvariant, TypeOK, Attempt
    <3> QED
      BY <2>1, <2>2, <2>3, <3>1 DEF FollowedOf
  <2>6. att[a].held # "held"
    BY <2>1, <2>2 DEF KindOf, Running
  <2>7. \A what \in {"session", "agent"} :
          (<<what, "created">> \in att[a].said) <=> (<<what, "disposed">> \in att[a].said)
    BY <2>1, <2>2 DEF SaidOf, Published
  <2> QED
    BY <2>3, <2>4, <2>5, <2>6, <2>7
<1> QED
  BY <1>1, InvariantInductive, PTL

\* When the factory's unload has ended, both registries and the tracked teardowns are
\* empty and no call is pending; when an owner's has ended, the teardowns it began are
\* over and no agent of its own is left without one.
THEOREM UnloadFinal == Spec => []UnloadIsFinal
<1>1. LifecycleInvariant => UnloadIsFinal
  <2> SUFFICES ASSUME LifecycleInvariant PROVE UnloadIsFinal
    OBVIOUS
  <2>1. TypeOK /\ Registered /\ Followed /\ Collected
    BY DEF LifecycleInvariant
  <2>2. ASSUME life["factory"] = "gone"
        PROVE  session = None /\ agent = None /\ tracked = {} /\ \A a \in Attempts : Settled(a)
    <3>1. tracked = {} /\ \A a \in Attempts : Settled(a)
      BY <2>1, <2>2 DEF Collected
    <3>2. session = None /\ agent = None
      BY <2>1, <3>1 DEF TypeOK, Registered, RegisteredOf
    <3> QED
      BY <3>1, <3>2
  <2>3. ASSUME NEW a \in Attempts, life[OwnerOf(a)] = "gone"
        PROVE  ~att[a].byOwner /\ (session = a => att[a].teardown # "none")
    <3>1. att[a].follows = {} /\ att[a].byOwner = FALSE
      BY <2>1, <2>3 DEF Collected, OwnerDone
    <3>2. session = a => att[a].teardown # "none"
      BY <2>1, <3>1 DEF Registered, RegisteredOf, Followed, FollowedOf
    <3> QED
      BY <3>1, <3>2
  <2> QED
    BY <2>2, <2>3 DEF UnloadIsFinal
<1> QED
  BY <1>1, InvariantInductive, PTL
=============================================================================
