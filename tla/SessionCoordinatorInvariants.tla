--------------------- MODULE SessionCoordinatorInvariants ---------------------
(***************************************************************************)
(* What every state of SessionCoordinator satisfies, and what its steps do. *)
(* CoordinatorInvariant is about the pool, the queue and who owns the log;  *)
(* Ledger, on top of it, about what is stored; Agreement and Accounts about *)
(* what sessions acknowledged; Reads about what calls answer.  Each of them *)
(* is inductive relative to those before it.                                *)
(***************************************************************************)
EXTENDS SessionCoordinator

-----------------------------------------------------------------------------
\* Types.

Owners == {Nobody} \cup Sessions
Logs == Seq(Int)
Artifacts == [made : BOOLEAN, log : Logs, torn : BOOLEAN]
States == [there : BOOLEAN, cursor : Nat, made : BOOLEAN, owner : Owners]
Phases == {"none", "loading", "ready", "committing", "reserved"}
Entries == [gen : Nat, phase : Phases, src : Artifacts]
Lives == {"unborn", "entered", "live", "flushing", "cleaning", "stuck", "retired"}
SessionRecords == [life : Lives, log : Logs, acked : Nat, init : {"none", "pending", "ok", "failed"}]
Points == {"idle", "create", "retirement", "result", "turn", "settled", "commit", "reserved", "holding",
           "entered", "flush", "seen", "check", "caught", "append", "over"}
Methods == {"none", "prepare", "load", "inspect", "switch", "create"}
CallRecords == [op : Methods, pc : Points, gen : Nat, src : Artifacts, since : Nat, upto : Nat,
                awaits : Owners, aborted : BOOLEAN, fresh : BOOLEAN]
OfCalls == {"load", "commit", "check", "create", "append"}
OfSessions == {"init", "suffix", "drain", "retire"}
Stages == {"queued", "read", "current", "stale", "adopt", "write", "claim"}
JobRecords == [kind : OfCalls \cup OfSessions, who : Callers \cup Sessions, stage : Stages,
               gen : Nat, src : Artifacts, upto : Nat]

-----------------------------------------------------------------------------
\* The queue of jobs ch, over an entry e, calls cs, sessions ss and an owner o.

\* The kinds of jobs that one caller awaits, under the name of where it awaits them;
\* those that bind the log or an entry; those that initialize a session.
Awaited == {"commit", "check", "create", "append"}
Initial == {"init", "suffix"}

\* A job is its caller's or its session's.  A caller has not left the place where it awaits
\* its job, or gave up before the job started.  An entry is loading as long as its load is
\* queued; commits and initializations of an earlier time are over when an entry has been
\* read, so that the only commit then is of the caller that has the entry.  A session is not
\* retired while its initialization or a drain is queued.
JobOK(j, e, cs, ss, o) ==
  /\ j.kind \in OfCalls => j.who \in Callers
  /\ j.kind \in OfSessions => j.who \in Sessions
  /\ j.kind \in Awaited => \/ cs[j.who].pc = j.kind
                           \/ cs[j.who].pc = "over" /\ j.stage = "queued" /\ j.kind \in {"commit", "check"}
  /\ j.kind = "load" => j.gen # 0 /\ (j.gen = e.gen => e.phase = "loading")
  /\ j.kind \in Initial => e.phase \in {"none", "loading"}
  /\ j.kind = "commit" =>
       \/ e.phase \in {"none", "loading"}
       \/ e.phase = "committing" /\ cs[j.who].pc = "commit" /\ cs[j.who].gen = e.gen /\ j.src = e.src
  /\ j.kind \in Initial =>
       /\ ss[j.who].init = "pending"
       /\ ss[j.who].acked <= j.upto /\ j.upto <= Len(ss[j.who].log)
  /\ j.kind = "init" => o # j.who
  /\ j.kind = "drain" =>
       /\ ss[j.who].init = "ok" /\ ss[j.who].life \in {"live", "flushing"}
       /\ j.upto <= Len(ss[j.who].log)
  /\ j.kind = "retire" => ss[j.who].life = "cleaning"

\* A caller has one job, an entry one load, a session one initialization, one drain and one
\* retirement; and nothing that binds is queued behind the load of the pool's entry.
PairOK(j, l, g) ==
  /\ j.kind \in Awaited /\ l.kind \in Awaited => j.who # l.who
  /\ j.kind = "load" /\ l.kind = "load" => j.gen # l.gen
  /\ j.kind \in Initial /\ l.kind \in Initial => j.who # l.who
  /\ j.kind = "drain" /\ l.kind = "drain" => j.who # l.who
  /\ j.kind = "retire" /\ l.kind = "retire" => j.who # l.who
  /\ j.kind = "load" /\ j.gen = g => l.kind # "commit" /\ l.kind \notin Initial

Queue(ch, e, cs, ss, o) ==
  /\ \A i \in 1 .. Len(ch) : JobOK(ch[i], e, cs, ss, o)
  /\ \A i \in 1 .. Len(ch), j \in 1 .. Len(ch) : i < j => PairOK(ch[i], ch[j], e.gen) /\ ch[j].stage = "queued"

\* Whoever waits for a load, and the loading entry, have it in the queue.
LoadOf(ch, g) == \E i \in 1 .. Len(ch) : ch[i].kind = "load" /\ ch[i].gen = g
Loads(ch, e, cs) ==
  /\ \A c \in Callers : cs[c].pc = "result" => LoadOf(ch, cs[c].gen)
  /\ e.phase = "loading" => LoadOf(ch, e.gen)

-----------------------------------------------------------------------------
\* Turns at the entry e.

CommitsIn(e, cs, c) == cs[c].pc = "commit" /\ cs[c].gen = e.gen
HoldsIn(cs, ss, c) ==
  \/ cs[c].pc \in {"reserved", "holding"}
  \/ cs[c].pc = "entered" /\ ss[cs[c].awaits].life = "entered"

\* An entry is committed or held by exactly one caller, and others wait only for that.
Turns(e, cs, ss) ==
  /\ \A c \in Callers : cs[c].pc = "settled" => cs[c].gen = e.gen /\ e.phase \in {"committing", "reserved"}
  /\ \A c \in Callers : CommitsIn(e, cs, c) => e.phase = "committing"
  /\ \A c \in Callers : HoldsIn(cs, ss, c) => cs[c].gen = e.gen /\ e.phase = "reserved"
  /\ e.phase = "committing" => \E c \in Callers : CommitsIn(e, cs, c)
  /\ e.phase = "reserved" => \E c \in Callers : HoldsIn(cs, ss, c)
  /\ \A c, d \in Callers : CommitsIn(e, cs, c) /\ CommitsIn(e, cs, d) => c = d
  /\ \A c, d \in Callers : HoldsIn(cs, ss, c) /\ HoldsIn(cs, ss, d) => c = d

\* A free pool is one value, and who refers to an entry refers to one that was made.
Referring == {"result", "turn", "settled", "commit", "reserved", "holding", "entered"}
Refers(e, cs) ==
  /\ e.phase = "none" \/ e.gen = 0 => e = NoEntry
  /\ \A c \in Callers : cs[c].pc \in Referring => cs[c].gen # 0

\* A session that a holder entered is the holder's until the holder settles.
EntersOnce(cs, ss) ==
  \A c \in Callers : cs[c].pc = "entered" =>
    /\ cs[c].awaits \in Sessions
    /\ ss[cs[c].awaits].life \in {"entered", "live"}
    /\ \A d \in Callers : cs[d].pc = "entered" /\ cs[d].awaits = cs[c].awaits => c = d

\* The pool, its callers, the queue and the sessions fit together.
Pool(e, cs, ch, ss, o) ==
  /\ e \in Entries /\ cs \in [Callers -> CallRecords] /\ ch \in Seq(JobRecords) /\ ss \in [Sessions -> SessionRecords]
  /\ Queue(ch, e, cs, ss, o)
  /\ Loads(ch, e, cs)
  /\ Turns(e, cs, ss)
  /\ Refers(e, cs)
  /\ EntersOnce(cs, ss)

PoolOK == Pool(entry, call, chain, sess, state.owner)

TypeOK ==
  /\ stored \in Artifacts
  /\ state \in States
  /\ entry \in Entries
  /\ chain \in Seq(JobRecords)
  /\ retiring \in Owners
  /\ sess \in [Sessions -> SessionRecords]
  /\ call \in [Callers -> CallRecords]
  /\ upsets \in Nat /\ faults \in Nat
  /\ raced \in SUBSET {"append", "resume"}

-----------------------------------------------------------------------------
\* The running job and the reserved entry.

\* No entry is reserved while the running job writes, and none is past loading while the
\* running creation looks; a running commit found no owner, and what it found current is.
RunningShape ==
  /\ Runs("append", "read") \/ Runs("append", "adopt") \/ Runs("append", "write") \/ Runs("drain", "write") => entry.phase # "reserved"
  /\ Runs("create", "read") => entry.phase \in {"none", "loading"}
  /\ Runs("commit", "current") \/ Runs("commit", "stale") => state.owner = Nobody
  /\ Runs("commit", "current") => stored = chain[1].src

\* What is reserved is what is stored, and nobody's.
HeldIsStored ==
  /\ ~state.there => state.owner = Nobody
  /\ entry.phase = "reserved" =>
       /\ stored.log = Balanced(entry.src) /\ ~stored.torn
       /\ state.there /\ state.owner = Nobody /\ state.cursor = Len(stored.log)

-----------------------------------------------------------------------------
\* Owners.

\* An entry is made when no session is live; one that was on its way out then is on record.
NoLiveWithEntry ==
  entry.phase # "none" => \A k \in Sessions :
    /\ sess[k].life # "live"
    /\ sess[k].life \in {"flushing", "cleaning"} => "resume" \in raced

\* A session is initialized while it is live or flushed at last, and not before.
InitShape ==
  \A k \in Sessions :
    /\ sess[k].life \in {"unborn", "entered"} => sess[k].init = "none" /\ sess[k].acked = 0
    /\ sess[k].init = "pending" => sess[k].life \in {"live", "flushing"}

\* What an owner's write-behind acknowledged is below the cursor, and an owner whose
\* initialization failed met a fault or a cold append.
OwnerShape ==
  \A k \in Sessions : state.owner = k =>
    /\ sess[k].init = "ok" => sess[k].acked <= state.cursor
    /\ sess[k].init = "failed" => faults > 0 \/ "append" \in raced

CoordinatorInvariant ==
  /\ TypeOK
  /\ PoolOK
  /\ RunningShape /\ HeldIsStored
  /\ NoLiveWithEntry /\ InitShape /\ OwnerShape /\ OwnerPresent

-----------------------------------------------------------------------------
\* What is stored.

\* The store has one session of the id, and the initialization of a live session was
\* queued after those of its predecessors.
Succession ==
  /\ \A k, l \in Sessions : sess[k].life \in {"entered", "live"} /\ sess[l].life \in {"entered", "live"} => k = l
  /\ \A i, j \in 1 .. Len(chain) :
       i < j /\ chain[i].kind \in Initial /\ chain[j].kind \in Initial =>
         sess[chain[i].who].life # "live" /\ chain[j].kind = "init"
  /\ \A k \in Sessions, i \in 1 .. Len(chain) :
       sess[k].life = "live" /\ sess[k].init # "pending" => chain[i].kind \notin Initial

Drains(k) == \E i \in 1 .. Len(chain) : chain[i].kind = "drain" /\ chain[i].who = k
Works(k) == sess[k].acked < Len(sess[k].log) \/ Drains(k)

\* An initialized session that may still write owns the log, and so does one whose
\* suffix is queued.
Entitled(k) == sess[k].init = "ok" /\ (sess[k].life = "live" \/ (sess[k].life = "flushing" /\ Works(k)))
Title ==
  /\ \A k \in Sessions : Entitled(k) => state.owner = k
  /\ \A i \in 1 .. Len(chain) : chain[i].kind = "suffix" => state.owner = chain[i].who

\* What a running job found still is, and a claim is of a log that was only created.
Found ==
  /\ Runs("create", "read") \/ Runs("append", "read") \/ Runs("append", "adopt") \/ Runs("init", "read") => ~state.there
  /\ Runs("create", "read") /\ stored.made => chain[1].src.made
  /\ Runs("init", "read") => stored = chain[1].src
  /\ Runs("init", "claim") => state.there /\ state.owner = Nobody /\ state.cursor = 0
  /\ Runs("drain", "write") => state.cursor < chain[1].upto

\* An artifact is there when it has events; the cursor is in the log, and at its end
\* when the log has an owner or when it was set to zero.
Proper(a) == (a.made <=> a.log # <<>>) /\ (a.torn => a.made)
Extent ==
  /\ Proper(stored)
  /\ state.cursor <= Len(stored.log)
  /\ state.owner # Nobody => state.cursor = Len(stored.log)
  /\ state.there /\ state.owner = Nobody /\ state.cursor = 0 => stored.log = <<>>

\* A session has only closers that are stored; it begins with what its holder prepared or
\* with nothing; and only a reloaded session has a seed, which meets no state.
Below(log, n) == \A i \in 1 .. Len(log) : log[i] = Closer => i <= n
OldClosers == \A k \in Sessions : Below(sess[k].log, Len(stored.log))
Begins(k) ==
  /\ sess[k].life = "unborn" => sess[k].log = <<>>
  /\ sess[k].life = "entered" => IF Entering(k) THEN Covers(sess[k].log, stored.log) ELSE sess[k].log = <<>>
Beginnings == \A k \in Sessions : Begins(k)
Seeded == \A i \in 1 .. Len(chain) : chain[i].kind = "init" /\ chain[i].upto # 0 => i = 1 /\ ~state.there

Ledger == Succession /\ Title /\ Found /\ Extent /\ OldClosers /\ Beginnings /\ Seeded

-----------------------------------------------------------------------------
\* What a session acknowledged.

\* The first n events of a log are stored, at their places.
Kept(log, n) == n <= Len(stored.log) /\ \A i \in 1 .. n : stored.log[i] = log[i]

\* An owner goes on with the stored log, and what an initialized session acknowledged is stored.
Follows == \A k \in Sessions : state.owner = k => Covers(sess[k].log, stored.log)
Retains == \A k \in Sessions : sess[k].init = "ok" => Kept(sess[k].log, sess[k].acked)
Agreement == "append" \notin raced => Follows /\ Retains

Accounts ==
  \A k \in Sessions :
    /\ sess[k].acked <= Len(sess[k].log)
    /\ sess[k].life = "cleaning" => sess[k].init = "ok" /\ sess[k].acked = Len(sess[k].log)

-----------------------------------------------------------------------------
\* What a call answers.

\* A call was made when no more was stored, and a flush is awaited of a session.
Times == \A c \in Callers : call[c].since <= Len(stored.log) /\ (call[c].pc = "flush" => call[c].awaits \in Sessions)

\* A check is of the source its caller has; a source that was found current has what was
\* stored when the inspection was called.
Checks ==
  \A i \in 1 .. Len(chain), c \in Callers :
    chain[i].kind = "check" /\ chain[i].who = c /\ call[c].pc = "check" => chain[i].src = call[c].src
FoundCurrent ==
  \A c \in Callers : Runs("check", "current") /\ chain[1].who = c =>
    Covers(stored.log, chain[1].src.log) /\ call[c].since <= Len(chain[1].src.log)
Reads == Times /\ Checks /\ FoundCurrent /\ NoStaleRead

-----------------------------------------------------------------------------
\* Callers that leave the pool alone, and sessions without jobs.

\* Where a caller has nothing to do with the pool.
Quiet == Points \ Referring

\* c has no job in ch; c goes where the pool does not matter; c stays where it is.
Jobless(c, ch) == \A i \in 1 .. Len(ch) : ch[i].kind \in Awaited => ch[i].who # c
Leaves(c, ds, ch) == ds[c].pc \in Quiet /\ Jobless(c, ch)
Stays(c, cs, ds) == ds[c].pc = cs[c].pc /\ ds[c].gen = cs[c].gen /\ ds[c].awaits = cs[c].awaits

\* Who moves has no job, and neither commits nor holds the entry.
MayLeave(e, cs, ch, ss, ds) ==
  \A c \in Callers : Stays(c, cs, ds) \/ (Leaves(c, ds, ch) /\ ~CommitsIn(e, cs, c) /\ ~HoldsIn(cs, ss, c))

\* A caller outside the pool and without a job.
Outside(c, ch) == Jobless(c, ch) /\ ~CommitsIn(entry, call, c) /\ ~HoldsIn(call, sess, c)

NoneOf(k, ch) == \A i \in 1 .. Len(ch) : ch[i].kind \in OfSessions => ch[i].who # k

-----------------------------------------------------------------------------
\* What a step leaves alone, and what it may do to the state; the sessions, one by one.

\* Nothing has started.
HeadNew(ch) == ch # <<>> => ch[1].stage = "queued"

\* What a step that is no job's leaves alone: the running job; the reserved entry with the log
\* and the state it was reserved for; the state, but for whoever holds the entry.
Frame ==
  /\ HeadNew(chain') \/ (chain # <<>> /\ chain' # <<>> /\ chain'[1] = chain[1])
  /\ entry'.phase = "reserved" => UNCHANGED <<entry, stored, state>>
  /\ entry.phase \in {"none", "loading"} => entry'.phase \in {"none", "loading"}
  /\ chain # <<>> /\ entry.phase # "reserved" => state' = state
  /\ ~state'.there => state'.owner = Nobody

Rest ==
  /\ stored' \in Artifacts /\ state' \in States /\ retiring' \in Owners
  /\ upsets' \in Nat /\ faults' \in Nat /\ faults <= faults'
  /\ raced' \in SUBSET {"append", "resume"} /\ raced \subseteq raced'

SessOK(s, phase, rc) ==
  /\ phase # "none" => s.life # "live" /\ (s.life \in {"flushing", "cleaning"} => "resume" \in rc)
  /\ s.life \in {"unborn", "entered"} => s.init = "none" /\ s.acked = 0
  /\ s.init = "pending" => s.life \in {"live", "flushing"}

OwnOK(s, cursor, fl, rc) ==
  /\ s.init = "ok" => s.acked <= cursor
  /\ s.init = "failed" => fl > 0 \/ "append" \in rc
  /\ s.life \in {"live", "flushing", "cleaning"} \/ (s.life = "stuck" /\ (fl > 0 \/ rc # {}))

Fits(k) == SessOK(sess[k], entry.phase, raced) /\ (state.owner = k => OwnOK(sess[k], state.cursor, faults, raced))
Sound == \A k \in Sessions : Fits(k)

\* Steps that move no session; and what they may do to the state.
Keeps == state' = state \/ state'.owner = Nobody \/ (state'.owner = state.owner /\ state.cursor <= state'.cursor)

-----------------------------------------------------------------------------
\* What a step does to the log, to its state and to the sessions.

\* A drain acknowledges what it wrote.
Acked(k, u) == [sess EXCEPT ![k].acked = u]

Same(j, l) == j.kind = l.kind /\ j.who = l.who /\ j.upto = l.upto /\ (l.kind = "check" => j.src = l.src)

\* A new job; only an inspection that has its source has it checked.
New(j, K) == j.kind \in K /\ (j.kind = "check" => call[j.who].pc = "seen")

\* The queue keeps its jobs, without the first if d is one, and may get one of kind K.
CarriedBy(d, K) ==
  \A i \in 1 .. Len(chain') : \/ i + d \in 1 .. Len(chain) /\ Same(chain'[i], chain[i + d])
                              \/ New(chain'[i], K)
Carried(K) == \E d \in {0, 1} : CarriedBy(d, K)

Others(k) == \A l \in Sessions : l # k => sess'[l] = sess[l]

\* The events t of the log of session k go on where the stored log ends.
Continues(k, t) ==
  /\ t \in Logs
  /\ t # <<>> => Len(stored.log) + Len(t) <= Len(sess[k].log)
  /\ \A i \in 1 .. Len(t) : t[i] = sess[k].log[Len(stored.log) + i]

Idle == UNCHANGED <<stored, state, sess>> /\ Carried(OfCalls)

Repairs ==
  /\ stored' = Repaired(stored) /\ NeedsRepair(stored)
  /\ state.owner = Nobody /\ entry.phase # "reserved"
  /\ UNCHANGED <<state, sess>> /\ Carried(OfCalls)

Places ==
  /\ \E made \in BOOLEAN : state' = State(Len(stored.log), made, Nobody)
  /\ state.owner = Nobody /\ chain # <<>> /\ chain[1].kind \in OfCalls
  /\ UNCHANGED <<stored, sess>> /\ Carried(OfCalls)

Appends ==
  /\ stored' = Written(<<Cold>>) /\ state' = Advanced(1) /\ sess' = sess
  /\ state.owner # Nobody => "append" \in raced'
  /\ entry.phase # "reserved" /\ Carried(OfCalls)

Binds(k) ==
  /\ chain # <<>> /\ chain[1].kind \in Initial /\ chain[1].who = k /\ chain' = Tail(chain)
  /\ entry.phase # "reserved" /\ state.owner \in {Nobody, k}
  /\ state.owner = k \/ Covers(sess[k].log, stored.log)
  /\ \E t : Continues(k, t) /\ stored'.log = stored.log \o t
  /\ Proper(stored')
  /\ state'.there /\ state'.owner = k /\ state'.cursor = Len(stored'.log)
  /\ \/ sess' = InitDone(k) /\ chain[1].upto <= Len(stored'.log)
     \/ sess' = InitFailed(k)

InitFails(k) ==
  /\ chain # <<>> /\ chain[1].kind = "init" /\ chain[1].who = k /\ chain' = Tail(chain)
  /\ sess' = InitFailed(k) /\ UNCHANGED <<stored, state>>

Reclaims ==
  /\ chain # <<>> /\ chain[1].kind = "init"
  /\ state.owner # Nobody /\ ~Works(state.owner) /\ state' = NoState
  /\ UNCHANGED <<stored, sess>> /\ Carried(OfCalls)

Acks(k) ==
  /\ chain # <<>> /\ chain[1].kind = "drain" /\ chain[1].who = k /\ chain' = Tail(chain)
  /\ sess' = Acked(k, chain[1].upto)
  /\ \/ UNCHANGED <<stored, state>> /\ chain[1].upto <= Len(stored.log)
     \/ \E t : /\ Continues(k, t) /\ t # <<>> /\ chain[1].upto <= Len(stored.log) + Len(t)
               /\ stored' = Written(t) /\ state' = Advanced(Len(t)) /\ entry.phase # "reserved"

GivesUp(k) ==
  /\ chain # <<>> /\ chain[1].kind = "drain" /\ chain[1].who = k /\ chain' = Tail(chain)
  /\ sess' = sess \/ (sess[k].life = "flushing" /\ sess' = Life(k, "stuck"))
  /\ UNCHANGED <<stored, state>>

\* No other session of the id is in the store.
Alone(k) == \A l \in Sessions : sess[l].life \in {"entered", "live"} => l = k

Prepared(log) == log \in Logs /\ Covers(log, stored.log) /\ Below(log, Len(stored.log))

Attaches(k) ==
  /\ entry.phase = "reserved" /\ sess[k].life \in {"unborn", "entered"} /\ Alone(k)
  /\ \E log : Prepared(log) /\ \E calls : Attach(k, log, calls)
  /\ stored' = stored

Starts(k) ==
  /\ sess[k].life \in {"unborn", "entered"} /\ sess[k].log = <<>> /\ Alone(k)
  /\ StartInit(k) /\ UNCHANGED <<stored, state>>

Enters(k) ==
  /\ sess[k].life = "unborn" /\ Alone(k) /\ Others(k)
  /\ sess'[k].life = "entered" /\ sess'[k].init = sess[k].init /\ sess'[k].acked = sess[k].acked
  /\ IF Entering(k)' THEN Prepared(sess'[k].log) ELSE sess'[k].log = <<>>
  /\ UNCHANGED <<stored, state, chain>>

Goes(k) == sess[k].life = "entered" /\ sess' = [sess EXCEPT ![k] = NoSession] /\ UNCHANGED <<stored, state, chain>>

Outs(k) == sess[k].life = "live" /\ sess' = Life(k, "flushing") /\ UNCHANGED <<stored, state, chain>>

Move ==
  \/ Idle \/ Repairs \/ Places \/ Appends \/ Reclaims \/ RetireRun \/ HotReload \/ ExternalWrite
  \/ \E k \in Sessions :
       \/ Binds(k) \/ InitFails(k) \/ Acks(k) \/ GivesUp(k)
       \/ Attaches(k) \/ Starts(k) \/ Enters(k) \/ Goes(k) \/ Outs(k)
       \/ SessionEvent(k) \/ RetireFlushed(k) \/ DrainCall(k)

\* The log only grows, by what one of its writers adds.
Adds(t) ==
  /\ t \in Logs /\ stored'.log = stored.log \o t
  /\ t # <<>> => entry.phase # "reserved"
  /\ \/ t = <<>> \/ t = <<Cold>> \/ t = Closers(stored) \/ t = Closers(stored) \o <<Foreign>>
     \/ \E k \in Sessions : Continues(k, t)

\* What a step makes of the log of session k.
LogMoves(k) ==
  /\ \/ sess'[k].log = sess[k].log \/ sess'[k].log = <<>> \/ Prepared(sess'[k].log)
     \/ sess'[k].log = Append(sess[k].log, k)
  /\ sess'[k].life = "unborn" => (sess[k].life = "unborn" /\ sess'[k].log = sess[k].log) \/ sess'[k].log = <<>>
  /\ sess'[k].life = "entered" => (sess[k].life = "entered" /\ sess'[k].log = sess[k].log) \/ Enters(k)

\* Only a session that owns the log after the step has acknowledged more, or is initialized.
Accrues(k) ==
  \/ /\ sess'[k].log = sess[k].log /\ sess'[k].acked = sess[k].acked
     /\ sess'[k].init = "ok" => sess[k].init = "ok"
     /\ sess'[k].life = "cleaning" => \/ sess[k].life = "cleaning" /\ sess'[k].init = sess[k].init
                                      \/ sess'[k].init = "ok" /\ ~(sess[k].acked < Len(sess[k].log))
  \/ /\ sess'[k].life # "cleaning" /\ sess'[k].acked <= Len(sess'[k].log)
     /\ \/ sess'[k].init # "ok"
        \/ state'.owner = k /\ sess'[k].acked <= Len(stored'.log)
        \/ /\ sess[k].init = "ok" /\ sess'[k].acked = sess[k].acked
           /\ \A i \in 1 .. sess[k].acked : sess'[k].log[i] = sess[k].log[i]

-----------------------------------------------------------------------------
\* What a step does to the callers.

\* The answer of caller d would not begin with what was stored when it called.
Misses(d) ==
  \/ Runs("check", "current") /\ chain[1].who = d /\ ~Answers(d, Balanced(call[d].src))
  \/ call[d].pc = "reserved" /\ ~Answers(d, Balanced(entry.src))
  \/ /\ call[d].pc = "flush" /\ sess[call[d].awaits].init = "ok" /\ sess[call[d].awaits].acked >= call[d].upto
     /\ "append" \notin raced /\ ~Covers(stored.log, SubSeq(sess[call[d].awaits].log, 1, call[d].upto))

Still(r, q) ==
  q.pc = r.pc /\ q.awaits = r.awaits /\ q.src = r.src /\ q.since = r.since /\ q.upto = r.upto /\ q.fresh = r.fresh

\* The record q of caller d after a step: as it was, or it moved.
Moved(d, q) ==
  /\ call[d].pc = "entered" => sess'[call[d].awaits].life # "entered"
  /\ q.pc = "entered" => q.awaits \in Sessions /\ sess[q.awaits].life # "entered"
  /\ q.pc = "flush" => q.awaits \in Sessions
  /\ q.pc = "check" => q.src = call[d].src /\ chain' = Append(chain, [Job("check", d) EXCEPT !.src = call[d].src])
  /\ q.since \in {call[d].since, 0, Len(stored.log)}
  /\ call[d].fresh /\ ~q.fresh => Misses(d)
Proceeds(d, q) == Still(call[d], q) \/ Moved(d, q)
Proceed(cs) == cs \in [Callers -> CallRecords] /\ \A d \in Callers : Proceeds(d, cs[d])

=============================================================================
