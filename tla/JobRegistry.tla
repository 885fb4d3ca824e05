----------------------------- MODULE JobRegistry -----------------------------
(***************************************************************************)
(* The background-job registry: packages/jobs/jobs-local/src/index.ts      *)
(* (class LocalJobRegistry).                                               *)
(*                                                                         *)
(* One JavaScript thread: every method is atomic up to its await.  A       *)
(* waiter that was released or timed out resumes in a later job of the     *)
(* event loop, and only then leaves job.waiters (waiting, released and     *)
(* timedOut are counted).  Producers settle their done promise at will.    *)
(* Output, labels and listener layers are left out.                        *)
(***************************************************************************)
EXTENDS Naturals, FiniteSets

CONSTANTS
  Jobs,     \* jobs that may be started, each once
  Agents,   \* owners that can be disposed
  Unowned,  \* the shared bucket of jobs without an owner
  Waiters,  \* calls of wait, each made once
  Limit     \* maxConcurrentJobsPerOwner

ASSUME UnownedAssumption == Unowned \notin Agents
ASSUME LimitAssumption == Limit \in Nat \ {0}
ASSUME JobsAssumption == Jobs # {}

Owners == Agents \cup {Unowned}
Active == {"running", "stopping"}
Terminal == {"completed", "failed"}

VARIABLES
  status,    \* of each job; "none" before it is started
  owner,     \* of each started job
  store,     \* jobs in the registry
  reported,  \* jobs whose end somebody has taken or is taking
  call,      \* each wait: "unused", "waiting", "released", "timedOut", "returned", "late", "rejected"
  waitsFor,  \* the job of each wait
  teardown,  \* of each owner: "live", "draining" or "disposed"
  service,   \* of the registry itself, likewise
  draining,  \* jobs each teardown collected
  killed,    \* history: jobs whose cancellation was requested
  notices    \* history: jobs announced to the listeners as unreported

jobVars == <<status, owner, store>>
waitVars == <<call, waitsFor>>
endVars == <<teardown, service, draining>>
vars == <<jobVars, reported, waitVars, endVars, killed, notices>>

Counted == {"waiting", "released", "timedOut"}

\* Mutant: a wait whose time is up is no longer counted, as if it had been aborted.
WaitersPending(j) == {w \in Waiters : waitsFor[w] = j /\ call[w] = "waiting"}

\* Mutant: an aborted wait stays counted.
WaitersEver(j) == {w \in Waiters : waitsFor[w] = j /\ call[w] # "unused"}

\* job.waiters: an abort uncounts in its own job, every other exit when the wait resumes.
WaitersOf(j) == {w \in Waiters : waitsFor[w] = j /\ call[w] \in Counted}

\* expect: an unknown job is refused.
Expect(j) == j \in store

-----------------------------------------------------------------------------
\* activeTaskCount
ActiveOf(o) == {j \in store : owner[j] = o /\ status[j] \in Active}

\* An owner's cleanup effect is attached by its first job; a disposing scope refuses it.
Start(j, o) ==
  /\ service = "live"
  /\ o # Unowned => teardown[o] = "live"
  /\ status[j] = "none"
  /\ Cardinality(ActiveOf(o)) < Limit
  /\ status' = [status EXCEPT ![j] = "running"]
  /\ owner' = [owner EXCEPT ![j] = o]
  /\ store' = store \cup {j}
  /\ UNCHANGED <<reported, waitVars, endVars, killed, notices>>

\* The first outcome wins.
Unsettled(j) == status[j] \in Active

\* settle: the outcomes ends of the jobs js, who waits for them and who is told.
Settle(js, ends, claimed) ==
  /\ status' = [j \in Jobs |-> IF j \in js THEN ends[j] ELSE status[j]]
  /\ reported' = claimed \cup {j \in js : WaitersOf(j) # {}}
  /\ call' = [w \in Waiters |-> IF call[w] = "waiting" /\ waitsFor[w] \in js THEN "released" ELSE call[w]]
  /\ notices' = notices \cup (IF service = "live" THEN js \ reported' ELSE {})
  /\ UNCHANGED waitsFor

\* hooks.done settles or rejects.
ProducerDone(j, end) ==
  /\ Unsettled(j)
  /\ Settle({j}, [i \in {j} |-> end], reported)
  /\ UNCHANGED <<owner, store, endVars, killed>>

\* kill: a throwing cancel leaves everything as it was.
Kill(j) ==
  /\ Expect(j)
  /\ reported' = reported \cup {j}
  /\ IF status[j] \in Terminal THEN UNCHANGED <<status, killed>>
     ELSE status' = [status EXCEPT ![j] = "stopping"] /\ killed' = killed \cup {j}
  /\ UNCHANGED <<owner, store, waitVars, endVars, notices>>

\* read claims the report of a finished job.
Read(j) ==
  /\ Expect(j)
  /\ status[j] \in Terminal
  /\ reported' = reported \cup {j}
  /\ UNCHANGED <<jobVars, waitVars, endVars, killed, notices>>

-----------------------------------------------------------------------------
\* wait: a finished job is returned at once.
Wait(w, j) ==
  /\ call[w] = "unused"
  /\ Expect(j)
  /\ waitsFor' = [waitsFor EXCEPT ![w] = j]
  /\ IF status[j] \in Terminal
     THEN call' = [call EXCEPT ![w] = "late"] /\ reported' = reported \cup {j}
     ELSE call' = [call EXCEPT ![w] = "waiting"] /\ UNCHANGED reported
  /\ UNCHANGED <<jobVars, endVars, killed, notices>>

\* A timeout resolves the wait; the waiter is counted until it resumes.
WaitTimesOut(w) ==
  /\ call[w] = "waiting"
  /\ call' = [call EXCEPT ![w] = "timedOut"]
  /\ UNCHANGED <<jobVars, reported, waitsFor, endVars, killed, notices>>

\* The caller's abort uncounts the waiter in the same job and rejects.
WaitAborts(w) ==
  /\ call[w] = "waiting"
  /\ call' = [call EXCEPT ![w] = "rejected"]
  /\ UNCHANGED <<jobVars, reported, waitsFor, endVars, killed, notices>>

\* The rest of wait: whoever finds the job finished takes the report.
WaitResumes(w) ==
  /\ call[w] \in {"released", "timedOut"}
  /\ IF status[waitsFor[w]] \in Terminal
     THEN call' = [call EXCEPT ![w] = "returned"] /\ reported' = reported \cup {waitsFor[w]}
     ELSE call' = [call EXCEPT ![w] = "late"] /\ UNCHANGED reported
  /\ UNCHANGED <<jobVars, waitsFor, endVars, killed, notices>>

-----------------------------------------------------------------------------
\* Mutant: a throwing cancel is only logged.
ForcedNone(failing) == {}

\* A cancel that throws during teardown force-fails the record.
Forced(failing) == failing

\* cancelForTeardown over js, where cancel throws for the jobs of failing.
CancelForTeardown(js, failing) ==
  LET active == {j \in js : status[j] \in Active}
      forced == Forced(failing)
  IN /\ failing \subseteq active
     /\ killed' = killed \cup active
     /\ status' = [j \in Jobs |-> IF j \in forced THEN "failed"
                                  ELSE IF j \in active \ failing THEN "stopping" ELSE status[j]]
     /\ reported' = reported \cup active
     /\ call' = [w \in Waiters |-> IF call[w] = "waiting" /\ waitsFor[w] \in forced
                                   THEN "released" ELSE call[w]]
     /\ UNCHANGED <<waitsFor, notices>>

OwnedBy(o) == {j \in store : owner[j] = o}

\* disposeOwned up to its await.
DisposeOwner(o, failing) ==
  /\ o \in Agents /\ teardown[o] = "live"
  /\ teardown' = [teardown EXCEPT ![o] = "draining"]
  /\ draining' = [draining EXCEPT ![o] = OwnedBy(o)]
  /\ CancelForTeardown(OwnedBy(o), failing)
  /\ UNCHANGED <<owner, store, service>>

AllSettled(js) == \A j \in js : status[j] \in Terminal

OwnerDrained(o) ==
  /\ teardown[o] = "draining"
  /\ AllSettled(draining[o])
  /\ teardown' = [teardown EXCEPT ![o] = "disposed"]
  /\ store' = store \ draining[o]
  /\ UNCHANGED <<status, owner, reported, waitVars, service, draining, killed, notices>>

\* disposeAll up to its await.
DisposeService(failing) ==
  /\ service = "live"
  /\ service' = "draining"
  /\ draining' = [draining EXCEPT ![Unowned] = store]
  /\ CancelForTeardown(store, failing)
  /\ UNCHANGED <<owner, store, teardown>>

ServiceDrained ==
  /\ service = "draining"
  /\ AllSettled(draining[Unowned])
  /\ service' = "disposed"
  /\ store' = {}
  /\ UNCHANGED <<status, owner, reported, waitVars, teardown, draining, killed, notices>>

-----------------------------------------------------------------------------
Init ==
  /\ status = [j \in Jobs |-> "none"]
  /\ owner = [j \in Jobs |-> Unowned]
  /\ store = {} /\ reported = {} /\ killed = {} /\ notices = {}
  /\ call = [w \in Waiters |-> "unused"]
  /\ waitsFor \in [Waiters -> {CHOOSE j \in Jobs : TRUE}]
  /\ teardown = [o \in Agents |-> "live"]
  /\ service = "live"
  /\ draining = [o \in Owners |-> {}]

Next ==
  \/ \E j \in Jobs, o \in Owners : Start(j, o)
  \/ \E j \in Jobs, end \in Terminal : ProducerDone(j, end)
  \/ \E j \in Jobs : Kill(j) \/ Read(j)
  \/ \E w \in Waiters, j \in Jobs : Wait(w, j)
  \/ \E w \in Waiters : WaitTimesOut(w) \/ WaitAborts(w) \/ WaitResumes(w)
  \/ \E o \in Agents, failing \in SUBSET Jobs : DisposeOwner(o, failing)
  \/ \E o \in Agents : OwnerDrained(o)
  \/ \E failing \in SUBSET Jobs : DisposeService(failing)
  \/ ServiceDrained

Spec == Init /\ [][Next]_vars

\* A producer whose cancel returned settles; a teardown whose jobs settled continues.
FairSpec ==
  /\ Spec
  /\ \A j \in Jobs : WF_vars(j \in killed /\ status[j] = "stopping" /\ \E end \in Terminal : ProducerDone(j, end))
  /\ \A o \in Agents : WF_vars(OwnerDrained(o))
  /\ WF_vars(ServiceDrained)

-----------------------------------------------------------------------------
\* Every variable has its type; only started jobs are registered or waited for.
TypeOK ==
  /\ status \in [Jobs -> {"none"} \cup Active \cup Terminal]
  /\ owner \in [Jobs -> Owners]
  /\ store \subseteq {j \in Jobs : status[j] # "none"}
  /\ reported \subseteq Jobs /\ killed \subseteq Jobs /\ notices \subseteq Jobs
  /\ call \in [Waiters -> Counted \cup {"unused", "returned", "late", "rejected"}]
  /\ waitsFor \in [Waiters -> Jobs]
  /\ \A w \in Waiters : call[w] # "unused" => status[waitsFor[w]] # "none"
  /\ teardown \in [Agents -> {"live", "draining", "disposed"}]
  /\ service \in {"live", "draining", "disposed"}
  /\ draining \in [Owners -> SUBSET Jobs]

\* The model is told of an end once: a wait that was pending when its job ended and
\* returns that end was not also announced, however its timeout raced the settlement.
NotToldTwice == \A w \in Waiters : call[w] = "returned" => waitsFor[w] \notin notices

\* The model is told of every end: one that nobody asked for and that was not announced
\* is returned, or about to be, by a wait. An abort that races the settlement loses none.
NotLost ==
  \A j \in Jobs :
    status[j] \in Terminal /\ j \notin notices /\ j \notin killed /\ service = "live"
      => \E w \in Waiters : waitsFor[w] = j /\ call[w] \in {"released", "timedOut", "returned"}

\* A teardown ends, also when cancelling throws: nothing waits for a job nobody stops.
TeardownEnds ==
  /\ \A o \in Agents : teardown[o] = "draining" ~> teardown[o] = "disposed"
  /\ service = "draining" ~> service = "disposed"

=============================================================================
