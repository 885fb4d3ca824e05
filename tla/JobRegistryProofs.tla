-------------------------- MODULE JobRegistryProofs --------------------------
(***************************************************************************)
(* Proofs about JobRegistry for any jobs, owners, waits and limit.         *)
(***************************************************************************)
EXTENDS JobRegistry, FiniteSetTheorems, TLAPS

USE DEF jobVars, waitVars, endVars, vars

-----------------------------------------------------------------------------
\* Types.

\* settle and cancelForTeardown keep the types of what they assign.
LEMMA SettleTypes ==
  ASSUME TypeOK, NEW j \in Jobs, NEW end \in Terminal,
         Settle({j}, [i \in {j} |-> end], reported)
  PROVE  /\ status' \in [Jobs -> {"none"} \cup Active \cup Terminal]
         /\ reported' \subseteq Jobs /\ notices' \subseteq Jobs
         /\ call' \in [Waiters -> Counted \cup {"unused", "returned", "late", "rejected"}]
         /\ waitsFor' = waitsFor
         /\ \A i \in Jobs : status[i] # "none" => status'[i] # "none"
         /\ \A w \in Waiters : call'[w] # "unused" => call[w] # "unused"
BY DEF Settle, TypeOK, Terminal, Active, Counted

LEMMA CancelTypes ==
  ASSUME TypeOK, NEW js \in SUBSET store, NEW failing, CancelForTeardown(js, failing)
  PROVE  /\ status' \in [Jobs -> {"none"} \cup Active \cup Terminal]
         /\ reported' \subseteq Jobs /\ notices' \subseteq Jobs /\ killed' \subseteq Jobs
         /\ call' \in [Waiters -> Counted \cup {"unused", "returned", "late", "rejected"}]
         /\ waitsFor' = waitsFor
         /\ \A i \in Jobs : status[i] # "none" => status'[i] # "none"
         /\ \A w \in Waiters : call'[w] # "unused" => call[w] # "unused"
BY DEF CancelForTeardown, Forced, TypeOK, Terminal, Active, Counted

LEMMA TypeInit == Init => TypeOK
BY JobsAssumption DEF Init, TypeOK, Owners, Counted

LEMMA TypeStep == TypeOK /\ [Next]_vars => TypeOK'
<1> SUFFICES ASSUME TypeOK, [Next]_vars PROVE TypeOK'
  OBVIOUS
<1> USE DEF TypeOK
<1>1. ASSUME NEW j \in Jobs, NEW o \in Owners, Start(j, o) PROVE TypeOK'
  BY <1>1 DEF Start, Active
<1>2. ASSUME NEW j \in Jobs, NEW end \in Terminal, ProducerDone(j, end) PROVE TypeOK'
  BY <1>2, SettleTypes DEF ProducerDone
<1>3. ASSUME NEW j \in Jobs, Kill(j) PROVE TypeOK'
  BY <1>3 DEF Kill, Expect, Active
<1>4. ASSUME NEW j \in Jobs, Read(j) PROVE TypeOK'
  BY <1>4 DEF Read, Expect
<1>5. ASSUME NEW w \in Waiters, NEW j \in Jobs, Wait(w, j) PROVE TypeOK'
  BY <1>5 DEF Wait, Expect, Counted
<1>6. ASSUME NEW w \in Waiters, WaitTimesOut(w) PROVE TypeOK'
  BY <1>6 DEF WaitTimesOut, Counted
<1>7. ASSUME NEW w \in Waiters, WaitAborts(w) PROVE TypeOK'
  BY <1>7 DEF WaitAborts
<1>8. ASSUME NEW w \in Waiters, WaitResumes(w) PROVE TypeOK'
  BY <1>8 DEF WaitResumes
<1>9. ASSUME NEW o \in Agents, NEW failing \in SUBSET Jobs, DisposeOwner(o, failing) PROVE TypeOK'
  BY <1>9, CancelTypes DEF DisposeOwner, OwnedBy
<1>10. ASSUME NEW o \in Agents, OwnerDrained(o) PROVE TypeOK'
  BY <1>10 DEF OwnerDrained
<1>11. ASSUME NEW failing \in SUBSET Jobs, DisposeService(failing) PROVE TypeOK'
  BY <1>11, CancelTypes DEF DisposeService
<1>12. CASE ServiceDrained
  BY <1>12 DEF ServiceDrained
<1>13. CASE UNCHANGED vars
  BY <1>13
<1> QED
  BY <1>1, <1>2, <1>3, <1>4, <1>5, <1>6, <1>7, <1>8, <1>9, <1>10, <1>11, <1>12, <1>13 DEF Next

\* In every reachable state of the registry every variable has its type, and a job
\* that is registered or waited for has been started.
THEOREM TypeCorrect == Spec => []TypeOK
BY TypeInit, TypeStep, PTL DEF Spec

-----------------------------------------------------------------------------
\* Who is told of an end.

\* A pending wait is for a job that has not ended; a released one, or one that
\* returned an end, is for a job that has.
WaitsFollowJobs ==
  \A w \in Waiters :
    /\ call[w] = "waiting" => status[waitsFor[w]] \in Active
    /\ call[w] \in {"released", "returned"} => status[waitsFor[w]] \in Terminal

\* Only ended jobs are announced, and not one that a wait takes: a wait that was
\* released, or that timed out and has not resumed, will return its job's end.
AnnouncedOrTaken ==
  /\ \A j \in notices : status[j] \in Terminal
  /\ \A w \in Waiters :
       call[w] \in {"released", "timedOut", "returned"} => waitsFor[w] \notin notices

\* A report claimed before the end was claimed by who asked for the end.
ClaimedEarlyIsKilled ==
  \A j \in reported : status[j] # "none" /\ (status[j] \in Active => j \in killed)

RegistryInvariant == TypeOK /\ WaitsFollowJobs /\ AnnouncedOrTaken /\ ClaimedEarlyIsKilled /\ NotLost

\* The invariant is inductive; the step that matters is ProducerDone, where the
\* waiters still counted decide between a notice and a wait.
LEMMA RegistryInductive == Spec => []RegistryInvariant
<1>1. Init => RegistryInvariant
  <2> SUFFICES ASSUME Init PROVE WaitsFollowJobs /\ AnnouncedOrTaken /\ ClaimedEarlyIsKilled /\ NotLost
    BY TypeInit DEF RegistryInvariant
  <2> QED
    BY DEF Init, WaitsFollowJobs, AnnouncedOrTaken, ClaimedEarlyIsKilled, NotLost, Terminal
<1>2. TypeOK /\ WaitsFollowJobs /\ [Next]_vars => WaitsFollowJobs'
  <2> SUFFICES ASSUME TypeOK, WaitsFollowJobs, [Next]_vars PROVE WaitsFollowJobs'
    OBVIOUS
  <2> USE DEF TypeOK, WaitsFollowJobs
  <2>1. ASSUME NEW j \in Jobs, NEW o \in Owners, Start(j, o) PROVE WaitsFollowJobs'
    BY <2>1 DEF Start, Active, Terminal
  <2>2. ASSUME NEW j \in Jobs, NEW end \in Terminal, ProducerDone(j, end) PROVE WaitsFollowJobs'
    BY <2>2 DEF ProducerDone, Settle, Unsettled, WaitersOf, Counted, Active, Terminal
  <2>3. ASSUME NEW j \in Jobs, Kill(j) PROVE WaitsFollowJobs'
    BY <2>3 DEF Kill, Expect, Active, Terminal
  <2>4. ASSUME NEW j \in Jobs, Read(j) PROVE WaitsFollowJobs'
    BY <2>4 DEF Read, Expect, Active, Terminal
  <2>5. ASSUME NEW w \in Waiters, NEW j \in Jobs, Wait(w, j) PROVE WaitsFollowJobs'
    BY <2>5 DEF Wait, Expect, Active, Terminal
  <2>6. ASSUME NEW w \in Waiters, WaitTimesOut(w) PROVE WaitsFollowJobs'
    BY <2>6 DEF WaitTimesOut
  <2>7. ASSUME NEW w \in Waiters, WaitAborts(w) PROVE WaitsFollowJobs'
    BY <2>7 DEF WaitAborts
  <2>8. ASSUME NEW w \in Waiters, WaitResumes(w) PROVE WaitsFollowJobs'
    BY <2>8 DEF WaitResumes, Active, Terminal
  <2>9. ASSUME NEW o \in Agents, NEW failing \in SUBSET Jobs, DisposeOwner(o, failing) PROVE WaitsFollowJobs'
    BY <2>9 DEF DisposeOwner, OwnedBy, CancelForTeardown, Forced, Active, Terminal
  <2>10. ASSUME NEW o \in Agents, OwnerDrained(o) PROVE WaitsFollowJobs'
    BY <2>10 DEF OwnerDrained
  <2>11. ASSUME NEW failing \in SUBSET Jobs, DisposeService(failing) PROVE WaitsFollowJobs'
    BY <2>11 DEF DisposeService, CancelForTeardown, Forced, Active, Terminal
  <2>12. CASE ServiceDrained
    BY <2>12 DEF ServiceDrained
  <2>13. CASE UNCHANGED vars
    BY <2>13
  <2> QED
    BY <2>1, <2>2, <2>3, <2>4, <2>5, <2>6, <2>7, <2>8, <2>9, <2>10, <2>11, <2>12, <2>13 DEF Next
<1>3. TypeOK /\ WaitsFollowJobs /\ AnnouncedOrTaken /\ [Next]_vars => AnnouncedOrTaken'
  <2> SUFFICES ASSUME TypeOK, WaitsFollowJobs, AnnouncedOrTaken, [Next]_vars PROVE AnnouncedOrTaken'
    OBVIOUS
  <2> USE DEF TypeOK, WaitsFollowJobs, AnnouncedOrTaken
  <2>1. ASSUME NEW j \in Jobs, NEW o \in Owners, Start(j, o) PROVE AnnouncedOrTaken'
    BY <2>1 DEF Start, Active, Terminal
  <2>2. ASSUME NEW j \in Jobs, NEW end \in Terminal, ProducerDone(j, end) PROVE AnnouncedOrTaken'
    BY <2>2 DEF ProducerDone, Settle, Unsettled, WaitersOf, Counted, Active, Terminal
  <2>3. ASSUME NEW j \in Jobs, Kill(j) PROVE AnnouncedOrTaken'
    BY <2>3 DEF Kill, Expect, Active, Terminal
  <2>4. ASSUME NEW j \in Jobs, Read(j) PROVE AnnouncedOrTaken'
    BY <2>4 DEF Read, Expect, Active, Terminal
  <2>5. ASSUME NEW w \in Waiters, NEW j \in Jobs, Wait(w, j) PROVE AnnouncedOrTaken'
    BY <2>5 DEF Wait, Expect, Active, Terminal
  <2>6. ASSUME NEW w \in Waiters, WaitTimesOut(w) PROVE AnnouncedOrTaken'
    BY <2>6 DEF WaitTimesOut, Active, Terminal
  <2>7. ASSUME NEW w \in Waiters, WaitAborts(w) PROVE AnnouncedOrTaken'
    BY <2>7 DEF WaitAborts
  <2>8. ASSUME NEW w \in Waiters, WaitResumes(w) PROVE AnnouncedOrTaken'
    BY <2>8 DEF WaitResumes, Active, Terminal
  <2>9. ASSUME NEW o \in Agents, NEW failing \in SUBSET Jobs, DisposeOwner(o, failing) PROVE AnnouncedOrTaken'
    BY <2>9 DEF DisposeOwner, OwnedBy, CancelForTeardown, Forced, Active, Terminal
  <2>10. ASSUME NEW o \in Agents, OwnerDrained(o) PROVE AnnouncedOrTaken'
    BY <2>10 DEF OwnerDrained
  <2>11. ASSUME NEW failing \in SUBSET Jobs, DisposeService(failing) PROVE AnnouncedOrTaken'
    BY <2>11 DEF DisposeService, CancelForTeardown, Forced, Active, Terminal
  <2>12. CASE ServiceDrained
    BY <2>12 DEF ServiceDrained
  <2>13. CASE UNCHANGED vars
    BY <2>13
  <2> QED
    BY <2>1, <2>2, <2>3, <2>4, <2>5, <2>6, <2>7, <2>8, <2>9, <2>10, <2>11, <2>12, <2>13 DEF Next
<1>4. TypeOK /\ ClaimedEarlyIsKilled /\ [Next]_vars => ClaimedEarlyIsKilled'
  <2> SUFFICES ASSUME TypeOK, ClaimedEarlyIsKilled, [Next]_vars PROVE ClaimedEarlyIsKilled'
    OBVIOUS
  <2> USE DEF TypeOK, ClaimedEarlyIsKilled
  <2>1. ASSUME NEW j \in Jobs, NEW o \in Owners, Start(j, o) PROVE ClaimedEarlyIsKilled'
    BY <2>1 DEF Start, Active, Terminal
  <2>2. ASSUME NEW j \in Jobs, NEW end \in Terminal, ProducerDone(j, end) PROVE ClaimedEarlyIsKilled'
    BY <2>2 DEF ProducerDone, Settle, Unsettled, WaitersOf, Counted, Active, Terminal
  <2>3. ASSUME NEW j \in Jobs, Kill(j) PROVE ClaimedEarlyIsKilled'
    BY <2>3 DEF Kill, Expect, Active, Terminal
  <2>4. ASSUME NEW j \in Jobs, Read(j) PROVE ClaimedEarlyIsKilled'
    BY <2>4 DEF Read, Expect, Active, Terminal
  <2>5. ASSUME NEW w \in Waiters, NEW j \in Jobs, Wait(w, j) PROVE ClaimedEarlyIsKilled'
    BY <2>5 DEF Wait, Expect, Active, Terminal
  <2>6. ASSUME NEW w \in Waiters, WaitTimesOut(w) PROVE ClaimedEarlyIsKilled'
    BY <2>6 DEF WaitTimesOut
  <2>7. ASSUME NEW w \in Waiters, WaitAborts(w) PROVE ClaimedEarlyIsKilled'
    BY <2>7 DEF WaitAborts
  <2>8. ASSUME NEW w \in Waiters, WaitResumes(w) PROVE ClaimedEarlyIsKilled'
    BY <2>8 DEF WaitResumes, Active, Terminal
  <2>9. ASSUME NEW o \in Agents, NEW failing \in SUBSET Jobs, DisposeOwner(o, failing) PROVE ClaimedEarlyIsKilled'
    BY <2>9 DEF DisposeOwner, OwnedBy, CancelForTeardown, Forced, Active, Terminal
  <2>10. ASSUME NEW o \in Agents, OwnerDrained(o) PROVE ClaimedEarlyIsKilled'
    BY <2>10 DEF OwnerDrained
  <2>11. ASSUME NEW failing \in SUBSET Jobs, DisposeService(failing) PROVE ClaimedEarlyIsKilled'
    BY <2>11 DEF DisposeService, CancelForTeardown, Forced, Active, Terminal
  <2>12. CASE ServiceDrained
    BY <2>12 DEF ServiceDrained
  <2>13. CASE UNCHANGED vars
    BY <2>13
  <2> QED
    BY <2>1, <2>2, <2>3, <2>4, <2>5, <2>6, <2>7, <2>8, <2>9, <2>10, <2>11, <2>12, <2>13 DEF Next
<1>5. TypeOK /\ ClaimedEarlyIsKilled /\ WaitsFollowJobs /\ NotLost /\ [Next]_vars => NotLost'
  <2> SUFFICES ASSUME TypeOK, ClaimedEarlyIsKilled, WaitsFollowJobs, NotLost, [Next]_vars PROVE NotLost'
    OBVIOUS
  <2> USE DEF TypeOK, ClaimedEarlyIsKilled, WaitsFollowJobs, NotLost
  <2>1. ASSUME NEW j \in Jobs, NEW o \in Owners, Start(j, o) PROVE NotLost'
    BY <2>1 DEF Start, Active, Terminal
  <2>2. ASSUME NEW j \in Jobs, NEW end \in Terminal, ProducerDone(j, end) PROVE NotLost'
    BY <2>2 DEF ProducerDone, Settle, Unsettled, WaitersOf, Counted, Active, Terminal
  <2>3. ASSUME NEW j \in Jobs, Kill(j) PROVE NotLost'
    BY <2>3 DEF Kill, Expect, Active, Terminal
  <2>4. ASSUME NEW j \in Jobs, Read(j) PROVE NotLost'
    BY <2>4 DEF Read, Expect, Active, Terminal
  <2>5. ASSUME NEW w \in Waiters, NEW j \in Jobs, Wait(w, j) PROVE NotLost'
    BY <2>5 DEF Wait, Expect, Active, Terminal
  <2>6. ASSUME NEW w \in Waiters, WaitTimesOut(w) PROVE NotLost'
    BY <2>6 DEF WaitTimesOut
  <2>7. ASSUME NEW w \in Waiters, WaitAborts(w) PROVE NotLost'
    BY <2>7 DEF WaitAborts
  <2>8. ASSUME NEW w \in Waiters, WaitResumes(w) PROVE NotLost'
    BY <2>8 DEF WaitResumes, Active, Terminal
  <2>9. ASSUME NEW o \in Agents, NEW failing \in SUBSET Jobs, DisposeOwner(o, failing) PROVE NotLost'
    BY <2>9 DEF DisposeOwner, OwnedBy, CancelForTeardown, Forced, Active, Terminal
  <2>10. ASSUME NEW o \in Agents, OwnerDrained(o) PROVE NotLost'
    BY <2>10 DEF OwnerDrained
  <2>11. ASSUME NEW failing \in SUBSET Jobs, DisposeService(failing) PROVE NotLost'
    BY <2>11 DEF DisposeService, CancelForTeardown, Forced, Active, Terminal
  <2>12. CASE ServiceDrained
    BY <2>12 DEF ServiceDrained
  <2>13. CASE UNCHANGED vars
    BY <2>13
  <2> QED
    BY <2>1, <2>2, <2>3, <2>4, <2>5, <2>6, <2>7, <2>8, <2>9, <2>10, <2>11, <2>12, <2>13 DEF Next
<1> QED
  BY <1>1, <1>2, <1>3, <1>4, <1>5, TypeStep, PTL DEF Spec, RegistryInvariant

\* A wait that was pending when its job ended and returned that end was not also
\* announced to the listeners, whatever raced the settlement.
THEOREM ToldOnce == Spec => []NotToldTwice
<1>1. RegistryInvariant => NotToldTwice
  BY DEF RegistryInvariant, AnnouncedOrTaken, NotToldTwice
<1> QED
  BY <1>1, RegistryInductive, PTL

\* While the registry lives, every end nobody asked for is announced, returned by a
\* wait, or about to be.
THEOREM NoEndLost == Spec => []NotLost
<1>1. RegistryInvariant => NotLost
  BY DEF RegistryInvariant
<1> QED
  BY <1>1, RegistryInductive, PTL

-----------------------------------------------------------------------------
\* What teardown leaves.

\* A job that has not ended is registered. Once its owner, or the registry, is being
\* torn down, that teardown waits for it: it collected the job, and is not over.
TeardownCollects ==
  /\ \A j \in Jobs : status[j] \in Active => j \in store
  /\ \A o \in Agents : \A j \in Jobs :
       teardown[o] # "live" /\ owner[j] = o /\ status[j] \in Active
         => teardown[o] = "draining" /\ j \in draining[o]
  /\ \A j \in Jobs :
       service # "live" /\ status[j] \in Active => service = "draining" /\ j \in draining[Unowned]

\* No job of a disposed owner runs, and none at all once the registry is disposed:
\* disposeOwned and disposeAll await every job they cancel, and no job starts behind them.
NothingOutlivesTeardown ==
  \A j \in Jobs : status[j] \in Active =>
    /\ owner[j] \in Agents => teardown[owner[j]] # "disposed"
    /\ service # "disposed"

LEMMA TeardownCollectsInductive == Spec => []TeardownCollects
<1>1. Init => TeardownCollects
  BY DEF Init, TeardownCollects, Active
<1>2. TypeOK /\ TeardownCollects /\ [Next]_vars => TeardownCollects'
  <2> SUFFICES ASSUME TypeOK, TeardownCollects, [Next]_vars PROVE TeardownCollects'
    OBVIOUS
  <2> USE DEF TypeOK, TeardownCollects
  <2>1. ASSUME NEW j \in Jobs, NEW o \in Owners, Start(j, o) PROVE TeardownCollects'
    BY <2>1, UnownedAssumption DEF Start, Active
  <2>2. ASSUME NEW j \in Jobs, NEW end \in Terminal, ProducerDone(j, end) PROVE TeardownCollects'
    BY <2>2 DEF ProducerDone, Settle, Unsettled, Active, Terminal
  <2>3. ASSUME NEW j \in Jobs, Kill(j) PROVE TeardownCollects'
    BY <2>3 DEF Kill, Expect, Active, Terminal
  <2>4. ASSUME NEW j \in Jobs, Read(j) PROVE TeardownCollects'
    BY <2>4 DEF Read
  <2>5. ASSUME NEW w \in Waiters, NEW j \in Jobs, Wait(w, j) PROVE TeardownCollects'
    BY <2>5 DEF Wait
  <2>6. ASSUME NEW w \in Waiters, WaitTimesOut(w) PROVE TeardownCollects'
    BY <2>6 DEF WaitTimesOut
  <2>7. ASSUME NEW w \in Waiters, WaitAborts(w) PROVE TeardownCollects'
    BY <2>7 DEF WaitAborts
  <2>8. ASSUME NEW w \in Waiters, WaitResumes(w) PROVE TeardownCollects'
    BY <2>8 DEF WaitResumes
  <2>9. ASSUME NEW o \in Agents, NEW failing \in SUBSET Jobs, DisposeOwner(o, failing) PROVE TeardownCollects'
    BY <2>9, UnownedAssumption
       DEF DisposeOwner, OwnedBy, CancelForTeardown, Forced, Owners, Active, Terminal
  <2>10. ASSUME NEW o \in Agents, OwnerDrained(o) PROVE TeardownCollects'
    BY <2>10 DEF OwnerDrained, AllSettled, Active, Terminal
  <2>11. ASSUME NEW failing \in SUBSET Jobs, DisposeService(failing) PROVE TeardownCollects'
    BY <2>11 DEF DisposeService, CancelForTeardown, Forced, Owners, Active, Terminal
  <2>12. CASE ServiceDrained
    BY <2>12 DEF ServiceDrained, AllSettled, Active, Terminal
  <2>13. CASE UNCHANGED vars
    BY <2>13
  <2> QED
    BY <2>1, <2>2, <2>3, <2>4, <2>5, <2>6, <2>7, <2>8, <2>9, <2>10, <2>11, <2>12, <2>13 DEF Next
<1> QED
  BY <1>1, <1>2, TypeCorrect, PTL DEF Spec

\* Teardown is complete when it says so, also for jobs whose cancel threw.
THEOREM TeardownComplete == Spec => []NothingOutlivesTeardown
<1>1. TypeOK /\ TeardownCollects => NothingOutlivesTeardown
  BY DEF TypeOK, TeardownCollects, NothingOutlivesTeardown
<1> QED
  BY <1>1, TypeCorrect, TeardownCollectsInductive, PTL

-----------------------------------------------------------------------------
\* The limit.

\* No owner has more unfinished jobs than maxConcurrentJobsPerOwner allows; the jobs
\* being stopped count until their producer settles.
WithinLimit == \A o \in Owners : IsFiniteSet(ActiveOf(o)) /\ Cardinality(ActiveOf(o)) <= Limit

\* Every step but Start only takes jobs out of the active set of an owner.
LEMMA OnlyStartActivates ==
  ASSUME TypeOK, [Next]_vars, NEW o \in Owners
  PROVE  \/ ActiveOf(o)' \subseteq ActiveOf(o)
         \/ /\ Cardinality(ActiveOf(o)) < Limit
            /\ \E j \in Jobs : ActiveOf(o)' = ActiveOf(o) \cup {j}
<1> USE DEF TypeOK
<1>1. ASSUME NEW j \in Jobs, NEW p \in Owners, Start(j, p)
      PROVE  IF p = o THEN ActiveOf(o)' = ActiveOf(o) \cup {j} /\ Cardinality(ActiveOf(o)) < Limit
                      ELSE ActiveOf(o)' \subseteq ActiveOf(o)
  BY <1>1 DEF Start, ActiveOf, Active
<1>2. ASSUME NEW j \in Jobs, NEW end \in Terminal, ProducerDone(j, end) PROVE ActiveOf(o)' \subseteq ActiveOf(o)
  BY <1>2 DEF ProducerDone, Settle, Unsettled, Active, Terminal, ActiveOf
<1>3. ASSUME NEW j \in Jobs, Kill(j) PROVE ActiveOf(o)' \subseteq ActiveOf(o)
  BY <1>3 DEF Kill, Expect, Active, Terminal, ActiveOf
<1>4. ASSUME NEW j \in Jobs, Read(j) PROVE ActiveOf(o)' \subseteq ActiveOf(o)
  BY <1>4 DEF Read, ActiveOf
<1>5. ASSUME NEW w \in Waiters, NEW j \in Jobs, Wait(w, j) PROVE ActiveOf(o)' \subseteq ActiveOf(o)
  BY <1>5 DEF Wait, ActiveOf
<1>6. ASSUME NEW w \in Waiters, WaitTimesOut(w) PROVE ActiveOf(o)' \subseteq ActiveOf(o)
  BY <1>6 DEF WaitTimesOut, ActiveOf
<1>7. ASSUME NEW w \in Waiters, WaitAborts(w) PROVE ActiveOf(o)' \subseteq ActiveOf(o)
  BY <1>7 DEF WaitAborts, ActiveOf
<1>8. ASSUME NEW w \in Waiters, WaitResumes(w) PROVE ActiveOf(o)' \subseteq ActiveOf(o)
  BY <1>8 DEF WaitResumes, ActiveOf
<1>9. ASSUME NEW p \in Agents, NEW failing \in SUBSET Jobs, DisposeOwner(p, failing) PROVE ActiveOf(o)' \subseteq ActiveOf(o)
  BY <1>9 DEF DisposeOwner, OwnedBy, CancelForTeardown, Forced, ActiveOf, Active, Terminal
<1>10. ASSUME NEW p \in Agents, OwnerDrained(p) PROVE ActiveOf(o)' \subseteq ActiveOf(o)
  BY <1>10 DEF OwnerDrained, ActiveOf
<1>11. ASSUME NEW failing \in SUBSET Jobs, DisposeService(failing) PROVE ActiveOf(o)' \subseteq ActiveOf(o)
  BY <1>11 DEF DisposeService, CancelForTeardown, Forced, ActiveOf, Active, Terminal
<1>12. CASE ServiceDrained
  BY <1>12 DEF ServiceDrained, ActiveOf
<1>13. CASE UNCHANGED vars
  BY <1>13 DEF ActiveOf
<1> QED
  BY <1>1, <1>2, <1>3, <1>4, <1>5, <1>6, <1>7, <1>8, <1>9, <1>10, <1>11, <1>12, <1>13 DEF Next

\* start refuses the job beyond the limit, and no other step activates one.
THEOREM LimitKept == Spec => []WithinLimit
<1>1. Init => WithinLimit
  <2> SUFFICES ASSUME Init, NEW o \in Owners PROVE IsFiniteSet(ActiveOf(o)) /\ Cardinality(ActiveOf(o)) <= Limit
    BY DEF WithinLimit
  <2>1. ActiveOf(o) = {}
    BY DEF Init, ActiveOf
  <2> QED
    BY <2>1, FS_EmptySet, LimitAssumption
<1>2. TypeOK /\ WithinLimit /\ [Next]_vars => WithinLimit'
  <2> SUFFICES ASSUME TypeOK, WithinLimit, [Next]_vars, NEW o \in Owners
               PROVE  IsFiniteSet(ActiveOf(o)') /\ Cardinality(ActiveOf(o)') <= Limit
    BY DEF WithinLimit
  <2>1. IsFiniteSet(ActiveOf(o)) /\ Cardinality(ActiveOf(o)) \in Nat /\ Cardinality(ActiveOf(o)) <= Limit
    BY FS_CardinalityType DEF WithinLimit
  <2>2. CASE ActiveOf(o)' \subseteq ActiveOf(o)
    <3>1. IsFiniteSet(ActiveOf(o)') /\ Cardinality(ActiveOf(o)') <= Cardinality(ActiveOf(o))
      BY <2>1, <2>2, FS_Subset
    <3>2. Cardinality(ActiveOf(o)') \in Nat
      BY <3>1, FS_CardinalityType
    <3> QED
      BY <2>1, <3>1, <3>2, LimitAssumption
  <2>3. ASSUME Cardinality(ActiveOf(o)) < Limit,
               NEW j \in Jobs, ActiveOf(o)' = ActiveOf(o) \cup {j}
        PROVE  IsFiniteSet(ActiveOf(o)') /\ Cardinality(ActiveOf(o)') <= Limit
    <3>1. IsFiniteSet(ActiveOf(o)') /\ (\/ Cardinality(ActiveOf(o)') = Cardinality(ActiveOf(o))
                                        \/ Cardinality(ActiveOf(o)') = Cardinality(ActiveOf(o)) + 1)
      BY <2>1, <2>3, FS_AddElement
    <3> QED
      BY <2>1, <2>3, <3>1, LimitAssumption
  <2> QED
    BY <2>2, <2>3, OnlyStartActivates
<1> QED
  BY <1>1, <1>2, TypeCorrect, PTL DEF Spec

=============================================================================
