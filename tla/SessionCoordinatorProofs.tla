----------------------- MODULE SessionCoordinatorProofs -----------------------
\* Proofs of the safety properties of SessionCoordinator, from the invariants of SessionCoordinatorInvariants.
EXTENDS SessionCoordinatorInvariants, TLAPS, FiniteSetTheorems, SequenceTheorems

--------
\* Values and their types.

LEMMA ConstantsTyped ==
  /\ Absent \in Artifacts
  /\ NoSession \in SessionRecords
  /\ NoState \in States
  /\ NoEntry \in Entries
  /\ NoCall \in CallRecords
<1>1. <<>> \in Logs BY EmptySeq DEF Logs
<1>2. Absent \in Artifacts BY <1>1 DEF Absent, Artifacts
<1>3. Nobody \in Owners BY DEF Owners
<1> QED
  BY <1>1, <1>2, <1>3 DEF NoSession, SessionRecords, Lives, NoState, States, NoEntry, Entries, Phases, NoCall, CallRecords,
     Methods, Points

LEMMA BalancedTyped ==
  ASSUME NEW src \in Artifacts
  PROVE  Balanced(src) \in Logs /\ Repaired(src) \in Artifacts /\ Closers(src) \in Logs
<1>1. src.log \in Logs BY DEF Artifacts
<1>2. <<Closer>> \in Logs /\ <<>> \in Logs BY DEF Logs, Closer
<1>3. Closers(src) \in Logs BY <1>2 DEF Closers
<1>4. Balanced(src) \in Logs BY <1>1, <1>3, ConcatProperties DEF Balanced, Logs
<1> QED BY <1>3, <1>4 DEF Repaired, Artifacts

LEMMA LogsTyped ==
  ASSUME NEW s \in Logs, NEW t \in Logs, NEW m \in Nat, NEW n \in Nat
  PROVE  s \o t \in Logs /\ Len(s) \in Nat /\ (n <= Len(s) => SubSeq(s, m + 1, n) \in Logs)
<1>1. s \o t \in Logs /\ Len(s) \in Nat BY ConcatProperties, LenProperties DEF Logs
<1>2. ASSUME n <= Len(s) PROVE SubSeq(s, m + 1, n) \in Logs BY <1>1, <1>2, SubSeqProperties DEF Logs
<1> QED BY <1>1, <1>2

\* A call record that changes its place.
LEMMA CallTyped ==
  ASSUME NEW r \in CallRecords, NEW pc \in Points, NEW a \in Artifacts, NEW g \in Nat, NEW o \in Owners, NEW u \in Nat
  PROVE  /\ [r EXCEPT !.pc = pc] \in CallRecords
         /\ [r EXCEPT !.pc = pc, !.src = a] \in CallRecords
         /\ [r EXCEPT !.pc = pc, !.awaits = o] \in CallRecords
         /\ [r EXCEPT !.pc = pc, !.awaits = o, !.upto = u] \in CallRecords
         /\ [r EXCEPT !.pc = pc, !.awaits = o, !.gen = g, !.src = a] \in CallRecords
         /\ [r EXCEPT !.gen = g, !.src = a, !.pc = pc] \in CallRecords
         /\ [r EXCEPT !.pc = pc, !.gen = g] \in CallRecords
         /\ [r EXCEPT !.aborted = TRUE] \in CallRecords
BY DEF CallRecords

LEMMA OverTyped ==
  ASSUME call \in [Callers -> CallRecords], NEW c \in Callers, NEW pc \in Points, NEW fresh \in BOOLEAN
  PROVE  Over(c, pc, fresh) \in [Callers -> CallRecords]
<1>1. [NoCall EXCEPT !.pc = pc, !.fresh = fresh] \in CallRecords BY ConstantsTyped DEF CallRecords
<1> QED BY <1>1 DEF Over

LEMMA SettledTyped ==
  ASSUME NEW cs \in [Callers -> CallRecords], NEW g
  PROVE  Settled(cs, g) \in [Callers -> CallRecords]
<1>1. \A c \in Callers : [cs[c] EXCEPT !.pc = "turn"] \in CallRecords BY DEF CallRecords, Points
<1> QED BY <1>1 DEF Settled

LEMMA AgainTyped ==
  ASSUME call \in [Callers -> CallRecords], retiring \in Owners, NEW c \in Callers
  PROVE  Again(c) \in [Callers -> CallRecords]
<1>1. [call[c] EXCEPT !.pc = "retirement", !.awaits = retiring, !.gen = 0, !.src = Absent] \in CallRecords
  BY Zenon, CallTyped, ConstantsTyped DEF Points
<1>2. Failed(c) \in [Callers -> CallRecords] BY OverTyped DEF Failed, Points
<1>3. [call EXCEPT ![c].pc = "retirement", ![c].awaits = retiring, ![c].gen = 0, ![c].src = Absent] =
        [call EXCEPT ![c] = [call[c] EXCEPT !.pc = "retirement", !.awaits = retiring, !.gen = 0, !.src = Absent]]
  OBVIOUS
<1> QED BY <1>1, <1>2, <1>3 DEF Again

LEMMA AwaitsFlushTyped ==
  ASSUME call \in [Callers -> CallRecords], sess \in [Sessions -> SessionRecords], NEW c \in Callers, NEW k \in Sessions
  PROVE  AwaitsFlush(c, k) \in [Callers -> CallRecords]
<1>1. Len(sess[k].log) \in Nat BY LogsTyped DEF SessionRecords
<1>2. [call[c] EXCEPT !.pc = "flush", !.awaits = k, !.upto = Len(sess[k].log)] \in CallRecords
  BY Zenon, <1>1, CallTyped, ConstantsTyped DEF Points, Owners
<1> QED BY <1>2 DEF AwaitsFlush

LEMMA JobTyped ==
  ASSUME NEW kind \in OfCalls \cup OfSessions, NEW who \in Callers \cup Sessions, NEW g \in Nat, NEW u \in Nat, NEW a \in Artifacts
  PROVE  /\ Job(kind, who) \in JobRecords
         /\ [Job(kind, who) EXCEPT !.gen = g] \in JobRecords
         /\ [Job(kind, who) EXCEPT !.upto = u] \in JobRecords
         /\ [Job(kind, who) EXCEPT !.src = a] \in JobRecords
         /\ [Job(kind, who) EXCEPT !.upto = u, !.src = a] \in JobRecords
BY ConstantsTyped DEF Job, JobRecords, Stages

LEMMA StageTyped ==
  ASSUME chain \in Seq(JobRecords), chain # <<>>, NEW stage \in Stages, NEW src \in Artifacts
  PROVE  /\ AtStage(stage, src) \in Seq(JobRecords)
         /\ Len(AtStage(stage, src)) = Len(chain)
         /\ AtStage(stage, src)[1] = [chain[1] EXCEPT !.stage = stage, !.src = src]
         /\ \A i \in 2 .. Len(chain) : AtStage(stage, src)[i] = chain[i]
<1>1. Len(chain) \in Nat /\ 1 \in 1 .. Len(chain) BY LenProperties, EmptySeq
<1>2. chain[1] \in JobRecords BY <1>1, ElementOfSeq
<1>3. [chain[1] EXCEPT !.stage = stage, !.src = src] \in JobRecords BY <1>2 DEF JobRecords
<1>4. AtStage(stage, src) = [chain EXCEPT ![1] = [chain[1] EXCEPT !.stage = stage, !.src = src]] BY DEF AtStage
<1>5. AtStage(stage, src) \in Seq(JobRecords) /\ Len(AtStage(stage, src)) = Len(chain) BY <1>1, <1>3, <1>4, ExceptSeq
<1> QED BY <1>1, <1>4, <1>5

--------
\* The queue.

LEMMA TailIs ==
  ASSUME NEW S, NEW ch \in Seq(S), ch # <<>>
  PROVE  /\ Tail(ch) \in Seq(S) /\ Len(ch) \in Nat \ {0} /\ Len(Tail(ch)) = Len(ch) - 1
         /\ ch[1] \in S
         /\ \A i \in 1 .. Len(ch) - 1 : Tail(ch)[i] = ch[i + 1]
<1>1. Len(ch) \in Nat /\ Len(ch) # 0 /\ 1 \in 1 .. Len(ch) BY LenProperties, EmptySeq
<1>2. ch[1] \in S BY <1>1, ElementOfSeq
<1> QED BY <1>1, <1>2, HeadTailProperties

LEMMA AppendIs ==
  ASSUME NEW S, NEW ch \in Seq(S), NEW j \in S
  PROVE  /\ Append(ch, j) \in Seq(S) /\ Len(ch) \in Nat /\ Len(Append(ch, j)) = Len(ch) + 1
         /\ Append(ch, j)[Len(ch) + 1] = j
         /\ \A i \in 1 .. Len(ch) : Append(ch, j)[i] = ch[i]
BY AppendProperties, LenProperties

LEMMA QueuePop ==
  ASSUME NEW ch \in Seq(JobRecords), ch # <<>>, NEW e, NEW cs, NEW ss, NEW o, Queue(ch, e, cs, ss, o)
  PROVE  /\ Queue(Tail(ch), e, cs, ss, o)
         /\ JobOK(ch[1], e, cs, ss, o)
         /\ \A i \in 1 .. Len(Tail(ch)) : PairOK(ch[1], Tail(ch)[i], e.gen) /\ Tail(ch)[i].stage = "queued"
<1>1. Len(ch) \in Nat \ {0} /\ Len(Tail(ch)) = Len(ch) - 1 /\ \A i \in 1 .. Len(ch) - 1 : Tail(ch)[i] = ch[i + 1]
  BY TailIs
<1>2. \A i \in 1 .. Len(ch) : JobOK(ch[i], e, cs, ss, o) BY DEF Queue
<1>3. \A i \in 1 .. Len(ch), j \in 1 .. Len(ch) : i < j => PairOK(ch[i], ch[j], e.gen) /\ ch[j].stage = "queued"
  BY DEF Queue
<1>4. \A i \in 1 .. Len(Tail(ch)) : JobOK(Tail(ch)[i], e, cs, ss, o) BY <1>1, <1>2
<1>5. \A i \in 1 .. Len(Tail(ch)), j \in 1 .. Len(Tail(ch)) :
        i < j => PairOK(Tail(ch)[i], Tail(ch)[j], e.gen) /\ Tail(ch)[j].stage = "queued"
  <2> SUFFICES ASSUME NEW i \in 1 .. Len(Tail(ch)), NEW j \in 1 .. Len(Tail(ch)), i < j
               PROVE  PairOK(Tail(ch)[i], Tail(ch)[j], e.gen) /\ Tail(ch)[j].stage = "queued"
    OBVIOUS
  <2>1. i + 1 \in 1 .. Len(ch) /\ j + 1 \in 1 .. Len(ch) /\ i + 1 < j + 1 BY <1>1
  <2>2. Tail(ch)[i] = ch[i + 1] /\ Tail(ch)[j] = ch[j + 1] BY <1>1
  <2>3. PairOK(ch[i + 1], ch[j + 1], e.gen) /\ ch[j + 1].stage = "queued" BY <1>3, <2>1
  <2> QED BY <2>2, <2>3
<1>6. \A i \in 1 .. Len(Tail(ch)) : PairOK(ch[1], Tail(ch)[i], e.gen) /\ Tail(ch)[i].stage = "queued"
  <2> SUFFICES ASSUME NEW i \in 1 .. Len(Tail(ch))
               PROVE  PairOK(ch[1], Tail(ch)[i], e.gen) /\ Tail(ch)[i].stage = "queued"
    OBVIOUS
  <2>1. i + 1 \in 1 .. Len(ch) /\ 1 \in 1 .. Len(ch) /\ 1 < i + 1 BY <1>1
  <2>2. Tail(ch)[i] = ch[i + 1] BY <1>1
  <2> QED BY <1>3, <2>1, <2>2
<1> QED BY <1>1, <1>2, <1>4, <1>5, <1>6 DEF Queue

LEMMA QueuePush ==
  ASSUME NEW ch \in Seq(JobRecords), NEW j \in JobRecords, NEW e, NEW cs, NEW ss, NEW o, Queue(ch, e, cs, ss, o),
         JobOK(j, e, cs, ss, o), j.stage = "queued", \A i \in 1 .. Len(ch) : PairOK(ch[i], j, e.gen)
  PROVE  Queue(Append(ch, j), e, cs, ss, o)
<1> DEFINE q == Append(ch, j)
<1>1. Len(ch) \in Nat /\ Len(q) = Len(ch) + 1 /\ q[Len(ch) + 1] = j /\ \A i \in 1 .. Len(ch) : q[i] = ch[i]
  BY AppendIs
<1> HIDE DEF q
<1>2. \A i \in 1 .. Len(q) : i = Len(ch) + 1 \/ i \in 1 .. Len(ch) BY <1>1
<1>3. \A i \in 1 .. Len(q) : JobOK(q[i], e, cs, ss, o) BY <1>1, <1>2 DEF Queue
<1>4. ASSUME NEW i \in 1 .. Len(q), NEW l \in 1 .. Len(q), i < l
      PROVE  PairOK(q[i], q[l], e.gen) /\ q[l].stage = "queued"
  <2>1. i \in 1 .. Len(ch) BY <1>1, <1>4
  <2>2. CASE l = Len(ch) + 1 BY <1>1, <2>1, <2>2
  <2>3. CASE l \in 1 .. Len(ch) BY <1>1, <1>4, <2>1, <2>3 DEF Queue
  <2> QED BY <1>2, <2>2, <2>3
<1>5. Queue(q, e, cs, ss, o) BY <1>3, <1>4 DEF Queue
<1> QED BY <1>5 DEF q

LEMMA QueueStage ==
  ASSUME NEW ch \in Seq(JobRecords), NEW q \in Seq(JobRecords), ch # <<>>, NEW e, NEW cs, NEW ss, NEW o,
         Queue(ch, e, cs, ss, o), Len(q) = Len(ch), \A i \in 2 .. Len(ch) : q[i] = ch[i],
         q[1].kind = ch[1].kind, q[1].who = ch[1].who, q[1].gen = ch[1].gen, JobOK(q[1], e, cs, ss, o)
  PROVE  Queue(q, e, cs, ss, o)
<1>1. Len(ch) \in Nat \ {0} BY TailIs
<1>2. \A i \in 1 .. Len(q) : i = 1 \/ i \in 2 .. Len(ch) BY <1>1
<1>3. \A i \in 1 .. Len(q) : JobOK(q[i], e, cs, ss, o) BY <1>1, <1>2 DEF Queue
<1>4. ASSUME NEW i \in 1 .. Len(q), NEW l \in 1 .. Len(q), i < l
      PROVE  PairOK(q[i], q[l], e.gen) /\ q[l].stage = "queued"
  <2>1. l \in 2 .. Len(ch) /\ q[l] = ch[l] /\ i \in 1 .. Len(ch) /\ l \in 1 .. Len(ch) BY <1>1, <1>4
  <2>2. PairOK(ch[i], ch[l], e.gen) /\ ch[l].stage = "queued" BY <1>4, <2>1 DEF Queue
  <2>3. CASE i = 1 BY <2>1, <2>2, <2>3 DEF PairOK
  <2>4. CASE i \in 2 .. Len(ch) BY <2>1, <2>2, <2>4
  <2> QED BY <1>2, <2>3, <2>4
<1> QED BY <1>3, <1>4 DEF Queue

\* The queue under a change of what it is queued for.
LEMMA QueueChange ==
  ASSUME NEW ch, NEW e, NEW cs, NEW ss, NEW o, Queue(ch, e, cs, ss, o), NEW f, NEW ds, NEW ts, NEW p,
         \A i \in 1 .. Len(ch) : JobOK(ch[i], f, ds, ts, p),
         f.gen # e.gen => \A i \in 1 .. Len(ch) : ch[i].kind = "load" => ch[i].gen # f.gen
  PROVE  Queue(ch, f, ds, ts, p)
<1>1. ASSUME NEW i \in 1 .. Len(ch), NEW j \in 1 .. Len(ch), i < j
      PROVE  PairOK(ch[i], ch[j], f.gen) /\ ch[j].stage = "queued"
  <2>1. PairOK(ch[i], ch[j], e.gen) /\ ch[j].stage = "queued" BY <1>1 DEF Queue
  <2>2. ch[i].kind = "load" /\ ch[i].gen = f.gen => f.gen = e.gen OBVIOUS
  <2> QED BY <2>1, <2>2 DEF PairOK
<1> QED BY <1>1 DEF Queue

\* Callers without a job may go anywhere.
LEMMA QueueCalls ==
  ASSUME NEW ch, NEW e, NEW cs, NEW ss, NEW o, Queue(ch, e, cs, ss, o), NEW ds,
         \A i \in 1 .. Len(ch) : ch[i].kind \in Awaited =>
           ds[ch[i].who].pc = cs[ch[i].who].pc /\ ds[ch[i].who].gen = cs[ch[i].who].gen
  PROVE  Queue(ch, e, ds, ss, o)
<1>1. ASSUME NEW i \in 1 .. Len(ch) PROVE JobOK(ch[i], e, ds, ss, o)
  <2>1. JobOK(ch[i], e, cs, ss, o) BY DEF Queue
  <2> QED BY <2>1 DEF JobOK, Awaited
<1> QED BY <1>1, QueueChange

\* The entry may leave.
LEMMA QueueDrop ==
  ASSUME NEW ch, NEW e, NEW cs, NEW ss, NEW o, Queue(ch, e, cs, ss, o)
  PROVE  Queue(ch, NoEntry, cs, ss, o)
<1>1. ASSUME NEW i \in 1 .. Len(ch) PROVE JobOK(ch[i], NoEntry, cs, ss, o) /\ (ch[i].kind = "load" => ch[i].gen # 0)
  <2>1. JobOK(ch[i], e, cs, ss, o) BY DEF Queue
  <2> QED BY <2>1 DEF JobOK, NoEntry
<1>2. NoEntry.gen = 0 BY DEF NoEntry
<1> QED BY <1>1, <1>2, QueueChange

\* A caller that awaits nothing has no job.
LEMMA NoJobOf ==
  ASSUME NEW ch, NEW e, NEW cs, NEW ss, NEW o, Queue(ch, e, cs, ss, o), NEW c, cs[c].pc \notin Awaited, cs[c].pc # "over"
  PROVE  \A i \in 1 .. Len(ch) : ch[i].kind \in Awaited => ch[i].who # c
<1> SUFFICES ASSUME NEW i \in 1 .. Len(ch), ch[i].kind \in Awaited, ch[i].who = c PROVE FALSE OBVIOUS
<1>1. JobOK(ch[i], e, cs, ss, o) BY DEF Queue
<1> QED BY <1>1 DEF JobOK

--------
\* Moves of the pool.

\* The first job, which is no load, is over.
LEMMA PoolPop ==
  ASSUME NEW e, NEW cs, NEW ch, NEW ss, NEW o, Pool(e, cs, ch, ss, o), ch # <<>>, ch[1].kind # "load"
  PROVE  Pool(e, cs, Tail(ch), ss, o)
<1>1. ch \in Seq(JobRecords) /\ Queue(ch, e, cs, ss, o) /\ Loads(ch, e, cs) BY DEF Pool
<1>2. /\ Tail(ch) \in Seq(JobRecords) /\ Len(ch) \in Nat \ {0} /\ Len(Tail(ch)) = Len(ch) - 1
      /\ \A i \in 1 .. Len(ch) - 1 : Tail(ch)[i] = ch[i + 1]
  BY <1>1, TailIs
<1>3. Queue(Tail(ch), e, cs, ss, o) BY <1>1, QueuePop
<1>4. ASSUME NEW g, LoadOf(ch, g) PROVE LoadOf(Tail(ch), g)
  <2>1. PICK i \in 1 .. Len(ch) : ch[i].kind = "load" /\ ch[i].gen = g BY <1>4 DEF LoadOf
  <2>2. i - 1 \in 1 .. Len(ch) - 1 BY <1>2, <2>1
  <2>3. Tail(ch)[i - 1] = ch[i] BY <1>2, <2>2
  <2> QED BY <1>2, <2>1, <2>2, <2>3 DEF LoadOf
<1>5. Loads(Tail(ch), e, cs) BY <1>1, <1>4 DEF Loads
<1> QED BY <1>2, <1>3, <1>5 DEF Pool

\* A job is queued.
LEMMA PoolPush ==
  ASSUME NEW e, NEW cs, NEW ch, NEW ss, NEW o, Pool(e, cs, ch, ss, o), NEW j \in JobRecords,
         JobOK(j, e, cs, ss, o), j.stage = "queued", \A i \in 1 .. Len(ch) : PairOK(ch[i], j, e.gen)
  PROVE  Pool(e, cs, Append(ch, j), ss, o)
<1>1. ch \in Seq(JobRecords) /\ Queue(ch, e, cs, ss, o) /\ Loads(ch, e, cs) BY DEF Pool
<1>2. /\ Append(ch, j) \in Seq(JobRecords) /\ Len(ch) \in Nat /\ Len(Append(ch, j)) = Len(ch) + 1
      /\ \A i \in 1 .. Len(ch) : Append(ch, j)[i] = ch[i]
  BY <1>1, AppendIs
<1>3. Queue(Append(ch, j), e, cs, ss, o) BY <1>1, QueuePush
<1>4. \A g : LoadOf(ch, g) => LoadOf(Append(ch, j), g) BY <1>2 DEF LoadOf
<1>5. Loads(Append(ch, j), e, cs) BY <1>1, <1>4 DEF Loads
<1> QED BY <1>2, <1>3, <1>5 DEF Pool

\* The first job goes on.
LEMMA PoolStage ==
  ASSUME NEW e, NEW cs, NEW ch, NEW ss, NEW o, Pool(e, cs, ch, ss, o), ch # <<>>, NEW q \in Seq(JobRecords),
         Len(q) = Len(ch), \A i \in 2 .. Len(ch) : q[i] = ch[i],
         q[1].kind = ch[1].kind, q[1].who = ch[1].who, q[1].gen = ch[1].gen, JobOK(q[1], e, cs, ss, o)
  PROVE  Pool(e, cs, q, ss, o)
<1>1. ch \in Seq(JobRecords) /\ Queue(ch, e, cs, ss, o) /\ Loads(ch, e, cs) BY DEF Pool
<1>2. Queue(q, e, cs, ss, o) BY <1>1, QueueStage
<1>3. Len(ch) \in Nat \ {0} BY <1>1, TailIs
<1>4. \A i \in 1 .. Len(ch) : q[i].kind = ch[i].kind /\ q[i].gen = ch[i].gen
  <2> SUFFICES ASSUME NEW i \in 1 .. Len(ch) PROVE q[i].kind = ch[i].kind /\ q[i].gen = ch[i].gen OBVIOUS
  <2>1. i = 1 \/ i \in 2 .. Len(ch) BY <1>3
  <2> QED BY <2>1
<1>5. \A g : LoadOf(ch, g) => LoadOf(q, g) BY <1>4 DEF LoadOf
<1>6. Loads(q, e, cs) BY <1>1, <1>5 DEF Loads
<1> QED BY <1>2, <1>6 DEF Pool

\* Callers without a job, which neither commit nor hold the entry, leave.
LEMMA PoolLeave ==
  ASSUME NEW e, NEW cs, NEW ch, NEW ss, NEW o, Pool(e, cs, ch, ss, o), NEW ds \in [Callers -> CallRecords],
         MayLeave(e, cs, ch, ss, ds)
  PROVE  Pool(e, ds, ch, ss, o)
<1>0. \A c \in Callers : \/ Stays(c, cs, ds)
                       \/ /\ ds[c].pc \notin Referring /\ Jobless(c, ch)
                          /\ ~CommitsIn(e, cs, c) /\ ~HoldsIn(cs, ss, c)
  BY DEF Quiet, Leaves, MayLeave
<1>1. Queue(ch, e, ds, ss, o)
  <2>1. \A i \in 1 .. Len(ch) : ch[i].kind \in Awaited => ch[i].who \in Callers
    BY DEF Pool, Queue, JobOK, Awaited, OfCalls
  <2>2. Queue(ch, e, cs, ss, o) BY DEF Pool
  <2> QED BY <1>0, <2>1, <2>2, QueueCalls DEF Jobless, Stays
<1>2. Loads(ch, e, ds)
  <2>1. \A c \in Callers : ds[c].pc = "result" => cs[c].pc = "result" /\ ds[c].gen = cs[c].gen
    BY <1>0 DEF Referring, Stays
  <2> QED BY <2>1 DEF Pool, Loads
<1>3. Turns(e, ds, ss)
  <2>1. Turns(e, cs, ss) BY DEF Pool
  <2>2. \A d \in Callers : /\ CommitsIn(e, ds, d) <=> CommitsIn(e, cs, d)
                           /\ HoldsIn(ds, ss, d) <=> HoldsIn(cs, ss, d)
                           /\ ds[d].pc = "settled" => cs[d].pc = "settled" /\ ds[d].gen = cs[d].gen
                           /\ HoldsIn(ds, ss, d) => ds[d].gen = cs[d].gen
    BY <1>0 DEF CommitsIn, HoldsIn, Referring, Stays
  <2> QED BY <2>1, <2>2 DEF Turns
<1>4. Refers(e, ds) BY <1>0 DEF Pool, Refers, Stays
<1>5. EntersOnce(ds, ss)
  <2>1. EntersOnce(cs, ss) BY DEF Pool
  <2>2. \A d \in Callers : ds[d].pc = "entered" => cs[d].pc = "entered" /\ ds[d].awaits = cs[d].awaits
    BY <1>0 DEF Referring, Stays
  <2> QED BY <2>1, <2>2 DEF EntersOnce
<1> QED BY <1>1, <1>2, <1>3, <1>4, <1>5 DEF Pool

\* What settleReservation does.
LEMMA SettledIs ==
  ASSUME NEW cs \in [Callers -> CallRecords], NEW g
  PROVE  /\ Settled(cs, g) \in [Callers -> CallRecords]
         /\ \A c \in Callers : /\ Settled(cs, g)[c].gen = cs[c].gen
                               /\ Settled(cs, g)[c].awaits = cs[c].awaits
                               /\ cs[c].pc = "settled" /\ cs[c].gen = g => Settled(cs, g)[c].pc = "turn"
                               /\ ~(cs[c].pc = "settled" /\ cs[c].gen = g) => Settled(cs, g)[c] = cs[c]
<1>1. \A c \in Callers : /\ [cs[c] EXCEPT !.pc = "turn"].gen = cs[c].gen
                         /\ [cs[c] EXCEPT !.pc = "turn"].awaits = cs[c].awaits
                         /\ [cs[c] EXCEPT !.pc = "turn"].pc = "turn"
  BY DEF CallRecords
<1> QED BY <1>1, SettledTyped DEF Settled

\* The entry leaves, or can be reserved again, when nobody who stays has it; its waiters look again.
LEMMA PoolFree ==
  ASSUME NEW e, NEW cs, NEW ch, NEW ss, NEW o, Pool(e, cs, ch, ss, o), NEW ds \in [Callers -> CallRecords],
         NEW ts \in [Sessions -> SessionRecords], Queue(ch, e, cs, ts, o), EntersOnce(ds, ts),
         \A c \in Callers : Leaves(c, ds, ch) \/ (Stays(c, cs, ds) /\ ~HoldsIn(cs, ts, c)),
         NEW f \in Entries,
         \/ f = NoEntry
         \/ /\ f = [e EXCEPT !.phase = "ready"]
            /\ \E c \in Callers : Leaves(c, ds, ch) /\ (CommitsIn(e, cs, c) \/ HoldsIn(cs, ss, c))
  PROVE  Pool(f, Settled(ds, e.gen), ch, ts, o)
<1> DEFINE ws == Settled(ds, e.gen)
<1>0. \A c \in Callers :
        /\ Leaves(c, ds, ch) => ds[c].pc \notin Referring /\ Jobless(c, ch)
        /\ ~Leaves(c, ds, ch) => Stays(c, cs, ds) /\ ~HoldsIn(cs, ts, c)
  BY DEF Quiet, Leaves
<1>1. /\ ws \in [Callers -> CallRecords]
      /\ \A d \in Callers : /\ ws[d].gen = ds[d].gen
                            /\ ws[d].awaits = ds[d].awaits
                            /\ ds[d].pc = "settled" /\ ds[d].gen = e.gen => ws[d].pc = "turn"
                            /\ ~(ds[d].pc = "settled" /\ ds[d].gen = e.gen) => ws[d] = ds[d]
  BY SettledIs
<1> HIDE DEF ws
<1>2. e \in Entries /\ cs \in [Callers -> CallRecords] /\ Turns(e, cs, ss) BY DEF Pool
<1>3. \A c \in Callers : Leaves(c, ds, ch) => ws[c] = ds[c] BY <1>0, <1>1 DEF Referring
<1>4. \A d \in Callers : ~Leaves(d, ds, ch) =>
        /\ ws[d].gen = cs[d].gen
        /\ ws[d].awaits = cs[d].awaits
        /\ cs[d].pc = "settled" => ws[d].pc = "turn"
        /\ cs[d].pc # "settled" => ws[d].pc = cs[d].pc
  BY <1>0, <1>1, <1>2 DEF Turns, Stays
<1>5. f.phase \in {"none", "ready"} /\ (f = NoEntry \/ (f.gen = e.gen /\ f.phase = "ready" /\ e.phase \in {"committing", "reserved"}))
  <2>1. NoEntry.phase = "none" BY DEF NoEntry
  <2>2. \A c \in Callers : CommitsIn(e, cs, c) \/ HoldsIn(cs, ss, c) => e.phase \in {"committing", "reserved"}
    BY <1>2 DEF Turns
  <2> QED BY <1>2, <2>1, <2>2 DEF Entries
<1>6. \A i \in 1 .. Len(ch) : ch[i].kind \in Awaited =>
        ws[ch[i].who].pc = cs[ch[i].who].pc /\ ws[ch[i].who].gen = cs[ch[i].who].gen
  <2> SUFFICES ASSUME NEW i \in 1 .. Len(ch), ch[i].kind \in Awaited
               PROVE  ws[ch[i].who].pc = cs[ch[i].who].pc /\ ws[ch[i].who].gen = cs[ch[i].who].gen
    OBVIOUS
  <2>1. ch[i].who \in Callers /\ cs[ch[i].who].pc \in Awaited \cup {"over"} BY DEF Queue, JobOK, Awaited, OfCalls
  <2>2. ~Leaves(ch[i].who, ds, ch) BY DEF Jobless, Leaves
  <2> QED BY <1>4, <2>1, <2>2 DEF Awaited
<1>7. Queue(ch, e, ws, ts, o) BY <1>6, QueueCalls
<1>8. Queue(ch, f, ws, ts, o)
  <2>1. CASE f = NoEntry BY <1>7, <2>1, QueueDrop
  <2>2. CASE f # NoEntry
    <3>1. f.gen = e.gen /\ f.phase = "ready" /\ e.phase \in {"committing", "reserved"} BY <1>5, <2>2
    <3>2. ASSUME NEW i \in 1 .. Len(ch) PROVE JobOK(ch[i], f, ws, ts, o)
      <4>1. JobOK(ch[i], e, ws, ts, o) BY <1>7 DEF Queue
      <4>2. ASSUME ch[i].kind = "commit" PROVE FALSE
        <5>1. e.phase = "committing" /\ ws[ch[i].who].pc = "commit" /\ ws[ch[i].who].gen = e.gen /\ ch[i].who \in Callers
          BY <3>1, <4>1, <4>2 DEF JobOK, OfCalls
        <5>2. cs[ch[i].who].pc = "commit" /\ cs[ch[i].who].gen = e.gen BY <1>6, <4>2, <5>1 DEF Awaited
        <5>3. PICK c \in Callers : Leaves(c, ds, ch) /\ CommitsIn(e, cs, c) BY <1>2, <2>2, <5>1 DEF Turns
        <5>4. ch[i].who = c BY <1>2, <5>1, <5>2, <5>3 DEF Turns, CommitsIn
        <5> QED BY <4>2, <5>3, <5>4 DEF Jobless, Leaves, Awaited
      <4> QED BY <3>1, <4>1, <4>2 DEF JobOK, Initial
    <3> QED BY <1>7, <3>1, <3>2, QueueChange
  <2> QED BY <2>1, <2>2
<1>9. Loads(ch, f, ws)
  <2>1. \A d \in Callers : ws[d].pc = "result" => cs[d].pc = "result" /\ ws[d].gen = cs[d].gen
    BY <1>0, <1>3, <1>4 DEF Referring
  <2> QED BY <1>5, <2>1 DEF Pool, Loads
<1>10. \A d \in Callers : ws[d].pc # "settled" /\ ~HoldsIn(ws, ts, d) /\ ~CommitsIn(f, ws, d)
  <2>1. ASSUME NEW d \in Callers, Leaves(d, ds, ch) PROVE ws[d].pc # "settled" /\ ~HoldsIn(ws, ts, d) /\ ~CommitsIn(f, ws, d)
    BY <1>0, <1>3, <2>1 DEF HoldsIn, CommitsIn, Referring
  <2>2. ASSUME NEW d \in Callers, ~Leaves(d, ds, ch) PROVE ws[d].pc # "settled" /\ ~HoldsIn(ws, ts, d) /\ ~CommitsIn(f, ws, d)
    <3>1. ws[d].pc # "settled" /\ ~HoldsIn(ws, ts, d) BY <1>0, <1>4, <2>2 DEF HoldsIn
    <3>2. ASSUME CommitsIn(f, ws, d) PROVE FALSE
      <4>1. cs[d].pc = "commit" /\ cs[d].gen = f.gen BY <1>4, <2>2, <3>2 DEF CommitsIn
      <4>2. cs[d].gen # 0 /\ NoEntry.gen = 0 BY <4>1 DEF Pool, Refers, Referring, NoEntry
      <4>3. f.gen = e.gen /\ CommitsIn(e, cs, d) BY <1>5, <4>1, <4>2 DEF CommitsIn
      <4>4. PICK c \in Callers : Leaves(c, ds, ch) /\ (CommitsIn(e, cs, c) \/ HoldsIn(cs, ss, c)) BY <4>1, <4>2
      <4>5. CommitsIn(e, cs, c) BY <1>2, <4>3, <4>4 DEF Turns
      <4>6. c = d BY <1>2, <4>3, <4>5 DEF Turns
      <4> QED BY <2>2, <4>4, <4>6
    <3> QED BY <3>1, <3>2
  <2> QED BY <2>1, <2>2
<1>11. Turns(f, ws, ts) BY <1>5, <1>10 DEF Turns
<1>12. Refers(f, ws)
  <2>1. \A d \in Callers : ws[d].pc \in Referring => cs[d].pc \in Referring /\ ws[d].gen = cs[d].gen
    <3>1. ASSUME NEW d \in Callers, ws[d].pc \in Referring PROVE cs[d].pc \in Referring /\ ws[d].gen = cs[d].gen
      <4>1. ~Leaves(d, ds, ch) BY <1>0, <1>3, <3>1
      <4> QED BY <1>4, <3>1, <4>1 DEF Referring
    <3> QED BY <3>1
  <2>2. Refers(e, cs) BY DEF Pool
  <2>3. f.phase = "none" \/ f.gen = 0 => f = NoEntry
    <3>1. e.gen = 0 => e = NoEntry BY <2>2 DEF Refers
    <3>2. NoEntry.phase = "none" BY DEF NoEntry
    <3> QED BY <1>5, <3>1, <3>2
  <2> QED BY <2>1, <2>2, <2>3 DEF Refers
<1>13. EntersOnce(ws, ts)
  <2>1. \A d \in Callers : ws[d].pc = "entered" => ds[d].pc = "entered" /\ ws[d].awaits = ds[d].awaits BY <1>1
  <2> QED BY <2>1 DEF EntersOnce
<1>14. ch \in Seq(JobRecords) BY DEF Pool
<1> QED BY <1>1, <1>8, <1>9, <1>11, <1>12, <1>13, <1>14 DEF Pool, ws

LEMMA PoolFreeSame ==
  ASSUME NEW e, NEW cs, NEW ch, NEW ss, NEW o, Pool(e, cs, ch, ss, o), NEW ds \in [Callers -> CallRecords],
         \A c \in Callers : Leaves(c, ds, ch) \/ (Stays(c, cs, ds) /\ ~HoldsIn(cs, ss, c)),
         NEW f \in Entries,
         \/ f = NoEntry
         \/ /\ f = [e EXCEPT !.phase = "ready"]
            /\ \E c \in Callers : Leaves(c, ds, ch) /\ (CommitsIn(e, cs, c) \/ HoldsIn(cs, ss, c))
  PROVE  Pool(f, Settled(ds, e.gen), ch, ss, o)
<1>1. ss \in [Sessions -> SessionRecords] /\ Queue(ch, e, cs, ss, o) /\ EntersOnce(cs, ss) BY DEF Pool
<1>2. EntersOnce(ds, ss)
  <2>1. \A c \in Callers : ds[c].pc = "entered" => cs[c].pc = "entered" /\ ds[c].awaits = cs[c].awaits
    BY DEF Leaves, Stays, Quiet, Referring
  <2> QED BY <1>1, <2>1 DEF EntersOnce
<1> QED BY <1>1, <1>2, PoolFree

\* Sessions change as the queue allows, and not those that a holder entered.
LEMMA PoolSess ==
  ASSUME NEW e, NEW cs, NEW ch, NEW ss, NEW o, Pool(e, cs, ch, ss, o), NEW ts \in [Sessions -> SessionRecords], NEW p,
         Queue(ch, e, cs, ts, p),
         \A c \in Callers : cs[c].pc = "entered" => ts[cs[c].awaits].life = ss[cs[c].awaits].life
  PROVE  Pool(e, cs, ch, ts, p)
<1>1. \A c \in Callers : HoldsIn(cs, ts, c) <=> HoldsIn(cs, ss, c) BY DEF HoldsIn
<1>2. Turns(e, cs, ts) BY <1>1 DEF Pool, Turns
<1>3. EntersOnce(cs, ts) BY DEF Pool, EntersOnce
<1> QED BY <1>2, <1>3 DEF Pool

LEMMA PoolOwner ==
  ASSUME NEW e, NEW cs, NEW ch, NEW ss, NEW o, Pool(e, cs, ch, ss, o), NEW p,
         \A i \in 1 .. Len(ch) : ch[i].kind = "init" => ch[i].who # p
  PROVE  Pool(e, cs, ch, ss, p)
<1>1. Queue(ch, e, cs, ss, o) BY DEF Pool
<1>2. \A i \in 1 .. Len(ch) : JobOK(ch[i], e, cs, ss, p) BY <1>1 DEF Queue, JobOK
<1>3. Queue(ch, e, cs, ss, p) BY <1>1, <1>2, QueueChange
<1> QED BY <1>3 DEF Pool

--------
\* What the helpers of the model do to the calls.

LEMMA OverIs ==
  ASSUME call \in [Callers -> CallRecords], NEW c \in Callers, NEW pc \in Points, NEW fresh \in BOOLEAN
  PROVE  /\ Over(c, pc, fresh) \in [Callers -> CallRecords]
         /\ Over(c, pc, fresh)[c].pc = pc
         /\ \A d \in Callers : d # c => Over(c, pc, fresh)[d] = call[d]
<1>1. [NoCall EXCEPT !.pc = pc, !.fresh = fresh].pc = pc BY DEF NoCall
<1> QED BY Zenon, <1>1, OverTyped DEF Over

LEMMA FailedIs ==
  ASSUME call \in [Callers -> CallRecords], NEW c \in Callers
  PROVE  /\ Failed(c) \in [Callers -> CallRecords] /\ Ended(c) = Failed(c)
         /\ Failed(c)[c].pc = "over"
         /\ \A d \in Callers : d # c => Failed(c)[d] = call[d]
<1>1. Failed(c) = Over(c, "over", TRUE) /\ Ended(c) = Failed(c) /\ "over" \in Points /\ TRUE \in BOOLEAN
  BY DEF Failed, Ended, Points
<1>2. Over(c, "over", TRUE) \in [Callers -> CallRecords] BY <1>1, OverIs
<1>3. Over(c, "over", TRUE)[c].pc = "over" BY <1>1, OverIs
<1>4. \A d \in Callers : d # c => Over(c, "over", TRUE)[d] = call[d] BY <1>1, OverIs
<1> QED BY <1>1, <1>2, <1>3, <1>4

LEMMA AgainIs ==
  ASSUME call \in [Callers -> CallRecords], retiring \in Owners, NEW c \in Callers
  PROVE  /\ Again(c) \in [Callers -> CallRecords]
         /\ Again(c)[c].pc \in {"over", "retirement"}
         /\ \A d \in Callers : d # c => Again(c)[d] = call[d]
<1>1. CASE call[c].aborted BY <1>1, FailedIs DEF Again
<1>2. CASE ~call[c].aborted
  <2>1. Again(c) = [call EXCEPT ![c] = [call[c] EXCEPT !.pc = "retirement", !.awaits = retiring, !.gen = 0, !.src = Absent]]
    BY <1>2 DEF Again
  <2>2. [call[c] EXCEPT !.pc = "retirement", !.awaits = retiring, !.gen = 0, !.src = Absent].pc = "retirement"
    BY DEF CallRecords
  <2> QED BY <2>1, <2>2, AgainTyped
<1> QED BY <1>1, <1>2

LEMMA AwaitsFlushIs ==
  ASSUME call \in [Callers -> CallRecords], sess \in [Sessions -> SessionRecords], NEW c \in Callers, NEW k \in Sessions
  PROVE  /\ AwaitsFlush(c, k) \in [Callers -> CallRecords]
         /\ AwaitsFlush(c, k)[c].pc = "flush"
         /\ \A d \in Callers : d # c => AwaitsFlush(c, k)[d] = call[d]
<1>1. AwaitsFlush(c, k) = [call EXCEPT ![c] = [call[c] EXCEPT !.pc = "flush", !.awaits = k, !.upto = Len(sess[k].log)]]
  BY DEF AwaitsFlush
<1>2. [call[c] EXCEPT !.pc = "flush", !.awaits = k, !.upto = Len(sess[k].log)].pc = "flush" BY DEF CallRecords
<1> QED BY <1>1, <1>2, AwaitsFlushTyped

LEMMA AtIs ==
  ASSUME call \in [Callers -> CallRecords], NEW c \in Callers, NEW pc \in Points
  PROVE  /\ At(c, pc) \in [Callers -> CallRecords]
         /\ At(c, pc)[c].pc = pc /\ At(c, pc)[c].gen = call[c].gen /\ At(c, pc)[c].awaits = call[c].awaits
         /\ \A d \in Callers : d # c => At(c, pc)[d] = call[d]
<1>1. At(c, pc) = [call EXCEPT ![c] = [call[c] EXCEPT !.pc = pc]] BY DEF At
<1>2. [call[c] EXCEPT !.pc = pc].pc = pc /\ [call[c] EXCEPT !.pc = pc].gen = call[c].gen
      /\ [call[c] EXCEPT !.pc = pc].awaits = call[c].awaits
  BY DEF CallRecords
<1>3. [call[c] EXCEPT !.pc = pc] \in CallRecords BY DEF CallRecords
<1> QED BY <1>1, <1>2, <1>3

\* One caller leaves: ds is call but for c.
LEMMA OneLeaves ==
  ASSUME NEW e, NEW ch, NEW ss, NEW o, Pool(e, call, ch, ss, o), NEW c \in Callers, NEW ds \in [Callers -> CallRecords],
         ds[c].pc \in Quiet, \A d \in Callers : d # c => ds[d] = call[d], Jobless(c, ch),
         ~CommitsIn(e, call, c), ~HoldsIn(call, ss, c)
  PROVE  Pool(e, ds, ch, ss, o)
<1>1. MayLeave(e, call, ch, ss, ds) BY DEF Stays, Leaves, MayLeave
<1> QED BY <1>1, PoolLeave

\* One caller leaves with the entry.
LEMMA OneFrees ==
  ASSUME NEW e, NEW ch, NEW ss, NEW o, Pool(e, call, ch, ss, o), NEW c \in Callers, NEW ds \in [Callers -> CallRecords],
         ds[c].pc \in Quiet, \A d \in Callers : d # c => ds[d] = call[d], Jobless(c, ch),
         \A d \in Callers : d # c => ~HoldsIn(call, ss, d)
  PROVE  /\ Pool(NoEntry, Settled(ds, e.gen), ch, ss, o)
         /\ CommitsIn(e, call, c) \/ HoldsIn(call, ss, c) =>
              Pool([e EXCEPT !.phase = "ready"], Settled(ds, e.gen), ch, ss, o)
<1>1. \A d \in Callers : Leaves(d, ds, ch) \/ (Stays(d, call, ds) /\ ~HoldsIn(call, ss, d)) BY DEF Stays, Leaves
<1>2. Leaves(c, ds, ch) BY DEF Leaves
<1>3. [e EXCEPT !.phase = "ready"] \in Entries BY DEF Pool, Entries, Phases
<1>4. Pool(NoEntry, Settled(ds, e.gen), ch, ss, o) BY <1>1, PoolFreeSame, ConstantsTyped
<1>5. ASSUME CommitsIn(e, call, c) \/ HoldsIn(call, ss, c)
      PROVE  Pool([e EXCEPT !.phase = "ready"], Settled(ds, e.gen), ch, ss, o)
  BY <1>1, <1>2, <1>3, <1>5, PoolFreeSame
<1> QED BY <1>4, <1>5

\* The entry leaves, and nobody else.
LEMMA NoneLeaves ==
  ASSUME NEW e, NEW cs, NEW ch, NEW ss, NEW o, Pool(e, cs, ch, ss, o), e.phase # "reserved"
  PROVE  Pool(NoEntry, Settled(cs, e.gen), ch, ss, o)
<1>1. cs \in [Callers -> CallRecords] /\ Turns(e, cs, ss) BY DEF Pool
<1>2. \A d \in Callers : Leaves(d, cs, ch) \/ (Stays(d, cs, cs) /\ ~HoldsIn(cs, ss, d)) BY <1>1 DEF Stays, Turns
<1> QED BY <1>1, <1>2, PoolFreeSame, ConstantsTyped

LEMMA PoolIs ==
  ASSUME TypeOK, PoolOK
  PROVE  /\ Queue(chain, entry, call, sess, state.owner)
         /\ Loads(chain, entry, call)
         /\ Turns(entry, call, sess)
         /\ Refers(entry, call)
         /\ EntersOnce(call, sess)
         /\ \A c \in Callers : CommitsIn(entry, call, c) <=> call[c].pc = "commit" /\ Current(c)
         /\ \A c \in Callers : HoldsIn(call, sess, c) <=> Holds(c)
BY DEF PoolOK, Pool, CommitsIn, Current, HoldsIn, Holds

\* The first job, once it is popped: its caller has no other.
LEMMA FirstJob ==
  ASSUME TypeOK, PoolOK, chain # <<>>
  PROVE  /\ chain[1] \in JobRecords
         /\ JobOK(chain[1], entry, call, sess, state.owner)
         /\ Tail(chain) \in Seq(JobRecords)
         /\ chain[1].kind \in OfCalls => chain[1].who \in Callers
         /\ chain[1].kind \in OfSessions => chain[1].who \in Sessions
         /\ chain[1].kind \in Awaited => Jobless(chain[1].who, Tail(chain))
         /\ chain[1].kind \in Awaited /\ chain[1].stage # "queued" => call[chain[1].who].pc = chain[1].kind
         /\ chain[1].kind # "load" => Pool(entry, call, Tail(chain), sess, state.owner)
<1>1. chain \in Seq(JobRecords) /\ Queue(chain, entry, call, sess, state.owner) BY PoolIs DEF TypeOK
<1>2. chain[1] \in JobRecords /\ Tail(chain) \in Seq(JobRecords) BY <1>1, TailIs
<1>3. /\ JobOK(chain[1], entry, call, sess, state.owner)
      /\ \A i \in 1 .. Len(Tail(chain)) : PairOK(chain[1], Tail(chain)[i], entry.gen)
  BY <1>1, QueuePop
<1>4. chain[1].kind # "load" => Pool(entry, call, Tail(chain), sess, state.owner) BY PoolPop DEF PoolOK
<1>5. chain[1].kind \in Awaited => Jobless(chain[1].who, Tail(chain)) BY <1>3 DEF PairOK, Jobless
<1> QED BY <1>2, <1>3, <1>4, <1>5 DEF JobOK

--------
\* Moves of one caller at the entry.

\* c, without a job, comes to an entry: it waits for the load or for its turn, or looks.
LEMMA PoolRefer ==
  ASSUME NEW e, NEW cs, NEW ch, NEW ss, NEW o, Pool(e, cs, ch, ss, o), NEW c \in Callers, NEW ds \in [Callers -> CallRecords],
         \A d \in Callers : d # c => ds[d] = cs[d], Jobless(c, ch), ~CommitsIn(e, cs, c), ~HoldsIn(cs, ss, c),
         ds[c].gen = e.gen, e.gen # 0, ds[c].pc \in {"result", "turn", "settled"},
         ds[c].pc = "result" => e.phase = "loading",
         ds[c].pc = "settled" => e.phase \in {"committing", "reserved"}
  PROVE  Pool(e, ds, ch, ss, o)
<1>1. Queue(ch, e, ds, ss, o)
  <2>1. \A i \in 1 .. Len(ch) : ch[i].kind \in Awaited => ch[i].who \in Callers
    BY DEF Pool, Queue, JobOK, Awaited, OfCalls
  <2>2. Queue(ch, e, cs, ss, o) BY DEF Pool
  <2> QED BY <2>1, <2>2, QueueCalls DEF Jobless
<1>2. Loads(ch, e, ds) BY DEF Pool, Loads
<1>3. Turns(e, ds, ss)
  <2>1. Turns(e, cs, ss) BY DEF Pool
  <2>2. \A d \in Callers : /\ CommitsIn(e, ds, d) <=> CommitsIn(e, cs, d)
                           /\ HoldsIn(ds, ss, d) <=> HoldsIn(cs, ss, d)
                           /\ HoldsIn(ds, ss, d) => ds[d].gen = cs[d].gen
    BY DEF CommitsIn, HoldsIn
  <2>3. \A d \in Callers : ds[d].pc = "settled" => ds[d].gen = e.gen /\ e.phase \in {"committing", "reserved"}
    BY <2>1 DEF Turns
  <2> QED BY <2>1, <2>2, <2>3 DEF Turns
<1>4. Refers(e, ds) BY DEF Pool, Refers
<1>5. EntersOnce(ds, ss)
  <2>1. EntersOnce(cs, ss) BY DEF Pool
  <2>2. \A d \in Callers : ds[d].pc = "entered" => d # c OBVIOUS
  <2> QED BY <2>1, <2>2 DEF EntersOnce
<1> QED BY <1>1, <1>2, <1>3, <1>4, <1>5 DEF Pool

\* c gives up, with its job queued: the job will find that out.
LEMMA PoolGiveUp ==
  ASSUME NEW e, NEW cs, NEW ch, NEW ss, NEW o, Pool(e, cs, ch, ss, o), NEW c \in Callers, NEW ds \in [Callers -> CallRecords],
         \A d \in Callers : d # c => ds[d] = cs[d], ds[c].pc = "over", ~CommitsIn(e, cs, c), ~HoldsIn(cs, ss, c),
         \A i \in 1 .. Len(ch) : ch[i].kind \in Awaited /\ ch[i].who = c =>
           ch[i].stage = "queued" /\ ch[i].kind \in {"commit", "check"}
  PROVE  Pool(e, ds, ch, ss, o)
<1>1. Queue(ch, e, ds, ss, o)
  <2>1. Queue(ch, e, cs, ss, o) BY DEF Pool
  <2>2. ASSUME NEW i \in 1 .. Len(ch) PROVE JobOK(ch[i], e, ds, ss, o)
    <3>1. JobOK(ch[i], e, cs, ss, o) BY <2>1 DEF Queue
    <3>2. CASE ch[i].kind \in Awaited /\ ch[i].who = c BY <3>1, <3>2 DEF JobOK, Awaited, CommitsIn, OfCalls, Initial
    <3>3. CASE ~(ch[i].kind \in Awaited /\ ch[i].who = c) BY <3>1, <3>3 DEF JobOK, Awaited, OfCalls, Initial
    <3> QED BY <3>2, <3>3
  <2> QED BY <2>1, <2>2, QueueChange
<1>2. Loads(ch, e, ds) BY DEF Pool, Loads
<1>3. Turns(e, ds, ss)
  <2>1. Turns(e, cs, ss) BY DEF Pool
  <2>2. \A d \in Callers : /\ CommitsIn(e, ds, d) <=> CommitsIn(e, cs, d)
                           /\ HoldsIn(ds, ss, d) <=> HoldsIn(cs, ss, d)
                           /\ HoldsIn(ds, ss, d) => ds[d].gen = cs[d].gen
                           /\ ds[d].pc = "settled" => cs[d].pc = "settled" /\ ds[d].gen = cs[d].gen
    BY DEF CommitsIn, HoldsIn
  <2> QED BY <2>1, <2>2 DEF Turns
<1>4. Refers(e, ds) BY DEF Pool, Refers, Referring
<1>5. EntersOnce(ds, ss)
  <2>1. EntersOnce(cs, ss) BY DEF Pool
  <2>2. \A d \in Callers : ds[d].pc = "entered" => d # c OBVIOUS
  <2> QED BY <2>1, <2>2 DEF EntersOnce
<1> QED BY <1>1, <1>2, <1>3, <1>4, <1>5 DEF Pool

\* The job of a caller that awaits it.
LEMMA PoolAwait ==
  ASSUME NEW e, NEW cs, NEW ch, NEW ss, NEW o, Pool(e, cs, ch, ss, o), NEW c \in Callers, NEW j \in JobRecords,
         j.kind \in {"check", "create", "append"}, j.who = c, j.stage = "queued", cs[c].pc = j.kind, Jobless(c, ch)
  PROVE  Pool(e, cs, Append(ch, j), ss, o)
<1>1. JobOK(j, e, cs, ss, o) BY DEF JobOK, OfCalls, OfSessions, Awaited, Initial
<1>2. \A i \in 1 .. Len(ch) : PairOK(ch[i], j, e.gen) BY DEF PairOK, Jobless, Awaited, Initial
<1> QED BY <1>1, <1>2, PoolPush

\* c, at its turn, begins to commit the ready entry.
LEMMA PoolCommit ==
  ASSUME NEW e, NEW cs, NEW ch, NEW ss, NEW o, Pool(e, cs, ch, ss, o), NEW c \in Callers, NEW ds \in [Callers -> CallRecords],
         \A d \in Callers : d # c => ds[d] = cs[d], Jobless(c, ch), e.phase = "ready", cs[c].pc = "turn",
         ds[c].gen = e.gen, ds[c].pc = "commit",
         NEW j \in JobRecords, j.kind = "commit", j.who = c, j.stage = "queued", j.src = e.src
  PROVE  Pool([e EXCEPT !.phase = "committing"], ds, Append(ch, j), ss, o)
<1> DEFINE f == [e EXCEPT !.phase = "committing"]
<1>0. e \in Entries /\ Turns(e, cs, ss) /\ Queue(ch, e, cs, ss, o) /\ Refers(e, cs) /\ Loads(ch, e, cs) /\ EntersOnce(cs, ss)
  BY DEF Pool
<1>1. f \in Entries /\ f.phase = "committing" /\ f.gen = e.gen /\ f.src = e.src BY <1>0 DEF Entries, Phases
<1>2. e.gen # 0 /\ NoEntry.phase = "none" BY <1>0 DEF Refers, NoEntry
<1> HIDE DEF f
<1>3. Queue(ch, f, ds, ss, o)
  <2>1. ASSUME NEW i \in 1 .. Len(ch) PROVE JobOK(ch[i], f, ds, ss, o)
    <3>1. JobOK(ch[i], e, cs, ss, o) BY <1>0 DEF Queue
    <3>2. ch[i].kind # "commit" /\ ch[i].kind \notin Initial /\ (ch[i].kind \in Awaited => ch[i].who \in Callers /\ ch[i].who # c)
      BY <3>1 DEF JobOK, Jobless, Awaited, OfCalls
    <3> QED BY <1>1, <3>1, <3>2 DEF JobOK, Initial
  <2> QED BY <1>0, <1>1, <2>1, QueueChange
<1>4. Loads(ch, f, ds) BY <1>0, <1>1 DEF Loads
<1>5. \A d \in Callers : ~HoldsIn(cs, ss, d) /\ ~CommitsIn(e, cs, d) /\ cs[d].pc # "settled" BY <1>0 DEF Turns
<1>6. \A d \in Callers : /\ ~HoldsIn(ds, ss, d)
                         /\ CommitsIn(f, ds, d) <=> d = c
                         /\ ds[d].pc # "settled"
  BY <1>1, <1>5 DEF HoldsIn, CommitsIn
<1>7. Turns(f, ds, ss) BY <1>1, <1>6 DEF Turns
<1>8. Refers(f, ds) BY <1>0, <1>1, <1>2 DEF Refers, Referring
<1>9. EntersOnce(ds, ss)
  <2>1. \A d \in Callers : ds[d].pc = "entered" => d # c OBVIOUS
  <2> QED BY <1>0, <2>1 DEF EntersOnce
<1>10. Pool(f, ds, ch, ss, o) BY <1>1, <1>3, <1>4, <1>7, <1>8, <1>9 DEF Pool
<1>11. JobOK(j, f, ds, ss, o) BY <1>1 DEF JobOK, OfCalls, OfSessions, Awaited, Initial
<1>12. ASSUME NEW i \in 1 .. Len(ch) PROVE PairOK(ch[i], j, f.gen)
  <2>1. JobOK(ch[i], e, cs, ss, o) BY <1>0 DEF Queue
  <2>2. ch[i].kind = "load" => ch[i].gen # e.gen BY <2>1 DEF JobOK
  <2> QED BY <1>1, <2>2 DEF PairOK, Jobless, Awaited, Initial
<1> QED BY <1>10, <1>11, <1>12, PoolPush DEF f

\* c, whose commit is over, holds the entry.
LEMMA PoolReserve ==
  ASSUME NEW e, NEW cs, NEW ch, NEW ss, NEW o, Pool(e, cs, ch, ss, o), NEW c \in Callers, NEW ds \in [Callers -> CallRecords],
         \A d \in Callers : d # c => ds[d] = cs[d], Jobless(c, ch), CommitsIn(e, cs, c), ds[c].gen = cs[c].gen,
         ds[c].pc = "reserved"
  PROVE  Pool([e EXCEPT !.phase = "reserved"], ds, ch, ss, o)
<1> DEFINE f == [e EXCEPT !.phase = "reserved"]
<1>0. e \in Entries /\ Turns(e, cs, ss) /\ Queue(ch, e, cs, ss, o) /\ Refers(e, cs) /\ Loads(ch, e, cs) /\ EntersOnce(cs, ss)
  BY DEF Pool
<1>1. f \in Entries /\ f.phase = "reserved" /\ f.gen = e.gen /\ f.src = e.src BY <1>0 DEF Entries, Phases
<1> HIDE DEF f
<1>2. e.phase = "committing" /\ e.gen # 0 /\ cs[c].gen = e.gen BY <1>0 DEF Turns, Refers, NoEntry, CommitsIn
<1>3. Queue(ch, f, ds, ss, o)
  <2>1. ASSUME NEW i \in 1 .. Len(ch) PROVE JobOK(ch[i], f, ds, ss, o)
    <3>1. JobOK(ch[i], e, cs, ss, o) BY <1>0 DEF Queue
    <3>2. ch[i].kind \in Awaited => ch[i].who \in Callers /\ ch[i].who # c
      BY <3>1 DEF JobOK, Jobless, Awaited, OfCalls
    <3>3. ch[i].kind # "commit"
      <4> SUFFICES ASSUME ch[i].kind = "commit" PROVE FALSE OBVIOUS
      <4>1. ch[i].who \in Callers /\ CommitsIn(e, cs, ch[i].who) BY <1>2, <3>1 DEF JobOK, CommitsIn, OfCalls
      <4>2. ch[i].who = c BY <1>0, <4>1 DEF Turns
      <4> QED BY <3>2, <4>2 DEF Awaited
    <3>4. ch[i].kind \notin Initial /\ ~(ch[i].kind = "load" /\ ch[i].gen = e.gen) BY <1>2, <3>1 DEF JobOK
    <3> QED BY <1>1, <3>1, <3>2, <3>3, <3>4 DEF JobOK, Initial
  <2> QED BY <1>0, <1>1, <2>1, QueueChange
<1>4. Loads(ch, f, ds) BY <1>0, <1>1 DEF Loads
<1>5. \A d \in Callers : ~HoldsIn(cs, ss, d) /\ (CommitsIn(e, cs, d) => d = c) BY <1>0, <1>2 DEF Turns
<1>6. \A d \in Callers : /\ HoldsIn(ds, ss, d) <=> d = c
                         /\ ~CommitsIn(f, ds, d)
                         /\ ds[d].pc = "settled" => cs[d].pc = "settled" /\ ds[d].gen = cs[d].gen
  BY <1>1, <1>5 DEF HoldsIn, CommitsIn
<1>7. Turns(f, ds, ss) BY <1>0, <1>1, <1>2, <1>6 DEF Turns
<1>8. Refers(f, ds) BY <1>0, <1>1, <1>2 DEF Refers, Referring
<1>9. EntersOnce(ds, ss)
  <2>1. \A d \in Callers : ds[d].pc = "entered" => d # c OBVIOUS
  <2> QED BY <1>0, <2>1 DEF EntersOnce
<1> QED BY <1>1, <1>3, <1>4, <1>7, <1>8, <1>9 DEF Pool, f

\* c holds the entry and goes on holding it, perhaps by a session that it enters.
LEMMA PoolHold ==
  ASSUME NEW e, NEW cs, NEW ch, NEW ss, NEW o, Pool(e, cs, ch, ss, o), NEW c \in Callers, NEW ds \in [Callers -> CallRecords],
         \A d \in Callers : d # c => ds[d] = cs[d], Jobless(c, ch), HoldsIn(cs, ss, c), ds[c].gen = cs[c].gen,
         ds[c].pc \in {"holding", "entered"}, NEW ts \in [Sessions -> SessionRecords], Queue(ch, e, cs, ts, o),
         \A d \in Callers : d # c /\ cs[d].pc = "entered" => ts[cs[d].awaits].life = ss[cs[d].awaits].life,
         ds[c].pc = "entered" => /\ ds[c].awaits \in Sessions /\ ts[ds[c].awaits].life = "entered"
                                 /\ \A d \in Callers : cs[d].pc = "entered" => cs[d].awaits # ds[c].awaits
  PROVE  Pool(e, ds, ch, ts, o)
<1>0. e \in Entries /\ Turns(e, cs, ss) /\ Refers(e, cs) /\ Loads(ch, e, cs) /\ EntersOnce(cs, ss) BY DEF Pool
<1>1. Queue(ch, e, ds, ts, o)
  <2>1. \A i \in 1 .. Len(ch) : ch[i].kind \in Awaited => ch[i].who \in Callers BY DEF Queue, JobOK, Awaited, OfCalls
  <2> QED BY <2>1, QueueCalls DEF Jobless
<1>2. Loads(ch, e, ds) BY <1>0 DEF Loads
<1>3. \A d \in Callers : /\ HoldsIn(ds, ts, d) <=> HoldsIn(cs, ss, d)
                         /\ CommitsIn(e, ds, d) <=> CommitsIn(e, cs, d)
                         /\ ds[d].gen = cs[d].gen
                         /\ ds[d].pc = "settled" => cs[d].pc = "settled"
  <2>1. \A d \in Callers : d # c => /\ HoldsIn(ds, ts, d) <=> HoldsIn(cs, ss, d)
                                    /\ CommitsIn(e, ds, d) <=> CommitsIn(e, cs, d)
    BY DEF HoldsIn, CommitsIn
  <2>2. HoldsIn(ds, ts, c) /\ ~CommitsIn(e, ds, c) /\ ~CommitsIn(e, cs, c) BY DEF HoldsIn, CommitsIn
  <2> QED BY <2>1, <2>2
<1>4. Turns(e, ds, ts) BY <1>0, <1>3 DEF Turns
<1>5. Refers(e, ds)
  <2>1. cs[c].pc \in Referring BY DEF HoldsIn, Referring
  <2> QED BY <1>0, <2>1 DEF Refers
<1>6. EntersOnce(ds, ts) BY <1>0 DEF EntersOnce
<1> QED BY <1>1, <1>2, <1>4, <1>5, <1>6 DEF Pool

\* c finds the pool empty and makes an entry of a new number.
LEMMA PoolNew ==
  ASSUME NEW cs, NEW ch, NEW ss, NEW o, Pool(NoEntry, cs, ch, ss, o), NEW c \in Callers, NEW ds \in [Callers -> CallRecords],
         \A d \in Callers : d # c => ds[d] = cs[d], Jobless(c, ch), NEW g \in Nat, g # 0,
         \A d \in Callers : cs[d].gen # g, \A i \in 1 .. Len(ch) : ch[i].gen # g,
         ds[c].pc = "result", ds[c].gen = g,
         NEW j \in JobRecords, j.kind = "load", j.who = c, j.stage = "queued", j.gen = g
  PROVE  Pool([gen |-> g, phase |-> "loading", src |-> Absent], ds, Append(ch, j), ss, o)
<1> DEFINE f == [gen |-> g, phase |-> "loading", src |-> Absent]
           q == Append(ch, j)
<1>0. /\ Turns(NoEntry, cs, ss) /\ Queue(ch, NoEntry, cs, ss, o) /\ Refers(NoEntry, cs) /\ Loads(ch, NoEntry, cs)
      /\ EntersOnce(cs, ss) /\ ch \in Seq(JobRecords)
  BY DEF Pool
<1>1. f \in Entries /\ f.phase = "loading" /\ f.gen = g /\ NoEntry.phase = "none" /\ NoEntry.gen = 0
  BY ConstantsTyped DEF Entries, Phases, NoEntry
<1>2. q \in Seq(JobRecords) /\ Len(ch) \in Nat /\ Len(q) = Len(ch) + 1 /\ q[Len(ch) + 1] = j /\ \A i \in 1 .. Len(ch) : q[i] = ch[i]
  BY <1>0, AppendIs
<1> HIDE DEF f
<1>3. Queue(ch, f, ds, ss, o)
  <2>1. ASSUME NEW i \in 1 .. Len(ch) PROVE JobOK(ch[i], f, ds, ss, o)
    <3>1. JobOK(ch[i], NoEntry, cs, ss, o) BY <1>0 DEF Queue
    <3>2. ch[i].kind \in Awaited => ch[i].who \in Callers /\ ch[i].who # c
      BY <3>1 DEF JobOK, Jobless, Awaited, OfCalls
    <3> QED BY <1>1, <3>1, <3>2 DEF JobOK
  <2> QED BY <1>0, <1>1, <2>1, QueueChange
<1>4. Queue(q, f, ds, ss, o)
  <2>1. JobOK(j, f, ds, ss, o) BY <1>1 DEF JobOK, OfCalls, OfSessions, Awaited, Initial
  <2>2. \A i \in 1 .. Len(ch) : PairOK(ch[i], j, f.gen) BY <1>1 DEF PairOK, Awaited, Initial
  <2> QED BY <1>0, <1>3, <2>1, <2>2, QueuePush
<1> HIDE DEF q
<1>5. Loads(q, f, ds)
  <2>1. \A x : LoadOf(ch, x) => LoadOf(q, x) BY <1>2 DEF LoadOf
  <2>2. LoadOf(q, g) BY <1>2 DEF LoadOf
  <2> QED BY <1>0, <1>1, <2>1, <2>2 DEF Loads
<1>6. \A d \in Callers : ~HoldsIn(cs, ss, d) /\ cs[d].pc # "settled" BY <1>0, <1>1 DEF Turns
<1>7. \A d \in Callers : ~HoldsIn(ds, ss, d) /\ ~CommitsIn(f, ds, d) /\ ds[d].pc # "settled"
  BY <1>1, <1>6 DEF HoldsIn, CommitsIn
<1>8. Turns(f, ds, ss) BY <1>1, <1>7 DEF Turns
<1>9. Refers(f, ds) BY <1>0, <1>1 DEF Refers
<1>10. EntersOnce(ds, ss)
  <2>1. \A d \in Callers : ds[d].pc = "entered" => d # c OBVIOUS
  <2> QED BY <1>0, <2>1 DEF EntersOnce
<1>11. Pool(f, ds, q, ss, o) BY <1>1, <1>2, <1>4, <1>5, <1>8, <1>9, <1>10 DEF Pool
<1> QED BY <1>11 DEF f, q

\* The first job is a load, and settles: who waits for it goes on, and its entry is ready or leaves.
LEMMA PoolLoaded ==
  ASSUME NEW e, NEW cs, NEW ch, NEW ss, NEW o, Pool(e, cs, ch, ss, o), ch # <<>>, ch[1].kind = "load",
         NEW ds \in [Callers -> CallRecords],
         \A d \in Callers : IF cs[d].pc = "result" /\ cs[d].gen = ch[1].gen
                            THEN ds[d].pc \in Quiet \/ (ds[d].pc = "turn" /\ ds[d].gen = cs[d].gen)
                            ELSE ds[d] = cs[d],
         NEW f \in Entries,
         IF e.gen = ch[1].gen THEN f = NoEntry \/ (f.gen = e.gen /\ f.phase = "ready") ELSE f = e
  PROVE  Pool(f, ds, Tail(ch), ss, o)
<1> DEFINE q == Tail(ch)
           g == ch[1].gen
<1>0. /\ e \in Entries /\ Turns(e, cs, ss) /\ Queue(ch, e, cs, ss, o) /\ Refers(e, cs) /\ Loads(ch, e, cs) /\ EntersOnce(cs, ss)
      /\ ch \in Seq(JobRecords)
  BY DEF Pool
<1>1. q \in Seq(JobRecords) /\ Len(ch) \in Nat \ {0} /\ Len(q) = Len(ch) - 1 /\ \A i \in 1 .. Len(ch) - 1 : q[i] = ch[i + 1]
  BY <1>0, TailIs
<1>2. /\ Queue(q, e, cs, ss, o)
      /\ JobOK(ch[1], e, cs, ss, o)
      /\ \A i \in 1 .. Len(q) : PairOK(ch[1], q[i], e.gen)
  BY <1>0, QueuePop
<1> HIDE DEF q
<1>3. g # 0 /\ (g = e.gen => e.phase = "loading") /\ NoEntry.gen = 0 /\ NoEntry.phase = "none"
  BY <1>2 DEF JobOK, NoEntry
<1>4. \A d \in Callers : ds[d] = cs[d] \/ (cs[d].pc = "result" /\ ds[d].pc \notin Referring)
                           \/ (cs[d].pc = "result" /\ ds[d].pc = "turn" /\ ds[d].gen = cs[d].gen)
  BY DEF Quiet
<1>5. Queue(q, e, ds, ss, o)
  <2>1. \A i \in 1 .. Len(q) : q[i].kind \in Awaited => q[i].who \in Callers /\ cs[q[i].who].pc # "result"
    BY <1>2 DEF Queue, JobOK, Awaited, OfCalls
  <2>2. \A i \in 1 .. Len(q) : q[i].kind \in Awaited => ds[q[i].who] = cs[q[i].who] BY <1>4, <2>1
  <2> QED BY <1>2, <2>2, QueueCalls
<1>6. Queue(q, f, ds, ss, o)
  <2>1. CASE f = e BY <1>5, <2>1
  <2>2. CASE f = NoEntry BY <1>5, <2>2, QueueDrop
  <2>3. CASE f # e /\ f # NoEntry
    <3>1. f.gen = e.gen /\ f.phase = "ready" /\ e.gen = g BY <2>3
    <3>2. ASSUME NEW i \in 1 .. Len(q) PROVE JobOK(q[i], f, ds, ss, o)
      <4>1. JobOK(q[i], e, ds, ss, o) BY <1>5 DEF Queue
      <4>2. PairOK(ch[1], q[i], e.gen) BY <1>2
      <4>3. q[i].kind # "commit" /\ q[i].kind \notin Initial /\ (q[i].kind = "load" => q[i].gen # g)
        BY <3>1, <4>2 DEF PairOK
      <4> QED BY <3>1, <4>1, <4>3 DEF JobOK, Initial
    <3> QED BY <1>5, <3>1, <3>2, QueueChange
  <2> QED BY <2>1, <2>2, <2>3
<1>7. ASSUME NEW x, LoadOf(ch, x), x # g PROVE LoadOf(q, x)
  <2>1. PICK i \in 1 .. Len(ch) : ch[i].kind = "load" /\ ch[i].gen = x BY <1>7 DEF LoadOf
  <2>2. i - 1 \in 1 .. Len(ch) - 1 BY <1>1, <1>7, <2>1
  <2>3. q[i - 1] = ch[i] BY <1>1, <2>2
  <2> QED BY <1>1, <2>1, <2>2, <2>3 DEF LoadOf
<1>8. Loads(q, f, ds)
  <2>1. ASSUME NEW d \in Callers, ds[d].pc = "result" PROVE LoadOf(q, ds[d].gen)
    <3>1. ds[d] = cs[d] BY <1>4, <2>1 DEF Referring
    <3>2. cs[d].gen # g
      <4> SUFFICES ASSUME cs[d].gen = g PROVE FALSE OBVIOUS
      <4>1. ds[d].pc \in Quiet \/ ds[d].pc = "turn" BY <2>1, <3>1
      <4> QED BY <2>1, <4>1 DEF Quiet, Referring
    <3> QED BY <1>0, <1>7, <2>1, <3>1, <3>2 DEF Loads
  <2>2. ASSUME f.phase = "loading" PROVE LoadOf(q, f.gen)
    <3>1. f = e /\ e.gen # g BY <1>3, <2>2
    <3> QED BY <1>0, <1>7, <2>2, <3>1 DEF Loads
  <2> QED BY <2>1, <2>2 DEF Loads
<1>9. \A d \in Callers : /\ HoldsIn(ds, ss, d) <=> HoldsIn(cs, ss, d)
                         /\ CommitsIn(e, ds, d) <=> CommitsIn(e, cs, d)
                         /\ ds[d].pc = "settled" => cs[d].pc = "settled" /\ ds[d].gen = cs[d].gen
                         /\ HoldsIn(ds, ss, d) => ds[d].gen = cs[d].gen
                         /\ ds[d].pc = "commit" => ds[d].gen # 0
  <2>1. \A d \in Callers : cs[d].pc = "commit" => cs[d].gen # 0 BY <1>0 DEF Refers, Referring
  <2> QED BY <1>4, <2>1 DEF HoldsIn, CommitsIn, Referring
<1>10. Turns(f, ds, ss)
  <2>1. CASE f = e BY <1>0, <1>9, <2>1 DEF Turns
  <2>2. CASE f # e
    <3>1. e.phase = "loading" /\ (f = NoEntry \/ (f.gen = e.gen /\ f.phase = "ready")) BY <1>3, <2>2
    <3>2. \A d \in Callers : ~HoldsIn(ds, ss, d) /\ ~CommitsIn(e, ds, d) /\ ds[d].pc # "settled"
      BY <1>0, <1>9, <3>1 DEF Turns
    <3>3. \A d \in Callers : ~CommitsIn(f, ds, d) BY <1>3, <1>9, <3>1, <3>2 DEF CommitsIn
    <3> QED BY <1>3, <3>1, <3>2, <3>3 DEF Turns
  <2> QED BY <2>1, <2>2
<1>11. Refers(f, ds)
  <2>1. \A d \in Callers : ds[d].pc \in Referring => cs[d].pc \in Referring /\ ds[d].gen = cs[d].gen
    BY <1>4 DEF Referring
  <2> QED BY <1>0, <1>3, <2>1 DEF Refers
<1>12. EntersOnce(ds, ss)
  <2>1. \A d \in Callers : ds[d].pc = "entered" => ds[d] = cs[d] BY <1>4 DEF Referring
  <2> QED BY <1>0, <2>1 DEF EntersOnce
<1>13. ss \in [Sessions -> SessionRecords] BY DEF Pool
<1> QED BY <1>1, <1>6, <1>8, <1>10, <1>11, <1>12, <1>13 DEF Pool, q

--------
\* Choices.

LEMMA LeastOf ==
  ASSUME NEW S, S \subseteq Nat, S # {}
  PROVE  \E m \in S : \A k \in S : m <= k
<1>1. PICK m \in S : \A k \in S : ~(<<k, m>> \in OpToRel(<, Nat)) BY Zenon, WFMin, NatLessThanWellFounded
<1>2. \A k \in S : ~(k < m) BY <1>1 DEF OpToRel
<1> QED BY <1>2

LEMMA Next1In ==
  ASSUME Unborn # {}
  PROVE  Next1(Unborn) \in Sessions /\ sess[Next1(Unborn)].life = "unborn"
<1>1. Unborn \subseteq Nat BY BoundsAssumption DEF Unborn, Sessions
<1>2. \E k \in Unborn : \A l \in Unborn : k <= l BY <1>1, LeastOf
<1>3. Next1(Unborn) \in Unborn BY <1>2 DEF Next1
<1> QED BY <1>3 DEF Unborn

\* There is a number that no caller and no job refers to.
LEMMA NewGenIs ==
  ASSUME TypeOK
  PROVE  /\ NewGen \in Nat /\ NewGen # 0
         /\ \A c \in Callers : call[c].gen # NewGen
         /\ \A i \in 1 .. Len(chain) : chain[i].gen # NewGen
<1> DEFINE n == Cardinality(Callers) + Len(chain)
           A == {call[c].gen : c \in Callers}
           B == {chain[i].gen : i \in 1 .. Len(chain)}
<1>1. Len(chain) \in Nat /\ DOMAIN chain = 1 .. Len(chain) BY LenProperties DEF TypeOK
<1>2. IsFiniteSet(Callers) /\ Cardinality(Callers) \in Nat BY CallersFinite, FS_CardinalityType
<1>3. IsFiniteSet(A) /\ Cardinality(A) <= Cardinality(Callers) /\ Cardinality(A) \in Nat
  <2> DEFINE F(c) == call[c].gen
  <2>1. IsFiniteSet({F(c) : c \in Callers}) /\ Cardinality({F(c) : c \in Callers}) <= Cardinality(Callers)
    <3>1. [c \in Callers |-> F(c)] \in Surjection(Callers, {F(c) : c \in Callers}) BY DEF Surjection
    <3> QED BY <1>2, <3>1, FS_Surjection
  <2> QED BY <2>1, FS_CardinalityType
<1>4. IsFiniteSet(B) /\ Cardinality(B) <= Len(chain) /\ Cardinality(B) \in Nat
  <2> DEFINE m == Len(chain)
  <2>0. m \in Nat BY <1>1
  <2> HIDE DEF m
  <2>9. IsFiniteSet(1 .. m) /\ Cardinality(1 .. m) = m BY <2>0, FS_Interval
  <2>1. IsFiniteSet(1 .. Len(chain)) /\ Cardinality(1 .. Len(chain)) = Len(chain) BY <2>9 DEF m
  <2>2. [i \in 1 .. Len(chain) |-> chain[i].gen] \in Surjection(1 .. Len(chain), B) BY DEF Surjection
  <2>3. IsFiniteSet(B) /\ Cardinality(B) <= Cardinality(1 .. Len(chain)) BY <2>1, <2>2, FS_Surjection
  <2> QED BY <2>1, <2>3, FS_CardinalityType
<1> HIDE DEF A, B
<1>5. IsFiniteSet(A \cup B) /\ Cardinality(A \cup B) <= n
  <2>1. IsFiniteSet(A \cup B) /\ Cardinality(A \cup B) = Cardinality(A) + Cardinality(B) - Cardinality(A \cap B)
    BY <1>3, <1>4, FS_Union
  <2>2. Cardinality(A \cap B) \in Nat BY <1>3, FS_Intersection, FS_CardinalityType
  <2> QED BY <1>1, <1>2, <1>3, <1>4, <2>1, <2>2
<1>6. \E g \in 1 .. (n + 1) : g \notin A \cup B
  <2> SUFFICES ASSUME 1 .. (n + 1) \subseteq A \cup B PROVE FALSE OBVIOUS
  <2>1. n \in Nat BY <1>1, <1>2
  <2>2. Cardinality(1 .. (n + 1)) = n + 1 BY <2>1, FS_Interval
  <2>3. Cardinality(1 .. (n + 1)) <= Cardinality(A \cup B) BY <1>5, FS_Subset
  <2>4. Cardinality(A \cup B) \in Nat BY <1>5, FS_CardinalityType
  <2> QED BY <1>5, <2>1, <2>2, <2>3, <2>4
<1>7. \E g \in 1 .. (n + 1) : (\A c \in Callers : call[c].gen # g) /\ (\A i \in DOMAIN chain : chain[i].gen # g)
  BY <1>1, <1>6 DEF A, B
<1>8. /\ NewGen \in 1 .. (n + 1)
      /\ \A c \in Callers : call[c].gen # NewGen
      /\ \A i \in DOMAIN chain : chain[i].gen # NewGen
  BY <1>7 DEF NewGen
<1> QED BY <1>1, <1>2, <1>8

--------
\* What the helpers of the model do to the pool.

LEMMA SettledNone ==
  ASSUME NEW cs \in [Callers -> CallRecords], NEW g, \A c \in Callers : cs[c].pc # "settled"
  PROVE  Settled(cs, g) = cs
BY DEF Settled

LEMMA OutsideIs ==
  ASSUME TypeOK, PoolOK, NEW c \in Callers,
         call[c].pc \in {"idle", "retirement", "result", "turn", "settled", "flush", "seen", "caught"}
  PROVE  Outside(c, chain)
<1>1. Jobless(c, chain) BY PoolIs, NoJobOf DEF Jobless, Awaited
<1> QED BY <1>1 DEF Outside, CommitsIn, HoldsIn

LEMMA FirstOutside ==
  ASSUME TypeOK, PoolOK, chain # <<>>, chain[1].kind \in {"check", "create", "append"}
  PROVE  Outside(chain[1].who, Tail(chain)) /\ chain[1].who \in Callers
<1>1. chain[1].who \in Callers /\ Jobless(chain[1].who, Tail(chain)) BY FirstJob DEF OfCalls, Awaited
<1>2. call[chain[1].who].pc \in {"check", "create", "append", "over"} BY FirstJob DEF JobOK, Awaited
<1> QED BY <1>1, <1>2 DEF Outside, CommitsIn, HoldsIn

LEMMA QuietPoints ==
  /\ {"idle", "create", "retirement", "flush", "seen", "check", "caught", "append", "over"} \subseteq Quiet
  /\ Quiet \subseteq Points
BY DEF Quiet, Points, Referring

LEMMA InspectedPool ==
  ASSUME TypeOK, NEW c \in Callers, NEW rest \in Seq(JobRecords), Pool(entry, call, rest, sess, state.owner),
         Outside(c, rest), NEW fresh \in BOOLEAN, NEW view \in Logs, Inspected(c, fresh, view, rest)
  PROVE  Pool(entry, call', chain', sess, state.owner)
<1>0. call \in [Callers -> CallRecords] BY DEF TypeOK
<1>1. CASE call[c].op = "switch"
  <2> DEFINE j == [Job("append", c) EXCEPT !.upto = Len(view)]
  <2>1. call' = Over(c, "append", fresh) /\ chain' = Append(rest, j) BY <1>1 DEF Inspected
  <2>2. call' \in [Callers -> CallRecords] /\ call'[c].pc = "append" /\ \A d \in Callers : d # c => call'[d] = call[d]
    BY <1>0, <2>1, OverIs DEF Points
  <2>3. Pool(entry, call', rest, sess, state.owner) BY <2>2, OneLeaves, QuietPoints DEF Outside
  <2>4. Len(view) \in Nat BY LenProperties DEF Logs
  <2>5. j \in JobRecords BY <2>4, JobTyped, ConstantsTyped DEF OfCalls
  <2>6. j.kind = "append" /\ j.who = c /\ j.stage = "queued" BY DEF Job
  <2> HIDE DEF j
  <2> QED BY <2>1, <2>2, <2>3, <2>5, <2>6, PoolAwait DEF Outside
<1>2. CASE call[c].op # "switch"
  <2>1. call' = Over(c, "over", fresh) /\ chain' = rest BY <1>2 DEF Inspected
  <2>2. call' \in [Callers -> CallRecords] /\ call'[c].pc = "over" /\ \A d \in Callers : d # c => call'[d] = call[d]
    BY <1>0, <2>1, OverIs DEF Points
  <2> QED BY <2>1, <2>2, OneLeaves, QuietPoints DEF Outside
<1> QED BY <1>1, <1>2

\* c, whose commit job is gone, leaves, and takes its entry out of the pool.
LEMMA RemoveOfPool ==
  ASSUME TypeOK, NEW c \in Callers, NEW rest, Pool(entry, call, rest, sess, state.owner),
         call[c].pc = "commit", Jobless(c, rest), NEW ds \in [Callers -> CallRecords],
         ds[c].pc \in Quiet, \A d \in Callers : d # c => ds[d] = call[d], RemoveOf(c, ds)
  PROVE  Pool(entry', call', rest, sess, state.owner)
<1>1. CASE Current(c)
  <2>1. entry' = NoEntry /\ call' = Settled(ds, entry.gen) BY <1>1 DEF RemoveOf, Remove
  <2>2. CommitsIn(entry, call, c) /\ Turns(entry, call, sess) BY <1>1 DEF CommitsIn, Current, Pool
  <2>3. \A d \in Callers : ~HoldsIn(call, sess, d) BY <2>2 DEF Turns
  <2>4. Pool(NoEntry, Settled(ds, entry.gen), rest, sess, state.owner) BY <2>3, OneFrees
  <2> QED BY <2>1, <2>4
<1>2. CASE ~Current(c)
  <2>1. entry' = entry /\ call' = ds BY <1>2 DEF RemoveOf
  <2>2. ~CommitsIn(entry, call, c) /\ ~HoldsIn(call, sess, c) BY <1>2 DEF CommitsIn, Current, HoldsIn
  <2>3. Pool(entry, ds, rest, sess, state.owner) BY <2>2, OneLeaves
  <2> QED BY <2>1, <2>3
<1> QED BY <1>1, <1>2

\* After a durable write the entry leaves; the writer's call, if it is one, is over.
LEMMA InvalidatePool ==
  ASSUME TypeOK, NEW rest, Pool(entry, call, rest, sess, state.owner), entry.phase # "reserved",
         NEW ds \in [Callers -> CallRecords], \A d \in Callers : ds[d] = call[d] \/ (ds[d].pc \in Quiet /\ Outside(d, rest)),
         Invalidate(ds)
  PROVE  Pool(entry', call', rest, sess, state.owner)
<1>1. MayLeave(entry, call, rest, sess, ds) BY DEF MayLeave, Stays, Leaves, Outside
<1>2. Pool(entry, ds, rest, sess, state.owner) BY <1>1, PoolLeave DEF TypeOK
<1>3. CASE entry.phase = "none" BY <1>2, <1>3 DEF Invalidate
<1>4. CASE entry.phase # "none"
  <2>1. entry' = NoEntry /\ call' = Settled(ds, entry.gen) BY <1>4 DEF Invalidate, Remove
  <2>2. Pool(NoEntry, Settled(ds, entry.gen), rest, sess, state.owner) BY <1>2, NoneLeaves
  <2> QED BY <2>1, <2>2
<1> QED BY <1>3, <1>4

\* The first job goes on to another stage.
LEMMA StagePool ==
  ASSUME TypeOK, chain # <<>>, NEW e, NEW cs, NEW o, Pool(e, cs, chain, sess, o), NEW stage \in Stages, NEW src \in Artifacts,
         chain[1].kind # "commit", chain[1].kind \in Awaited => cs[chain[1].who].pc = chain[1].kind
  PROVE  Pool(e, cs, AtStage(stage, src), sess, o)
<1> DEFINE q == AtStage(stage, src)
<1>1. chain \in Seq(JobRecords) BY DEF TypeOK
<1>2. /\ q \in Seq(JobRecords) /\ Len(q) = Len(chain) /\ \A i \in 2 .. Len(chain) : q[i] = chain[i]
      /\ q[1] = [chain[1] EXCEPT !.stage = stage, !.src = src]
  BY Zenon, <1>1, StageTyped
<1>3. chain[1] \in JobRecords /\ Len(chain) \in Nat \ {0} BY <1>1, TailIs
<1>4. q[1].kind = chain[1].kind /\ q[1].who = chain[1].who /\ q[1].gen = chain[1].gen /\ q[1].upto = chain[1].upto
  BY <1>2, <1>3 DEF JobRecords
<1> HIDE DEF q
<1>5. JobOK(chain[1], e, cs, sess, o) BY <1>3 DEF Pool, Queue
<1>6. JobOK(q[1], e, cs, sess, o) BY <1>4, <1>5 DEF JobOK
<1>7. Pool(e, cs, q, sess, o) BY <1>2, <1>4, <1>6, PoolStage
<1> QED BY <1>7 DEF q

\* A commit that started goes on only for its caller.
LEMMA StageCommit ==
  ASSUME TypeOK, PoolOK, Runs("commit", "queued"), call[chain[1].who].pc = "commit", NEW stage \in Stages
  PROVE  Pool(entry, call, [chain EXCEPT ![1].stage = stage], sess, state.owner)
<1> DEFINE q == AtStage(stage, chain[1].src)
<1>1. chain \in Seq(JobRecords) /\ chain # <<>> /\ chain[1] \in JobRecords BY FirstJob DEF TypeOK, Runs
<1>2. chain[1].src \in Artifacts BY <1>1 DEF JobRecords
<1>3. /\ q \in Seq(JobRecords) /\ Len(q) = Len(chain) /\ \A i \in 2 .. Len(chain) : q[i] = chain[i]
      /\ q[1] = [chain[1] EXCEPT !.stage = stage, !.src = chain[1].src]
  BY Zenon, <1>1, <1>2, StageTyped
<1>4. q[1].kind = chain[1].kind /\ q[1].who = chain[1].who /\ q[1].gen = chain[1].gen /\ q[1].src = chain[1].src
  BY <1>1, <1>3 DEF JobRecords
<1>5. [chain EXCEPT ![1].stage = stage] = q
  <2>1. [chain[1] EXCEPT !.stage = stage] = [chain[1] EXCEPT !.stage = stage, !.src = chain[1].src]
    BY <1>1 DEF JobRecords
  <2>2. q = [chain EXCEPT ![1] = [chain[1] EXCEPT !.stage = stage, !.src = chain[1].src]] BY DEF AtStage
  <2> QED BY <2>1, <2>2
<1> HIDE DEF q
<1>6. JobOK(chain[1], entry, call, sess, state.owner) /\ chain[1].kind = "commit" BY <1>1, FirstJob DEF Runs
<1>7. JobOK(q[1], entry, call, sess, state.owner) BY <1>4, <1>6 DEF JobOK, OfCalls, OfSessions, Awaited, Initial
<1> QED BY <1>1, <1>3, <1>4, <1>5, <1>7, PoolStage DEF PoolOK

--------
\* The pool survives each step: callers.

LEMMA EvictPool ==
  ASSUME TypeOK, PoolOK, Evict
  PROVE  PoolOK'
<1>1. entry.phase = "ready" /\ entry' = NoEntry /\ UNCHANGED <<call, chain, sess, state>> BY DEF Evict
<1>2. \A c \in Callers : call[c].pc # "settled" BY <1>1, PoolIs DEF Turns
<1>3. Settled(call, entry.gen) = call BY <1>2, SettledNone DEF TypeOK
<1>4. Pool(NoEntry, call, chain, sess, state.owner) BY <1>1, <1>3, NoneLeaves DEF PoolOK
<1> QED BY <1>1, <1>4 DEF PoolOK

LEMMA BeginPool ==
  ASSUME TypeOK, PoolOK, NEW c \in Callers, NEW op \in Ops, Begin(c, op)
  PROVE  PoolOK'
<1> DEFINE pc == IF op = "create" THEN "create" ELSE "retirement"
           r == [call[c] EXCEPT !.op = op, !.since = Len(stored.log), !.awaits = retiring, !.pc = pc]
<1>1. call[c].pc = "idle" /\ UNCHANGED <<entry, sess, state>> BY DEF Begin
<1>2. call' = [call EXCEPT ![c] = r] BY DEF Begin
<1>3. Len(stored.log) \in Nat /\ call[c] \in CallRecords /\ retiring \in Owners /\ op \in Methods /\ pc \in Points
  BY LenProperties, OpsAssumption DEF TypeOK, Artifacts, Logs, Points, Methods
<1>4. r \in CallRecords /\ r.pc = pc BY <1>3 DEF CallRecords
<1> HIDE DEF r
<1>5. call' \in [Callers -> CallRecords] /\ call'[c].pc = pc /\ \A d \in Callers : d # c => call'[d] = call[d]
  BY <1>2, <1>4 DEF TypeOK
<1>6. Outside(c, chain) BY <1>1, OutsideIs
<1>7. Pool(entry, call', chain, sess, state.owner) BY <1>5, <1>6, OneLeaves, QuietPoints DEF PoolOK, Outside
<1>8. CASE op = "create"
  <2>1. chain' = Append(chain, Job("create", c)) BY <1>8 DEF Begin
  <2>2. Job("create", c) \in JobRecords BY JobTyped, ConstantsTyped DEF OfCalls
  <2>3. Job("create", c).kind = "create" /\ Job("create", c).who = c /\ Job("create", c).stage = "queued" BY DEF Job
  <2>4. Pool(entry, call', Append(chain, Job("create", c)), sess, state.owner)
    BY <1>5, <1>6, <1>7, <1>8, <2>2, <2>3, PoolAwait DEF Outside
  <2> QED BY <1>1, <2>1, <2>4 DEF PoolOK
<1>9. CASE op # "create"
  <2>1. chain' = chain BY <1>9 DEF Begin
  <2> QED BY <1>1, <1>7, <2>1 DEF PoolOK
<1> QED BY <1>8, <1>9

LEMMA JoinPool ==
  ASSUME TypeOK, PoolOK, NEW c \in Callers, Join(c)
  PROVE  PoolOK'
<1>1. call[c].pc = "retirement" /\ UNCHANGED <<sess, state>> BY DEF Join, Waited
<1>2. Outside(c, chain) /\ call \in [Callers -> CallRecords] /\ call[c] \in CallRecords BY <1>1, OutsideIs DEF TypeOK
<1>3. Refers(entry, call) /\ entry \in Entries BY PoolIs DEF TypeOK
<1>4. CASE entry.phase = "none"
  <2> DEFINE r == [call[c] EXCEPT !.pc = "result", !.gen = NewGen]
             j == [Job("load", c) EXCEPT !.gen = NewGen]
  <2>1. /\ entry' = [gen |-> NewGen, phase |-> "loading", src |-> Absent]
        /\ chain' = Append(chain, j)
        /\ call' = [call EXCEPT ![c] = r]
    BY <1>4 DEF Join
  <2>2. /\ NewGen \in Nat /\ NewGen # 0
        /\ \A d \in Callers : call[d].gen # NewGen
        /\ \A i \in 1 .. Len(chain) : chain[i].gen # NewGen
    BY NewGenIs
  <2>3. r \in CallRecords /\ r.pc = "result" /\ r.gen = NewGen BY <1>2, <2>2 DEF CallRecords, Points
  <2>4. j \in JobRecords BY <2>2, JobTyped, ConstantsTyped DEF OfCalls
  <2>5. j.kind = "load" /\ j.who = c /\ j.stage = "queued" /\ j.gen = NewGen BY DEF Job
  <2> HIDE DEF r, j
  <2>6. call' \in [Callers -> CallRecords] /\ call'[c].pc = "result" /\ call'[c].gen = NewGen
        /\ \A d \in Callers : d # c => call'[d] = call[d]
    BY <1>2, <2>1, <2>3
  <2>7. Pool(NoEntry, call, chain, sess, state.owner) BY <1>3, <1>4 DEF PoolOK, Refers
  <2> DEFINE g == NewGen
             ds == call'
  <2>8. /\ g \in Nat /\ g # 0
        /\ \A d \in Callers : call[d].gen # g
        /\ \A i \in 1 .. Len(chain) : chain[i].gen # g
        /\ j.gen = g
    BY <2>2, <2>5
  <2>9. /\ ds \in [Callers -> CallRecords] /\ ds[c].pc = "result" /\ ds[c].gen = g
        /\ \A d \in Callers : d # c => ds[d] = call[d]
    BY <2>6
  <2>10. entry' = [gen |-> g, phase |-> "loading", src |-> Absent] /\ call' = ds BY <2>1
  <2>11. Jobless(c, chain) BY <1>2 DEF Outside
  <2> HIDE DEF g, ds
  <2>12. Pool([gen |-> g, phase |-> "loading", src |-> Absent], ds, Append(chain, j), sess, state.owner)
    BY <2>4, <2>5, <2>7, <2>8, <2>9, <2>11, PoolNew
  <2> QED BY <1>1, <2>1, <2>10, <2>12 DEF PoolOK
<1>5. CASE entry.phase # "none"
  <2> DEFINE pc == IF entry.phase = "loading" THEN "result" ELSE AfterResult(c)
             src == IF AfterResult(c) = "seen" THEN entry.src ELSE Absent
             r == [call[c] EXCEPT !.gen = entry.gen, !.src = src, !.pc = pc]
  <2>1. call' = [call EXCEPT ![c] = r] /\ UNCHANGED <<entry, chain>> BY <1>5 DEF Join
  <2>2. src \in Artifacts /\ entry.gen \in Nat /\ pc \in {"result", "turn", "seen"} /\ (pc = "result" => entry.phase = "loading")
    BY <1>3, ConstantsTyped DEF Entries, AfterResult
  <2>3. r \in CallRecords /\ r.pc = pc /\ r.gen = entry.gen BY <1>2, <2>2 DEF CallRecords, Points
  <2>4. entry.gen # 0 BY <1>3, <1>5 DEF Refers, NoEntry
  <2> HIDE DEF r, pc, src
  <2>5. call' \in [Callers -> CallRecords] /\ call'[c].pc = pc /\ call'[c].gen = entry.gen
        /\ \A d \in Callers : d # c => call'[d] = call[d]
    BY <1>2, <2>1, <2>3
  <2>6. CASE pc = "seen"
    <3>1. Pool(entry, call', chain, sess, state.owner) BY <1>2, <2>5, <2>6, OneLeaves, QuietPoints DEF PoolOK, Outside
    <3> QED BY <1>1, <2>1, <3>1 DEF PoolOK
  <2>7. CASE pc # "seen"
    <3>1. Pool(entry, call', chain, sess, state.owner) BY <1>2, <2>2, <2>4, <2>5, <2>7, PoolRefer DEF PoolOK, Outside
    <3> QED BY <1>1, <2>1, <3>1 DEF PoolOK
  <2> QED BY <2>6, <2>7
<1> QED BY <1>4, <1>5

LEMMA TurnPool ==
  ASSUME TypeOK, PoolOK, NEW c \in Callers, Turn(c)
  PROVE  PoolOK'
<1>1. call[c].pc = "turn" /\ UNCHANGED <<sess, state>> BY DEF Turn
<1>2. Outside(c, chain) /\ call \in [Callers -> CallRecords] /\ call[c] \in CallRecords BY <1>1, OutsideIs DEF TypeOK
<1>3. CASE ~Current(c) /\ call' = Again(c) /\ UNCHANGED <<entry, chain>>
  <2>1. call' \in [Callers -> CallRecords] /\ call'[c].pc \in Quiet /\ \A d \in Callers : d # c => call'[d] = call[d]
    BY <1>2, <1>3, AgainIs, QuietPoints DEF TypeOK
  <2>2. Pool(entry, call', chain, sess, state.owner) BY <1>2, <2>1, OneLeaves DEF PoolOK, Outside
  <2> QED BY <1>1, <1>3, <2>2 DEF PoolOK
<1>4. CASE /\ Current(c) /\ entry.phase = "ready"
           /\ entry' = [entry EXCEPT !.phase = "committing"]
           /\ chain' = Append(chain, [Job("commit", c) EXCEPT !.src = entry.src])
           /\ call' = [call EXCEPT ![c].pc = "commit"]
  <2> DEFINE j == [Job("commit", c) EXCEPT !.src = entry.src]
  <2>1. entry.src \in Artifacts BY DEF TypeOK, Entries
  <2>2. j \in JobRecords BY <2>1, JobTyped, ConstantsTyped DEF OfCalls
  <2>3. j.kind = "commit" /\ j.who = c /\ j.stage = "queued" /\ j.src = entry.src BY DEF Job
  <2> HIDE DEF j
  <2>4. call' = At(c, "commit") BY <1>4 DEF At
  <2>7. "commit" \in Points BY DEF Points
  <2>8. /\ At(c, "commit") \in [Callers -> CallRecords]
        /\ At(c, "commit")[c].pc = "commit" /\ At(c, "commit")[c].gen = call[c].gen
        /\ \A d \in Callers : d # c => At(c, "commit")[d] = call[d]
    BY <1>2, <2>7, AtIs
  <2>9. call[c].gen = entry.gen BY <1>4 DEF Current
  <2>5. call' \in [Callers -> CallRecords] /\ call'[c].pc = "commit" /\ call'[c].gen = entry.gen
        /\ \A d \in Callers : d # c => call'[d] = call[d]
    BY <2>4, <2>8, <2>9
  <2>6. Pool([entry EXCEPT !.phase = "committing"], call', Append(chain, j), sess, state.owner)
    BY <1>1, <1>2, <1>4, <2>2, <2>3, <2>5, PoolCommit DEF PoolOK, Outside
  <2> QED BY <1>1, <1>4, <2>6 DEF PoolOK, j
<1>5. CASE /\ Current(c) /\ entry.phase \in {"committing", "reserved"}
           /\ call' = At(c, "settled")
           /\ UNCHANGED <<entry, chain>>
  <2>1. call' \in [Callers -> CallRecords] /\ call'[c].pc = "settled" /\ call'[c].gen = entry.gen
        /\ \A d \in Callers : d # c => call'[d] = call[d]
    BY <1>2, <1>5, AtIs DEF Points, Current
  <2>2. entry.gen # 0 BY <1>5, PoolIs DEF Refers, NoEntry
  <2>3. Pool(entry, call', chain, sess, state.owner) BY <1>2, <1>5, <2>1, <2>2, PoolRefer DEF PoolOK, Outside
  <2> QED BY <1>1, <1>5, <2>3 DEF PoolOK
<1> QED BY <1>3, <1>4, <1>5 DEF Turn

LEMMA SeenPool ==
  ASSUME TypeOK, PoolOK, NEW c \in Callers, Seen(c)
  PROVE  PoolOK'
<1>1. call[c].pc = "seen" /\ UNCHANGED <<entry, sess, state>> BY DEF Seen
<1>2. Outside(c, chain) /\ call \in [Callers -> CallRecords] /\ call[c] \in CallRecords /\ chain \in Seq(JobRecords)
  BY <1>1, OutsideIs DEF TypeOK
<1>3. CASE Registered # {}
  <2>1. PICK k \in Registered : Inspected(c, TRUE, sess[k].log, chain) BY <1>3 DEF Seen
  <2>2. sess[k].log \in Logs BY DEF Registered, TypeOK, SessionRecords
  <2>3. Pool(entry, call', chain', sess, state.owner) BY <1>2, <2>1, <2>2, InspectedPool DEF PoolOK
  <2> QED BY <1>1, <2>3 DEF PoolOK
<1>4. CASE Registered = {}
  <2> DEFINE j == [Job("check", c) EXCEPT !.src = call[c].src]
  <2>1. call' = At(c, "check") /\ chain' = Append(chain, j) BY <1>4 DEF Seen
  <2>2. call[c].src \in Artifacts BY <1>2 DEF CallRecords
  <2>3. j \in JobRecords BY <2>2, JobTyped, ConstantsTyped DEF OfCalls
  <2>4. j.kind = "check" /\ j.who = c /\ j.stage = "queued" BY DEF Job
  <2> HIDE DEF j
  <2>5. call' \in [Callers -> CallRecords] /\ call'[c].pc = "check" /\ \A d \in Callers : d # c => call'[d] = call[d]
    BY <1>2, <2>1, AtIs DEF Points
  <2>6. Pool(entry, call', chain, sess, state.owner) BY <1>2, <2>5, OneLeaves, QuietPoints DEF PoolOK, Outside
  <2>7. Pool(entry, call', chain', sess, state.owner) BY <1>2, <2>1, <2>3, <2>4, <2>5, <2>6, PoolAwait DEF Outside
  <2> QED BY <1>1, <2>7 DEF PoolOK
<1> QED BY <1>3, <1>4

LEMMA CaughtPool ==
  ASSUME TypeOK, PoolOK, NEW c \in Callers, Caught(c)
  PROVE  PoolOK'
<1>1. call[c].pc = "caught" /\ UNCHANGED <<entry, sess, state>> BY DEF Caught
<1>2. Outside(c, chain) /\ call \in [Callers -> CallRecords] /\ chain \in Seq(JobRecords)
  BY <1>1, OutsideIs DEF TypeOK
<1>3. CASE Registered # {} /\ ~call[c].aborted
  <2>1. PICK k \in Registered : Inspected(c, TRUE, sess[k].log, chain) BY <1>3 DEF Caught
  <2>2. sess[k].log \in Logs BY DEF Registered, TypeOK, SessionRecords
  <2>3. Pool(entry, call', chain', sess, state.owner) BY <1>2, <2>1, <2>2, InspectedPool DEF PoolOK
  <2> QED BY <1>1, <2>3 DEF PoolOK
<1>4. CASE ~(Registered # {} /\ ~call[c].aborted)
  <2>1. call' = Failed(c) /\ chain' = chain BY <1>4 DEF Caught
  <2>2. call' \in [Callers -> CallRecords] /\ call'[c].pc \in Quiet /\ \A d \in Callers : d # c => call'[d] = call[d]
    BY <1>2, <2>1, FailedIs, QuietPoints
  <2>3. Pool(entry, call', chain, sess, state.owner) BY <1>2, <2>2, OneLeaves DEF PoolOK, Outside
  <2> QED BY <1>1, <2>1, <2>3 DEF PoolOK
<1> QED BY <1>3, <1>4

LEMMA FlushedPool ==
  ASSUME TypeOK, PoolOK, NEW c \in Callers, Flushed(c)
  PROVE  PoolOK'
<1>1. call[c].pc = "flush" /\ UNCHANGED <<entry, chain, sess, state>> BY DEF Flushed
<1>2. Outside(c, chain) /\ call \in [Callers -> CallRecords] BY <1>1, OutsideIs DEF TypeOK
<1>3. call' = Failed(c) \/ \E fresh \in BOOLEAN : call' = Over(c, "over", fresh) BY DEF Flushed, Covers
<1>4. call' \in [Callers -> CallRecords] /\ call'[c].pc = "over" /\ \A d \in Callers : d # c => call'[d] = call[d]
  BY <1>2, <1>3, FailedIs, OverIs DEF Points
<1>5. Pool(entry, call', chain, sess, state.owner) BY <1>2, <1>4, OneLeaves, QuietPoints DEF PoolOK, Outside
<1> QED BY <1>1, <1>5 DEF PoolOK

\* A caller that gives up a commit in the queue drops its entry first.
LEMMA AbortPool ==
  ASSUME TypeOK, PoolOK, NEW c \in Callers, Abort(c)
  PROVE  PoolOK'
<1>1. call[c].pc \in {"retirement", "result", "settled", "commit", "check"} /\ UNCHANGED <<chain, sess, state>>
  BY DEF Abort, Rejects
<1>2. call \in [Callers -> CallRecords] /\ call[c] \in CallRecords BY DEF TypeOK
<1> DEFINE started == chain[1].kind = call[c].pc /\ chain[1].who = c /\ chain[1].stage # "queued"
<1>3. /\ Failed(c) \in [Callers -> CallRecords] /\ Failed(c)[c].pc = "over"
      /\ \A d \in Callers : d # c => Failed(c)[d] = call[d]
  BY <1>2, FailedIs
<1>4. CASE call[c].pc \in {"retirement", "result", "settled"}
  <2>1. call' = Failed(c) /\ entry' = entry BY <1>4 DEF Abort
  <2>2. Outside(c, chain) BY <1>4, OutsideIs
  <2>3. Pool(entry, Failed(c), chain, sess, state.owner) BY <1>3, <2>2, OneLeaves, QuietPoints DEF PoolOK, Outside
  <2> QED BY <1>1, <2>1, <2>3 DEF PoolOK
<1>5. CASE call[c].pc \in {"commit", "check"} /\ started
  <2>1. call' = [call EXCEPT ![c].aborted = TRUE] /\ entry' = entry BY <1>5 DEF Abort, Rejects
  <2>2. [call[c] EXCEPT !.aborted = TRUE] \in CallRecords /\ [call[c] EXCEPT !.aborted = TRUE].pc = call[c].pc
        /\ [call[c] EXCEPT !.aborted = TRUE].gen = call[c].gen /\ [call[c] EXCEPT !.aborted = TRUE].awaits = call[c].awaits
    BY <1>2 DEF CallRecords
  <2>3. call' = [call EXCEPT ![c] = [call[c] EXCEPT !.aborted = TRUE]] BY <2>1
  <2>4. call' \in [Callers -> CallRecords] /\ \A d \in Callers : Stays(d, call, call') BY <1>2, <2>2, <2>3 DEF Stays
  <2>5. MayLeave(entry, call, chain, sess, call') BY <2>4 DEF MayLeave
  <2>6. Pool(entry, call', chain, sess, state.owner) BY <2>4, <2>5, PoolLeave DEF PoolOK
  <2> QED BY <1>1, <2>1, <2>6 DEF PoolOK
<1>6. CASE call[c].pc \in {"commit", "check"} /\ ~started
  <2>1. Queue(chain, entry, call, sess, state.owner) /\ Turns(entry, call, sess) /\ Refers(entry, call) BY PoolIs
  <2>2. \A i \in 1 .. Len(chain) : chain[i].kind \in Awaited /\ chain[i].who = c =>
          chain[i].stage = "queued" /\ chain[i].kind \in {"commit", "check"}
    <3> SUFFICES ASSUME NEW i \in 1 .. Len(chain), chain[i].kind \in Awaited, chain[i].who = c
                 PROVE  chain[i].stage = "queued" /\ chain[i].kind \in {"commit", "check"}
      OBVIOUS
    <3>1. JobOK(chain[i], entry, call, sess, state.owner) BY <2>1 DEF Queue
    <3>2. chain[i].kind = call[c].pc BY <1>6, <3>1 DEF JobOK
    <3>3. CASE i = 1 BY <1>6, <3>2, <3>3
    <3>5. chain[i].kind \in {"commit", "check"} BY <1>6, <3>2
    <3>4. CASE i # 1
      <4>1. Len(chain) \in Nat BY LenProperties DEF TypeOK
      <4>2. 1 \in 1 .. Len(chain) /\ 1 < i BY <3>4, <4>1
      <4> QED BY <2>1, <3>5, <4>2 DEF Queue
    <3> QED BY <3>3, <3>4
  <2>3. CASE call[c].pc = "check" \/ ~Current(c)
    <3>1. call' = Failed(c) /\ entry' = entry BY <1>6, <2>3 DEF Abort, Rejects, RemoveOf
    <3>2. ~CommitsIn(entry, call, c) /\ ~HoldsIn(call, sess, c) BY <1>6, <2>3 DEF CommitsIn, HoldsIn, Current
    <3>3. Pool(entry, Failed(c), chain, sess, state.owner) BY <1>3, <2>2, <3>2, PoolGiveUp DEF PoolOK
    <3> QED BY <1>1, <3>1, <3>3 DEF PoolOK
  <2>4. CASE call[c].pc = "commit" /\ Current(c)
    <3> DEFINE cs == Settled(call, entry.gen)
               ds == Settled(Failed(c), entry.gen)
    <3>1. entry' = NoEntry /\ call' = ds BY <1>6, <2>4 DEF Abort, Rejects, RemoveOf, Remove
    <3>2. CommitsIn(entry, call, c) /\ entry.phase = "committing" /\ call[c].gen # 0
      BY <2>1, <2>4 DEF CommitsIn, Current, Turns, Refers, Referring
    <3>3. Pool(NoEntry, cs, chain, sess, state.owner) BY <3>2, NoneLeaves DEF PoolOK
    <3>4. cs[c] = call[c] /\ ds[c] = Failed(c)[c] /\ ds \in [Callers -> CallRecords] BY <1>2, <1>3, <2>4, SettledIs
    <3>5. \A d \in Callers : d # c => ds[d] = cs[d] BY <1>3 DEF Settled
    <3> HIDE DEF cs, ds
    <3>6. ~CommitsIn(NoEntry, cs, c) /\ ~HoldsIn(cs, sess, c) BY <2>4, <3>2, <3>4 DEF CommitsIn, HoldsIn, NoEntry
    <3>7. Pool(NoEntry, ds, chain, sess, state.owner) BY <1>3, <2>2, <3>3, <3>4, <3>5, <3>6, PoolGiveUp
    <3> QED BY <1>1, <3>1, <3>7 DEF PoolOK
  <2> QED BY <1>6, <2>3, <2>4
<1> QED BY <1>1, <1>4, <1>5, <1>6

--------
\* The pool survives each step: the calls' jobs.

LEMMA LoadStartPool ==
  ASSUME TypeOK, PoolOK, LoadStart
  PROVE  PoolOK'
<1>1. Runs("load", "queued") /\ chain' = AtStage("read", stored) /\ UNCHANGED <<entry, call, sess, state>>
  BY DEF LoadStart
<1>2. chain # <<>> /\ chain[1].kind = "load" /\ stored \in Artifacts /\ "read" \in Stages
  BY <1>1 DEF Runs, TypeOK, Stages
<1>3. Pool(entry, call, AtStage("read", stored), sess, state.owner) BY <1>2, StagePool DEF PoolOK, Awaited
<1> QED BY <1>1, <1>3 DEF PoolOK

LEMMA LoadEndPool ==
  ASSUME TypeOK, PoolOK, LoadEnd
  PROVE  PoolOK'
<1> DEFINE job == chain[1]
           Waits(c) == call[c].pc = "result" /\ call[c].gen = job.gen
           loaded == [c \in Callers |->
                        IF ~Waits(c) THEN call[c]
                        ELSE [call[c] EXCEPT !.pc = AfterResult(c),
                                             !.src = IF AfterResult(c) = "seen" THEN job.src ELSE Absent]]
           refused == [c \in Callers |->
                         CASE ~Waits(c) -> call[c]
                           [] Waits(c) /\ AfterResult(c) = "seen" -> At(c, "caught")[c]
                           [] OTHER -> Failed(c)[c]]
<1>1. Runs("load", "read") /\ chain' = Tail(chain) /\ UNCHANGED <<sess, state>> BY Zenon DEF LoadEnd
<1>2. chain # <<>> /\ job.kind = "load" /\ job \in JobRecords /\ call \in [Callers -> CallRecords] /\ entry \in Entries
  BY <1>1, FirstJob DEF Runs, TypeOK
<1>3. job.src \in Artifacts /\ Absent \in Artifacts BY <1>2, ConstantsTyped DEF JobRecords
<1>4. \A c \in Callers : AfterResult(c) \in {"turn", "seen"} BY DEF AfterResult
<1>5. CASE call' = loaded /\ entry' = IF entry.gen = job.gen THEN [entry EXCEPT !.phase = "ready", !.src = job.src] ELSE entry
  <2>1. ASSUME NEW c \in Callers, Waits(c)
        PROVE  /\ loaded[c] \in CallRecords /\ loaded[c].gen = call[c].gen
               /\ loaded[c].pc \in {"turn", "seen"}
    <3> DEFINE src == IF AfterResult(c) = "seen" THEN job.src ELSE Absent
               pc == AfterResult(c)
    <3>1. loaded[c] = [call[c] EXCEPT !.pc = pc, !.src = src] BY <2>1
    <3>2. src \in Artifacts /\ pc \in {"turn", "seen"} /\ pc \in Points /\ call[c] \in CallRecords
      BY <1>2, <1>3, <1>4 DEF Points
    <3> HIDE DEF src, pc, loaded
    <3> QED BY <3>1, <3>2 DEF CallRecords
  <2>2. \A c \in Callers : ~Waits(c) => loaded[c] = call[c] OBVIOUS
  <2>3. loaded \in [Callers -> CallRecords]
    <3>1. \A c \in Callers : loaded[c] \in CallRecords BY Zenon, <1>2, <2>1, <2>2
    <3> QED BY Zenon, <3>1
  <2> HIDE DEF loaded
  <2>4. \A c \in Callers : IF Waits(c) THEN loaded[c].pc \in Quiet \/ (loaded[c].pc = "turn" /\ loaded[c].gen = call[c].gen)
                           ELSE loaded[c] = call[c]
    BY <2>1, <2>2, QuietPoints
  <2>5. entry' \in Entries /\ IF entry.gen = job.gen THEN entry'.gen = entry.gen /\ entry'.phase = "ready" ELSE entry' = entry
    BY <1>2, <1>3, <1>5 DEF Entries, Phases
  <2>6. Pool(entry', loaded, Tail(chain), sess, state.owner) BY <1>2, <2>3, <2>4, <2>5, PoolLoaded DEF PoolOK
  <2> QED BY <1>1, <1>5, <2>6 DEF PoolOK
<1>6. CASE call' = refused /\ entry' = IF entry.gen = job.gen THEN NoEntry ELSE entry
  <2>1. ASSUME NEW c \in Callers, Waits(c) PROVE refused[c] \in CallRecords /\ refused[c].pc \in {"caught", "over"}
    <3>1. At(c, "caught")[c] \in CallRecords /\ At(c, "caught")[c].pc = "caught"
      <4>1. "caught" \in Points BY DEF Points
      <4> QED BY <1>2, <4>1, AtIs
    <3>2. Failed(c)[c] \in CallRecords /\ Failed(c)[c].pc = "over" BY <1>2, FailedIs
    <3>3. refused[c] = At(c, "caught")[c] \/ refused[c] = Failed(c)[c] BY <2>1
    <3> QED BY <3>1, <3>2, <3>3
  <2>2. \A c \in Callers : ~Waits(c) => refused[c] = call[c] OBVIOUS
  <2>3. refused \in [Callers -> CallRecords]
    <3>1. \A c \in Callers : refused[c] \in CallRecords BY <1>2, <2>1, <2>2
    <3> QED BY <3>1
  <2> HIDE DEF refused
  <2>4. \A c \in Callers : IF Waits(c) THEN refused[c].pc \in Quiet ELSE refused[c] = call[c]
    BY <2>1, <2>2, QuietPoints
  <2>5. entry' \in Entries /\ IF entry.gen = job.gen THEN entry' = NoEntry ELSE entry' = entry
    BY <1>2, <1>6, ConstantsTyped
  <2>6. Pool(entry', refused, Tail(chain), sess, state.owner) BY <1>2, <2>3, <2>4, <2>5, PoolLoaded DEF PoolOK
  <2> QED BY <1>1, <1>6, <2>6 DEF PoolOK
<1> QED BY Zenon, <1>5, <1>6 DEF LoadEnd

LEMMA FirstCommit ==
  ASSUME TypeOK, PoolOK, chain # <<>>, chain[1].kind = "commit"
  PROVE  /\ chain[1].who \in Callers /\ Jobless(chain[1].who, Tail(chain)) /\ Pool(entry, call, Tail(chain), sess, state.owner)
         /\ chain[1].stage # "queued" => call[chain[1].who].pc = "commit"
BY FirstJob DEF OfCalls, Awaited

LEMMA CommitStartPool ==
  ASSUME TypeOK, PoolOK, CommitStart
  PROVE  PoolOK'
<1> DEFINE c == chain[1].who
<1>1. Runs("commit", "queued") /\ UNCHANGED <<sess, state>> BY DEF CommitStart
<1>2. c \in Callers /\ Jobless(c, Tail(chain)) /\ Pool(entry, call, Tail(chain), sess, state.owner)
  BY <1>1, FirstCommit DEF Runs
<1>3. CASE call[c].pc # "commit"
  <2>1. chain' = Tail(chain) /\ UNCHANGED <<entry, call>> BY <1>3 DEF CommitStart
  <2> QED BY <1>1, <1>2, <2>1 DEF PoolOK
<1>4. CASE call[c].pc = "commit" /\ state.there /\ state.owner # Nobody
  <2>1. chain' = Tail(chain) /\ RemoveOf(c, Failed(c)) BY <1>4 DEF CommitStart
  <2>2. /\ Failed(c) \in [Callers -> CallRecords] /\ Failed(c)[c].pc \in Quiet
        /\ \A d \in Callers : d # c => Failed(c)[d] = call[d]
    BY <1>2, FailedIs, QuietPoints DEF TypeOK
  <2>3. Pool(entry', call', Tail(chain), sess, state.owner) BY <1>2, <1>4, <2>1, <2>2, RemoveOfPool
  <2> QED BY <1>1, <2>1, <2>3 DEF PoolOK
<1>5. CASE call[c].pc = "commit" /\ ~(state.there /\ state.owner # Nobody)
  <2> DEFINE stage == IF stored = chain[1].src THEN "current" ELSE "stale"
  <2>1. chain' = [chain EXCEPT ![1].stage = stage] /\ UNCHANGED <<entry, call>> BY <1>5 DEF CommitStart
  <2>2. stage \in Stages BY DEF Stages
  <2> HIDE DEF stage
  <2>3. Pool(entry, call, [chain EXCEPT ![1].stage = stage], sess, state.owner) BY <1>1, <1>5, <2>2, StageCommit
  <2> QED BY <1>1, <2>1, <2>3 DEF PoolOK
<1> QED BY <1>3, <1>4, <1>5

LEMMA CommitRetryPool ==
  ASSUME TypeOK, PoolOK, CommitRetry
  PROVE  PoolOK'
<1> DEFINE c == chain[1].who
<1>1. (Runs("commit", "current") \/ Runs("commit", "stale")) /\ RemoveOf(c, Again(c)) /\ chain' = Tail(chain)
      /\ UNCHANGED <<sess, state>>
  BY DEF CommitRetry
<1>2. c \in Callers /\ Jobless(c, Tail(chain)) /\ Pool(entry, call, Tail(chain), sess, state.owner) /\ call[c].pc = "commit"
  BY <1>1, FirstCommit DEF Runs
<1>3. /\ Again(c) \in [Callers -> CallRecords] /\ Again(c)[c].pc \in Quiet
      /\ \A d \in Callers : d # c => Again(c)[d] = call[d]
  BY <1>2, AgainIs, QuietPoints DEF TypeOK
<1>4. Pool(entry', call', Tail(chain), sess, state.owner) BY <1>1, <1>2, <1>3, RemoveOfPool
<1> QED BY <1>1, <1>4 DEF PoolOK

LEMMA CommitFaultPool ==
  ASSUME TypeOK, PoolOK, CommitFault
  PROVE  PoolOK'
<1> DEFINE c == chain[1].who
<1>1. (Runs("commit", "current") \/ Runs("commit", "stale")) /\ RemoveOf(c, Failed(c)) /\ chain' = Tail(chain)
      /\ UNCHANGED <<sess, state>>
  BY DEF CommitFault
<1>2. c \in Callers /\ Jobless(c, Tail(chain)) /\ Pool(entry, call, Tail(chain), sess, state.owner) /\ call[c].pc = "commit"
  BY <1>1, FirstCommit DEF Runs
<1>3. /\ Failed(c) \in [Callers -> CallRecords] /\ Failed(c)[c].pc \in Quiet
      /\ \A d \in Callers : d # c => Failed(c)[d] = call[d]
  BY <1>2, FailedIs, QuietPoints DEF TypeOK
<1>4. Pool(entry', call', Tail(chain), sess, state.owner) BY <1>1, <1>2, <1>3, RemoveOfPool
<1> QED BY <1>1, <1>4 DEF PoolOK

LEMMA CommitEndPool ==
  ASSUME TypeOK, PoolOK, CommitEnd
  PROVE  PoolOK'
<1> DEFINE c == chain[1].who
<1>1. (Runs("commit", "current") \/ Runs("commit", "stale")) /\ chain' = Tail(chain) /\ sess' = sess /\ state'.owner = state.owner
  BY DEF CommitEnd, State
<1>2. c \in Callers /\ Jobless(c, Tail(chain)) /\ Pool(entry, call, Tail(chain), sess, state.owner) /\ call[c].pc = "commit"
  BY <1>1, FirstCommit DEF Runs
<1>3. call \in [Callers -> CallRecords] /\ retiring \in Owners BY DEF TypeOK
<1>4. /\ Failed(c) \in [Callers -> CallRecords] /\ Failed(c)[c].pc \in Quiet
      /\ \A d \in Callers : d # c => Failed(c)[d] = call[d]
  BY <1>2, <1>3, FailedIs, QuietPoints
<1>5. /\ Again(c) \in [Callers -> CallRecords] /\ Again(c)[c].pc \in Quiet
      /\ \A d \in Callers : d # c => Again(c)[d] = call[d]
  BY <1>2, <1>3, AgainIs, QuietPoints
<1>6. Current(c) => CommitsIn(entry, call, c) BY <1>2 DEF CommitsIn, Current
<1>7. ~Current(c) => ~CommitsIn(entry, call, c) BY DEF CommitsIn, Current
<1>8. ~HoldsIn(call, sess, c) BY <1>2 DEF HoldsIn
<1>9. CASE call[c].aborted /\ Current(c)
  <2>1. entry' = [entry EXCEPT !.phase = "ready"] /\ call' = Settled(Failed(c), entry.gen)
    BY <1>9 DEF CommitEnd, MakeReady
  <2>2. \A d \in Callers : ~HoldsIn(call, sess, d) BY <1>2, <1>6, <1>9 DEF Pool, Turns
  <2>3. Pool([entry EXCEPT !.phase = "ready"], Settled(Failed(c), entry.gen), Tail(chain), sess, state.owner)
    BY <1>2, <1>4, <1>6, <1>9, <2>2, OneFrees
  <2> QED BY <1>1, <2>1, <2>3 DEF PoolOK
<1>10. CASE call[c].aborted /\ ~Current(c)
  <2>1. entry' = entry /\ call' = Failed(c) BY <1>10 DEF CommitEnd
  <2>2. Pool(entry, Failed(c), Tail(chain), sess, state.owner) BY <1>2, <1>4, <1>7, <1>8, <1>10, OneLeaves
  <2> QED BY <1>1, <2>1, <2>2 DEF PoolOK
<1>11. CASE ~call[c].aborted /\ ~Current(c)
  <2>1. entry' = entry /\ call' = Again(c) BY <1>11 DEF CommitEnd
  <2>2. Pool(entry, Again(c), Tail(chain), sess, state.owner) BY <1>2, <1>5, <1>7, <1>8, <1>11, OneLeaves
  <2> QED BY <1>1, <2>1, <2>2 DEF PoolOK
<1>12. CASE ~call[c].aborted /\ Current(c)
  <2>1. entry' = [entry EXCEPT !.phase = "reserved"] /\ call' = At(c, "reserved") BY <1>12 DEF CommitEnd
  <2>2. "reserved" \in Points BY DEF Points
  <2>3. /\ At(c, "reserved") \in [Callers -> CallRecords]
        /\ At(c, "reserved")[c].pc = "reserved" /\ At(c, "reserved")[c].gen = call[c].gen
        /\ \A d \in Callers : d # c => At(c, "reserved")[d] = call[d]
    BY <1>2, <1>3, <2>2, AtIs
  <2>4. Pool([entry EXCEPT !.phase = "reserved"], At(c, "reserved"), Tail(chain), sess, state.owner)
    BY <1>2, <1>6, <1>12, <2>3, PoolReserve
  <2> QED BY <1>1, <2>1, <2>4 DEF PoolOK
<1> QED BY <1>9, <1>10, <1>11, <1>12

\* Nobody initializes nothing.
LEMMA PoolNobody ==
  ASSUME NEW e, NEW cs, NEW ch, NEW ss, NEW o, Pool(e, cs, ch, ss, o)
  PROVE  Pool(e, cs, ch, ss, Nobody)
<1>1. Nobody \notin Sessions BY BoundsAssumption DEF Nobody, Sessions
<1>2. \A i \in 1 .. Len(ch) : ch[i].kind = "init" => ch[i].who \in Sessions BY DEF Pool, Queue, JobOK, OfSessions
<1> QED BY <1>1, <1>2, PoolOwner

LEMMA CheckStartPool ==
  ASSUME TypeOK, PoolOK, CheckStart
  PROVE  PoolOK'
<1> DEFINE c == chain[1].who
           stage == IF stored = chain[1].src THEN "current" ELSE "stale"
<1>1. Runs("check", "queued") /\ UNCHANGED <<entry, call, sess, state>> BY DEF CheckStart
<1>2. chain # <<>> /\ chain[1].kind = "check" /\ chain[1] \in JobRecords /\ chain[1].src \in Artifacts
  BY <1>1, FirstJob DEF Runs, JobRecords
<1>3. CASE call[c].pc # "check"
  <2>1. chain' = Tail(chain) BY <1>3 DEF CheckStart
  <2>2. Pool(entry, call, Tail(chain), sess, state.owner) BY <1>2, FirstJob
  <2> QED BY <1>1, <2>1, <2>2 DEF PoolOK
<1>4. CASE call[c].pc = "check"
  <2>1. chain' = [chain EXCEPT ![1].stage = stage] BY <1>4 DEF CheckStart
  <2>2. stage \in Stages BY DEF Stages
  <2> HIDE DEF stage
  <2>3. [chain EXCEPT ![1].stage = stage] = AtStage(stage, chain[1].src)
    <3>1. [chain[1] EXCEPT !.stage = stage] = [chain[1] EXCEPT !.stage = stage, !.src = chain[1].src]
      BY <1>2 DEF JobRecords
    <3>2. AtStage(stage, chain[1].src) = [chain EXCEPT ![1] = [chain[1] EXCEPT !.stage = stage, !.src = chain[1].src]]
      BY DEF AtStage
    <3> QED BY <3>1, <3>2
  <2>4. Pool(entry, call, AtStage(stage, chain[1].src), sess, state.owner) BY <1>2, <1>4, <2>2, StagePool DEF PoolOK
  <2> QED BY <1>1, <2>1, <2>3, <2>4 DEF PoolOK
<1> QED BY <1>3, <1>4

\* The view of a source, and of a session.
LEMMA ViewTyped ==
  ASSUME TypeOK
  PROVE  /\ \A c \in Callers : Balanced(call[c].src) \in Logs
         /\ \A k \in Registered : sess[k].log \in Logs
         /\ \A c \in Callers, view \in Logs : Answers(c, view) \in BOOLEAN
<1>1. \A c \in Callers : call[c].src \in Artifacts BY DEF TypeOK, CallRecords
<1>2. \A k \in Registered : sess[k].log \in Logs BY DEF Registered, TypeOK, SessionRecords
<1>3. \A c \in Callers, view \in Logs : Answers(c, view) \in BOOLEAN BY DEF Answers, Covers
<1> QED BY <1>1, <1>2, <1>3, BalancedTyped

LEMMA CheckEndPool ==
  ASSUME TypeOK, PoolOK, CheckEnd
  PROVE  PoolOK'
<1> DEFINE c == chain[1].who
           rest == Tail(chain)
<1>1. (Runs("check", "current") \/ Runs("check", "stale")) /\ UNCHANGED <<sess, state>> BY DEF CheckEnd
<1>2. chain # <<>> /\ chain[1].kind = "check" BY <1>1 DEF Runs
<1>3. c \in Callers /\ Outside(c, rest) /\ rest \in Seq(JobRecords) /\ Pool(entry, call, rest, sess, state.owner)
  BY <1>2, FirstJob, FirstOutside
<1>4. call \in [Callers -> CallRecords] /\ retiring \in Owners BY DEF TypeOK
<1>5. /\ Again(c) \in [Callers -> CallRecords] /\ Again(c)[c].pc \in Quiet
      /\ \A d \in Callers : d # c => Again(c)[d] = call[d]
  BY <1>3, <1>4, AgainIs, QuietPoints
<1>6. CASE call' = At(c, "caught") /\ chain' = rest /\ entry' = entry
  <2>1. "caught" \in Points /\ "caught" \in Quiet BY QuietPoints
  <2>2. /\ At(c, "caught") \in [Callers -> CallRecords] /\ At(c, "caught")[c].pc = "caught"
        /\ \A d \in Callers : d # c => At(c, "caught")[d] = call[d]
    BY <1>3, <1>4, <2>1, AtIs
  <2>3. Pool(entry, At(c, "caught"), rest, sess, state.owner) BY <1>3, <2>1, <2>2, OneLeaves DEF Outside
  <2> QED BY <1>1, <1>6, <2>3 DEF PoolOK
<1>7. CASE entry' = entry /\ \E fresh \in BOOLEAN, view \in Logs : Inspected(c, fresh, view, rest)
  <2>1. PICK fresh \in BOOLEAN, view \in Logs : Inspected(c, fresh, view, rest) BY <1>7
  <2>2. Pool(entry, call', chain', sess, state.owner) BY <1>3, <2>1, InspectedPool
  <2> QED BY <1>1, <1>7, <2>2 DEF PoolOK
<1>8. CASE entry.phase = "ready" /\ Remove(Again(c)) /\ chain' = rest
  <2>1. entry' = NoEntry /\ call' = Settled(Again(c), entry.gen) BY <1>8 DEF Remove
  <2>2. \A d \in Callers : ~HoldsIn(call, sess, d) BY <1>8, PoolIs DEF Turns
  <2>3. Pool(NoEntry, Settled(Again(c), entry.gen), rest, sess, state.owner) BY <1>3, <1>5, <2>2, OneFrees DEF Outside
  <2> QED BY <1>1, <1>8, <2>1, <2>3 DEF PoolOK
<1>9. CASE call' = Again(c) /\ chain' = rest /\ entry' = entry
  <2>1. Pool(entry, Again(c), rest, sess, state.owner) BY <1>3, <1>5, OneLeaves DEF Outside
  <2> QED BY <1>1, <1>9, <2>1 DEF PoolOK
<1>10. \/ call' = At(c, "caught") /\ chain' = rest /\ entry' = entry
       \/ entry' = entry /\ \E k \in Registered : Inspected(c, TRUE, sess[k].log, rest)
       \/ entry' = entry /\ Inspected(c, Answers(c, Balanced(call[c].src)), Balanced(call[c].src), rest)
       \/ entry' = entry /\ Inspected(c, TRUE, Balanced(call[c].src), rest)
       \/ entry.phase = "ready" /\ Remove(Again(c)) /\ chain' = rest
       \/ call' = Again(c) /\ chain' = rest /\ entry' = entry
  BY DEF CheckEnd
<1> HIDE DEF rest, c
<1> QED BY <1>3, <1>6, <1>7, <1>8, <1>9, <1>10, ViewTyped

LEMMA CreateStartPool ==
  ASSUME TypeOK, PoolOK, CreateStart
  PROVE  PoolOK'
<1> DEFINE c == chain[1].who
<1>1. Runs("create", "queued") /\ UNCHANGED <<entry, sess, state>> BY DEF CreateStart
<1>2. chain # <<>> /\ chain[1].kind = "create" BY <1>1 DEF Runs
<1>3. c \in Callers /\ Outside(c, Tail(chain)) /\ Pool(entry, call, Tail(chain), sess, state.owner)
      /\ call[c].pc = "create" /\ call \in [Callers -> CallRecords] /\ stored \in Artifacts
  <2>1. c \in Callers /\ Outside(c, Tail(chain)) /\ Pool(entry, call, Tail(chain), sess, state.owner)
    BY <1>2, FirstJob, FirstOutside
  <2>2. call[c].pc = "create" BY <1>2, FirstJob DEF JobOK, Awaited
  <2> QED BY <2>1, <2>2 DEF TypeOK
<1>4. CASE chain' = Tail(chain) /\ call' = Failed(c)
  <2>1. Failed(c) \in [Callers -> CallRecords] /\ Failed(c)[c].pc \in Quiet /\ \A d \in Callers : d # c => Failed(c)[d] = call[d]
    BY <1>3, FailedIs, QuietPoints
  <2>2. Pool(entry, Failed(c), Tail(chain), sess, state.owner) BY <1>3, <2>1, OneLeaves DEF Outside
  <2> QED BY <1>1, <1>4, <2>2 DEF PoolOK
<1>5. CASE chain' = AtStage("read", stored) /\ call' = call
  <2>1. "read" \in Stages BY DEF Stages
  <2>2. Pool(entry, call, AtStage("read", stored), sess, state.owner) BY <1>2, <1>3, <2>1, StagePool DEF PoolOK
  <2> QED BY <1>1, <1>5, <2>2 DEF PoolOK
<1> QED BY <1>4, <1>5 DEF CreateStart

LEMMA CreateEndPool ==
  ASSUME TypeOK, PoolOK, CreateEnd
  PROVE  PoolOK'
<1> DEFINE c == chain[1].who
<1>1. Runs("create", "read") /\ chain' = Tail(chain) /\ UNCHANGED <<entry, sess>> BY DEF CreateEnd
<1>2. chain # <<>> /\ chain[1].kind = "create" BY <1>1 DEF Runs
<1>3. c \in Callers /\ Outside(c, Tail(chain)) /\ Pool(entry, call, Tail(chain), sess, state.owner)
      /\ call \in [Callers -> CallRecords]
  BY <1>2, FirstJob, FirstOutside DEF TypeOK
<1>4. Failed(c) \in [Callers -> CallRecords] /\ Failed(c)[c].pc \in Quiet /\ \A d \in Callers : d # c => Failed(c)[d] = call[d]
  BY <1>3, FailedIs, QuietPoints
<1>5. Pool(entry, Failed(c), Tail(chain), sess, state.owner) BY <1>3, <1>4, OneLeaves DEF Outside
<1>6. Pool(entry, Failed(c), Tail(chain), sess, Nobody) BY <1>5, PoolNobody
<1>7. call' = Failed(c) /\ (state'.owner = state.owner \/ state'.owner = Nobody)
  BY <1>3, FailedIs DEF CreateEnd, State
<1> QED BY <1>1, <1>5, <1>6, <1>7 DEF PoolOK

LEMMA AppendStartPool ==
  ASSUME TypeOK, PoolOK, AppendStart \/ AppendRead
  PROVE  PoolOK'
<1> DEFINE c == chain[1].who
<1>1. UNCHANGED <<sess, state>> BY DEF AppendStart, AppendRead
<1>2. chain # <<>> /\ chain[1].kind = "append" BY DEF AppendStart, AppendRead, Runs
<1>3. c \in Callers /\ Outside(c, Tail(chain)) /\ Pool(entry, call, Tail(chain), sess, state.owner)
      /\ call[c].pc = "append" /\ call \in [Callers -> CallRecords] /\ stored \in Artifacts /\ entry.src \in Artifacts /\ chain[1].src \in Artifacts
  <2>1. c \in Callers /\ Outside(c, Tail(chain)) /\ Pool(entry, call, Tail(chain), sess, state.owner)
    BY <1>2, FirstJob, FirstOutside
  <2>2. call[c].pc = "append" BY <1>2, FirstJob DEF JobOK, Awaited
  <2> QED BY <1>2, <2>1, <2>2, FirstJob DEF TypeOK, Entries, JobRecords
<1>4. CASE chain' = Tail(chain) /\ call' = Failed(c) /\ entry' = entry
  <2>1. Failed(c) \in [Callers -> CallRecords] /\ Failed(c)[c].pc \in Quiet /\ \A d \in Callers : d # c => Failed(c)[d] = call[d]
    BY <1>3, FailedIs, QuietPoints
  <2>2. Pool(entry, Failed(c), Tail(chain), sess, state.owner) BY <1>3, <2>1, OneLeaves DEF Outside
  <2> QED BY <1>1, <1>4, <2>2 DEF PoolOK
<1>5. CASE (\E stage \in Stages, src \in Artifacts : chain' = AtStage(stage, src)) /\ UNCHANGED <<call, entry>>
  <2>1. PICK stage \in Stages, src \in Artifacts : chain' = AtStage(stage, src) BY <1>5
  <2>2. Pool(entry, call, AtStage(stage, src), sess, state.owner) BY <1>2, <1>3, StagePool DEF PoolOK
  <2> QED BY <1>1, <1>5, <2>1, <2>2 DEF PoolOK
<1>6. CASE chain' = AtStage("adopt", entry.src) /\ entry.phase = "ready" /\ Remove(call)
  <2>1. entry' = NoEntry /\ call' = Settled(call, entry.gen) BY <1>6 DEF Remove
  <2>2. Settled(call, entry.gen)[c] = call[c] BY <1>3, SettledIs
  <2>3. Pool(NoEntry, Settled(call, entry.gen), chain, sess, state.owner) BY <1>6, NoneLeaves DEF PoolOK
  <2>4. "adopt" \in Stages BY DEF Stages
  <2>5. Pool(NoEntry, Settled(call, entry.gen), AtStage("adopt", entry.src), sess, state.owner)
    BY <1>2, <1>3, <2>2, <2>3, <2>4, StagePool
  <2> QED BY <1>1, <1>6, <2>1, <2>5 DEF PoolOK
<1>7. \/ chain' = Tail(chain) /\ call' = Failed(c) /\ entry' = entry
      \/ (\E stage \in Stages, src \in {Absent, stored, chain[1].src} : chain' = AtStage(stage, src)) /\ UNCHANGED <<call, entry>>
      \/ chain' = AtStage("adopt", entry.src) /\ entry.phase = "ready" /\ Remove(call)
  BY DEF AppendStart, AppendRead, Stages
<1> QED BY <1>3, <1>4, <1>5, <1>6, <1>7, ConstantsTyped

LEMMA AdoptPool ==
  ASSUME TypeOK, PoolOK, Adopt
  PROVE  PoolOK'
<1>1. Runs("append", "adopt") /\ UNCHANGED <<entry, call, sess>> BY DEF Adopt
<1>2. chain # <<>> /\ chain[1].kind = "append" BY <1>1 DEF Runs
<1>3. call[chain[1].who].pc = "append" BY <1>2, FirstJob DEF JobOK, Awaited
<1>4. chain[1].src \in Artifacts /\ stored \in Artifacts /\ Repaired(chain[1].src) \in Artifacts
  BY <1>2, FirstJob, BalancedTyped DEF JobRecords, TypeOK
<1>5. \E stage \in Stages, src \in Artifacts : chain' = AtStage(stage, src) BY <1>4 DEF Adopt, Stages
<1>6. PICK stage \in Stages, src \in Artifacts : chain' = AtStage(stage, src) BY <1>5
<1>7. Pool(entry, call, chain', sess, state.owner) BY <1>2, <1>3, <1>6, StagePool DEF PoolOK
<1>8. state'.owner = state.owner \/ state'.owner = Nobody BY DEF Adopt, State
<1>9. Pool(entry, call, chain', sess, state'.owner) BY <1>7, <1>8, PoolNobody
<1> QED BY <1>1, <1>9 DEF PoolOK

LEMMA AppendEndPool ==
  ASSUME TypeOK, PoolOK, RunningShape, AppendEnd
  PROVE  PoolOK'
<1> DEFINE c == chain[1].who
<1>1. Runs("append", "write") /\ chain' = Tail(chain) /\ UNCHANGED <<sess>> BY DEF AppendEnd
<1>2. chain # <<>> /\ chain[1].kind = "append" /\ entry.phase # "reserved" BY <1>1 DEF Runs, RunningShape
<1>3. c \in Callers /\ Outside(c, Tail(chain)) /\ Pool(entry, call, Tail(chain), sess, state.owner)
      /\ call \in [Callers -> CallRecords] /\ call[c].fresh \in BOOLEAN
  <2>1. c \in Callers /\ Outside(c, Tail(chain)) /\ Pool(entry, call, Tail(chain), sess, state.owner)
    BY <1>2, FirstJob, FirstOutside
  <2> QED BY <2>1 DEF TypeOK, CallRecords
<1>4. state'.owner = state.owner BY DEF AppendEnd, Advanced, TypeOK, States
<1>5. CASE Invalidate(Over(c, "over", call[c].fresh))
  <2> DEFINE ds == Over(c, "over", call[c].fresh)
  <2>1. ds \in [Callers -> CallRecords] /\ ds[c].pc = "over" /\ \A d \in Callers : d # c => ds[d] = call[d]
    BY <1>3, OverIs DEF Points
  <2>2. Invalidate(ds) BY <1>5
  <2> HIDE DEF ds
  <2>3. \A d \in Callers : ds[d] = call[d] \/ (ds[d].pc \in Quiet /\ Outside(d, Tail(chain)))
    BY <1>3, <2>1, QuietPoints
  <2>4. Pool(entry', call', Tail(chain), sess, state.owner) BY <1>2, <1>3, <2>1, <2>2, <2>3, InvalidatePool
  <2> QED BY <1>1, <1>4, <2>4 DEF PoolOK
<1>6. CASE call' = Failed(c) /\ entry' = entry
  <2>1. Failed(c) \in [Callers -> CallRecords] /\ Failed(c)[c].pc \in Quiet /\ \A d \in Callers : d # c => Failed(c)[d] = call[d]
    BY <1>3, FailedIs, QuietPoints
  <2>2. Pool(entry, Failed(c), Tail(chain), sess, state.owner) BY <1>3, <2>1, OneLeaves DEF Outside
  <2> QED BY <1>1, <1>4, <1>6, <2>2 DEF PoolOK
<1> QED BY <1>5, <1>6 DEF AppendEnd

--------
\* Sessions, and their jobs.

\* A session that nothing is to be done for.
LEMMA NoneOfIs ==
  ASSUME NEW e, NEW cs, NEW ch, NEW ss, NEW o, Pool(e, cs, ch, ss, o), NEW k \in Sessions,
         ss[k].init # "pending", ss[k].init = "ok" => ss[k].life \notin {"live", "flushing"}, ss[k].life # "cleaning"
  PROVE  NoneOf(k, ch)
<1> SUFFICES ASSUME NEW i \in 1 .. Len(ch), ch[i].kind \in OfSessions, ch[i].who = k PROVE FALSE BY DEF NoneOf
<1>1. JobOK(ch[i], e, cs, ss, o) BY DEF Pool, Queue
<1> QED BY <1>1 DEF JobOK, OfSessions, Initial

\* The first job is a session's, and its last, if the session is initialized or cleaned up by it.
LEMMA FirstLast ==
  ASSUME TypeOK, PoolOK, InitShape, chain # <<>>, chain[1].kind \in Initial \cup {"retire"}
  PROVE  chain[1].who \in Sessions /\ NoneOf(chain[1].who, Tail(chain)) /\ Pool(entry, call, Tail(chain), sess, state.owner)
<1> DEFINE k == chain[1].who
<1>1. /\ chain[1].kind \in OfSessions /\ chain[1].kind # "load" BY DEF Initial, OfSessions
<1>2. k \in Sessions /\ JobOK(chain[1], entry, call, sess, state.owner) /\ Pool(entry, call, Tail(chain), sess, state.owner)
  BY <1>1, FirstJob
<1>3. chain \in Seq(JobRecords) /\ Queue(chain, entry, call, sess, state.owner) BY PoolIs DEF TypeOK
<1>4. ASSUME NEW i \in 1 .. Len(Tail(chain)), Tail(chain)[i].kind \in OfSessions, Tail(chain)[i].who = k PROVE FALSE
  <2>1. PairOK(chain[1], Tail(chain)[i], entry.gen) BY <1>3, QueuePop
  <2>2. JobOK(Tail(chain)[i], entry, call, sess, state.owner) BY <1>2 DEF Pool, Queue
  <2>3. chain[1].kind \in Initial => sess[k].init = "pending" /\ sess[k].life \in {"live", "flushing"}
    BY <1>2 DEF JobOK, InitShape
  <2>4. chain[1].kind = "retire" => sess[k].life = "cleaning" /\ sess[k].init # "pending" BY <1>2 DEF JobOK, InitShape
  <2> QED BY <1>4, <2>1, <2>2, <2>3, <2>4 DEF JobOK, PairOK, OfSessions, Initial
<1> QED BY <1>2, <1>4 DEF NoneOf

\* One session changes: none of its jobs is queued, and no holder entered it, or it does not end that.
LEMMA PoolOther ==
  ASSUME NEW e, NEW cs, NEW ch, NEW ss, NEW o, Pool(e, cs, ch, ss, o), NEW k \in Sessions, NoneOf(k, ch),
         NEW ts \in [Sessions -> SessionRecords], \A l \in Sessions : l # k => ts[l] = ss[l],
         ts[k].life = ss[k].life \/ \A c \in Callers : cs[c].pc = "entered" => cs[c].awaits # k
  PROVE  Pool(e, cs, ch, ts, o) /\ Pool(e, cs, ch, ts, k)
<1>1. Queue(ch, e, cs, ts, o)
  <2>1. Queue(ch, e, cs, ss, o) BY DEF Pool
  <2>2. ASSUME NEW i \in 1 .. Len(ch) PROVE JobOK(ch[i], e, cs, ts, o)
    <3>1. JobOK(ch[i], e, cs, ss, o) BY <2>1 DEF Queue
    <3>2. ch[i].kind \in OfSessions => ch[i].who \in Sessions /\ ch[i].who # k BY <3>1 DEF JobOK, NoneOf
    <3>3. ch[i].kind \in OfSessions => ts[ch[i].who] = ss[ch[i].who] BY <3>2
    <3> QED BY <3>1, <3>3 DEF JobOK, OfSessions, Initial
  <2> QED BY <2>1, <2>2, QueueChange
<1>2. \A c \in Callers : cs[c].pc = "entered" => cs[c].awaits \in Sessions BY DEF Pool, EntersOnce
<1>3. \A c \in Callers : cs[c].pc = "entered" => ts[cs[c].awaits].life = ss[cs[c].awaits].life BY <1>2
<1>4. Pool(e, cs, ch, ts, o) BY <1>1, <1>3, PoolSess
<1>5. \A i \in 1 .. Len(ch) : ch[i].kind = "init" => ch[i].who # k BY DEF NoneOf, OfSessions
<1> QED BY <1>4, <1>5, PoolOwner

\* The jobs of a session that goes on, initialized: it detaches, or writes, or grows.
LEMMA PoolGoesOn ==
  ASSUME NEW e, NEW cs, NEW ch, NEW ss, NEW o, Pool(e, cs, ch, ss, o), NEW k \in Sessions,
         NEW ts \in [Sessions -> SessionRecords], \A l \in Sessions : l # k => ts[l] = ss[l],
         ss[k].life \in {"live", "flushing"}, ts[k].life \in {"live", "flushing"}, ts[k].init = ss[k].init,
         ts[k].acked = ss[k].acked \/ ss[k].init # "pending", Len(ss[k].log) <= Len(ts[k].log),
         ts[k].life = ss[k].life \/ \A c \in Callers : cs[c].pc = "entered" => cs[c].awaits # k
  PROVE  Pool(e, cs, ch, ts, o)
<1>0. ch \in Seq(JobRecords) /\ Queue(ch, e, cs, ss, o) /\ ss \in [Sessions -> SessionRecords] BY DEF Pool
<1>1. Queue(ch, e, cs, ts, o)
  <2>2. ASSUME NEW i \in 1 .. Len(ch) PROVE JobOK(ch[i], e, cs, ts, o)
    <3>1. JobOK(ch[i], e, cs, ss, o) BY <1>0 DEF Queue
    <3>2. ch[i].kind \in OfSessions => ch[i].who \in Sessions BY <3>1 DEF JobOK
    <3>3. CASE ch[i].kind \in OfSessions /\ ch[i].who = k
      <4>1. ch[i].kind # "retire" BY <3>1, <3>3 DEF JobOK
      <4>2. ch[i].upto \in Nat /\ Len(ss[k].log) \in Nat /\ Len(ts[k].log) \in Nat
        <5>1. ch[i] \in JobRecords BY <1>0, ElementOfSeq
        <5>2. ss[k].log \in Seq(Int) /\ ts[k].log \in Seq(Int) BY <1>0 DEF SessionRecords, Logs
        <5> QED BY <5>1, <5>2, LenProperties DEF JobRecords
      <4>3. ch[i].upto <= Len(ss[k].log) => ch[i].upto <= Len(ts[k].log) BY <4>2
      <4> QED BY <3>1, <3>3, <4>1, <4>3 DEF JobOK, OfSessions, Initial
    <3>4. CASE ~(ch[i].kind \in OfSessions /\ ch[i].who = k)
      <4>1. ch[i].kind \in OfSessions => ts[ch[i].who] = ss[ch[i].who] BY <3>2, <3>4
      <4> QED BY <3>1, <4>1 DEF JobOK, OfSessions, Initial
    <3> QED BY <3>3, <3>4
  <2> QED BY <1>0, <2>2, QueueChange
<1>2. \A c \in Callers : cs[c].pc = "entered" => cs[c].awaits \in Sessions BY DEF Pool, EntersOnce
<1>3. \A c \in Callers : cs[c].pc = "entered" => ts[cs[c].awaits].life = ss[cs[c].awaits].life BY <1>2
<1> QED BY <1>1, <1>3, PoolSess

\* The job that initializes k.
LEMMA PoolInitial ==
  ASSUME NEW e, NEW cs, NEW ch, NEW ss, NEW o, Pool(e, cs, ch, ss, o), NEW k \in Sessions, NoneOf(k, ch), e = NoEntry,
         NEW j \in JobRecords, j.kind \in Initial, j.who = k, j.stage = "queued", ss[k].init = "pending",
         ss[k].acked <= j.upto, j.upto <= Len(ss[k].log), j.kind = "init" => o # k
  PROVE  Pool(e, cs, Append(ch, j), ss, o)
<1>0. e.phase = "none" /\ e.gen = 0 BY DEF NoEntry
<1>1. JobOK(j, e, cs, ss, o) BY <1>0 DEF JobOK, OfCalls, OfSessions, Awaited, Initial
<1>2. ASSUME NEW i \in 1 .. Len(ch) PROVE PairOK(ch[i], j, e.gen)
  <2>1. JobOK(ch[i], e, cs, ss, o) BY DEF Pool, Queue
  <2>2. ch[i].kind = "load" => ch[i].gen # e.gen BY <1>0, <2>1 DEF JobOK
  <2>3. ch[i].kind \in Initial => ch[i].who # k BY DEF NoneOf, OfSessions, Initial
  <2> QED BY <2>2, <2>3 DEF PairOK, Awaited, Initial
<1> QED BY <1>1, <1>2, PoolPush

\* onCreated is queued for a session that nobody entered, unowned as it never was live.
LEMMA StartInitPool ==
  ASSUME TypeOK, InitShape, OwnerPresent, NEW cs, Pool(NoEntry, cs, chain, sess, state.owner), NEW k \in Sessions,
         sess[k].life \in {"unborn", "entered"}, \A c \in Callers : cs[c].pc = "entered" => cs[c].awaits # k, StartInit(k)
  PROVE  Pool(NoEntry, cs, chain', sess', state.owner)
<1> DEFINE j == [Job("init", k) EXCEPT !.upto = Len(sess[k].log)]
           r == [sess[k] EXCEPT !.life = "live", !.init = "pending"]
<1>1. sess' = [sess EXCEPT ![k] = r] /\ chain' = Append(chain, j) BY DEF StartInit
<1>2. sess[k] \in SessionRecords /\ sess[k].init = "none" /\ sess[k].acked = 0 /\ sess[k].log \in Logs
  BY DEF TypeOK, InitShape, SessionRecords
<1>3. r \in SessionRecords /\ r.init = "pending" /\ r.acked = 0 /\ r.log = sess[k].log
  BY <1>2 DEF SessionRecords, Lives
<1>4. Len(sess[k].log) \in Nat BY <1>2, LenProperties DEF Logs
<1>5. j \in JobRecords BY <1>4, JobTyped, ConstantsTyped DEF OfSessions
<1>6. j.kind = "init" /\ j.who = k /\ j.stage = "queued" /\ j.upto = Len(sess[k].log) BY DEF Job
<1> HIDE DEF j, r
<1>7. sess' \in [Sessions -> SessionRecords] /\ sess'[k] = r /\ \A l \in Sessions : l # k => sess'[l] = sess[l]
  BY <1>1, <1>3 DEF TypeOK
<1>8. NoneOf(k, chain) BY <1>2, NoneOfIs
<1>9. Pool(NoEntry, cs, chain, sess', state.owner) BY <1>7, <1>8, PoolOther
<1>10. state.owner # k
  <2>1. k # Nobody BY BoundsAssumption DEF Nobody, Sessions
  <2> QED BY <2>1 DEF OwnerPresent
<1>11. sess'[k].acked <= j.upto /\ j.upto <= Len(sess'[k].log) /\ sess'[k].init = "pending" BY <1>3, <1>4, <1>6, <1>7
<1>12. j.kind \in Initial BY <1>6 DEF Initial
<1>13. Pool(NoEntry, cs, Append(chain, j), sess', state.owner)
  BY <1>5, <1>6, <1>8, <1>9, <1>10, <1>11, <1>12, PoolInitial
<1> QED BY <1>1, <1>13

\* A session is attached: its holder is not one any more, and whoever waited looks again.
LEMMA AttachPool ==
  ASSUME TypeOK, PoolOK, InitShape, NEW k \in Sessions, sess[k].life \in {"unborn", "entered"}, NEW log \in Logs,
         NEW calls \in [Callers -> CallRecords], Attach(k, log, calls),
         \A c \in Callers : Leaves(c, calls, chain) \/ (Stays(c, call, calls) /\ ~HoldsIn(call, sess', c))
  PROVE  PoolOK'
<1> DEFINE setup == Len(log) > state.cursor
           r == [life |-> "live", log |-> log, acked |-> Len(log), init |-> IF setup THEN "pending" ELSE "ok"]
           j == [Job("suffix", k) EXCEPT !.upto = Len(log), !.src = entry.src]
           cs == Settled(calls, entry.gen)
<1>1. /\ sess' = [sess EXCEPT ![k] = r]
      /\ chain' = IF setup THEN Append(chain, j) ELSE chain
      /\ state' = [state EXCEPT !.owner = k]
      /\ entry' = NoEntry /\ call' = cs
  BY DEF Attach, Remove
<1>2. Len(log) \in Nat BY LenProperties DEF Logs
<1>3. r \in SessionRecords /\ r.life = "live" /\ r.acked = Len(log) /\ r.log = log /\ (setup => r.init = "pending")
  BY <1>2 DEF SessionRecords, Lives
<1>4. j \in JobRecords BY <1>2, JobTyped, ConstantsTyped DEF OfSessions, TypeOK, Entries
<1>5. j.kind = "suffix" /\ j.who = k /\ j.stage = "queued" /\ j.upto = Len(log) BY DEF Job
<1> HIDE DEF j, r, setup, cs
<1>6. sess' \in [Sessions -> SessionRecords] /\ sess'[k] = r /\ \A l \in Sessions : l # k => sess'[l] = sess[l]
  BY <1>1, <1>3 DEF TypeOK
<1>7. sess[k].init = "none" BY DEF InitShape
<1>8. NoneOf(k, chain) BY <1>7, NoneOfIs DEF PoolOK
<1>9. Queue(chain, entry, call, sess', state.owner)
  <2>1. Queue(chain, entry, call, sess, state.owner) BY PoolIs
  <2>2. ASSUME NEW i \in 1 .. Len(chain) PROVE JobOK(chain[i], entry, call, sess', state.owner)
    <3>1. JobOK(chain[i], entry, call, sess, state.owner) BY <2>1 DEF Queue
    <3>2. chain[i].kind \in OfSessions => chain[i].who \in Sessions /\ chain[i].who # k
      BY <1>8, <3>1 DEF JobOK, NoneOf
    <3>3. chain[i].kind \in OfSessions => sess'[chain[i].who] = sess[chain[i].who] BY <1>6, <3>2
    <3> QED BY <3>1, <3>3 DEF JobOK, OfSessions, Initial
  <2> QED BY <2>1, <2>2, QueueChange
<1>10. EntersOnce(calls, sess')
  <2>1. \A c \in Callers : calls[c].pc = "entered" => call[c].pc = "entered" /\ calls[c].awaits = call[c].awaits
    BY DEF Leaves, Stays, Quiet, Referring
  <2>2. EntersOnce(call, sess) BY PoolIs
  <2>3. sess'[k].life = "live" BY <1>3, <1>6
  <2> QED BY <1>6, <2>1, <2>2, <2>3 DEF EntersOnce
<1>11. Pool(NoEntry, cs, chain, sess', state.owner)
  <2>1. Pool(NoEntry, Settled(calls, entry.gen), chain, sess', state.owner)
    BY <1>6, <1>9, <1>10, PoolFree, ConstantsTyped DEF PoolOK
  <2> QED BY <2>1 DEF cs
<1>12. Pool(NoEntry, cs, chain, sess', k) BY <1>6, <1>8, <1>11, PoolOther
<1>13. state'.owner = k BY <1>1 DEF TypeOK, States
<1>14. CASE setup
  <2>1. sess'[k].init = "pending" /\ sess'[k].acked <= j.upto /\ j.upto <= Len(sess'[k].log) /\ j.kind \in Initial /\ j.kind # "init"
    BY <1>2, <1>3, <1>5, <1>6, <1>14 DEF Initial
  <2>2. Pool(NoEntry, cs, Append(chain, j), sess', k) BY <1>4, <1>5, <1>8, <1>12, <2>1, PoolInitial
  <2> QED BY <1>1, <1>13, <1>14, <2>2 DEF PoolOK
<1>15. CASE ~setup BY <1>1, <1>12, <1>13, <1>15 DEF PoolOK
<1> QED BY <1>14, <1>15

--------
\* The pool survives each step: holders and sessions.

\* Who holds the entry: no other does, and it has no job.
LEMMA HolderIs ==
  ASSUME TypeOK, PoolOK, NEW c \in Callers, HoldsIn(call, sess, c)
  PROVE  /\ \A d \in Callers : d # c => ~HoldsIn(call, sess, d)
         /\ Jobless(c, chain)
         /\ entry.phase = "reserved" /\ call[c].gen = entry.gen
<1>1. Turns(entry, call, sess) /\ Queue(chain, entry, call, sess, state.owner) BY PoolIs
<1>2. call[c].pc \in {"reserved", "holding", "entered"} BY DEF HoldsIn
<1>3. Jobless(c, chain) BY <1>1, <1>2, NoJobOf DEF Jobless, Awaited
<1> QED BY <1>1, <1>3 DEF Turns

\* The log that a prepared session is published with.
LEMMA PreparedTyped ==
  ASSUME TypeOK, NEW setup \in BOOLEAN, setup => Unborn # {}
  PROVE  PreparedLog(setup) \in Logs
<1>1. Balanced(entry.src) \in Logs BY BalancedTyped DEF TypeOK, Entries
<1>2. CASE setup
  <2>1. Next1(Unborn) \in Int BY <1>2, Next1In, BoundsAssumption DEF Sessions
  <2>2. <<Next1(Unborn)>> \in Logs BY <2>1 DEF Logs
  <2> QED BY <1>1, <1>2, <2>2, ConcatProperties DEF PreparedLog, Logs
<1>3. CASE ~setup
  <2>1. <<>> \in Logs BY DEF Logs
  <2> QED BY <1>1, <1>3, <2>1, ConcatProperties DEF PreparedLog, Logs
<1> QED BY <1>2, <1>3

LEMMA MeetLivePool ==
  ASSUME TypeOK, PoolOK, InitShape, OwnerPresent, NEW c \in Callers, MeetLive(c)
  PROVE  PoolOK'
<1>1. call[c].pc = "retirement" BY DEF MeetLive, Waited
<1>2. Outside(c, chain) /\ call \in [Callers -> CallRecords] /\ sess \in [Sessions -> SessionRecords] /\ chain \in Seq(JobRecords)
  BY <1>1, OutsideIs DEF TypeOK
<1>3. PICK k \in Registered :
        CASE call[c].op = "prepare" -> call' = Failed(c) /\ UNCHANGED <<state, entry, sess, chain>>
          [] call[c].op = "load" -> LoadLive(c, k)
          [] OTHER -> Inspected(c, TRUE, sess[k].log, chain) /\ UNCHANGED <<state, entry, sess>>
  BY DEF MeetLive
<1>4. k \in Sessions /\ sess[k].life \in {"entered", "live"} BY DEF Registered
<1>5. /\ Failed(c) \in [Callers -> CallRecords] /\ Failed(c)[c].pc \in Quiet
      /\ \A d \in Callers : d # c => Failed(c)[d] = call[d]
  BY <1>2, FailedIs, QuietPoints
<1>6. /\ AwaitsFlush(c, k) \in [Callers -> CallRecords] /\ AwaitsFlush(c, k)[c].pc = "flush"
      /\ \A d \in Callers : d # c => AwaitsFlush(c, k)[d] = call[d]
  BY <1>2, <1>4, AwaitsFlushIs
<1>7. Pool(entry, AwaitsFlush(c, k), chain, sess, state.owner)
  BY <1>2, <1>6, OneLeaves, QuietPoints DEF PoolOK, Outside
<1>8. CASE call' = Failed(c) /\ UNCHANGED <<state, entry, sess, chain>>
  <2>1. Pool(entry, Failed(c), chain, sess, state.owner) BY <1>2, <1>5, OneLeaves DEF PoolOK, Outside
  <2> QED BY <1>8, <2>1 DEF PoolOK
<1>9. CASE call' = AwaitsFlush(c, k) /\ UNCHANGED <<state, entry, sess, chain>> BY <1>7, <1>9 DEF PoolOK
<1>10. CASE sess[k].life # "live" /\ Entering(k) /\ Attach(k, sess[k].log, AwaitsFlush(c, k))
  <2>1. PICK h \in Callers : call[h].pc = "entered" /\ call[h].awaits = k BY <1>10 DEF Entering
  <2>2. sess[k].life = "entered" BY <1>4, <1>10
  <2>3. HoldsIn(call, sess, h) BY <2>1, <2>2 DEF HoldsIn
  <2>4. \A d \in Callers : d # h => ~HoldsIn(call, sess, d) BY <2>3, HolderIs
  <2>5. sess'[k].life = "live" /\ \A l \in Sessions : l # k => sess'[l] = sess[l]
    <3> DEFINE r == [life |-> "live", log |-> sess[k].log, acked |-> Len(sess[k].log),
                     init |-> IF Len(sess[k].log) > state.cursor THEN "pending" ELSE "ok"]
    <3>1. sess' = [sess EXCEPT ![k] = r] BY <1>10 DEF Attach
    <3>2. r.life = "live" OBVIOUS
    <3> HIDE DEF r
    <3> QED BY <1>2, <1>4, <3>1, <3>2
  <2>6. ASSUME NEW d \in Callers PROVE ~HoldsIn(call, sess', d)
    <3>1. call[d].pc = "entered" => call[d].awaits \in Sessions BY PoolIs DEF EntersOnce
    <3>2. CASE d = h BY <2>1, <2>5, <3>2 DEF HoldsIn
    <3>3. CASE d # h BY <2>4, <2>5, <3>1, <3>3 DEF HoldsIn
    <3> QED BY <3>2, <3>3
  <2>7. Leaves(c, AwaitsFlush(c, k), chain) BY <1>2, <1>6, QuietPoints DEF Leaves, Outside
  <2>8. \A d \in Callers : d # c => Stays(d, call, AwaitsFlush(c, k)) BY <1>6 DEF Stays
  <2>9. sess[k].log \in Logs BY <1>2, <1>4 DEF SessionRecords
  <2> QED BY <1>4, <1>6, <1>10, <2>6, <2>7, <2>8, <2>9, AttachPool
<1>11. CASE /\ sess[k].life # "live" /\ ~Entering(k) /\ entry.phase = "none"
            /\ StartInit(k) /\ call' = AwaitsFlush(c, k) /\ UNCHANGED <<state, entry>>
  <2>1. entry = NoEntry BY <1>11, PoolIs DEF Refers
  <2>2. \A d \in Callers : call'[d].pc = "entered" => call'[d].awaits # k BY <1>6, <1>11 DEF Entering
  <2>3. Pool(NoEntry, call', chain, sess, state.owner) BY <1>7, <1>11, <2>1
  <2>4. Pool(NoEntry, call', chain', sess', state.owner) BY <1>4, <1>11, <2>2, <2>3, StartInitPool
  <2> QED BY <1>11, <2>1, <2>4 DEF PoolOK
<1>12. CASE Inspected(c, TRUE, sess[k].log, chain) /\ UNCHANGED <<state, entry, sess>>
  <2>1. sess[k].log \in Logs BY <1>2, <1>4 DEF SessionRecords
  <2>2. Pool(entry, call', chain', sess, state.owner) BY <1>2, <1>12, <2>1, InspectedPool DEF PoolOK
  <2> QED BY <1>12, <2>2 DEF PoolOK
<1>13. LoadLive(c, k) =>
         \/ call' = AwaitsFlush(c, k) /\ UNCHANGED <<state, entry, sess, chain>>
         \/ sess[k].life # "live" /\ Entering(k) /\ Attach(k, sess[k].log, AwaitsFlush(c, k))
         \/ /\ sess[k].life # "live" /\ ~Entering(k) /\ entry.phase = "none"
            /\ StartInit(k) /\ call' = AwaitsFlush(c, k) /\ UNCHANGED <<state, entry>>
         \/ call' = Failed(c) /\ UNCHANGED <<state, entry, sess, chain>>
  BY DEF LoadLive
<1> QED BY <1>3, <1>8, <1>9, <1>10, <1>11, <1>12, <1>13

LEMMA ReservedPool ==
  ASSUME TypeOK, PoolOK, InitShape, OwnerPresent, NoLiveWithEntry, NEW c \in Callers, Reserved(c)
  PROVE  PoolOK'
<1>1. call[c].pc = "reserved" /\ state' = state BY DEF Reserved
<1>2. HoldsIn(call, sess, c) /\ call \in [Callers -> CallRecords] /\ sess \in [Sessions -> SessionRecords]
  BY <1>1 DEF HoldsIn, TypeOK
<1>3. (\A d \in Callers : d # c => ~HoldsIn(call, sess, d)) /\ Jobless(c, chain) /\ entry.phase = "reserved"
  BY <1>2, HolderIs
<1>4. ASSUME NEW ds \in [Callers -> CallRecords], ds[c].pc \in Quiet, \A d \in Callers : d # c => ds[d] = call[d]
      PROVE  Pool(NoEntry, Settled(ds, entry.gen), chain, sess, state.owner)
  BY <1>3, <1>4, OneFrees DEF PoolOK
<1>5. CASE call' = At(c, "holding") /\ UNCHANGED <<entry, sess, chain>>
  <2>1. "holding" \in Points BY DEF Points
  <2>2. /\ At(c, "holding") \in [Callers -> CallRecords]
        /\ At(c, "holding")[c].pc = "holding" /\ At(c, "holding")[c].gen = call[c].gen
        /\ \A d \in Callers : d # c => At(c, "holding")[d] = call[d]
    BY <1>2, <2>1, AtIs
  <2>3. Queue(chain, entry, call, sess, state.owner) BY PoolIs
  <2>4. Pool(entry, At(c, "holding"), chain, sess, state.owner) BY <1>2, <1>3, <2>2, <2>3, PoolHold DEF PoolOK
  <2> QED BY <1>1, <1>5, <2>4 DEF PoolOK
<1>6. CASE UNCHANGED <<sess, chain>> /\ \E fresh \in BOOLEAN : Remove(Over(c, "over", fresh))
  <2>1. PICK fresh \in BOOLEAN : Remove(Over(c, "over", fresh)) BY <1>6
  <2> DEFINE ds == Over(c, "over", fresh)
  <2>2. entry' = NoEntry /\ call' = Settled(ds, entry.gen) BY <2>1 DEF Remove
  <2>3. ds \in [Callers -> CallRecords] /\ ds[c].pc = "over" /\ \A d \in Callers : d # c => ds[d] = call[d]
    BY <1>2, OverIs DEF Points
  <2> HIDE DEF ds
  <2>4. Pool(NoEntry, Settled(ds, entry.gen), chain, sess, state.owner) BY <1>4, <2>3, QuietPoints
  <2> QED BY <1>1, <1>6, <2>2, <2>4 DEF PoolOK
<1>7. ASSUME NEW k \in Registered, Remove(AwaitsFlush(c, k)), StartInit(k) PROVE PoolOK'
  <2> DEFINE ds == AwaitsFlush(c, k)
             cs == Settled(ds, entry.gen)
  <2>1. k \in Sessions /\ sess[k].life = "entered" BY <1>3 DEF Registered, NoLiveWithEntry
  <2>2. entry' = NoEntry /\ call' = cs BY <1>7 DEF Remove
  <2>3. ds \in [Callers -> CallRecords] /\ ds[c].pc = "flush" /\ \A d \in Callers : d # c => ds[d] = call[d]
    BY <1>2, <2>1, AwaitsFlushIs
  <2> HIDE DEF ds
  <2>4. Pool(NoEntry, cs, chain, sess, state.owner) BY <1>4, <2>3, QuietPoints
  <2>5. \A d \in Callers : cs[d].pc = "entered" => ds[d].pc = "entered" /\ cs[d].awaits = ds[d].awaits
    BY <2>3, SettledIs
  <2> HIDE DEF cs
  <2>6. \A d \in Callers : cs[d].pc = "entered" => cs[d].awaits # k BY <1>3, <2>1, <2>3, <2>5 DEF HoldsIn
  <2>7. Pool(NoEntry, cs, chain', sess', state.owner) BY <1>7, <2>1, <2>4, <2>6, StartInitPool
  <2> QED BY <1>1, <2>2, <2>7 DEF PoolOK
<1>8. Answers(c, Balanced(entry.src)) \in BOOLEAN BY DEF Answers, Covers
<1> QED BY <1>5, <1>6, <1>7, <1>8 DEF Reserved, Failed

\* The preparation of c is disposed, over sessions ts.
LEMMA UnpublishedPool ==
  ASSUME TypeOK, PoolOK, NEW c \in Callers, HoldsIn(call, sess, c), NEW log, Unpublished(c, log),
         NEW ts \in [Sessions -> SessionRecords], Queue(chain, entry, call, ts, state.owner), EntersOnce(Ended(c), ts),
         \A d \in Callers : d # c => ~HoldsIn(call, ts, d)
  PROVE  Pool(entry', call', chain, ts, state.owner)
<1> DEFINE ds == Ended(c)
           f == IF log = Balanced(entry.src) THEN [entry EXCEPT !.phase = "ready"] ELSE NoEntry
<1>1. entry' = f /\ call' = Settled(ds, entry.gen) BY DEF Unpublished, MakeReady, Remove
<1>2. ds \in [Callers -> CallRecords] /\ ds[c].pc = "over" /\ \A d \in Callers : d # c => ds[d] = call[d]
  BY FailedIs DEF TypeOK
<1>3. EntersOnce(ds, ts) OBVIOUS
<1>4. f \in Entries BY ConstantsTyped DEF TypeOK, Entries, Phases
<1>5. f = NoEntry \/ f = [entry EXCEPT !.phase = "ready"] OBVIOUS
<1> HIDE DEF ds, f
<1>6. Leaves(c, ds, chain) BY <1>2, HolderIs, QuietPoints DEF Leaves
<1>7. \A d \in Callers : Leaves(d, ds, chain) \/ (Stays(d, call, ds) /\ ~HoldsIn(call, ts, d)) BY <1>2, <1>6 DEF Stays
<1>8. Pool(f, Settled(ds, entry.gen), chain, ts, state.owner)
  BY <1>2, <1>3, <1>4, <1>5, <1>6, <1>7, PoolFree DEF PoolOK
<1> QED BY <1>1, <1>8

LEMMA ReleasePool ==
  ASSUME TypeOK, PoolOK, NEW c \in Callers, Release(c)
  PROVE  PoolOK'
<1>1. call[c].pc = "holding" /\ UNCHANGED <<state, chain, sess>> /\ \E setup \in BOOLEAN : Unpublished(c, PreparedLog(setup))
  BY DEF Release
<1>2. HoldsIn(call, sess, c) BY <1>1 DEF HoldsIn
<1>3. Queue(chain, entry, call, sess, state.owner) /\ EntersOnce(call, sess) /\ sess \in [Sessions -> SessionRecords]
  BY PoolIs DEF TypeOK
<1>4. EntersOnce(Ended(c), sess)
  <2>1. Ended(c)[c].pc = "over" /\ \A d \in Callers : d # c => Ended(c)[d] = call[d] BY FailedIs DEF TypeOK
  <2> QED BY <1>3, <2>1 DEF EntersOnce
<1>5. Pool(entry', call', chain, sess, state.owner) BY <1>1, <1>2, <1>3, <1>4, HolderIs, UnpublishedPool
<1> QED BY <1>1, <1>5 DEF PoolOK

LEMMA PublishPool ==
  ASSUME TypeOK, PoolOK, InitShape, NEW c \in Callers, NEW setup \in BOOLEAN, Publish(c, setup)
  PROVE  PoolOK'
<1> DEFINE k == Next1(Unborn)
           log == PreparedLog(setup)
           ds == Ended(c)
<1>1. call[c].pc = "holding" /\ Unborn # {} /\ Attach(k, log, ds) BY DEF Publish
<1>2. k \in Sessions /\ sess[k].life = "unborn" /\ log \in Logs BY <1>1, Next1In, PreparedTyped
<1>3. HoldsIn(call, sess, c) BY <1>1 DEF HoldsIn
<1>4. ds \in [Callers -> CallRecords] /\ ds[c].pc = "over" /\ \A d \in Callers : d # c => ds[d] = call[d]
  BY FailedIs DEF TypeOK
<1> HIDE DEF ds, log, k
<1>5. \A l \in Sessions : l # k => sess'[l] = sess[l] BY <1>1 DEF Attach, TypeOK
<1>6. ASSUME NEW d \in Callers, d # c PROVE ~HoldsIn(call, sess', d)
  <2>1. call[d].pc = "entered" => call[d].awaits \in Sessions /\ sess[call[d].awaits].life # "unborn"
    BY PoolIs DEF EntersOnce
  <2>2. call[d].pc = "entered" => sess'[call[d].awaits] = sess[call[d].awaits] BY <1>2, <1>5, <2>1
  <2>3. ~HoldsIn(call, sess, d) BY <1>3, <1>6, HolderIs
  <2> QED BY <2>2, <2>3 DEF HoldsIn
<1>7. Leaves(c, ds, chain) BY <1>3, <1>4, HolderIs, QuietPoints DEF Leaves
<1>8. \A d \in Callers : Leaves(d, ds, chain) \/ (Stays(d, call, ds) /\ ~HoldsIn(call, sess', d))
  BY <1>4, <1>6, <1>7 DEF Stays
<1> QED BY <1>1, <1>2, <1>4, <1>8, AttachPool

\* Nobody entered a session that is neither entered nor live.
LEMMA NobodyEntered ==
  ASSUME TypeOK, PoolOK, NEW k \in Sessions, sess[k].life \notin {"entered", "live"} \/ ~Entering(k)
  PROVE  \A c \in Callers : call[c].pc = "entered" => call[c].awaits # k
BY PoolIs DEF EntersOnce, Entering

LEMMA EnterPool ==
  ASSUME TypeOK, PoolOK, InitShape, NEW c \in Callers, NEW setup \in BOOLEAN, Enter(c, setup)
  PROVE  PoolOK'
<1> DEFINE k == Next1(Unborn)
           log == PreparedLog(setup)
           r == [sess[k] EXCEPT !.life = "entered", !.log = log]
           a == [call[c] EXCEPT !.pc = "entered", !.awaits = k]
<1>1. /\ call[c].pc = "holding" /\ Unborn # {} /\ UNCHANGED <<state, entry, chain>>
      /\ sess' = [sess EXCEPT ![k] = r] /\ call' = [call EXCEPT ![c] = a]
  BY DEF Enter
<1>2. k \in Sessions /\ sess[k].life = "unborn" /\ log \in Logs BY <1>1, Next1In, PreparedTyped
<1>3. sess[k] \in SessionRecords /\ call[c] \in CallRecords /\ sess[k].init = "none" BY <1>2 DEF TypeOK, InitShape
<1>4. HoldsIn(call, sess, c) BY <1>1 DEF HoldsIn
<1>5. Jobless(c, chain) BY <1>4, HolderIs
<1> HIDE DEF k, log
<1>6. r \in SessionRecords /\ r.life = "entered" BY <1>2, <1>3 DEF SessionRecords, Lives
<1>7. a \in CallRecords /\ a.pc = "entered" /\ a.awaits = k /\ a.gen = call[c].gen
  BY <1>2, <1>3 DEF CallRecords, Points, Owners
<1> HIDE DEF r, a
<1>8. sess' \in [Sessions -> SessionRecords] /\ sess'[k].life = "entered" /\ \A l \in Sessions : l # k => sess'[l] = sess[l]
  BY <1>1, <1>2, <1>6 DEF TypeOK
<1>9. /\ call' \in [Callers -> CallRecords] /\ call'[c].pc = "entered" /\ call'[c].awaits = k /\ call'[c].gen = call[c].gen
      /\ \A d \in Callers : d # c => call'[d] = call[d]
  BY <1>1, <1>7 DEF TypeOK
<1>10. NoneOf(k, chain) BY <1>2, <1>3, NoneOfIs DEF PoolOK
<1>11. \A d \in Callers : call[d].pc = "entered" => call[d].awaits # k BY <1>2, NobodyEntered
<1>12. Pool(entry, call, chain, sess', state.owner) BY <1>2, <1>8, <1>10, <1>11, PoolOther DEF PoolOK
<1>13. Queue(chain, entry, call, sess', state.owner) /\ HoldsIn(call, sess', c) BY <1>1, <1>12 DEF Pool, HoldsIn
<1>14. Pool(entry, call', chain, sess', state.owner) BY <1>2, <1>5, <1>8, <1>9, <1>11, <1>12, <1>13, PoolHold
<1> QED BY <1>1, <1>14 DEF PoolOK

LEMMA RollbackPool ==
  ASSUME TypeOK, PoolOK, InitShape, NEW c \in Callers, Rollback(c)
  PROVE  PoolOK'
<1> DEFINE k == call[c].awaits
<1>1. call[c].pc = "entered" /\ UNCHANGED <<state, chain>> BY DEF Rollback
<1>2. k \in Sessions /\ \A d \in Callers : d # c /\ call[d].pc = "entered" => call[d].awaits # k
  BY <1>1, PoolIs DEF EntersOnce
<1>3. Ended(c) \in [Callers -> CallRecords] /\ Ended(c)[c].pc = "over" /\ \A d \in Callers : d # c => Ended(c)[d] = call[d]
  BY FailedIs DEF TypeOK
<1>4. EntersOnce(call, sess) /\ Queue(chain, entry, call, sess, state.owner) /\ call[c].pc = "entered" BY <1>1, PoolIs
<1>5. CASE sess[k].life = "entered" /\ sess' = [sess EXCEPT ![k] = NoSession] /\ Unpublished(c, sess[k].log)
  <2>1. sess' \in [Sessions -> SessionRecords] /\ \A l \in Sessions : l # k => sess'[l] = sess[l]
    BY <1>2, <1>5, ConstantsTyped DEF TypeOK
  <2>2. HoldsIn(call, sess, c) /\ sess[k].init = "none" BY <1>1, <1>2, <1>5 DEF HoldsIn, InitShape
  <2>3. NoneOf(k, chain) BY <1>2, <1>5, <2>2, NoneOfIs DEF PoolOK
  <2>4. Queue(chain, entry, call, sess', state.owner)
    <3>1. ASSUME NEW i \in 1 .. Len(chain) PROVE JobOK(chain[i], entry, call, sess', state.owner)
      <4>1. JobOK(chain[i], entry, call, sess, state.owner) BY <1>4 DEF Queue
      <4>2. chain[i].kind \in OfSessions => chain[i].who \in Sessions /\ chain[i].who # k
        BY <2>3, <4>1 DEF JobOK, NoneOf
      <4>3. chain[i].kind \in OfSessions => sess'[chain[i].who] = sess[chain[i].who] BY <2>1, <4>2
      <4> QED BY <4>1, <4>3 DEF JobOK, OfSessions, Initial
    <3> QED BY <1>4, <3>1, QueueChange
  <2>5. ASSUME NEW d \in Callers, d # c, call[d].pc = "entered" PROVE call[d].awaits \in Sessions /\ sess'[call[d].awaits] = sess[call[d].awaits]
    BY <1>2, <1>4, <2>1, <2>5 DEF EntersOnce
  <2>6. EntersOnce(Ended(c), sess') BY <1>3, <1>4, <2>5 DEF EntersOnce
  <2>7. \A d \in Callers : d # c => ~HoldsIn(call, sess', d)
    <3>1. \A d \in Callers : d # c => ~HoldsIn(call, sess, d) BY <2>2, HolderIs
    <3> QED BY <2>5, <3>1 DEF HoldsIn
  <2>8. Pool(entry', call', chain, sess', state.owner) BY <1>5, <2>1, <2>2, <2>4, <2>6, <2>7, UnpublishedPool
  <2> QED BY <1>1, <2>8 DEF PoolOK
<1>6. CASE sess[k].life = "live" /\ sess' = Life(k, "flushing") /\ call' = Ended(c) /\ entry' = entry
  <2>1. ~HoldsIn(call, sess, c) /\ ~CommitsIn(entry, call, c) /\ Jobless(c, chain)
    BY <1>1, <1>4, <1>6, NoJobOf DEF HoldsIn, CommitsIn, Jobless, Awaited
  <2>2. Pool(entry, Ended(c), chain, sess, state.owner) BY <1>3, <2>1, OneLeaves, QuietPoints DEF PoolOK
  <2> DEFINE r == [sess[k] EXCEPT !.life = "flushing"]
  <2>3. sess[k] \in SessionRecords /\ sess' = [sess EXCEPT ![k] = r] BY <1>2, <1>6 DEF TypeOK, Life
  <2>4. r \in SessionRecords /\ r.life = "flushing" /\ r.log = sess[k].log /\ r.acked = sess[k].acked /\ r.init = sess[k].init
    BY <2>3 DEF SessionRecords, Lives
  <2> HIDE DEF r
  <2>5. sess' \in [Sessions -> SessionRecords] /\ sess'[k] = r /\ \A l \in Sessions : l # k => sess'[l] = sess[l]
    BY <1>2, <2>3, <2>4 DEF TypeOK
  <2>6. \A d \in Callers : Ended(c)[d].pc = "entered" => Ended(c)[d].awaits # k BY <1>2, <1>3
  <2>7. Len(sess[k].log) <= Len(sess[k].log) BY <2>3, LogsTyped DEF SessionRecords
  <2>8. Pool(entry, Ended(c), chain, sess', state.owner) BY <1>2, <1>6, <2>2, <2>4, <2>5, <2>6, <2>7, PoolGoesOn
  <2> QED BY <1>1, <1>6, <2>8 DEF PoolOK
<1> QED BY <1>5, <1>6 DEF Rollback

LEMMA CreatePool ==
  ASSUME TypeOK, PoolOK, InitShape, OwnerPresent, Create
  PROVE  PoolOK'
<1> DEFINE k == Next1(Unborn)
<1>1. Unborn # {} /\ entry.phase = "none" /\ StartInit(k) /\ UNCHANGED <<state, entry, call>> BY DEF Create
<1>2. k \in Sessions /\ sess[k].life = "unborn" BY <1>1, Next1In
<1>3. entry = NoEntry BY <1>1, PoolIs DEF Refers
<1>4. \A c \in Callers : call[c].pc = "entered" => call[c].awaits # k BY <1>2, NobodyEntered
<1> HIDE DEF k
<1>5. Pool(NoEntry, call, chain', sess', state.owner) BY <1>1, <1>2, <1>3, <1>4, StartInitPool DEF PoolOK
<1> QED BY <1>1, <1>3, <1>5 DEF PoolOK

LEMMA VetoPool ==
  ASSUME TypeOK, PoolOK, InitShape, Veto
  PROVE  PoolOK'
<1> DEFINE k == Next1(Unborn)
           r == [sess[k] EXCEPT !.life = "entered"]
<1>1. Unborn # {} /\ sess' = [sess EXCEPT ![k] = r] /\ UNCHANGED <<state, entry, call, chain>> BY DEF Veto, Life
<1>2. k \in Sessions /\ sess[k].life = "unborn" BY <1>1, Next1In
<1> HIDE DEF k
<1>3. sess[k] \in SessionRecords /\ sess[k].init = "none" BY <1>2 DEF TypeOK, InitShape
<1>4. r \in SessionRecords BY <1>3 DEF SessionRecords, Lives
<1> HIDE DEF r
<1>5. sess' \in [Sessions -> SessionRecords] /\ \A l \in Sessions : l # k => sess'[l] = sess[l]
  BY <1>1, <1>4 DEF TypeOK
<1>6. NoneOf(k, chain) BY <1>2, <1>3, NoneOfIs DEF PoolOK
<1>7. Pool(entry, call, chain, sess', state.owner) BY <1>2, <1>5, <1>6, NobodyEntered, PoolOther DEF PoolOK
<1> QED BY <1>1, <1>7 DEF PoolOK

LEMMA DiscardPool ==
  ASSUME TypeOK, PoolOK, InitShape, NEW k \in Sessions, Discard(k)
  PROVE  PoolOK'
<1>1. sess[k].life = "entered" /\ ~Entering(k) /\ sess' = [sess EXCEPT ![k] = NoSession] /\ UNCHANGED <<state, entry, call, chain>>
  BY DEF Discard
<1>2. sess[k].init = "none" BY <1>1 DEF InitShape
<1>3. sess' \in [Sessions -> SessionRecords] /\ \A l \in Sessions : l # k => sess'[l] = sess[l]
  BY <1>1, ConstantsTyped DEF TypeOK
<1>4. NoneOf(k, chain) BY <1>1, <1>2, NoneOfIs DEF PoolOK
<1>5. Pool(entry, call, chain, sess', state.owner) BY <1>1, <1>3, <1>4, NobodyEntered, PoolOther DEF PoolOK
<1> QED BY <1>1, <1>5 DEF PoolOK

LEMMA SessionEventPool ==
  ASSUME TypeOK, PoolOK, NEW k \in Sessions, SessionEvent(k)
  PROVE  PoolOK'
<1> DEFINE r == [sess[k] EXCEPT !.log = Append(sess[k].log, k)]
<1>1. sess[k].life = "live" /\ sess' = [sess EXCEPT ![k] = r] /\ UNCHANGED <<state, entry, call, chain>>
  BY DEF SessionEvent
<1>2. sess[k] \in SessionRecords /\ sess[k].log \in Seq(Int) /\ k \in Int
  BY BoundsAssumption DEF TypeOK, SessionRecords, Logs, Sessions
<1>3. Append(sess[k].log, k) \in Logs /\ Len(sess[k].log) <= Len(Append(sess[k].log, k))
  BY <1>2, AppendProperties, LenProperties DEF Logs
<1>4. r \in SessionRecords /\ r.life = sess[k].life /\ r.init = sess[k].init /\ r.acked = sess[k].acked /\ r.log = Append(sess[k].log, k)
  BY <1>2, <1>3 DEF SessionRecords
<1> HIDE DEF r
<1>5. sess' \in [Sessions -> SessionRecords] /\ sess'[k] = r /\ \A l \in Sessions : l # k => sess'[l] = sess[l]
  BY <1>1, <1>4 DEF TypeOK
<1>6. /\ sess'[k].life = "live" /\ sess'[k].init = sess[k].init /\ sess'[k].acked = sess[k].acked
      /\ Len(sess[k].log) <= Len(sess'[k].log)
  BY <1>1, <1>3, <1>4, <1>5
<1>7. Pool(entry, call, chain, sess', state.owner)
  <2>1. sess[k].life \in {"live", "flushing"} /\ sess'[k].life \in {"live", "flushing"} /\ sess'[k].life = sess[k].life
    BY <1>1, <1>6
  <2>2. sess' \in [Sessions -> SessionRecords] /\ \A l \in Sessions : l # k => sess'[l] = sess[l] BY <1>5
  <2>3. Pool(entry, call, chain, sess, state.owner) BY DEF PoolOK
  <2> QED BY <1>6, <2>1, <2>2, <2>3, PoolGoesOn
<1> QED BY <1>1, <1>7 DEF PoolOK

LEMMA DetachPool ==
  ASSUME TypeOK, PoolOK, NEW k \in Sessions, Detach(k)
  PROVE  PoolOK'
<1> DEFINE r == [sess[k] EXCEPT !.life = "flushing"]
<1>1. sess[k].life = "live" /\ ~Entering(k) /\ sess' = [sess EXCEPT ![k] = r] /\ UNCHANGED <<state, entry, call, chain>>
  BY DEF Detach, Life
<1>2. sess[k] \in SessionRecords BY DEF TypeOK
<1>3. r \in SessionRecords /\ r.life = "flushing" /\ r.init = sess[k].init /\ r.acked = sess[k].acked /\ r.log = sess[k].log
  BY <1>2 DEF SessionRecords, Lives
<1> HIDE DEF r
<1>4. sess' \in [Sessions -> SessionRecords] /\ sess'[k] = r /\ \A l \in Sessions : l # k => sess'[l] = sess[l]
  BY <1>1, <1>3 DEF TypeOK
<1>5. Len(sess[k].log) <= Len(sess[k].log) BY <1>2, LogsTyped DEF SessionRecords
<1>6. \A c \in Callers : call[c].pc = "entered" => call[c].awaits # k BY <1>1, NobodyEntered
<1>7. Pool(entry, call, chain, sess', state.owner) BY <1>1, <1>3, <1>4, <1>5, <1>6, PoolGoesOn DEF PoolOK
<1> QED BY <1>1, <1>7 DEF PoolOK

LEMMA RetireFlushedPool ==
  ASSUME TypeOK, PoolOK, NEW k \in Sessions, RetireFlushed(k)
  PROVE  PoolOK'
<1>1. sess[k].life = "flushing" /\ sess[k] \in SessionRecords /\ UNCHANGED <<state, entry, call>>
  BY DEF RetireFlushed, TypeOK
<1>2. \A c \in Callers : call[c].pc = "entered" => call[c].awaits # k BY <1>1, NobodyEntered
<1>3. ASSUME NEW life \in Lives
      PROVE  /\ Life(k, life) \in [Sessions -> SessionRecords] /\ Life(k, life)[k].life = life
             /\ \A l \in Sessions : l # k => Life(k, life)[l] = sess[l]
  <2>1. [sess[k] EXCEPT !.life = life] \in SessionRecords /\ [sess[k] EXCEPT !.life = life].life = life
    BY <1>1 DEF SessionRecords
  <2>2. Life(k, life) = [sess EXCEPT ![k] = [sess[k] EXCEPT !.life = life]] BY DEF Life
  <2> QED BY <2>1, <2>2 DEF TypeOK
<1>4. CASE sess[k].init = "failed" /\ sess' = Life(k, "stuck") /\ chain' = chain
  <2>1. NoneOf(k, chain) BY <1>1, <1>4, NoneOfIs DEF PoolOK
  <2>2. "stuck" \in Lives BY DEF Lives
  <2>3. Pool(entry, call, chain, sess', state.owner) BY <1>2, <1>3, <1>4, <2>1, <2>2, PoolOther DEF PoolOK
  <2> QED BY <1>1, <1>4, <2>3 DEF PoolOK
<1>5. CASE sess[k].init = "ok" /\ ~HasWork(k) /\ sess' = Life(k, "cleaning") /\ chain' = Append(chain, Job("retire", k))
  <2>1. NoneOf(k, chain)
    <3> SUFFICES ASSUME NEW i \in 1 .. Len(chain), chain[i].kind \in OfSessions, chain[i].who = k PROVE FALSE
      BY DEF NoneOf
    <3>1. JobOK(chain[i], entry, call, sess, state.owner) BY PoolIs DEF Queue
    <3>2. DOMAIN chain = 1 .. Len(chain) BY LenProperties DEF TypeOK
    <3> QED BY <1>1, <1>5, <3>1, <3>2 DEF HasWork, JobOK, OfSessions, Initial
  <2>2. "cleaning" \in Lives BY DEF Lives
  <2>3. Pool(entry, call, chain, sess', state.owner) /\ sess'[k].life = "cleaning"
    BY <1>2, <1>3, <1>5, <2>1, <2>2, PoolOther DEF PoolOK
  <2>4. Job("retire", k) \in JobRecords BY JobTyped, ConstantsTyped DEF OfSessions
  <2>5. Job("retire", k).kind = "retire" /\ Job("retire", k).who = k /\ Job("retire", k).stage = "queued" BY DEF Job
  <2>6. JobOK(Job("retire", k), entry, call, sess', state.owner)
    BY <2>3, <2>5 DEF JobOK, OfCalls, OfSessions, Awaited, Initial
  <2>7. \A i \in 1 .. Len(chain) : PairOK(chain[i], Job("retire", k), entry.gen)
    BY <2>1, <2>5 DEF PairOK, NoneOf, OfSessions, Awaited, Initial
  <2>8. Pool(entry, call, Append(chain, Job("retire", k)), sess', state.owner)
    BY <2>3, <2>4, <2>5, <2>6, <2>7, PoolPush
  <2> QED BY <1>1, <1>5, <2>8 DEF PoolOK
<1> QED BY <1>4, <1>5 DEF RetireFlushed

LEMMA RetireRunPool ==
  ASSUME TypeOK, PoolOK, InitShape, RetireRun
  PROVE  PoolOK'
<1> DEFINE k == chain[1].who
<1>1. chain # <<>> /\ chain[1].kind = "retire" /\ chain' = Tail(chain) /\ UNCHANGED <<entry, call>>
  BY DEF RetireRun, Runs
<1>2. k \in Sessions /\ NoneOf(k, Tail(chain)) /\ Pool(entry, call, Tail(chain), sess, state.owner) BY <1>1, FirstLast
<1>3. sess[k].life = "cleaning" /\ sess[k] \in SessionRecords BY <1>1, <1>2, FirstJob DEF JobOK, TypeOK
<1>4. \A c \in Callers : call[c].pc = "entered" => call[c].awaits # k BY <1>2, <1>3, NobodyEntered
<1> DEFINE r == [sess[k] EXCEPT !.life = "retired"]
           n == [NoSession EXCEPT !.life = "retired"]
<1>5. r \in SessionRecords /\ n \in SessionRecords BY <1>3, ConstantsTyped DEF SessionRecords, Lives
<1>6. sess' = [sess EXCEPT ![k] = r] \/ sess' = [sess EXCEPT ![k] = n] BY DEF RetireRun, Life
<1>7. state'.owner = state.owner \/ state'.owner = Nobody BY DEF RetireRun, NoState
<1> HIDE DEF k, r, n
<1>8. sess' \in [Sessions -> SessionRecords] /\ \A l \in Sessions : l # k => sess'[l] = sess[l]
  BY <1>5, <1>6 DEF TypeOK
<1>9. Pool(entry, call, Tail(chain), sess', state.owner) BY <1>2, <1>4, <1>8, PoolOther
<1>10. Pool(entry, call, Tail(chain), sess', Nobody) BY <1>9, PoolNobody
<1> QED BY <1>1, <1>7, <1>9, <1>10 DEF PoolOK

\* The initialization of k is over.
LEMMA InitOver ==
  ASSUME TypeOK, NEW k \in Sessions, NEW ts, ts = InitDone(k) \/ ts = InitFailed(k)
  PROVE  /\ ts \in [Sessions -> SessionRecords] /\ ts[k].life = sess[k].life
         /\ \A l \in Sessions : l # k => ts[l] = sess[l]
<1>0. PICK init \in {"ok", "failed"} : ts = [sess EXCEPT ![k].init = init] BY DEF InitDone, InitFailed
<1>1. sess[k] \in SessionRecords BY DEF TypeOK
<1>2. [sess[k] EXCEPT !.init = init] \in SessionRecords /\ [sess[k] EXCEPT !.init = init].life = sess[k].life
  BY <1>1 DEF SessionRecords
<1>3. ts = [sess EXCEPT ![k] = [sess[k] EXCEPT !.init = init]] BY <1>0
<1> QED BY <1>2, <1>3 DEF TypeOK

LEMMA BindPool ==
  ASSUME TypeOK, PoolOK, InitShape, chain # <<>>, chain[1].kind \in Initial, chain' = Tail(chain),
         NEW base, NEW cursor, NEW made, NEW seed, Bind(chain[1].who, base, cursor, made, seed)
  PROVE  PoolOK'
<1> DEFINE k == chain[1].who
<1>1. k \in Sessions /\ NoneOf(k, Tail(chain)) /\ Pool(entry, call, Tail(chain), sess, state.owner) BY FirstLast
<1>2. entry.phase # "reserved" BY FirstJob DEF JobOK
<1>3. state'.owner = k /\ (sess' = InitDone(k) \/ sess' = InitFailed(k)) BY DEF Bind, State
<1>4. UNCHANGED <<entry, call>> \/ Invalidate(call) BY DEF Bind
<1>5. Pool(entry', call', Tail(chain), sess, state.owner)
  <2>1. call \in [Callers -> CallRecords] BY DEF TypeOK
  <2>2. CASE Invalidate(call) BY <1>1, <1>2, <2>1, <2>2, InvalidatePool
  <2>3. CASE UNCHANGED <<entry, call>> BY <1>1, <2>3
  <2> QED BY <1>4, <2>2, <2>3
<1>6. sess' \in [Sessions -> SessionRecords] /\ sess'[k].life = sess[k].life /\ \A l \in Sessions : l # k => sess'[l] = sess[l]
  BY <1>1, <1>3, InitOver
<1> HIDE DEF k
<1>7. Pool(entry', call', Tail(chain), sess', k) BY <1>1, <1>5, <1>6, PoolOther
<1> QED BY <1>3, <1>7 DEF PoolOK

LEMMA InitStartPool ==
  ASSUME TypeOK, PoolOK, InitShape, InitStart
  PROVE  PoolOK'
<1> DEFINE k == chain[1].who
<1>1. chain # <<>> /\ chain[1].kind = "init" /\ UNCHANGED <<entry, call>> BY DEF InitStart, Runs
<1>2. k \in Sessions /\ NoneOf(k, Tail(chain)) /\ Pool(entry, call, Tail(chain), sess, state.owner)
  BY <1>1, FirstLast DEF Initial
<1>3. CASE (\E stage \in {"claim", "read"} : chain' = AtStage(stage, stored)) /\ sess' = sess /\ (state' = state \/ state' = NoState)
  <2>1. PICK stage \in {"claim", "read"} : chain' = AtStage(stage, stored) BY <1>3
  <2>2. stage \in Stages /\ stored \in Artifacts BY DEF Stages, TypeOK
  <2>3. Pool(entry, call, chain', sess, state.owner) BY <1>1, <2>1, <2>2, StagePool DEF PoolOK, Awaited
  <2>4. Pool(entry, call, chain', sess, Nobody) BY <2>3, PoolNobody
  <2>5. state'.owner = state.owner \/ state'.owner = Nobody BY <1>3 DEF NoState
  <2> QED BY <1>1, <1>3, <2>3, <2>4, <2>5 DEF PoolOK
<1>4. CASE sess' = InitFailed(k) /\ chain' = Tail(chain) /\ state' = state
  <2>1. sess' \in [Sessions -> SessionRecords] /\ sess'[k].life = sess[k].life /\ \A l \in Sessions : l # k => sess'[l] = sess[l]
    BY <1>2, <1>4, InitOver
  <2>2. Pool(entry, call, Tail(chain), sess', state.owner) BY <1>2, <2>1, PoolOther
  <2> QED BY <1>1, <1>4, <2>2 DEF PoolOK
<1> QED BY <1>3, <1>4 DEF InitStart

LEMMA InitEndPool ==
  ASSUME TypeOK, PoolOK, InitShape, InitEnd \/ Suffix
  PROVE  PoolOK'
<1> DEFINE k == chain[1].who
<1>1. chain # <<>> /\ chain[1].kind \in Initial /\ chain' = Tail(chain) BY DEF InitEnd, Suffix, Runs, Initial
<1>2. CASE \E base, cursor, made, seed : Bind(k, base, cursor, made, seed) BY <1>1, <1>2, BindPool
<1>3. CASE sess' = InitFailed(k) /\ UNCHANGED <<state, entry, call>>
  <2>1. k \in Sessions /\ NoneOf(k, Tail(chain)) /\ Pool(entry, call, Tail(chain), sess, state.owner)
    BY <1>1, FirstLast
  <2>2. sess' \in [Sessions -> SessionRecords] /\ sess'[k].life = sess[k].life /\ \A l \in Sessions : l # k => sess'[l] = sess[l]
    BY <1>3, <2>1, InitOver
  <2>3. Pool(entry, call, Tail(chain), sess', state.owner) BY <2>1, <2>2, PoolOther
  <2> QED BY <1>1, <1>3, <2>3 DEF PoolOK
<1> QED BY <1>2, <1>3 DEF InitEnd, Suffix

LEMMA DrainCallPool ==
  ASSUME TypeOK, PoolOK, NEW k \in Sessions, DrainCall(k)
  PROVE  PoolOK'
<1> DEFINE j == [Job("drain", k) EXCEPT !.upto = Len(sess[k].log)]
<1>1. /\ sess[k].life \in {"live", "flushing"} /\ sess[k].init = "ok" /\ chain' = Append(chain, j)
      /\ UNCHANGED <<state, entry, sess, call>>
  BY DEF DrainCall
<1>2. \A i \in 1 .. Len(chain) : chain[i].kind = "drain" => chain[i].who # k
  <2>1. DOMAIN chain = 1 .. Len(chain) BY LenProperties DEF TypeOK
  <2> QED BY <2>1 DEF DrainCall
<1>3. Len(sess[k].log) \in Nat BY LogsTyped DEF TypeOK, SessionRecords
<1>4. j \in JobRecords BY <1>3, JobTyped, ConstantsTyped DEF OfSessions
<1>5. j.kind = "drain" /\ j.who = k /\ j.stage = "queued" /\ j.upto = Len(sess[k].log) BY DEF Job
<1> HIDE DEF j
<1>6. JobOK(j, entry, call, sess, state.owner) BY <1>1, <1>3, <1>5 DEF JobOK, OfCalls, OfSessions, Awaited, Initial
<1>7. \A i \in 1 .. Len(chain) : PairOK(chain[i], j, entry.gen) BY <1>2, <1>5 DEF PairOK, Awaited, Initial
<1>8. Pool(entry, call, Append(chain, j), sess, state.owner) BY <1>4, <1>5, <1>6, <1>7, PoolPush DEF PoolOK
<1> QED BY <1>1, <1>8 DEF PoolOK

\* What the first job, a drain, leaves in the queue.
LEMMA FirstDrain ==
  ASSUME TypeOK, PoolOK, chain # <<>>, chain[1].kind = "drain"
  PROVE  /\ chain[1].who \in Sessions /\ Pool(entry, call, Tail(chain), sess, state.owner)
         /\ sess[chain[1].who].init = "ok" /\ sess[chain[1].who].life \in {"live", "flushing"}
         /\ NoneOf(chain[1].who, Tail(chain))
         /\ chain[1].upto \in Nat
<1> DEFINE k == chain[1].who
<1>1. k \in Sessions /\ JobOK(chain[1], entry, call, sess, state.owner) /\ Pool(entry, call, Tail(chain), sess, state.owner)
      /\ chain[1] \in JobRecords
  BY FirstJob DEF OfSessions
<1>2. sess[k].init = "ok" /\ sess[k].life \in {"live", "flushing"} BY <1>1 DEF JobOK
<1>3. chain \in Seq(JobRecords) /\ Queue(chain, entry, call, sess, state.owner) BY PoolIs DEF TypeOK
<1>4. ASSUME NEW i \in 1 .. Len(Tail(chain)), Tail(chain)[i].kind \in OfSessions, Tail(chain)[i].who = k PROVE FALSE
  <2>1. PairOK(chain[1], Tail(chain)[i], entry.gen) BY <1>3, QueuePop
  <2>2. JobOK(Tail(chain)[i], entry, call, sess, state.owner) BY <1>1 DEF Pool, Queue
  <2> QED BY <1>2, <1>4, <2>1, <2>2 DEF JobOK, PairOK, OfSessions, Initial
<1> QED BY <1>1, <1>2, <1>4 DEF NoneOf, JobRecords

LEMMA AckedIs ==
  ASSUME TypeOK, NEW k \in Sessions, NEW u \in Nat, NEW ts, ts = Acked(k, u)
  PROVE  /\ ts \in [Sessions -> SessionRecords] /\ ts[k].life = sess[k].life
         /\ \A l \in Sessions : l # k => ts[l] = sess[l]
<1>1. sess[k] \in SessionRecords BY DEF TypeOK
<1>2. [sess[k] EXCEPT !.acked = u] \in SessionRecords /\ [sess[k] EXCEPT !.acked = u].life = sess[k].life
  BY <1>1 DEF SessionRecords
<1>3. ts = [sess EXCEPT ![k] = [sess[k] EXCEPT !.acked = u]] BY DEF Acked
<1> QED BY <1>2, <1>3 DEF TypeOK

LEMMA DrainFailedPool ==
  ASSUME TypeOK, PoolOK, chain # <<>>, chain[1].kind = "drain", DrainFailed(chain[1].who), UNCHANGED <<state, entry>>
  PROVE  PoolOK'
<1> DEFINE k == chain[1].who
<1>1. /\ k \in Sessions /\ Pool(entry, call, Tail(chain), sess, state.owner) /\ sess[k].life \in {"live", "flushing"}
      /\ NoneOf(k, Tail(chain))
  BY FirstDrain
<1>2. /\ call' = [c \in Callers |-> IF call[c].pc = "flush" /\ call[c].awaits = k THEN Failed(c)[c] ELSE call[c]]
      /\ chain' = Tail(chain)
  BY DEF DrainFailed
<1>3. call \in [Callers -> CallRecords] BY DEF TypeOK
<1>4. \A c \in Callers : Failed(c)[c] \in CallRecords /\ Failed(c)[c].pc = "over" BY <1>3, FailedIs
<1>5. /\ call' \in [Callers -> CallRecords]
      /\ \A c \in Callers : call'[c] = call[c] \/ (call[c].pc = "flush" /\ call'[c].pc = "over")
  BY <1>2, <1>3, <1>4
<1>6. ASSUME NEW c \in Callers, call[c].pc = "flush"
      PROVE  Jobless(c, Tail(chain)) /\ ~CommitsIn(entry, call, c) /\ ~HoldsIn(call, sess, c)
  <2>1. Queue(Tail(chain), entry, call, sess, state.owner) BY <1>1 DEF Pool
  <2>2. Jobless(c, Tail(chain)) BY <1>6, <2>1, NoJobOf DEF Jobless, Awaited
  <2> QED BY <1>6, <2>2 DEF CommitsIn, HoldsIn
<1>7. MayLeave(entry, call, Tail(chain), sess, call') BY <1>5, <1>6, QuietPoints DEF MayLeave, Stays, Leaves
<1>8. Pool(entry, call', Tail(chain), sess, state.owner) BY <1>1, <1>5, <1>7, PoolLeave
<1>9. CASE sess' = sess BY <1>2, <1>8, <1>9 DEF PoolOK
<1>10. CASE sess[k].life = "flushing" /\ sess' = Life(k, "stuck")
  <2> DEFINE r == [sess[k] EXCEPT !.life = "stuck"]
  <2>1. sess' = [sess EXCEPT ![k] = r] /\ sess[k] \in SessionRecords BY <1>1, <1>10 DEF Life, TypeOK
  <2>2. r \in SessionRecords BY <2>1 DEF SessionRecords, Lives
  <2> HIDE DEF r
  <2>3. sess' \in [Sessions -> SessionRecords] /\ \A l \in Sessions : l # k => sess'[l] = sess[l]
    BY <1>1, <2>1, <2>2 DEF TypeOK
  <2>4. \A c \in Callers : call[c].pc = "entered" => call[c].awaits # k BY <1>1, <1>10, NobodyEntered
  <2>5. \A c \in Callers : call'[c].pc = "entered" => call'[c].awaits # k BY <1>5, <2>4
  <2> HIDE DEF k
  <2>6. Pool(entry, call', Tail(chain), sess', state.owner) BY <1>1, <1>8, <2>3, <2>5, PoolOther
  <2> QED BY <1>2, <2>6 DEF PoolOK
<1> QED BY <1>9, <1>10 DEF DrainFailed

LEMMA DrainStartPool ==
  ASSUME TypeOK, PoolOK, DrainStart
  PROVE  PoolOK'
<1> DEFINE k == chain[1].who
<1>1. chain # <<>> /\ chain[1].kind = "drain" /\ UNCHANGED <<state, entry>> BY DEF DrainStart, Runs
<1>2. k \in Sessions /\ NoneOf(k, Tail(chain)) /\ Pool(entry, call, Tail(chain), sess, state.owner) /\ chain[1].upto \in Nat
  BY <1>1, FirstDrain
<1>3. CASE sess' = Acked(k, chain[1].upto) /\ chain' = Tail(chain) /\ call' = call
  <2>1. sess' \in [Sessions -> SessionRecords] /\ sess'[k].life = sess[k].life /\ \A l \in Sessions : l # k => sess'[l] = sess[l]
    BY <1>2, <1>3, AckedIs
  <2>2. Pool(entry, call, Tail(chain), sess', state.owner) BY <1>2, <2>1, PoolOther
  <2> QED BY <1>1, <1>3, <2>2 DEF PoolOK
<1>4. CASE chain' = AtStage("write", Absent) /\ UNCHANGED <<sess, call>>
  <2>1. "write" \in Stages /\ Absent \in Artifacts BY ConstantsTyped DEF Stages
  <2>2. Pool(entry, call, AtStage("write", Absent), sess, state.owner) BY <1>1, <2>1, StagePool DEF PoolOK, Awaited
  <2> QED BY <1>1, <1>4, <2>2 DEF PoolOK
<1>5. CASE DrainFailed(k) BY <1>1, <1>5, DrainFailedPool
<1> QED BY <1>3, <1>4, <1>5 DEF DrainStart, Acked

LEMMA DrainEndPool ==
  ASSUME TypeOK, PoolOK, RunningShape, DrainEnd
  PROVE  PoolOK'
<1> DEFINE k == chain[1].who
<1>1. chain # <<>> /\ chain[1].kind = "drain" /\ entry.phase # "reserved" BY DEF DrainEnd, Runs, RunningShape
<1>2. k \in Sessions /\ NoneOf(k, Tail(chain)) /\ Pool(entry, call, Tail(chain), sess, state.owner) /\ chain[1].upto \in Nat
  BY <1>1, FirstDrain
<1>3. CASE sess' = Acked(k, chain[1].upto) /\ Invalidate(call) /\ chain' = Tail(chain) /\ state' = Advanced(Len(Fresh(chain[1])))
  <2>1. sess' \in [Sessions -> SessionRecords] /\ sess'[k].life = sess[k].life /\ \A l \in Sessions : l # k => sess'[l] = sess[l]
    BY <1>2, <1>3, AckedIs
  <2>2. Pool(entry', call', Tail(chain), sess, state.owner) BY <1>1, <1>2, <1>3, InvalidatePool DEF TypeOK
  <2>3. Pool(entry', call', Tail(chain), sess', state.owner) BY <1>2, <2>1, <2>2, PoolOther
  <2>4. state'.owner = state.owner BY <1>3 DEF Advanced, TypeOK, States
  <2> QED BY <1>3, <2>3, <2>4 DEF PoolOK
<1>4. CASE DrainFailed(k) /\ UNCHANGED <<state, entry>> BY <1>1, <1>4, DrainFailedPool
<1> QED BY <1>3, <1>4 DEF DrainEnd, Acked

LEMMA LeastIn ==
  ASSUME NEW S, S \subseteq Sessions, S # {}
  PROVE  Next1(S) \in S
<1>1. S \subseteq Nat BY BoundsAssumption DEF Sessions
<1>2. \E k \in S : \A l \in S : k <= l BY <1>1, LeastOf
<1> QED BY <1>2 DEF Next1

\* The sessions after a reload.
LEMMA ReloadedIs ==
  ASSUME TypeOK, HotReload
  PROVE  /\ sess' \in [Sessions -> SessionRecords]
         /\ \A k \in Sessions :
              /\ sess[k].life = "live" => /\ sess'[k].life = "live" /\ sess'[k].init = "pending"
                                          /\ sess'[k].log = sess[k].log /\ sess'[k].acked = Len(sess[k].log)
              /\ sess[k].life = "stuck" => sess'[k].life = "retired" /\ sess'[k].init = sess[k].init
              /\ sess[k].life \notin {"live", "stuck"} => sess'[k] = sess[k]
<1> DEFINE R(k) == CASE sess[k].life = "live" -> [sess[k] EXCEPT !.init = "pending", !.acked = Len(sess[k].log)]
                     [] sess[k].life = "stuck" -> [sess[k] EXCEPT !.life = "retired"]
                     [] OTHER -> sess[k]
<1>1. sess' = [k \in Sessions |-> R(k)] BY Zenon DEF HotReload
<1>2. ASSUME NEW k \in Sessions
      PROVE  /\ R(k) \in SessionRecords
             /\ sess[k].life = "live" => /\ R(k).life = "live" /\ R(k).init = "pending"
                                         /\ R(k).log = sess[k].log /\ R(k).acked = Len(sess[k].log)
             /\ sess[k].life = "stuck" => R(k).life = "retired" /\ R(k).init = sess[k].init
             /\ sess[k].life \notin {"live", "stuck"} => R(k) = sess[k]
  <2>1. sess[k] \in SessionRecords BY DEF TypeOK
  <2>2. Len(sess[k].log) \in Nat BY <2>1, LogsTyped DEF SessionRecords
  <2>3. CASE sess[k].life = "live"
    <3>1. R(k) = [sess[k] EXCEPT !.init = "pending", !.acked = Len(sess[k].log)] BY <2>3
    <3> QED BY <2>1, <2>2, <2>3, <3>1 DEF SessionRecords
  <2>4. CASE sess[k].life = "stuck"
    <3>1. R(k) = [sess[k] EXCEPT !.life = "retired"] BY <2>4
    <3> QED BY <2>1, <2>4, <3>1 DEF SessionRecords, Lives
  <2>5. CASE sess[k].life \notin {"live", "stuck"}
    <3>1. R(k) = sess[k] BY <2>5
    <3> QED BY <2>1, <2>5, <3>1
  <2> QED BY <2>3, <2>4, <2>5
<1> HIDE DEF R
<1> QED BY <1>1, <1>2

LEMMA HotReloadPool ==
  ASSUME TypeOK, PoolOK, HotReload
  PROVE  PoolOK'
<1>1. /\ chain = <<>> /\ entry = NoEntry /\ state' = NoState /\ UNCHANGED <<entry, call>>
      /\ \A c \in Callers : call[c].pc \in {"idle", "over"}
      /\ \A k \in Sessions : sess[k].life \notin {"entered", "flushing", "cleaning"}
  BY Zenon DEF HotReload
<1>2. sess' \in [Sessions -> SessionRecords] /\ state'.owner = Nobody BY <1>1, ReloadedIs DEF NoState
<1>3. Len(chain) = 0 BY <1>1
<1>4. Queue(chain, entry, call, sess', Nobody)
  <2>1. \A i \in 1 .. Len(chain) : FALSE BY <1>3
  <2> QED BY <2>1 DEF Queue
<1>5. Pool(entry, call, chain, sess', Nobody) BY <1>1, <1>2, <1>4, PoolSess DEF PoolOK
<1>6. CASE Registered = {}
  <2>1. chain' = chain BY Zenon, <1>1, <1>6 DEF HotReload
  <2> QED BY <1>1, <1>2, <1>5, <2>1 DEF PoolOK
<1>7. CASE Registered # {}
  <2> DEFINE k == Next1(Registered)
             j == [Job("init", k) EXCEPT !.upto = Len(sess[k].log)]
  <2>1. chain' = <<j>> BY Zenon, <1>7 DEF HotReload
  <2>2. k \in Registered BY <1>7, LeastIn DEF Registered
  <2>3. k \in Sessions /\ sess[k].life = "live" BY <1>1, <2>2 DEF Registered
  <2> HIDE DEF k
  <2>4. Len(sess[k].log) \in Nat BY <2>3, LogsTyped DEF TypeOK, SessionRecords
  <2>5. j \in JobRecords BY <2>3, <2>4, JobTyped, ConstantsTyped DEF OfSessions
  <2>6. j.kind = "init" /\ j.who = k /\ j.stage = "queued" /\ j.upto = Len(sess[k].log) BY DEF Job
  <2> HIDE DEF j
  <2>7. sess'[k].init = "pending" /\ sess'[k].log = sess[k].log /\ sess'[k].acked = Len(sess[k].log)
    BY <2>3, ReloadedIs
  <2>8. sess'[k].init = "pending" /\ sess'[k].acked <= j.upto /\ j.upto <= Len(sess'[k].log) /\ j.kind \in Initial
    BY <2>4, <2>6, <2>7 DEF Initial
  <2>9. NoneOf(k, chain) /\ Nobody # k BY <1>3, <2>3, BoundsAssumption DEF NoneOf, Nobody, Sessions
  <2>10. Pool(entry, call, Append(chain, j), sess', Nobody) BY <1>1, <1>5, <2>3, <2>5, <2>6, <2>8, <2>9, PoolInitial
  <2>11. Append(chain, j) = <<j>> BY <1>1, <2>5
  <2> QED BY <1>1, <1>2, <2>1, <2>10, <2>11 DEF PoolOK
<1> QED BY <1>6, <1>7

LEMMA ExternalWritePool ==
  ASSUME PoolOK, ExternalWrite
  PROVE  PoolOK'
BY DEF ExternalWrite, PoolOK

\* The pool survives every step.
LEMMA PoolStep ==
  ASSUME CoordinatorInvariant, [Next]_vars
  PROVE  PoolOK'
<1>0. TypeOK /\ PoolOK /\ RunningShape /\ NoLiveWithEntry /\ InitShape /\ OwnerPresent BY DEF CoordinatorInvariant
<1>1. CASE UNCHANGED vars BY <1>0, <1>1 DEF vars, PoolOK
<1>2. CASE Chain
  BY <1>0, <1>2, LoadStartPool, LoadEndPool, CommitStartPool, CommitRetryPool, CommitEndPool, CommitFaultPool, CheckStartPool,
     CheckEndPool, CreateStartPool, CreateEndPool, AppendStartPool, AdoptPool, AppendEndPool, InitStartPool, InitEndPool,
     DrainStartPool, DrainEndPool, RetireRunPool DEF Chain
<1>3. ASSUME NEW c \in Callers, Resume(c) \/ Settle(c) \/ Abort(c) PROVE PoolOK'
  BY <1>0, <1>3, MeetLivePool, JoinPool, TurnPool, SeenPool, CaughtPool, ReservedPool, FlushedPool, ReleasePool, RollbackPool,
     PublishPool, EnterPool, AbortPool DEF Resume, Settle
<1>4. ASSUME NEW c \in Callers, NEW op \in Ops, Begin(c, op) PROVE PoolOK' BY <1>0, <1>4, BeginPool
<1>5. ASSUME NEW k \in Sessions, SessionEvent(k) \/ Detach(k) \/ RetireFlushed(k) \/ DrainCall(k) \/ Discard(k) PROVE PoolOK'
  BY <1>0, <1>5, SessionEventPool, DetachPool, RetireFlushedPool, DrainCallPool, DiscardPool
<1>6. CASE Create \/ Veto \/ HotReload \/ ExternalWrite \/ Evict
  BY <1>0, <1>6, CreatePool, VetoPool, HotReloadPool, ExternalWritePool, EvictPool
<1> QED BY <1>1, <1>2, <1>3, <1>4, <1>5, <1>6 DEF Next, Steps

--------
\* The running job and the reserved entry, step by step.

LEMMA TailNew ==
  ASSUME TypeOK, PoolOK, chain # <<>>
  PROVE  HeadNew(Tail(chain)) /\ \A j \in JobRecords : j.stage = "queued" => HeadNew(Append(Tail(chain), j))
<1> DEFINE q == Tail(chain)
<1>1. q \in Seq(JobRecords) /\ \A i \in 1 .. Len(q) : q[i].stage = "queued" BY FirstJob, PoolIs, QueuePop DEF TypeOK
<1> HIDE DEF q
<1>2. q # <<>> => 1 \in 1 .. Len(q) BY <1>1, LenProperties, EmptySeq
<1>3. HeadNew(q) BY <1>1, <1>2 DEF HeadNew
<1>4. ASSUME NEW j \in JobRecords, j.stage = "queued" PROVE HeadNew(Append(q, j))
  <2>1. Append(q, j)[Len(q) + 1] = j /\ \A i \in 1 .. Len(q) : Append(q, j)[i] = q[i] BY <1>1, AppendIs
  <2>2. CASE q = <<>>
    <3>1. Len(q) = 0 BY <2>2
    <3> QED BY <1>4, <2>1, <3>1 DEF HeadNew
  <2>3. CASE q # <<>>
    <3>1. Append(q, j)[1] = q[1] BY <1>2, <2>1, <2>3
    <3> QED BY <1>2, <1>1, <2>3, <3>1 DEF HeadNew
  <2> QED BY <2>2, <2>3
<1> QED BY <1>3, <1>4 DEF q

LEMMA PushHead ==
  ASSUME TypeOK, NEW j \in JobRecords, j.stage = "queued", NEW q, q = Append(chain, j)
  PROVE  HeadNew(q) \/ (chain # <<>> /\ q # <<>> /\ q[1] = chain[1])
<1>0. chain \in Seq(JobRecords) BY DEF TypeOK
<1>1. /\ q \in Seq(JobRecords) /\ Len(chain) \in Nat /\ Len(q) = Len(chain) + 1
      /\ q[Len(chain) + 1] = j /\ \A i \in 1 .. Len(chain) : q[i] = chain[i]
  BY <1>0, AppendIs
<1>2. q # <<>> BY <1>1
<1>3. CASE chain = <<>>
  <2>1. Len(chain) = 0 BY <1>3
  <2>2. q[1] = j BY <1>1, <2>1
  <2> QED BY <2>2 DEF HeadNew
<1>4. CASE chain # <<>>
  <2>1. 1 \in 1 .. Len(chain) BY <1>0, <1>1, <1>4, EmptySeq
  <2> QED BY <1>1, <1>2, <1>4, <2>1
<1> QED BY <1>3, <1>4

\* Nothing of it moves but the callers and the sessions; or the entry leaves, too.
LEMMA FrameSame ==
  ASSUME TypeOK, HeldIsStored, chain' = chain, UNCHANGED <<stored, state>>,
         entry' = entry \/ entry' = NoEntry \/ (entry.phase = "reserved" /\ entry' = [entry EXCEPT !.phase = "ready"])
  PROVE  Frame
<1>1. HeadNew(chain') \/ (chain # <<>> /\ chain' # <<>> /\ chain'[1] = chain[1]) BY DEF HeadNew
<1>2. NoEntry.phase = "none" BY DEF NoEntry
<1>3. [entry EXCEPT !.phase = "ready"].phase = "ready" BY DEF TypeOK, Entries
<1> QED BY <1>1, <1>2, <1>3 DEF Frame, HeldIsStored

LEMMA FramePush ==
  ASSUME TypeOK, HeldIsStored, NEW j \in JobRecords, j.stage = "queued", chain' = Append(chain, j), UNCHANGED <<stored, state>>,
         entry' = entry \/ entry' = NoEntry
  PROVE  Frame
<1>1. HeadNew(chain') \/ (chain # <<>> /\ chain' # <<>> /\ chain'[1] = chain[1]) BY PushHead
<1>2. NoEntry.phase = "none" BY DEF NoEntry
<1> QED BY <1>1, <1>2 DEF Frame, HeldIsStored

LEMMA FrameInspected ==
  ASSUME TypeOK, HeldIsStored, NEW c \in Callers, NEW fresh, NEW view \in Logs, Inspected(c, fresh, view, chain),
         UNCHANGED <<stored, state, entry>>
  PROVE  Frame
<1>1. CASE chain' = chain BY <1>1, FrameSame
<1>2. CASE chain' = Append(chain, [Job("append", c) EXCEPT !.upto = Len(view)])
  <2> DEFINE j == [Job("append", c) EXCEPT !.upto = Len(view)]
  <2>1. Len(view) \in Nat BY LenProperties DEF Logs
  <2>2. j \in JobRecords BY <2>1, JobTyped, ConstantsTyped DEF OfCalls
  <2>3. j.stage = "queued" BY DEF Job
  <2> HIDE DEF j
  <2>4. chain' = Append(chain, j) BY <1>2 DEF j
  <2> QED BY <2>2, <2>3, <2>4, FramePush
<1> QED BY <1>1, <1>2 DEF Inspected

LEMMA FrameStartInit ==
  ASSUME TypeOK, HeldIsStored, NEW k \in Sessions, StartInit(k), UNCHANGED <<stored, state>>, entry' = entry \/ entry' = NoEntry
  PROVE  Frame
<1> DEFINE j == [Job("init", k) EXCEPT !.upto = Len(sess[k].log)]
<1>1. chain' = Append(chain, j) BY DEF StartInit
<1>2. Len(sess[k].log) \in Nat BY LogsTyped DEF TypeOK, SessionRecords
<1>3. j \in JobRecords BY <1>2, JobTyped, ConstantsTyped DEF OfSessions
<1>4. j.stage = "queued" BY DEF Job
<1> HIDE DEF j
<1> QED BY <1>1, <1>3, <1>4, FramePush

LEMMA FrameAttach ==
  ASSUME TypeOK, NEW k \in Sessions, NEW log \in Logs, NEW calls, Attach(k, log, calls), entry.phase = "reserved"
  PROVE  Frame
<1> DEFINE j == [Job("suffix", k) EXCEPT !.upto = Len(log), !.src = entry.src]
<1>1. (chain' = chain \/ chain' = Append(chain, j)) /\ state.there /\ state' = [state EXCEPT !.owner = k] /\ entry' = NoEntry
  BY DEF Attach, Remove
<1>2. Len(log) \in Nat BY LenProperties DEF Logs
<1>3. j \in JobRecords BY <1>2, JobTyped, ConstantsTyped DEF OfSessions, TypeOK, Entries
<1>4. j.stage = "queued" BY DEF Job
<1> HIDE DEF j
<1>5. HeadNew(chain') \/ (chain # <<>> /\ chain' # <<>> /\ chain'[1] = chain[1])
  BY <1>1, <1>3, <1>4, PushHead DEF HeadNew
<1>6. NoEntry.phase = "none" /\ state'.there BY <1>1 DEF NoEntry, TypeOK, States
<1> QED BY <1>1, <1>5, <1>6 DEF Frame

\* The steps of the callers.
LEMMA CallerFrame ==
  ASSUME TypeOK, PoolOK, HeldIsStored, NoLiveWithEntry, NEW c \in Callers, Resume(c) \/ Settle(c) \/ Abort(c)
  PROVE  Frame
<1>0. call[c] \in CallRecords /\ sess \in [Sessions -> SessionRecords] /\ Refers(entry, call) BY PoolIs DEF TypeOK
<1>1. ASSUME MeetLive(c) PROVE Frame
  <2>1. UNCHANGED <<stored, retiring>> BY <1>1 DEF MeetLive
  <2>2. PICK k \in Registered :
          CASE call[c].op = "prepare" -> call' = Failed(c) /\ UNCHANGED <<state, entry, sess, chain>>
            [] call[c].op = "load" -> LoadLive(c, k)
            [] OTHER -> Inspected(c, TRUE, sess[k].log, chain) /\ UNCHANGED <<state, entry, sess>>
    BY <1>1 DEF MeetLive
  <2>3. k \in Sessions /\ sess[k].life \in {"entered", "live"} /\ sess[k].log \in Logs
    BY <1>0 DEF Registered, SessionRecords
  <2>4. CASE UNCHANGED <<state, entry, sess, chain>> BY <2>1, <2>4, FrameSame
  <2>5. CASE sess[k].life # "live" /\ Entering(k) /\ Attach(k, sess[k].log, AwaitsFlush(c, k))
    <3>1. PICK h \in Callers : call[h].pc = "entered" /\ call[h].awaits = k BY <2>5 DEF Entering
    <3>2. HoldsIn(call, sess, h) BY <2>3, <2>5, <3>1 DEF HoldsIn
    <3>3. entry.phase = "reserved" BY <3>2, HolderIs
    <3> QED BY <2>3, <2>5, <3>3, FrameAttach
  <2>6. CASE StartInit(k) /\ UNCHANGED <<state, entry>> BY <2>1, <2>3, <2>6, FrameStartInit
  <2>7. CASE Inspected(c, TRUE, sess[k].log, chain) /\ UNCHANGED <<state, entry, sess>>
    BY <2>1, <2>3, <2>7, FrameInspected
  <2> QED BY <2>2, <2>4, <2>5, <2>6, <2>7 DEF LoadLive
<1>2. ASSUME Join(c) PROVE Frame
  <2>1. UNCHANGED <<stored, state>> BY <1>2 DEF Join
  <2>2. CASE entry.phase = "none"
    <3> DEFINE j == [Job("load", c) EXCEPT !.gen = NewGen]
    <3>1. entry'.phase = "loading" /\ chain' = Append(chain, j) BY <1>2, <2>2 DEF Join
    <3>2. NewGen \in Nat BY NewGenIs
    <3>3. j \in JobRecords BY <3>2, JobTyped, ConstantsTyped DEF OfCalls
    <3>4. j.stage = "queued" BY DEF Job
    <3> HIDE DEF j
    <3>5. HeadNew(chain') \/ (chain # <<>> /\ chain' # <<>> /\ chain'[1] = chain[1]) BY <3>1, <3>3, <3>4, PushHead
    <3> QED BY <2>1, <3>1, <3>5 DEF Frame, HeldIsStored
  <2>3. CASE entry.phase # "none" BY <1>2, <2>1, <2>3, FrameSame DEF Join
  <2> QED BY <2>2, <2>3
<1>3. ASSUME Turn(c) PROVE Frame
  <2>1. UNCHANGED <<stored, state>> BY <1>3 DEF Turn
  <2>2. CASE UNCHANGED <<entry, chain>> BY <2>1, <2>2, FrameSame
  <2>3. CASE /\ entry.phase = "ready" /\ entry' = [entry EXCEPT !.phase = "committing"]
             /\ chain' = Append(chain, [Job("commit", c) EXCEPT !.src = entry.src])
    <3> DEFINE j == [Job("commit", c) EXCEPT !.src = entry.src]
    <3>1. entry.src \in Artifacts /\ entry'.phase = "committing" BY <2>3 DEF TypeOK, Entries
    <3>2. j \in JobRecords BY <3>1, JobTyped, ConstantsTyped DEF OfCalls
    <3>3. j.stage = "queued" /\ chain' = Append(chain, j) BY <2>3 DEF Job
    <3> HIDE DEF j
    <3>4. HeadNew(chain') \/ (chain # <<>> /\ chain' # <<>> /\ chain'[1] = chain[1]) BY <3>2, <3>3, PushHead
    <3> QED BY <2>1, <2>3, <3>1, <3>4 DEF Frame, HeldIsStored
  <2> QED BY <1>3, <2>2, <2>3 DEF Turn
<1>4. ASSUME Seen(c) PROVE Frame
  <2>1. UNCHANGED <<stored, state, entry>> BY <1>4 DEF Seen
  <2>2. CASE \E k \in Registered : Inspected(c, TRUE, sess[k].log, chain)
    <3>1. PICK k \in Registered : Inspected(c, TRUE, sess[k].log, chain) BY <2>2
    <3>2. sess[k].log \in Logs BY <1>0 DEF Registered, SessionRecords
    <3> QED BY <2>1, <3>1, <3>2, FrameInspected
  <2>3. CASE chain' = Append(chain, [Job("check", c) EXCEPT !.src = call[c].src])
    <3> DEFINE j == [Job("check", c) EXCEPT !.src = call[c].src]
    <3>1. call[c].src \in Artifacts BY <1>0 DEF CallRecords
    <3>2. j \in JobRecords BY <3>1, JobTyped, ConstantsTyped DEF OfCalls
    <3>3. j.stage = "queued" /\ chain' = Append(chain, j) BY <2>3 DEF Job
    <3> HIDE DEF j
    <3> QED BY <2>1, <3>2, <3>3, FramePush
  <2> QED BY <1>4, <2>2, <2>3 DEF Seen
<1>5. ASSUME Caught(c) PROVE Frame
  <2>1. UNCHANGED <<stored, state, entry>> BY <1>5 DEF Caught
  <2>2. CASE \E k \in Registered : Inspected(c, TRUE, sess[k].log, chain)
    <3>1. PICK k \in Registered : Inspected(c, TRUE, sess[k].log, chain) BY <2>2
    <3>2. sess[k].log \in Logs BY <1>0 DEF Registered, SessionRecords
    <3> QED BY <2>1, <3>1, <3>2, FrameInspected
  <2>3. CASE chain' = chain BY <2>1, <2>3, FrameSame
  <2> QED BY <1>5, <2>2, <2>3 DEF Caught
<1>6. ASSUME Reserved(c) PROVE Frame
  <2>1. UNCHANGED <<stored, state>> BY <1>6 DEF Reserved
  <2>2. CASE chain' = chain /\ (entry' = entry \/ entry' = NoEntry) BY <2>1, <2>2, FrameSame
  <2>3. CASE entry' = NoEntry /\ \E k \in Registered : StartInit(k) BY <2>1, <2>3, FrameStartInit DEF Registered
  <2> QED BY <1>6, <2>2, <2>3 DEF Reserved, Remove
<1>7. ASSUME Flushed(c) PROVE Frame BY <1>7, FrameSame DEF Flushed
<1>8. ASSUME NEW log, Unpublished(c, log), HoldsIn(call, sess, c), UNCHANGED <<stored, state, chain>> PROVE Frame
  <2>1. entry.phase = "reserved" BY <1>8, HolderIs
  <2>2. entry' = NoEntry \/ entry' = [entry EXCEPT !.phase = "ready"] BY <1>8 DEF Unpublished, MakeReady, Remove
  <2> QED BY <1>8, <2>1, <2>2, FrameSame
<1>9. ASSUME Release(c) PROVE Frame BY <1>8, <1>9 DEF Release, HoldsIn
<1>10. ASSUME Rollback(c) PROVE Frame
  <2>1. UNCHANGED <<stored, state, chain>> BY <1>10 DEF Rollback
  <2>2. CASE entry' = entry BY <2>1, <2>2, FrameSame
  <2>3. CASE sess[call[c].awaits].life = "entered" /\ Unpublished(c, sess[call[c].awaits].log)
    BY <1>8, <1>10, <2>1, <2>3 DEF Rollback, HoldsIn
  <2> QED BY <1>10, <2>2, <2>3 DEF Rollback
<1>11. ASSUME NEW setup \in BOOLEAN, Publish(c, setup) PROVE Frame
  <2>1. call[c].pc = "holding" /\ Unborn # {} /\ Attach(Next1(Unborn), PreparedLog(setup), Ended(c))
    BY <1>11 DEF Publish
  <2>2. entry.phase = "reserved" BY <2>1, HolderIs DEF HoldsIn
  <2> QED BY <2>1, <2>2, FrameAttach, Next1In, PreparedTyped
<1>12. ASSUME NEW setup \in BOOLEAN, Enter(c, setup) PROVE Frame BY <1>12, FrameSame DEF Enter
<1>13. ASSUME Abort(c) PROVE Frame
  <2>1. UNCHANGED <<stored, state, chain>> /\ (entry' = entry \/ entry' = NoEntry)
    BY <1>13 DEF Abort, RemoveOf, Remove
  <2> QED BY <2>1, FrameSame
<1> QED BY <1>1, <1>2, <1>3, <1>4, <1>5, <1>6, <1>7, <1>9, <1>10, <1>11, <1>12, <1>13 DEF Resume, Settle

\* The other steps that are no job's.
LEMMA StepsFrame ==
  ASSUME TypeOK, PoolOK, HeldIsStored, NoLiveWithEntry, Steps
  PROVE  Frame /\ (stored' = stored \/ ~Runs("commit", "current"))
<1>1. ASSUME NEW c \in Callers, Resume(c) \/ Settle(c) \/ Abort(c) PROVE Frame /\ stored' = stored
  <2>1. Frame BY <1>1, CallerFrame
  <2>2. stored' = stored
    BY <1>1 DEF Resume, Settle, MeetLive, Join, Turn, Seen, Caught, Reserved, Flushed, Release, Rollback, Publish, Enter, Abort
  <2> QED BY <2>1, <2>2
<1>2. ASSUME NEW c \in Callers, NEW op \in Ops, Begin(c, op) PROVE Frame /\ stored' = stored
  <2>1. UNCHANGED <<stored, state, entry>> /\ (chain' = chain \/ chain' = Append(chain, Job("create", c)))
    BY <1>2 DEF Begin
  <2>2. Job("create", c) \in JobRecords BY JobTyped, ConstantsTyped DEF OfCalls
  <2>3. Job("create", c).stage = "queued" BY DEF Job
  <2> QED BY <2>1, <2>2, <2>3, FramePush, FrameSame
<1>3. ASSUME NEW k \in Sessions, SessionEvent(k) \/ Detach(k) \/ Discard(k) PROVE Frame /\ stored' = stored
  <2>1. UNCHANGED <<stored, state, entry, chain>> BY <1>3 DEF SessionEvent, Detach, Discard
  <2> QED BY <2>1, FrameSame
<1>4. ASSUME NEW k \in Sessions, RetireFlushed(k) PROVE Frame /\ stored' = stored
  <2>1. UNCHANGED <<stored, state, entry>> /\ (chain' = chain \/ chain' = Append(chain, Job("retire", k)))
    BY <1>4 DEF RetireFlushed
  <2>2. Job("retire", k) \in JobRecords BY JobTyped, ConstantsTyped DEF OfSessions
  <2>3. Job("retire", k).stage = "queued" BY DEF Job
  <2> QED BY <2>1, <2>2, <2>3, FramePush, FrameSame
<1>5. ASSUME NEW k \in Sessions, DrainCall(k) PROVE Frame /\ stored' = stored
  <2> DEFINE j == [Job("drain", k) EXCEPT !.upto = Len(sess[k].log)]
  <2>1. UNCHANGED <<stored, state, entry>> /\ chain' = Append(chain, j) BY <1>5 DEF DrainCall
  <2>2. Len(sess[k].log) \in Nat BY LogsTyped DEF TypeOK, SessionRecords
  <2>3. j \in JobRecords BY <2>2, JobTyped, ConstantsTyped DEF OfSessions
  <2>4. j.stage = "queued" BY DEF Job
  <2> HIDE DEF j
  <2> QED BY <2>1, <2>3, <2>4, FramePush
<1>6. ASSUME Create PROVE Frame /\ stored' = stored
  <2>1. Unborn # {} /\ StartInit(Next1(Unborn)) /\ UNCHANGED <<stored, state, entry>> BY <1>6 DEF Create
  <2> QED BY <2>1, FrameStartInit, Next1In
<1>7. ASSUME Veto PROVE Frame /\ stored' = stored
  <2>1. UNCHANGED <<stored, state, entry, chain>> BY <1>7 DEF Veto
  <2> QED BY <2>1, FrameSame
<1>8. ASSUME HotReload PROVE Frame /\ stored' = stored
  <2>1. chain = <<>> /\ entry = NoEntry /\ entry' = entry /\ state' = NoState /\ stored' = stored
    BY Zenon, <1>8 DEF HotReload
  <2>2. chain' = <<>> \/ \E k : chain' = <<[Job("init", k) EXCEPT !.upto = Len(sess[k].log)]>>
    BY Zenon, <1>8 DEF HotReload
  <2>3. HeadNew(chain')
    <3>1. ASSUME NEW k, chain' = <<[Job("init", k) EXCEPT !.upto = Len(sess[k].log)]>> PROVE chain'[1].stage = "queued"
      <4>1. chain'[1] = [Job("init", k) EXCEPT !.upto = Len(sess[k].log)] BY <3>1
      <4> QED BY <4>1 DEF Job
    <3> QED BY <2>2, <3>1 DEF HeadNew
  <2>4. entry'.phase = "none" /\ state'.owner = Nobody BY <2>1 DEF NoEntry, NoState
  <2> QED BY <2>1, <2>3, <2>4 DEF Frame
<1>9. ASSUME ExternalWrite PROVE Frame /\ ~Runs("commit", "current")
  <2>1. UNCHANGED <<state, entry, chain>> /\ entry.phase # "reserved" BY <1>9 DEF ExternalWrite
  <2>2. \A i \in DOMAIN chain : chain[i].kind = "commit" => chain[i].stage = "queued" BY <1>9 DEF ExternalWrite
  <2>3. chain # <<>> => 1 \in DOMAIN chain BY EmptySeq, LenProperties DEF TypeOK
  <2> QED BY <2>1, <2>2, <2>3 DEF Frame, HeldIsStored, HeadNew, Runs
<1>10. ASSUME Evict PROVE Frame /\ stored' = stored BY <1>10, FrameSame DEF Evict
<1> QED BY <1>1, <1>2, <1>3, <1>4, <1>5, <1>6, <1>7, <1>8, <1>9, <1>10 DEF Steps

LEMMA FrameShape ==
  ASSUME TypeOK, PoolOK, RunningShape, HeldIsStored, Frame, stored' = stored \/ ~Runs("commit", "current")
  PROVE  RunningShape' /\ HeldIsStored'
<1>1. HeldIsStored' BY DEF Frame, HeldIsStored
<1>2. CASE HeadNew(chain')
  <2>1. \A kind, stage : stage # "queued" => ~Runs(kind, stage)' BY <1>2 DEF HeadNew, Runs
  <2> QED BY <1>1, <2>1 DEF RunningShape
<1>3. CASE chain # <<>> /\ chain' # <<>> /\ chain'[1] = chain[1]
  <2>1. \A kind, stage : Runs(kind, stage)' = Runs(kind, stage) BY <1>3 DEF Runs
  <2>2. chain[1].kind = "commit" => entry.phase # "reserved" BY <1>3, FirstJob DEF JobOK
  <2>3. Runs("commit", "current") \/ Runs("commit", "stale") => state' = state BY <1>3, <2>2 DEF Frame, Runs
  <2>4. Runs("append", "read")' \/ Runs("append", "adopt")' \/ Runs("append", "write")' \/ Runs("drain", "write")' => entry'.phase # "reserved"
    BY <2>1 DEF RunningShape, Frame
  <2>5. Runs("create", "read")' => entry'.phase \in {"none", "loading"} BY <2>1 DEF RunningShape, Frame
  <2>6. Runs("commit", "current")' \/ Runs("commit", "stale")' => state'.owner = Nobody BY <2>1, <2>3 DEF RunningShape
  <2>7. Runs("commit", "current")' => stored' = chain'[1].src BY <1>3, <2>1 DEF RunningShape
  <2> QED BY <1>1, <2>4, <2>5, <2>6, <2>7 DEF RunningShape
<1> QED BY <1>1, <1>2, <1>3 DEF Frame

LEMMA NewShape ==
  ASSUME HeadNew(chain')
  PROVE  RunningShape'
<1>1. \A kind, stage : stage # "queued" => ~Runs(kind, stage)' BY DEF HeadNew, Runs
<1> QED BY <1>1 DEF RunningShape

\* The running job goes on.
LEMMA OnShape ==
  ASSUME chain' # <<>>, NEW kind, NEW stage, NEW src, chain'[1].kind = kind, chain'[1].stage = stage, chain'[1].src = src,
         kind = "append" /\ stage \in {"read", "adopt", "write"} => entry'.phase # "reserved",
         kind = "drain" /\ stage = "write" => entry'.phase # "reserved",
         kind = "create" /\ stage = "read" => entry'.phase \in {"none", "loading"},
         kind = "commit" /\ stage \in {"current", "stale"} => state'.owner = Nobody,
         kind = "commit" /\ stage = "current" => stored' = src
  PROVE  RunningShape'
<1>1. \A x, y : Runs(x, y)' => kind = x /\ stage = y BY DEF Runs
<1> QED BY <1>1 DEF RunningShape

LEMMA StageIs ==
  ASSUME TypeOK, chain # <<>>, NEW stage \in Stages, NEW src \in Artifacts,
         chain' = AtStage(stage, src) \/ (chain' = [chain EXCEPT ![1].stage = stage] /\ src = chain[1].src)
  PROVE  chain' # <<>> /\ chain'[1].kind = chain[1].kind /\ chain'[1].stage = stage /\ chain'[1].src = src
<1>1. chain[1] \in JobRecords /\ 1 \in DOMAIN chain /\ chain \in Seq(JobRecords)
  BY EmptySeq, LenProperties, TailIs DEF TypeOK
<1>2. CASE chain' = AtStage(stage, src)
  <2>1. /\ AtStage(stage, src) \in Seq(JobRecords) /\ Len(AtStage(stage, src)) = Len(chain)
        /\ AtStage(stage, src)[1] = [chain[1] EXCEPT !.stage = stage, !.src = src]
    BY Zenon, <1>1, StageTyped
  <2>2. AtStage(stage, src) # <<>> BY <1>1, <2>1, EmptySeq
  <2>3. chain'[1] = [chain[1] EXCEPT !.stage = stage, !.src = src] /\ chain' # <<>> BY <1>2, <2>1, <2>2
  <2> QED BY <1>1, <2>3 DEF JobRecords
<1>3. CASE chain' = [chain EXCEPT ![1].stage = stage] /\ src = chain[1].src
  <2>1. chain'[1] = [chain[1] EXCEPT !.stage = stage] BY <1>1, <1>3
  <2>2. DOMAIN chain' = DOMAIN chain BY <1>3
  <2>3. chain' # <<>> BY <1>1, <2>2
  <2> QED BY <1>1, <1>3, <2>1, <2>3 DEF JobRecords
<1> QED BY <1>2, <1>3

LEMMA EntryFates ==
  ASSUME TypeOK
  PROVE  /\ NoEntry.phase = "none"
         /\ [entry EXCEPT !.phase = "ready"].phase = "ready"
         /\ \A a : [entry EXCEPT !.phase = "ready", !.src = a].phase = "ready"
         /\ \A c, calls : RemoveOf(c, calls) => entry' \in {entry, NoEntry}
         /\ \A calls : Invalidate(calls) => entry' \in {entry, NoEntry}
BY DEF TypeOK, Entries, NoEntry, RemoveOf, Remove, Invalidate

\* The jobs that start.
LEMMA StartShape ==
  ASSUME TypeOK, PoolOK, HeldIsStored, LoadStart \/ CommitStart \/ CheckStart \/ CreateStart \/ AppendStart
  PROVE  RunningShape' /\ HeldIsStored'
<1>0. chain # <<>> /\ stored \in Artifacts /\ chain[1].src \in Artifacts /\ entry.src \in Artifacts
  <2>1. chain # <<>> BY DEF LoadStart, CommitStart, CheckStart, CreateStart, AppendStart, Runs
  <2> QED BY <2>1, FirstJob DEF TypeOK, JobRecords, Entries
<1>1. HeadNew(Tail(chain)) /\ (chain' = Tail(chain) => RunningShape') BY <1>0, TailNew, NewShape
<1>2. HeldIsStored'
  <2>1. UNCHANGED <<stored, state>> /\ entry' \in {entry, NoEntry}
    BY EntryFates DEF LoadStart, CommitStart, CheckStart, CreateStart, AppendStart, Remove
  <2> QED BY <2>1, EntryFates DEF HeldIsStored
<1>3. CASE LoadStart
  <2>1. chain[1].kind = "load" /\ chain' = AtStage("read", stored) BY <1>3 DEF LoadStart, Runs
  <2>2. chain' # <<>> /\ chain'[1].kind = "load" BY <1>0, <2>1, StageIs DEF Stages
  <2> QED BY <1>2, <2>2, OnShape
<1>4. CASE CommitStart
  <2>1. CASE chain' = Tail(chain) BY <1>1, <1>2, <2>1
  <2>2. CASE ~(state.there /\ state.owner # Nobody)
             /\ chain' = [chain EXCEPT ![1].stage = IF stored = chain[1].src THEN "current" ELSE "stale"]
    <3> DEFINE stage == IF stored = chain[1].src THEN "current" ELSE "stale"
    <3>1. stage \in Stages BY DEF Stages
    <3>2. chain' = [chain EXCEPT ![1].stage = stage] BY <2>2
    <3> HIDE DEF stage
    <3>3. chain' # <<>> /\ chain'[1].kind = chain[1].kind /\ chain'[1].stage = stage /\ chain'[1].src = chain[1].src
      BY <1>0, <3>1, <3>2, StageIs
    <3>4. chain[1].kind = "commit" /\ UNCHANGED <<stored, state>> BY <1>4 DEF CommitStart, Runs
    <3>5. state'.owner = Nobody BY <2>2, <3>4 DEF HeldIsStored
    <3>6. stage = "current" => stored' = chain[1].src BY <3>4 DEF stage
    <3> QED BY <1>2, <3>3, <3>4, <3>5, <3>6, OnShape
  <2> QED BY <1>4, <2>1, <2>2 DEF CommitStart
<1>5. CASE CheckStart
  <2>1. CASE chain' = Tail(chain) BY <1>1, <1>2, <2>1
  <2>2. CASE chain' = [chain EXCEPT ![1].stage = IF stored = chain[1].src THEN "current" ELSE "stale"]
    <3> DEFINE stage == IF stored = chain[1].src THEN "current" ELSE "stale"
    <3>1. stage \in Stages BY DEF Stages
    <3>2. chain' = [chain EXCEPT ![1].stage = stage] BY <2>2
    <3> HIDE DEF stage
    <3>3. chain' # <<>> /\ chain'[1].kind = chain[1].kind BY <1>0, <3>1, <3>2, StageIs
    <3>4. chain[1].kind = "check" BY <1>5 DEF CheckStart, Runs
    <3> QED BY <1>2, <3>3, <3>4, OnShape
  <2> QED BY <1>5, <2>1, <2>2 DEF CheckStart
<1>6. CASE CreateStart
  <2>1. CASE chain' = Tail(chain) BY <1>1, <1>2, <2>1
  <2>2. CASE chain' = AtStage("read", stored) /\ entry.phase = "none"
    <3>1. chain[1].kind = "create" /\ entry' = entry BY <1>6 DEF CreateStart, Runs
    <3>2. chain' # <<>> /\ chain'[1].kind = "create" /\ chain'[1].stage = "read"
      BY <1>0, <2>2, <3>1, StageIs DEF Stages
    <3> QED BY <1>2, <2>2, <3>1, <3>2, OnShape
  <2> QED BY <1>6, <2>1, <2>2 DEF CreateStart
<1>7. CASE AppendStart
  <2>1. CASE chain' = Tail(chain) BY <1>1, <1>2, <2>1
  <2>2. CASE Writable /\ \E stage \in {"write", "read", "adopt"}, src \in Artifacts : chain' = AtStage(stage, src)
    <3>1. PICK stage \in {"write", "read", "adopt"}, src \in Artifacts : chain' = AtStage(stage, src) BY <2>2
    <3>2. chain[1].kind = "append" /\ entry' \in {entry, NoEntry} BY <1>7 DEF AppendStart, Runs, Remove
    <3>3. entry'.phase # "reserved" BY <2>2, <3>2, EntryFates DEF Writable
    <3>4. chain' # <<>> /\ chain'[1].kind = "append" /\ chain'[1].stage = stage
      BY <1>0, <3>1, <3>2, StageIs DEF Stages
    <3> QED BY <1>2, <3>3, <3>4, OnShape
  <2> QED BY <1>0, <1>7, <2>1, <2>2, ConstantsTyped DEF AppendStart
<1> QED BY <1>3, <1>4, <1>5, <1>6, <1>7

\* What a job that ends leaves: no entry is reserved but by the end of a commit.
LEMMA FreeHeld ==
  ASSUME entry'.phase # "reserved", ~state'.there => state'.owner = Nobody
  PROVE  HeldIsStored'
BY DEF HeldIsStored

LEMMA BindHeld ==
  ASSUME TypeOK, PoolOK, HeldIsStored, chain # <<>>, chain[1].kind \in Initial,
         NEW k, NEW base, NEW cursor, NEW made, NEW seed, Bind(k, base, cursor, made, seed)
  PROVE  HeldIsStored'
<1>1. entry.phase # "reserved" BY FirstJob DEF JobOK
<1>2. entry' \in {entry, NoEntry} /\ state'.there BY EntryFates DEF Bind, State
<1> QED BY <1>1, <1>2, EntryFates, FreeHeld

LEMMA CommitEndHeld ==
  ASSUME TypeOK, PoolOK, RunningShape, HeldIsStored, CommitEnd
  PROVE  HeldIsStored'
<1> DEFINE c == chain[1].who
           src == chain[1].src
<1>1. /\ chain # <<>> /\ chain[1].kind = "commit" /\ Runs("commit", "current") /\ chain[1].stage = "current"
      /\ ~NeedsRepair(src) /\ stored' = stored /\ state' = State(Len(Balanced(src)), TRUE, state.owner)
  BY DEF CommitEnd, Runs, SourceCurrent
<1>2. stored = src /\ state.owner = Nobody BY <1>1 DEF RunningShape
<1>3. c \in Callers /\ call[c].pc = "commit" BY <1>1, FirstCommit
<1>4. \/ entry.phase \in {"none", "loading"}
      \/ entry.phase = "committing" /\ src = entry.src
  BY <1>1, FirstJob DEF JobOK
<1>5. state'.there /\ state'.owner = Nobody /\ state'.cursor = Len(Balanced(src)) BY <1>1, <1>2 DEF State
<1>6. CASE entry' = [entry EXCEPT !.phase = "reserved"] /\ Current(c)
  <2>1. CommitsIn(entry, call, c) BY <1>3, <1>6 DEF CommitsIn, Current
  <2>2. entry.phase = "committing" BY <1>3, <2>1, PoolIs DEF Turns
  <2>3. entry'.src = src BY <1>4, <1>6, <2>2 DEF TypeOK, Entries
  <2>4. Closers(src) = <<>> /\ ~src.torn BY <1>1 DEF NeedsRepair
  <2>5. src.log \in Logs BY <1>2 DEF TypeOK, Artifacts
  <2>6. Balanced(src) = src.log BY <2>4, <2>5, ConcatEmptySeq DEF Balanced, Logs
  <2> HIDE DEF src, c
  <2> QED BY <1>1, <1>2, <1>5, <2>3, <2>4, <2>6 DEF HeldIsStored
<1>7. CASE entry' = entry \/ entry' = [entry EXCEPT !.phase = "ready"] BY <1>4, <1>5, <1>7, FreeHeld, EntryFates
<1> QED BY <1>6, <1>7 DEF CommitEnd, MakeReady

\* The jobs that end.
LEMMA EndShape ==
  ASSUME TypeOK, PoolOK, RunningShape, HeldIsStored,
         \/ LoadEnd \/ CommitRetry \/ CommitEnd \/ CommitFault \/ CheckEnd \/ CreateEnd \/ AppendEnd
         \/ InitEnd \/ Suffix \/ DrainEnd \/ RetireRun
  PROVE  RunningShape' /\ HeldIsStored'
<1>0. chain # <<>>
  BY Zenon DEF LoadEnd, CommitRetry, CommitEnd, CommitFault, CheckEnd, CreateEnd, AppendEnd, InitEnd, Suffix, DrainEnd, RetireRun, Runs
<1>1. ASSUME chain' = Tail(chain) PROVE RunningShape' BY <1>0, <1>1, TailNew, NewShape
<1>2. chain[1].kind \in {"commit"} \cup Initial => entry.phase # "reserved" BY <1>0, FirstJob DEF JobOK
<1>3. CASE LoadEnd
  <2>1. chain' = Tail(chain) /\ UNCHANGED <<stored, state>> BY Zenon, <1>3 DEF LoadEnd
  <2>2. entry' = entry \/ entry' = NoEntry \/ entry' = [entry EXCEPT !.phase = "ready", !.src = chain[1].src]
    BY Zenon, <1>3 DEF LoadEnd
  <2> QED BY Zenon, <1>1, <2>1, <2>2, EntryFates DEF HeldIsStored
<1>4. CASE CommitRetry \/ CommitFault
  <2>1. chain' = Tail(chain) /\ state' = state /\ chain[1].kind = "commit" /\ entry' \in {entry, NoEntry}
    BY <1>4, EntryFates DEF CommitRetry, CommitFault, Runs
  <2> QED BY <1>1, <1>2, <2>1, EntryFates, FreeHeld DEF HeldIsStored
<1>5. CASE CommitEnd BY <1>1, <1>5, CommitEndHeld DEF CommitEnd
<1>6. CASE CheckEnd
  <2>1. UNCHANGED <<stored, state>> /\ entry' \in {entry, NoEntry} BY <1>6 DEF CheckEnd, Remove
  <2>2. ASSUME NEW fresh, NEW view \in Logs, Inspected(chain[1].who, fresh, view, Tail(chain)) PROVE RunningShape'
    <3> DEFINE j == [Job("append", chain[1].who) EXCEPT !.upto = Len(view)]
    <3>1. chain' = Tail(chain) \/ chain' = Append(Tail(chain), j) BY <2>2 DEF Inspected
    <3>2. chain[1].who \in Callers \cup Sessions /\ Len(view) \in Nat
      BY <1>0, FirstJob, LenProperties DEF JobRecords, Logs
    <3>3. j \in JobRecords BY <3>2, JobTyped, ConstantsTyped DEF OfCalls
    <3>4. j.stage = "queued" BY DEF Job
    <3> HIDE DEF j
    <3> QED BY <1>0, <1>1, <3>1, <3>3, <3>4, TailNew, NewShape
  <2>3. chain[1].who \in Callers BY <1>0, <1>6, FirstJob DEF CheckEnd, Runs, OfCalls
  <2>4. RunningShape' BY <1>1, <1>6, <2>2, <2>3, ViewTyped DEF CheckEnd
  <2> QED BY <2>1, <2>4, EntryFates DEF HeldIsStored
<1>7. CASE CreateEnd
  <2>1. chain' = Tail(chain) /\ entry' = entry /\ (state' = state \/ state' = State(0, FALSE, Nobody))
    BY <1>7 DEF CreateEnd
  <2>2. entry.phase # "reserved" BY <1>7 DEF CreateEnd, RunningShape
  <2> QED BY <1>1, <2>1, <2>2, FreeHeld DEF HeldIsStored, State
<1>8. CASE AppendEnd
  <2>1. chain' = Tail(chain) /\ entry' \in {entry, NoEntry} /\ (state' = state \/ state' = Advanced(1))
    BY <1>8, EntryFates DEF AppendEnd
  <2>2. entry.phase # "reserved" BY <1>8 DEF AppendEnd, RunningShape
  <2>3. state'.there = state.there /\ state'.owner = state.owner BY <2>1 DEF Advanced, TypeOK, States
  <2> QED BY <1>1, <2>1, <2>2, <2>3, FreeHeld, EntryFates DEF HeldIsStored
<1>9. CASE InitEnd \/ Suffix
  <2>1. chain' = Tail(chain) /\ chain[1].kind \in Initial BY <1>9 DEF InitEnd, Suffix, Runs, Initial
  <2>2. CASE UNCHANGED <<stored, state, entry>> BY <1>1, <2>1, <2>2 DEF HeldIsStored
  <2>3. CASE \E k, base, cursor, made, seed : Bind(k, base, cursor, made, seed) BY <1>0, <1>1, <2>1, <2>3, BindHeld
  <2> QED BY <1>9, <2>2, <2>3 DEF InitEnd, Suffix
<1>11. CASE DrainEnd
  <2>1. chain' = Tail(chain) /\ entry' \in {entry, NoEntry} /\ (state' = state \/ state' = Advanced(Len(Fresh(chain[1]))))
    BY <1>11, EntryFates DEF DrainEnd, DrainFailed
  <2>2. entry.phase # "reserved" BY <1>11 DEF DrainEnd, RunningShape
  <2>3. state'.there = state.there /\ state'.owner = state.owner BY <2>1 DEF Advanced, TypeOK, States
  <2> QED BY <1>1, <2>1, <2>2, <2>3, FreeHeld, EntryFates DEF HeldIsStored
<1>12. CASE RetireRun
  <2>1. chain' = Tail(chain) /\ UNCHANGED <<stored, entry>> /\ state' = IF state.owner = chain[1].who THEN NoState ELSE state
    BY <1>12 DEF RetireRun, OwnsState
  <2>2. chain[1].who \in Sessions BY <1>0, <1>12, FirstJob DEF RetireRun, Runs, OfSessions
  <2>3. chain[1].who # Nobody BY <2>2 DEF Sessions, Nobody
  <2> QED BY <1>1, <2>1, <2>3 DEF HeldIsStored, NoState
<1> QED BY <1>3, <1>4, <1>5, <1>6, <1>7, <1>8, <1>9, <1>11, <1>12

\* The jobs in between.
LEMMA MiddleShape ==
  ASSUME TypeOK, PoolOK, RunningShape, HeldIsStored, AppendRead \/ Adopt \/ InitStart \/ DrainStart
  PROVE  RunningShape' /\ HeldIsStored'
<1>0. chain # <<>> /\ stored \in Artifacts /\ chain[1].src \in Artifacts
  <2>1. chain # <<>> BY DEF AppendRead, Adopt, InitStart, DrainStart, Runs
  <2> QED BY <2>1, FirstJob DEF TypeOK, JobRecords
<1>1. ASSUME chain' = Tail(chain) PROVE RunningShape' BY <1>0, <1>1, TailNew, NewShape
<1>2. CASE AppendRead \/ Adopt
  <2>1. chain[1].kind = "append" /\ entry' = entry /\ entry.phase # "reserved" BY <1>2 DEF AppendRead, Adopt, RunningShape, Runs
  <2>2. state' = state \/ state' = State(Len(chain[1].src.log), TRUE, Nobody) BY <1>2 DEF AppendRead, Adopt
  <2>3. HeldIsStored' BY <2>1, <2>2, FreeHeld DEF HeldIsStored, State
  <2>4. CASE \E stage \in {"read", "adopt", "write"}, src \in Artifacts : chain' = AtStage(stage, src)
    <3>1. PICK stage \in {"read", "adopt", "write"}, src \in Artifacts : chain' = AtStage(stage, src) BY <2>4
    <3>2. chain' # <<>> /\ chain'[1].kind = "append" /\ chain'[1].stage = stage BY <1>0, <2>1, <3>1, StageIs DEF Stages
    <3> QED BY <2>1, <2>3, <3>2, OnShape
  <2> QED BY <1>0, <1>1, <1>2, <2>3, <2>4, BalancedTyped DEF AppendRead, Adopt
<1>3. CASE InitStart
  <2>1. chain[1].kind = "init" /\ UNCHANGED <<stored, entry>> /\ (state' = state \/ state' = NoState)
    BY <1>3 DEF InitStart, Runs
  <2>2. entry.phase # "reserved" BY <1>0, <2>1, FirstJob DEF JobOK, Initial
  <2>3. HeldIsStored' BY <2>1, <2>2, FreeHeld DEF HeldIsStored, NoState
  <2>4. CASE chain' = Tail(chain) BY <1>1, <2>3, <2>4
  <2>5. CASE \E stage \in {"claim", "read"} : chain' = AtStage(stage, stored)
    <3>1. chain' # <<>> /\ chain'[1].kind = "init" BY <1>0, <2>1, <2>5, StageIs DEF Stages
    <3> QED BY <2>3, <3>1, OnShape
  <2> QED BY <1>3, <2>4, <2>5 DEF InitStart
<1>4. CASE DrainStart
  <2>1. chain[1].kind = "drain" /\ UNCHANGED <<stored, state, entry>> BY <1>4 DEF DrainStart, Runs
  <2>2. HeldIsStored' BY <2>1 DEF HeldIsStored
  <2>3. CASE chain' = Tail(chain) BY <1>1, <2>2, <2>3
  <2>4. CASE Writable /\ chain' = AtStage("write", Absent)
    <3>1. chain' # <<>> /\ chain'[1].kind = "drain" /\ chain'[1].stage = "write"
      BY <1>0, <2>1, <2>4, StageIs, ConstantsTyped DEF Stages
    <3> QED BY <2>1, <2>2, <2>4, <3>1, OnShape DEF Writable
  <2> QED BY <1>4, <2>3, <2>4 DEF DrainStart, DrainFailed
<1> QED BY <1>2, <1>3, <1>4

LEMMA ShapeStep ==
  ASSUME CoordinatorInvariant, [Next]_vars
  PROVE  RunningShape' /\ HeldIsStored'
<1>0. TypeOK /\ PoolOK /\ RunningShape /\ HeldIsStored /\ NoLiveWithEntry BY DEF CoordinatorInvariant
<1>1. CASE Chain BY <1>0, <1>1, StartShape, MiddleShape, EndShape DEF Chain
<1>2. CASE Steps BY <1>0, <1>2, StepsFrame, FrameShape
<1>3. CASE UNCHANGED vars BY <1>0, <1>3 DEF vars, RunningShape, HeldIsStored, Runs
<1> QED BY <1>1, <1>2, <1>3 DEF Next

--------
\* What the pool does not hold: the log, its state, the retirement and the histories.

LEMMA Counts ==
  ASSUME TypeOK, NoFault \/ Fault \/ (Upset /\ faults' = faults)
  PROVE  upsets' \in Nat /\ faults' \in Nat /\ faults <= faults'
BY DEF TypeOK, NoFault, Fault, Upset

LEMMA StateTyped ==
  ASSUME NEW n \in Nat, NEW made \in BOOLEAN, NEW o \in Owners
  PROVE  State(n, made, o) \in States
BY DEF State, States

LEMMA AdvancedIs ==
  ASSUME state \in States, NEW n \in Nat
  PROVE  /\ Advanced(n) \in States
         /\ Advanced(n).there = state.there /\ Advanced(n).cursor = state.cursor + n /\ Advanced(n).owner = state.owner
<1> HIDE DEF Owners
<1> DEFINE m == state.cursor + n
<1>1. m \in Nat BY DEF States
<1>2. Advanced(n) = [state EXCEPT !.cursor = m, !.made = TRUE] BY DEF Advanced, States
<1> HIDE DEF m
<1>3. [state EXCEPT !.cursor = m, !.made = TRUE] \in States BY <1>1 DEF States
<1>4. /\ [state EXCEPT !.cursor = m, !.made = TRUE].there = state.there
      /\ [state EXCEPT !.cursor = m, !.made = TRUE].cursor = m
      /\ [state EXCEPT !.cursor = m, !.made = TRUE].owner = state.owner
  BY DEF States
<1> QED BY <1>2, <1>3, <1>4 DEF m

LEMMA WrittenTyped ==
  ASSUME TypeOK, NEW log \in Logs
  PROVE  Written(log) \in Artifacts /\ Len(log) \in Nat /\ Advanced(Len(log)) \in States
<1>1. stored.log \in Logs /\ state.cursor \in Nat BY DEF TypeOK, Artifacts, States
<1>2. stored.log \o log \in Logs /\ Len(log) \in Nat BY <1>1, LogsTyped
<1>3. Written(log) \in Artifacts BY <1>2 DEF Written, Artifacts
<1>4. state \in States BY DEF TypeOK
<1> QED BY <1>2, <1>3, <1>4, AdvancedIs

\* The seed of a queued initialization, and the events of a queued drain.
LEMMA SeedTyped ==
  ASSUME TypeOK, PoolOK, chain # <<>>
  PROVE  /\ chain[1].kind \in Initial => SeedOf(chain[1]) \in Logs /\ Len(SeedOf(chain[1])) = chain[1].upto
         /\ chain[1].kind = "drain" => Fresh(chain[1]) \in Logs
<1> DEFINE k == chain[1].who
           u == chain[1].upto
<1>1. u \in Nat /\ state.cursor \in Nat BY FirstJob DEF TypeOK, States, JobRecords
<1>2. ASSUME chain[1].kind \in Initial \cup {"drain"} PROVE sess[k].log \in Logs /\ u <= Len(sess[k].log)
  <2>1. k \in Sessions /\ u <= Len(sess[k].log) BY <1>2, FirstJob DEF JobOK, OfSessions, Initial
  <2> QED BY <2>1 DEF TypeOK, SessionRecords
<1> HIDE DEF k, u
<1>3. ASSUME chain[1].kind \in Initial PROVE SeedOf(chain[1]) \in Logs /\ Len(SeedOf(chain[1])) = u
  <2>1. sess[k].log \in Logs /\ u <= Len(sess[k].log) /\ Len(sess[k].log) \in Nat
    BY <1>2, <1>3, LenProperties DEF Logs
  <2> DEFINE z == 0
  <2>2. z \in Nat /\ z + 1 = 1 OBVIOUS
  <2> HIDE DEF z
  <2>5. SubSeq(sess[k].log, z + 1, u) \in Logs BY <1>1, <2>1, <2>2, LogsTyped
  <2>4. SubSeq(sess[k].log, 1, u) \in Logs BY <2>2, <2>5
  <2>3. Len(SubSeq(sess[k].log, 1, u)) = u BY <1>1, <2>1, SubSeqProperties DEF Logs
  <2> QED BY <2>3, <2>4 DEF SeedOf, k, u
<1>4. ASSUME chain[1].kind = "drain" PROVE Fresh(chain[1]) \in Logs BY <1>1, <1>2, <1>4, LogsTyped DEF Fresh, k, u
<1> QED BY <1>3, <1>4 DEF u

LEMMA BindTyped ==
  ASSUME TypeOK, NEW k \in Sessions, NEW base \in Artifacts, NEW cursor \in Nat, NEW made \in BOOLEAN, NEW seed \in Logs,
         Bind(k, base, cursor, made, seed)
  PROVE  stored' \in Artifacts /\ state' \in States /\ upsets' \in Nat /\ faults' \in Nat /\ faults <= faults'
<1> DEFINE suffix == SubSeq(seed, cursor + 1, Len(seed))
<1>0. Len(seed) \in Nat BY LenProperties DEF Logs
<1>1. suffix \in Logs BY <1>0, LogsTyped
<1>2. Len(suffix) \in Nat /\ base.log \o suffix \in Logs BY <1>1, LogsTyped DEF Artifacts
<1>3. upsets' \in Nat /\ faults' \in Nat /\ faults <= faults' BY Counts DEF Bind
<1>4. \/ /\ stored' = IF suffix = <<>> THEN base ELSE [made |-> TRUE, log |-> base.log \o suffix, torn |-> FALSE]
         /\ state' = State(cursor + Len(suffix), made \/ suffix # <<>>, k)
      \/ stored' = base /\ state' = State(cursor, made, k)
  BY DEF Bind
<1>5. k \in Owners /\ cursor + Len(suffix) \in Nat /\ (made \/ suffix # <<>>) \in BOOLEAN BY <1>2 DEF Owners
<1> HIDE DEF suffix
<1>6. state' \in States BY <1>4, <1>5, StateTyped
<1>7. [made |-> TRUE, log |-> base.log \o suffix, torn |-> FALSE] \in Artifacts BY <1>2 DEF Artifacts
<1> QED BY <1>3, <1>4, <1>6, <1>7

LEMMA SameRest ==
  ASSUME TypeOK, UNCHANGED <<stored, state, retiring, raced>>, NoFault \/ Fault \/ (Upset /\ faults' = faults)
  PROVE  Rest
BY Counts DEF Rest, TypeOK

LEMMA ForgetsTyped ==
  ASSUME TypeOK, NEW k, Forgets(k)
  PROVE  retiring' \in Owners
BY DEF TypeOK, Forgets, Owners

\* The jobs of the chain.
LEMMA JobRest ==
  ASSUME TypeOK, PoolOK, RunningShape, Chain
  PROVE  Rest
<1>0. /\ stored \in Artifacts /\ state \in States /\ retiring \in Owners /\ upsets \in Nat /\ faults \in Nat
      /\ raced \in SUBSET {"append", "resume"}
  BY DEF TypeOK
<1>1. CASE LoadStart \/ CommitStart \/ CheckStart \/ CreateStart \/ AppendStart
  BY <1>1, SameRest DEF LoadStart, CommitStart, CheckStart, CreateStart, AppendStart, NoFault
<1>2. CASE LoadEnd \/ CommitFault \/ CheckEnd \/ AppendRead
  <2>1. UNCHANGED <<stored, state, retiring, raced>> BY Zenon, <1>2 DEF LoadEnd, CommitFault, CheckEnd, AppendRead
  <2>2. NoFault \/ Fault BY Zenon, <1>2 DEF LoadEnd, CommitFault, CheckEnd, AppendRead
  <2> QED BY <2>1, <2>2, SameRest
<1>3. ASSUME chain # <<>> PROVE chain[1].src \in Artifacts /\ chain[1].src.log \in Logs /\ chain[1].upto \in Nat
  BY <1>3, FirstJob DEF JobRecords, Artifacts
<1>4. CASE CommitRetry
  <2>1. UNCHANGED <<state, retiring, raced>> /\ NoFault /\ (stored' = stored \/ stored' = Repaired(chain[1].src)) /\ chain # <<>>
    BY <1>4 DEF CommitRetry, Runs
  <2>2. stored' \in Artifacts BY <1>0, <1>3, <2>1, BalancedTyped
  <2>3. upsets' \in Nat /\ faults' \in Nat /\ faults <= faults' BY <2>1, Counts
  <2> QED BY <1>0, <2>1, <2>2, <2>3 DEF Rest
<1>5. CASE CommitEnd
  <2>1. UNCHANGED <<stored, retiring, raced>> /\ NoFault /\ state' = State(Len(Balanced(chain[1].src)), TRUE, state.owner) /\ chain # <<>>
    BY <1>5 DEF CommitEnd, Runs
  <2>2. Len(Balanced(chain[1].src)) \in Nat /\ state.owner \in Owners
    BY <1>0, <1>3, <2>1, BalancedTyped, LenProperties DEF Logs, States
  <2>3. state' \in States BY <2>1, <2>2, StateTyped
  <2>4. upsets' \in Nat /\ faults' \in Nat /\ faults <= faults' BY <2>1, Counts
  <2> QED BY <1>0, <2>1, <2>3, <2>4 DEF Rest
<1>6. CASE CreateEnd
  <2>1. UNCHANGED <<stored, retiring, upsets, faults, raced>> /\ (state' = state \/ state' = State(0, FALSE, Nobody))
    BY <1>6 DEF CreateEnd
  <2>2. state' \in States BY <1>0, <2>1, StateTyped DEF Owners
  <2> QED BY <1>0, <2>1, <2>2 DEF Rest
<1>7. CASE Adopt
  <2>1. UNCHANGED <<retiring, upsets, faults, raced>> /\ chain # <<>> BY <1>7 DEF Adopt, Runs
  <2>2. (stored' = stored \/ stored' = Repaired(chain[1].src)) /\ (state' = state \/ state' = State(Len(chain[1].src.log), TRUE, Nobody))
    BY <1>7 DEF Adopt
  <2>3. Len(chain[1].src.log) \in Nat BY <1>3, <2>1, LenProperties DEF Logs
  <2>4. stored' \in Artifacts BY <1>0, <1>3, <2>1, <2>2, BalancedTyped
  <2>5. state' \in States BY <1>0, <2>2, <2>3, StateTyped DEF Owners
  <2> QED BY <1>0, <2>1, <2>4, <2>5 DEF Rest
<1>8. CASE AppendEnd
  <2>1. retiring' = retiring /\ (NoFault \/ Fault) /\ (raced' = raced \/ raced' = raced \cup {"append"})
    BY <1>8 DEF AppendEnd
  <2>2. (stored' = stored /\ state' = state) \/ (stored' = Written(<<Cold>>) /\ state' = Advanced(1))
    BY <1>8 DEF AppendEnd
  <2>3. <<Cold>> \in Logs /\ Len(<<Cold>>) = 1 BY DEF Logs, Cold
  <2>4. Written(<<Cold>>) \in Artifacts /\ Advanced(1) \in States BY <2>3, WrittenTyped
  <2>5. upsets' \in Nat /\ faults' \in Nat /\ faults <= faults' BY <2>1, Counts
  <2> QED BY <1>0, <2>1, <2>2, <2>4, <2>5 DEF Rest
<1>9. CASE InitStart
  <2>1. UNCHANGED <<stored, retiring, upsets, faults, raced>> /\ (state' = state \/ state' = NoState)
    BY <1>9 DEF InitStart
  <2> QED BY <1>0, <2>1, ConstantsTyped DEF Rest
<1>10. ASSUME NEW base \in Artifacts, NEW cursor \in Nat, NEW made \in BOOLEAN, chain # <<>>, chain[1].kind \in Initial,
              Bind(chain[1].who, base, cursor, made, SeedOf(chain[1])), UNCHANGED <<retiring, raced>>
       PROVE  Rest
  <2> DEFINE k == chain[1].who
             seed == SeedOf(chain[1])
  <2>1. k \in Sessions /\ seed \in Logs BY <1>10, FirstJob, SeedTyped DEF OfSessions, Initial
  <2>2. Bind(k, base, cursor, made, seed) BY <1>10
  <2> HIDE DEF k, seed
  <2>3. stored' \in Artifacts /\ state' \in States /\ upsets' \in Nat /\ faults' \in Nat /\ faults <= faults'
    BY <2>1, <2>2, BindTyped
  <2> QED BY <1>0, <1>10, <2>3 DEF Rest
<1>11. state.cursor \in Nat /\ state.made \in BOOLEAN /\ [stored EXCEPT !.torn = FALSE] \in Artifacts
  BY <1>0 DEF States, Artifacts
<1>12. CASE InitEnd
  <2>1. chain # <<>> /\ chain[1].kind \in Initial /\ UNCHANGED <<retiring, raced>> BY <1>12 DEF InitEnd, Runs, Initial
  <2>2. Len(chain[1].src.log) \in Nat BY <1>3, <2>1, LenProperties DEF Logs
  <2>3. CASE UNCHANGED <<stored, state>> /\ NoFault BY <2>1, <2>3, SameRest
  <2>4. CASE \/ Bind(chain[1].who, stored, state.cursor, state.made, SeedOf(chain[1]))
             \/ Bind(chain[1].who, [stored EXCEPT !.torn = FALSE], Len(chain[1].src.log), TRUE, SeedOf(chain[1]))
             \/ Bind(chain[1].who, stored, 0, FALSE, SeedOf(chain[1]))
    BY <1>0, <1>10, <1>11, <2>1, <2>2, <2>4
  <2> QED BY <1>12, <2>3, <2>4 DEF InitEnd
<1>13. CASE Suffix
  <2>1. chain # <<>> /\ chain[1].kind \in Initial /\ retiring' = retiring BY <1>13 DEF Suffix, Runs, Initial
  <2>2. CASE Bind(chain[1].who, stored, state.cursor, state.made, SeedOf(chain[1])) /\ raced' = raced
    BY <1>0, <1>10, <1>11, <2>1, <2>2
  <2>3. CASE UNCHANGED <<stored, state>> /\ NoFault /\ raced' = raced \cup {"append"} BY <1>0, <2>1, <2>3, Counts DEF Rest
  <2> QED BY <1>13, <2>2, <2>3 DEF Suffix
<1>14. CASE DrainStart
  <2>1. UNCHANGED <<stored, state, upsets, faults, raced>> /\ (retiring' = retiring \/ Forgets(chain[1].who))
    BY <1>14 DEF DrainStart, DrainFailed
  <2>2. retiring' \in Owners BY <1>0, <2>1, ForgetsTyped
  <2> QED BY <1>0, <2>1, <2>2 DEF Rest
<1>15. CASE DrainEnd
  <2>1. raced' = raced /\ (NoFault \/ Fault) /\ (retiring' = retiring \/ Forgets(chain[1].who)) /\ chain # <<>> /\ chain[1].kind = "drain"
    BY <1>15 DEF DrainEnd, DrainFailed, Runs
  <2> DEFINE fresh == Fresh(chain[1])
  <2>2. fresh \in Logs BY <2>1, SeedTyped
  <2>3. (stored' = stored /\ state' = state) \/ (stored' = Written(fresh) /\ state' = Advanced(Len(fresh)))
    BY <1>15 DEF DrainEnd
  <2> HIDE DEF fresh
  <2>4. Written(fresh) \in Artifacts /\ Advanced(Len(fresh)) \in States BY <2>2, WrittenTyped
  <2>5. retiring' \in Owners BY <1>0, <2>1, ForgetsTyped
  <2>6. upsets' \in Nat /\ faults' \in Nat /\ faults <= faults' BY <2>1, Counts
  <2> QED BY <1>0, <2>1, <2>3, <2>4, <2>5, <2>6 DEF Rest
<1>16. CASE RetireRun
  <2>1. UNCHANGED <<stored, upsets, faults, raced>> /\ (state' = state \/ state' = NoState) /\ Forgets(chain[1].who)
    BY <1>16 DEF RetireRun
  <2>2. retiring' \in Owners BY <2>1, ForgetsTyped
  <2> QED BY <1>0, <2>1, <2>2, ConstantsTyped DEF Rest
<1> QED BY <1>1, <1>2, <1>4, <1>5, <1>6, <1>7, <1>8, <1>9, <1>12, <1>13, <1>14, <1>15, <1>16 DEF Chain

\* The other steps.
LEMMA StepsRest ==
  ASSUME TypeOK, PoolOK, Steps
  PROVE  Rest
<1>0. /\ stored \in Artifacts /\ state \in States /\ retiring \in Owners /\ upsets \in Nat /\ faults \in Nat
      /\ raced \in SUBSET {"append", "resume"}
  BY DEF TypeOK
<1>1. ASSUME NEW k \in Sessions, state' = state \/ state' = [state EXCEPT !.owner = k], UNCHANGED <<stored, retiring, upsets, faults, raced>>
      PROVE  Rest
  <2>1. k \in Owners BY DEF Owners
  <2> HIDE DEF Owners
  <2>2. state' \in States BY <1>0, <1>1, <2>1 DEF States
  <2> QED BY <1>0, <1>1, <2>2 DEF Rest
<1>2. ASSUME NEW c \in Callers, Resume(c) PROVE Rest
  <2>1. CASE MeetLive(c)
    <3>1. PICK k \in Registered :
            CASE call[c].op = "prepare" -> call' = Failed(c) /\ UNCHANGED <<state, entry, sess, chain>>
              [] call[c].op = "load" -> LoadLive(c, k)
              [] OTHER -> Inspected(c, TRUE, sess[k].log, chain) /\ UNCHANGED <<state, entry, sess>>
      BY <2>1 DEF MeetLive
    <3>2. state' = state \/ state' = [state EXCEPT !.owner = k] BY <3>1 DEF LoadLive, Attach
    <3>3. UNCHANGED <<stored, retiring, upsets, faults, raced>> /\ k \in Sessions BY <2>1 DEF MeetLive, Registered
    <3> QED BY <1>1, <3>2, <3>3
  <2>2. CASE Join(c)
    <3>1. UNCHANGED <<stored, state, retiring, upsets, faults>> /\ (raced' = raced \/ raced' = raced \cup {"resume"})
      BY <2>2 DEF Join
    <3>2. raced' \in SUBSET {"append", "resume"} /\ raced \subseteq raced' BY <1>0, <3>1
    <3>3. upsets' \in Nat /\ faults' \in Nat /\ faults <= faults' BY <1>0, <3>1
    <3> QED BY <1>0, <3>1, <3>2, <3>3 DEF Rest
  <2>3. CASE Turn(c) \/ Seen(c) \/ Caught(c) \/ Reserved(c) \/ Flushed(c)
    BY <2>3, SameRest DEF Turn, Seen, Caught, Reserved, Flushed, NoFault
  <2> QED BY <1>2, <2>1, <2>2, <2>3 DEF Resume
<1>3. ASSUME NEW c \in Callers, Settle(c) PROVE Rest
  <2>1. CASE Release(c) BY <2>1, SameRest DEF Release, NoFault
  <2>2. CASE Rollback(c)
    <3>1. UNCHANGED <<stored, state, upsets, faults, raced>> /\ call[c].pc = "entered"
          /\ (retiring' = retiring \/ retiring' = call[c].awaits)
      BY <2>2 DEF Rollback
    <3>2. call[c].awaits \in Owners BY DEF TypeOK, CallRecords
    <3> QED BY <1>0, <3>1, <3>2 DEF Rest
  <2>3. ASSUME NEW setup \in BOOLEAN, Publish(c, setup) PROVE Rest
    <3>1. Unborn # {} /\ state' = [state EXCEPT !.owner = Next1(Unborn)] /\ UNCHANGED <<stored, retiring, upsets, faults, raced>>
      BY <2>3 DEF Publish, Attach
    <3> QED BY <1>1, <3>1, Next1In
  <2>4. ASSUME NEW setup \in BOOLEAN, Enter(c, setup) PROVE Rest BY <2>4, SameRest DEF Enter, NoFault
  <2> QED BY <1>3, <2>1, <2>2, <2>3, <2>4 DEF Settle
<1>4. ASSUME NEW c \in Callers, Abort(c) PROVE Rest BY <1>4, SameRest DEF Abort, NoFault
<1>5. ASSUME NEW c \in Callers, NEW op \in Ops, Begin(c, op) PROVE Rest BY <1>5, SameRest DEF Begin, NoFault
<1>6. ASSUME NEW k \in Sessions, SessionEvent(k) \/ DrainCall(k) \/ Discard(k) PROVE Rest
  BY <1>6, SameRest DEF SessionEvent, DrainCall, Discard, NoFault
<1>7. ASSUME NEW k \in Sessions, Detach(k) PROVE Rest BY <1>0, <1>7 DEF Detach, Rest, Owners
<1>8. ASSUME NEW k \in Sessions, RetireFlushed(k) PROVE Rest
  <2>1. UNCHANGED <<stored, state, upsets, faults, raced>> /\ (retiring' = retiring \/ Forgets(k))
    BY <1>8 DEF RetireFlushed
  <2>2. retiring' \in Owners BY <1>0, <2>1, ForgetsTyped
  <2> QED BY <1>0, <2>1, <2>2 DEF Rest
<1>9. CASE Create BY <1>9, SameRest DEF Create, NoFault
<1>10. CASE Veto \/ Evict BY <1>10, SameRest DEF Veto, Evict
<1>11. CASE HotReload
  <2>1. UNCHANGED <<stored, retiring, raced>> /\ Upset /\ faults' = faults /\ state' = NoState
    BY Zenon, <1>11 DEF HotReload
  <2> QED BY <1>0, <2>1, Counts, ConstantsTyped DEF Rest
<1>12. CASE ExternalWrite
  <2>1. /\ UNCHANGED <<state, retiring, raced>> /\ Upset /\ faults' = faults
        /\ stored' = [made |-> TRUE, log |-> Append(Balanced(stored), Foreign), torn |-> FALSE]
    BY <1>12 DEF ExternalWrite
  <2>2. Balanced(stored) \in Seq(Int) /\ Foreign \in Int BY <1>0, BalancedTyped DEF Logs, Foreign
  <2>3. Append(Balanced(stored), Foreign) \in Logs BY <2>2, AppendIs DEF Logs
  <2>4. stored' \in Artifacts BY <2>1, <2>3 DEF Artifacts
  <2> QED BY <1>0, <2>1, <2>4, Counts DEF Rest
<1> QED BY <1>2, <1>3, <1>4, <1>5, <1>6, <1>7, <1>8, <1>9, <1>10, <1>11, <1>12 DEF Steps

LEMMA TypeStep ==
  ASSUME CoordinatorInvariant, [Next]_vars
  PROVE  TypeOK' /\ Rest
<1>0. TypeOK /\ PoolOK /\ RunningShape BY DEF CoordinatorInvariant
<1>1. CASE UNCHANGED vars BY <1>0, <1>1 DEF TypeOK, Rest, vars
<1>2. CASE Next
  <2>1. Rest BY <1>0, <1>2, JobRest, StepsRest DEF Next
  <2>2. entry' \in Entries /\ call' \in [Callers -> CallRecords] /\ chain' \in Seq(JobRecords) /\ sess' \in [Sessions -> SessionRecords]
    BY PoolStep DEF PoolOK, Pool
  <2> QED BY <2>1, <2>2 DEF TypeOK, Rest
<1> QED BY <1>1, <1>2

--------
\* The sessions, one by one.

LEMMA SoundIs == TypeOK => (Sound <=> NoLiveWithEntry /\ InitShape /\ OwnerShape /\ OwnerPresent)
<1> SUFFICES ASSUME TypeOK PROVE Sound <=> NoLiveWithEntry /\ InitShape /\ OwnerShape /\ OwnerPresent OBVIOUS
<1>1. state.owner # Nobody => state.owner \in Sessions BY DEF TypeOK, States, Owners
<1>2. \A k \in Sessions : k # Nobody BY DEF Sessions, Nobody
<1>3. ASSUME Sound PROVE NoLiveWithEntry /\ InitShape /\ OwnerShape /\ OwnerPresent
  <2>1. \A k \in Sessions : SessOK(sess[k], entry.phase, raced) /\ (state.owner = k => OwnOK(sess[k], state.cursor, faults, raced))
    BY <1>3 DEF Sound, Fits
  <2>2. NoLiveWithEntry /\ InitShape BY <2>1 DEF SessOK, NoLiveWithEntry, InitShape
  <2>3. OwnerShape BY <2>1 DEF OwnOK, OwnerShape
  <2>4. OwnerPresent BY <1>1, <2>1 DEF OwnOK, OwnerPresent
  <2> QED BY <2>2, <2>3, <2>4
<1>4. ASSUME NoLiveWithEntry, InitShape, OwnerShape, OwnerPresent, NEW k \in Sessions PROVE Fits(k)
  <2>1. SessOK(sess[k], entry.phase, raced) BY <1>4 DEF SessOK, NoLiveWithEntry, InitShape
  <2>2. ASSUME state.owner = k PROVE OwnOK(sess[k], state.cursor, faults, raced)
    <3>1. sess[k].init = "ok" => sess[k].acked <= state.cursor BY <1>4, <2>2 DEF OwnerShape
    <3>2. sess[k].init = "failed" => faults > 0 \/ "append" \in raced BY <1>4, <2>2 DEF OwnerShape
    <3>3. sess[k].life \in {"live", "flushing", "cleaning"} \/ (sess[k].life = "stuck" /\ (faults > 0 \/ raced # {}))
      BY <1>2, <1>4, <2>2 DEF OwnerPresent
    <3> QED BY <3>1, <3>2, <3>3 DEF OwnOK
  <2> QED BY <2>1, <2>2 DEF Fits
<1> QED BY <1>3, <1>4 DEF Sound

\* A session that a step does not touch.
LEMMA Unmoved ==
  ASSUME TypeOK, Rest, NEW k \in Sessions, Fits(k), sess'[k] = sess[k], entry'.phase # "none" => entry.phase # "none",
         state'.owner = k => state.owner = k /\ state.cursor <= state'.cursor
  PROVE  Fits(k)'
<1>1. SessOK(sess'[k], entry'.phase, raced') BY DEF Fits, SessOK, Rest
<1>2. sess[k].acked \in Nat /\ state.cursor \in Nat /\ state'.cursor \in Nat /\ faults \in Nat /\ faults' \in Nat
  BY DEF TypeOK, SessionRecords, States, Rest
<1>3. ASSUME state'.owner = k PROVE OwnOK(sess'[k], state'.cursor, faults', raced')
  <2>1. OwnOK(sess[k], state.cursor, faults, raced) /\ state.cursor <= state'.cursor /\ faults <= faults' /\ raced \subseteq raced'
    BY <1>3 DEF Fits, Rest
  <2>2. sess[k].init = "ok" => sess[k].acked <= state'.cursor BY <1>2, <2>1 DEF OwnOK
  <2>3. faults > 0 => faults' > 0 BY <1>2, <2>1
  <2> QED BY <2>1, <2>2, <2>3 DEF OwnOK
<1> QED BY <1>1, <1>3 DEF Fits

LEMMA NoneMoves ==
  ASSUME TypeOK, Rest, Sound, sess' = sess, entry'.phase # "none" => entry.phase # "none", Keeps
  PROVE  Sound'
<1>1. \A k \in Sessions : k # Nobody BY DEF Sessions, Nobody
<1>2. state.cursor \in Nat /\ state.cursor <= state.cursor BY DEF TypeOK, States
<1>3. ASSUME NEW k \in Sessions PROVE Fits(k)'
  <2>1. state'.owner = k => state.owner = k /\ state.cursor <= state'.cursor BY <1>1, <1>2 DEF Keeps
  <2>2. Fits(k) /\ sess'[k] = sess[k] BY DEF Sound
  <2> QED BY <2>1, <2>2, Unmoved
<1> QED BY <1>3 DEF Sound

\* Steps that move one session.
LEMMA OneMoves ==
  ASSUME TypeOK, Rest, Sound, NEW k \in Sessions, \A l \in Sessions : l # k => sess'[l] = sess[l],
         entry'.phase # "none" => entry.phase # "none", Keeps \/ state'.owner = k, Fits(k)'
  PROVE  Sound'
<1>1. \A l \in Sessions : l # Nobody BY DEF Sessions, Nobody
<1>2. state.cursor \in Nat /\ state.cursor <= state.cursor BY DEF TypeOK, States
<1>3. ASSUME NEW l \in Sessions, l # k PROVE Fits(l)'
  <2>1. state'.owner = l => state.owner = l /\ state.cursor <= state'.cursor BY <1>1, <1>2, <1>3 DEF Keeps
  <2>2. Fits(l) /\ sess'[l] = sess[l] BY <1>3 DEF Sound
  <2> QED BY <2>1, <2>2, Unmoved
<1> QED BY <1>3 DEF Sound

LEMMA LifeIs ==
  ASSUME TypeOK, NEW k \in Sessions, NEW life, NEW ts, ts = Life(k, life)
  PROVE  /\ ts[k].life = life /\ ts[k].init = sess[k].init /\ ts[k].acked = sess[k].acked
         /\ \A l \in Sessions : l # k => ts[l] = sess[l]
<1>1. sess \in [Sessions -> SessionRecords] BY DEF TypeOK
<1>2. ts[k] = [sess[k] EXCEPT !.life = life] /\ \A l \in Sessions : l # k => ts[l] = sess[l] BY <1>1 DEF Life
<1> QED BY <1>1, <1>2 DEF SessionRecords

\* The jobs that move no session.
LEMMA JobStays ==
  ASSUME TypeOK, PoolOK, RunningShape, Sound, Rest,
         \/ LoadStart \/ LoadEnd \/ CommitStart \/ CommitRetry \/ CommitEnd \/ CommitFault \/ CheckStart \/ CheckEnd
         \/ CreateStart \/ CreateEnd \/ AppendStart \/ AppendRead \/ Adopt \/ AppendEnd
  PROVE  Sound'
<1>1. sess' = sess
  BY Zenon DEF LoadStart, LoadEnd, CommitStart, CommitRetry, CommitEnd, CommitFault, CheckStart, CheckEnd, CreateStart, CreateEnd,
         AppendStart, AppendRead, Adopt, AppendEnd
<1>2. ASSUME entry' \in {entry, NoEntry} PROVE entry'.phase # "none" => entry.phase # "none" BY <1>2, EntryFates
<1>3. CASE LoadStart \/ CommitStart \/ CheckStart \/ CreateStart \/ AppendStart
  <2>1. state' = state /\ entry' \in {entry, NoEntry}
    BY <1>3, EntryFates DEF LoadStart, CommitStart, CheckStart, CreateStart, AppendStart, Remove
  <2> QED BY <1>1, <1>2, <2>1, NoneMoves DEF Keeps
<1>4. CASE LoadEnd
  <2>1. state' = state /\ chain # <<>> /\ chain[1].kind = "load" BY Zenon, <1>4 DEF LoadEnd, Runs
  <2>2. chain[1].gen # 0 BY <2>1, FirstJob DEF JobOK
  <2>3. entry' \in {entry, NoEntry} \/ entry.gen = chain[1].gen BY Zenon, <1>4 DEF LoadEnd
  <2>4. entry.gen = chain[1].gen => entry.phase # "none" BY <2>2, PoolIs DEF Refers, NoEntry
  <2>5. entry'.phase # "none" => entry.phase # "none" BY <1>2, <2>3, <2>4
  <2> QED BY <1>1, <2>1, <2>5, NoneMoves DEF Keeps
<1>5. CASE CommitRetry \/ CommitFault \/ CheckEnd \/ AppendRead
  <2>1. state' = state /\ entry' \in {entry, NoEntry}
    BY <1>5, EntryFates DEF CommitRetry, CommitFault, CheckEnd, AppendRead, Remove
  <2> QED BY <1>1, <1>2, <2>1, NoneMoves DEF Keeps
<1>6. CASE CommitEnd
  <2>1. /\ chain # <<>> /\ chain[1].kind = "commit" /\ (Runs("commit", "current") \/ Runs("commit", "stale"))
        /\ state' = State(Len(Balanced(chain[1].src)), TRUE, state.owner)
    BY <1>6 DEF CommitEnd, Runs
  <2>2. state'.owner = Nobody BY <2>1 DEF RunningShape, State
  <2>3. entry' = entry \/ Current(chain[1].who) BY <1>6 DEF CommitEnd
  <2>4. chain[1].who \in Callers /\ call[chain[1].who].pc = "commit" BY <2>1, FirstCommit DEF Runs
  <2>5. Current(chain[1].who) => entry.phase # "none"
    <3>1. call[chain[1].who].gen # 0 BY <2>4, PoolIs DEF Refers, Referring
    <3> QED BY <3>1, PoolIs DEF Refers, Current, NoEntry
  <2>6. entry'.phase # "none" => entry.phase # "none" BY <2>3, <2>5
  <2> QED BY <1>1, <2>2, <2>6, NoneMoves DEF Keeps
<1>7. CASE CreateEnd \/ Adopt
  <2>1. entry' = entry BY <1>7 DEF CreateEnd, Adopt
  <2>2. state' = state \/ \E n, m : state' = State(n, m, Nobody) BY <1>7 DEF CreateEnd, Adopt
  <2>3. Keeps BY <2>2 DEF Keeps, State
  <2> QED BY <1>1, <2>1, <2>3, NoneMoves
<1>8. CASE AppendEnd
  <2>1. (state' = state \/ state' = Advanced(1)) /\ entry' \in {entry, NoEntry} BY <1>8, EntryFates DEF AppendEnd
  <2>2. Advanced(1).owner = state.owner /\ Advanced(1).cursor = state.cursor + 1 /\ state.cursor \in Nat
    BY AdvancedIs DEF TypeOK, States
  <2>3. Keeps BY <2>1, <2>2 DEF Keeps
  <2> QED BY <1>1, <1>2, <2>1, <2>3, NoneMoves
<1> QED BY <1>3, <1>4, <1>5, <1>6, <1>7, <1>8

\* A session whose initialization is queued is bound, with its whole seed or with a fault.
LEMMA BindSound ==
  ASSUME TypeOK, PoolOK, Sound, Rest, chain # <<>>, chain[1].kind \in Initial, NEW base, NEW cursor \in Nat, NEW made,
         NEW k \in Sessions, k = chain[1].who, Bind(k, base, cursor, made, SeedOf(chain[1]))
  PROVE  Sound'
<1> DEFINE seed == SeedOf(chain[1])
           suffix == SubSeq(seed, cursor + 1, Len(seed))
<1>1. /\ entry.phase \in {"none", "loading"} /\ sess[k].init = "pending" /\ sess[k].acked <= chain[1].upto
      /\ chain[1].upto \in Nat
  BY FirstJob DEF JobOK, JobRecords
<1>2. Len(seed) = chain[1].upto /\ seed \in Logs BY SeedTyped
<1>3. sess[k] \in SessionRecords /\ sess[k].acked \in Nat /\ sess[k].life \in {"live", "flushing"} /\ SessOK(sess[k], entry.phase, raced)
  <2>1. Fits(k) BY <1>1 DEF Sound
  <2> QED BY <1>1, <2>1 DEF Fits, SessOK, TypeOK, SessionRecords
<1>4. \/ state' = State(cursor + Len(suffix), made \/ suffix # <<>>, k) /\ sess' = InitDone(k)
      \/ state' = State(cursor, made, k) /\ sess' = InitFailed(k) /\ ((~Writable /\ NoFault) \/ (Writable /\ Fault))
  BY DEF Bind
<1>5. entry' \in {entry, NoEntry} BY EntryFates DEF Bind
<1>6. Len(suffix) \in Nat /\ cursor + Len(suffix) >= Len(seed)
  <2>1. Len(seed) \in Nat BY <1>1, <1>2
  <2>2. suffix \in Logs
    <3>1. \A s \in Logs, n \in Nat : n <= Len(s) => SubSeq(s, cursor + 1, n) \in Logs BY LogsTyped
    <3>2. Len(seed) <= Len(seed) BY <2>1
    <3> QED BY <1>2, <2>1, <3>1, <3>2
  <2>3. Len(suffix) \in Nat BY <2>2, LenProperties DEF Logs
  <2>4. cursor < Len(seed) => Len(suffix) = Len(seed) - cursor BY <1>2, <2>1, SubSeqProperties DEF Logs
  <2> QED BY <2>1, <2>3, <2>4
<1> HIDE DEF suffix, seed
<1>7. \A l \in Sessions : l # k => sess'[l] = sess[l] BY <1>1, <1>4, InitOver
<1>8. sess'[k].life = sess[k].life /\ sess'[k].acked = sess[k].acked
  BY <1>1, <1>3, <1>4 DEF InitDone, InitFailed, TypeOK, SessionRecords
<1>9. state'.owner = k BY <1>4 DEF State
<1>10. SessOK(sess'[k], entry'.phase, raced')
  <2>1. entry'.phase # "none" => entry.phase # "none" BY <1>5, EntryFates
  <2> QED BY <1>3, <1>8, <2>1 DEF SessOK, Rest
<1>11. OwnOK(sess'[k], state'.cursor, faults', raced')
  <2>1. CASE state' = State(cursor + Len(suffix), made \/ suffix # <<>>, k) /\ sess' = InitDone(k)
    <3>1. sess'[k].init = "ok" BY <1>1, <1>3, <2>1 DEF InitDone, TypeOK, SessionRecords
    <3>2. state'.cursor = cursor + Len(suffix) BY <2>1 DEF State
    <3>3. sess[k].acked <= cursor + Len(suffix) BY <1>1, <1>2, <1>3, <1>6
    <3> QED BY <1>3, <1>8, <3>1, <3>2, <3>3 DEF OwnOK
  <2>2. CASE sess' = InitFailed(k) /\ ((~Writable /\ NoFault) \/ (Writable /\ Fault))
    <3>1. sess'[k].init = "failed" BY <1>1, <1>3, <2>2 DEF InitFailed, TypeOK, SessionRecords
    <3>2. Fault BY <1>1, <2>2 DEF Writable
    <3>3. faults' > 0 BY <3>2 DEF Fault, TypeOK
    <3> QED BY <1>3, <1>8, <3>1, <3>3 DEF OwnOK
  <2> QED BY <1>4, <2>1, <2>2
<1>12. Fits(k)' BY <1>10, <1>11 DEF Fits
<1>13. entry'.phase # "none" => entry.phase # "none" BY <1>5, EntryFates
<1> QED BY <1>7, <1>9, <1>12, <1>13, OneMoves

\* An initialization that fails without a write is of no owner or was overtaken by a cold append.
LEMMA FailSound ==
  ASSUME TypeOK, PoolOK, Sound, Rest, chain # <<>>, chain[1].kind \in Initial, NEW k \in Sessions, k = chain[1].who,
         sess' = InitFailed(k), UNCHANGED <<state, entry>>, chain[1].kind = "init" \/ "append" \in raced'
  PROVE  Sound'
<1>1. sess[k].init = "pending" /\ (state.owner = k => "append" \in raced') BY FirstJob DEF JobOK, Initial
<1>2. SessOK(sess[k], entry.phase, raced) /\ sess[k] \in SessionRecords BY DEF Sound, Fits, TypeOK
<1>3. \A l \in Sessions : l # k => sess'[l] = sess[l] BY InitOver
<1>4. sess'[k].life = sess[k].life /\ sess'[k].init = "failed" BY <1>2 DEF InitFailed, TypeOK, SessionRecords
<1>5. SessOK(sess'[k], entry'.phase, raced') BY <1>1, <1>2, <1>4 DEF SessOK, Rest
<1>6. sess'[k].life \in {"live", "flushing"} BY <1>1, <1>2, <1>4 DEF SessOK
<1>7. Fits(k)' BY <1>1, <1>4, <1>5, <1>6 DEF Fits, OwnOK
<1> QED BY <1>3, <1>7, OneMoves DEF Keeps

LEMMA InitSound ==
  ASSUME TypeOK, PoolOK, Sound, Rest, InitStart \/ InitEnd \/ Suffix
  PROVE  Sound'
<1>1. chain # <<>> /\ chain[1].kind \in Initial BY DEF InitStart, InitEnd, Suffix, Runs, Initial
<1>2. chain[1].who \in Sessions /\ chain[1].src.log \in Logs
  BY <1>1, FirstJob DEF JobRecords, Artifacts, OfSessions, Initial
<1>3. PICK k \in Sessions : k = chain[1].who BY <1>2
<1>4. state.cursor \in Nat /\ Len(chain[1].src.log) \in Nat BY <1>2, LenProperties DEF TypeOK, States, Logs
<1>5. CASE InitStart
  <2>1. chain[1].kind = "init" /\ entry' = entry BY <1>5 DEF InitStart, Runs
  <2>2. CASE sess' = sess /\ (state' = state \/ state' = NoState) BY <2>1, <2>2, NoneMoves DEF Keeps, NoState
  <2>3. CASE sess' = InitFailed(k) /\ state' = state BY <1>1, <1>3, <2>1, <2>3, FailSound
  <2> QED BY <1>3, <1>5, <2>2, <2>3 DEF InitStart
<1>6. CASE InitEnd
  <2>1. chain[1].kind = "init" BY <1>6 DEF InitEnd, Runs
  <2>2. CASE sess' = InitFailed(k) /\ UNCHANGED <<state, entry>> BY <1>1, <1>3, <2>1, <2>2, FailSound
  <2>3. CASE \/ Bind(k, stored, state.cursor, state.made, SeedOf(chain[1]))
             \/ Bind(k, [stored EXCEPT !.torn = FALSE], Len(chain[1].src.log), TRUE, SeedOf(chain[1]))
             \/ Bind(k, stored, 0, FALSE, SeedOf(chain[1]))
    BY <1>1, <1>3, <1>4, <2>3, BindSound
  <2> QED BY <1>3, <1>6, <2>2, <2>3 DEF InitEnd
<1>7. CASE Suffix
  <2>1. CASE Bind(k, stored, state.cursor, state.made, SeedOf(chain[1])) BY <1>1, <1>3, <1>4, <2>1, BindSound
  <2>2. CASE sess' = InitFailed(k) /\ UNCHANGED <<state, entry>> /\ "append" \in raced' BY <1>1, <1>3, <2>2, FailSound
  <2> QED BY <1>3, <1>7, <2>1, <2>2 DEF Suffix
<1> QED BY <1>5, <1>6, <1>7

\* A drained session acknowledges no more than the cursor counts.
LEMMA AckSound ==
  ASSUME TypeOK, PoolOK, Sound, Rest, NEW k \in Sessions, NEW u \in Nat, sess' = Acked(k, u), Keeps,
         sess[k].life \in {"live", "flushing"}, entry' \in {entry, NoEntry}, u <= state'.cursor
  PROVE  Sound'
<1>1. Fits(k) /\ sess[k] \in SessionRecords /\ k # Nobody BY DEF Sound, TypeOK, Sessions, Nobody
<1>2. sess'[k].life = sess[k].life /\ sess'[k].init = sess[k].init /\ sess'[k].acked = u
  BY <1>1 DEF Acked, TypeOK, SessionRecords
<1>3. \A l \in Sessions : l # k => sess'[l] = sess[l] BY AckedIs
<1>4. entry'.phase # "none" => entry.phase # "none" BY EntryFates
<1>5. SessOK(sess'[k], entry'.phase, raced') BY <1>1, <1>2, <1>4 DEF Fits, SessOK, Rest
<1>6. ASSUME state'.owner = k PROVE OwnOK(sess'[k], state'.cursor, faults', raced')
  <2>1. OwnOK(sess[k], state.cursor, faults, raced) BY <1>1, <1>6 DEF Fits, Keeps
  <2>2. faults > 0 => faults' > 0 BY DEF Rest, TypeOK
  <2> QED BY <1>2, <2>1, <2>2 DEF OwnOK, Rest
<1>7. Fits(k)' BY <1>5, <1>6 DEF Fits
<1> QED BY <1>3, <1>4, <1>7, OneMoves

\* The flush of an owner that is on its way out fails for a fault or a resume.
LEMMA StuckSound ==
  ASSUME TypeOK, PoolOK, Sound, Rest, NEW k \in Sessions, sess[k].life \in {"live", "flushing"}, sess[k].init = "ok",
         DrainFailed(k), UNCHANGED <<state, entry>>, state.owner = k => faults' > 0 \/ ~Writable
  PROVE  Sound'
<1>1. CASE sess' = sess BY <1>1, NoneMoves DEF Keeps
<1>2. CASE sess[k].life = "flushing" /\ sess' = Life(k, "stuck")
  <2>1. Fits(k) /\ sess[k] \in SessionRecords BY DEF Sound, TypeOK
  <2>2. sess'[k].life = "stuck" /\ sess'[k].init = "ok" /\ sess'[k].acked = sess[k].acked /\ \A l \in Sessions : l # k => sess'[l] = sess[l]
    BY <1>2, LifeIs
  <2>3. SessOK(sess'[k], entry'.phase, raced') BY <2>2 DEF SessOK
  <2>4. ASSUME state'.owner = k PROVE OwnOK(sess'[k], state'.cursor, faults', raced')
    <3>1. OwnOK(sess[k], state.cursor, faults, raced) /\ SessOK(sess[k], entry.phase, raced) BY <2>1, <2>4 DEF Fits
    <3>2. faults' > 0 \/ "resume" \in raced' BY <1>2, <2>4, <3>1 DEF Writable, SessOK, Rest
    <3> QED BY <2>2, <3>1, <3>2 DEF OwnOK
  <2>5. Fits(k)' BY <2>3, <2>4 DEF Fits
  <2> QED BY <2>2, <2>5, OneMoves DEF Keeps
<1> QED BY <1>1, <1>2 DEF DrainFailed

LEMMA FreshIs ==
  ASSUME TypeOK, PoolOK, chain # <<>>, chain[1].kind = "drain"
  PROVE  /\ Fresh(chain[1]) = <<>> => chain[1].upto <= state.cursor
         /\ Len(Fresh(chain[1])) \in Nat /\ chain[1].upto <= state.cursor + Len(Fresh(chain[1]))
<1> DEFINE log == sess[chain[1].who].log
           u == chain[1].upto
           n == state.cursor
           fresh == SubSeq(log, n + 1, u)
<1>1. log \in Logs /\ u \in Nat /\ n \in Nat BY FirstJob DEF OfSessions, TypeOK, SessionRecords, States, JobRecords
<1>2. u <= Len(log) BY FirstJob DEF JobOK
<1>3. fresh \in Logs BY SeedTyped DEF Fresh
<1> HIDE DEF log, u, n
<1>4. Len(fresh) \in Nat /\ Len(log) \in Nat BY <1>1, <1>3, LenProperties DEF Logs
<1>5. n < u => Len(fresh) = u - n BY <1>1, <1>2, <1>4, SubSeqProperties DEF Logs
<1> HIDE DEF fresh
<1>6. fresh = <<>> => Len(fresh) = 0 OBVIOUS
<1>7. (fresh = <<>> => u <= n) /\ u <= n + Len(fresh) BY <1>1, <1>4, <1>5, <1>6
<1>8. Fresh(chain[1]) = fresh BY DEF Fresh, fresh, log, u, n
<1> QED BY <1>4, <1>7, <1>8 DEF u, n

LEMMA DrainSound ==
  ASSUME TypeOK, PoolOK, Sound, Rest, DrainStart \/ DrainEnd
  PROVE  Sound'
<1>1. chain # <<>> /\ chain[1].kind = "drain" BY DEF DrainStart, DrainEnd, Runs
<1>2. chain[1].who \in Sessions /\ chain[1].upto \in Nat BY <1>1, FirstDrain
<1>3. PICK k \in Sessions, u \in Nat : k = chain[1].who /\ u = chain[1].upto BY <1>2
<1>4. sess[k].init = "ok" /\ sess[k].life \in {"live", "flushing"} BY <1>1, <1>3, FirstDrain
<1>5. CASE DrainStart
  <2>1. UNCHANGED <<stored, state, entry, faults, raced>> BY <1>5 DEF DrainStart
  <2>2. CASE Fresh(chain[1]) = <<>> /\ sess' = [sess EXCEPT ![k].acked = chain[1].upto]
    <3>1. sess' = Acked(k, u) /\ u <= state'.cursor BY <1>1, <1>3, <2>1, <2>2, FreshIs DEF Acked
    <3> QED BY <1>4, <2>1, <3>1, AckSound DEF Keeps
  <2>3. CASE sess' = sess BY <2>1, <2>3, NoneMoves DEF Keeps
  <2>4. CASE (~Writable \/ sess[k].acked > state.cursor) /\ DrainFailed(k)
    <3>1. state.owner = k => sess[k].acked <= state.cursor BY <1>4 DEF Sound, Fits, OwnOK
    <3>2. sess[k].acked \in Nat /\ state.cursor \in Nat BY DEF TypeOK, SessionRecords, States
    <3>3. state.owner = k => ~Writable BY <2>4, <3>1, <3>2
    <3> QED BY <1>4, <2>1, <2>4, <3>3, StuckSound
  <2> QED BY <1>3, <1>5, <2>2, <2>3, <2>4 DEF DrainStart
<1>6. CASE DrainEnd
  <2>1. CASE sess' = [sess EXCEPT ![k].acked = chain[1].upto] /\ state' = Advanced(Len(Fresh(chain[1]))) /\ Invalidate(call)
    <3> DEFINE n == Len(Fresh(chain[1]))
    <3>1. sess' = Acked(k, u) BY <1>3, <2>1 DEF Acked
    <3>2. n \in Nat /\ u <= state.cursor + n /\ state' = Advanced(n) BY <1>1, <1>3, <2>1, FreshIs
    <3> HIDE DEF n
    <3>3. state \in States /\ state.cursor \in Nat BY DEF TypeOK, States
    <3>4. state'.owner = state.owner /\ state'.cursor = state.cursor + n BY <3>2, <3>3, AdvancedIs
    <3>5. Keeps BY <3>2, <3>3, <3>4 DEF Keeps
    <3>6. u <= state'.cursor /\ entry' \in {entry, NoEntry} BY <2>1, <3>2, <3>4, EntryFates
    <3> QED BY <1>4, <3>1, <3>5, <3>6, AckSound
  <2>2. CASE Fault /\ DrainFailed(k) /\ UNCHANGED <<stored, state, entry>>
    <3>1. faults' > 0 BY <2>2 DEF Fault, TypeOK
    <3> QED BY <1>4, <2>2, <3>1, StuckSound
  <2> QED BY <1>3, <1>6, <2>1, <2>2 DEF DrainEnd
<1> QED BY <1>5, <1>6

LEMMA RetireSound ==
  ASSUME TypeOK, PoolOK, Sound, Rest, RetireRun
  PROVE  Sound'
<1>1. chain # <<>> /\ chain[1].kind = "retire" /\ entry' = entry BY DEF RetireRun, Runs
<1>2. chain[1].who \in Sessions /\ sess[chain[1].who].life = "cleaning" BY <1>1, FirstJob DEF JobOK, OfSessions
<1>3. PICK k \in Sessions : k = chain[1].who BY <1>2
<1>4. /\ sess' = Life(k, "retired") \/ sess' = [sess EXCEPT ![k] = [NoSession EXCEPT !.life = "retired"]]
      /\ state' = IF state.owner = k THEN NoState ELSE state
  BY <1>3 DEF RetireRun, OwnsState
<1>5. SessOK(sess[k], entry.phase, raced) /\ sess[k].life = "cleaning" BY <1>2, <1>3 DEF Sound, Fits
<1>6. sess'[k].life = "retired" /\ sess'[k].init # "pending" /\ \A l \in Sessions : l # k => sess'[l] = sess[l]
  <2>1. CASE sess' = Life(k, "retired") BY <1>5, <2>1, LifeIs DEF SessOK
  <2>2. CASE sess' = [sess EXCEPT ![k] = [NoSession EXCEPT !.life = "retired"]]
    <3>1. sess'[k] = [NoSession EXCEPT !.life = "retired"] /\ \A l \in Sessions : l # k => sess'[l] = sess[l]
      BY <2>2 DEF TypeOK
    <3> QED BY <3>1 DEF NoSession
  <2> QED BY <1>4, <2>1, <2>2
<1>7. k # Nobody /\ state'.owner # k /\ Keeps BY <1>4 DEF NoState, Keeps, Sessions, Nobody
<1>8. Fits(k)' BY <1>6, <1>7 DEF Fits, SessOK
<1> QED BY <1>1, <1>6, <1>7, <1>8, OneMoves

\* The steps of the callers.
LEMMA AttachSound ==
  ASSUME TypeOK, Sound, Rest, NEW k \in Sessions, NEW log \in Logs, NEW calls, Attach(k, log, calls)
  PROVE  Sound'
<1>1. /\ entry' = NoEntry /\ state' = [state EXCEPT !.owner = k]
      /\ sess' = [sess EXCEPT ![k] = [life |-> "live", log |-> log, acked |-> Len(log),
                                      init |-> IF Len(log) > state.cursor THEN "pending" ELSE "ok"]]
  BY DEF Attach, Remove
<1>2. Len(log) \in Nat /\ state.cursor \in Nat /\ entry'.phase = "none"
  BY <1>1, LenProperties, EntryFates DEF Logs, TypeOK, States
<1>3. state'.owner = k /\ state'.cursor = state.cursor BY <1>1 DEF TypeOK, States
<1>4. /\ sess'[k] = [life |-> "live", log |-> log, acked |-> Len(log), init |-> IF Len(log) > state.cursor THEN "pending" ELSE "ok"]
      /\ \A l \in Sessions : l # k => sess'[l] = sess[l]
  BY <1>1 DEF TypeOK
<1>5. /\ sess'[k].life = "live" /\ sess'[k].acked = Len(log)
      /\ sess'[k].init \in {"pending", "ok"} /\ (sess'[k].init = "ok" => ~(Len(log) > state.cursor))
  BY <1>4
<1>6. SessOK(sess'[k], entry'.phase, raced') BY <1>2, <1>5 DEF SessOK
<1>7. OwnOK(sess'[k], state'.cursor, faults', raced')
  <2>1. sess'[k].init = "ok" => sess'[k].acked <= state'.cursor BY <1>2, <1>3, <1>5
  <2> QED BY <1>5, <2>1 DEF OwnOK
<1>8. Fits(k)' BY <1>6, <1>7 DEF Fits
<1> QED BY <1>2, <1>3, <1>4, <1>8, OneMoves

LEMMA StartInitSound ==
  ASSUME TypeOK, Sound, Rest, NEW k \in Sessions, StartInit(k), state' = state, entry'.phase = "none"
  PROVE  Sound'
<1>1. sess' = [sess EXCEPT ![k].life = "live", ![k].init = "pending"] /\ sess[k] \in SessionRecords
  BY DEF StartInit, TypeOK
<1>2. sess'[k].life = "live" /\ sess'[k].init = "pending" /\ \A l \in Sessions : l # k => sess'[l] = sess[l]
  BY <1>1 DEF TypeOK, SessionRecords
<1>3. Fits(k)' BY <1>2 DEF Fits, SessOK, OwnOK
<1> QED BY <1>2, <1>3, OneMoves DEF Keeps

\* A session that only enters or leaves the store owns nothing.
LEMMA StoreSound ==
  ASSUME TypeOK, Sound, Rest, NEW k \in Sessions, \A l \in Sessions : l # k => sess'[l] = sess[l],
         sess[k].life \in {"unborn", "entered"}, sess'[k].life \in {"unborn", "entered"}, sess'[k].init = "none", sess'[k].acked = 0,
         state' = state, entry'.phase # "none" => entry.phase # "none"
  PROVE  Sound'
<1>1. state'.owner # k BY DEF Sound, Fits, OwnOK
<1>2. Fits(k)' BY <1>1 DEF Fits, SessOK
<1> QED BY <1>2, OneMoves DEF Keeps

\* A live session is on its way out.
LEMMA OutSound ==
  ASSUME TypeOK, Sound, Rest, NEW k \in Sessions, sess[k].life = "live", sess' = Life(k, "flushing"), UNCHANGED <<state, entry>>
  PROVE  Sound'
<1>1. Fits(k) BY DEF Sound
<1>2. /\ sess'[k].life = "flushing" /\ sess'[k].init = sess[k].init /\ sess'[k].acked = sess[k].acked
      /\ \A l \in Sessions : l # k => sess'[l] = sess[l]
  BY LifeIs
<1>3. SessOK(sess'[k], entry'.phase, raced') BY <1>1, <1>2 DEF Fits, SessOK
<1>4. ASSUME state'.owner = k PROVE OwnOK(sess'[k], state'.cursor, faults', raced')
  <2>1. OwnOK(sess[k], state.cursor, faults, raced) BY <1>1, <1>4 DEF Fits
  <2>2. faults > 0 => faults' > 0 BY DEF Rest, TypeOK
  <2> QED BY <1>2, <2>1, <2>2 DEF OwnOK, Rest
<1>5. Fits(k)' BY <1>3, <1>4 DEF Fits
<1> QED BY <1>2, <1>5, OneMoves DEF Keeps

LEMMA JoinSound ==
  ASSUME TypeOK, Sound, Rest, NEW c \in Callers, Join(c)
  PROVE  Sound'
<1>1. sess' = sess /\ state' = state /\ Registered = {} BY DEF Join
<1>2. (\E k \in Sessions : sess[k].life \in {"flushing", "cleaning"}) => "resume" \in raced' BY DEF Join
<1>3. ASSUME NEW k \in Sessions PROVE Fits(k)'
  <2>1. Fits(k) BY DEF Sound
  <2>2. sess[k].life # "live" BY <1>1 DEF Registered
  <2>3. SessOK(sess'[k], entry'.phase, raced') BY <1>1, <1>2, <2>1, <2>2 DEF Fits, SessOK
  <2>4. ASSUME state'.owner = k PROVE OwnOK(sess'[k], state'.cursor, faults', raced')
    <3>1. OwnOK(sess[k], state.cursor, faults, raced) BY <1>1, <2>1, <2>4 DEF Fits
    <3>2. faults > 0 => faults' > 0 BY DEF Rest, TypeOK
    <3> QED BY <1>1, <3>1, <3>2 DEF OwnOK, Rest
  <2> QED BY <2>3, <2>4 DEF Fits
<1> QED BY <1>3 DEF Sound

LEMMA CallerSound ==
  ASSUME TypeOK, PoolOK, Sound, Rest, NEW c \in Callers, Resume(c) \/ Settle(c) \/ Abort(c)
  PROVE  Sound'
<1>0. sess \in [Sessions -> SessionRecords] BY DEF TypeOK
<1>1. ASSUME sess' = sess, state' = state, entry' \in {entry, NoEntry} PROVE Sound'
  BY <1>1, EntryFates, NoneMoves DEF Keeps
<1>2. CASE MeetLive(c)
  <2>1. PICK k \in Registered :
          CASE call[c].op = "prepare" -> call' = Failed(c) /\ UNCHANGED <<state, entry, sess, chain>>
            [] call[c].op = "load" -> LoadLive(c, k)
            [] OTHER -> Inspected(c, TRUE, sess[k].log, chain) /\ UNCHANGED <<state, entry, sess>>
    BY <1>2 DEF MeetLive
  <2>2. k \in Sessions /\ sess[k].log \in Logs BY <1>0 DEF Registered, SessionRecords
  <2>3. CASE UNCHANGED <<state, entry, sess>> BY <1>1, <2>3
  <2>4. CASE Attach(k, sess[k].log, AwaitsFlush(c, k)) BY <2>2, <2>4, AttachSound
  <2>5. CASE entry.phase = "none" /\ StartInit(k) /\ UNCHANGED <<state, entry>> BY <2>2, <2>5, StartInitSound
  <2> QED BY <2>1, <2>3, <2>4, <2>5 DEF LoadLive
<1>3. CASE Join(c) BY <1>3, JoinSound
<1>4. CASE Turn(c)
  <2>1. sess' = sess /\ state' = state BY <1>4 DEF Turn
  <2>2. entry' = entry \/ entry.phase = "ready" BY <1>4 DEF Turn
  <2> QED BY <2>1, <2>2, NoneMoves DEF Keeps
<1>5. CASE Seen(c) \/ Caught(c) \/ Flushed(c) BY <1>1, <1>5 DEF Seen, Caught, Flushed
<1>6. CASE Reserved(c)
  <2>1. state' = state BY <1>6 DEF Reserved
  <2>2. CASE sess' = sess /\ entry' \in {entry, NoEntry} BY <1>1, <2>1, <2>2
  <2>3. CASE entry' = NoEntry /\ \E k \in Registered : StartInit(k)
    BY <2>1, <2>3, StartInitSound, EntryFates DEF Registered
  <2> QED BY <1>6, <2>2, <2>3 DEF Reserved, Remove
<1>7. ASSUME NEW log, Unpublished(c, log), HoldsIn(call, sess, c) PROVE entry'.phase # "none" => entry.phase # "none"
  <2>1. entry.phase = "reserved" BY <1>7, HolderIs
  <2> QED BY <2>1
<1>8. CASE Release(c)
  <2>1. sess' = sess /\ state' = state /\ call[c].pc = "holding" /\ \E log : Unpublished(c, log) BY <1>8 DEF Release
  <2> QED BY <1>7, <2>1, NoneMoves DEF Keeps, HoldsIn
<1>9. CASE Rollback(c)
  <2>1. call[c].pc = "entered" /\ state' = state /\ call[c].awaits \in Sessions
    BY <1>9, PoolIs DEF Rollback, EntersOnce
  <2>2. PICK k \in Sessions : k = call[c].awaits BY <2>1
  <2>3. CASE sess[k].life = "entered" /\ sess' = [sess EXCEPT ![k] = NoSession] /\ Unpublished(c, sess[k].log)
    <3>1. sess'[k] = NoSession /\ \A l \in Sessions : l # k => sess'[l] = sess[l] BY <1>0, <2>3
    <3>2. NoSession.life = "unborn" /\ NoSession.init = "none" /\ NoSession.acked = 0 BY DEF NoSession
    <3>3. HoldsIn(call, sess, c) BY <2>1, <2>2, <2>3 DEF HoldsIn
    <3> QED BY <1>7, <2>1, <2>3, <3>1, <3>2, <3>3, StoreSound
  <2>4. CASE sess[k].life = "live" /\ sess' = Life(k, "flushing") /\ entry' = entry BY <2>1, <2>4, OutSound
  <2> QED BY <1>9, <2>2, <2>3, <2>4 DEF Rollback
<1>10. ASSUME NEW setup \in BOOLEAN, Publish(c, setup) PROVE Sound'
  <2>1. Unborn # {} /\ Attach(Next1(Unborn), PreparedLog(setup), Ended(c)) BY <1>10 DEF Publish
  <2>2. PICK k \in Sessions : k = Next1(Unborn) BY <2>1, Next1In
  <2>3. PICK log \in Logs : log = PreparedLog(setup) BY <2>1, PreparedTyped
  <2>4. Attach(k, log, Ended(c)) BY <2>1, <2>2, <2>3
  <2> QED BY <2>4, AttachSound
<1>11. ASSUME NEW setup \in BOOLEAN, Enter(c, setup) PROVE Sound'
  <2>1. Unborn # {} /\ state' = state /\ entry' = entry BY <1>11 DEF Enter
  <2>2. PICK k \in Sessions : k = Next1(Unborn) BY <2>1, Next1In
  <2>3. sess' = [sess EXCEPT ![k].life = "entered", ![k].log = PreparedLog(setup)] /\ sess[k].life = "unborn"
    BY <1>11, <2>1, <2>2, Next1In DEF Enter
  <2>4. sess[k].init = "none" /\ sess[k].acked = 0 BY <2>3 DEF Sound, Fits, SessOK
  <2>5. sess'[k].life = "entered" /\ sess'[k].init = "none" /\ sess'[k].acked = 0 /\ \A l \in Sessions : l # k => sess'[l] = sess[l]
    BY <1>0, <2>3, <2>4 DEF SessionRecords
  <2> QED BY <2>1, <2>3, <2>5, StoreSound
<1>12. CASE Abort(c) BY <1>1, <1>12, EntryFates DEF Abort
<1> QED BY <1>2, <1>3, <1>4, <1>5, <1>6, <1>8, <1>9, <1>10, <1>11, <1>12 DEF Resume, Settle

\* The other steps.
LEMMA RetireFlushedSound ==
  ASSUME TypeOK, Sound, Rest, NEW k \in Sessions, RetireFlushed(k)
  PROVE  Sound'
<1>1. UNCHANGED <<state, entry, faults, raced>> /\ sess[k].life = "flushing" /\ Fits(k) BY DEF RetireFlushed, Sound
<1>2. \/ sess[k].init = "failed" /\ sess' = Life(k, "stuck")
      \/ sess[k].init = "ok" /\ sess' = Life(k, "cleaning")
  BY DEF RetireFlushed
<1>3. /\ sess'[k].life \in {"stuck", "cleaning"} /\ sess'[k].init = sess[k].init /\ sess'[k].acked = sess[k].acked
      /\ sess'[k].life = "stuck" => sess[k].init = "failed"
      /\ \A l \in Sessions : l # k => sess'[l] = sess[l]
  BY <1>2, LifeIs
<1>4. SessOK(sess'[k], entry'.phase, raced') BY <1>1, <1>2, <1>3 DEF Fits, SessOK
<1>5. state'.owner = k => OwnOK(sess'[k], state'.cursor, faults', raced') BY <1>1, <1>3 DEF Fits, OwnOK
<1>6. Fits(k)' BY <1>4, <1>5 DEF Fits
<1> QED BY <1>1, <1>3, <1>6, OneMoves DEF Keeps

LEMMA StepsSound ==
  ASSUME TypeOK, PoolOK, Sound, Rest, Steps
  PROVE  Sound'
<1>0. sess \in [Sessions -> SessionRecords] BY DEF TypeOK
<1>1. ASSUME sess' = sess, state' = state, entry' \in {entry, NoEntry} PROVE Sound'
  BY <1>1, EntryFates, NoneMoves DEF Keeps
<1>2. ASSUME NEW c \in Callers, Resume(c) \/ Settle(c) \/ Abort(c) PROVE Sound' BY <1>2, CallerSound
<1>3. ASSUME NEW c \in Callers, NEW op \in Ops, Begin(c, op) PROVE Sound' BY <1>1, <1>3 DEF Begin
<1>4. ASSUME NEW k \in Sessions, SessionEvent(k) PROVE Sound'
  <2>1. sess' = [sess EXCEPT ![k].log = Append(@, k)] /\ UNCHANGED <<state, entry, faults, raced>> /\ Fits(k)
    BY <1>4 DEF SessionEvent, Sound
  <2>2. /\ sess'[k].life = sess[k].life /\ sess'[k].init = sess[k].init /\ sess'[k].acked = sess[k].acked
        /\ \A l \in Sessions : l # k => sess'[l] = sess[l]
    BY <1>0, <2>1 DEF SessionRecords
  <2>3. Fits(k)' BY <2>1, <2>2 DEF Fits, SessOK, OwnOK
  <2> QED BY <2>1, <2>2, <2>3, OneMoves DEF Keeps
<1>5. ASSUME NEW k \in Sessions, Detach(k) PROVE Sound' BY <1>5, OutSound DEF Detach
<1>6. ASSUME NEW k \in Sessions, RetireFlushed(k) PROVE Sound' BY <1>6, RetireFlushedSound
<1>7. ASSUME NEW k \in Sessions, DrainCall(k) PROVE Sound' BY <1>1, <1>7 DEF DrainCall
<1>8. ASSUME NEW k \in Sessions, Discard(k) PROVE Sound'
  <2>1. sess[k].life = "entered" /\ sess' = [sess EXCEPT ![k] = NoSession] /\ UNCHANGED <<state, entry>>
    BY <1>8 DEF Discard
  <2>2. sess'[k] = NoSession /\ \A l \in Sessions : l # k => sess'[l] = sess[l] BY <1>0, <2>1
  <2>3. NoSession.life = "unborn" /\ NoSession.init = "none" /\ NoSession.acked = 0 BY DEF NoSession
  <2> QED BY <2>1, <2>2, <2>3, StoreSound
<1>9. CASE Create
  <2>1. Unborn # {} /\ StartInit(Next1(Unborn)) /\ state' = state /\ entry' = entry /\ entry.phase = "none"
    BY <1>9 DEF Create
  <2>2. PICK k \in Sessions : k = Next1(Unborn) BY <2>1, Next1In
  <2>3. StartInit(k) BY <2>1, <2>2
  <2> QED BY <2>1, <2>3, StartInitSound
<1>10. CASE Veto
  <2>1. Unborn # {} /\ sess' = Life(Next1(Unborn), "entered") /\ state' = state /\ entry' = entry BY <1>10 DEF Veto
  <2>2. PICK k \in Sessions : k = Next1(Unborn) BY <2>1, Next1In
  <2>3. sess' = Life(k, "entered") /\ sess[k].life = "unborn" BY <2>1, <2>2, Next1In
  <2>4. sess[k].init = "none" /\ sess[k].acked = 0 BY <2>3 DEF Sound, Fits, SessOK
  <2>5. sess'[k].life = "entered" /\ sess'[k].init = "none" /\ sess'[k].acked = 0 /\ \A l \in Sessions : l # k => sess'[l] = sess[l]
    BY <2>3, <2>4, LifeIs
  <2> QED BY <2>1, <2>3, <2>5, StoreSound
<1>11. CASE HotReload
  <2>1. entry'.phase = "none" /\ state'.owner = Nobody BY Zenon, <1>11, EntryFates DEF HotReload, NoState
  <2>2. ASSUME NEW k \in Sessions PROVE Fits(k)'
    <3>1. SessOK(sess[k], entry.phase, raced) BY DEF Sound, Fits
    <3>2. SessOK(sess'[k], entry'.phase, raced') BY <1>11, <2>1, <3>1, ReloadedIs DEF SessOK
    <3>3. state'.owner # k BY <2>1 DEF Sessions, Nobody
    <3> QED BY <3>2, <3>3 DEF Fits
  <2> QED BY <2>2 DEF Sound
<1>12. CASE ExternalWrite \/ Evict BY <1>1, <1>12 DEF ExternalWrite, Evict
<1> QED BY <1>2, <1>3, <1>4, <1>5, <1>6, <1>7, <1>8, <1>9, <1>10, <1>11, <1>12 DEF Steps

LEMMA SoundNext == TypeOK' => (Sound' <=> NoLiveWithEntry' /\ InitShape' /\ OwnerShape' /\ OwnerPresent')
BY SoundIs, PTL

LEMMA SoundStep ==
  ASSUME CoordinatorInvariant, [Next]_vars
  PROVE  NoLiveWithEntry' /\ InitShape' /\ OwnerShape' /\ OwnerPresent'
<1>0. TypeOK /\ PoolOK /\ RunningShape /\ Sound /\ Rest /\ TypeOK' BY SoundIs, TypeStep DEF CoordinatorInvariant
<1>1. ASSUME UNCHANGED vars PROVE Sound' BY <1>0, <1>1, NoneMoves DEF vars, Keeps
<1>2. ASSUME Chain PROVE Sound' BY <1>0, <1>2, JobStays, InitSound, DrainSound, RetireSound DEF Chain
<1>3. ASSUME Steps PROVE Sound' BY <1>0, <1>3, StepsSound
<1>4. Sound' BY <1>1, <1>2, <1>3 DEF Next
<1> QED BY <1>0, <1>4, SoundNext

--------
\* The inductive invariant.

LEMMA InvariantInit == Init => CoordinatorInvariant
<1> SUFFICES ASSUME Init PROVE CoordinatorInvariant OBVIOUS
<1>1. /\ state = NoState /\ entry = NoEntry /\ chain = <<>> /\ retiring = Nobody
      /\ sess = [k \in Sessions |-> NoSession] /\ call = [c \in Callers |-> NoCall]
      /\ upsets = 0 /\ faults = 0 /\ raced = {}
  BY DEF Init
<1>2. \A k \in Sessions : sess[k] = NoSession BY <1>1
<1>3. \A c \in Callers : call[c] = NoCall BY <1>1
<1>4. /\ NoCall.pc = "idle" /\ NoSession.life = "unborn" /\ NoSession.init = "none" /\ NoSession.acked = 0
      /\ NoEntry.phase = "none" /\ NoState.owner = Nobody
  BY DEF NoCall, NoSession, NoEntry, NoState
<1>5. TypeOK
  <2>1. stored \in Artifacts
    <3>1. <<Old>> \in Logs /\ <<Open>> \in Logs BY DEF Logs, Old, Open
    <3>2. /\ [made |-> TRUE, log |-> <<Old>>, torn |-> FALSE] \in Artifacts
          /\ [made |-> TRUE, log |-> <<Open>>, torn |-> TRUE] \in Artifacts
      BY <3>1 DEF Artifacts
    <3> QED BY <3>2, ConstantsTyped DEF Init
  <2>2. sess \in [Sessions -> SessionRecords] /\ call \in [Callers -> CallRecords] /\ entry \in Entries /\ state \in States
    BY <1>1, ConstantsTyped
  <2>3. chain \in Seq(JobRecords) BY <1>1, EmptySeq
  <2> QED BY <1>1, <2>1, <2>2, <2>3 DEF TypeOK, Owners
<1>6. PoolOK
  <2>1. Len(chain) = 0 BY <1>1
  <2>2. Queue(chain, entry, call, sess, state.owner) BY <2>1 DEF Queue
  <2>3. Loads(chain, entry, call) BY <1>1, <1>3, <1>4 DEF Loads
  <2>4. Turns(entry, call, sess) BY <1>1, <1>3, <1>4 DEF Turns, CommitsIn, HoldsIn
  <2>5. Refers(entry, call) /\ EntersOnce(call, sess) BY <1>1, <1>3, <1>4 DEF Refers, Referring, EntersOnce
  <2> QED BY <1>5, <2>2, <2>3, <2>4, <2>5 DEF PoolOK, Pool, TypeOK
<1>7. RunningShape /\ HeldIsStored BY <1>1, <1>4 DEF RunningShape, HeldIsStored, Runs
<1>8. NoLiveWithEntry /\ InitShape /\ OwnerShape /\ OwnerPresent
  BY <1>1, <1>2, <1>4 DEF NoLiveWithEntry, InitShape, OwnerShape, OwnerPresent, Sessions, Nobody
<1> QED BY <1>5, <1>6, <1>7, <1>8 DEF CoordinatorInvariant

LEMMA InvariantStep == CoordinatorInvariant /\ [Next]_vars => CoordinatorInvariant'
BY TypeStep, PoolStep, ShapeStep, SoundStep DEF CoordinatorInvariant

\* The coordinator's queue, its pool, its callers and its sessions fit together at every
\* step of every interleaving.
THEOREM InvariantHolds == Spec => []CoordinatorInvariant
BY InvariantInit, InvariantStep, PTL DEF Spec

\* Every variable keeps its type: in particular no job reads past the end of a session's
\* log when it takes the events between the cursor and its end.
THEOREM TypeCorrect == Spec => []TypeOK
<1>1. CoordinatorInvariant => TypeOK BY DEF CoordinatorInvariant
<1> QED BY <1>1, InvariantHolds, PTL

\* WaitersAwaited: whoever waits in reserve waits for the pool's own entry, which another
\* call commits or holds, and whoever waits for a read waits for one that is queued; so
\* settleReservation and the end of a load forget nobody, however many calls join, abort,
\* evict or invalidate.
THEOREM WaitersAreAwaited == Spec => []WaitersAwaited
<1>1. ASSUME CoordinatorInvariant, NEW c \in Callers, call[c].pc = "settled"
      PROVE  Current(c) /\ \E d \in Callers \ {c} : Holds(d) \/ (call[d].pc = "commit" /\ Current(d))
  <2>1. Turns(entry, call, sess) BY <1>1, PoolIs DEF CoordinatorInvariant
  <2>2. call[c].gen = entry.gen /\ entry.phase \in {"committing", "reserved"} BY <1>1, <2>1 DEF Turns
  <2>3. CASE entry.phase = "committing"
    <3>1. PICK d \in Callers : CommitsIn(entry, call, d) BY <2>1, <2>3 DEF Turns
    <3> QED BY <1>1, <2>2, <3>1 DEF CommitsIn, Current
  <2>4. CASE entry.phase = "reserved"
    <3>1. PICK d \in Callers : HoldsIn(call, sess, d) BY <2>1, <2>4 DEF Turns
    <3>2. Holds(d) /\ d # c BY <1>1, <3>1 DEF HoldsIn, Holds
    <3> QED BY <2>2, <3>2 DEF Current
  <2> QED BY <2>2, <2>3, <2>4
<1>2. ASSUME CoordinatorInvariant, NEW c \in Callers, call[c].pc = "result"
      PROVE  \E i \in DOMAIN chain : chain[i].kind = "load" /\ chain[i].gen = call[c].gen
  <2>1. LoadOf(chain, call[c].gen) /\ DOMAIN chain = 1 .. Len(chain)
    BY <1>2, PoolIs, LenProperties DEF CoordinatorInvariant, Loads, TypeOK
  <2> QED BY <2>1 DEF LoadOf
<1>3. CoordinatorInvariant => WaitersAwaited BY <1>1, <1>2 DEF WaitersAwaited
<1> QED BY <1>3, InvariantHolds, PTL

\* ReservedIsCurrent: who holds a preparation holds it alone, it is the log as stored, and
\* the ownerless cursor stands at its end, until attachPrepared or the release.
THEOREM ReservedStaysCurrent == Spec => []ReservedIsCurrent
<1>1. ASSUME CoordinatorInvariant, NEW c \in Callers, Holds(c)
      PROVE  /\ Current(c) /\ entry.phase = "reserved"
             /\ \A d \in Callers \ {c} : ~Holds(d)
             /\ stored.log = Balanced(entry.src) /\ ~stored.torn
             /\ state.there /\ state.owner = Nobody /\ state.cursor = Len(stored.log)
  <2>1. TypeOK /\ PoolOK /\ HeldIsStored BY <1>1 DEF CoordinatorInvariant
  <2>2. \A d \in Callers : HoldsIn(call, sess, d) <=> Holds(d) BY DEF HoldsIn, Holds
  <2>3. entry.phase = "reserved" /\ call[c].gen = entry.gen /\ \A d \in Callers : d # c => ~Holds(d)
    BY <1>1, <2>1, <2>2, HolderIs
  <2> QED BY <2>1, <2>3 DEF Current, HeldIsStored
<1>2. CoordinatorInvariant => ReservedIsCurrent BY <1>1 DEF ReservedIsCurrent
<1> QED BY <1>2, InvariantHolds, PTL

\* OwnerPresent: the session that owns the stored log is live or on its way out; the
\* cleanup of one that is gone took its ownership along, unless a write failed, a cold append
\* was in its way or a resume overtook the retirement.
THEOREM OwnerIsPresent == Spec => []OwnerPresent
<1>1. CoordinatorInvariant => OwnerPresent BY DEF CoordinatorInvariant
<1> QED BY <1>1, InvariantHolds, PTL

--------
\* How a queue is carried.

LEMMA CarriedSame ==
  ASSUME TypeOK, NEW K, chain' = chain
  PROVE  Carried(K)
<1>1. CarriedBy(0, K)
  <2>1. Len(chain) \in Nat BY LenProperties DEF TypeOK
  <2> QED BY <2>1 DEF CarriedBy, Same
<1> QED BY <1>1 DEF Carried

LEMMA CarriedPush ==
  ASSUME TypeOK, NEW K, NEW j \in JobRecords, New(j, K), chain' = Append(chain, j)
  PROVE  Carried(K)
<1>1. /\ Len(chain) \in Nat /\ Len(chain') = Len(chain) + 1 /\ chain'[Len(chain) + 1] = j
      /\ \A i \in 1 .. Len(chain) : chain'[i] = chain[i]
  BY AppendIs DEF TypeOK
<1>2. CarriedBy(0, K)
  <2> SUFFICES ASSUME NEW i \in 1 .. Len(chain')
               PROVE  (i + 0 \in 1 .. Len(chain) /\ Same(chain'[i], chain[i + 0])) \/ New(chain'[i], K)
    BY DEF CarriedBy
  <2>1. CASE i \in 1 .. Len(chain) BY <1>1, <2>1 DEF Same
  <2>2. CASE i = Len(chain) + 1 BY <1>1, <2>2
  <2> QED BY <1>1, <2>1, <2>2
<1> QED BY <1>2 DEF Carried

LEMMA CarriedTail ==
  ASSUME TypeOK, NEW K, chain # <<>>, chain' = Tail(chain) \/ \E j \in JobRecords : New(j, K) /\ chain' = Append(Tail(chain), j)
  PROVE  Carried(K)
<1>1. /\ Tail(chain) \in Seq(JobRecords) /\ Len(chain) \in Nat /\ Len(Tail(chain)) = Len(chain) - 1
      /\ \A i \in 1 .. Len(chain) - 1 : Tail(chain)[i] = chain[i + 1]
  BY TailIs DEF TypeOK
<1>2. CASE chain' = Tail(chain)
  <2>1. CarriedBy(1, K) BY <1>1, <1>2 DEF CarriedBy, Same
  <2> QED BY <2>1 DEF Carried
<1>3. ASSUME NEW j \in JobRecords, New(j, K), chain' = Append(Tail(chain), j) PROVE Carried(K)
  <2> DEFINE r == Tail(chain)
             n == Len(chain)
  <2>0. /\ r \in Seq(JobRecords) /\ n \in Nat \ {0} /\ Len(r) = n - 1 /\ chain' = Append(r, j)
        /\ \A i \in 1 .. n - 1 : r[i] = chain[i + 1]
    BY Zenon, <1>1, <1>3, TailIs DEF TypeOK
  <2> HIDE DEF r, n
  <2>1. Len(chain') = Len(r) + 1 /\ chain'[Len(r) + 1] = j /\ \A i \in 1 .. Len(r) : chain'[i] = r[i]
    BY <2>0, AppendIs
  <2>2. Len(chain') = n /\ chain'[n] = j /\ \A i \in 1 .. n - 1 : chain'[i] = chain[i + 1] BY <2>0, <2>1
  <2>3. \A i \in 1 .. n : (i + 1 \in 1 .. n /\ Same(chain'[i], chain[i + 1])) \/ New(chain'[i], K)
    <3> TAKE i \in 1 .. n
    <3>1. CASE i \in 1 .. n - 1 BY <2>0, <2>2, <3>1 DEF Same
    <3>2. CASE i = n BY <1>3, <2>2, <3>2
    <3> QED BY <2>0, <3>1, <3>2
  <2>4. CarriedBy(1, K) BY <2>2, <2>3 DEF CarriedBy, n
  <2> QED BY <2>4 DEF Carried
<1> QED BY <1>2, <1>3

LEMMA CarriedStage ==
  ASSUME TypeOK, NEW K, chain # <<>>, NEW stage, NEW src,
         (chain[1].kind # "check" /\ chain' = AtStage(stage, src)) \/ chain' = [chain EXCEPT ![1].stage = stage]
  PROVE  Carried(K)
<1>1. Len(chain) \in Nat \ {0} /\ chain[1] \in JobRecords /\ chain \in Seq(JobRecords) /\ DOMAIN chain = 1 .. Len(chain)
  BY TailIs, LenProperties DEF TypeOK
<1>2. DOMAIN chain' = DOMAIN chain /\ \A i \in 2 .. Len(chain) : chain'[i] = chain[i] BY <1>1 DEF AtStage
<1>3. Same(chain'[1], chain[1]) BY <1>1 DEF AtStage, Same, JobRecords
<1>5. Len(chain') = Len(chain) BY <1>1 DEF AtStage
<1>6. CarriedBy(0, K)
  <2> SUFFICES ASSUME NEW i \in 1 .. Len(chain')
               PROVE  i + 0 \in 1 .. Len(chain) /\ Same(chain'[i], chain[i + 0])
    BY DEF CarriedBy
  <2>1. CASE i = 1 BY <1>1, <1>3, <2>1
  <2>2. CASE i \in 2 .. Len(chain) BY <1>1, <1>2, <2>2 DEF Same
  <2> QED BY <1>1, <1>5, <2>1, <2>2
<1> QED BY <1>6 DEF Carried

--------
\* What a carried queue preserves.

LEMMA InitialIs ==
  ASSUME TypeOK, PoolOK
  PROVE  /\ Len(chain) \in Nat
         /\ \A i \in 1 .. Len(chain) :
              /\ chain[i].kind \in Initial => /\ chain[i].who \in Sessions /\ sess[chain[i].who].init = "pending"
                                              /\ entry.phase \in {"none", "loading"}
              /\ chain[i].kind = "drain" => chain[i].who \in Sessions
         /\ \A i, j \in 1 .. Len(chain) : i < j /\ chain[i].kind \in Initial /\ chain[j].kind \in Initial => chain[i].who # chain[j].who
<1>1. Queue(chain, entry, call, sess, state.owner) /\ Len(chain) \in Nat BY PoolIs, LenProperties DEF TypeOK
<1>2. \A i \in 1 .. Len(chain) :
        /\ chain[i].kind \in Initial => /\ chain[i].who \in Sessions /\ sess[chain[i].who].init = "pending"
                                        /\ entry.phase \in {"none", "loading"}
        /\ chain[i].kind = "drain" => chain[i].who \in Sessions
  BY <1>1 DEF Queue, JobOK, Initial, OfSessions
<1>3. \A i, j \in 1 .. Len(chain) : i < j /\ chain[i].kind \in Initial /\ chain[j].kind \in Initial => chain[i].who # chain[j].who
  BY <1>1 DEF Queue, PairOK
<1> QED BY <1>1, <1>2, <1>3

LEMMA SuccessionKept ==
  ASSUME TypeOK, PoolOK, Succession, NEW K, Carried(K), K \cap Initial = {},
         \A k \in Sessions : sess'[k].life \in {"entered", "live"} => sess[k].life \in {"entered", "live"},
         \A k \in Sessions : sess'[k].life = "live" => sess[k].life = "live" /\ sess'[k].init = sess[k].init
  PROVE  Succession'
<1>1. PICK d \in {0, 1} : CarriedBy(d, K) BY DEF Carried
<1>2. \A i \in 1 .. Len(chain') : chain'[i].kind \in Initial =>
        /\ i + d \in 1 .. Len(chain) /\ chain[i + d].kind \in Initial
        /\ chain'[i].kind = chain[i + d].kind /\ chain'[i].who = chain[i + d].who
        /\ chain'[i].who \in Sessions
  BY <1>1, InitialIs DEF CarriedBy, Same, New
<1>3. \A k, l \in Sessions : sess'[k].life \in {"entered", "live"} /\ sess'[l].life \in {"entered", "live"} => k = l
  BY DEF Succession
<1>4. ASSUME NEW i \in 1 .. Len(chain'), NEW j \in 1 .. Len(chain'), i < j, chain'[i].kind \in Initial, chain'[j].kind \in Initial
      PROVE  sess'[chain'[i].who].life # "live" /\ chain'[j].kind = "init"
  <2>1. i + d \in 1 .. Len(chain) /\ j + d \in 1 .. Len(chain) /\ i + d < j + d BY <1>2, <1>4
  <2>2. sess[chain[i + d].who].life # "live" /\ chain[j + d].kind = "init" BY <1>2, <1>4, <2>1 DEF Succession
  <2> QED BY <1>2, <1>4, <2>2
<1>5. ASSUME NEW k \in Sessions, NEW i \in 1 .. Len(chain'), sess'[k].life = "live", sess'[k].init # "pending"
      PROVE  chain'[i].kind \notin Initial
  BY <1>2, <1>5 DEF Succession
<1> QED BY <1>3, <1>4, <1>5 DEF Succession

LEMMA EntitledKept ==
  ASSUME NEW K, Carried(K), "drain" \notin K, NEW k,
         sess'[k].init = sess[k].init, sess'[k].life = sess[k].life, sess'[k].acked = sess[k].acked, sess'[k].log = sess[k].log
  PROVE  Entitled(k)' => Entitled(k)
<1>1. Drains(k)' => Drains(k) BY DEF Drains, Carried, CarriedBy, Same, New
<1> QED BY <1>1 DEF Entitled, Works

LEMMA TitleKept ==
  ASSUME TypeOK, PoolOK, Title, NEW K, Carried(K), "suffix" \notin K,
         state'.owner = state.owner \/ state.owner = Nobody,
         \A k \in Sessions : k # state'.owner /\ Entitled(k)' => Entitled(k)
  PROVE  Title'
<1>1. \A k \in Sessions : k # Nobody BY DEF Sessions, Nobody
<1>2. \A k \in Sessions : Entitled(k)' => state'.owner = k BY <1>1 DEF Title
<1>3. ASSUME NEW i \in 1 .. Len(chain'), chain'[i].kind = "suffix" PROVE state'.owner = chain'[i].who
  <2>1. PICK d \in {0, 1} : i + d \in 1 .. Len(chain) /\ Same(chain'[i], chain[i + d])
    BY <1>3 DEF Carried, CarriedBy, New
  <2>2. state.owner = chain[i + d].who /\ chain[i + d].who \in Sessions /\ chain'[i].who = chain[i + d].who
    BY <1>3, <2>1, InitialIs DEF Title, Same, Initial
  <2> QED BY <1>1, <2>2
<1> QED BY <1>2, <1>3 DEF Title

LEMMA SeededKept ==
  ASSUME Seeded, NEW K, Carried(K), "init" \notin K, TypeOK,
         ~state.there => ~state'.there \/ (chain # <<>> /\ chain[1].kind # "init")
  PROVE  Seeded'
<1> SUFFICES ASSUME NEW i \in 1 .. Len(chain'), chain'[i].kind = "init", chain'[i].upto # 0
             PROVE  i = 1 /\ ~state'.there
  BY DEF Seeded
<1>1. PICK d \in {0, 1} : i + d \in 1 .. Len(chain) /\ Same(chain'[i], chain[i + d]) BY DEF Carried, CarriedBy, New
<1>2. i + d = 1 /\ ~state.there /\ chain[i + d].kind = "init" BY <1>1 DEF Seeded, Same
<1>3. i = 1 /\ d = 0
  <2>1. Len(chain') \in Nat \/ i \in Int OBVIOUS
  <2> QED BY <1>1, <1>2, <2>1
<1> QED BY <1>2, <1>3

\* The first job goes, and with it the seed.
LEMMA SeededTail ==
  ASSUME TypeOK, Seeded, chain # <<>>, chain' = Tail(chain)
  PROVE  Seeded'
<1>1. /\ Len(chain) \in Nat \ {0} /\ Len(chain') = Len(chain) - 1 /\ \A i \in 1 .. Len(chain) - 1 : chain'[i] = chain[i + 1]
  BY TailIs DEF TypeOK
<1>2. \A i \in 1 .. Len(chain') : i + 1 \in 1 .. Len(chain) /\ i + 1 # 1 /\ chain'[i] = chain[i + 1] BY <1>1
<1> QED BY <1>2 DEF Seeded

--------
\* The jobs of callers.

LEMMA SoundSource ==
  ASSUME NEW src \in Artifacts, ~NeedsRepair(src)
  PROVE  Balanced(src) = src.log
<1>1. src.log \in Seq(Int) /\ Closers(src) = <<>> BY DEF NeedsRepair, Artifacts, Logs
<1>2. src.log \o <<>> = src.log BY <1>1, ConcatEmptySeq
<1> QED BY <1>1, <1>2 DEF Balanced

LEMMA InspectedCarried ==
  ASSUME TypeOK, NEW c \in Callers, NEW fresh, NEW view \in Logs, NEW rest,
         Inspected(c, fresh, view, rest), rest = chain \/ (chain # <<>> /\ rest = Tail(chain))
  PROVE  Carried(OfCalls)
<1>1. Len(view) \in Nat BY LenProperties DEF Logs
<1>2. [Job("append", c) EXCEPT !.upto = Len(view)] \in JobRecords BY <1>1, JobTyped, ConstantsTyped DEF OfCalls
<1>3. PICK j \in JobRecords : j = [Job("append", c) EXCEPT !.upto = Len(view)] BY <1>2
<1>4. New(j, OfCalls) BY <1>3 DEF Job, New, OfCalls
<1>5. chain' = rest \/ chain' = Append(rest, j) BY <1>3 DEF Inspected
<1> QED BY <1>4, <1>5, CarriedSame, CarriedPush, CarriedTail

LEMMA StartMoves ==
  ASSUME TypeOK, LoadStart \/ CommitStart \/ CheckStart \/ CreateStart \/ AppendStart \/ AppendRead
  PROVE  Idle
<1>1. UNCHANGED <<stored, state, sess>> /\ chain # <<>>
  BY DEF LoadStart, CommitStart, CheckStart, CreateStart, AppendStart, AppendRead, Runs
<1>2. \/ chain' = Tail(chain)
      \/ \E stage, src : (chain[1].kind # "check" /\ chain' = AtStage(stage, src)) \/ chain' = [chain EXCEPT ![1].stage = stage]
  BY DEF LoadStart, CommitStart, CheckStart, CreateStart, AppendStart, AppendRead, Runs
<1> QED BY <1>1, <1>2, CarriedTail, CarriedStage DEF Idle

LEMMA CommitMoves ==
  ASSUME CoordinatorInvariant, CommitRetry \/ CommitEnd
  PROVE  Idle \/ Repairs \/ Places
<1>0. TypeOK /\ PoolOK /\ RunningShape /\ HeldIsStored BY DEF CoordinatorInvariant
<1>1. /\ chain # <<>> /\ chain[1].kind = "commit" /\ chain[1].kind \in OfCalls /\ chain' = Tail(chain) /\ state.owner = Nobody
      /\ chain[1].stage = "current" => stored = chain[1].src
  BY <1>0 DEF CommitRetry, CommitEnd, Runs, RunningShape, OfCalls
<1>2. entry.phase # "reserved" /\ Carried(OfCalls) /\ stored \in Artifacts
  BY <1>0, <1>1, FirstJob, CarriedTail DEF JobOK, TypeOK
<1>3. CASE CommitRetry /\ chain[1].stage # "current" BY <1>2, <1>3 DEF CommitRetry, SourceCurrent, Idle
<1>4. CASE CommitRetry /\ chain[1].stage = "current" BY <1>1, <1>2, <1>4 DEF CommitRetry, SourceCurrent, Repairs
<1>5. CASE CommitEnd
  <2>1. /\ stored = chain[1].src /\ ~NeedsRepair(stored) /\ UNCHANGED <<stored, sess>>
        /\ state' = State(Len(Balanced(stored)), TRUE, Nobody)
    BY <1>1, <1>5 DEF CommitEnd, SourceCurrent
  <2>2. Balanced(stored) = stored.log BY <1>2, <2>1, SoundSource
  <2>3. state' = State(Len(stored.log), TRUE, Nobody) BY <2>1, <2>2
  <2> QED BY <1>1, <1>2, <2>1, <2>3 DEF Places
<1> QED BY <1>3, <1>4, <1>5

LEMMA AdoptMoves ==
  ASSUME CoordinatorInvariant, Ledger, Adopt
  PROVE  Idle \/ Repairs \/ Places
<1>0. TypeOK /\ PoolOK /\ RunningShape /\ HeldIsStored /\ Found BY DEF CoordinatorInvariant, Ledger
<1>1. Runs("append", "adopt") /\ chain # <<>> /\ chain[1].kind \in OfCalls /\ sess' = sess BY DEF Adopt, Runs, OfCalls
<1>2. state.owner = Nobody /\ entry.phase # "reserved" BY <1>0, <1>1 DEF Found, HeldIsStored, RunningShape
<1>3. chain[1].kind # "check" /\ \E stage, src : chain' = AtStage(stage, src) BY DEF Adopt, Runs
<1>4. Carried(OfCalls) BY <1>0, <1>1, <1>3, CarriedStage
<1>5. CASE stored' = stored /\ state' = state BY <1>1, <1>4, <1>5 DEF Idle
<1>6. CASE stored = chain[1].src /\ NeedsRepair(chain[1].src) /\ stored' = Repaired(chain[1].src) /\ state' = state
  BY <1>1, <1>2, <1>4, <1>6 DEF Repairs
<1>7. CASE stored = chain[1].src /\ state' = State(Len(chain[1].src.log), TRUE, Nobody) /\ stored' = stored
  <2>1. \E made \in BOOLEAN : state' = State(Len(stored.log), made, Nobody) BY <1>7
  <2> QED BY <1>1, <1>2, <1>4, <1>7, <2>1 DEF Places
<1> QED BY <1>5, <1>6, <1>7 DEF Adopt

LEMMA CreateMoves ==
  ASSUME CoordinatorInvariant, Ledger, CreateEnd
  PROVE  Idle \/ Places
<1>0. TypeOK /\ Found /\ HeldIsStored /\ Extent BY DEF CoordinatorInvariant, Ledger
<1>1. Runs("create", "read") /\ chain # <<>> /\ chain[1].kind \in OfCalls /\ UNCHANGED <<stored, sess>> /\ chain' = Tail(chain)
  BY DEF CreateEnd, Runs, OfCalls
<1>2. Carried(OfCalls) /\ state.owner = Nobody BY <1>0, <1>1, CarriedTail DEF Found, HeldIsStored
<1>3. CASE chain[1].src.made BY <1>1, <1>2, <1>3 DEF CreateEnd, Idle
<1>4. CASE ~chain[1].src.made
  <2>1. stored.log = <<>> BY <1>0, <1>1, <1>4 DEF Found, Extent, Proper
  <2>2. Len(stored.log) = 0 BY <2>1
  <2>3. state' = State(Len(stored.log), FALSE, Nobody) BY <1>4, <2>2 DEF CreateEnd
  <2> QED BY <1>1, <1>2, <2>3 DEF Places
<1> QED BY <1>3, <1>4

LEMMA AppendMoves ==
  ASSUME CoordinatorInvariant, AppendEnd
  PROVE  Idle \/ Appends
<1>0. TypeOK /\ RunningShape BY DEF CoordinatorInvariant
<1>1. Runs("append", "write") /\ chain # <<>> /\ chain' = Tail(chain) /\ sess' = sess BY DEF AppendEnd, Runs
<1>2. Carried(OfCalls) /\ entry.phase # "reserved" BY <1>0, <1>1, CarriedTail DEF RunningShape
<1>3. \/ UNCHANGED <<stored, state>>
      \/ stored' = Written(<<Cold>>) /\ state' = Advanced(1) /\ (state.owner # Nobody => "append" \in raced')
  BY DEF AppendEnd
<1> QED BY <1>1, <1>2, <1>3 DEF Idle, Appends

LEMMA CallJobMoves ==
  ASSUME CoordinatorInvariant, Ledger,
         \/ LoadStart \/ LoadEnd \/ CommitStart \/ CommitRetry \/ CommitEnd \/ CommitFault \/ CheckStart \/ CheckEnd
         \/ CreateStart \/ CreateEnd \/ AppendStart \/ AppendRead \/ Adopt \/ AppendEnd
  PROVE  Idle \/ Repairs \/ Places \/ Appends
<1>0. TypeOK /\ PoolOK BY DEF CoordinatorInvariant
<1>1. CASE LoadEnd \/ CommitFault
  <2>1. UNCHANGED <<stored, state, sess>> /\ chain # <<>> /\ chain' = Tail(chain)
    BY Zenon, <1>1 DEF LoadEnd, CommitFault, Runs
  <2> QED BY <1>0, <2>1, CarriedTail DEF Idle
<1>2. CASE CheckEnd
  <2>1. UNCHANGED <<stored, state, sess>> /\ chain # <<>> /\ chain[1].kind = "check" BY <1>2 DEF CheckEnd, Runs
  <2>2. PICK c \in Callers : c = chain[1].who BY <1>0, <2>1, FirstJob DEF OfCalls
  <2>3. \/ chain' = Tail(chain)
        \/ \E fresh : \E k \in Registered : Inspected(c, fresh, sess[k].log, Tail(chain))
        \/ \E fresh : Inspected(c, fresh, Balanced(call[c].src), Tail(chain))
    BY <1>2, <2>2 DEF CheckEnd
  <2>4. Carried(OfCalls) BY <1>0, <2>1, <2>3, ViewTyped, InspectedCarried, CarriedTail
  <2> QED BY <2>1, <2>4 DEF Idle
<1> QED BY <1>0, <1>1, <1>2, StartMoves, CommitMoves, AdoptMoves, CreateMoves, AppendMoves

--------
\* The jobs of sessions.

\* The events of a log after the first n, up to the first u.
IsRest(s, n, u, t) == t = SubSeq(s, n + 1, u)

LEMMA RestIs ==
  ASSUME NEW s \in Logs, NEW n \in Nat, NEW u \in Nat, u <= Len(s), NEW t, IsRest(s, n, u, t)
  PROVE  /\ t \in Logs /\ Len(t) \in Nat
         /\ n < u => Len(t) = u - n
         /\ u <= n => t = <<>>
         /\ \A i \in 1 .. Len(t) : t[i] = s[n + i]
         /\ t # <<>> => n + Len(t) <= Len(s)
         /\ t = <<>> => u <= n
         /\ u <= n + Len(t)
<1>0. Len(s) \in Nat /\ \A i \in n + 1 .. u : s[i] \in Int
  <2>1. Len(s) \in Nat /\ \A i \in 1 .. Len(s) : s[i] \in Int BY LenProperties, ElementOfSeq DEF Logs
  <2> QED BY <2>1
<1>1. /\ t \in Seq(Int) /\ Len(t) = IF n + 1 <= u THEN u - (n + 1) + 1 ELSE 0
      /\ \A i \in 1 .. u - (n + 1) + 1 : t[i] = s[n + 1 + i - 1]
  BY <1>0, SubSeqProperties DEF IsRest
<1>2. t \in Logs /\ Len(t) \in Nat BY <1>1, LenProperties DEF Logs
<1>3. n < u => Len(t) = u - n BY <1>1
<1>4. u <= n => t = <<>> BY SubSeqEmpty DEF IsRest
<1>5. ASSUME NEW i \in 1 .. Len(t) PROVE t[i] = s[n + i]
  <2>1. i \in 1 .. u - (n + 1) + 1 /\ n + 1 + i - 1 = n + i BY <1>1, <1>2
  <2> QED BY <1>1, <2>1
<1>6. t = <<>> => Len(t) = 0 OBVIOUS
<1>7. (t = <<>> => u <= n) /\ u <= n + Len(t) /\ (t # <<>> => n + Len(t) <= Len(s)) BY <1>0, <1>2, <1>3, <1>4, <1>6
<1> QED BY <1>2, <1>3, <1>4, <1>5, <1>7

\* The rest of a seed is the rest of the log up to the seed's end.
LEMMA SeedRest ==
  ASSUME NEW s \in Logs, NEW n \in Nat, NEW u \in Nat, u <= Len(s), NEW seed, IsRest(s, 0, u, seed),
         NEW t, IsRest(seed, n, Len(seed), t)
  PROVE  /\ t \in Logs /\ Len(t) \in Nat
         /\ t # <<>> => n + Len(t) <= Len(s)
         /\ \A i \in 1 .. Len(t) : t[i] = s[n + i]
         /\ u <= n + Len(t)
         /\ seed \in Logs /\ Len(seed) = u /\ \A i \in 1 .. u : seed[i] = s[i]
<1>1. 0 \in Nat OBVIOUS
<1>2. /\ seed \in Logs /\ Len(seed) \in Nat /\ (0 < u => Len(seed) = u - 0) /\ (u <= 0 => seed = <<>>)
      /\ \A i \in 1 .. Len(seed) : seed[i] = s[0 + i]
  BY <1>1, RestIs
<1>3. Len(seed) = u BY <1>2
<1>4. \A i \in 1 .. u : seed[i] = s[i] BY <1>2, <1>3
<1>5. /\ t \in Logs /\ Len(t) \in Nat /\ (t # <<>> => n + Len(t) <= Len(seed)) /\ Len(seed) <= n + Len(t)
      /\ \A i \in 1 .. Len(t) : t[i] = seed[n + i]
  <2>1. Len(seed) <= Len(seed) BY <1>2
  <2> QED BY <1>2, <2>1, RestIs
<1>6. ASSUME NEW i \in 1 .. Len(t) PROVE t[i] = s[n + i]
  <2>0. t = <<>> => Len(t) = 0 OBVIOUS
  <2>1. t # <<>> /\ n + i \in 1 .. u BY <1>3, <1>5, <2>0
  <2> QED BY <1>4, <1>5, <2>1
<1>7. t # <<>> => n + Len(t) <= Len(s)
  <2>1. Len(s) \in Nat BY LenProperties DEF Logs
  <2> QED BY <1>3, <1>5, <2>1
<1> QED BY <1>2, <1>3, <1>4, <1>5, <1>6, <1>7

LEMMA StateIs ==
  ASSUME NEW n, NEW made, NEW o
  PROVE  State(n, made, o).there /\ State(n, made, o).cursor = n /\ State(n, made, o).owner = o
BY DEF State

LEMMA BindMoves ==
  ASSUME TypeOK, PoolOK, chain # <<>>, chain[1].kind \in Initial, NEW k \in Sessions, chain[1].who = k, chain' = Tail(chain),
         NEW base \in Artifacts, base.log = stored.log, Proper(base), NEW n \in Nat, n = Len(stored.log), NEW made,
         Bind(k, base, n, made, SeedOf(chain[1])),
         state.owner \in {Nobody, k}, state.owner = k \/ Covers(sess[k].log, stored.log)
  PROVE  Binds(k)
<1> DEFINE seed == SeedOf(chain[1])
           t == SubSeq(seed, n + 1, Len(seed))
           u == chain[1].upto
<1>1. sess[k].log \in Logs /\ u \in Nat /\ u <= Len(sess[k].log) /\ stored.log \in Logs
  BY FirstJob DEF JobOK, TypeOK, SessionRecords, JobRecords, Artifacts
<1>2. IsRest(sess[k].log, 0, u, seed) /\ IsRest(seed, n, Len(seed), t) BY DEF SeedOf, IsRest
<1>3. \/ /\ stored' = IF t = <<>> THEN base ELSE [made |-> TRUE, log |-> base.log \o t, torn |-> FALSE]
         /\ state' = State(n + Len(t), made \/ t # <<>>, k)
         /\ sess' = InitDone(k)
      \/ /\ stored' = base /\ state' = State(n, made, k) /\ sess' = InitFailed(k)
  BY DEF Bind
<1> HIDE DEF seed, u, t
<1>4. /\ t \in Logs /\ Len(t) \in Nat /\ (t # <<>> => n + Len(t) <= Len(sess[k].log)) /\ u <= n + Len(t)
      /\ \A i \in 1 .. Len(t) : t[i] = sess[k].log[n + i]
  <2>1. PICK log : log = sess[k].log OBVIOUS
  <2>2. /\ log \in Logs /\ u \in Nat /\ u <= Len(log)
        /\ IsRest(log, 0, u, seed) /\ IsRest(seed, n, Len(seed), t)
    BY <1>1, <1>2, <2>1
  <2>3. t \in Logs /\ Len(t) \in Nat BY <2>2, SeedRest
  <2>4. (t # <<>> => n + Len(t) <= Len(log)) /\ u <= n + Len(t) BY <2>2, SeedRest
  <2>5. ASSUME NEW i \in 1 .. Len(t) PROVE t[i] = log[n + i] BY <2>2, SeedRest
  <2> QED BY <2>1, <2>3, <2>4, <2>5
<1>5. Continues(k, t) /\ Continues(k, <<>>)
  <2>1. <<>> \in Logs /\ Len(<<>>) = 0 BY EmptySeq DEF Logs
  <2>2. 1 .. 0 = {} OBVIOUS
  <2>3. Continues(k, <<>>) BY <2>1, <2>2 DEF Continues
  <2> QED BY <1>4, <2>3 DEF Continues
<1>6. stored.log \o <<>> = stored.log /\ Len(stored.log \o t) = n + Len(t) /\ (t # <<>> => stored.log \o t # <<>>) /\ (t = <<>> => Len(t) = 0)
  BY <1>1, <1>4, ConcatEmptySeq, ConcatProperties, ConcatEqualIffEmpty DEF Logs
<1>7. entry.phase # "reserved" BY FirstJob DEF JobOK
<1>8. CASE stored' = base /\ state' = State(n, made, k) /\ sess' = InitFailed(k)
  <2>1. stored'.log = stored.log \o <<>> /\ Proper(stored') BY <1>6, <1>8
  <2>2. state'.there /\ state'.owner = k /\ state'.cursor = Len(stored'.log) BY <1>8, StateIs
  <2> QED BY <1>5, <1>7, <1>8, <2>1, <2>2 DEF Binds
<1>9. CASE /\ stored' = IF t = <<>> THEN base ELSE [made |-> TRUE, log |-> base.log \o t, torn |-> FALSE]
           /\ state' = State(n + Len(t), made \/ t # <<>>, k)
           /\ sess' = InitDone(k)
  <2>1. stored'.log = stored.log \o t BY <1>6, <1>9
  <2>2. Proper(stored')
    <3>1. CASE t = <<>> BY <1>9, <3>1
    <3>2. CASE t # <<>> BY <1>6, <1>9, <3>2 DEF Proper
    <3> QED BY <3>1, <3>2
  <2>3. state'.there /\ state'.owner = k /\ state'.cursor = Len(stored'.log) /\ u <= Len(stored'.log)
    BY <1>4, <1>6, <1>9, <2>1, StateIs
  <2> QED BY <1>5, <1>7, <1>9, <2>1, <2>2, <2>3 DEF Binds, u
<1> QED BY <1>3, <1>8, <1>9

LEMMA WorksIs ==
  ASSUME TypeOK, NEW k
  PROVE  HasWork(k) <=> Works(k)
<1>1. DOMAIN chain = 1 .. Len(chain) BY LenProperties DEF TypeOK
<1> QED BY <1>1 DEF HasWork, Works, Drains

LEMMA InitMoves ==
  ASSUME CoordinatorInvariant, Ledger, InitStart \/ InitEnd \/ Suffix
  PROVE  Idle \/ Reclaims \/ \E k \in Sessions : Binds(k) \/ InitFails(k)
<1>0. TypeOK /\ PoolOK /\ HeldIsStored /\ Title /\ Found /\ Extent BY DEF CoordinatorInvariant, Ledger
<1>1. chain # <<>> /\ chain[1].kind \in Initial BY DEF InitStart, InitEnd, Suffix, Runs, Initial
<1>2. PICK k \in Sessions : k = chain[1].who BY <1>0, <1>1, FirstJob DEF OfSessions, Initial
<1>3. Len(stored.log) \in Nat /\ stored \in Artifacts /\ stored.log \in Logs /\ sess[k].log \in Logs /\ chain[1].upto \in Nat
      /\ chain[1].upto <= Len(sess[k].log)
  BY <1>0, <1>1, <1>2, FirstJob, LenProperties DEF TypeOK, Artifacts, Logs, SessionRecords, JobRecords, JobOK
<1>4. CASE InitStart
  <2>1. chain[1].kind = "init" /\ stored' = stored BY <1>4 DEF InitStart, Runs
  <2>2. CASE state' = state /\ sess' = sess /\ \E stage, src : chain' = AtStage(stage, src)
    BY <1>0, <1>1, <2>1, <2>2, CarriedStage DEF Idle
  <2>3. CASE state.owner # Nobody /\ ~HasWork(state.owner) /\ state' = NoState /\ sess' = sess /\ \E stage, src : chain' = AtStage(stage, src)
    BY <1>0, <1>1, <2>1, <2>3, CarriedStage, WorksIs DEF Reclaims
  <2>4. CASE sess' = InitFailed(k) /\ chain' = Tail(chain) /\ state' = state BY <1>1, <1>2, <2>1, <2>4 DEF InitFails
  <2> QED BY <1>2, <1>4, <2>2, <2>3, <2>4 DEF InitStart
<1>5. CASE InitEnd
  <2>1. chain[1].kind = "init" /\ chain' = Tail(chain) BY <1>5 DEF InitEnd, Runs
  <2>2. ASSUME chain[1].stage = "claim", Bind(k, stored, state.cursor, state.made, SeedOf(chain[1])) PROVE Binds(k)
    <3>1. Runs("init", "claim") BY <1>1, <2>1, <2>2 DEF Runs
    <3>2. state.owner = Nobody /\ state.cursor = 0 /\ stored.log = <<>> /\ Proper(stored)
      BY <1>0, <3>1 DEF Found, Extent
    <3>3. Len(stored.log) = 0 /\ Covers(sess[k].log, stored.log) BY <1>3, <3>2, LenProperties DEF Covers, Logs
    <3>4. Bind(k, stored, Len(stored.log), state.made, SeedOf(chain[1])) BY <2>2, <3>2, <3>3
    <3> QED BY <1>0, <1>1, <1>2, <1>3, <2>1, <3>2, <3>3, <3>4, BindMoves
  <2>3. ASSUME chain[1].stage = "read", chain[1].src.made, Covers(SeedOf(chain[1]), chain[1].src.log),
               Bind(k, [stored EXCEPT !.torn = FALSE], Len(chain[1].src.log), TRUE, SeedOf(chain[1]))
        PROVE  Binds(k)
    <3>1. Runs("init", "read") BY <1>1, <2>1, <2>3 DEF Runs
    <3>2. stored = chain[1].src /\ state.owner = Nobody /\ Proper(stored)
      BY <1>0, <3>1 DEF Found, HeldIsStored, Extent
    <3>3. PICK base : base = [stored EXCEPT !.torn = FALSE] OBVIOUS
    <3>4. base \in Artifacts /\ base.log = stored.log /\ Proper(base) BY <1>3, <3>2, <3>3 DEF Proper, Artifacts
    <3>5. Bind(k, base, Len(stored.log), TRUE, SeedOf(chain[1])) BY <2>3, <3>2, <3>3
    <3>6. Covers(sess[k].log, stored.log)
      <4> DEFINE seed == SeedOf(chain[1])
                 t == SubSeq(seed, Len(stored.log) + 1, Len(seed))
      <4>1. IsRest(sess[k].log, 0, chain[1].upto, seed) /\ IsRest(seed, Len(stored.log), Len(seed), t) /\ Covers(seed, stored.log)
        BY <1>2, <2>3, <3>2 DEF SeedOf, IsRest
      <4> HIDE DEF seed, t
      <4>2. Len(seed) = chain[1].upto /\ \A i \in 1 .. chain[1].upto : seed[i] = sess[k].log[i]
        BY <1>3, <4>1, SeedRest
      <4>3. Len(sess[k].log) \in Nat BY <1>3, LenProperties DEF Logs
      <4> QED BY <1>3, <4>1, <4>2, <4>3 DEF Covers
    <3> QED BY <1>0, <1>1, <1>2, <1>3, <2>1, <3>2, <3>4, <3>5, <3>6, BindMoves
  <2>4. ASSUME chain[1].stage = "read", ~chain[1].src.made, Bind(k, stored, 0, FALSE, SeedOf(chain[1])) PROVE Binds(k)
    <3>1. Runs("init", "read") BY <1>1, <2>1, <2>4 DEF Runs
    <3>2. state.owner = Nobody /\ Proper(stored) /\ stored.log = <<>>
      BY <1>0, <2>4, <3>1 DEF Found, HeldIsStored, Extent, Proper
    <3>3. Len(stored.log) = 0 /\ Covers(sess[k].log, stored.log) BY <1>3, <3>2, LenProperties DEF Covers, Logs
    <3>4. Bind(k, stored, Len(stored.log), FALSE, SeedOf(chain[1])) BY <2>4, <3>3
    <3> QED BY <1>0, <1>1, <1>2, <1>3, <2>1, <3>2, <3>3, <3>4, BindMoves
  <2>5. CASE sess' = InitFailed(k) /\ UNCHANGED <<stored, state>> BY <1>1, <1>2, <2>1, <2>5 DEF InitFails
  <2> QED BY <1>2, <1>5, <2>2, <2>3, <2>4, <2>5 DEF InitEnd
<1>6. CASE Suffix
  <2>1. chain[1].kind = "suffix" /\ chain' = Tail(chain) BY <1>6 DEF Suffix, Runs
  <2>2. 1 \in 1 .. Len(chain) /\ k # Nobody BY <1>0, <1>1, TailIs DEF TypeOK, Sessions, Nobody
  <2>3. state.owner = k /\ state.cursor = Len(stored.log) /\ Proper(stored)
    BY <1>0, <1>2, <2>1, <2>2 DEF Title, Extent
  <2>4. CASE Bind(k, stored, state.cursor, state.made, SeedOf(chain[1]))
    BY <1>0, <1>1, <1>2, <1>3, <2>1, <2>3, <2>4, BindMoves
  <2>5. CASE sess' = InitFailed(k) /\ UNCHANGED <<stored, state>>
    <3>1. <<>> \in Logs /\ Len(<<>>) = 0 /\ 1 .. 0 = {} /\ stored.log \o <<>> = stored.log
      BY <1>3, EmptySeq, ConcatEmptySeq DEF Logs
    <3>2. Continues(k, <<>>) BY <3>1 DEF Continues
    <3>3. entry.phase # "reserved" /\ state.there BY <1>0, <1>1, <2>2, <2>3, FirstJob DEF JobOK, HeldIsStored
    <3> QED BY <1>1, <1>2, <2>1, <2>3, <2>5, <3>1, <3>2, <3>3 DEF Binds
  <2> QED BY <1>2, <1>6, <2>4, <2>5 DEF Suffix
<1> QED BY <1>4, <1>5, <1>6

LEMMA DrainMoves ==
  ASSUME CoordinatorInvariant, Ledger, DrainStart \/ DrainEnd
  PROVE  Idle \/ \E k \in Sessions : Acks(k) \/ GivesUp(k)
<1>0. TypeOK /\ PoolOK /\ RunningShape /\ Title /\ Found /\ Extent BY DEF CoordinatorInvariant, Ledger
<1>1. chain # <<>> /\ chain[1].kind = "drain" BY DEF DrainStart, DrainEnd, Runs
<1>2. PICK k \in Sessions : k = chain[1].who BY <1>0, <1>1, FirstDrain
<1>3. /\ Len(stored.log) \in Nat /\ stored.log \in Logs /\ sess[k].log \in Logs /\ chain[1].upto \in Nat
      /\ chain[1].upto <= Len(sess[k].log) /\ state.cursor \in Nat
  BY <1>0, <1>1, <1>2, FirstJob, LenProperties DEF TypeOK, Artifacts, Logs, SessionRecords, JobRecords, JobOK, States
<1>4. ASSUME DrainFailed(k), UNCHANGED <<stored, state>> PROVE GivesUp(k) BY <1>1, <1>2, <1>4 DEF DrainFailed, GivesUp
<1>5. CASE DrainStart
  <2>1. UNCHANGED <<stored, state>> BY <1>5 DEF DrainStart
  <2>2. CASE Fresh(chain[1]) = <<>> /\ sess' = Acked(k, chain[1].upto) /\ chain' = Tail(chain)
    <3>1. chain[1].upto <= Len(stored.log) BY <1>0, <1>1, <1>3, <2>2, FreshIs DEF Extent
    <3> QED BY <1>1, <1>2, <2>1, <2>2, <3>1 DEF Acks
  <2>3. CASE sess' = sess /\ chain' = AtStage("write", Absent) BY <1>0, <1>1, <2>1, <2>3, CarriedStage DEF Idle
  <2> QED BY <1>2, <1>4, <1>5, <2>1, <2>2, <2>3 DEF DrainStart, Acked
<1>6. CASE DrainEnd
  <2>1. Runs("drain", "write") BY <1>6 DEF DrainEnd
  <2>2. state.cursor < chain[1].upto /\ entry.phase # "reserved" BY <1>0, <2>1 DEF Found, RunningShape
  <2>3. state.owner = k /\ state.cursor = Len(stored.log)
    <3>1. Drains(k)
      <4>1. 1 \in 1 .. Len(chain) BY <1>0, <1>1, TailIs DEF TypeOK
      <4> QED BY <1>1, <1>2, <4>1 DEF Drains
    <3>2. Entitled(k) BY <1>0, <1>1, <1>2, <3>1, FirstDrain DEF Entitled, Works
    <3> QED BY <1>0, <3>2 DEF Title, Extent, Sessions, Nobody
  <2>4. PICK t : IsRest(sess[k].log, Len(stored.log), chain[1].upto, t) BY DEF IsRest
  <2>5. Fresh(chain[1]) = t BY <1>2, <2>3, <2>4 DEF Fresh, IsRest
  <2>6. Continues(k, t) /\ t # <<>> /\ chain[1].upto <= Len(stored.log) + Len(t)
    <3>1. /\ t \in Logs /\ \A i \in 1 .. Len(t) : t[i] = sess[k].log[Len(stored.log) + i]
          /\ t # <<>> => Len(stored.log) + Len(t) <= Len(sess[k].log)
          /\ t = <<>> => chain[1].upto <= Len(stored.log)
          /\ chain[1].upto <= Len(stored.log) + Len(t)
      <4>1. PICK log, n, u : log = sess[k].log /\ n = Len(stored.log) /\ u = chain[1].upto OBVIOUS
      <4>2. IsRest(log, n, u, t) /\ log \in Logs /\ n \in Nat /\ u \in Nat /\ u <= Len(log) BY <1>3, <2>4, <4>1
      <4>3. t \in Logs /\ \A i \in 1 .. Len(t) : t[i] = log[n + i] BY <4>2, RestIs
      <4>4. (t # <<>> => n + Len(t) <= Len(log)) /\ (t = <<>> => u <= n) /\ u <= n + Len(t) BY <4>2, RestIs
      <4> QED BY <4>1, <4>3, <4>4
    <3>2. t # <<>> BY <1>3, <2>2, <2>3, <3>1
    <3> QED BY <3>1, <3>2 DEF Continues
  <2>7. CASE sess' = Acked(k, chain[1].upto) /\ stored' = Written(t) /\ state' = Advanced(Len(t)) /\ chain' = Tail(chain)
    BY <1>1, <1>2, <2>2, <2>6, <2>7 DEF Acks
  <2> QED BY <1>2, <1>4, <1>6, <2>5, <2>7 DEF DrainEnd, Acked
<1> QED BY <1>5, <1>6

--------
\* The other steps.

LEMMA CoversSelf ==
  ASSUME NEW s \in Logs
  PROVE  Covers(s, s)
<1>1. Len(s) \in Nat BY LenProperties DEF Logs
<1> QED BY <1>1 DEF Covers

\* What a holder may publish begins with the stored log, and adds no closer.
LEMMA PreparedIs ==
  ASSUME CoordinatorInvariant, entry.phase = "reserved", NEW setup \in BOOLEAN, setup => Unborn # {}
  PROVE  Prepared(PreparedLog(setup))
<1>1. stored.log = Balanced(entry.src) /\ stored.log \in Logs /\ TypeOK
  BY DEF CoordinatorInvariant, HeldIsStored, TypeOK, Artifacts
<1> DEFINE s == stored.log
           n == Len(stored.log)
<1>2. s \in Seq(Int) /\ n \in Nat /\ n = Len(s) BY <1>1, LenProperties DEF Logs
<1>3. CASE ~setup
  <2>1. PreparedLog(setup) = s \o <<>> BY <1>1, <1>3 DEF PreparedLog
  <2>2. s \o <<>> = s BY <1>2, ConcatEmptySeq
  <2>3. PreparedLog(setup) = stored.log BY <2>1, <2>2
  <2>4. Below(stored.log, Len(stored.log)) BY <1>2 DEF Below
  <2> QED BY <1>1, <2>3, <2>4, CoversSelf DEF Prepared
<1>4. CASE setup
  <2>1. PICK k \in Sessions : k = Next1(Unborn) BY <1>4, Next1In
  <2>2. k \in Int /\ k # Closer BY DEF Sessions, Closer
  <2>3. PICK log : log = s \o <<k>> OBVIOUS
  <2>4. PreparedLog(setup) = log BY <1>1, <1>4, <2>1, <2>3 DEF PreparedLog
  <2>5. <<k>> \in Seq(Int) /\ Len(<<k>>) = 1 /\ <<k>>[1] = k BY <2>2
  <2> HIDE DEF s, n
  <2>6. /\ log \in Seq(Int) /\ Len(log) = n + 1
        /\ \A i \in 1 .. n + 1 : log[i] = IF i <= n THEN s[i] ELSE <<k>>[i - n]
    BY <1>2, <2>3, <2>5, ConcatProperties
  <2>7. (\A i \in 1 .. n : log[i] = s[i]) /\ log[n + 1] = k BY <1>2, <2>5, <2>6
  <2>8. Covers(log, s) BY <1>2, <2>6, <2>7 DEF Covers
  <2>9. Below(log, n) BY <1>2, <2>2, <2>6, <2>7 DEF Below
  <2> QED BY <2>4, <2>6, <2>8, <2>9 DEF Prepared, Logs, s, n
<1> QED BY <1>3, <1>4

LEMMA AttachMoves ==
  ASSUME CoordinatorInvariant, Ledger, NEW k \in Sessions, sess[k].life = "entered", Entering(k), NEW calls,
         Attach(k, sess[k].log, calls), stored' = stored
  PROVE  Attaches(k)
<1>1. PICK d \in Callers : call[d].pc = "entered" /\ call[d].awaits = k BY DEF Entering
<1>2. HoldsIn(call, sess, d) /\ TypeOK /\ PoolOK BY <1>1 DEF HoldsIn, CoordinatorInvariant
<1>3. entry.phase = "reserved" BY <1>2, HolderIs
<1>4. sess[k].log \in Logs /\ Covers(sess[k].log, stored.log) /\ Below(sess[k].log, Len(stored.log)) /\ Alone(k)
  BY <1>2 DEF Ledger, Beginnings, Begins, OldClosers, Succession, Alone, TypeOK, SessionRecords
<1> QED BY <1>3, <1>4 DEF Attaches, Prepared

LEMMA CallerMoves ==
  ASSUME CoordinatorInvariant, Ledger, NEW c \in Callers, Resume(c) \/ Settle(c) \/ Abort(c)
  PROVE  Idle \/ \E k \in Sessions : Attaches(k) \/ Starts(k) \/ Enters(k) \/ Goes(k) \/ Outs(k)
<1>0. TypeOK /\ PoolOK /\ HeldIsStored /\ NoLiveWithEntry /\ Succession /\ Beginnings /\ InitShape
  BY DEF CoordinatorInvariant, Ledger
<1>1. ASSUME UNCHANGED <<stored, state, sess>>, chain' = chain \/ \E j \in JobRecords : New(j, OfCalls) /\ chain' = Append(chain, j)
      PROVE  Idle
  BY <1>0, <1>1, CarriedSame, CarriedPush DEF Idle
<1>2. ASSUME NEW k \in Registered, NEW fresh, Inspected(c, fresh, sess[k].log, chain), UNCHANGED <<stored, state, sess>> PROVE Idle
  BY <1>0, <1>2, ViewTyped, InspectedCarried DEF Idle
<1>3. ASSUME NEW k \in Registered PROVE k \in Sessions /\ Alone(k) /\ sess[k].life \in {"entered", "live"}
  BY <1>0, <1>3 DEF Registered, Succession, Alone
<1>4. CASE MeetLive(c)
  <2>0. stored' = stored BY <1>4 DEF MeetLive
  <2>1. PICK k \in Registered :
          CASE call[c].op = "prepare" -> call' = Failed(c) /\ UNCHANGED <<state, entry, sess, chain>>
            [] call[c].op = "load" -> LoadLive(c, k)
            [] OTHER -> Inspected(c, TRUE, sess[k].log, chain) /\ UNCHANGED <<state, entry, sess>>
    BY <1>4 DEF MeetLive
  <2>2. CASE UNCHANGED <<state, sess, chain>> BY <1>1, <2>0, <2>2
  <2>3. CASE Inspected(c, TRUE, sess[k].log, chain) /\ UNCHANGED <<state, entry, sess>> BY <1>2, <2>0, <2>3
  <2>4. CASE sess[k].life # "live" /\ Entering(k) /\ Attach(k, sess[k].log, AwaitsFlush(c, k))
    BY <1>3, <2>0, <2>4, AttachMoves
  <2>5. CASE sess[k].life # "live" /\ ~Entering(k) /\ StartInit(k) /\ UNCHANGED <<state, entry>>
    <3>1. sess[k].life = "entered" /\ sess[k].log = <<>> BY <1>0, <1>3, <2>5 DEF Beginnings, Begins
    <3> QED BY <1>3, <2>0, <2>5, <3>1 DEF Starts
  <2> QED BY <2>1, <2>2, <2>3, <2>4, <2>5 DEF LoadLive
<1>5. CASE Join(c)
  <2>1. UNCHANGED <<stored, state, sess>> /\ (chain' = chain \/ chain' = Append(chain, [Job("load", c) EXCEPT !.gen = NewGen]))
    BY <1>5 DEF Join
  <2>2. PICK j \in JobRecords : j = [Job("load", c) EXCEPT !.gen = NewGen]
    BY <1>0, NewGenIs, JobTyped, ConstantsTyped DEF OfCalls
  <2>3. New(j, OfCalls) BY <2>2 DEF Job, New, OfCalls
  <2> QED BY <1>1, <2>1, <2>2, <2>3
<1>6. CASE Turn(c)
  <2>1. UNCHANGED <<stored, state, sess>> /\ (chain' = chain \/ chain' = Append(chain, [Job("commit", c) EXCEPT !.src = entry.src]))
    BY <1>6 DEF Turn
  <2>2. entry.src \in Artifacts BY <1>0 DEF TypeOK, Entries
  <2>3. PICK j \in JobRecords : j = [Job("commit", c) EXCEPT !.src = entry.src] BY <2>2, JobTyped DEF OfCalls
  <2>4. New(j, OfCalls) BY <2>3 DEF Job, New, OfCalls
  <2> QED BY <1>1, <2>1, <2>3, <2>4
<1>7. CASE Seen(c)
  <2>1. UNCHANGED <<stored, state, sess>> BY <1>7 DEF Seen
  <2>2. CASE \E k \in Registered : Inspected(c, TRUE, sess[k].log, chain) BY <1>2, <2>1, <2>2
  <2>3. CASE chain' = Append(chain, [Job("check", c) EXCEPT !.src = call[c].src])
    <3>1. call[c].src \in Artifacts BY <1>0 DEF TypeOK, CallRecords
    <3>2. PICK j \in JobRecords : j = [Job("check", c) EXCEPT !.src = call[c].src] BY <3>1, JobTyped DEF OfCalls
    <3>3. New(j, OfCalls) BY <1>7, <3>2 DEF Job, New, OfCalls, Seen
    <3> QED BY <1>1, <2>1, <2>3, <3>2, <3>3
  <2> QED BY <1>7, <2>2, <2>3 DEF Seen
<1>8. CASE Caught(c)
  <2>1. UNCHANGED <<stored, state, sess>> /\ (chain' = chain \/ \E k \in Registered : Inspected(c, TRUE, sess[k].log, chain))
    BY <1>8 DEF Caught
  <2> QED BY <1>1, <1>2, <2>1
<1>9. CASE Flushed(c) \/ Release(c) \/ Abort(c) BY <1>1, <1>9 DEF Flushed, Release, Abort
<1>10. CASE Reserved(c)
  <2>1. UNCHANGED <<stored, state>> /\ call[c].pc = "reserved" BY <1>10 DEF Reserved
  <2>2. CASE UNCHANGED <<sess, chain>> BY <1>1, <2>1, <2>2
  <2>3. ASSUME NEW k \in Registered, StartInit(k) PROVE Starts(k)
    <3>1. HoldsIn(call, sess, c) BY <2>1 DEF HoldsIn
    <3>2. entry.phase = "reserved" /\ \A d \in Callers : d # c => ~HoldsIn(call, sess, d) BY <1>0, <3>1, HolderIs
    <3>3. sess[k].life = "entered" /\ k \in Sessions /\ Alone(k) BY <1>0, <1>3, <3>2 DEF NoLiveWithEntry
    <3>4. ~Entering(k) BY <2>1, <3>2, <3>3 DEF Entering, HoldsIn
    <3>5. sess[k].log = <<>> BY <1>0, <3>3, <3>4 DEF Beginnings, Begins
    <3> QED BY <2>1, <2>3, <3>3, <3>5 DEF Starts
  <2> QED BY <1>3, <1>10, <2>2, <2>3 DEF Reserved
<1>11. CASE Rollback(c)
  <2>1. call[c].awaits \in Sessions /\ UNCHANGED <<stored, state, chain>>
    BY <1>0, <1>11, PoolIs DEF Rollback, EntersOnce
  <2> QED BY <1>11, <2>1 DEF Rollback, Goes, Outs
<1>12. ASSUME call[c].pc = "holding" PROVE entry.phase = "reserved" BY <1>0, <1>12, HolderIs DEF HoldsIn
<1>13. ASSUME NEW k \in Sessions, Registered = {} PROVE Alone(k) BY <1>13 DEF Registered, Alone
<1>14. ASSUME NEW setup \in BOOLEAN, Publish(c, setup) PROVE \E k \in Sessions : Attaches(k)
  <2>1. call[c].pc = "holding" /\ Registered = {} /\ Unborn # {} /\ stored' = stored /\ Attach(Next1(Unborn), PreparedLog(setup), Ended(c))
    BY <1>14 DEF Publish
  <2>2. PICK k \in Sessions : k = Next1(Unborn) BY <2>1, Next1In
  <2>3. sess[k].life = "unborn" /\ Alone(k) /\ entry.phase = "reserved" /\ Prepared(PreparedLog(setup))
    BY <1>12, <1>13, <2>1, <2>2, Next1In, PreparedIs
  <2> QED BY <2>1, <2>2, <2>3 DEF Attaches
<1>15. ASSUME NEW setup \in BOOLEAN, Enter(c, setup) PROVE \E k \in Sessions : Enters(k)
  <2>1. call[c].pc = "holding" /\ Registered = {} /\ Unborn # {} /\ UNCHANGED <<stored, state, chain>>
    BY <1>15 DEF Enter
  <2>2. PICK k \in Sessions : k = Next1(Unborn) BY <2>1, Next1In
  <2>3. sess[k].life = "unborn" /\ Alone(k) /\ Prepared(PreparedLog(setup))
    BY <1>12, <1>13, <2>1, <2>2, Next1In, PreparedIs
  <2>4. PICK log : log = PreparedLog(setup) OBVIOUS
  <2>5. sess' = [sess EXCEPT ![k].life = "entered", ![k].log = log] /\ call' = [call EXCEPT ![c].pc = "entered", ![c].awaits = k]
    BY <1>15, <2>2, <2>4 DEF Enter
  <2>6. /\ sess'[k].life = "entered" /\ sess'[k].log = log /\ sess'[k].init = sess[k].init /\ sess'[k].acked = sess[k].acked
        /\ Others(k)
    BY <1>0, <2>5 DEF TypeOK, SessionRecords, Others
  <2>7. call'[c].pc = "entered" /\ call'[c].awaits = k BY <1>0, <2>5 DEF TypeOK, CallRecords
  <2>8. Entering(k)' BY <2>7 DEF Entering
  <2> QED BY <2>1, <2>3, <2>4, <2>6, <2>8 DEF Enters
<1> QED BY <1>4, <1>5, <1>6, <1>7, <1>8, <1>9, <1>10, <1>11, <1>14, <1>15 DEF Resume, Settle

LEMMA StepsMoves ==
  ASSUME CoordinatorInvariant, Ledger, Steps
  PROVE  \/ Idle \/ HotReload \/ ExternalWrite
         \/ \E k \in Sessions : \/ Attaches(k) \/ Starts(k) \/ Enters(k) \/ Goes(k) \/ Outs(k)
                                \/ SessionEvent(k) \/ RetireFlushed(k) \/ DrainCall(k)
<1>0. TypeOK /\ PoolOK /\ Beginnings BY DEF CoordinatorInvariant, Ledger
<1>1. ASSUME NEW c \in Callers, Resume(c) \/ Settle(c) \/ Abort(c)
      PROVE  Idle \/ \E k \in Sessions : Attaches(k) \/ Starts(k) \/ Enters(k) \/ Goes(k) \/ Outs(k)
  BY <1>1, CallerMoves
<1>2. ASSUME NEW c \in Callers, NEW op \in Ops, Begin(c, op) PROVE Idle
  <2>1. UNCHANGED <<stored, state, sess>> /\ (chain' = chain \/ chain' = Append(chain, Job("create", c)))
    BY <1>2 DEF Begin
  <2>2. PICK j \in JobRecords : j = Job("create", c) BY JobTyped, ConstantsTyped DEF OfCalls
  <2>3. New(j, OfCalls) BY <2>2 DEF Job, New, OfCalls
  <2> QED BY <1>0, <2>1, <2>2, <2>3, CarriedSame, CarriedPush DEF Idle
<1>3. ASSUME NEW k \in Sessions, Detach(k) PROVE Outs(k) BY <1>3 DEF Detach, Outs
<1>4. ASSUME NEW k \in Sessions, Discard(k) PROVE Goes(k) BY <1>4 DEF Discard, Goes
<1>5. CASE Create
  <2>1. Registered = {} /\ Unborn # {} /\ StartInit(Next1(Unborn)) /\ UNCHANGED <<stored, state>> BY <1>5 DEF Create
  <2>2. PICK k \in Sessions : k = Next1(Unborn) BY <2>1, Next1In
  <2>3. sess[k].life = "unborn" /\ Alone(k) /\ sess[k].log = <<>>
    BY <1>0, <2>1, <2>2, Next1In DEF Beginnings, Begins, Registered, Alone
  <2>4. Starts(k) BY <2>1, <2>2, <2>3 DEF Starts
  <2> QED BY <2>4
<1>6. CASE Veto
  <2>1. Registered = {} /\ Unborn # {} /\ sess' = Life(Next1(Unborn), "entered") /\ UNCHANGED <<stored, state, chain, call>>
    BY <1>6 DEF Veto
  <2>2. PICK k \in Sessions : k = Next1(Unborn) BY <2>1, Next1In
  <2>3. sess[k].life = "unborn" /\ Alone(k) /\ sess[k].log = <<>> /\ sess' = [sess EXCEPT ![k].life = "entered"]
    BY <1>0, <2>1, <2>2, Next1In DEF Beginnings, Begins, Registered, Alone, Life
  <2>4. \A c \in Callers : call[c].pc = "entered" => call[c].awaits # k BY <1>0, <2>3, NobodyEntered
  <2>5. ~Entering(k)' BY <2>1, <2>4 DEF Entering
  <2>6. /\ sess'[k].life = "entered" /\ sess'[k].log = sess[k].log /\ sess'[k].init = sess[k].init /\ sess'[k].acked = sess[k].acked
        /\ Others(k)
    BY <1>0, <2>3 DEF TypeOK, SessionRecords, Others
  <2>7. Enters(k) BY <2>1, <2>3, <2>5, <2>6 DEF Enters
  <2> QED BY <2>7
<1>7. CASE Evict BY <1>0, <1>7, CarriedSame DEF Evict, Idle
<1> QED BY <1>1, <1>2, <1>3, <1>4, <1>5, <1>6, <1>7 DEF Steps

--------
\* Succession and title.

LEMMA LedgerMoves ==
  ASSUME CoordinatorInvariant, Ledger, [Next]_vars
  PROVE  Move
<1>1. CASE UNCHANGED vars BY <1>1, CarriedSame DEF vars, Move, Idle, CoordinatorInvariant
<1>2. CASE Chain BY <1>2, CallJobMoves, InitMoves, DrainMoves DEF Chain, Move
<1>3. CASE Steps BY <1>3, StepsMoves DEF Move
<1> QED BY <1>1, <1>2, <1>3 DEF Next

\* What a step makes of the record of one session.
LEMMA RecordsAre ==
  ASSUME TypeOK, NEW k \in Sessions
  PROVE  /\ \A life : sess' = Life(k, life) =>
              /\ sess'[k].life = life /\ sess'[k].init = sess[k].init /\ sess'[k].acked = sess[k].acked /\ sess'[k].log = sess[k].log
              /\ Others(k)
         /\ sess' = InitDone(k) \/ sess' = InitFailed(k) =>
              /\ sess'[k].life = sess[k].life /\ sess'[k].acked = sess[k].acked /\ sess'[k].log = sess[k].log
              /\ Others(k)
         /\ sess' = InitDone(k) => sess'[k].init = "ok"
         /\ sess' = InitFailed(k) => sess'[k].init = "failed"
         /\ \A u : sess' = Acked(k, u) =>
              /\ sess'[k].life = sess[k].life /\ sess'[k].init = sess[k].init /\ sess'[k].acked = u /\ sess'[k].log = sess[k].log
              /\ Others(k)
         /\ sess' = [sess EXCEPT ![k] = NoSession] =>
              sess'[k].life = "unborn" /\ sess'[k].init = "none" /\ sess'[k].acked = 0 /\ sess'[k].log = <<>> /\ Others(k)
         /\ SessionEvent(k) =>
              /\ sess'[k].life = sess[k].life /\ sess'[k].init = sess[k].init /\ sess'[k].acked = sess[k].acked
              /\ sess'[k].log = Append(sess[k].log, k) /\ Others(k)
         /\ StartInit(k) =>
              /\ sess'[k].life = "live" /\ sess'[k].init = "pending" /\ sess'[k].acked = sess[k].acked
              /\ sess'[k].log = sess[k].log /\ Others(k)
<1>0. sess \in [Sessions -> SessionRecords] /\ sess[k] \in SessionRecords BY DEF TypeOK
<1>1. /\ \A life : sess' = Life(k, life) =>
           /\ sess'[k].life = life /\ sess'[k].init = sess[k].init /\ sess'[k].acked = sess[k].acked /\ sess'[k].log = sess[k].log
           /\ Others(k)
  BY <1>0 DEF Life, SessionRecords, Others
<1>2. sess' = InitDone(k) \/ sess' = InitFailed(k) =>
        sess'[k].life = sess[k].life /\ sess'[k].acked = sess[k].acked /\ sess'[k].log = sess[k].log /\ Others(k)
  BY <1>0 DEF InitDone, InitFailed, SessionRecords, Others
<1>3. (sess' = InitDone(k) => sess'[k].init = "ok") /\ (sess' = InitFailed(k) => sess'[k].init = "failed")
  BY <1>0 DEF InitDone, InitFailed, SessionRecords
<1>4. \A u : sess' = Acked(k, u) =>
        /\ sess'[k].life = sess[k].life /\ sess'[k].init = sess[k].init /\ sess'[k].acked = u /\ sess'[k].log = sess[k].log
        /\ Others(k)
  BY <1>0 DEF Acked, SessionRecords, Others
<1>5. sess' = [sess EXCEPT ![k] = NoSession] =>
        sess'[k].life = "unborn" /\ sess'[k].init = "none" /\ sess'[k].acked = 0 /\ sess'[k].log = <<>> /\ Others(k)
  BY <1>0 DEF NoSession, Others
<1>6. SessionEvent(k) =>
        /\ sess'[k].life = sess[k].life /\ sess'[k].init = sess[k].init /\ sess'[k].acked = sess[k].acked
        /\ sess'[k].log = Append(sess[k].log, k) /\ Others(k)
  BY <1>0 DEF SessionEvent, SessionRecords, Others
<1>7. StartInit(k) =>
        /\ sess'[k].life = "live" /\ sess'[k].init = "pending" /\ sess'[k].acked = sess[k].acked
        /\ sess'[k].log = sess[k].log /\ Others(k)
  BY <1>0 DEF StartInit, SessionRecords, Others
<1> QED BY <1>1, <1>2, <1>3, <1>4, <1>5, <1>6, <1>7

LEMMA RetiredIs ==
  ASSUME TypeOK, PoolOK, RetireRun
  PROVE  \E k \in Sessions :
           /\ chain # <<>> /\ chain[1].who = k /\ sess[k].life = "cleaning" /\ chain' = Tail(chain) /\ Others(k) /\ stored' = stored
           /\ sess'[k].life = "retired"
           /\ \/ sess'[k].log = sess[k].log /\ sess'[k].acked = sess[k].acked /\ sess'[k].init = sess[k].init
              \/ sess'[k].log = <<>> /\ sess'[k].acked = 0 /\ sess'[k].init = "none"
           /\ IF state.owner = k THEN state' = NoState ELSE state' = state
           /\ raced' = raced
<1>1. chain # <<>> /\ chain[1].kind = "retire" /\ chain' = Tail(chain) /\ UNCHANGED <<stored, raced>>
  BY DEF RetireRun, Runs
<1>2. PICK k \in Sessions : k = chain[1].who BY <1>1, FirstJob DEF OfSessions
<1>3. sess[k].life = "cleaning" BY <1>1, <1>2, FirstJob DEF JobOK
<1>4. sess' = Life(k, "retired") \/ sess' = [sess EXCEPT ![k] = [NoSession EXCEPT !.life = "retired"]]
  BY <1>2 DEF RetireRun
<1>5. IF state.owner = k THEN state' = NoState ELSE state' = state BY <1>2 DEF RetireRun, OwnsState
<1>6. CASE sess' = Life(k, "retired")
  <2>1. /\ sess'[k].life = "retired" /\ sess'[k].init = sess[k].init /\ sess'[k].acked = sess[k].acked /\ sess'[k].log = sess[k].log
        /\ Others(k)
    BY <1>6, RecordsAre
  <2> QED BY <1>1, <1>2, <1>3, <1>5, <2>1
<1>7. CASE sess' = [sess EXCEPT ![k] = [NoSession EXCEPT !.life = "retired"]]
  <2>1. sess'[k] = [NoSession EXCEPT !.life = "retired"] /\ Others(k) BY <1>7 DEF TypeOK, Others
  <2>2. sess'[k].life = "retired" /\ sess'[k].log = <<>> /\ sess'[k].acked = 0 /\ sess'[k].init = "none"
    BY <2>1 DEF NoSession
  <2> QED BY <1>1, <1>2, <1>3, <1>5, <2>1, <2>2
<1> QED BY <1>4, <1>6, <1>7

LEMMA AttachedIs ==
  ASSUME CoordinatorInvariant, NEW k \in Sessions, Attaches(k)
  PROVE  \E log, j :
           /\ j \in JobRecords /\ j.kind = "suffix" /\ j.who = k
           /\ Prepared(log) /\ sess'[k].life = "live" /\ sess'[k].log = log /\ sess'[k].acked = Len(log) /\ Len(log) \in Nat
           /\ Others(k)
           /\ state.there /\ state.owner = Nobody /\ state.cursor = Len(stored.log)
           /\ state'.there /\ state'.owner = k /\ state'.cursor = state.cursor
           /\ \/ sess'[k].init = "ok" /\ chain' = chain /\ Len(log) <= Len(stored.log)
              \/ sess'[k].init = "pending" /\ chain' = Append(chain, j)
<1>0. TypeOK /\ HeldIsStored BY DEF CoordinatorInvariant
<1>1. PICK log, calls : Prepared(log) /\ Attach(k, log, calls) BY DEF Attaches
<1> DEFINE j == [Job("suffix", k) EXCEPT !.upto = Len(log), !.src = entry.src]
<1>2. /\ state' = [state EXCEPT !.owner = k]
      /\ sess' = [sess EXCEPT ![k] = [life |-> "live", log |-> log, acked |-> Len(log),
                                      init |-> IF Len(log) > state.cursor THEN "pending" ELSE "ok"]]
      /\ chain' = IF Len(log) > state.cursor THEN Append(chain, j) ELSE chain
  BY <1>1 DEF Attach
<1>3. state.there /\ state.owner = Nobody /\ state.cursor = Len(stored.log) /\ Len(log) \in Nat /\ Len(stored.log) \in Nat
  BY <1>0, <1>1, LenProperties DEF Attaches, HeldIsStored, Prepared, Logs, TypeOK, Artifacts
<1>4. state'.there /\ state'.owner = k /\ state'.cursor = state.cursor BY <1>0, <1>2, <1>3 DEF TypeOK, States
<1>5. /\ sess'[k] = [life |-> "live", log |-> log, acked |-> Len(log), init |-> IF Len(log) > state.cursor THEN "pending" ELSE "ok"]
      /\ Others(k)
  BY <1>0, <1>2 DEF TypeOK, Others
<1>6. sess'[k].life = "live" /\ sess'[k].log = log /\ sess'[k].acked = Len(log) BY <1>5
<1>7. sess'[k].init = IF Len(log) > state.cursor THEN "pending" ELSE "ok" BY <1>5
<1>8. \/ sess'[k].init = "ok" /\ chain' = chain /\ Len(log) <= Len(stored.log)
      \/ sess'[k].init = "pending" /\ chain' = Append(chain, j)
  <2>1. CASE Len(log) > state.cursor BY <1>2, <1>7, <2>1
  <2>2. CASE ~(Len(log) > state.cursor)
    <3>1. Len(log) <= Len(stored.log) BY <1>3, <2>2
    <3> QED BY <1>2, <1>7, <2>2, <3>1
  <2> QED BY <2>1, <2>2
<1>9. j \in JobRecords BY <1>0, <1>3, JobTyped, ConstantsTyped DEF OfSessions, TypeOK, Entries
<1>10. j.kind = "suffix" /\ j.who = k BY DEF Job
<1> HIDE DEF j
<1> QED BY <1>1, <1>3, <1>4, <1>5, <1>6, <1>8, <1>9, <1>10

LEMMA SuccessionStep ==
  ASSUME CoordinatorInvariant, Ledger, Move
  PROVE  Succession'
<1>0. TypeOK /\ PoolOK /\ InitShape /\ Succession BY DEF CoordinatorInvariant, Ledger
<1>1. OfCalls \cap Initial = {} /\ {"drain"} \cap Initial = {} /\ {"retire"} \cap Initial = {} BY DEF OfCalls, Initial
<1>2. CASE Idle \/ Repairs \/ Places \/ Appends \/ Reclaims
  <2>1. sess' = sess /\ Carried(OfCalls) BY <1>2 DEF Idle, Repairs, Places, Appends, Reclaims
  <2> QED BY <1>0, <1>1, <2>1, SuccessionKept
<1>3. CASE RetireRun
  <2>1. PICK k \in Sessions : chain # <<>> /\ chain' = Tail(chain) /\ Others(k) /\ sess'[k].life = "retired"
    BY <1>0, <1>3, RetiredIs
  <2> QED BY <1>0, <1>1, <2>1, CarriedTail, SuccessionKept DEF Others
<1>4. CASE ExternalWrite BY <1>0, <1>1, <1>4, CarriedSame, SuccessionKept DEF ExternalWrite
<1>5. CASE HotReload
  <2>1. \A k \in Sessions : sess'[k].life = "live" => sess'[k].init = "pending" BY <1>0, <1>5, ReloadedIs
  <2>2. \A k \in Sessions : sess'[k].life \in {"entered", "live"} => sess[k].life \in {"entered", "live"}
    BY <1>0, <1>5, ReloadedIs
  <2>3. chain' = <<>> \/ \E j : chain' = <<j>> BY Zenon, <1>5 DEF HotReload
  <2>4. Len(chain') <= 1 /\ Len(chain') \in Nat
    <3>1. ASSUME chain' = <<>> PROVE Len(chain') = 0 BY <3>1
    <3>2. ASSUME NEW j, chain' = <<j>> PROVE Len(chain') = 1 BY <3>2
    <3>3. Len(chain') = 0 \/ Len(chain') = 1 BY <2>3, <3>1, <3>2, Zenon
    <3>4. 0 <= 1 /\ 1 <= 1 /\ 0 \in Nat /\ 1 \in Nat OBVIOUS
    <3> QED BY <3>3, <3>4, Zenon
  <2> QED BY <1>0, <2>1, <2>2, <2>4 DEF Succession
<1>6. ASSUME NEW k \in Sessions, Acks(k) \/ GivesUp(k) PROVE Succession'
  <2>1. chain # <<>> /\ chain' = Tail(chain) BY <1>6 DEF Acks, GivesUp
  <2>2. \/ sess' = sess
        \/ sess' = Acked(k, chain[1].upto)
        \/ sess' = Life(k, "stuck")
    BY <1>6 DEF Acks, GivesUp
  <2>3. \A l \in Sessions : (sess'[l].life = sess[l].life /\ sess'[l].init = sess[l].init) \/ sess'[l].life = "stuck"
    BY <1>0, <2>2, RecordsAre DEF Others
  <2> QED BY <1>0, <1>1, <2>1, <2>3, CarriedTail, SuccessionKept
<1>7. ASSUME NEW k \in Sessions, Goes(k) \/ Outs(k) \/ SessionEvent(k) PROVE Succession'
  <2>1. chain' = chain BY <1>7 DEF Goes, Outs, SessionEvent
  <2>2. \A l \in Sessions : (sess'[l].life = sess[l].life /\ sess'[l].init = sess[l].init) \/ sess'[l].life \in {"unborn", "flushing"}
    BY <1>0, <1>7, RecordsAre DEF Goes, Outs, Others
  <2> QED BY <1>0, <1>1, <2>1, <2>2, CarriedSame, SuccessionKept
<1>8. ASSUME NEW k \in Sessions, RetireFlushed(k) PROVE Succession'
  <2>1. chain' = chain \/ chain' = Append(chain, Job("retire", k)) BY <1>8 DEF RetireFlushed
  <2>2. PICK j \in JobRecords : j = Job("retire", k) BY JobTyped, ConstantsTyped DEF OfSessions
  <2>3. New(j, {"retire"}) BY <2>2 DEF Job, New
  <2>4. Carried({"retire"}) BY <1>0, <2>1, <2>2, <2>3, CarriedSame, CarriedPush
  <2>5. sess' = Life(k, "stuck") \/ sess' = Life(k, "cleaning") BY <1>8 DEF RetireFlushed
  <2>6. \A l \in Sessions : (sess'[l].life = sess[l].life /\ sess'[l].init = sess[l].init) \/ sess'[l].life \in {"stuck", "cleaning"}
    BY <1>0, <2>5, RecordsAre DEF Others
  <2> QED BY <1>0, <1>1, <2>4, <2>6, SuccessionKept
<1>9. ASSUME NEW k \in Sessions, DrainCall(k) PROVE Succession'
  <2>1. sess' = sess /\ chain' = Append(chain, [Job("drain", k) EXCEPT !.upto = Len(sess[k].log)])
    BY <1>9 DEF DrainCall
  <2>2. Len(sess[k].log) \in Nat BY <1>0, LenProperties DEF TypeOK, SessionRecords, Logs
  <2>3. PICK j \in JobRecords : j = [Job("drain", k) EXCEPT !.upto = Len(sess[k].log)]
    BY <2>2, JobTyped, ConstantsTyped DEF OfSessions
  <2>4. New(j, {"drain"}) BY <2>3 DEF Job, New
  <2> QED BY <1>0, <1>1, <2>1, <2>3, <2>4, CarriedPush, SuccessionKept
<1>10. ASSUME NEW k \in Sessions, Binds(k) \/ InitFails(k) PROVE Succession'
  <2>1. chain # <<>> /\ chain[1].kind \in Initial /\ chain[1].who = k /\ chain' = Tail(chain)
    BY <1>10 DEF Binds, InitFails, Initial
  <2>2. sess' = InitDone(k) \/ sess' = InitFailed(k) BY <1>10 DEF Binds, InitFails
  <2>3. sess'[k].life = sess[k].life /\ Others(k) BY <1>0, <2>2, RecordsAre
  <2>4. /\ Len(chain) \in Nat \ {0} /\ Len(chain') = Len(chain) - 1
        /\ \A i \in 1 .. Len(chain) - 1 : chain'[i] = chain[i + 1]
    BY <1>0, <2>1, TailIs DEF TypeOK
  <2>5. \A l \in Sessions : sess'[l].life = sess[l].life BY <2>3 DEF Others
  <2>6. \A i \in 1 .. Len(chain') : /\ i + 1 \in 1 .. Len(chain) /\ 1 < i + 1 /\ 1 \in 1 .. Len(chain) /\ chain'[i] = chain[i + 1]
                                    /\ chain'[i].kind \in Initial => chain'[i].who \in Sessions
    BY <1>0, <2>4, InitialIs
  <2>7. ASSUME NEW i \in 1 .. Len(chain'), NEW j \in 1 .. Len(chain'), i < j, chain'[i].kind \in Initial, chain'[j].kind \in Initial
        PROVE  sess'[chain'[i].who].life # "live" /\ chain'[j].kind = "init"
    <3>1. i + 1 < j + 1 BY <2>7
    <3>2. sess[chain[i + 1].who].life # "live" /\ chain[j + 1].kind = "init" BY <1>0, <2>6, <2>7, <3>1 DEF Succession
    <3> QED BY <2>5, <2>6, <2>7, <3>2
  <2>8. ASSUME NEW l \in Sessions, NEW i \in 1 .. Len(chain'), sess'[l].life = "live", sess'[l].init # "pending"
        PROVE  chain'[i].kind \notin Initial
    <3>1. CASE l = k BY <1>0, <2>1, <2>5, <2>6, <2>8, <3>1 DEF Succession
    <3>2. CASE l # k BY <1>0, <2>3, <2>6, <2>8, <3>2 DEF Succession, Others
    <3> QED BY <3>1, <3>2
  <2> QED BY <1>0, <2>5, <2>7, <2>8 DEF Succession
<1>11. ASSUME NEW k \in Sessions, Enters(k) PROVE Succession'
  <2>1. chain' = chain /\ Others(k) /\ sess'[k].life = "entered" /\ Alone(k) BY <1>11 DEF Enters
  <2>2. \A l \in Sessions : sess'[l].life \in {"entered", "live"} => l = k BY <2>1 DEF Others, Alone
  <2>3. \A l \in Sessions : sess'[l].life # "live" BY <2>1, <2>2
  <2> QED BY <1>0, <2>1, <2>2, <2>3, InitialIs DEF Succession
<1>12. ASSUME NEW k \in Sessions, Starts(k) PROVE Succession'
  <2>1. Others(k) /\ sess'[k].life = "live" /\ sess'[k].init = "pending" /\ Alone(k) /\ sess[k].init = "none"
    BY <1>0, <1>12, RecordsAre DEF Starts, InitShape
  <2>2. \A l \in Sessions : sess'[l].life \in {"entered", "live"} => l = k BY <2>1 DEF Others, Alone
  <2>3. Len(sess[k].log) \in Nat BY <1>0, LenProperties DEF TypeOK, SessionRecords, Logs
  <2>4. PICK j \in JobRecords : j = [Job("init", k) EXCEPT !.upto = Len(sess[k].log)]
    BY <2>3, JobTyped, ConstantsTyped DEF OfSessions
  <2>5. j.kind = "init" /\ j.who = k /\ chain' = Append(chain, j) BY <1>12, <2>4 DEF Job, Starts, StartInit
  <2>6. /\ Len(chain) \in Nat /\ Len(chain') = Len(chain) + 1 /\ chain'[Len(chain) + 1] = j
        /\ \A i \in 1 .. Len(chain) : chain'[i] = chain[i]
    BY <1>0, <2>5, AppendIs DEF TypeOK
  <2>7. \A i \in 1 .. Len(chain) : chain[i].kind \in Initial => chain[i].who \in Sessions /\ chain[i].who # k
    BY <1>0, <2>1, InitialIs
  <2>8. ASSUME NEW i \in 1 .. Len(chain'), NEW m \in 1 .. Len(chain'), i < m, chain'[i].kind \in Initial, chain'[m].kind \in Initial
        PROVE  sess'[chain'[i].who].life # "live" /\ chain'[m].kind = "init"
    <3>1. i \in 1 .. Len(chain) /\ (m \in 1 .. Len(chain) \/ m = Len(chain) + 1) BY <2>6, <2>8
    <3>2. sess'[chain'[i].who].life # "live" BY <2>2, <2>6, <2>7, <2>8, <3>1
    <3>3. chain'[m].kind = "init" BY <1>0, <2>5, <2>6, <2>8, <3>1 DEF Succession
    <3> QED BY <3>2, <3>3
  <2> QED BY <2>1, <2>2, <2>8 DEF Succession
<1>13. ASSUME NEW k \in Sessions, Attaches(k) PROVE Succession'
  <2>1. PICK j \in JobRecords :
          /\ sess'[k].life = "live" /\ Others(k)
          /\ \/ sess'[k].init = "ok" /\ chain' = chain
             \/ sess'[k].init = "pending" /\ chain' = Append(chain, j)
    BY <1>13, AttachedIs
  <2>2. Alone(k) /\ entry.phase = "reserved" BY <1>13 DEF Attaches
  <2>3. \A l \in Sessions : sess'[l].life \in {"entered", "live"} => l = k BY <2>1, <2>2 DEF Others, Alone
  <2>4. \A i \in 1 .. Len(chain) : chain[i].kind \notin Initial BY <1>0, <2>2, InitialIs
  <2>5. CASE sess'[k].init = "ok" /\ chain' = chain BY <2>3, <2>4, <2>5 DEF Succession
  <2>6. CASE sess'[k].init = "pending" /\ chain' = Append(chain, j)
    <3>2. /\ Len(chain) \in Nat /\ Len(chain') = Len(chain) + 1
          /\ \A i \in 1 .. Len(chain) : chain'[i] = chain[i]
      BY <1>0, <2>6, AppendIs DEF TypeOK
    <3>3. \A i, m \in 1 .. Len(chain') : i < m => chain'[i].kind \notin Initial BY <2>4, <3>2
    <3> QED BY <2>3, <2>6, <3>3 DEF Succession
  <2> QED BY <2>1, <2>5, <2>6
<1> QED BY <1>2, <1>3, <1>4, <1>5, <1>6, <1>7, <1>8, <1>9, <1>10, <1>11, <1>12, <1>13 DEF Move

LEMMA TitleStep ==
  ASSUME CoordinatorInvariant, Ledger, Move
  PROVE  Title'
<1>0. TypeOK /\ PoolOK /\ InitShape /\ Succession /\ Title BY DEF CoordinatorInvariant, Ledger
<1>1. /\ "suffix" \notin OfCalls /\ "drain" \notin OfCalls /\ \A k \in Sessions : k # Nobody
      /\ Len(chain) \in Nat /\ (chain # <<>> => 1 \in 1 .. Len(chain))
  BY <1>0, TailIs, LenProperties DEF OfCalls, Sessions, Nobody, TypeOK
<1>2. ASSUME sess' = sess, Carried(OfCalls), state'.owner = state.owner \/ state.owner = Nobody PROVE Title'
  <2>1. \A k \in Sessions : Entitled(k)' => Entitled(k) BY <1>1, <1>2, EntitledKept
  <2> QED BY <1>0, <1>1, <1>2, <2>1, TitleKept
<1>3. CASE Idle \/ Repairs \/ Places \/ Appends
  <2>1. sess' = sess /\ Carried(OfCalls) /\ (state'.owner = state.owner \/ state.owner = Nobody)
    <3>1. CASE Appends
      <4>1. state \in States /\ 1 \in Nat BY <1>0 DEF TypeOK
      <4> QED BY <3>1, <4>1, AdvancedIs DEF Appends
    <3> QED BY <1>3, <3>1 DEF Idle, Repairs, Places
  <2> QED BY <1>2, <2>1
<1>4. CASE ExternalWrite
  <2>1. sess' = sess /\ state' = state /\ chain' = chain BY <1>4 DEF ExternalWrite
  <2> QED
    BY <1>0, <1>2, <2>1, CarriedSame
\* The sessions but k are as before, and k is entitled after the step only if it was before.
<1>5. ASSUME NEW k \in Sessions, NEW K, Carried(K), "suffix" \notin K, "drain" \notin K, Others(k), state'.owner = state.owner,
             Entitled(k)' => Entitled(k) \/ state'.owner = k
      PROVE  Title'
  <2>1. ASSUME NEW l \in Sessions, l # state'.owner, Entitled(l)' PROVE Entitled(l)
    <3>1. CASE l = k BY <1>5, <2>1, <3>1
    <3>2. CASE l # k BY <1>5, <2>1, <3>2, EntitledKept DEF Others
    <3> QED BY <3>1, <3>2
  <2> QED BY <1>0, <1>5, <2>1, TitleKept
<1>6. ASSUME NEW k \in Sessions, Acks(k) PROVE Title'
  <2>1. chain # <<>> /\ chain[1].kind = "drain" /\ chain[1].who = k /\ chain' = Tail(chain) /\ sess' = Acked(k, chain[1].upto)
    BY <1>6 DEF Acks
  <2>2. state'.owner = state.owner
    <3>1. CASE state' = state BY <3>1
    <3>2. ASSUME NEW t, t \in Logs, state' = Advanced(Len(t)) PROVE state'.owner = state.owner
      <4>1. state \in States /\ Len(t) \in Nat BY <1>0, <3>2, LenProperties DEF TypeOK, Logs
      <4> QED BY <3>2, <4>1, AdvancedIs
    <3> QED BY <1>6, <3>1, <3>2 DEF Acks, Continues
  <2>3. Entitled(k) BY <1>0, <1>1, <2>1, FirstDrain DEF Entitled, Works, Drains
  <2>4. Others(k) /\ Carried({}) BY <1>0, <2>1, RecordsAre, CarriedTail
  <2> QED BY <1>5, <2>2, <2>3, <2>4
<1>7. ASSUME NEW k \in Sessions, GivesUp(k) PROVE Title'
  <2>1. chain # <<>> /\ chain' = Tail(chain) /\ state' = state /\ (sess' = sess \/ sess' = Life(k, "stuck"))
    BY <1>7 DEF GivesUp
  <2>2. Carried({}) BY <1>0, <2>1, CarriedTail
  <2>3. CASE sess' = sess BY <1>5, <2>1, <2>2, <2>3, EntitledKept DEF Others
  <2>4. CASE sess' = Life(k, "stuck")
    <3>1. sess'[k].life = "stuck" /\ Others(k) BY <1>0, <2>4, RecordsAre
    <3> QED BY <1>5, <2>1, <2>2, <3>1 DEF Entitled
  <2> QED BY <2>1, <2>3, <2>4
<1>8. ASSUME NEW k \in Sessions, Goes(k) \/ Enters(k) \/ Outs(k) \/ SessionEvent(k) PROVE Title'
  <2>1. chain' = chain /\ state' = state BY <1>8 DEF Goes, Enters, Outs, SessionEvent
  <2>2. Carried({}) BY <1>0, <2>1, CarriedSame
  <2>3. Others(k) /\ (Entitled(k)' => Entitled(k))
    <3>1. CASE Goes(k) \/ Enters(k)
      <4>1. Others(k) /\ sess'[k].life \in {"unborn", "entered"} BY <1>0, <3>1, RecordsAre DEF Goes, Enters
      <4> QED BY <4>1 DEF Entitled
    <3>2. CASE Outs(k) \/ SessionEvent(k)
      <4>1. Others(k) /\ sess'[k].init = sess[k].init /\ sess[k].life = "live"
        BY <1>0, <3>2, RecordsAre DEF Outs, SessionEvent
      <4> QED BY <4>1 DEF Entitled
    <3> QED BY <1>8, <3>1, <3>2
  <2> QED BY <1>5, <2>1, <2>2, <2>3
<1>9. ASSUME NEW k \in Sessions, RetireFlushed(k) PROVE Title'
  <2>1. /\ chain' = chain \/ chain' = Append(chain, Job("retire", k))
        /\ sess' = Life(k, "stuck") \/ sess' = Life(k, "cleaning")
        /\ state' = state
    BY <1>9 DEF RetireFlushed
  <2>2. PICK j \in JobRecords : j = Job("retire", k) BY JobTyped, ConstantsTyped DEF OfSessions
  <2>3. New(j, {"retire"}) BY <2>2 DEF Job, New
  <2>4. Carried({"retire"}) BY <1>0, <2>1, <2>2, <2>3, CarriedSame, CarriedPush
  <2>5. sess'[k].life \in {"stuck", "cleaning"} /\ Others(k) BY <1>0, <2>1, RecordsAre
  <2>6. ~Entitled(k)' BY <2>5 DEF Entitled
  <2> QED BY <1>5, <2>1, <2>4, <2>5, <2>6
<1>10. ASSUME NEW k \in Sessions, InitFails(k) PROVE Title'
  <2>1. chain # <<>> /\ chain' = Tail(chain) /\ state' = state /\ sess' = InitFailed(k) BY <1>10 DEF InitFails
  <2>2. sess'[k].init = "failed" /\ Others(k) /\ Carried({}) BY <1>0, <2>1, RecordsAre, CarriedTail
  <2>3. ~Entitled(k)' BY <2>2 DEF Entitled
  <2> QED BY <1>5, <2>1, <2>2, <2>3
<1>11. ASSUME NEW k \in Sessions, Binds(k) PROVE Title'
  <2>1. /\ chain # <<>> /\ chain' = Tail(chain) /\ state'.owner = k /\ state.owner \in {Nobody, k}
        /\ sess' = InitDone(k) \/ sess' = InitFailed(k)
    BY <1>11 DEF Binds
  <2>2. Others(k) /\ Carried({}) BY <1>0, <2>1, RecordsAre, CarriedTail
  <2>3. \A l \in Sessions : l # k /\ Entitled(l)' => Entitled(l) BY <2>2, EntitledKept DEF Others
  <2> QED BY <1>0, <2>1, <2>2, <2>3, TitleKept
<1>12. ASSUME NEW k \in Sessions, Starts(k) PROVE Title'
  <2>1. StartInit(k) /\ state' = state BY <1>12 DEF Starts
  <2>2. Len(sess[k].log) \in Nat BY <1>0, LenProperties DEF TypeOK, SessionRecords, Logs
  <2>3. PICK j \in JobRecords : j = [Job("init", k) EXCEPT !.upto = Len(sess[k].log)]
    BY <2>2, JobTyped, ConstantsTyped DEF OfSessions
  <2>4. New(j, {"init"}) /\ chain' = Append(chain, j) BY <2>1, <2>3 DEF Job, New, StartInit
  <2>5. Carried({"init"}) BY <1>0, <2>4, CarriedPush
  <2>6. Others(k) /\ sess'[k].init = "pending" BY <1>0, <2>1, RecordsAre
  <2>7. ~Entitled(k)' BY <2>6 DEF Entitled
  <2> QED BY <1>5, <2>1, <2>5, <2>6, <2>7
<1>13. ASSUME NEW k \in Sessions, DrainCall(k) PROVE Title'
  <2>1. /\ sess' = sess /\ state' = state /\ sess[k].acked < Len(sess[k].log)
        /\ chain' = Append(chain, [Job("drain", k) EXCEPT !.upto = Len(sess[k].log)])
    BY <1>13 DEF DrainCall
  <2>2. Len(sess[k].log) \in Nat BY <1>0, LenProperties DEF TypeOK, SessionRecords, Logs
  <2>3. PICK j \in JobRecords : j = [Job("drain", k) EXCEPT !.upto = Len(sess[k].log)]
    BY <2>2, JobTyped, ConstantsTyped DEF OfSessions
  <2>4. New(j, {"drain"}) /\ j.kind = "drain" /\ j.who = k BY <2>3 DEF Job, New
  <2>5. Carried({"drain"}) BY <1>0, <2>1, <2>3, <2>4, CarriedPush
  <2>6. /\ Len(chain') = Len(chain) + 1 /\ chain'[Len(chain) + 1] = j
        /\ \A i \in 1 .. Len(chain) : chain'[i] = chain[i]
    BY <1>0, <2>1, <2>3, AppendIs DEF TypeOK
  <2>7. ASSUME NEW l \in Sessions, Entitled(l)' PROVE Entitled(l)
    <3>1. CASE l = k BY <2>1, <2>7, <3>1 DEF Entitled, Works
    <3>2. ASSUME l # k, Drains(l)' PROVE Drains(l)
      <4>1. PICK i \in 1 .. Len(chain') : chain'[i].kind = "drain" /\ chain'[i].who = l BY <3>2 DEF Drains
      <4>2. i \in 1 .. Len(chain) BY <1>1, <2>4, <2>6, <3>2, <4>1
      <4> QED BY <2>6, <4>1, <4>2 DEF Drains
    <3> QED BY <2>1, <2>7, <3>1, <3>2 DEF Entitled, Works
  <2> QED BY <1>0, <2>1, <2>5, <2>7, TitleKept
<1>14. ASSUME NEW k \in Sessions, Attaches(k) PROVE Title'
  <2>1. PICK j \in JobRecords :
          /\ j.kind = "suffix" /\ j.who = k /\ Others(k) /\ state.owner = Nobody /\ state'.owner = k
          /\ chain' = chain \/ chain' = Append(chain, j)
    BY <1>14, AttachedIs
  <2>4. Carried({"suffix"}) BY <1>0, <2>1, CarriedSame, CarriedPush DEF New
  <2>5. \A l \in Sessions : l # k => ~Entitled(l)'
    <3>1. \A l \in Sessions : ~Entitled(l) BY <1>0, <1>1, <2>1 DEF Title
    <3> QED BY <2>1, <2>4, <3>1, EntitledKept DEF Others
  <2>6. \A i \in 1 .. Len(chain) : chain[i].kind # "suffix" BY <1>0, <1>14, InitialIs DEF Attaches, Initial
  <2>7. CASE chain' = chain BY <2>1, <2>5, <2>6, <2>7 DEF Title
  <2>8. CASE chain' = Append(chain, j)
    <3>1. /\ Len(chain') = Len(chain) + 1 /\ chain'[Len(chain) + 1] = j
          /\ \A i \in 1 .. Len(chain) : chain'[i] = chain[i]
      BY <1>0, <2>8, AppendIs DEF TypeOK
    <3>2. ASSUME NEW i \in 1 .. Len(chain'), chain'[i].kind = "suffix" PROVE chain'[i].who = k
      <4>1. i = Len(chain) + 1 BY <1>1, <2>6, <3>1, <3>2
      <4> QED BY <2>1, <3>1, <4>1
    <3> QED BY <2>1, <2>5, <3>2 DEF Title
  <2> QED
    BY <2>1, <2>7, <2>8
\* The owner that is displaced has no work, and the running initialization is a session's
\* after it: no suffix is queued.
<1>15. CASE Reclaims
  <2>1. /\ chain # <<>> /\ chain[1].kind = "init" /\ state.owner # Nobody /\ ~Works(state.owner)
        /\ sess' = sess /\ Carried(OfCalls)
    BY <1>15 DEF Reclaims
  <2>2. \A k \in Sessions : ~Entitled(k)
    <3> TAKE k \in Sessions
    <3>1. CASE k # state.owner BY <1>0, <3>1 DEF Title
    <3>2. CASE k = state.owner
      <4>1. sess[k].init # "pending" => sess[k].life # "live" BY <1>0, <1>1, <2>1 DEF Succession, Initial
      <4> QED BY <2>1, <3>2, <4>1 DEF Entitled
    <3> QED BY <3>1, <3>2
  <2>3. \A k \in Sessions : ~Entitled(k)' BY <1>1, <2>1, <2>2, EntitledKept
  <2>4. \A i \in 1 .. Len(chain) : chain[i].kind # "suffix"
    <3> TAKE i \in 1 .. Len(chain)
    <3>1. CASE i = 1 BY <2>1, <3>1
    <3>2. CASE 1 < i BY <1>0, <1>1, <2>1, <3>2 DEF Succession, Initial
    <3> QED BY <1>1, <3>1, <3>2
  <2>5. \A i \in 1 .. Len(chain') : chain'[i].kind # "suffix" BY <1>1, <2>1, <2>4 DEF Carried, CarriedBy, Same, New
  <2> QED BY <2>3, <2>5 DEF Title
<1>16. CASE RetireRun
  <2>1. PICK k \in Sessions :
           /\ chain # <<>> /\ sess[k].life = "cleaning" /\ chain' = Tail(chain) /\ Others(k)
           /\ sess'[k].life = "retired"
           /\ IF state.owner = k THEN state' = NoState ELSE state' = state
    BY <1>0, <1>16, RetiredIs
  <2>2. Carried({}) /\ ~Entitled(k)' BY <1>0, <2>1, CarriedTail DEF Entitled
  <2>3. CASE state' = state BY <1>5, <2>1, <2>2, <2>3
  <2>4. CASE state.owner = k
    <3>1. \A l \in Sessions : l # k => ~Entitled(l) BY <1>0, <2>4 DEF Title
    <3>2. \A l \in Sessions : ~Entitled(l)' BY <2>1, <2>2, <3>1, EntitledKept DEF Others
    <3>3. \A i \in 1 .. Len(chain) : chain[i].kind # "suffix"
      BY <1>0, <2>1, <2>4, InitialIs DEF Title, InitShape, Initial
    <3>4. \A i \in 1 .. Len(chain') : chain'[i].kind # "suffix" BY <2>2, <3>3 DEF Carried, CarriedBy, Same, New
    <3> QED BY <3>2, <3>4 DEF Title
  <2> QED BY <2>1, <2>3, <2>4
<1>17. CASE HotReload
  <2>1. \A k \in Sessions : (sess'[k].life = "live" => sess'[k].init = "pending") /\ sess'[k].life # "flushing"
    BY Zenon, <1>0, <1>17, ReloadedIs DEF HotReload
  <2>2. \A k \in Sessions : ~Entitled(k)' BY <2>1 DEF Entitled
  <2>3. chain' = <<>> \/ \E k \in Sessions : chain' = <<[Job("init", k) EXCEPT !.upto = Len(sess[k].log)]>>
    <3>1. Registered \subseteq Sessions BY DEF Registered
    <3> QED BY Zenon, <1>17, <3>1, LeastIn DEF HotReload
  <2>4. \A i \in 1 .. Len(chain') : chain'[i].kind = "init"
    <3>1. CASE chain' = <<>> BY <3>1
    <3>2. ASSUME NEW k \in Sessions, chain' = <<[Job("init", k) EXCEPT !.upto = Len(sess[k].log)]>>
          PROVE  Len(chain') = 1 /\ chain'[1].kind = "init"
      BY <3>2 DEF Job
    <3> QED BY <2>3, <3>1, <3>2
  <2> QED BY <2>2, <2>4 DEF Title
<1> QED BY <1>3, <1>4, <1>6, <1>7, <1>8, <1>9, <1>10, <1>11, <1>12, <1>13, <1>14, <1>15, <1>16, <1>17 DEF Move

--------
\* The log only grows, by what one of its writers adds.

LEMMA LongerIs ==
  ASSUME NEW s \in Logs, NEW t \in Logs, NEW r, r = s \o t
  PROVE  /\ Len(s) \in Nat /\ Len(t) \in Nat /\ Len(r) = Len(s) + Len(t) /\ r \in Logs
         /\ \A i \in 1 .. Len(s) : r[i] = s[i]
         /\ \A i \in 1 .. Len(t) : r[Len(s) + i] = t[i]
         /\ Covers(r, s)
<1>1. /\ Len(s) \in Nat /\ Len(t) \in Nat /\ Len(r) = Len(s) + Len(t) /\ r \in Logs
      /\ \A i \in 1 .. Len(s) + Len(t) : r[i] = IF i <= Len(s) THEN s[i] ELSE t[i - Len(s)]
  BY ConcatProperties, LenProperties DEF Logs
<1>2. \A i \in 1 .. Len(s) : r[i] = s[i] BY <1>1
<1>3. ASSUME NEW i \in 1 .. Len(t) PROVE r[Len(s) + i] = t[i]
  <2>1. Len(s) + i \in 1 .. Len(s) + Len(t) /\ ~(Len(s) + i <= Len(s)) /\ Len(s) + i - Len(s) = i BY <1>1
  <2> QED BY <1>1, <2>1
<1> QED BY <1>1, <1>2, <1>3 DEF Covers

LEMMA BalancedIs ==
  ASSUME TypeOK, Extent
  PROVE  /\ Repaired(stored).log = stored.log \o Closers(stored) /\ Closers(stored) \in Logs
         /\ <<Foreign>> \in Logs /\ Closers(stored) \o <<Foreign>> \in Logs
         /\ Append(Balanced(stored), Foreign) = stored.log \o (Closers(stored) \o <<Foreign>>)
<1>1. stored \in Artifacts /\ stored.log \in Seq(Int) /\ Foreign \in Int BY DEF TypeOK, Artifacts, Logs, Foreign
<1>2. Closers(stored) \in Seq(Int) /\ Balanced(stored) \in Seq(Int) /\ <<Foreign>> \in Seq(Int)
  BY <1>1, BalancedTyped DEF Logs
<1>3. Append(Balanced(stored), Foreign) = (stored.log \o Closers(stored)) \o <<Foreign>>
  BY <1>1, <1>2, AppendIsConcat DEF Balanced
<1>4. (stored.log \o Closers(stored)) \o <<Foreign>> = stored.log \o (Closers(stored) \o <<Foreign>>)
  <2>1. ASSUME NEW s \in Seq(Int), NEW t \in Seq(Int), NEW u \in Seq(Int)
        PROVE  (s \o t) \o u = s \o (t \o u)
    BY ConcatAssociative, SMTT(40)
  <2> QED BY <1>1, <1>2, <2>1, Zenon
<1>5. Closers(stored) \o <<Foreign>> \in Seq(Int) BY <1>2, ConcatProperties
<1>6. Repaired(stored).log = stored.log \o Closers(stored) BY DEF Repaired, Balanced
<1> QED BY <1>2, <1>3, <1>4, <1>5, <1>6 DEF Logs

LEMMA GrowthIs ==
  ASSUME CoordinatorInvariant, Ledger, Move
  PROVE  \E t : Adds(t)
<1>0. TypeOK /\ PoolOK /\ Extent /\ stored.log \in Logs /\ stored.log \in Seq(Int)
  BY DEF CoordinatorInvariant, Ledger, TypeOK, Artifacts, Logs
<1>1. ASSUME stored' = stored PROVE Adds(<<>>)
  <2>1. <<>> \in Logs /\ stored.log = stored.log \o <<>> BY <1>0, EmptySeq, ConcatEmptySeq DEF Logs
  <2> QED BY <1>1, <2>1 DEF Adds
<1>2. CASE \/ Idle \/ Places \/ Reclaims \/ RetireRun \/ HotReload
           \/ \E k \in Sessions :
                \/ InitFails(k) \/ GivesUp(k) \/ Attaches(k) \/ Starts(k) \/ Enters(k) \/ Goes(k) \/ Outs(k)
                \/ SessionEvent(k) \/ RetireFlushed(k) \/ DrainCall(k)
  <2>1. stored' = stored
    BY Zenon, <1>2 DEF Idle, Places, Reclaims, RetireRun, HotReload, InitFails, GivesUp, Attaches, Starts, Enters, Goes, Outs,
       SessionEvent, RetireFlushed, DrainCall
  <2> QED BY <1>1, <2>1
<1>3. CASE Repairs
  <2>1. Adds(Closers(stored)) BY <1>0, <1>3, BalancedIs DEF Repairs, Adds
  <2> QED BY <2>1
<1>4. CASE Appends
  <2>1. <<Cold>> \in Logs BY DEF Logs, Cold
  <2>2. stored'.log = stored.log \o <<Cold>> /\ entry.phase # "reserved" BY <1>4 DEF Appends, Written
  <2>3. Adds(<<Cold>>) BY <2>1, <2>2 DEF Adds
  <2> QED BY <2>3
<1>5. CASE ExternalWrite
  <2>1. stored'.log = Append(Balanced(stored), Foreign) /\ entry.phase # "reserved" BY <1>5 DEF ExternalWrite
  <2>2. Adds(Closers(stored) \o <<Foreign>>) BY <1>0, <2>1, BalancedIs DEF Adds
  <2> QED BY <2>2
<1>6. ASSUME NEW k \in Sessions, Binds(k) PROVE \E t : Adds(t) BY <1>6 DEF Binds, Adds, Continues
<1>7. ASSUME NEW k \in Sessions, Acks(k) PROVE \E t : Adds(t)
  <2>1. ASSUME NEW t, Continues(k, t), stored' = Written(t), entry.phase # "reserved" PROVE Adds(t)
    BY <2>1 DEF Adds, Continues, Written
  <2> QED BY <1>1, <1>7, <2>1 DEF Acks
<1> QED BY <1>2, <1>3, <1>4, <1>5, <1>6, <1>7 DEF Move

\* No writer adds a closer that has no open turn before it.
LEMMA ClosedStep ==
  ASSUME CoordinatorInvariant, Ledger, ClosedOnce, Move
  PROVE  ClosedOnce'
<1>0. TypeOK /\ stored.log \in Logs /\ OldClosers BY DEF CoordinatorInvariant, Ledger, TypeOK, Artifacts
<1>1. PICK t : Adds(t) BY GrowthIs
<1>2. PICK s : s = stored.log OBVIOUS
<1>3. PICK r : r = stored'.log OBVIOUS
<1>4. s \in Logs /\ t \in Logs /\ r = s \o t BY <1>0, <1>1, <1>2, <1>3 DEF Adds
<1>5. /\ Len(s) \in Nat /\ Len(t) \in Nat /\ Len(r) = Len(s) + Len(t)
      /\ \A i \in 1 .. Len(s) : r[i] = s[i]
      /\ \A i \in 1 .. Len(t) : r[Len(s) + i] = t[i]
  BY <1>4, LongerIs
<1>6. ASSUME NEW i \in 1 .. Len(t), t[i] = Closer PROVE i = 1 /\ Len(s) > 0 /\ s[Len(s)] = Open
  <2>0. Closer # Cold /\ Closer # Foreign BY DEF Closer, Cold, Foreign
  <2>1. CASE t = <<>> BY <1>6, <2>1
  <2>2. CASE t = <<Cold>> BY <1>6, <2>0, <2>2
  <2>3. s # <<>> => Len(s) > 0 BY <1>4, EmptySeq DEF Logs
  <2>4. CASE t = Closers(stored) BY <1>2, <1>6, <2>3, <2>4 DEF Closers
  <2>5. CASE t = Closers(stored) \o <<Foreign>>
    <3>1. CASE Closers(stored) = <<>>
      <4>1. t = <<Foreign>> BY <2>5, <3>1
      <4> QED BY <1>6, <2>0, <4>1
    <3>2. CASE Closers(stored) # <<>>
      <4>1. Closers(stored) = <<Closer>> /\ s # <<>> /\ s[Len(s)] = Open BY <1>2, <3>2 DEF Closers
      <4>2. PICK c, f : c = <<Closer>> /\ f = <<Foreign>> OBVIOUS
      <4>3. c \in Logs /\ f \in Logs /\ Len(c) = 1 /\ Len(f) = 1 /\ f[1] = Foreign /\ t = c \o f
        BY <2>5, <4>1, <4>2 DEF Logs, Closer, Foreign
      <4>4. Len(t) = 2 /\ \A m \in 1 .. 1 : t[1 + m] = f[m]
        <5>1. Len(t) = Len(c) + Len(f) /\ \A m \in 1 .. Len(f) : t[Len(c) + m] = f[m]
          <6>1. c \in Logs /\ f \in Logs /\ t = c \o f BY <4>3
          <6> QED BY <6>1, LongerIs
        <5> QED BY <4>3, <5>1
      <4>5. t[2] = Foreign BY <4>3, <4>4
      <4>6. i = 1 BY <1>6, <2>0, <4>4, <4>5
      <4> QED BY <2>3, <4>1, <4>6
    <3> QED BY <3>1, <3>2
  <2>6. ASSUME NEW k \in Sessions, Continues(k, t) PROVE FALSE
    <3>1. Len(sess[k].log) \in Nat BY <1>0, LenProperties DEF TypeOK, SessionRecords, Logs
    <3>2. t # <<>> /\ Len(s) + Len(t) <= Len(sess[k].log) /\ sess[k].log[Len(s) + i] = Closer
      BY <1>2, <1>6, <2>6 DEF Continues
    <3>3. Len(s) + i \in 1 .. Len(sess[k].log) /\ ~(Len(s) + i <= Len(s)) BY <1>5, <3>1, <3>2
    <3> QED BY <1>0, <1>2, <3>2, <3>3 DEF OldClosers, Below
  <2> QED BY <1>1, <2>1, <2>2, <2>4, <2>5, <2>6 DEF Adds
<1>7. ASSUME NEW i \in 1 .. Len(r), r[i] = Closer PROVE i > 1 /\ r[i - 1] = Open
  <2>1. CASE i \in 1 .. Len(s)
    <3>1. i > 1 /\ s[i - 1] = Open BY <1>2, <1>5, <1>7, <2>1 DEF ClosedOnce
    <3>2. i - 1 \in 1 .. Len(s) BY <1>5, <2>1, <3>1
    <3> QED BY <1>5, <3>1, <3>2
  <2>2. CASE i > Len(s)
    <3>1. PICK j : j = i - Len(s) OBVIOUS
    <3>2. j \in 1 .. Len(t) /\ i = Len(s) + j BY <1>5, <2>2, <3>1
    <3>3. j = 1 /\ Len(s) > 0 /\ s[Len(s)] = Open BY <1>5, <1>6, <1>7, <3>2
    <3>4. i - 1 = Len(s) /\ i > 1 /\ Len(s) \in 1 .. Len(s) BY <1>5, <3>2, <3>3
    <3> QED BY <1>5, <3>3, <3>4
  <2> QED BY <1>5, <2>1, <2>2
<1> QED BY <1>3, <1>7 DEF ClosedOnce

LEMMA ExtentStep ==
  ASSUME CoordinatorInvariant, Ledger, Move
  PROVE  Extent'
<1>0. TypeOK /\ Extent /\ stored.log \in Logs /\ state \in States /\ state.cursor \in Nat /\ Len(stored.log) \in Nat
  BY LenProperties DEF CoordinatorInvariant, Ledger, TypeOK, Artifacts, States, Logs
<1>1. stored.log # <<>> <=> Len(stored.log) > 0 BY <1>0, EmptySeq DEF Logs
<1>2. CASE \/ Idle
           \/ \E k \in Sessions :
                \/ InitFails(k) \/ GivesUp(k) \/ Starts(k) \/ Enters(k) \/ Goes(k) \/ Outs(k)
                \/ SessionEvent(k) \/ RetireFlushed(k) \/ DrainCall(k)
  <2>1. stored' = stored /\ state' = state
    BY <1>2 DEF Idle, InitFails, GivesUp, Starts, Enters, Goes, Outs, SessionEvent, RetireFlushed, DrainCall
  <2> QED BY <1>0, <2>1 DEF Extent
<1>3. CASE Reclaims \/ RetireRun \/ HotReload
  <2>1. stored' = stored /\ (state' = NoState \/ state' = state) BY Zenon, <1>3 DEF Reclaims, RetireRun, HotReload
  <2>2. ~NoState.there /\ NoState.owner = Nobody /\ NoState.cursor = 0 BY DEF NoState
  <2>3. CASE state' = state BY <1>0, <2>1, <2>3 DEF Extent
  <2>4. CASE state' = NoState BY <1>0, <2>1, <2>2, <2>4 DEF Extent
  <2> QED BY <2>1, <2>3, <2>4
<1>4. CASE Places
  <2>1. stored' = stored /\ state'.owner = Nobody /\ state'.cursor = Len(stored.log) BY <1>4, StateIs DEF Places
  <2> QED BY <1>0, <1>1, <2>1 DEF Extent
<1>5. CASE Repairs
  <2>1. stored.log # <<>> /\ state' = state /\ state.owner = Nobody
    BY <1>0, <1>5 DEF Repairs, NeedsRepair, Extent, Proper, Closers
  <2>2. PICK r : r = stored'.log OBVIOUS
  <2>3. r = stored.log \o Closers(stored) /\ Closers(stored) \in Logs /\ stored'.made /\ ~stored'.torn
    BY <1>0, <1>5, <2>2, BalancedIs DEF Repairs, Repaired
  <2>4. Len(r) = Len(stored.log) + Len(Closers(stored)) /\ Len(Closers(stored)) \in Nat BY <1>0, <2>3, LongerIs
  <2>5. r # <<>> /\ state.cursor <= Len(r)
    <3>1. r = <<>> => Len(r) = 0 OBVIOUS
    <3> QED BY <1>0, <1>1, <2>1, <2>4, <3>1 DEF Extent
  <2> QED BY <1>0, <2>1, <2>2, <2>3, <2>5 DEF Extent, Proper
<1>6. ASSUME NEW t \in Logs, t # <<>>, stored' = Written(t), state' = Advanced(Len(t)) PROVE Extent'
  <2>1. Len(t) \in Nat \ {0} BY <1>6, EmptySeq DEF Logs
  <2>2. state'.there = state.there /\ state'.cursor = state.cursor + Len(t) /\ state'.owner = state.owner
    BY <1>0, <1>6, <2>1, AdvancedIs
  <2>3. PICK r : r = stored'.log OBVIOUS
  <2>4. r = stored.log \o t /\ stored'.made BY <1>6, <2>3 DEF Written
  <2>5. Len(r) = Len(stored.log) + Len(t) BY <1>0, <2>4, LongerIs
  <2>6. r # <<>>
    <3>1. r = <<>> => Len(r) = 0 OBVIOUS
    <3> QED BY <1>0, <2>1, <2>5, <3>1
  <2>7. Len(r) \in Nat /\ state'.cursor <= Len(r) /\ state'.cursor # 0 /\ (state.owner # Nobody => state'.cursor = Len(r))
    BY <1>0, <2>1, <2>2, <2>5 DEF Extent
  <2> QED BY <2>2, <2>3, <2>4, <2>6, <2>7 DEF Extent, Proper
<1>7. CASE Appends
  <2>1. <<Cold>> \in Logs /\ <<Cold>> # <<>> /\ Len(<<Cold>>) = 1 BY DEF Logs, Cold
  <2>2. stored' = Written(<<Cold>>) /\ state' = Advanced(Len(<<Cold>>)) BY <1>7, <2>1 DEF Appends
  <2> QED BY <1>6, <2>1, <2>2
<1>8. ASSUME NEW k \in Sessions, Acks(k) PROVE Extent'
  <2>1. CASE stored' = stored /\ state' = state BY <1>0, <2>1 DEF Extent
  <2> QED BY <1>6, <1>8, <2>1 DEF Acks, Continues
<1>9. ASSUME NEW k \in Sessions, Binds(k) PROVE Extent'
  <2>1. Proper(stored') /\ state'.owner = k /\ k # Nobody /\ state'.cursor = Len(stored'.log)
    BY <1>9 DEF Binds, Sessions, Nobody
  <2>2. Len(stored'.log) \in Nat
    <3>1. PICK t : t \in Logs /\ stored'.log = stored.log \o t BY <1>9 DEF Binds, Continues
    <3> QED BY <1>0, <3>1, LenProperties, LongerIs DEF Logs
  <2> QED BY <2>1, <2>2 DEF Extent, Proper
<1>10. ASSUME NEW k \in Sessions, Attaches(k) PROVE Extent'
  <2>1. k # Nobody /\ state'.owner = k /\ state'.cursor = Len(stored.log)
    <3>1. PICK log : state.cursor = Len(stored.log) /\ state'.owner = k /\ state'.cursor = state.cursor
      BY <1>10, AttachedIs
    <3> QED BY <3>1 DEF Sessions, Nobody
  <2>2. stored' = stored BY <1>10 DEF Attaches
  <2> QED BY <1>0, <2>1, <2>2 DEF Extent
<1>11. CASE ExternalWrite
  <2>1. /\ stored.log # <<>> /\ state' = state /\ state.owner = Nobody
        /\ stored'.log = Append(Balanced(stored), Foreign) /\ stored'.made /\ ~stored'.torn
    BY <1>0, <1>11 DEF ExternalWrite, Extent, Proper
  <2>2. PICK r : r = stored'.log OBVIOUS
  <2>3. PICK t \in Logs : r = stored.log \o t BY <1>0, <2>1, <2>2, BalancedIs
  <2>4. Len(r) = Len(stored.log) + Len(t) /\ Len(t) \in Nat BY <1>0, <2>3, LongerIs
  <2>5. r # <<>> /\ state.cursor <= Len(r)
    <3>1. r = <<>> => Len(r) = 0 OBVIOUS
    <3> QED BY <1>0, <1>1, <2>1, <2>4, <3>1 DEF Extent
  <2> QED BY <1>0, <2>1, <2>2, <2>5 DEF Extent, Proper
<1> QED BY <1>2, <1>3, <1>4, <1>5, <1>7, <1>8, <1>9, <1>10, <1>11 DEF Move

--------
\* What a step does to the callers.

\* A caller that neither enters, flushes nor checks.
LEMMA PlainMove ==
  ASSUME NEW d, NEW q, call[d].pc # "entered", q.pc \notin {"entered", "flush", "check"},
         q.since \in {call[d].since, 0, Len(stored.log)}, call[d].fresh => q.fresh
  PROVE  Proceeds(d, q)
BY DEF Proceeds, Moved

LEMMA OneProceeds ==
  ASSUME NEW c \in Callers, NEW cs \in [Callers -> CallRecords], \A d \in Callers : d # c => cs[d] = call[d], Proceeds(c, cs[c])
  PROVE  Proceed(cs)
BY DEF Proceed, Proceeds, Still

LEMMA NoneProceeds ==
  ASSUME TypeOK
  PROVE  Proceed(call)
BY DEF Proceed, Proceeds, Still, TypeOK

LEMMA SettledProceed ==
  ASSUME NEW cs, Proceed(cs), NEW g
  PROVE  Proceed(Settled(cs, g))
<1>1. cs \in [Callers -> CallRecords] /\ \A d \in Callers : Proceeds(d, cs[d]) BY DEF Proceed
<1>2. /\ Settled(cs, g) \in [Callers -> CallRecords]
      /\ \A d \in Callers : Settled(cs, g)[d] = IF cs[d].pc = "settled" /\ cs[d].gen = g THEN [cs[d] EXCEPT !.pc = "turn"] ELSE cs[d]
  BY <1>1, SettledTyped DEF Settled
<1>3. ASSUME NEW d \in Callers, NEW q, cs[d].pc = "settled", q = [cs[d] EXCEPT !.pc = "turn"] PROVE Proceeds(d, q)
  <2>1. q.pc = "turn" /\ q.since = cs[d].since /\ q.fresh = cs[d].fresh BY <1>1, <1>3 DEF CallRecords
  <2>2. CASE Still(call[d], cs[d]) BY <1>3, <2>1, <2>2 DEF Still, Proceeds, Moved
  <2>3. CASE Moved(d, cs[d]) BY <1>3, <2>1, <2>3 DEF Proceeds, Moved
  <2> QED BY <1>1, <2>2, <2>3 DEF Proceeds
<1>4. \A d \in Callers : Proceeds(d, Settled(cs, g)[d]) BY <1>1, <1>2, <1>3
<1> QED BY <1>2, <1>4 DEF Proceed

LEMMA FieldsAre ==
  ASSUME TypeOK, NEW c \in Callers
  PROVE  /\ \A pc \in Points, fresh \in BOOLEAN :
              Over(c, pc, fresh)[c].pc = pc /\ Over(c, pc, fresh)[c].since = 0 /\ Over(c, pc, fresh)[c].fresh = fresh
         /\ \A pc \in Points :
              /\ At(c, pc)[c].pc = pc /\ At(c, pc)[c].since = call[c].since /\ At(c, pc)[c].fresh = call[c].fresh
              /\ At(c, pc)[c].src = call[c].src
         /\ \A k \in Sessions : /\ AwaitsFlush(c, k)[c].pc = "flush" /\ AwaitsFlush(c, k)[c].awaits = k
                                /\ AwaitsFlush(c, k)[c].since = call[c].since /\ AwaitsFlush(c, k)[c].fresh = call[c].fresh
<1>0. call \in [Callers -> CallRecords] /\ call[c] \in CallRecords BY DEF TypeOK
<1>1. ASSUME NEW pc \in Points, NEW fresh \in BOOLEAN
      PROVE  Over(c, pc, fresh)[c].pc = pc /\ Over(c, pc, fresh)[c].since = 0 /\ Over(c, pc, fresh)[c].fresh = fresh
  <2>1. Over(c, pc, fresh)[c] = [NoCall EXCEPT !.pc = pc, !.fresh = fresh] BY <1>0 DEF Over
  <2> QED BY <2>1 DEF NoCall
<1>2. ASSUME NEW pc \in Points
      PROVE  /\ At(c, pc)[c].pc = pc /\ At(c, pc)[c].since = call[c].since /\ At(c, pc)[c].fresh = call[c].fresh
             /\ At(c, pc)[c].src = call[c].src
  <2>1. At(c, pc)[c] = [call[c] EXCEPT !.pc = pc] BY <1>0 DEF At
  <2> QED BY <1>0, <2>1 DEF CallRecords
<1>3. ASSUME NEW k \in Sessions
      PROVE  /\ AwaitsFlush(c, k)[c].pc = "flush" /\ AwaitsFlush(c, k)[c].awaits = k
             /\ AwaitsFlush(c, k)[c].since = call[c].since /\ AwaitsFlush(c, k)[c].fresh = call[c].fresh
  <2>1. AwaitsFlush(c, k)[c] = [call[c] EXCEPT !.pc = "flush", !.awaits = k, !.upto = Len(sess[k].log)]
    BY <1>0 DEF AwaitsFlush
  <2> QED BY <1>0, <2>1 DEF CallRecords
<1> QED BY <1>1, <1>2, <1>3

\* A caller that is somewhere else than in the store ends, starts over or goes to a place pc.
LEMMA CallerProceeds ==
  ASSUME TypeOK, NEW c \in Callers, call[c].pc # "entered"
  PROVE  /\ \A pc \in {"over", "append"}, fresh \in BOOLEAN : (call[c].fresh /\ ~fresh => Misses(c)) => Proceed(Over(c, pc, fresh))
         /\ Proceed(Failed(c)) /\ Proceed(Ended(c)) /\ Proceed(Again(c))
         /\ \A pc \in Points \ {"entered", "flush", "check"} : Proceed(At(c, pc))
         /\ \A k \in Sessions : Proceed(AwaitsFlush(c, k))
<1>0. call \in [Callers -> CallRecords] /\ call[c] \in CallRecords /\ sess \in [Sessions -> SessionRecords] /\ retiring \in Owners
  BY DEF TypeOK
<1>1. ASSUME NEW pc \in {"over", "append"}, NEW fresh \in BOOLEAN, call[c].fresh /\ ~fresh => Misses(c)
      PROVE  Proceed(Over(c, pc, fresh))
  <2>0. pc \in Points BY DEF Points
  <2>1. PICK cs : cs = Over(c, pc, fresh) OBVIOUS
  <2>2. cs \in [Callers -> CallRecords] /\ \A d \in Callers : d # c => cs[d] = call[d] BY <1>0, <2>0, <2>1, OverIs
  <2>3. cs[c].pc = pc /\ cs[c].since = 0 /\ cs[c].fresh = fresh BY <2>0, <2>1, FieldsAre
  <2>4. Proceeds(c, cs[c]) BY <1>1, <2>3 DEF Proceeds, Moved
  <2> QED BY <2>1, <2>2, <2>4, OneProceeds
<1>2. Proceed(Failed(c)) /\ Proceed(Ended(c)) BY <1>1 DEF Failed, Ended
<1>3. Proceed(Again(c))
  <2>1. CASE call[c].aborted BY <1>2, <2>1 DEF Again
  <2>2. CASE ~call[c].aborted
    <3>1. PICK cs : cs = Again(c) OBVIOUS
    <3>2. cs \in [Callers -> CallRecords] /\ \A d \in Callers : d # c => cs[d] = call[d] BY <1>0, <3>1, AgainIs
    <3>3. cs[c] = [call[c] EXCEPT !.pc = "retirement", !.awaits = retiring, !.gen = 0, !.src = Absent]
      BY <1>0, <2>2, <3>1 DEF Again
    <3>4. cs[c].pc = "retirement" /\ cs[c].since = call[c].since /\ cs[c].fresh = call[c].fresh
      BY <1>0, <3>3 DEF CallRecords
    <3> QED BY <3>1, <3>2, <3>4, PlainMove, OneProceeds
  <2> QED BY <2>1, <2>2
<1>4. ASSUME NEW pc \in Points \ {"entered", "flush", "check"} PROVE Proceed(At(c, pc))
  <2>1. PICK cs : cs = At(c, pc) OBVIOUS
  <2>2. cs \in [Callers -> CallRecords] /\ \A d \in Callers : d # c => cs[d] = call[d] BY <1>0, <2>1, AtIs
  <2>3. cs[c].pc = pc /\ cs[c].since = call[c].since /\ cs[c].fresh = call[c].fresh BY <2>1, FieldsAre
  <2> QED BY <2>1, <2>2, <2>3, PlainMove, OneProceeds
<1>5. ASSUME NEW k \in Sessions PROVE Proceed(AwaitsFlush(c, k))
  <2>1. PICK cs : cs = AwaitsFlush(c, k) OBVIOUS
  <2>2. cs \in [Callers -> CallRecords] /\ \A d \in Callers : d # c => cs[d] = call[d] BY <1>0, <2>1, AwaitsFlushIs
  <2>3. cs[c].pc = "flush" /\ cs[c].awaits = k /\ cs[c].since = call[c].since /\ cs[c].fresh = call[c].fresh
    BY <2>1, FieldsAre
  <2>4. Proceeds(c, cs[c]) BY <2>3 DEF Proceeds, Moved
  <2> QED BY <2>1, <2>2, <2>4, OneProceeds
<1> QED BY <1>1, <1>2, <1>3, <1>4, <1>5

LEMMA PoolProceeds ==
  ASSUME TypeOK, NEW cs, Proceed(cs)
  PROVE  /\ Remove(cs) \/ MakeReady(cs) \/ Invalidate(cs) => Proceed(call')
         /\ \A c : RemoveOf(c, cs) => Proceed(call')
BY SettledProceed DEF Remove, MakeReady, Invalidate, RemoveOf

LEMMA InspectedProceeds ==
  ASSUME TypeOK, NEW c \in Callers, call[c].pc # "entered", NEW fresh \in BOOLEAN, call[c].fresh /\ ~fresh => Misses(c),
         NEW view, NEW rest, Inspected(c, fresh, view, rest)
  PROVE  Proceed(call')
BY CallerProceeds DEF Inspected

LEMMA JobsProceed ==
  ASSUME TypeOK, PoolOK, Chain
  PROVE  Proceed(call')
<1>0. call \in [Callers -> CallRecords] /\ Proceed(call) BY NoneProceeds DEF TypeOK
<1>1. ASSUME chain # <<>>, chain[1].kind \in Awaited
      PROVE  /\ chain[1].who \in Callers
             /\ chain[1].stage # "queued" \/ chain[1].kind \in {"create", "append"} => call[chain[1].who].pc = chain[1].kind
  BY <1>1, FirstJob DEF Awaited, OfCalls, JobOK
<1>2. CASE call' = call BY <1>0, <1>2
<1>3. CASE LoadEnd
  <2> DEFINE Waits(c) == call[c].pc = "result" /\ call[c].gen = chain[1].gen
             loaded(c) == [call[c] EXCEPT !.pc = AfterResult(c), !.src = IF AfterResult(c) = "seen" THEN chain[1].src ELSE Absent]
  <2>1. chain # <<>> /\ chain[1].src \in Artifacts BY Zenon, <1>3, FirstJob DEF LoadEnd, Runs, JobRecords
  <2>2. \/ call' = [c \in Callers |-> IF ~Waits(c) THEN call[c] ELSE loaded(c)]
        \/ call' = [c \in Callers |-> CASE ~Waits(c) -> call[c]
                                        [] Waits(c) /\ AfterResult(c) = "seen" -> At(c, "caught")[c]
                                        [] OTHER -> Failed(c)[c]]
    BY Zenon, <1>3 DEF LoadEnd
  <2>3. \A c \in Callers : call'[c] = call[c] \/ (Waits(c) /\ call'[c] \in {loaded(c), At(c, "caught")[c], Failed(c)[c]})
    <3>1. CASE call' = [c \in Callers |-> IF ~Waits(c) THEN call[c] ELSE loaded(c)] BY Zenon, <3>1
    <3>2. CASE call' = [c \in Callers |-> CASE ~Waits(c) -> call[c]
                                            [] Waits(c) /\ AfterResult(c) = "seen" -> At(c, "caught")[c]
                                            [] OTHER -> Failed(c)[c]]
      BY <3>2
    <3> QED BY Zenon, <2>2, <3>1, <3>2
  <2>4. ASSUME NEW c \in Callers, Waits(c)
        PROVE  /\ loaded(c) \in CallRecords /\ loaded(c).pc \in {"turn", "seen"} /\ loaded(c).since = call[c].since
               /\ loaded(c).fresh = call[c].fresh
    <3>1. PICK a \in Artifacts : a = IF AfterResult(c) = "seen" THEN chain[1].src ELSE Absent BY <2>1, ConstantsTyped
    <3>2. PICK pc \in {"turn", "seen"} : pc = AfterResult(c) BY DEF AfterResult
    <3>3. loaded(c) = [call[c] EXCEPT !.pc = pc, !.src = a] /\ call[c] \in CallRecords BY <1>0, <3>1, <3>2
    <3> QED BY <3>3 DEF CallRecords, Points
  <2>5. ASSUME NEW c \in Callers, Waits(c) PROVE Proceeds(c, loaded(c))
    <3>1. PICK q : q = loaded(c) OBVIOUS
    <3>2. q.pc \in {"turn", "seen"} /\ q.since = call[c].since /\ q.fresh = call[c].fresh BY Zenon, <2>4, <2>5, <3>1
    <3>3. call[c].pc # "entered" BY <2>5
    <3>4. Proceeds(c, q) BY <3>2, <3>3, PlainMove
    <3> QED BY Zenon, <3>1, <3>4
  <2>6. \A c \in Callers : Waits(c) => Proceeds(c, At(c, "caught")[c]) /\ Proceeds(c, Failed(c)[c])
    BY CallerProceeds DEF Proceed, Points
  <2>7. \A c \in Callers : Proceeds(c, call'[c])
    <3>1. \A c \in Callers : Proceeds(c, call[c]) BY <1>0 DEF Proceed
    <3> QED BY Zenon, <2>3, <2>5, <2>6, <3>1
  <2>8. \A c \in Callers : At(c, "caught")[c] \in CallRecords /\ Failed(c)[c] \in CallRecords
    BY <1>0, AtIs, FailedIs DEF Points
  <2>9. call' \in [Callers -> CallRecords]
    <3>1. DOMAIN call' = Callers /\ call' = [c \in Callers |-> call'[c]] BY Zenon, <2>2
    <3>2. \A c \in Callers : call'[c] \in CallRecords BY Zenon, <1>0, <2>3, <2>4, <2>8
    <3> QED BY <3>1, <3>2
  <2> QED BY <2>7, <2>9 DEF Proceed
<1>4. CASE CommitStart \/ CommitRetry \/ CommitEnd \/ CommitFault
  <2>1. PICK c \in Callers : c = chain[1].who
    BY <1>1, <1>4 DEF CommitStart, CommitRetry, CommitEnd, CommitFault, Runs, Awaited
  <2>2. call' = call \/ call[c].pc = "commit"
    BY <1>1, <1>4, <2>1 DEF CommitStart, CommitRetry, CommitEnd, CommitFault, Runs, Awaited
  <2>3. \/ call' = call \/ RemoveOf(c, Failed(c)) \/ RemoveOf(c, Again(c)) \/ MakeReady(Failed(c))
        \/ call' \in {Failed(c), Again(c), At(c, "reserved")}
    BY <1>4, <2>1 DEF CommitStart, CommitRetry, CommitEnd, CommitFault
  <2>4. call[c].pc = "commit" => Proceed(Failed(c)) /\ Proceed(Again(c)) /\ Proceed(At(c, "reserved"))
    BY CallerProceeds DEF Points
  <2> QED BY <1>2, <2>2, <2>3, <2>4, PoolProceeds
<1>5. CASE CheckEnd
  <2>1. PICK c \in Callers : c = chain[1].who BY <1>1, <1>5 DEF CheckEnd, Runs, Awaited
  <2>2. call[c].pc = "check" /\ chain # <<>> /\ chain[1].kind = "check"
    BY <1>1, <1>5, <2>1 DEF CheckEnd, Runs, Awaited
  <2>3. \/ call' = At(c, "caught")
        \/ \E view, rest : Inspected(c, TRUE, view, rest)
        \/ \E rest : SourceCurrent(chain[1].stage) /\ Inspected(c, Answers(c, Balanced(call[c].src)), Balanced(call[c].src), rest)
        \/ Remove(Again(c)) \/ call' = Again(c)
    BY <1>5, <2>1 DEF CheckEnd
  <2>4. CASE call' = At(c, "caught") \/ Remove(Again(c)) \/ call' = Again(c)
    <3>1. Proceed(At(c, "caught")) /\ Proceed(Again(c)) BY <2>2, CallerProceeds DEF Points
    <3> QED BY <2>4, <3>1, PoolProceeds
  <2>5. CASE \E view, rest : Inspected(c, TRUE, view, rest) BY <2>2, <2>5, InspectedProceeds
  <2>6. CASE \E rest : SourceCurrent(chain[1].stage) /\ Inspected(c, Answers(c, Balanced(call[c].src)), Balanced(call[c].src), rest)
    <3>1. PICK fresh \in BOOLEAN : fresh <=> Answers(c, Balanced(call[c].src)) OBVIOUS
    <3>2. fresh = Answers(c, Balanced(call[c].src)) BY <3>1 DEF Answers, Covers
    <3>3. ~fresh => Misses(c) BY <2>1, <2>2, <2>6, <3>1 DEF Misses, Runs, SourceCurrent
    <3> QED BY <2>2, <2>6, <3>2, <3>3, InspectedProceeds
  <2> QED BY <2>3, <2>4, <2>5, <2>6
<1>6. CASE CreateStart \/ CreateEnd
  <2>1. PICK c \in Callers : c = chain[1].who BY <1>1, <1>6 DEF CreateStart, CreateEnd, Runs, Awaited
  <2>2. call[c].pc = "create" /\ call' \in {call, Failed(c), Ended(c)}
    BY <1>1, <1>6, <2>1 DEF CreateStart, CreateEnd, Runs, Awaited
  <2> QED BY <1>2, <2>2, CallerProceeds
<1>7. CASE AppendStart \/ AppendRead \/ AppendEnd
  <2>1. PICK c \in Callers : c = chain[1].who BY <1>1, <1>7 DEF AppendStart, AppendRead, AppendEnd, Runs, Awaited
  <2>2. call[c].pc = "append" /\ (call' \in {call, Failed(c)} \/ Remove(call) \/ Invalidate(Over(c, "over", call[c].fresh)))
    BY <1>1, <1>7, <2>1 DEF AppendStart, AppendRead, AppendEnd, Runs, Awaited
  <2>3. Proceed(Failed(c)) /\ Proceed(Over(c, "over", call[c].fresh))
    <3>1. call[c].fresh \in BOOLEAN BY <1>0 DEF CallRecords
    <3> QED BY <2>2, <3>1, CallerProceeds
  <2> QED BY <1>0, <2>2, <2>3, PoolProceeds
<1>8. CASE InitEnd \/ Suffix
  <2>1. call' = call \/ Invalidate(call) BY Zenon, <1>8 DEF InitEnd, Suffix, Bind
  <2> QED BY <1>0, <2>1, PoolProceeds
<1>9. CASE DrainStart \/ DrainEnd
  <2>1. \/ call' = call \/ Invalidate(call)
        \/ \E k : call' = [c \in Callers |-> IF call[c].pc = "flush" /\ call[c].awaits = k THEN Failed(c)[c] ELSE call[c]]
    BY <1>9 DEF DrainStart, DrainEnd, DrainFailed
  <2>2. ASSUME NEW k, call' = [c \in Callers |-> IF call[c].pc = "flush" /\ call[c].awaits = k THEN Failed(c)[c] ELSE call[c]]
        PROVE  Proceed(call')
    <3>1. \A c \in Callers : call[c].pc = "flush" => Proceeds(c, Failed(c)[c]) BY CallerProceeds DEF Proceed
    <3>2. \A c \in Callers : Proceeds(c, call[c]) BY <1>0 DEF Proceed
    <3>3. \A c \in Callers : Failed(c)[c] \in CallRecords BY <1>0, FailedIs
    <3> QED BY <1>0, <2>2, <3>1, <3>2, <3>3 DEF Proceed
  <2> QED BY <1>0, <2>1, <2>2, PoolProceeds
<1>10. CASE LoadStart \/ CheckStart \/ Adopt \/ InitStart \/ RetireRun
  BY <1>2, <1>10 DEF LoadStart, CheckStart, Adopt, InitStart, RetireRun
<1> QED BY <1>3, <1>4, <1>5, <1>6, <1>7, <1>8, <1>9, <1>10 DEF Chain

LEMMA CallersProceed ==
  ASSUME TypeOK, PoolOK, NEW c \in Callers, Resume(c) \/ Settle(c) \/ Abort(c)
  PROVE  Proceed(call')
<1>0. call \in [Callers -> CallRecords] /\ call[c] \in CallRecords /\ Proceed(call) BY NoneProceeds DEF TypeOK
<1>1. ASSUME call[c].pc # "entered"
      PROVE  /\ Proceed(Failed(c)) /\ Proceed(Ended(c)) /\ Proceed(Again(c))
             /\ \A pc \in {"settled", "holding", "caught"} : Proceed(At(c, pc))
             /\ \A k \in Registered : Proceed(AwaitsFlush(c, k))
             /\ \A view, rest : Inspected(c, TRUE, view, rest) => Proceed(call')
  BY <1>1, CallerProceeds, InspectedProceeds DEF Points, Registered
<1>2. CASE MeetLive(c)
  <2>1. call[c].pc # "entered" BY <1>2 DEF MeetLive, Waited
  <2>2. \/ call' = Failed(c)
        \/ \E view, rest : Inspected(c, TRUE, view, rest)
        \/ \E k \in Registered : call' = AwaitsFlush(c, k) \/ Remove(AwaitsFlush(c, k))
    <3>1. PICK k \in Registered :
            CASE call[c].op = "prepare" -> call' = Failed(c) /\ UNCHANGED <<state, entry, sess, chain>>
              [] call[c].op = "load" -> LoadLive(c, k)
              [] OTHER -> Inspected(c, TRUE, sess[k].log, chain) /\ UNCHANGED <<state, entry, sess>>
      BY <1>2 DEF MeetLive
    <3> QED BY <3>1 DEF LoadLive, Attach
  <2> QED BY <1>1, <2>1, <2>2, PoolProceeds
<1>3. CASE Join(c)
  <2>1. call[c].pc # "entered" BY <1>3 DEF Join, Waited
  <2>2. PICK g \in Nat : g = NewGen BY NewGenIs
  <2>3. \/ call' = [call EXCEPT ![c] = [call[c] EXCEPT !.pc = "result", !.gen = g]]
        \/ \E a \in Artifacts, pc \in {"result", "turn", "seen"}, h \in Nat :
             call' = [call EXCEPT ![c] = [call[c] EXCEPT !.gen = h, !.src = a, !.pc = pc]]
    <3>1. AfterResult(c) \in {"turn", "seen"} /\ entry.gen \in Nat /\ entry.src \in Artifacts /\ Absent \in Artifacts
      BY ConstantsTyped DEF AfterResult, TypeOK, Entries
    <3>2. CASE entry.phase = "none" BY Zenon, <1>3, <2>2, <3>2 DEF Join
    <3>3. CASE entry.phase # "none"
      <4>1. PICK a \in Artifacts : a = IF AfterResult(c) = "seen" THEN entry.src ELSE Absent BY <3>1
      <4>2. PICK pc \in {"result", "turn", "seen"} : pc = IF entry.phase = "loading" THEN "result" ELSE AfterResult(c)
        BY <3>1
      <4>3. call' = [call EXCEPT ![c] = [call[c] EXCEPT !.gen = entry.gen, !.src = a, !.pc = pc]]
        BY <1>3, <3>3, <4>1, <4>2 DEF Join
      <4> QED BY Zenon, <3>1, <4>3
    <3> QED BY Zenon, <3>2, <3>3
  <2>4. ASSUME NEW q, q \in CallRecords, call' = [call EXCEPT ![c] = q], q.pc \in {"result", "turn", "seen"}, q.since = call[c].since,
               q.fresh = call[c].fresh
        PROVE  Proceed(call')
    BY <1>0, <2>1, <2>4, PlainMove, OneProceeds
  <2>5. CASE call' = [call EXCEPT ![c] = [call[c] EXCEPT !.pc = "result", !.gen = g]]
    <3>1. PICK q : q = [call[c] EXCEPT !.pc = "result", !.gen = g] OBVIOUS
    <3>2. q \in CallRecords /\ q.pc = "result" /\ q.since = call[c].since /\ q.fresh = call[c].fresh
      BY <1>0, <2>2, <3>1 DEF CallRecords, Points
    <3> QED BY <2>4, <2>5, <3>1, <3>2
  <2>6. ASSUME NEW a \in Artifacts, NEW pc \in {"result", "turn", "seen"}, NEW h \in Nat,
               call' = [call EXCEPT ![c] = [call[c] EXCEPT !.gen = h, !.src = a, !.pc = pc]]
        PROVE  Proceed(call')
    <3>1. PICK q : q = [call[c] EXCEPT !.gen = h, !.src = a, !.pc = pc] OBVIOUS
    <3>2. q \in CallRecords /\ q.pc = pc /\ q.since = call[c].since /\ q.fresh = call[c].fresh
      BY <1>0, <2>6, <3>1 DEF CallRecords, Points
    <3> QED BY <2>4, <2>6, <3>1, <3>2
  <2> QED BY Zenon, <2>3, <2>5, <2>6
<1>4. CASE Turn(c)
  <2>1. call[c].pc # "entered" /\ call' \in {Again(c), At(c, "commit"), At(c, "settled")} BY <1>4 DEF Turn, At
  <2> QED BY <2>1, CallerProceeds DEF Points
<1>5. CASE Seen(c)
  <2>1. CASE \E view, rest : Inspected(c, TRUE, view, rest) BY <1>1, <1>5, <2>1 DEF Seen
  <2>2. CASE call' = At(c, "check") /\ chain' = Append(chain, [Job("check", c) EXCEPT !.src = call[c].src])
    <3>0. call[c].pc # "entered" /\ "check" \in Points BY <1>5 DEF Seen, Points
    <3>1. PICK cs : cs = At(c, "check") OBVIOUS
    <3>2. cs \in [Callers -> CallRecords] /\ \A d \in Callers : d # c => cs[d] = call[d] BY <1>0, <3>0, <3>1, AtIs
    <3>3. cs[c].pc = "check" /\ cs[c].since = call[c].since /\ cs[c].fresh = call[c].fresh /\ cs[c].src = call[c].src
      BY <3>0, <3>1, FieldsAre
    <3>4. Proceeds(c, cs[c]) BY <2>2, <3>0, <3>3 DEF Proceeds, Moved
    <3> QED BY <2>2, <3>1, <3>2, <3>4, OneProceeds
  <2> QED BY <1>5, <2>1, <2>2 DEF Seen
<1>6. CASE Caught(c) BY <1>1, <1>6 DEF Caught
<1>7. CASE Reserved(c)
  <2>1. /\ call[c].pc = "reserved"
        /\ \/ call' = At(c, "holding") \/ Remove(Failed(c)) \/ Remove(Over(c, "over", Answers(c, Balanced(entry.src))))
           \/ \E k \in Registered : Remove(AwaitsFlush(c, k))
    BY <1>7 DEF Reserved
  <2>2. Proceed(Over(c, "over", Answers(c, Balanced(entry.src))))
    <3>1. Answers(c, Balanced(entry.src)) \in BOOLEAN BY DEF Answers, Covers
    <3>2. ~Answers(c, Balanced(entry.src)) => Misses(c) BY <2>1 DEF Misses
    <3> QED BY <2>1, <3>1, <3>2, CallerProceeds
  <2> QED BY <1>1, <2>1, <2>2, PoolProceeds
<1>8. CASE Flushed(c)
  <2> DEFINE k == call[c].awaits
             fresh == "append" \in raced \/ Covers(stored.log, SubSeq(sess[k].log, 1, call[c].upto))
  <2>1. /\ call[c].pc = "flush"
        /\ call' = Failed(c) \/ (sess[k].init = "ok" /\ sess[k].acked >= call[c].upto /\ call' = Over(c, "over", fresh))
    BY <1>8 DEF Flushed
  <2>2. CASE call' = Over(c, "over", fresh) /\ sess[k].init = "ok" /\ sess[k].acked >= call[c].upto
    <3>1. fresh \in BOOLEAN BY DEF Covers
    <3>2. ~fresh => Misses(c) BY <2>1, <2>2 DEF Misses
    <3> HIDE DEF fresh
    <3> QED BY <2>1, <2>2, <3>1, <3>2, CallerProceeds
  <2> QED BY <1>1, <2>1, <2>2
<1>9. CASE Release(c) \/ \E setup \in BOOLEAN : Publish(c, setup)
  <2>1. call[c].pc = "holding" /\ (MakeReady(Ended(c)) \/ Remove(Ended(c)))
    BY <1>9 DEF Release, Publish, Unpublished, Attach
  <2> QED BY <1>1, <2>1, PoolProceeds
<1>10. ASSUME NEW setup \in BOOLEAN, Enter(c, setup) PROVE Proceed(call')
  <2>1. PICK k \in Sessions : k = Next1(Unborn) /\ sess[k].life = "unborn" BY <1>10, Next1In DEF Enter, Unborn
  <2>2. PICK q : q = [call[c] EXCEPT !.pc = "entered", !.awaits = k] OBVIOUS
  <2>3. call' = [call EXCEPT ![c] = q] /\ call[c].pc = "holding" BY <1>10, <2>1, <2>2 DEF Enter
  <2>4. q \in CallRecords /\ q.pc = "entered" /\ q.awaits = k /\ q.since = call[c].since /\ q.fresh = call[c].fresh
    BY <1>0, <2>2 DEF CallRecords, Points, Owners
  <2>5. Proceeds(c, q) BY <2>1, <2>3, <2>4 DEF Proceeds, Moved
  <2> QED BY <1>0, <2>3, <2>4, <2>5, OneProceeds
<1>11. CASE Rollback(c)
  <2>1. PICK k \in Sessions : k = call[c].awaits
    <3>1. EntersOnce(call, sess) BY PoolIs
    <3> QED BY <1>11, <3>1 DEF Rollback, EntersOnce
  <2>2. sess'[k].life # "entered"
    <3>1. sess' = [sess EXCEPT ![k] = NoSession] \/ sess' = Life(k, "flushing") BY <1>11, <2>1 DEF Rollback
    <3> QED BY <3>1, RecordsAre
  <2>3. Proceed(Ended(c))
    <3>1. PICK cs : cs = Ended(c) OBVIOUS
    <3>2. cs \in [Callers -> CallRecords] /\ \A d \in Callers : d # c => cs[d] = call[d] BY <1>0, <3>1, FailedIs
    <3>3. cs[c].pc = "over" /\ cs[c].since = 0 /\ cs[c].fresh
      <4>1. cs = Over(c, "over", TRUE) /\ "over" \in Points /\ TRUE \in BOOLEAN BY <3>1 DEF Ended, Points
      <4>2. Over(c, "over", TRUE)[c].pc = "over" /\ Over(c, "over", TRUE)[c].since = 0 /\ Over(c, "over", TRUE)[c].fresh = TRUE
        BY <4>1, FieldsAre
      <4> QED BY <4>1, <4>2
    <3>4. Proceeds(c, cs[c]) BY <2>1, <2>2, <3>3 DEF Proceeds, Moved
    <3> QED BY <3>1, <3>2, <3>4, OneProceeds
  <2>4. MakeReady(Ended(c)) \/ Remove(Ended(c)) \/ call' = Ended(c) BY <1>11 DEF Rollback, Unpublished
  <2> QED BY <2>3, <2>4, PoolProceeds
<1>12. CASE Abort(c)
  <2>1. CASE call[c].pc # "entered" /\ (call' = Failed(c) \/ RemoveOf(c, Failed(c))) BY <1>1, <2>1, PoolProceeds
  <2>2. CASE call' = [call EXCEPT ![c].aborted = TRUE]
    <3>1. PICK q : q = [call[c] EXCEPT !.aborted = TRUE] OBVIOUS
    <3>2. q \in CallRecords /\ Still(call[c], q) /\ call' = [call EXCEPT ![c] = q]
      BY <1>0, <2>2, <3>1 DEF CallRecords, Still
    <3> QED BY <1>0, <3>2, OneProceeds DEF Proceeds
  <2> QED BY <1>12, <2>1, <2>2 DEF Abort, Rejects
<1> QED BY <1>2, <1>3, <1>4, <1>5, <1>6, <1>7, <1>8, <1>9, <1>10, <1>11, <1>12 DEF Resume, Settle

LEMMA CallsProceed ==
  ASSUME CoordinatorInvariant, [Next]_vars
  PROVE  Proceed(call')
<1>0. TypeOK /\ PoolOK /\ Proceed(call) BY NoneProceeds DEF CoordinatorInvariant
<1>1. CASE call' = call BY <1>0, <1>1
<1>2. ASSUME NEW c \in Callers, NEW op \in Ops, Begin(c, op) PROVE Proceed(call')
  <2>0. call \in [Callers -> CallRecords] /\ call[c] \in CallRecords /\ Len(stored.log) \in Nat /\ retiring \in Owners /\ op \in Methods
    BY <1>0, OpsAssumption, LenProperties DEF TypeOK, Artifacts, Logs, Methods
  <2>1. PICK pc \in {"create", "retirement"} : pc = IF op = "create" THEN "create" ELSE "retirement" OBVIOUS
  <2>2. PICK q : q = [call[c] EXCEPT !.op = op, !.since = Len(stored.log), !.awaits = retiring, !.pc = pc] OBVIOUS
  <2>3. call' = [call EXCEPT ![c] = q] /\ call[c].pc = "idle" BY <1>2, <2>1, <2>2 DEF Begin
  <2>4. q \in CallRecords /\ q.pc = pc /\ q.since = Len(stored.log) /\ q.fresh = call[c].fresh
    BY <2>0, <2>2 DEF CallRecords, Points
  <2> QED BY <2>0, <2>3, <2>4, PlainMove, OneProceeds
<1>3. ASSUME Steps PROVE call' = call \/ (\E c \in Callers : Resume(c) \/ Settle(c) \/ Abort(c)) \/ \E c \in Callers, op \in Ops : Begin(c, op)
  BY Zenon, <1>3 DEF Steps, SessionEvent, Detach, RetireFlushed, DrainCall, Discard, Create, Veto, HotReload, ExternalWrite, Evict
<1> QED BY <1>0, <1>1, <1>2, <1>3, JobsProceed, CallersProceed DEF Next, vars

\* Whether a session in the store is its holder's does not change while it stays there.
LEMMA EnteringStays ==
  ASSUME CoordinatorInvariant, [Next]_vars, NEW k \in Sessions, sess[k].life = "entered", sess'[k].life = "entered"
  PROVE  Entering(k)' <=> Entering(k)
<1>1. \A d \in Callers : Proceeds(d, call'[d]) BY CallsProceed DEF Proceed
<1>2. ASSUME NEW d \in Callers, call[d].awaits = k, call[d].pc = "entered" PROVE call'[d].pc = "entered" /\ call'[d].awaits = k
  BY <1>1, <1>2 DEF Proceeds, Still, Moved
<1>3. ASSUME NEW d \in Callers, call'[d].awaits = k, call'[d].pc = "entered" PROVE call[d].pc = "entered" /\ call[d].awaits = k
  BY <1>1, <1>3 DEF Proceeds, Still, Moved
<1> QED BY <1>2, <1>3 DEF Entering

--------
\* What a step does to the logs of the sessions.

LEMMA LogsMove ==
  ASSUME CoordinatorInvariant, Move
  PROVE  \A k \in Sessions : LogMoves(k)
<1>0. TypeOK /\ PoolOK BY DEF CoordinatorInvariant
<1>1. CASE sess' = sess BY <1>1 DEF LogMoves
<1>2. ASSUME NEW k \in Sessions, Others(k), LogMoves(k) PROVE \A l \in Sessions : LogMoves(l)
  BY <1>2 DEF Others, LogMoves
<1>3. ASSUME NEW k \in Sessions, Others(k), sess'[k].log = sess[k].log, sess'[k].life \notin {"unborn", "entered"}
      PROVE  \A l \in Sessions : LogMoves(l)
  <2>1. LogMoves(k) BY <1>3 DEF LogMoves
  <2> QED BY <1>2, <1>3, <2>1
<1>4. CASE \/ Idle \/ Repairs \/ Places \/ Appends \/ Reclaims \/ ExternalWrite \/ \E k \in Sessions : DrainCall(k)
  BY <1>1, <1>4 DEF Idle, Repairs, Places, Appends, Reclaims, ExternalWrite, DrainCall
<1>5. CASE RetireRun
  <2>1. PICK k \in Sessions : Others(k) /\ sess'[k].life = "retired" /\ (sess'[k].log = sess[k].log \/ sess'[k].log = <<>>)
    BY <1>0, <1>5, RetiredIs
  <2>2. LogMoves(k) BY <2>1 DEF LogMoves
  <2> QED BY <1>2, <2>1, <2>2
<1>6. CASE HotReload
  <2> SUFFICES ASSUME NEW k \in Sessions PROVE LogMoves(k) OBVIOUS
  <2>1. sess[k] \in SessionRecords BY <1>0 DEF TypeOK
  <2>2. sess'[k].log = sess[k].log /\ (sess'[k].life \in {"unborn", "entered"} => sess'[k] = sess[k])
    <3>1. CASE sess[k].life = "live" BY <1>0, <1>6, <3>1, ReloadedIs
    <3>2. CASE sess[k].life = "stuck"
      <4>1. sess'[k] = [sess[k] EXCEPT !.life = "retired"] BY Zenon, <1>6, <3>2 DEF HotReload
      <4> QED BY <2>1, <4>1 DEF SessionRecords
    <3>3. CASE sess[k].life \notin {"live", "stuck"} BY <1>0, <1>6, <3>3, ReloadedIs
    <3> QED BY <3>1, <3>2, <3>3
  <2> QED BY <2>2 DEF LogMoves
<1>7. ASSUME NEW k \in Sessions, Binds(k) \/ InitFails(k) \/ Acks(k) \/ GivesUp(k) PROVE \A l \in Sessions : LogMoves(l)
  <2>1. CASE Binds(k) \/ InitFails(k)
    <3>1. chain # <<>> /\ chain[1].kind \in Initial /\ chain[1].who = k /\ (sess' = InitDone(k) \/ sess' = InitFailed(k))
      BY <2>1 DEF Binds, InitFails, Initial
    <3>2. Others(k) /\ sess'[k].log = sess[k].log /\ sess'[k].life = sess[k].life BY <1>0, <3>1, RecordsAre
    <3>3. sess[k].init = "pending" BY <1>0, <3>1, FirstJob DEF JobOK
    <3>4. sess[k].life \notin {"unborn", "entered"} BY <3>3 DEF CoordinatorInvariant, InitShape
    <3> QED BY <1>3, <3>2, <3>4
  <2>2. CASE Acks(k)
    <3>1. Others(k) /\ sess'[k].log = sess[k].log /\ sess'[k].life = sess[k].life /\ sess[k].life \in {"live", "flushing"}
      BY <1>0, <2>2, RecordsAre, FirstDrain DEF Acks
    <3> QED BY <1>3, <3>1
  <2>3. CASE GivesUp(k)
    <3>1. CASE sess' = Life(k, "stuck")
      <4>1. Others(k) /\ sess'[k].log = sess[k].log /\ sess'[k].life = "stuck" BY <1>0, <3>1, RecordsAre
      <4> QED BY <1>3, <4>1
    <3> QED BY <1>1, <2>3, <3>1 DEF GivesUp
  <2> QED BY <1>7, <2>1, <2>2, <2>3
<1>8. ASSUME NEW k \in Sessions, Starts(k) \/ Outs(k) \/ RetireFlushed(k) PROVE \A l \in Sessions : LogMoves(l)
  <2>1. StartInit(k) \/ sess' = Life(k, "flushing") \/ sess' = Life(k, "stuck") \/ sess' = Life(k, "cleaning")
    BY <1>8 DEF Starts, Outs, RetireFlushed
  <2>2. Others(k) /\ sess'[k].log = sess[k].log /\ sess'[k].life \in {"live", "flushing", "stuck", "cleaning"}
    BY <1>0, <2>1, RecordsAre
  <2> QED BY <1>3, <2>2
<1>9. ASSUME NEW k \in Sessions, Attaches(k) PROVE \A l \in Sessions : LogMoves(l)
  <2>1. PICK log : Prepared(log) /\ sess'[k].life = "live" /\ sess'[k].log = log /\ Others(k) BY <1>9, AttachedIs
  <2>2. LogMoves(k) BY <2>1 DEF LogMoves
  <2> QED BY <1>2, <2>1, <2>2
<1>10. ASSUME NEW k \in Sessions, Enters(k) PROVE \A l \in Sessions : LogMoves(l)
  <2>1. Others(k) /\ sess'[k].life = "entered" /\ (sess'[k].log = <<>> \/ Prepared(sess'[k].log)) BY <1>10 DEF Enters
  <2>2. LogMoves(k) BY <1>10, <2>1 DEF LogMoves
  <2> QED BY <1>2, <2>1, <2>2
<1>11. ASSUME NEW k \in Sessions, Goes(k) PROVE \A l \in Sessions : LogMoves(l)
  <2>1. Others(k) /\ sess'[k].life = "unborn" /\ sess'[k].log = <<>> BY <1>0, <1>11, RecordsAre DEF Goes
  <2>2. LogMoves(k) BY <2>1 DEF LogMoves
  <2> QED BY <1>2, <2>1, <2>2
<1>12. ASSUME NEW k \in Sessions, SessionEvent(k) PROVE \A l \in Sessions : LogMoves(l)
  <2>1. Others(k) /\ sess'[k].life = sess[k].life /\ sess'[k].log = Append(sess[k].log, k) /\ sess[k].life = "live"
    BY <1>0, <1>12, RecordsAre DEF SessionEvent
  <2>2. LogMoves(k) BY <2>1 DEF LogMoves
  <2> QED BY <1>2, <2>1, <2>2
<1> QED BY <1>4, <1>5, <1>6, <1>7, <1>8, <1>9, <1>10, <1>11, <1>12 DEF Move

\* The stored log of before the step begins the one after it.
LEMMA StoredGrows ==
  ASSUME CoordinatorInvariant, Ledger, Move
  PROVE  /\ Len(stored.log) \in Nat /\ Len(stored'.log) \in Nat /\ Len(stored.log) <= Len(stored'.log)
         /\ \A i \in 1 .. Len(stored.log) : stored'.log[i] = stored.log[i]
         /\ entry.phase = "reserved" => stored'.log = stored.log
<1>0. stored.log \in Logs BY DEF CoordinatorInvariant, TypeOK, Artifacts
<1>1. PICK t : Adds(t) BY GrowthIs
<1>2. PICK r : r = stored'.log OBVIOUS
<1>3. t \in Logs /\ r = stored.log \o t /\ (entry.phase = "reserved" => t = <<>>) BY <1>1, <1>2 DEF Adds
<1>4. /\ Len(stored.log) \in Nat /\ Len(t) \in Nat /\ Len(r) = Len(stored.log) + Len(t)
      /\ \A i \in 1 .. Len(stored.log) : r[i] = stored.log[i]
  BY <1>0, <1>3, LongerIs
<1>5. entry.phase = "reserved" => r = stored.log BY <1>0, <1>3, ConcatEmptySeq DEF Logs
<1>6. Len(r) \in Nat /\ Len(stored.log) <= Len(r) BY <1>4
<1> QED BY <1>2, <1>4, <1>5, <1>6

LEMMA OldClosersStep ==
  ASSUME CoordinatorInvariant, Ledger, Move
  PROVE  OldClosers'
<1>0. TypeOK /\ OldClosers BY DEF CoordinatorInvariant, Ledger
<1>1. Len(stored.log) \in Nat /\ Len(stored'.log) \in Nat /\ Len(stored.log) <= Len(stored'.log) BY StoredGrows
<1>2. ASSUME NEW log, Len(log) \in Nat, Below(log, Len(stored.log)) PROVE Below(log, Len(stored'.log))
  BY <1>1, <1>2 DEF Below
<1>3. ASSUME NEW k \in Sessions PROVE Below(sess'[k].log, Len(stored'.log))
  <2>1. LogMoves(k) /\ sess[k].log \in Logs /\ Len(sess[k].log) \in Nat
    BY <1>0, LogsMove, LenProperties DEF TypeOK, SessionRecords, Logs
  <2>2. CASE sess'[k].log = sess[k].log BY <1>0, <1>2, <2>1, <2>2 DEF OldClosers
  <2>3. CASE sess'[k].log = <<>>
    <3>1. Len(<<>>) = 0 /\ 1 .. 0 = {} OBVIOUS
    <3> QED BY <2>3, <3>1 DEF Below
  <2>4. CASE Prepared(sess'[k].log) BY <1>2, <2>4, LenProperties DEF Prepared, Logs
  <2>5. CASE sess'[k].log = Append(sess[k].log, k)
    <3>1. k \in Int /\ k # Closer BY <1>3 DEF Sessions, Closer
    <3>2. PICK q : q = sess'[k].log OBVIOUS
    <3>3. /\ Len(q) = Len(sess[k].log) + 1 /\ q[Len(sess[k].log) + 1] = k
          /\ \A i \in 1 .. Len(sess[k].log) : q[i] = sess[k].log[i]
      BY <2>1, <2>5, <3>1, <3>2, AppendProperties DEF Logs
    <3>4. \A i \in 1 .. Len(q) : q[i] = Closer => i \in 1 .. Len(sess[k].log) BY <2>1, <3>1, <3>3
    <3>5. Below(q, Len(stored.log)) BY <1>0, <3>3, <3>4 DEF OldClosers, Below
    <3>6. Len(q) \in Nat BY <2>1, <3>3
    <3> QED BY <1>2, <3>2, <3>5, <3>6
  <2> QED BY <2>1, <2>2, <2>3, <2>4, <2>5 DEF LogMoves
<1> QED BY <1>3 DEF OldClosers

LEMMA BeginningsStep ==
  ASSUME CoordinatorInvariant, Ledger, Move, [Next]_vars
  PROVE  Beginnings'
<1>0. TypeOK /\ PoolOK /\ Beginnings BY DEF CoordinatorInvariant, Ledger
<1>1. ASSUME NEW k \in Sessions PROVE Begins(k)'
  <2>1. LogMoves(k) BY LogsMove
  <2>2. ASSUME sess'[k].life = "unborn" PROVE sess'[k].log = <<>> BY <1>0, <2>1, <2>2 DEF LogMoves, Beginnings, Begins
  <2>3. ASSUME sess'[k].life = "entered"
        PROVE  IF Entering(k)' THEN Covers(sess'[k].log, stored'.log) ELSE sess'[k].log = <<>>
    <3>1. CASE Enters(k) BY <3>1 DEF Enters, Prepared
    <3>2. CASE sess[k].life = "entered" /\ sess'[k].log = sess[k].log
      <4>1. Entering(k)' <=> Entering(k) BY <2>3, <3>2, EnteringStays
      <4>2. ASSUME Entering(k) PROVE stored'.log = stored.log
        <5>1. PICK c \in Callers : call[c].pc = "entered" /\ call[c].awaits = k BY <4>2 DEF Entering
        <5>2. HoldsIn(call, sess, c) BY <3>2, <5>1 DEF HoldsIn
        <5> QED BY <1>0, <5>2, HolderIs, StoredGrows
      <4> QED BY <1>0, <3>2, <4>1, <4>2 DEF Beginnings, Begins
    <3> QED BY <2>1, <2>3, <3>1, <3>2 DEF LogMoves
  <2> QED BY <2>2, <2>3 DEF Begins
<1> QED BY <1>1 DEF Beginnings

LEMMA SeededStep ==
  ASSUME CoordinatorInvariant, Ledger, Move
  PROVE  Seeded'
<1>0. TypeOK /\ PoolOK /\ Seeded /\ "init" \notin OfCalls BY DEF CoordinatorInvariant, Ledger, OfCalls
<1>1. CASE Idle \/ Repairs \/ Places \/ Appends \/ Reclaims
  <2>1. Carried(OfCalls) BY <1>1 DEF Idle, Repairs, Places, Appends, Reclaims
  <2>2. ~state.there => ~state'.there \/ (chain # <<>> /\ chain[1].kind # "init")
    <3>1. CASE Appends
      <4>1. state \in States /\ 1 \in Nat BY <1>0 DEF TypeOK
      <4> QED BY <3>1, <4>1, AdvancedIs DEF Appends
    <3>2. CASE Idle \/ Repairs \/ Reclaims BY <3>2 DEF Idle, Repairs, Reclaims, NoState
    <3>3. CASE Places BY <3>3 DEF Places, OfCalls
    <3> QED BY <1>1, <3>1, <3>2, <3>3
  <2> QED BY <1>0, <2>1, <2>2, SeededKept
<1>2. CASE RetireRun \/ \E k \in Sessions : Binds(k) \/ InitFails(k) \/ Acks(k) \/ GivesUp(k)
  <2>1. chain # <<>> /\ chain' = Tail(chain) BY <1>2 DEF RetireRun, Runs, Binds, InitFails, Acks, GivesUp
  <2> QED BY <1>0, <2>1, SeededTail
<1>3. CASE ExternalWrite \/ \E k \in Sessions : Enters(k) \/ Goes(k) \/ Outs(k) \/ SessionEvent(k)
  <2>1. chain' = chain /\ state' = state BY <1>3 DEF ExternalWrite, Enters, Goes, Outs, SessionEvent
  <2> QED BY <1>0, <2>1 DEF Seeded
<1>4. ASSUME NEW k \in Sessions, RetireFlushed(k) PROVE Seeded'
  <2>1. state' = state /\ (chain' = chain \/ chain' = Append(chain, Job("retire", k))) BY <1>4 DEF RetireFlushed
  <2>2. PICK j \in JobRecords : j = Job("retire", k) BY JobTyped, ConstantsTyped DEF OfSessions
  <2>3. New(j, {"retire"}) BY <2>2 DEF Job, New
  <2>4. Carried({"retire"}) BY <1>0, <2>1, <2>2, <2>3, CarriedSame, CarriedPush
  <2> QED BY <1>0, <2>1, <2>4, SeededKept
<1>5. ASSUME NEW k \in Sessions, DrainCall(k) \/ Starts(k) PROVE Seeded'
  <2>1. Len(sess[k].log) \in Nat BY <1>0, LenProperties DEF TypeOK, SessionRecords, Logs
  <2>2. PICK kind : /\ kind \in {"drain", "init"} /\ chain' = Append(chain, [Job(kind, k) EXCEPT !.upto = Len(sess[k].log)])
                    /\ kind = "init" => sess[k].log = <<>>
    BY <1>5 DEF DrainCall, Starts, StartInit
  <2>3. state' = state BY <1>5 DEF DrainCall, Starts
  <2>4. PICK j \in JobRecords : j = [Job(kind, k) EXCEPT !.upto = Len(sess[k].log)]
    BY <2>1, <2>2, JobTyped, ConstantsTyped DEF OfSessions
  <2>5. j.kind = kind /\ j.upto = Len(sess[k].log) BY <2>4 DEF Job
  <2>6. /\ Len(chain) \in Nat /\ Len(chain') = Len(chain) + 1 /\ chain'[Len(chain) + 1] = j
        /\ \A i \in 1 .. Len(chain) : chain'[i] = chain[i]
    BY <1>0, <2>2, <2>4, AppendIs DEF TypeOK
  <2>7. j.kind = "init" => j.upto = 0 BY <2>2, <2>5
  <2>8. ASSUME NEW i \in 1 .. Len(chain'), chain'[i].kind = "init", chain'[i].upto # 0 PROVE i \in 1 .. Len(chain)
    BY <2>6, <2>7, <2>8
  <2> QED BY <1>0, <2>3, <2>6, <2>8 DEF Seeded
<1>6. ASSUME NEW k \in Sessions, Attaches(k) PROVE Seeded'
  <2>1. PICK j \in JobRecords : j.kind = "suffix" /\ state.there /\ (chain' = chain \/ chain' = Append(chain, j))
    BY <1>6, AttachedIs
  <2>4. Carried({"suffix"}) BY <1>0, <2>1, CarriedSame, CarriedPush DEF New
  <2> QED BY <1>0, <2>1, <2>4, SeededKept
<1>7. CASE HotReload
  <2>1. ~state'.there /\ (chain' = <<>> \/ \E j : chain' = <<j>>) BY Zenon, <1>7 DEF HotReload, NoState
  <2>2. CASE chain' = <<>>
    <3>1. Len(chain') = 0 /\ 1 .. 0 = {} BY <2>2
    <3> QED BY <3>1 DEF Seeded
  <2>3. ASSUME NEW j, chain' = <<j>> PROVE Seeded'
    <3>1. Len(chain') = 1 /\ 1 .. 1 = {1} BY <2>3
    <3> QED BY <2>1, <3>1 DEF Seeded
  <2> QED BY <2>1, <2>2, <2>3
<1> QED BY <1>1, <1>2, <1>3, <1>4, <1>5, <1>6, <1>7 DEF Move

--------
\* What the running job found.

LEMMA FoundNew ==
  ASSUME HeadNew(chain')
  PROVE  Found'
BY DEF HeadNew, Found, Runs

\* The jobs that end leave a queue whose head has not started.
LEMMA EndsNew ==
  ASSUME TypeOK, PoolOK,
         \/ LoadEnd \/ CommitRetry \/ CommitEnd \/ CommitFault \/ CheckEnd \/ CreateEnd \/ AppendEnd
         \/ InitEnd \/ Suffix \/ DrainEnd \/ RetireRun
  PROVE  HeadNew(chain')
<1>0. chain # <<>>
  BY Zenon DEF LoadEnd, CommitRetry, CommitEnd, CommitFault, CheckEnd, CreateEnd, AppendEnd, InitEnd, Suffix, DrainEnd, RetireRun, Runs
<1>1. ASSUME chain' = Tail(chain) PROVE HeadNew(chain') BY <1>0, <1>1, TailNew
<1>2. CASE CheckEnd
  <2>1. ASSUME NEW fresh, NEW view \in Logs, Inspected(chain[1].who, fresh, view, Tail(chain)) PROVE HeadNew(chain')
    <3> DEFINE j == [Job("append", chain[1].who) EXCEPT !.upto = Len(view)]
    <3>1. chain' = Tail(chain) \/ chain' = Append(Tail(chain), j) BY <2>1 DEF Inspected
    <3>2. chain[1].who \in Callers \cup Sessions /\ Len(view) \in Nat
      BY <1>0, FirstJob, LenProperties DEF JobRecords, Logs
    <3>3. j \in JobRecords BY <3>2, JobTyped, ConstantsTyped DEF OfCalls
    <3>4. j.stage = "queued" BY DEF Job
    <3> HIDE DEF j
    <3> QED BY <1>0, <1>1, <3>1, <3>3, <3>4, TailNew
  <2>2. chain[1].who \in Callers BY <1>0, <1>2, FirstJob DEF CheckEnd, Runs, OfCalls
  <2> QED BY <1>1, <1>2, <2>1, <2>2, ViewTyped DEF CheckEnd
<1>3. CASE \/ LoadEnd \/ CommitRetry \/ CommitEnd \/ CommitFault \/ CreateEnd \/ AppendEnd \/ InitEnd \/ Suffix \/ DrainEnd \/ RetireRun
  <2>1. chain' = Tail(chain)
    BY Zenon, <1>3 DEF LoadEnd, CommitRetry, CommitEnd, CommitFault, CreateEnd, AppendEnd, InitEnd, Suffix, DrainEnd, DrainFailed, RetireRun
  <2> QED BY <1>1, <2>1
<1> QED BY <1>2, <1>3

\* A job that goes on to a stage is the same job.
LEMMA StageSame ==
  ASSUME TypeOK, chain # <<>>, NEW stage, NEW src, chain' = AtStage(stage, src)
  PROVE  chain'[1].upto = chain[1].upto
<1>1. Len(chain) \in Nat \ {0} /\ chain[1] \in JobRecords /\ chain \in Seq(JobRecords) /\ DOMAIN chain = 1 .. Len(chain)
  BY TailIs, LenProperties DEF TypeOK
<1> QED BY <1>1 DEF AtStage, JobRecords

\* A session that finds state nobody owns has no seed, so that state was only created.
LEMMA ClaimIs ==
  ASSUME CoordinatorInvariant, Ledger, Runs("init", "queued"), state.there, SeedMatches(SeedOf(chain[1]))
  PROVE  state.cursor = 0
<1>0. TypeOK /\ PoolOK /\ Seeded /\ Extent BY DEF CoordinatorInvariant, Ledger
<1>1. chain # <<>> /\ chain[1].kind = "init" /\ 1 \in 1 .. Len(chain) BY <1>0, TailIs DEF Runs, TypeOK
<1>2. chain[1].upto = 0 BY <1>0, <1>1 DEF Seeded
<1>3. PICK seed : seed = SeedOf(chain[1]) OBVIOUS
<1>4. Len(seed) = 0 BY <1>0, <1>1, <1>2, <1>3, SeedTyped DEF Initial
<1>5. stored.log \in Logs /\ state.cursor \in Nat /\ Len(stored.log) \in Nat /\ state.cursor <= Len(stored.log)
  BY <1>0, LenProperties DEF Extent, TypeOK, Artifacts, States, Logs
<1>6. PICK t : t = SubSeq(stored.log, 1, state.cursor) OBVIOUS
<1>7. IsRest(stored.log, 0, state.cursor, t) /\ 0 \in Nat BY <1>6 DEF IsRest
<1>8. state.cursor <= 0 + Len(t) /\ Len(t) \in Nat BY <1>5, <1>7, RestIs
<1>9. state.cursor = 0 \/ Len(t) <= Len(seed) BY <1>3, <1>6 DEF SeedMatches, Covers
<1> QED BY <1>4, <1>5, <1>8, <1>9

LEMMA FoundStage ==
  ASSUME CoordinatorInvariant, Ledger,
         LoadStart \/ CommitStart \/ CheckStart \/ CreateStart \/ AppendStart \/ AppendRead \/ Adopt \/ InitStart \/ DrainStart
  PROVE  Found'
<1>0. TypeOK /\ PoolOK /\ RunningShape /\ HeldIsStored /\ Found /\ stored \in Artifacts
  BY DEF CoordinatorInvariant, Ledger, TypeOK
<1>1. chain # <<>>
  BY DEF LoadStart, CommitStart, CheckStart, CreateStart, AppendStart, AppendRead, Adopt, InitStart, DrainStart, Runs
<1>2. CASE chain' = Tail(chain) BY <1>0, <1>1, <1>2, TailNew, FoundNew
<1>3. ASSUME NEW stage \in Stages, NEW src \in Artifacts, chain' = AtStage(stage, src)
      PROVE  chain' # <<>> /\ chain'[1].kind = chain[1].kind /\ chain'[1].stage = stage /\ chain'[1].src = src /\ chain'[1].upto = chain[1].upto
  BY <1>0, <1>1, <1>3, StageIs, StageSame
<1>4. CASE LoadStart
  <2>1. chain'[1].kind = "load" BY <1>0, <1>3, <1>4 DEF LoadStart, Runs, Stages
  <2> QED BY <2>1 DEF Found, Runs
<1>5. CASE (CommitStart \/ CheckStart) /\ chain' # Tail(chain)
  <2>1. PICK stage \in Stages : chain' = [chain EXCEPT ![1].stage = stage] BY <1>5 DEF CommitStart, CheckStart, Stages
  <2>2. chain[1].src \in Artifacts BY <1>0, <1>1, FirstJob DEF JobRecords
  <2>3. chain'[1].kind = chain[1].kind BY <1>0, <1>1, <2>1, <2>2, StageIs
  <2>4. chain'[1].kind \in {"commit", "check"} BY <1>5, <2>3 DEF CommitStart, CheckStart, Runs
  <2> QED BY <2>4 DEF Found, Runs
<1>6. CASE CreateStart /\ chain' # Tail(chain)
  <2>1. chain' = AtStage("read", stored) /\ ~state.there /\ UNCHANGED <<stored, state>> /\ chain[1].kind = "create"
    BY <1>6 DEF CreateStart, Runs
  <2>2. chain'[1].kind = "create" /\ chain'[1].src = stored BY <1>0, <1>3, <2>1 DEF Stages
  <2> QED BY <2>1, <2>2 DEF Found, Runs
<1>7. CASE (AppendStart \/ AppendRead) /\ chain' # Tail(chain)
  <2>1. /\ UNCHANGED <<stored, state>> /\ chain[1].kind = "append"
        /\ \/ chain' = AtStage("write", Absent)
           \/ ~state.there /\ \E stage \in Stages, src \in Artifacts : chain' = AtStage(stage, src)
    <3>1. entry.src \in Artifacts /\ chain[1].src \in Artifacts BY <1>0, <1>1, FirstJob DEF TypeOK, Entries, JobRecords
    <3> QED BY <1>0, <1>7, <3>1 DEF AppendStart, AppendRead, Runs, Found, Stages
  <2>2. chain'[1].kind = "append" /\ (chain'[1].stage = "write" \/ ~state.there)
    BY <1>3, <2>1, ConstantsTyped DEF Stages
  <2> QED BY <2>1, <2>2 DEF Found, Runs
<1>8. CASE Adopt
  <2>1. Repaired(stored) \in Artifacts /\ chain[1].src \in Artifacts /\ ~state.there /\ chain[1].kind = "append"
    BY <1>0, <1>1, <1>8, BalancedTyped, FirstJob DEF Adopt, Runs, JobRecords, Found
  <2>2. \/ state' = state /\ \E src \in Artifacts : chain' = AtStage("read", src)
        \/ \E src \in Artifacts : chain' = AtStage("write", src)
    BY <1>0, <1>8, <2>1 DEF Adopt
  <2>3. chain'[1].kind = "append" /\ (chain'[1].stage = "write" \/ ~state'.there) BY <1>3, <2>1, <2>2 DEF Stages
  <2> QED BY <2>3 DEF Found, Runs
<1>9. CASE InitStart /\ chain' # Tail(chain)
  <2>1. /\ stored' = stored /\ chain[1].kind = "init"
        /\ \/ state' = state /\ state.there /\ state.owner = Nobody /\ state.cursor = 0 /\ chain' = AtStage("claim", stored)
           \/ ~state'.there /\ chain' = AtStage("read", stored)
    BY <1>9, ClaimIs DEF InitStart, Runs, NoState
  <2>2. chain'[1].kind = "init" /\ chain'[1].src = stored BY <1>0, <1>3, <2>1 DEF Stages
  <2>3. \/ chain'[1].stage = "claim" /\ state'.there /\ state'.owner = Nobody /\ state'.cursor = 0
        \/ chain'[1].stage = "read" /\ ~state'.there
    BY <1>0, <1>3, <2>1 DEF Stages
  <2> QED BY <2>1, <2>2, <2>3 DEF Found, Runs
<1>10. CASE DrainStart /\ chain' # Tail(chain)
  <2>1. state' = state /\ chain[1].kind = "drain" /\ Fresh(chain[1]) # <<>> /\ chain' = AtStage("write", Absent)
    BY <1>10 DEF DrainStart, DrainFailed, Runs
  <2>2. chain'[1].kind = "drain" /\ chain'[1].upto = chain[1].upto BY <1>3, <2>1, ConstantsTyped DEF Stages
  <2>3. state.cursor < chain[1].upto
    <3>1. PICK k \in Sessions : k = chain[1].who BY <1>0, <1>1, <2>1, FirstDrain
    <3>2. sess[k].log \in Logs /\ chain[1].upto \in Nat /\ chain[1].upto <= Len(sess[k].log) /\ state.cursor \in Nat
      BY <1>0, <1>1, <2>1, <3>1, FirstJob DEF TypeOK, SessionRecords, JobRecords, JobOK, States
    <3>3. PICK t : t = Fresh(chain[1]) OBVIOUS
    <3>4. IsRest(sess[k].log, state.cursor, chain[1].upto, t) BY <3>1, <3>3 DEF Fresh, IsRest
    <3>5. chain[1].upto <= state.cursor => t = <<>> BY <3>2, <3>4, RestIs
    <3> QED BY <2>1, <3>2, <3>3, <3>5
  <2> QED BY <2>1, <2>2, <2>3 DEF Found, Runs
<1> QED BY <1>2, <1>4, <1>5, <1>6, <1>7, <1>8, <1>9, <1>10

LEMMA FoundStep ==
  ASSUME CoordinatorInvariant, Ledger, [Next]_vars
  PROVE  Found'
<1>0. TypeOK /\ PoolOK /\ RunningShape /\ HeldIsStored /\ NoLiveWithEntry /\ Found BY DEF CoordinatorInvariant, Ledger
<1>1. CASE UNCHANGED vars BY <1>0, <1>1 DEF vars, Found, Runs
<1>2. CASE Chain BY <1>0, <1>2, EndsNew, FoundNew, FoundStage DEF Chain
<1>3. CASE Steps
  <2>1. Frame BY <1>0, <1>3, StepsFrame
  <2>2. stored' = stored \/ ExternalWrite
    <3>1. ASSUME NEW c \in Callers, Resume(c) \/ Settle(c) \/ Abort(c) PROVE stored' = stored
      BY Zenon, <3>1 DEF Resume, Settle, MeetLive, Join, Turn, Seen, Caught, Reserved, Flushed, Release, Rollback, Publish, Enter, Abort
    <3> QED BY Zenon, <1>3, <3>1 DEF Steps, Begin, SessionEvent, Detach, RetireFlushed, DrainCall, Discard, Create, Veto, HotReload, Evict
  <2>3. CASE HeadNew(chain') BY <2>3, FoundNew
  <2>4. CASE chain # <<>> /\ chain' # <<>> /\ chain'[1] = chain[1]
    <3>1. chain[1].kind = "init" => entry.phase # "reserved" BY <1>0, <2>4, FirstJob DEF JobOK, Initial
    <3>2. \/ Runs("create", "read") \/ Runs("append", "read") \/ Runs("append", "adopt") \/ Runs("init", "read") \/ Runs("init", "claim") \/ Runs("drain", "write")
          => state' = state
      BY <1>0, <2>1, <2>4, <3>1 DEF Frame, RunningShape, Runs
    <3>3. ExternalWrite => stored.made /\ chain[1].kind # "init"
      <4>1. 1 \in DOMAIN chain BY <1>0, <2>4, TailIs, LenProperties DEF TypeOK
      <4> QED BY <4>1 DEF ExternalWrite
    <3>4. \A kind, stage : Runs(kind, stage)' <=> Runs(kind, stage) BY <2>4 DEF Runs
    <3>5. Runs("init", "read") => stored' = stored BY <2>2, <3>3 DEF Runs
    <3>6. Runs("create", "read") /\ stored'.made => chain[1].src.made BY <1>0, <2>2, <3>3 DEF Found
    <3> QED BY <1>0, <2>4, <3>2, <3>4, <3>5, <3>6 DEF Found
  <2> QED BY <2>1, <2>3, <2>4 DEF Frame
<1> QED BY <1>1, <1>2, <1>3 DEF Next

--------
\* The second invariant.

LEMMA LedgerInit == Init => Ledger /\ ClosedOnce
<1> SUFFICES ASSUME Init PROVE Ledger /\ ClosedOnce OBVIOUS
<1>1. state = NoState /\ chain = <<>> /\ \A k \in Sessions : sess[k] = NoSession BY DEF Init
<1>2. Len(chain) = 0 /\ 1 .. 0 = {} BY <1>1
<1>3. /\ NoSession.life = "unborn" /\ NoSession.log = <<>> /\ NoSession.init = "none" /\ Len(<<>>) = 0
      /\ NoState.owner = Nobody /\ NoState.cursor = 0 /\ ~NoState.there
  BY DEF NoSession, NoState
<1>4. Succession /\ Title /\ Found /\ Seeded BY <1>1, <1>2, <1>3 DEF Succession, Title, Entitled, Found, Runs, Seeded
<1>5. OldClosers
  <2>1. \A k \in Sessions : Len(sess[k].log) = 0 BY <1>1, <1>3
  <2> QED BY <1>2, <2>1 DEF OldClosers, Below
<1>6. Beginnings BY <1>1, <1>3 DEF Beginnings, Begins
<1>7. CASE stored = Absent
  <2>1. ~stored.made /\ stored.log = <<>> /\ ~stored.torn /\ Len(stored.log) = 0 BY <1>7 DEF Absent
  <2> QED BY <1>1, <1>2, <1>3, <1>4, <1>5, <1>6, <2>1 DEF Ledger, Extent, Proper, ClosedOnce
<1>8. CASE stored # Absent
  <2>1. PICK e \in {Old, Open} : stored.made /\ stored.log = <<e>> BY <1>8 DEF Init
  <2>2. stored.log # <<>> /\ Len(stored.log) = 1 /\ stored.log[1] # Closer /\ 1 .. 1 = {1}
    BY <2>1 DEF Old, Open, Closer
  <2>3. Extent BY <1>1, <1>3, <2>1, <2>2 DEF Extent, Proper
  <2>4. ClosedOnce BY <2>2 DEF ClosedOnce
  <2> QED BY <1>4, <1>5, <1>6, <2>3, <2>4 DEF Ledger
<1> QED BY <1>7, <1>8

LEMMA LedgerStep == CoordinatorInvariant /\ Ledger /\ [Next]_vars => Move /\ Ledger'
<1> SUFFICES ASSUME CoordinatorInvariant, Ledger, [Next]_vars PROVE Move /\ Ledger' OBVIOUS
<1>1. Move BY LedgerMoves
<1> QED BY <1>1, SuccessionStep, TitleStep, FoundStep, ExtentStep, OldClosersStep, BeginningsStep, SeededStep DEF Ledger

\* Who may write the log, where its next event goes and what its writers have of it fit
\* together at every step: an initialized session that may still write owns the log, its
\* owner's cursor is the end of the log, and a job that read the state finds it unchanged.
THEOREM LedgerHolds == Spec => []Ledger
BY InvariantInit, InvariantStep, LedgerInit, LedgerStep, PTL DEF Spec

\* An interrupted turn gets its closing event once: neither the repair of a commit, nor the
\* adoption by an append, nor a resumed session that was prepared with the closers, writes
\* them again, however many callers prepare the log and whoever writes it meanwhile.
THEOREM TurnsAreClosedOnce == Spec => []ClosedOnce
<1>1. CoordinatorInvariant /\ Ledger /\ ClosedOnce /\ [Next]_vars => ClosedOnce' BY LedgerStep, ClosedStep
<1> QED BY <1>1, InvariantInit, InvariantStep, LedgerInit, LedgerStep, PTL DEF Spec

--------
\* What a session acknowledged.

\* A session whose drain runs owns the log.
LEMMA DrainerOwns ==
  ASSUME CoordinatorInvariant, Ledger, NEW k \in Sessions, Acks(k)
  PROVE  state.owner = k /\ state'.owner = k
<1>0. TypeOK /\ PoolOK /\ Title /\ state \in States BY DEF CoordinatorInvariant, Ledger, TypeOK
<1>1. chain # <<>> /\ chain[1].kind = "drain" /\ chain[1].who = k /\ 1 \in 1 .. Len(chain)
  BY <1>0, TailIs DEF Acks, TypeOK
<1>2. Entitled(k) BY <1>0, <1>1, FirstDrain DEF Entitled, Works, Drains
<1>3. state' = state \/ \E t \in Logs : state' = Advanced(Len(t)) BY DEF Acks, Continues
<1>4. \A t \in Logs : Advanced(Len(t)).owner = state.owner BY <1>0, AdvancedIs, LenProperties DEF Logs
<1> QED BY <1>0, <1>2, <1>3, <1>4 DEF Title

LEMMA AccountsMove ==
  ASSUME CoordinatorInvariant, Ledger, Accounts, Move
  PROVE  \A k \in Sessions : Accrues(k)
<1>0. TypeOK /\ PoolOK /\ InitShape BY DEF CoordinatorInvariant
<1>1. CASE sess' = sess BY <1>1 DEF Accrues
<1>2. ASSUME NEW k \in Sessions, Others(k), Accrues(k) PROVE \A l \in Sessions : Accrues(l)
  BY <1>2 DEF Others, Accrues
<1>3. ASSUME NEW k \in Sessions PROVE sess[k].log \in Logs /\ Len(sess[k].log) \in Nat /\ sess[k].acked \in Nat
  BY <1>0, LenProperties DEF TypeOK, SessionRecords, Logs
<1>4. Len(<<>>) = 0 /\ 0 <= 0 OBVIOUS
<1>5. CASE Idle \/ Repairs \/ Places \/ Appends \/ Reclaims \/ ExternalWrite \/ \E k \in Sessions : DrainCall(k)
  BY <1>1, <1>5 DEF Idle, Repairs, Places, Appends, Reclaims, ExternalWrite, DrainCall
<1>6. CASE RetireRun
  <2>1. PICK k \in Sessions :
          /\ Others(k) /\ sess'[k].life = "retired"
          /\ \/ sess'[k].log = sess[k].log /\ sess'[k].acked = sess[k].acked /\ sess'[k].init = sess[k].init
             \/ sess'[k].log = <<>> /\ sess'[k].acked = 0 /\ sess'[k].init = "none"
    BY <1>0, <1>6, RetiredIs
  <2>2. Accrues(k) BY <1>4, <2>1 DEF Accrues
  <2> QED BY <1>2, <2>1, <2>2
<1>7. CASE HotReload
  <2> SUFFICES ASSUME NEW k \in Sessions PROVE Accrues(k) OBVIOUS
  <2>1. CASE sess[k].life = "live"
    <3>1. sess'[k].life = "live" /\ sess'[k].init = "pending" /\ sess'[k].log = sess[k].log /\ sess'[k].acked = Len(sess[k].log)
      BY <1>0, <1>7, <2>1, ReloadedIs
    <3>2. sess'[k].acked <= Len(sess'[k].log) BY <1>3, <3>1
    <3> QED BY <3>1, <3>2 DEF Accrues
  <2>2. CASE sess[k].life = "stuck"
    <3>1. sess'[k] = [sess[k] EXCEPT !.life = "retired"] /\ sess[k] \in SessionRecords
      BY Zenon, <1>0, <1>7, <2>2 DEF HotReload, TypeOK
    <3>2. sess'[k].life = "retired" /\ sess'[k].log = sess[k].log /\ sess'[k].acked = sess[k].acked /\ sess'[k].init = sess[k].init
      BY <3>1 DEF SessionRecords
    <3> QED BY <3>2 DEF Accrues
  <2>3. CASE sess[k].life \notin {"live", "stuck"}
    <3>1. sess'[k] = sess[k] BY <1>0, <1>7, <2>3, ReloadedIs
    <3> QED BY <3>1 DEF Accrues
  <2> QED BY <2>1, <2>2, <2>3
<1>8. ASSUME NEW k \in Sessions, Binds(k) \/ InitFails(k) PROVE \A l \in Sessions : Accrues(l)
  <2>1. /\ chain # <<>> /\ chain[1].kind \in Initial /\ chain[1].who = k
        /\ sess' = InitDone(k) \/ sess' = InitFailed(k)
        /\ sess' = InitDone(k) => state'.owner = k /\ chain[1].upto <= Len(stored'.log)
    <3>1. InitFailed(k)[k].init # InitDone(k)[k].init BY <1>0 DEF InitFailed, InitDone, TypeOK, SessionRecords
    <3> QED BY <1>8, <3>1 DEF Binds, InitFails, Initial
  <2>2. /\ sess'[k].life = sess[k].life /\ sess'[k].log = sess[k].log /\ sess'[k].acked = sess[k].acked /\ Others(k)
        /\ sess' = InitFailed(k) => sess'[k].init = "failed"
    BY <1>0, <2>1, RecordsAre
  <2>3. /\ sess[k].init = "pending" /\ sess[k].acked <= chain[1].upto /\ chain[1].upto <= Len(sess[k].log) /\ chain[1].upto \in Nat
    BY <1>0, <2>1, FirstJob DEF JobOK, JobRecords
  <2>4. sess[k].life # "cleaning" /\ sess[k].acked <= Len(sess[k].log) BY <1>0, <1>3, <2>3 DEF InitShape
  <2>5. sess' = InitDone(k) => sess[k].acked <= Len(stored'.log) BY <1>3, <2>1, <2>3, StoredGrows
  <2>6. Accrues(k) BY <2>1, <2>2, <2>4, <2>5 DEF Accrues
  <2> QED BY <1>2, <2>2, <2>6
<1>9. ASSUME NEW k \in Sessions, Acks(k) PROVE \A l \in Sessions : Accrues(l)
  <2>1. chain # <<>> /\ chain[1].kind = "drain" /\ chain[1].who = k /\ sess' = Acked(k, chain[1].upto)
    BY <1>9 DEF Acks
  <2>2. /\ sess'[k].life = sess[k].life /\ sess'[k].log = sess[k].log /\ sess'[k].acked = chain[1].upto /\ Others(k)
    BY <1>0, <2>1, RecordsAre
  <2>3. chain[1].upto <= Len(sess[k].log) /\ sess[k].life \in {"live", "flushing"}
    BY <1>0, <2>1, FirstJob, FirstDrain DEF JobOK
  <2>4. chain[1].upto <= Len(stored'.log)
    <3>1. ASSUME NEW t, Continues(k, t), chain[1].upto <= Len(stored.log) + Len(t), stored' = Written(t)
          PROVE  chain[1].upto <= Len(stored'.log)
      <4>1. PICK r : r = stored'.log OBVIOUS
      <4>2. r = stored.log \o t /\ t \in Logs /\ stored.log \in Logs
        BY <1>0, <3>1, <4>1 DEF Written, Continues, TypeOK, Artifacts
      <4>3. Len(r) = Len(stored.log) + Len(t) BY <4>2, LongerIs
      <4> QED BY <3>1, <4>1, <4>3
    <3> QED BY <1>9, <3>1 DEF Acks
  <2>5. state'.owner = k BY <1>9, DrainerOwns
  <2>6. Accrues(k) BY <2>2, <2>3, <2>4, <2>5 DEF Accrues
  <2> QED BY <1>2, <2>2, <2>6
<1>10. ASSUME NEW k \in Sessions, GivesUp(k) \/ Outs(k) \/ Starts(k) PROVE \A l \in Sessions : Accrues(l)
  <2>1. sess' = sess \/ sess' = Life(k, "stuck") \/ sess' = Life(k, "flushing") \/ StartInit(k)
    BY <1>10 DEF GivesUp, Outs, Starts
  <2>2. sess' # sess => /\ Others(k) /\ sess'[k].life # "cleaning" /\ sess'[k].log = sess[k].log /\ sess'[k].acked = sess[k].acked
                        /\ sess'[k].init = sess[k].init \/ sess'[k].init = "pending"
    BY <1>0, <2>1, RecordsAre
  <2>3. sess' # sess => Accrues(k) BY <2>2 DEF Accrues
  <2> QED BY <1>1, <1>2, <2>2, <2>3
<1>11. ASSUME NEW k \in Sessions, RetireFlushed(k) PROVE \A l \in Sessions : Accrues(l)
  <2>1. sess' = Life(k, "stuck") \/ (sess' = Life(k, "cleaning") /\ sess[k].init = "ok" /\ ~(sess[k].acked < Len(sess[k].log)))
    BY <1>11 DEF RetireFlushed, HasWork
  <2>2. /\ Others(k) /\ sess'[k].log = sess[k].log /\ sess'[k].acked = sess[k].acked /\ sess'[k].init = sess[k].init
        /\ sess'[k].life = "stuck" \/ (sess[k].init = "ok" /\ ~(sess[k].acked < Len(sess[k].log)))
    BY <1>0, <2>1, RecordsAre
  <2>3. Accrues(k) BY <2>2 DEF Accrues
  <2> QED BY <1>2, <2>2, <2>3
<1>12. ASSUME NEW k \in Sessions, Attaches(k) PROVE \A l \in Sessions : Accrues(l)
  <2>1. PICK log :
          /\ sess'[k].life = "live" /\ sess'[k].log = log /\ sess'[k].acked = Len(log) /\ Len(log) \in Nat /\ Others(k)
          /\ state'.owner = k
          /\ sess'[k].init = "pending" \/ Len(log) <= Len(stored.log)
    BY <1>12, AttachedIs
  <2>2. stored' = stored BY <1>12 DEF Attaches
  <2>3. sess'[k].acked <= Len(sess'[k].log) /\ (sess'[k].init # "ok" \/ sess'[k].acked <= Len(stored'.log))
    BY <2>1, <2>2
  <2>4. Accrues(k) BY <2>1, <2>3 DEF Accrues
  <2> QED BY <1>2, <2>1, <2>4
<1>13. ASSUME NEW k \in Sessions, Enters(k) PROVE \A l \in Sessions : Accrues(l)
  <2>1. /\ Others(k) /\ sess'[k].life = "entered" /\ sess'[k].init = "none" /\ sess'[k].acked = 0
        /\ sess'[k].log = <<>> \/ sess'[k].log \in Seq(Int)
    BY <1>0, <1>13 DEF Enters, InitShape, Prepared, Logs
  <2>2. PICK q : q = sess'[k].log OBVIOUS
  <2>3. Len(q) \in Nat BY <1>4, <2>1, <2>2, LenProperties
  <2>4. 0 <= Len(q) BY <2>3
  <2>5. Accrues(k) BY <2>1, <2>2, <2>4 DEF Accrues
  <2> QED BY <1>2, <2>1, <2>5
<1>14. ASSUME NEW k \in Sessions, Goes(k) PROVE \A l \in Sessions : Accrues(l)
  <2>1. Others(k) /\ sess'[k].life = "unborn" /\ sess'[k].init = "none" /\ sess'[k].acked = 0 /\ sess'[k].log = <<>>
    BY <1>0, <1>14, RecordsAre DEF Goes
  <2>2. Accrues(k) BY <1>4, <2>1 DEF Accrues
  <2> QED BY <1>2, <2>1, <2>2
<1>15. ASSUME NEW k \in Sessions, SessionEvent(k) PROVE \A l \in Sessions : Accrues(l)
  <2>1. /\ Others(k) /\ sess'[k].life = sess[k].life /\ sess'[k].init = sess[k].init /\ sess'[k].acked = sess[k].acked
        /\ sess'[k].log = Append(sess[k].log, k) /\ sess[k].life = "live"
    BY <1>0, <1>15, RecordsAre DEF SessionEvent
  <2>2. PICK q : q = sess'[k].log OBVIOUS
  <2>3. Len(q) = Len(sess[k].log) + 1 /\ \A i \in 1 .. Len(sess[k].log) : q[i] = sess[k].log[i]
    <3>1. k \in Int /\ sess[k].log \in Seq(Int) BY <1>3 DEF Sessions, Logs
    <3> QED BY <2>1, <2>2, <3>1, AppendProperties
  <2>4. sess[k].acked <= Len(q) /\ \A i \in 1 .. sess[k].acked : q[i] = sess[k].log[i] BY <1>3, <2>3 DEF Accounts
  <2>5. Accrues(k) BY <2>1, <2>2, <2>4 DEF Accrues
  <2> QED BY <1>2, <2>1, <2>5
<1> QED BY <1>5, <1>6, <1>7, <1>8, <1>9, <1>10, <1>11, <1>12, <1>13, <1>14, <1>15 DEF Move

\* Events that go on with the stored log leave its owner's log going on with it.
LEMMA ContinuesCovers ==
  ASSUME NEW log \in Logs, NEW s \in Logs, NEW t \in Logs, NEW r, r = s \o t, Covers(log, s),
         t # <<>> => Len(s) + Len(t) <= Len(log), \A i \in 1 .. Len(t) : t[i] = log[Len(s) + i]
  PROVE  Covers(log, r)
<1>1. /\ Len(s) \in Nat /\ Len(t) \in Nat /\ Len(r) = Len(s) + Len(t) /\ Len(log) \in Nat
      /\ \A i \in 1 .. Len(s) : r[i] = s[i]
      /\ \A i \in 1 .. Len(t) : r[Len(s) + i] = t[i]
  <2>1. Len(log) \in Nat BY LenProperties DEF Logs
  <2>2. Len(s) \in Nat /\ Len(t) \in Nat /\ Len(r) = Len(s) + Len(t) BY LongerIs
  <2>3. \A i \in 1 .. Len(s) : r[i] = s[i] BY LongerIs
  <2>4. \A i \in 1 .. Len(t) : r[Len(s) + i] = t[i] BY LongerIs
  <2> QED BY <2>1, <2>2, <2>3, <2>4
<1>2. Len(r) <= Len(log)
  <2>1. t = <<>> => Len(t) = 0 OBVIOUS
  <2> QED BY <1>1, <2>1 DEF Covers
<1>3. ASSUME NEW i \in 1 .. Len(r) PROVE log[i] = r[i]
  <2>1. CASE i \in 1 .. Len(s) BY <1>1, <2>1 DEF Covers
  <2>2. CASE i > Len(s)
    <3>1. PICK j : j = i - Len(s) OBVIOUS
    <3>2. j \in 1 .. Len(t) /\ i = Len(s) + j BY <1>1, <2>2, <3>1
    <3> QED BY <1>1, <3>2
  <2> QED BY <1>1, <2>1, <2>2
<1> QED BY <1>2, <1>3 DEF Covers

LEMMA FollowsStep ==
  ASSUME CoordinatorInvariant, Ledger, Move, Follows, "append" \notin raced'
  PROVE  Follows'
<1>0. TypeOK /\ PoolOK /\ OwnerPresent /\ stored.log \in Logs /\ state \in States
  BY DEF CoordinatorInvariant, TypeOK, Artifacts
<1>1. ASSUME NEW k \in Sessions PROVE k # Nobody /\ sess[k].log \in Logs
  BY <1>0 DEF Sessions, Nobody, TypeOK, SessionRecords
<1>2. ASSUME state'.owner = Nobody PROVE Follows' BY <1>1, <1>2 DEF Follows
<1>3. ASSUME stored' = stored, state'.owner = state.owner, \A k \in Sessions : state.owner = k => sess'[k].log = sess[k].log PROVE Follows'
  BY <1>3 DEF Follows
<1>4. CASE Idle \/ \E k \in Sessions : InitFails(k) \/ GivesUp(k) \/ Outs(k) \/ Starts(k) \/ RetireFlushed(k) \/ DrainCall(k)
  <2>1. /\ stored' = stored /\ state' = state
        /\ \/ sess' = sess
           \/ \E k \in Sessions : sess' = InitFailed(k) \/ StartInit(k) \/ \E life : sess' = Life(k, life)
    BY <1>4 DEF Idle, InitFails, GivesUp, Outs, Starts, RetireFlushed, DrainCall
  <2>2. \A k \in Sessions : sess'[k].log = sess[k].log BY <1>0, <2>1, RecordsAre DEF Others
  <2> QED BY <1>3, <2>1, <2>2
<1>5. CASE Repairs \/ Places \/ Appends \/ Reclaims \/ HotReload \/ ExternalWrite
  <2>1. CASE Appends
    <3>1. state.owner = Nobody /\ state' = Advanced(1) BY <2>1 DEF Appends
    <3>2. Advanced(1).owner = state.owner BY <1>0, AdvancedIs
    <3> QED BY <1>2, <3>1, <3>2
  <2>2. CASE Repairs \/ Reclaims \/ HotReload \/ ExternalWrite
    <3>1. state' = NoState \/ (state' = state /\ state.owner = Nobody)
      BY Zenon, <2>2 DEF Repairs, Reclaims, HotReload, ExternalWrite
    <3> QED BY <1>2, <3>1 DEF NoState
  <2>3. CASE Places BY <1>2, <2>3, StateIs DEF Places
  <2> QED BY <1>5, <2>1, <2>2, <2>3
<1>6. CASE RetireRun
  <2>1. PICK k \in Sessions : stored' = stored /\ Others(k) /\ IF state.owner = k THEN state' = NoState ELSE state' = state
    BY <1>0, <1>6, RetiredIs
  <2>2. CASE state.owner = k BY <1>2, <2>1, <2>2 DEF NoState
  <2>3. CASE state.owner # k BY <1>3, <2>1, <2>3 DEF Others
  <2> QED BY <2>2, <2>3
<1>7. ASSUME NEW k \in Sessions, Enters(k) \/ Goes(k) PROVE Follows'
  <2>1. stored' = stored /\ state' = state /\ Others(k) /\ sess[k].life \in {"unborn", "entered"}
    BY <1>0, <1>7, RecordsAre DEF Enters, Goes
  <2>2. state.owner # k BY <1>0, <1>1, <2>1 DEF OwnerPresent
  <2> QED BY <1>3, <2>1, <2>2 DEF Others
<1>8. ASSUME NEW k \in Sessions, NEW t, Continues(k, t), stored'.log = stored.log \o t, Covers(sess[k].log, stored.log),
             sess'[k].log = sess[k].log, state'.owner = k
      PROVE  Follows'
  <2>1. PICK r : r = stored'.log OBVIOUS
  <2>2. PICK log, s : log = sess[k].log /\ s = stored.log OBVIOUS
  <2>3. /\ log \in Logs /\ s \in Logs /\ t \in Logs /\ r = s \o t /\ Covers(log, s)
        /\ t # <<>> => Len(s) + Len(t) <= Len(log)
        /\ \A i \in 1 .. Len(t) : t[i] = log[Len(s) + i]
    BY <1>0, <1>1, <1>8, <2>1, <2>2 DEF Continues
  <2>4. Covers(log, r) BY <2>3, ContinuesCovers
  <2> QED BY <1>8, <2>1, <2>2, <2>4 DEF Follows
<1>9. ASSUME NEW k \in Sessions, Binds(k) PROVE Follows'
  <2>1. sess'[k].log = sess[k].log BY <1>0, <1>9, RecordsAre DEF Binds
  <2>2. Covers(sess[k].log, stored.log) /\ state'.owner = k BY <1>9 DEF Binds, Follows
  <2> QED BY <1>8, <1>9, <2>1, <2>2 DEF Binds
<1>10. ASSUME NEW k \in Sessions, Acks(k) PROVE Follows'
  <2>1. sess'[k].log = sess[k].log /\ Others(k) BY <1>0, <1>10, RecordsAre DEF Acks
  <2>2. state.owner = k /\ state'.owner = k /\ Covers(sess[k].log, stored.log) BY <1>10, DrainerOwns DEF Follows
  <2>3. stored' = stored \/ \E t : Continues(k, t) /\ stored'.log = stored.log \o t
    <3>1. \A t : Written(t).log = stored.log \o t BY DEF Written
    <3> QED BY Zenon, <1>10, <3>1 DEF Acks
  <2> QED BY <1>3, <1>8, <2>1, <2>2, <2>3 DEF Others
<1>11. ASSUME NEW k \in Sessions, Attaches(k) PROVE Follows'
  <2>1. state'.owner = k /\ Covers(sess'[k].log, stored.log) BY <1>11, AttachedIs DEF Prepared
  <2>2. stored' = stored BY <1>11 DEF Attaches
  <2> QED BY <2>1, <2>2 DEF Follows
<1>12. ASSUME NEW k \in Sessions, SessionEvent(k) PROVE Follows'
  <2>1. stored' = stored /\ state' = state /\ Others(k) /\ sess'[k].log = Append(sess[k].log, k)
    BY <1>0, <1>12, RecordsAre DEF SessionEvent
  <2>2. PICK q : q = sess'[k].log OBVIOUS
  <2>3. Len(q) = Len(sess[k].log) + 1 /\ \A i \in 1 .. Len(sess[k].log) : q[i] = sess[k].log[i]
    <3>1. k \in Int /\ sess[k].log \in Seq(Int) BY <1>1 DEF Sessions, Logs
    <3> QED BY <2>1, <2>2, <3>1, AppendProperties
  <2>4. Len(sess[k].log) \in Nat /\ Len(stored.log) \in Nat BY <1>0, <1>1, LenProperties DEF Logs
  <2>5. Covers(sess[k].log, stored.log) => Covers(q, stored.log) BY <2>3, <2>4 DEF Covers
  <2> QED BY <2>1, <2>2, <2>5 DEF Follows, Others
<1> QED BY <1>4, <1>5, <1>6, <1>7, <1>9, <1>10, <1>11, <1>12 DEF Move

LEMMA KeepsStep ==
  ASSUME CoordinatorInvariant, Ledger, Move, Accounts, Retains, Follows', [Next]_vars
  PROVE  Retains'
<1> SUFFICES ASSUME NEW k \in Sessions, sess'[k].init = "ok" PROVE Kept(sess[k].log, sess[k].acked)' BY DEF Retains
<1>1. Accrues(k) /\ sess[k].acked \in Nat BY AccountsMove DEF CoordinatorInvariant, TypeOK, SessionRecords
<1>2. /\ Len(stored.log) \in Nat /\ Len(stored'.log) \in Nat /\ Len(stored.log) <= Len(stored'.log)
      /\ \A i \in 1 .. Len(stored.log) : stored'.log[i] = stored.log[i]
  BY StoredGrows
<1>3. CASE /\ sess[k].init = "ok" /\ sess'[k].acked = sess[k].acked
           /\ \A i \in 1 .. sess[k].acked : sess'[k].log[i] = sess[k].log[i]
  <2>1. sess[k].acked <= Len(stored.log) /\ \A i \in 1 .. sess[k].acked : stored.log[i] = sess[k].log[i]
    BY <1>3 DEF Retains, Kept
  <2>2. sess[k].acked <= Len(stored'.log) /\ \A i \in 1 .. sess[k].acked : stored'.log[i] = sess'[k].log[i]
    BY <1>1, <1>2, <1>3, <2>1
  <2> QED BY <1>3, <2>2 DEF Kept
<1>4. CASE state'.owner = k /\ sess'[k].acked <= Len(stored'.log)
  <2>1. PICK log, r, n : log = sess'[k].log /\ r = stored'.log /\ n = sess'[k].acked OBVIOUS
  <2>2. Covers(log, r) /\ n <= Len(r) /\ Len(r) \in Nat BY <1>2, <1>4, <2>1 DEF Follows
  <2>3. n \in Nat
    <3>1. TypeOK' BY InvariantStep DEF CoordinatorInvariant
    <3> QED BY <2>1, <3>1 DEF TypeOK, SessionRecords
  <2> QED BY <2>1, <2>2, <2>3 DEF Covers, Kept
<1> QED BY <1>1, <1>3, <1>4 DEF Accrues

LEMMA AccountsStep ==
  ASSUME CoordinatorInvariant, Ledger, Move, Accounts
  PROVE  Accounts'
<1> SUFFICES ASSUME NEW k \in Sessions
             PROVE  /\ sess'[k].acked <= Len(sess'[k].log)
                    /\ sess'[k].life = "cleaning" => sess'[k].init = "ok" /\ sess'[k].acked = Len(sess'[k].log)
  BY DEF Accounts
<1>1. Accrues(k) /\ sess[k].acked \in Nat /\ Len(sess[k].log) \in Nat
  BY AccountsMove, LenProperties DEF CoordinatorInvariant, TypeOK, SessionRecords, Logs
<1>2. ~(sess[k].acked < Len(sess[k].log)) => sess[k].acked = Len(sess[k].log) BY <1>1 DEF Accounts
<1> QED BY <1>1, <1>2 DEF Accrues, Accounts

\* A cold append under an owner stays on record.
LEMMA RacedStays == [Next]_vars /\ "append" \in raced => "append" \in raced'
<1> SUFFICES ASSUME [Next]_vars PROVE raced' = raced \/ \E e : raced' = raced \cup {e} OBVIOUS
<1>1. CASE UNCHANGED vars BY <1>1 DEF vars
<1>2. CASE Chain
  BY Zenon, <1>2 DEF Chain, LoadStart, LoadEnd, CommitStart, CommitRetry, CommitEnd, CommitFault, CheckStart, CheckEnd, CreateStart,
     CreateEnd, AppendStart, AppendRead, Adopt, AppendEnd, InitStart, InitEnd, Suffix, DrainStart, DrainEnd, RetireRun
<1>3. CASE Steps
  <2>1. ASSUME NEW c \in Callers, Resume(c) \/ Settle(c) \/ Abort(c) PROVE raced' = raced \/ \E e : raced' = raced \cup {e}
    BY Zenon, <2>1 DEF Resume, Settle, MeetLive, Join, Turn, Seen, Caught, Reserved, Flushed, Release, Rollback, Publish, Enter, Abort
  <2> QED BY Zenon, <1>3, <2>1 DEF Steps, Begin, SessionEvent, Detach, RetireFlushed, DrainCall, Discard, Create, Veto, HotReload, ExternalWrite, Evict
<1> QED BY <1>1, <1>2, <1>3 DEF Next

LEMMA AgreementInit == Init => Agreement /\ Accounts
<1> SUFFICES ASSUME Init PROVE Agreement /\ Accounts OBVIOUS
<1>1. state.owner = Nobody /\ \A k \in Sessions : k # Nobody /\ sess[k] = NoSession
  BY DEF Init, NoState, Sessions, Nobody
<1>2. NoSession.acked = 0 /\ Len(NoSession.log) = 0 /\ NoSession.init = "none" /\ NoSession.life = "unborn"
  BY DEF NoSession
<1> QED BY <1>1, <1>2 DEF Agreement, Follows, Retains, Accounts

LEMMA AgreementStep == CoordinatorInvariant /\ Ledger /\ Agreement /\ Accounts /\ [Next]_vars => Agreement' /\ Accounts'
<1> SUFFICES ASSUME CoordinatorInvariant, Ledger, Agreement, Accounts, [Next]_vars PROVE Agreement' /\ Accounts'
  OBVIOUS
<1>1. Move /\ Accounts' BY LedgerStep, AccountsStep
<1>2. ASSUME "append" \notin raced' PROVE Follows' /\ Retains'
  BY <1>1, <1>2, RacedStays, FollowsStep, KeepsStep DEF Agreement
<1> QED BY <1>1, <1>2 DEF Agreement

\* A log that agrees with another on its first n events has them.
LEMMA ViewAnswers ==
  ASSUME NEW s \in Logs, NEW view \in Logs, NEW n \in Nat, n <= Len(s), n <= Len(view), \A i \in 1 .. n : view[i] = s[i]
  PROVE  Covers(view, SubSeq(s, 1, n))
<1>1. PICK t : t = SubSeq(s, 1, n) OBVIOUS
<1>2. IsRest(s, 0, n, t) /\ 0 \in Nat BY <1>1 DEF IsRest
<1>3. Len(t) \in Nat /\ (0 < n => Len(t) = n - 0) /\ (n <= 0 => t = <<>>) /\ \A i \in 1 .. Len(t) : t[i] = s[0 + i]
  BY <1>2, RestIs
<1>4. t = <<>> => Len(t) = 0 OBVIOUS
<1>5. Len(t) = n /\ \A i \in 1 .. n : t[i] = s[i] BY <1>3, <1>4
<1> QED BY <1>1, <1>5 DEF Covers

LEMMA KeptCovers ==
  ASSUME TypeOK, NEW log \in Logs, NEW n \in Nat, n <= Len(log), Kept(log, n)
  PROVE  Covers(stored.log, SubSeq(log, 1, n))
BY ViewAnswers DEF Kept, TypeOK, Artifacts

LEMMA AgreementAcked == CoordinatorInvariant /\ Agreement /\ Accounts => AckedIsStored
<1> SUFFICES ASSUME CoordinatorInvariant, Agreement, Accounts, "append" \notin raced, NEW k \in Sessions, sess[k].init = "ok"
             PROVE  /\ Covers(stored.log, SubSeq(sess[k].log, 1, sess[k].acked))
                    /\ sess[k].life = "cleaning" => Covers(stored.log, sess[k].log)
  BY DEF AckedIsStored
<1>1. TypeOK /\ sess[k].log \in Logs /\ sess[k].acked \in Nat /\ sess[k].acked <= Len(sess[k].log) /\ Kept(sess[k].log, sess[k].acked)
  BY DEF CoordinatorInvariant, Agreement, Accounts, Retains, TypeOK, SessionRecords
<1>2. Covers(stored.log, SubSeq(sess[k].log, 1, sess[k].acked)) BY <1>1, KeptCovers
<1>3. ASSUME sess[k].life = "cleaning" PROVE Covers(stored.log, sess[k].log)
  <2>1. Kept(sess[k].log, Len(sess[k].log)) BY <1>1, <1>3 DEF Accounts
  <2> QED BY <2>1 DEF Kept, Covers
<1> QED BY <1>2, <1>3

\* Acknowledged is stored: as long as no cold append was written under an owner, every event
\* that the write-behind of an initialized session acknowledged is in the stored log at its
\* place, through reloads, failed writes, resumes and other writers; and a session that is
\* cleaned up leaves its whole log behind.
THEOREM AcknowledgedIsStored == Spec => []AckedIsStored
BY InvariantInit, InvariantStep, LedgerInit, LedgerStep, AgreementInit, AgreementStep, AgreementAcked, PTL DEF Spec

--------
\* What a call answers.

LEMMA QueueMoves ==
  ASSUME CoordinatorInvariant, Move
  PROVE  Carried(OfCalls \cup OfSessions)
<1>0. TypeOK /\ \A k \in Sessions : Len(sess[k].log) \in Nat
  BY LenProperties DEF CoordinatorInvariant, TypeOK, SessionRecords, Logs
<1>1. CASE Idle \/ Repairs \/ Places \/ Appends \/ Reclaims
  <2>1. Carried(OfCalls) BY <1>1 DEF Idle, Repairs, Places, Appends, Reclaims
  <2> QED BY <2>1 DEF Carried, CarriedBy, New
<1>2. CASE RetireRun \/ \E k \in Sessions : Binds(k) \/ InitFails(k) \/ Acks(k) \/ GivesUp(k)
  <2>1. chain # <<>> /\ chain' = Tail(chain) BY <1>2 DEF RetireRun, Runs, Binds, InitFails, Acks, GivesUp
  <2> QED BY <1>0, <2>1, CarriedTail
<1>3. CASE ExternalWrite \/ \E k \in Sessions : Enters(k) \/ Goes(k) \/ Outs(k) \/ SessionEvent(k)
  <2>1. chain' = chain BY <1>3 DEF ExternalWrite, Enters, Goes, Outs, SessionEvent
  <2> QED BY <1>0, <2>1, CarriedSame
<1>4. ASSUME NEW k \in Sessions, Starts(k) \/ RetireFlushed(k) \/ DrainCall(k) PROVE Carried(OfCalls \cup OfSessions)
  <2>1. \/ chain' = chain
        \/ \E kind \in OfSessions : chain' = Append(chain, Job(kind, k)) \/ chain' = Append(chain, [Job(kind, k) EXCEPT !.upto = Len(sess[k].log)])
    BY <1>4 DEF Starts, StartInit, RetireFlushed, DrainCall, OfSessions
  <2> SUFFICES ASSUME chain' # chain PROVE Carried(OfCalls \cup OfSessions) BY <1>0, CarriedSame
  <2>2. PICK kind \in OfSessions, u \in Nat : chain' = Append(chain, Job(kind, k)) \/ chain' = Append(chain, [Job(kind, k) EXCEPT !.upto = u])
    BY <1>0, <2>1
  <2>3. Job(kind, k) \in JobRecords /\ [Job(kind, k) EXCEPT !.upto = u] \in JobRecords BY JobTyped, ConstantsTyped
  <2>4. PICK j \in JobRecords : j.kind = kind /\ chain' = Append(chain, j) BY <2>2, <2>3 DEF Job
  <2> QED BY <1>0, <2>4, CarriedPush DEF New, OfSessions
<1>5. ASSUME NEW k \in Sessions, Attaches(k) PROVE Carried(OfCalls \cup OfSessions)
  <2>1. PICK j \in JobRecords : j.kind = "suffix" /\ (chain' = chain \/ chain' = Append(chain, j)) BY <1>5, AttachedIs
  <2> QED BY <1>0, <2>1, CarriedSame, CarriedPush DEF New, OfSessions
<1>6. CASE HotReload
  <2>1. chain' = <<>> \/ \E k : chain' = <<[Job("init", k) EXCEPT !.upto = Len(sess[k].log)]>>
    BY Zenon, <1>6 DEF HotReload
  <2>2. CASE chain' = <<>>
    <3>1. Len(chain') = 0 /\ 1 .. 0 = {} BY <2>2
    <3> QED BY <3>1 DEF Carried, CarriedBy
  <2>3. ASSUME NEW k, chain' = <<[Job("init", k) EXCEPT !.upto = Len(sess[k].log)]>> PROVE Carried(OfCalls \cup OfSessions)
    <3>1. Len(chain') = 1 /\ 1 .. 1 = {1} /\ chain'[1].kind = "init" BY <2>3 DEF Job
    <3>2. New(chain'[1], OfCalls \cup OfSessions) BY <3>1 DEF New, OfSessions
    <3> QED BY <3>1, <3>2 DEF Carried, CarriedBy
  <2> QED BY <2>1, <2>2, <2>3
<1> QED BY <1>1, <1>2, <1>3, <1>4, <1>5, <1>6 DEF Move

LEMMA NoneMisses ==
  ASSUME CoordinatorInvariant, Agreement, Accounts, Reads, NEW d \in Callers
  PROVE  ~Misses(d)
<1>0. TypeOK /\ PoolOK /\ HeldIsStored BY DEF CoordinatorInvariant
<1>1. /\ stored.log \in Logs /\ Len(stored.log) \in Nat /\ call[d] \in CallRecords /\ call[d].since \in Nat /\ call[d].upto \in Nat
      /\ call[d].src \in Artifacts /\ entry.src \in Artifacts
  BY <1>0, LenProperties DEF TypeOK, Artifacts, Logs, CallRecords, Entries
<1>2. call[d].since <= Len(stored.log) BY DEF Reads, Times
<1>3. ASSUME Runs("check", "current"), chain[1].who = d PROVE Answers(d, Balanced(call[d].src))
  <2>1. chain # <<>> /\ chain[1].kind = "check" /\ chain[1].stage # "queued" /\ 1 \in 1 .. Len(chain)
    BY <1>0, <1>3, TailIs DEF Runs, TypeOK
  <2>2. call[d].pc = "check" BY <1>0, <1>3, <2>1, FirstJob DEF Awaited
  <2>3. PICK src \in Artifacts : src = call[d].src BY <1>1
  <2>4. chain[1].src = src BY <1>3, <2>1, <2>2, <2>3 DEF Reads, Checks
  <2>5. Covers(stored.log, src.log) /\ call[d].since <= Len(src.log) BY <1>3, <2>4 DEF Reads, FoundCurrent
  <2>6. src.log \in Logs /\ Closers(src) \in Logs /\ Balanced(src) \in Logs BY BalancedTyped DEF Artifacts
  <2>7. PICK view : view = Balanced(src) OBVIOUS
  <2>8. view = src.log \o Closers(src) BY <2>7 DEF Balanced
  <2>9. /\ Len(src.log) \in Nat /\ Len(Closers(src)) \in Nat /\ Len(view) = Len(src.log) + Len(Closers(src))
        /\ \A i \in 1 .. Len(src.log) : view[i] = src.log[i]
    BY <2>6, <2>8, LongerIs
  <2>10. call[d].since <= Len(view) /\ \A i \in 1 .. call[d].since : view[i] = stored.log[i]
    BY <1>1, <2>5, <2>9 DEF Covers
  <2>11. Covers(view, SubSeq(stored.log, 1, call[d].since)) BY <1>1, <1>2, <2>6, <2>7, <2>10, ViewAnswers
  <2> QED BY <2>3, <2>7, <2>11 DEF Answers
<1>4. ASSUME call[d].pc = "reserved" PROVE Answers(d, Balanced(entry.src))
  <2>1. entry.phase = "reserved" BY <1>0, <1>4, HolderIs DEF HoldsIn
  <2>2. Balanced(entry.src) = stored.log BY <1>0, <2>1 DEF HeldIsStored
  <2>3. Covers(stored.log, SubSeq(stored.log, 1, call[d].since)) BY <1>1, <1>2, ViewAnswers
  <2> QED BY <2>2, <2>3 DEF Answers
<1>5. ASSUME call[d].pc = "flush", sess[call[d].awaits].init = "ok", sess[call[d].awaits].acked >= call[d].upto, "append" \notin raced
      PROVE  Covers(stored.log, SubSeq(sess[call[d].awaits].log, 1, call[d].upto))
  <2>1. PICK k \in Sessions : k = call[d].awaits BY <1>5 DEF Reads, Times
  <2>2. sess[k].log \in Logs /\ sess[k].acked \in Nat /\ Len(sess[k].log) \in Nat
    BY <1>0, LenProperties DEF TypeOK, SessionRecords, Logs
  <2>3. sess[k].acked <= Len(sess[k].log) /\ Kept(sess[k].log, sess[k].acked) /\ call[d].upto <= sess[k].acked
    BY <1>1, <1>5, <2>1, <2>2 DEF Accounts, Agreement, Retains
  <2>4. call[d].upto <= Len(sess[k].log) /\ Kept(sess[k].log, call[d].upto) BY <1>1, <2>2, <2>3 DEF Kept
  <2> QED BY <1>0, <1>1, <2>1, <2>2, <2>4, KeptCovers
<1> QED BY <1>3, <1>4, <1>5 DEF Misses

\* The caller of a queued check has not moved, unless it just queued the check.
LEMMA CheckerIs ==
  ASSUME CoordinatorInvariant, CoordinatorInvariant', Proceed(call'), NEW i \in 1 .. Len(chain'), NEW c \in Callers,
         chain'[i].kind = "check", chain'[i].who = c, call'[c].pc = "check"
  PROVE  Still(call[c], call'[c]) \/ (i = Len(chain) + 1 /\ chain'[i].src = call'[c].src)
<1>1. CASE Moved(c, call'[c])
  <2>1. call'[c].src = call[c].src /\ chain' = Append(chain, [Job("check", c) EXCEPT !.src = call[c].src])
    BY <1>1 DEF Moved
  <2>2. call[c].src \in Artifacts BY DEF CoordinatorInvariant, TypeOK, CallRecords
  <2>3. PICK j \in JobRecords : j = [Job("check", c) EXCEPT !.src = call[c].src] BY <2>2, JobTyped DEF OfCalls
  <2>4. j.kind = "check" /\ j.who = c /\ j.src = call[c].src BY <2>3 DEF Job
  <2>5. Len(chain) \in Nat /\ Len(chain') = Len(chain) + 1 /\ chain'[Len(chain) + 1] = j
    BY <2>1, <2>3, AppendIs DEF CoordinatorInvariant, TypeOK
  <2>6. \A m, n \in 1 .. Len(chain') : m < n /\ chain'[m].kind = "check" /\ chain'[n].kind = "check" => chain'[m].who # chain'[n].who
    BY DEF CoordinatorInvariant, PoolOK, Pool, Queue, PairOK, Awaited
  <2>7. i = Len(chain) + 1 BY <2>4, <2>5, <2>6
  <2> QED BY <2>1, <2>4, <2>5, <2>7
<1> QED BY <1>1 DEF Proceed, Proceeds

LEMMA ChecksStep ==
  ASSUME CoordinatorInvariant, CoordinatorInvariant', Move, Proceed(call'), Checks
  PROVE  Checks'
<1> SUFFICES ASSUME NEW i \in 1 .. Len(chain'), NEW c \in Callers, chain'[i].kind = "check", chain'[i].who = c, call'[c].pc = "check",
                    Still(call[c], call'[c])
             PROVE  chain'[i].src = call'[c].src
  BY CheckerIs DEF Checks
<1>1. call[c].pc = "check" /\ call'[c].src = call[c].src BY DEF Still
<1>2. PICK d \in {0, 1} : i + d \in 1 .. Len(chain) /\ Same(chain'[i], chain[i + d])
  BY <1>1, QueueMoves DEF Carried, CarriedBy, New
<1> QED BY <1>1, <1>2 DEF Checks, Same

LEMMA TimesStep ==
  ASSUME CoordinatorInvariant, Ledger, Move, Proceed(call'), Times
  PROVE  Times'
<1> SUFFICES ASSUME NEW c \in Callers
             PROVE  call'[c].since <= Len(stored'.log) /\ (call'[c].pc = "flush" => call'[c].awaits \in Sessions)
  BY DEF Times
<1>1. Len(stored.log) \in Nat /\ Len(stored'.log) \in Nat /\ Len(stored.log) <= Len(stored'.log) BY StoredGrows
<1>2. call[c].since \in Nat /\ call[c].since <= Len(stored.log)
  BY DEF CoordinatorInvariant, TypeOK, CallRecords, Times
<1>3. call'[c].since \in {call[c].since, 0, Len(stored.log)} /\ (call'[c].pc = "flush" => call'[c].awaits \in Sessions)
  BY DEF Proceed, Proceeds, Still, Moved, Times
<1> QED BY <1>1, <1>2, <1>3

LEMMA FoundCurrentStep ==
  ASSUME CoordinatorInvariant, CoordinatorInvariant', Ledger, Move, Proceed(call'), Times, FoundCurrent, [Next]_vars
  PROVE  FoundCurrent'
<1>0. TypeOK /\ PoolOK /\ HeldIsStored /\ NoLiveWithEntry BY DEF CoordinatorInvariant
<1>1. CASE HeadNew(chain') BY <1>1 DEF HeadNew, FoundCurrent, Runs
<1>2. CASE chain # <<>> /\ chain' # <<>> /\ chain'[1] = chain[1]
  <2> SUFFICES ASSUME NEW c \in Callers, Runs("check", "current"), chain[1].who = c
               PROVE  Covers(stored'.log, chain[1].src.log) /\ call'[c].since <= Len(chain[1].src.log)
    BY <1>2 DEF FoundCurrent, Runs
  <2>1. Covers(stored.log, chain[1].src.log) /\ call[c].since <= Len(chain[1].src.log) BY DEF FoundCurrent
  <2>2. Covers(stored'.log, chain[1].src.log)
    <3>1. PICK t : t = chain[1].src.log OBVIOUS
    <3>2. Len(t) \in Nat BY <1>0, <1>2, <3>1, FirstJob, LenProperties DEF JobRecords, Artifacts, Logs
    <3> QED BY <2>1, <3>1, <3>2, StoredGrows DEF Covers
  <2>3. 1 \in 1 .. Len(chain') /\ Len(chain) + 1 # 1 /\ TypeOK' /\ PoolOK'
    BY <1>0, <1>2, TailIs DEF CoordinatorInvariant, TypeOK
  <2>4. chain'[1].kind = "check" /\ chain'[1].who = c /\ chain'[1].stage = "current" BY <1>2 DEF Runs
  <2>5. call'[c].pc = "check" BY <2>3, <2>4 DEF PoolOK, Pool, Queue, JobOK, Awaited
  <2>6. Still(call[c], call'[c]) BY <2>3, <2>4, <2>5, CheckerIs
  <2> QED BY <2>1, <2>2, <2>6 DEF Still
<1>3. CASE UNCHANGED vars BY <1>1, <1>2, <1>3 DEF vars, HeadNew
<1>4. CASE Steps BY <1>0, <1>1, <1>2, <1>4, StepsFrame DEF Frame
<1>5. ASSUME chain # <<>>, chain' = Tail(chain) PROVE FoundCurrent' BY <1>0, <1>1, <1>5, TailNew
<1>6. ASSUME chain # <<>>, chain[1].kind # "check", NEW stage \in Stages, NEW src \in Artifacts,
             chain' = AtStage(stage, src) \/ (chain' = [chain EXCEPT ![1].stage = stage] /\ src = chain[1].src)
      PROVE  FoundCurrent'
  <2>1. chain'[1].kind # "check" BY <1>0, <1>6, StageIs
  <2> QED BY <2>1 DEF FoundCurrent, Runs
<1>7. CASE CheckStart
  <2>1. chain # <<>> /\ call' = call /\ stored' = stored BY <1>7 DEF CheckStart, Runs
  <2>2. CASE stored = chain[1].src /\ chain' = [chain EXCEPT ![1].stage = "current"]
    <3>1. chain'[1].src = stored BY <1>0, <2>1, <2>2, StageIs DEF Stages, TypeOK
    <3>2. Covers(stored.log, stored.log) BY <1>0, CoversSelf DEF TypeOK, Artifacts
    <3> QED BY <2>1, <3>1, <3>2 DEF FoundCurrent, Times
  <2>3. CASE chain' = [chain EXCEPT ![1].stage = "stale"]
    <3>1. chain'[1].stage = "stale" BY <1>0, <2>1, <2>3, StageIs, FirstJob DEF Stages, JobRecords
    <3> QED BY <3>1 DEF FoundCurrent, Runs
  <2> QED BY <1>5, <1>7, <2>1, <2>2, <2>3 DEF CheckStart
<1>8. CASE LoadStart \/ CommitStart \/ CreateStart \/ AppendStart \/ AppendRead \/ Adopt \/ InitStart \/ DrainStart
  <2>1. chain # <<>> /\ chain[1].kind # "check" /\ chain[1].src \in Artifacts /\ stored \in Artifacts /\ entry.src \in Artifacts
    <3>1. chain # <<>> /\ chain[1].kind # "check"
      BY <1>8 DEF LoadStart, CommitStart, CreateStart, AppendStart, AppendRead, Adopt, InitStart, DrainStart, Runs
    <3> QED BY <1>0, <3>1, FirstJob DEF TypeOK, Entries, JobRecords
  <2>2. \/ chain' = Tail(chain)
        \/ \E stage \in Stages : chain' = [chain EXCEPT ![1].stage = stage]
        \/ \E stage \in Stages, src \in {stored, entry.src, Absent, Repaired(chain[1].src), chain[1].src} : chain' = AtStage(stage, src)
    BY <1>8 DEF LoadStart, CommitStart, CreateStart, AppendStart, AppendRead, Adopt, InitStart, DrainStart, DrainFailed, Stages
  <2>3. \A src \in {stored, entry.src, Absent, Repaired(chain[1].src), chain[1].src} : src \in Artifacts
    BY <2>1, BalancedTyped, ConstantsTyped
  <2> QED BY <1>5, <1>6, <2>1, <2>2, <2>3
<1> QED BY <1>0, <1>1, <1>3, <1>4, <1>7, <1>8, EndsNew DEF Next, Chain

LEMMA ReadsInit == Init => Reads
<1> SUFFICES ASSUME Init PROVE Reads OBVIOUS
<1>1. chain = <<>> /\ Len(stored.log) \in Nat /\ \A c \in Callers : call[c] = NoCall
  BY InvariantInit, LenProperties DEF Init, CoordinatorInvariant, TypeOK, Artifacts, Logs
<1>2. NoCall.since = 0 /\ NoCall.pc = "idle" /\ NoCall.fresh BY DEF NoCall
<1>3. Len(chain) = 0 /\ 1 .. 0 = {} BY <1>1
<1> QED BY <1>1, <1>2, <1>3 DEF Reads, Times, Checks, FoundCurrent, Runs, NoStaleRead

LEMMA ReadsStep ==
  CoordinatorInvariant /\ Ledger /\ Agreement /\ Accounts /\ Reads /\ [Next]_vars => Reads'
<1> SUFFICES ASSUME CoordinatorInvariant, Ledger, Agreement, Accounts, Reads, [Next]_vars PROVE Reads' OBVIOUS
<1>1. CoordinatorInvariant' /\ Move /\ Proceed(call') BY InvariantStep, LedgerStep, CallsProceed
<1>2. Times' /\ Checks' /\ FoundCurrent' BY <1>1, TimesStep, ChecksStep, FoundCurrentStep DEF Reads
<1>3. NoStaleRead'
  <2> SUFFICES ASSUME NEW c \in Callers PROVE call'[c].fresh BY DEF NoStaleRead
  <2>1. call[c].fresh /\ ~Misses(c) BY NoneMisses DEF Reads, NoStaleRead
  <2>2. CASE Moved(c, call'[c]) BY <2>1, <2>2 DEF Moved
  <2>3. CASE Still(call[c], call'[c]) BY <2>1, <2>3 DEF Still
  <2> QED BY <1>1, <2>2, <2>3 DEF Proceed, Proceeds
<1> QED BY <1>2, <1>3 DEF Reads

\* No answer is older than its call: the log that was stored when load or inspect was called
\* begins what it returns, whether it comes from the pool, from storage or from a live session
\* that was flushed, whoever prepared, wrote, evicted or resumed the log meanwhile; and what
\* load takes from a live session is stored, unless a cold append was written under an owner.
THEOREM NoReadIsStale == Spec => []NoStaleRead
<1>1. Reads => NoStaleRead BY DEF Reads
<1> QED
  BY <1>1, InvariantInit, InvariantStep, LedgerInit, LedgerStep, AgreementInit, AgreementStep, ReadsInit, ReadsStep, PTL DEF Spec

=============================================================================
