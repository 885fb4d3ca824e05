-------------------------- MODULE AgentInboxProofs --------------------------
(***************************************************************************)
(* Proofs about AgentInbox for any messages, splice arguments, restarts    *)
(* and forks: a new process that replays the log has the live lists, no    *)
(* message is pending twice, and foldConsumedWork names the last turn that *)
(* ended over work.                                                        *)
(***************************************************************************)
EXTENDS AgentInbox, SequenceTheorems, NaturalsInduction, WellFoundedInduction, TLAPS

-----------------------------------------------------------------------------
\* What is true of the lists and of a log.

Boxes == [Targets -> Seq(Messages)]
Once(box) == IsInjective(box["next-turn"] \o box["next-step"])

\* Turns are started in increasing order, and only a started turn is ended.
TurnsIncrease(l) ==
  \A i, j \in DOMAIN l :
    i < j /\ l[i].type = "turn/start" /\ l[j].type = "turn/start" => l[i].turn < l[j].turn
EndsFollowStarts(l) ==
  \A j \in DOMAIN l : l[j].type = "turn/end" => \E i \in 1 .. j - 1 : l[i] = TurnStart(l[j].turn)

\* Input taken at a step boundary, as the log says it.
IsClaim(e) == e.type = "agent/inbox/spliced" /\ e.removedCount > 0 /\ e.outcome = "none"
IsDrop(e) == e.type = "agent/inbox/spliced" /\ e.outcome = "canceled" /\ e.inserted = <<>>

\* end is the last turn/end over work, or 0.
LastWork(events, end) ==
  /\ end \in 0 .. Len(events)
  /\ end # 0 => EndsWork(events, end)
  /\ \A i \in DOMAIN events : i > end => ~EndsWork(events, i)

Works == [stepped : SUBSET Nat, claimed : SUBSET Nat, open : Nat, end : Nat, droppedUnrun : BOOLEAN]

\* What the account knows of the open turn t, which started at s.
KnowsOpen(events, w, t) ==
  \E s \in DOMAIN events :
    /\ events[s] = TurnStart(t)
    /\ t \in w.stepped <=> \E k \in s .. Len(events) : events[k].type = "step/start"
    /\ t \in w.claimed <=> \E k \in s .. Len(events) : IsClaim(events[k])

\* The account w of events whose open turn is t.
AccountsFor(events, w, t) ==
  /\ w \in Works
  /\ w.open = t
  /\ w.stepped \subseteq {t} \ {0}
  /\ \A c \in w.claimed : \E i \in DOMAIN events : events[i] = TurnStart(c)
  /\ t # 0 => KnowsOpen(events, w, t)
  /\ LastWork(events, w.end)
  /\ w.droppedUnrun = \E k \in w.end + 1 .. Len(events) : IsDrop(events[k])

\* A log whose own part, after the seed, is replayed to box and accounted for.
Sound(box, l, seed) ==
  /\ box \in Boxes /\ Once(box)
  /\ Replay(OwnedBy(l, seed)) = [ok |-> TRUE, inbox |-> box]
  /\ AccountsFor(OwnedBy(l, seed), FoldConsumedWork(OwnedBy(l, seed)), OpenTurn(l))

\* Every prefix a crash may leave is sound.
Kept(l, seed, n) == Sound(Replay(OwnedBy(SubSeq(l, 1, n), seed)).inbox, SubSeq(l, 1, n), seed)
PrefixesSound(l, seed) == \A n \in seed .. Len(l) : Kept(l, seed, n)

Good(box, l, seed) ==
  /\ l \in Seq(Events) /\ seed \in 0 .. Len(l)
  /\ TurnsIncrease(l) /\ EndsFollowStarts(l)
  /\ OpenTurn(SubSeq(l, 1, seed)) = 0
  /\ Sound(box, l, seed)
  /\ PrefixesSound(l, seed)

\* The inductive invariant.
InboxInvariant == Good(inbox, log, seedLength) /\ open = OpenTurn(log)

-----------------------------------------------------------------------------
\* Numbers.

LEMMA LeastOf ==
  ASSUME NEW S, S \subseteq Nat, S # {}
  PROVE  \E m \in S : \A k \in S : m <= k
<1>1. PICK m \in S : \A k \in S : ~(<<k, m>> \in OpToRel(<, Nat))
  BY WFMin, NatLessThanWellFounded
<1>2. \A k \in S : ~(k < m)
  BY <1>1 DEF OpToRel
<1> QED
  BY <1>2

\* A bounded set of numbers has a greatest one: the distance to the bound has a least one.
LEMMA GreatestOf ==
  ASSUME NEW N \in Nat, NEW S, S \subseteq 0 .. N, S # {}
  PROVE  \E m \in S : \A k \in S : m >= k
<1> DEFINE D == {d \in 0 .. N : N - d \in S}
<1>1. D \subseteq Nat /\ \A k \in S : N - k \in D
  OBVIOUS
<1>2. PICK d \in D : \A k \in D : d <= k
  <2>1. D # {}
    BY <1>1
  <2> HIDE DEF D
  <2> QED
    BY <1>1, <2>1, LeastOf
<1>3. N - d \in S /\ \A k \in S : N - d >= k
  BY <1>1, <1>2
<1> QED
  BY <1>3

-----------------------------------------------------------------------------
\* Sequences and prefixes.

LEMMA AppendIs ==
  ASSUME NEW S, NEW p \in Seq(S), NEW e \in S
  PROVE  /\ Append(p, e) \in Seq(S) /\ Len(Append(p, e)) = Len(p) + 1 /\ Len(p) \in Nat
         /\ DOMAIN p = 1 .. Len(p) /\ DOMAIN Append(p, e) = 1 .. (Len(p) + 1)
         /\ Append(p, e)[Len(p) + 1] = e
         /\ \A k \in 1 .. Len(p) : Append(p, e)[k] = p[k]
OBVIOUS

LEMMA PrefixIs ==
  ASSUME NEW S, NEW p \in Seq(S), NEW n \in 0 .. Len(p)
  PROVE  /\ SubSeq(p, 1, n) \in Seq(S) /\ Len(SubSeq(p, 1, n)) = n /\ Len(p) \in Nat
         /\ \A k \in 1 .. n : SubSeq(p, 1, n)[k] = p[k]
OBVIOUS

LEMMA PrefixOfAppend ==
  ASSUME NEW S, NEW p \in Seq(S), NEW e \in S, NEW i \in 0 .. Len(p)
  PROVE  SubSeq(Append(p, e), 1, i) = SubSeq(p, 1, i)
<1> DEFINE q == Append(p, e)
<1>1. q \in Seq(S) /\ Len(q) = Len(p) + 1 /\ Len(p) \in Nat /\ \A k \in 1 .. Len(p) : q[k] = p[k]
  BY AppendIs
<1> HIDE DEF q
<1>2. i \in 0 .. Len(q)
  BY <1>1
<1>3. /\ SubSeq(q, 1, i) \in Seq(S) /\ Len(SubSeq(q, 1, i)) = i
      /\ \A k \in 1 .. i : SubSeq(q, 1, i)[k] = q[k]
  BY <1>1, <1>2, PrefixIs
<1>4. /\ SubSeq(p, 1, i) \in Seq(S) /\ Len(SubSeq(p, 1, i)) = i
      /\ \A k \in 1 .. i : SubSeq(p, 1, i)[k] = p[k]
  BY PrefixIs
<1>5. \A k \in 1 .. i : q[k] = p[k]
  BY <1>1
<1> QED
  BY <1>3, <1>4, <1>5, SeqEqual DEF q

LEMMA PrefixOfPrefix ==
  ASSUME NEW S, NEW p \in Seq(S), NEW n \in 0 .. Len(p), NEW i \in 0 .. n
  PROVE  SubSeq(SubSeq(p, 1, n), 1, i) = SubSeq(p, 1, i)
<1> DEFINE q == SubSeq(p, 1, n)
<1>1. q \in Seq(S) /\ Len(q) = n /\ Len(p) \in Nat /\ \A k \in 1 .. n : q[k] = p[k]
  BY PrefixIs
<1> HIDE DEF q
<1>2. i \in 0 .. Len(q) /\ i \in 0 .. Len(p)
  BY <1>1
<1>3. /\ SubSeq(q, 1, i) \in Seq(S) /\ Len(SubSeq(q, 1, i)) = i
      /\ \A k \in 1 .. i : SubSeq(q, 1, i)[k] = q[k]
  BY <1>1, <1>2, PrefixIs
<1>4. /\ SubSeq(p, 1, i) \in Seq(S) /\ Len(SubSeq(p, 1, i)) = i
      /\ \A k \in 1 .. i : SubSeq(p, 1, i)[k] = p[k]
  BY <1>2, PrefixIs
<1>5. \A k \in 1 .. i : q[k] = p[k]
  BY <1>1
<1> QED
  BY <1>3, <1>4, <1>5, SeqEqual DEF q

LEMMA WholeIsPrefix ==
  ASSUME NEW S, NEW p \in Seq(S)
  PROVE  SubSeq(p, 1, Len(p)) = p
BY SubSeqFull
-----------------------------------------------------------------------------
\* The two loops over the log.

\* The loop of the constructor over the first n events.
IsProjection(g, p, n) == g = [i \in 0 .. n |-> IF i = 0 THEN NothingPending ELSE Projected(g[i - 1], p[i])]

LEMMA ProjectionExists ==
  ASSUME NEW p, NEW n \in Nat
  PROVE  \E g : IsProjection(g, p, n)
<1> DEFINE Bad == {m \in Nat : ~\E g : IsProjection(g, p, m)}
<1>1. SUFFICES ASSUME Bad # {} PROVE FALSE
  OBVIOUS
<1>2. PICK m \in Bad : \A k \in Bad : m <= k
  BY <1>1, LeastOf
<1>3. m \in Nat
  OBVIOUS
<1>4. CASE m = 0
  <2> DEFINE g == [i \in 0 .. 0 |-> NothingPending]
  <2>1. IsProjection(g, p, 0)
    BY DEF IsProjection
  <2> QED
    BY <1>4, <2>1
<1>5. CASE m # 0
  <2>1. m - 1 \in Nat /\ ~(m <= m - 1)
    BY <1>3, <1>5
  <2>2. PICK h : IsProjection(h, p, m - 1)
    BY <1>2, <2>1
  <2> DEFINE g == [i \in 0 .. m |-> IF i = m THEN Projected(h[m - 1], p[m]) ELSE h[i]]
  <2>3. \A i \in 0 .. m : g[i] = IF i = 0 THEN NothingPending ELSE Projected(g[i - 1], p[i])
    <3> SUFFICES ASSUME NEW i \in 0 .. m PROVE g[i] = IF i = 0 THEN NothingPending ELSE Projected(g[i - 1], p[i])
      OBVIOUS
    <3>1. CASE i = m
      <4>1. i # 0 /\ i - 1 \in 0 .. m /\ i - 1 # m
        BY <1>3, <1>5, <3>1
      <4>2. g[i - 1] = h[m - 1] /\ g[i] = Projected(h[m - 1], p[m])
        BY <3>1, <4>1
      <4> QED
        BY <3>1, <4>1, <4>2
    <3>2. CASE i # m
      <4>1. i \in 0 .. (m - 1) /\ (i # 0 => i - 1 \in 0 .. m /\ i - 1 # m)
        BY <1>3, <3>2
      <4>2. h[i] = IF i = 0 THEN NothingPending ELSE Projected(h[i - 1], p[i])
        BY <2>2, <4>1 DEF IsProjection
      <4>3. g[i] = h[i] /\ (i # 0 => g[i - 1] = h[i - 1])
        BY <3>2, <4>1
      <4> QED
        BY <4>2, <4>3
    <3> QED
      BY <3>1, <3>2
  <2>4. DOMAIN g = 0 .. m /\ g = [i \in 0 .. m |-> g[i]]
    OBVIOUS
  <2> HIDE DEF g
  <2>5. IsProjection(g, p, m)
    BY <2>3, <2>4 DEF IsProjection
  <2> QED
    BY <2>5
<1> QED
  BY <1>4, <1>5

LEMMA ProjectionsAre ==
  ASSUME NEW p \in Seq(Events)
  PROVE  IsProjection(Projections(p), p, Len(p))
<1>1. PICK g : IsProjection(g, p, Len(p))
  BY ProjectionExists
<1> QED
  BY <1>1 DEF IsProjection, Projections

LEMMA ReplayEmpty == Replay(<<>>) = NothingPending
<1>1. <<>> \in Seq(Events) /\ Len(<<>>) = 0 /\ 0 \in 0 .. 0
  OBVIOUS
<1>2. Projections(<<>>) = [i \in 0 .. 0 |-> IF i = 0 THEN NothingPending ELSE Projected(Projections(<<>>)[i - 1], <<>>[i])]
  BY <1>1, ProjectionsAre DEF IsProjection
<1>3. Projections(<<>>)[0] = NothingPending
  BY <1>1, <1>2
<1> QED
  BY <1>1, <1>3 DEF Replay

LEMMA ReplayAppend ==
  ASSUME NEW p \in Seq(Events), NEW e \in Events
  PROVE  Replay(Append(p, e)) = Projected(Replay(p), e)
<1> DEFINE n == Len(p)
           q == Append(p, e)
           f == Projections(p)
           g == Projections(q)
           Bad == {i \in 0 .. n : f[i] # g[i]}
<1>1. n \in Nat /\ q \in Seq(Events) /\ Len(q) = n + 1 /\ q[n + 1] = e /\ \A i \in 1 .. n : q[i] = p[i]
  OBVIOUS
<1>2. f = [i \in 0 .. n |-> IF i = 0 THEN NothingPending ELSE Projected(f[i - 1], p[i])]
  BY ProjectionsAre DEF IsProjection
<1>3. g = [i \in 0 .. (n + 1) |-> IF i = 0 THEN NothingPending ELSE Projected(g[i - 1], q[i])]
  BY <1>1, ProjectionsAre DEF IsProjection
<1> HIDE DEF f, g, q, n
<1>4. Bad = {}
  <2> SUFFICES ASSUME Bad # {} PROVE FALSE
    OBVIOUS
  <2>1. Bad \subseteq Nat
    BY <1>1
  <2>2. PICK m \in Bad : \A k \in Bad : m <= k
    <3> HIDE DEF Bad
    <3> QED
      BY <2>1, LeastOf
  <2>3. m \in 0 .. n /\ f[m] # g[m]
    BY <2>2
  <2>4. CASE m = 0
    BY <1>1, <1>2, <1>3, <2>3, <2>4
  <2>5. CASE m # 0
    <3>1. m - 1 \in 0 .. n /\ ~(m <= m - 1) /\ m \in 0 .. (n + 1) /\ m \in 1 .. n
      BY <1>1, <2>3, <2>5
    <3>2. f[m - 1] = g[m - 1]
      BY <2>2, <3>1
    <3>3. f[m] = Projected(f[m - 1], p[m])
      BY <1>2, <2>3, <2>5
    <3>4. g[m] = Projected(g[m - 1], q[m])
      BY <1>3, <2>5, <3>1
    <3> QED
      BY <1>1, <2>3, <3>1, <3>2, <3>3, <3>4
  <2> QED
    BY <2>4, <2>5
<1>5. n \in 0 .. n /\ n + 1 \in 0 .. (n + 1) /\ n + 1 # 0 /\ (n + 1) - 1 = n
  BY <1>1
<1>6. g[n + 1] = Projected(g[n], e)
  <2>1. g[n + 1] = Projected(g[(n + 1) - 1], q[n + 1])
    BY <1>3, <1>5
  <2> QED
    BY <1>1, <1>5, <2>1
<1>7. g[n] = f[n]
  BY <1>4, <1>5
<1> QED
  BY <1>1, <1>6, <1>7 DEF Replay, f, g, q, n

\* The loop of foldConsumedWork over the first n events.
IsAccount(g, p, n) == g = [i \in 0 .. n |-> IF i = 0 THEN NoWork ELSE Account(g[i - 1], p[i], i)]

LEMMA AccountExists ==
  ASSUME NEW p, NEW n \in Nat
  PROVE  \E g : IsAccount(g, p, n)
<1> DEFINE Bad == {m \in Nat : ~\E g : IsAccount(g, p, m)}
<1>1. SUFFICES ASSUME Bad # {} PROVE FALSE
  OBVIOUS
<1>2. PICK m \in Bad : \A k \in Bad : m <= k
  BY <1>1, LeastOf
<1>3. m \in Nat
  OBVIOUS
<1>4. CASE m = 0
  <2> DEFINE g == [i \in 0 .. 0 |-> NoWork]
  <2>1. IsAccount(g, p, 0)
    BY DEF IsAccount
  <2> QED
    BY <1>4, <2>1
<1>5. CASE m # 0
  <2>1. m - 1 \in Nat /\ ~(m <= m - 1)
    BY <1>3, <1>5
  <2>2. PICK h : IsAccount(h, p, m - 1)
    BY <1>2, <2>1
  <2> DEFINE g == [i \in 0 .. m |-> IF i = m THEN Account(h[m - 1], p[m], m) ELSE h[i]]
  <2>3. \A i \in 0 .. m : g[i] = IF i = 0 THEN NoWork ELSE Account(g[i - 1], p[i], i)
    <3> SUFFICES ASSUME NEW i \in 0 .. m PROVE g[i] = IF i = 0 THEN NoWork ELSE Account(g[i - 1], p[i], i)
      OBVIOUS
    <3>1. CASE i = m
      <4>1. i # 0 /\ i - 1 \in 0 .. m /\ i - 1 # m
        BY <1>3, <1>5, <3>1
      <4>2. g[i - 1] = h[m - 1] /\ g[i] = Account(h[m - 1], p[m], m)
        BY <3>1, <4>1
      <4> QED
        BY <3>1, <4>1, <4>2
    <3>2. CASE i # m
      <4>1. i \in 0 .. (m - 1) /\ (i # 0 => i - 1 \in 0 .. m /\ i - 1 # m)
        BY <1>3, <3>2
      <4>2. h[i] = IF i = 0 THEN NoWork ELSE Account(h[i - 1], p[i], i)
        BY <2>2, <4>1 DEF IsAccount
      <4>3. g[i] = h[i] /\ (i # 0 => g[i - 1] = h[i - 1])
        BY <3>2, <4>1
      <4> QED
        BY <4>2, <4>3
    <3> QED
      BY <3>1, <3>2
  <2>4. DOMAIN g = 0 .. m /\ g = [i \in 0 .. m |-> g[i]]
    OBVIOUS
  <2> HIDE DEF g
  <2>5. IsAccount(g, p, m)
    BY <2>3, <2>4 DEF IsAccount
  <2> QED
    BY <2>5
<1> QED
  BY <1>4, <1>5

LEMMA AccountsAre ==
  ASSUME NEW p \in Seq(Events)
  PROVE  IsAccount(Accounts(p), p, Len(p))
<1>1. PICK g : IsAccount(g, p, Len(p))
  BY AccountExists
<1> QED
  BY <1>1 DEF IsAccount, Accounts

LEMMA FoldEmpty == FoldConsumedWork(<<>>) = NoWork
<1>1. <<>> \in Seq(Events) /\ Len(<<>>) = 0 /\ 0 \in 0 .. 0
  OBVIOUS
<1>2. Accounts(<<>>) = [i \in 0 .. 0 |-> IF i = 0 THEN NoWork ELSE Account(Accounts(<<>>)[i - 1], <<>>[i], i)]
  BY <1>1, AccountsAre DEF IsAccount
<1>3. Accounts(<<>>)[0] = NoWork
  BY <1>1, <1>2
<1> QED
  BY <1>1, <1>3 DEF FoldConsumedWork

LEMMA FoldAppend ==
  ASSUME NEW p \in Seq(Events), NEW e \in Events
  PROVE  FoldConsumedWork(Append(p, e)) = Account(FoldConsumedWork(p), e, Len(p) + 1)
<1> DEFINE n == Len(p)
           q == Append(p, e)
           f == Accounts(p)
           g == Accounts(q)
           Bad == {i \in 0 .. n : f[i] # g[i]}
<1>1. n \in Nat /\ q \in Seq(Events) /\ Len(q) = n + 1 /\ q[n + 1] = e /\ \A i \in 1 .. n : q[i] = p[i]
  OBVIOUS
<1>2. f = [i \in 0 .. n |-> IF i = 0 THEN NoWork ELSE Account(f[i - 1], p[i], i)]
  BY AccountsAre DEF IsAccount
<1>3. g = [i \in 0 .. (n + 1) |-> IF i = 0 THEN NoWork ELSE Account(g[i - 1], q[i], i)]
  BY <1>1, AccountsAre DEF IsAccount
<1> HIDE DEF f, g, q, n
<1>4. Bad = {}
  <2> SUFFICES ASSUME Bad # {} PROVE FALSE
    OBVIOUS
  <2>1. Bad \subseteq Nat
    BY <1>1
  <2>2. PICK m \in Bad : \A k \in Bad : m <= k
    <3> HIDE DEF Bad
    <3> QED
      BY <2>1, LeastOf
  <2>3. m \in 0 .. n /\ f[m] # g[m]
    BY <2>2
  <2>4. CASE m = 0
    BY <1>1, <1>2, <1>3, <2>3, <2>4
  <2>5. CASE m # 0
    <3>1. m - 1 \in 0 .. n /\ ~(m <= m - 1) /\ m \in 0 .. (n + 1) /\ m \in 1 .. n
      BY <1>1, <2>3, <2>5
    <3>2. f[m - 1] = g[m - 1]
      BY <2>2, <3>1
    <3>3. f[m] = Account(f[m - 1], p[m], m)
      BY <1>2, <2>3, <2>5
    <3>4. g[m] = Account(g[m - 1], q[m], m)
      BY <1>3, <2>5, <3>1
    <3> QED
      BY <1>1, <2>3, <3>1, <3>2, <3>3, <3>4
  <2> QED
    BY <2>4, <2>5
<1>5. n \in 0 .. n /\ n + 1 \in 0 .. (n + 1) /\ n + 1 # 0 /\ (n + 1) - 1 = n
  BY <1>1
<1>6. g[n + 1] = Account(g[n], e, n + 1)
  <2>1. g[n + 1] = Account(g[(n + 1) - 1], q[n + 1], n + 1)
    BY <1>3, <1>5
  <2> QED
    BY <1>1, <1>5, <2>1
<1>7. g[n] = f[n]
  BY <1>4, <1>5
<1> QED
  BY <1>1, <1>6, <1>7 DEF FoldConsumedWork, f, g, q, n

-----------------------------------------------------------------------------
\* Events, and what a session owns of its log.

LEMMA EventKinds ==
  /\ \A t \in Turns : TurnStart(t) \in Events /\ StepStart(t) \in Events
  /\ \A t \in Turns, r \in Reasons : TurnEnd(t, r) \in Events
  /\ Splices \subseteq Events
BY DEF Events, TurnStart, StepStart, TurnEnd

LEMMA EventCases ==
  ASSUME NEW e \in Events
  PROVE  /\ e.type \in {"turn/start", "step/start", "turn/end", "agent/inbox/spliced"}
         /\ e.type = "agent/inbox/spliced" <=> e \in Splices
         /\ e.type = "turn/start" => e.turn \in Turns /\ e = TurnStart(e.turn)
         /\ e.type = "step/start" => e.turn \in Turns /\ e = StepStart(e.turn)
         /\ e.type = "turn/end" => e.turn \in Turns /\ e.reason \in Reasons /\ e = TurnEnd(e.turn, e.reason)
BY DEF Events, Splices, TurnStart, StepStart, TurnEnd

LEMMA OwnedIs ==
  ASSUME NEW l \in Seq(Events), NEW seed \in 0 .. Len(l)
  PROVE  /\ OwnedBy(l, seed) \in Seq(Events) /\ Len(OwnedBy(l, seed)) = Len(l) - seed
         /\ Len(l) \in Nat /\ seed \in Nat
         /\ \A i \in 1 .. Len(l) - seed : OwnedBy(l, seed)[i] = l[seed + i]
BY DEF OwnedBy

LEMMA OwnedAppend ==
  ASSUME NEW l \in Seq(Events), NEW seed \in 0 .. Len(l), NEW e \in Events
  PROVE  OwnedBy(Append(l, e), seed) = Append(OwnedBy(l, seed), e)
<1> DEFINE q == Append(l, e)
           p == OwnedBy(l, seed)
           n == Len(l) - seed
<1>1. /\ q \in Seq(Events) /\ Len(q) = Len(l) + 1 /\ Len(l) \in Nat /\ q[Len(l) + 1] = e
      /\ \A k \in 1 .. Len(l) : q[k] = l[k]
  BY AppendIs
<1>2. /\ p \in Seq(Events) /\ Len(p) = n /\ seed \in Nat /\ \A i \in 1 .. n : p[i] = l[seed + i]
  BY OwnedIs
<1> HIDE DEF q, p
<1>3. seed \in 0 .. Len(q)
  BY <1>1
<1>4. /\ OwnedBy(q, seed) \in Seq(Events) /\ Len(OwnedBy(q, seed)) = Len(q) - seed
      /\ \A i \in 1 .. Len(q) - seed : OwnedBy(q, seed)[i] = q[seed + i]
  BY <1>1, <1>3, OwnedIs
<1>5. /\ Append(p, e) \in Seq(Events) /\ Len(Append(p, e)) = Len(p) + 1 /\ Append(p, e)[Len(p) + 1] = e
      /\ \A k \in 1 .. Len(p) : Append(p, e)[k] = p[k]
  BY <1>2, AppendIs
<1>6. Len(q) - seed = Len(p) + 1 /\ n \in Nat
  BY <1>1, <1>2
<1>7. ASSUME NEW i \in 1 .. Len(p) + 1 PROVE OwnedBy(q, seed)[i] = Append(p, e)[i]
  <2>1. CASE i = Len(p) + 1
    <3>1. i \in 1 .. Len(q) - seed /\ seed + i = Len(l) + 1
      BY <1>1, <1>2, <1>6, <2>1
    <3>2. OwnedBy(q, seed)[i] = e
      BY <1>1, <1>4, <3>1
    <3> QED
      BY <1>5, <2>1, <3>2
  <2>2. CASE i \in 1 .. Len(p)
    <3>1. seed + i \in 1 .. Len(l) /\ i \in 1 .. Len(q) - seed /\ i \in 1 .. n
      BY <1>1, <1>2, <1>6, <2>2
    <3> QED
      BY <1>1, <1>2, <1>4, <1>5, <2>2, <3>1
  <2>3. Len(p) \in Nat
    BY <1>2, <1>6
  <2> QED
    BY <2>1, <2>2, <2>3
<1>8. OwnedBy(q, seed) = Append(p, e)
  BY <1>4, <1>5, <1>6, <1>7, SeqEqual
<1> QED
  BY <1>8 DEF q, p

-----------------------------------------------------------------------------
\* The last and the open turn.

LEMMA LastTurnAppend ==
  ASSUME NEW p \in Seq(Events), NEW e \in Events
  PROVE  LastTurn(Append(p, e)) = IF e.type = "turn/start" THEN e.turn ELSE LastTurn(p)
<1> DEFINE q == Append(p, e)
           n == Len(p) + 1
           I(r) == {i \in 1 .. Len(r) : r[i].type = "turn/start"}
           L(r) == IF I(r) # {} THEN Max(I(r)) ELSE 0
<1>0. ASSUME NEW r PROVE LastTurn(r) = IF L(r) = 0 THEN 0 ELSE r[L(r)].turn
  BY DEF LastTurn, SelectLastInSeq
<1>1. q \in Seq(Events) /\ Len(q) = n /\ n \in Nat \ {0} /\ q[n] = e /\ Len(p) \in Nat /\ \A k \in 1 .. Len(p) : q[k] = p[k]
  BY AppendIs
<1> HIDE DEF q
<1>2. CASE e.type = "turn/start"
  <2>1. n \in I(q) /\ \A k \in I(q) : n >= k
    BY <1>1, <1>2
  <2>2. \A m \in I(q) : (\A k \in I(q) : m >= k) => m = n
    BY <1>1, <2>1
  <2>3. Max(I(q)) = n
    <3> HIDE DEF I
    <3> QED
      BY <2>1, <2>2 DEF Max
  <2>4. L(q) = n
    BY <2>1, <2>3
  <2> HIDE DEF L, I
  <2> QED
    BY <1>0, <1>1, <1>2, <2>4 DEF q
<1>3. CASE e.type # "turn/start"
  <2>1. I(q) = I(p)
    BY <1>1, <1>3
  <2>2. L(q) = L(p)
    BY <2>1
  <2>3. L(p) = 0 \/ L(p) \in 1 .. Len(p)
    <3>1. CASE I(p) = {}
      BY <3>1
    <3>2. CASE I(p) # {}
      <4>1. I(p) \subseteq 0 .. Len(p) /\ I(p) \subseteq 1 .. Len(p)
        BY <1>1
      <4>3. \E m \in I(p) : \A k \in I(p) : m >= k
        <5> HIDE DEF I
        <5> QED
          BY <1>1, <3>2, <4>1, GreatestOf
      <4>4. Max(I(p)) \in I(p)
        <5> HIDE DEF I
        <5> QED
          BY <4>3 DEF Max
      <4> QED
        BY <3>2, <4>1, <4>4
    <3> QED
      BY <3>1, <3>2
  <2>4. L(p) # 0 => q[L(p)] = p[L(p)]
    BY <1>1, <2>3
  <2> HIDE DEF L, I
  <2> QED
    BY <1>0, <1>3, <2>2, <2>4 DEF q
<1> QED
  BY <1>2, <1>3 DEF q
LEMMA LastTurnIs ==
  ASSUME NEW l \in Seq(Events), TurnsIncrease(l)
  PROVE  /\ LastTurn(l) \in Nat
         /\ \A i \in DOMAIN l : l[i].type = "turn/start" => l[i].turn <= LastTurn(l)
         /\ LastTurn(l) # 0 => \E i \in DOMAIN l : l[i] = TurnStart(LastTurn(l))
<1> DEFINE I == {i \in 1 .. Len(l) : l[i].type = "turn/start"}
           m == IF I # {} THEN Max(I) ELSE 0
<1>1. LastTurn(l) = IF m = 0 THEN 0 ELSE l[m].turn
  BY DEF LastTurn, SelectLastInSeq
<1>2. Len(l) \in Nat /\ DOMAIN l = 1 .. Len(l) /\ \A i \in DOMAIN l : l[i] \in Events
  OBVIOUS
<1>3. I \subseteq 0 .. Len(l) /\ I \subseteq 1 .. Len(l)
  BY <1>2
<1>4. CASE I = {}
  BY <1>1, <1>2, <1>4
<1>5. CASE I # {}
  <2>1. \E k \in I : \A j \in I : k >= j
    <3> HIDE DEF I
    <3> QED
      BY <1>2, <1>3, <1>5, GreatestOf
  <2>2. m \in I /\ \A j \in I : m >= j
    <3> HIDE DEF I
    <3> QED
      BY <1>5, <2>1 DEF Max
  <2> HIDE DEF m
  <2>3. m \in DOMAIN l /\ m # 0 /\ l[m].type = "turn/start"
    BY <1>2, <2>2
  <2>4. l[m] \in Events
    BY <1>2, <2>3
  <2>5. l[m].turn \in Turns /\ l[m] = TurnStart(l[m].turn)
    BY <2>3, <2>4, EventCases
  <2>6. ASSUME NEW i \in DOMAIN l, l[i].type = "turn/start" PROVE l[i].turn <= l[m].turn
    <3>1. i \in I /\ i <= m
      BY <1>2, <2>2, <2>6
    <3>2. l[i].turn \in Turns
      BY <1>2, <2>6, EventCases
    <3>3. CASE i = m
      BY <2>5, <3>3 DEF Turns
    <3>4. CASE i # m
      <4>1. i < m
        BY <1>2, <2>3, <3>1, <3>4
      <4>2. l[i].turn < l[m].turn
        BY <2>3, <2>6, <4>1 DEF TurnsIncrease
      <4> QED
        BY <2>5, <3>2, <4>2 DEF Turns
    <3> QED
      BY <3>3, <3>4
  <2> QED
    BY <1>1, <2>3, <2>5, <2>6 DEF Turns
<1> QED
  BY <1>4, <1>5

\* A log without an end of its last turn has it open.
EndsTurn(l, t) == \E i \in DOMAIN l : l[i].type = "turn/end" /\ l[i].turn = t

LEMMA EndsTurnAppend ==
  ASSUME NEW l \in Seq(Events), NEW e \in Events, NEW t
  PROVE  EndsTurn(Append(l, e), t) <=> EndsTurn(l, t) \/ (e.type = "turn/end" /\ e.turn = t)
<1> DEFINE q == Append(l, e)
<1>1. /\ Len(l) \in Nat /\ DOMAIN l = 1 .. Len(l) /\ DOMAIN q = 1 .. (Len(l) + 1) /\ q[Len(l) + 1] = e
      /\ \A k \in 1 .. Len(l) : q[k] = l[k]
  BY AppendIs
<1> HIDE DEF q
<1>2. \A k : k \in DOMAIN q <=> k \in DOMAIN l \/ k = Len(l) + 1
  BY <1>1
<1>3. EndsTurn(q, t) <=> EndsTurn(l, t) \/ (e.type = "turn/end" /\ e.turn = t)
  BY <1>1, <1>2 DEF EndsTurn
<1> QED
  BY <1>3 DEF q

LEMMA OpenTurnIs ==
  ASSUME NEW l \in Seq(Events), TurnsIncrease(l)
  PROVE  /\ OpenTurn(l) = IF EndsTurn(l, LastTurn(l)) THEN 0 ELSE LastTurn(l)
         /\ OpenTurn(l) \in Nat
         /\ OpenTurn(l) # 0 => OpenTurn(l) = LastTurn(l) /\ ~EndsTurn(l, OpenTurn(l))
BY LastTurnIs DEF OpenTurn, EndsTurn

\* A step or an inbox event opens and ends nothing, an end ends the open turn.
LEMMA OpenTurnAppend ==
  ASSUME NEW l \in Seq(Events), NEW e \in Events, TurnsIncrease(l), EndsFollowStarts(l), TurnsIncrease(Append(l, e))
  PROVE  /\ e.type \in {"step/start", "agent/inbox/spliced"} => OpenTurn(Append(l, e)) = OpenTurn(l)
         /\ e.type = "turn/end" /\ OpenTurn(l) # 0 /\ e.turn = OpenTurn(l) => OpenTurn(Append(l, e)) = 0
         /\ e.type = "turn/start" => OpenTurn(Append(l, e)) = e.turn
<1> DEFINE q == Append(l, e)
<1>1. q \in Seq(Events)
  BY AppendIs
<1>2. LastTurn(q) = IF e.type = "turn/start" THEN e.turn ELSE LastTurn(l)
  BY LastTurnAppend
<1>3. \A t : EndsTurn(q, t) <=> EndsTurn(l, t) \/ (e.type = "turn/end" /\ e.turn = t)
  BY EndsTurnAppend
<1>4. TurnsIncrease(q)
  OBVIOUS
<1>5. ASSUME e.type = "turn/start" PROVE ~EndsTurn(l, e.turn)
  <2> SUFFICES ASSUME NEW j \in DOMAIN l, l[j].type = "turn/end", l[j].turn = e.turn PROVE FALSE
    BY DEF EndsTurn
  <2>1. PICK i \in 1 .. j - 1 : l[i] = TurnStart(e.turn)
    BY DEF EndsFollowStarts
  <2>2. /\ i \in DOMAIN q /\ Len(l) + 1 \in DOMAIN q /\ i < Len(l) + 1 /\ q[i] = l[i] /\ q[Len(l) + 1] = e
    BY AppendIs
  <2>3. e.turn < e.turn
    BY <1>4, <1>5, <2>1, <2>2 DEF TurnsIncrease, TurnStart
  <2>4. e.turn \in Nat
    BY <1>5, EventCases DEF Turns
  <2> QED
    BY <2>3, <2>4
<1> HIDE DEF q
<1>6. OpenTurn(q) = IF EndsTurn(q, LastTurn(q)) THEN 0 ELSE LastTurn(q)
  BY <1>1, <1>4, OpenTurnIs
<1>7. OpenTurn(l) = IF EndsTurn(l, LastTurn(l)) THEN 0 ELSE LastTurn(l)
  BY OpenTurnIs
<1> QED
  BY <1>2, <1>3, <1>5, <1>6, <1>7 DEF q

-----------------------------------------------------------------------------
\* The account after one more event.

LEMMA EndsWorkAppend ==
  ASSUME NEW ev \in Seq(Events), NEW e \in Events
  PROVE  /\ \A i \in 1 .. Len(ev) : EndsWork(Append(ev, e), i) <=> EndsWork(ev, i)
         /\ EndsWork(Append(ev, e), Len(ev) + 1) <=>
              /\ e.type = "turn/end"
              /\ \E s \in 1 .. Len(ev) :
                   /\ ev[s] = TurnStart(e.turn)
                   /\ \E k \in s .. Len(ev) : \/ ev[k].type = "step/start"
                                              \/ IsClaim(ev[k]) /\ e.reason # "completed"
<1> DEFINE q == Append(ev, e)
           n == Len(ev)
<1>1. /\ n \in Nat /\ q[n + 1] = e /\ \A k \in 1 .. n : q[k] = ev[k]
  BY AppendIs
<1> HIDE DEF q, n
<1>2. ASSUME NEW i \in 1 .. n PROVE EndsWork(q, i) <=> EndsWork(ev, i)
  <2>1. i \in 1 .. n /\ \A s \in 1 .. i : s \in 1 .. n /\ \A k \in s .. i : k \in 1 .. n
    BY <1>1
  <2>2. q[i] = ev[i] /\ \A s \in 1 .. i : q[s] = ev[s] /\ \A k \in s .. i : q[k] = ev[k]
    BY <1>1, <2>1
  <2> QED
    BY <2>2 DEF EndsWork
<1>3. ASSUME EndsWork(q, n + 1)
      PROVE  /\ e.type = "turn/end"
             /\ \E s \in 1 .. n : /\ ev[s] = TurnStart(e.turn)
                                  /\ \E k \in s .. n : \/ ev[k].type = "step/start"
                                                       \/ IsClaim(ev[k]) /\ e.reason # "completed"
  <2>1. e.type = "turn/end"
    BY <1>1, <1>3 DEF EndsWork
  <2>2. PICK s \in 1 .. n + 1, k \in 1 .. n + 1 :
          /\ k >= s
          /\ q[s] = TurnStart(e.turn)
          /\ \/ q[k].type = "step/start"
             \/ IsClaim(q[k]) /\ e.reason # "completed"
    BY <1>1, <1>3 DEF EndsWork, IsClaim
  <2>3. s # n + 1
    BY <1>1, <2>1, <2>2 DEF TurnStart
  <2>4. k # n + 1
    BY <1>1, <2>1, <2>2 DEF IsClaim
  <2>5. s \in 1 .. n /\ k \in s .. n /\ k \in 1 .. n
    BY <1>1, <2>2, <2>3, <2>4
  <2>6. q[s] = ev[s] /\ q[k] = ev[k]
    BY <1>1, <2>5
  <2> QED
    BY <2>1, <2>2, <2>5, <2>6
<1>4. ASSUME e.type = "turn/end",
             NEW s \in 1 .. n, ev[s] = TurnStart(e.turn),
             NEW k \in s .. n, ev[k].type = "step/start" \/ (IsClaim(ev[k]) /\ e.reason # "completed")
      PROVE  EndsWork(q, n + 1)
  <2>1. s \in 1 .. n + 1 /\ k \in s .. n + 1 /\ k \in 1 .. n
    BY <1>1
  <2>2. q[s] = ev[s] /\ q[k] = ev[k]
    BY <1>1, <2>1
  <2> QED
    BY <1>1, <1>4, <2>1, <2>2 DEF EndsWork, IsClaim
<1> QED
  BY <1>2, <1>3, <1>4 DEF q, n

\* An event that ends no work.
LEMMA NoWorkEnds ==
  ASSUME NEW ev \in Seq(Events), NEW e \in Events, NEW end, LastWork(ev, end),
         ~EndsWork(Append(ev, e), Len(ev) + 1)
  PROVE  LastWork(Append(ev, e), end)
<1>1. \A i \in 1 .. Len(ev) : EndsWork(Append(ev, e), i) <=> EndsWork(ev, i)
  BY EndsWorkAppend
<1>2. /\ Len(ev) \in Nat /\ Len(Append(ev, e)) = Len(ev) + 1 /\ DOMAIN ev = 1 .. Len(ev)
      /\ DOMAIN Append(ev, e) = 1 .. (Len(ev) + 1)
  BY AppendIs
<1>3. end \in 0 .. Len(ev) /\ end \in 0 .. Len(Append(ev, e)) /\ (end # 0 => end \in 1 .. Len(ev))
  BY <1>2 DEF LastWork
<1>4. end # 0 => EndsWork(Append(ev, e), end)
  BY <1>1, <1>3 DEF LastWork
<1>5. ASSUME NEW i \in DOMAIN Append(ev, e), i > end PROVE ~EndsWork(Append(ev, e), i)
  <2>1. i \in 1 .. Len(ev) \/ i = Len(ev) + 1
    BY <1>2
  <2> QED
    BY <1>1, <1>2, <1>5, <2>1 DEF LastWork
<1> QED
  BY <1>3, <1>4, <1>5 DEF LastWork

LEMMA WorkEnds ==
  ASSUME NEW ev \in Seq(Events), NEW e \in Events, EndsWork(Append(ev, e), Len(ev) + 1)
  PROVE  LastWork(Append(ev, e), Len(ev) + 1)
<1>1. /\ Len(ev) \in Nat /\ Len(Append(ev, e)) = Len(ev) + 1
      /\ DOMAIN Append(ev, e) = 1 .. (Len(ev) + 1)
  BY AppendIs
<1>2. Len(ev) + 1 \in 0 .. Len(Append(ev, e)) /\ \A i \in DOMAIN Append(ev, e) : ~(i > Len(ev) + 1)
  BY <1>1
<1> QED
  BY <1>2 DEF LastWork

\* What was dropped after end, with one more event.
LEMMA DropsAppend ==
  ASSUME NEW ev \in Seq(Events), NEW e \in Events, NEW end \in 0 .. Len(ev)
  PROVE  (\E k \in end + 1 .. Len(Append(ev, e)) : IsDrop(Append(ev, e)[k])) <=>
           (\E k \in end + 1 .. Len(ev) : IsDrop(ev[k])) \/ IsDrop(e)
<1> DEFINE q == Append(ev, e)
           n == Len(ev)
<1>1. /\ n \in Nat /\ Len(q) = n + 1 /\ q[n + 1] = e /\ \A k \in 1 .. n : q[k] = ev[k]
  BY AppendIs
<1> HIDE DEF q
<1>2. \A k \in end + 1 .. n : k \in 1 .. n /\ k \in end + 1 .. Len(q)
  BY <1>1
<1>3. n + 1 \in end + 1 .. Len(q) /\ \A k \in end + 1 .. Len(q) : k \in end + 1 .. n \/ k = n + 1
  BY <1>1
<1> HIDE DEF n
<1>4. (\E k \in end + 1 .. Len(q) : IsDrop(q[k])) <=> (\E k \in end + 1 .. n : IsDrop(ev[k])) \/ IsDrop(e)
  BY <1>1, <1>2, <1>3
<1> QED
  BY <1>4 DEF q, n

\* Starts of turns stay where they are.
LEMMA StartsAppend ==
  ASSUME NEW ev \in Seq(Events), NEW e \in Events, NEW i \in DOMAIN ev
  PROVE  i \in DOMAIN Append(ev, e) /\ Append(ev, e)[i] = ev[i]
BY AppendIs

\* The open turn has one more event.
LEMMA KnowsOpenAppend ==
  ASSUME NEW ev \in Seq(Events), NEW e \in Events, NEW w, NEW v, NEW t, KnowsOpen(ev, w, t),
         t \in v.stepped <=> t \in w.stepped \/ e.type = "step/start",
         t \in v.claimed <=> t \in w.claimed \/ IsClaim(e)
  PROVE  KnowsOpen(Append(ev, e), v, t)
<1> DEFINE q == Append(ev, e)
           n == Len(ev)
<1>1. /\ n \in Nat /\ Len(q) = n + 1 /\ q[n + 1] = e /\ \A k \in 1 .. n : q[k] = ev[k]
      /\ DOMAIN ev = 1 .. n /\ DOMAIN q = 1 .. (n + 1)
  BY AppendIs
<1>2. PICK s \in DOMAIN ev :
        /\ ev[s] = TurnStart(t)
        /\ t \in w.stepped <=> \E k \in s .. n : ev[k].type = "step/start"
        /\ t \in w.claimed <=> \E k \in s .. n : IsClaim(ev[k])
  BY DEF KnowsOpen
<1> HIDE DEF q, n
<1>3. s \in DOMAIN q /\ q[s] = TurnStart(t)
  BY <1>1, <1>2
<1>4. \A k \in s .. n : k \in 1 .. n /\ k \in s .. (n + 1)
  BY <1>1, <1>2
<1>5. n + 1 \in s .. (n + 1) /\ \A k \in s .. (n + 1) : k \in s .. n \/ k = n + 1
  BY <1>1, <1>2
<1>6. t \in v.stepped <=> \E k \in s .. (n + 1) : q[k].type = "step/start"
  BY <1>1, <1>2, <1>4, <1>5
<1>7. t \in v.claimed <=> \E k \in s .. (n + 1) : IsClaim(q[k])
  BY <1>1, <1>2, <1>4, <1>5
<1> QED
  BY <1>1, <1>3, <1>6, <1>7 DEF KnowsOpen, q

\* The conjuncts of AccountsFor with one more event, where it ends no work.
LEMMA AccountsForMore ==
  ASSUME NEW ev \in Seq(Events), NEW e \in Events, NEW w, NEW t, AccountsFor(ev, w, t),
         NEW v \in Works, NEW u, v.open = u, v.stepped \subseteq {u} \ {0},
         \A c \in v.claimed : c \in w.claimed \/ (c = t /\ t # 0),
         u # 0 => KnowsOpen(Append(ev, e), v, u),
         ~EndsWork(Append(ev, e), Len(ev) + 1),
         v.end = w.end, v.droppedUnrun <=> w.droppedUnrun \/ IsDrop(e)
  PROVE  AccountsFor(Append(ev, e), v, u)
<1> DEFINE q == Append(ev, e)
<1>1. LastWork(q, v.end)
  BY NoWorkEnds DEF AccountsFor
<1>2. w.end \in 0 .. Len(ev) /\ w.droppedUnrun \in BOOLEAN /\ v.droppedUnrun \in BOOLEAN
  BY DEF AccountsFor, LastWork, Works
<1>3. v.droppedUnrun = \E k \in v.end + 1 .. Len(q) : IsDrop(q[k])
  <2>1. (\E k \in w.end + 1 .. Len(q) : IsDrop(q[k])) <=>
          ((\E k \in w.end + 1 .. Len(ev) : IsDrop(ev[k])) \/ IsDrop(e))
    BY <1>2, DropsAppend
  <2>2. w.droppedUnrun = \E k \in w.end + 1 .. Len(ev) : IsDrop(ev[k])
    BY DEF AccountsFor
  <2>3. v.droppedUnrun = \E k \in w.end + 1 .. Len(q) : IsDrop(q[k])
    BY <1>2, <2>1, <2>2
  <2> QED
    BY <2>3
<1>4. \A c \in v.claimed : \E i \in DOMAIN q : q[i] = TurnStart(c)
  <2>1. t # 0 => \E i \in DOMAIN ev : ev[i] = TurnStart(t)
    BY DEF AccountsFor, KnowsOpen
  <2>2. \A c \in v.claimed : \E i \in DOMAIN ev : ev[i] = TurnStart(c)
    BY <2>1 DEF AccountsFor
  <2> QED
    BY <2>2, StartsAppend
<1> QED
  BY <1>1, <1>3, <1>4 DEF AccountsFor

LEMMA StartAccounted ==
  ASSUME NEW ev \in Seq(Events), NEW w, AccountsFor(ev, w, 0), NEW t \in Turns,
         \A i \in DOMAIN ev : ev[i] # TurnStart(t)
  PROVE  AccountsFor(Append(ev, TurnStart(t)), Account(w, TurnStart(t), Len(ev) + 1), t)
<1> DEFINE e == TurnStart(t)
           q == Append(ev, e)
           v == Account(w, e, Len(ev) + 1)
<1>1. e \in Events /\ e.type = "turn/start" /\ e.turn = t /\ t \in Nat /\ t # 0
  BY EventKinds DEF TurnStart, Turns
<1>2. w \in Works /\ w.stepped = {} /\ w.open = 0
  BY DEF AccountsFor
<1>3. v = [w EXCEPT !.open = t]
  BY <1>1 DEF Account
<1> HIDE DEF v
<1>4. /\ v \in Works /\ v.open = t /\ v.stepped = {} /\ v.claimed = w.claimed /\ v.end = w.end
      /\ v.droppedUnrun = w.droppedUnrun
  BY <1>1, <1>2, <1>3 DEF Works
<1>5. ~EndsWork(q, Len(ev) + 1)
  BY <1>1, EndsWorkAppend
<1> HIDE DEF e
<1>6. LastWork(q, v.end)
  BY <1>1, <1>4, <1>5, NoWorkEnds DEF AccountsFor
<1>7. w.end \in 0 .. Len(ev) /\ ~IsDrop(e)
  BY <1>1 DEF AccountsFor, LastWork, IsDrop
<1>8. v.droppedUnrun = \E k \in v.end + 1 .. Len(q) : IsDrop(q[k])
  <2>1. (\E k \in v.end + 1 .. Len(q) : IsDrop(q[k])) <=> (\E k \in w.end + 1 .. Len(ev) : IsDrop(ev[k]))
    BY <1>1, <1>4, <1>7, DropsAppend
  <2> QED
    BY <1>4, <2>1 DEF AccountsFor
<1>9. \A c \in v.claimed : \E i \in DOMAIN q : q[i] = TurnStart(c)
  BY <1>1, <1>4, StartsAppend DEF AccountsFor
<1>10. KnowsOpen(q, v, t)
  <2>1. Len(ev) \in Nat /\ Len(q) = Len(ev) + 1 /\ q[Len(ev) + 1] = e /\ DOMAIN q = 1 .. (Len(ev) + 1)
    BY <1>1, AppendIs
  <2>2. t \notin v.stepped /\ t \notin v.claimed
    BY <1>4 DEF AccountsFor
  <2>3. Len(ev) + 1 \in DOMAIN q /\ \A k \in Len(ev) + 1 .. Len(q) : k = Len(ev) + 1
    BY <2>1
  <2>4. ~IsClaim(e) /\ e.type # "step/start"
    BY <1>1 DEF IsClaim
  <2>5. q[Len(ev) + 1] = TurnStart(t)
    BY <2>1 DEF e
  <2> HIDE DEF q
  <2> QED
    BY <2>1, <2>2, <2>3, <2>4, <2>5 DEF KnowsOpen
<1>11. v.stepped \subseteq {t} \ {0}
  BY <1>4
<1> QED
  BY <1>4, <1>6, <1>8, <1>9, <1>10, <1>11 DEF AccountsFor, q, v, e

LEMMA StepAccounted ==
  ASSUME NEW ev \in Seq(Events), NEW w, NEW t \in Turns, AccountsFor(ev, w, t)
  PROVE  AccountsFor(Append(ev, StepStart(t)), Account(w, StepStart(t), Len(ev) + 1), t)
<1> DEFINE e == StepStart(t)
           v == Account(w, e, Len(ev) + 1)
<1>1. e \in Events /\ e.type = "step/start" /\ e.turn = t /\ t \in Nat /\ t # 0
  BY EventKinds DEF StepStart, Turns
<1>2. w \in Works /\ w.stepped \subseteq {t} \ {0} /\ w.open = t /\ KnowsOpen(ev, w, t)
  BY <1>1 DEF AccountsFor
<1>3. v = [w EXCEPT !.stepped = @ \cup {t}]
  BY <1>1 DEF Account
<1> HIDE DEF v
<1>4. /\ v \in Works /\ v.open = t /\ v.stepped = w.stepped \cup {t} /\ v.claimed = w.claimed /\ v.end = w.end
      /\ v.droppedUnrun = w.droppedUnrun
  BY <1>1, <1>2, <1>3 DEF Works
<1>5. ~EndsWork(Append(ev, e), Len(ev) + 1)
  BY <1>1, EndsWorkAppend
<1>6. ~IsDrop(e) /\ ~IsClaim(e)
  BY <1>1 DEF IsDrop, IsClaim
<1> HIDE DEF e
<1>7. KnowsOpen(Append(ev, e), v, t)
  BY <1>1, <1>2, <1>4, <1>6, KnowsOpenAppend
<1>8. v.stepped \subseteq {t} \ {0} /\ (\A c \in v.claimed : c \in w.claimed \/ (c = t /\ t # 0))
  BY <1>1, <1>2, <1>4
<1>9. AccountsFor(Append(ev, e), v, t)
  BY <1>1, <1>4, <1>5, <1>6, <1>7, <1>8, AccountsForMore
<1> QED
  BY <1>9 DEF v, e

\* A splice removes nothing, drops, replaces or claims.
LEMMA SpliceAccounted ==
  ASSUME NEW ev \in Seq(Events), NEW w, NEW t \in Nat, AccountsFor(ev, w, t), NEW e \in Splices,
         IsClaim(e) => t # 0
  PROVE  AccountsFor(Append(ev, e), Account(w, e, Len(ev) + 1), t)
<1> DEFINE v == Account(w, e, Len(ev) + 1)
           q == Append(ev, e)
<1>1. /\ e \in Events /\ e.type = "agent/inbox/spliced" /\ e.removedCount \in Nat
      /\ e.outcome \in {"canceled", "none"} /\ (e.outcome = "canceled" => e.removedCount > 0)
  BY EventKinds DEF Splices
<1>2. w \in Works /\ w.stepped \subseteq {t} \ {0} /\ w.open = t
  BY DEF AccountsFor
<1>3. v = IF e.removedCount = 0 THEN w
          ELSE IF e.outcome = "canceled" THEN [w EXCEPT !.droppedUnrun = @ \/ DropsUnrun(e)]
          ELSE IF w.open # 0 THEN [w EXCEPT !.claimed = @ \cup {w.open}] ELSE w
  BY <1>1 DEF Account
<1> HIDE DEF v
<1>4. IsDrop(e) <=> e.outcome = "canceled" /\ DropsUnrun(e)
  BY <1>1 DEF IsDrop, DropsUnrun
<1>5. IsClaim(e) <=> e.removedCount # 0 /\ e.outcome # "canceled"
  BY <1>1 DEF IsClaim
<1>6. /\ v \in Works /\ v.open = t /\ v.stepped = w.stepped /\ v.end = w.end
      /\ v.claimed = IF IsClaim(e) THEN w.claimed \cup {t} ELSE w.claimed
      /\ v.droppedUnrun <=> w.droppedUnrun \/ IsDrop(e)
  <2>1. w.droppedUnrun \in BOOLEAN /\ DropsUnrun(e) \in BOOLEAN
    BY <1>2 DEF Works, DropsUnrun
  <2>2. CASE e.removedCount = 0
    BY <1>1, <1>2, <1>3, <1>4, <1>5, <2>2
  <2>3. CASE e.removedCount # 0 /\ e.outcome = "canceled"
    <3>1. v = [w EXCEPT !.droppedUnrun = w.droppedUnrun \/ DropsUnrun(e)]
      BY <1>3, <2>3
    <3>2. (w.droppedUnrun \/ DropsUnrun(e)) \in BOOLEAN
      BY <2>1
    <3>3. v \in Works /\ v.open = w.open /\ v.stepped = w.stepped /\ v.end = w.end /\ v.claimed = w.claimed
      BY <1>2, <3>1, <3>2 DEF Works
    <3>4. v.droppedUnrun = (w.droppedUnrun \/ DropsUnrun(e))
      BY <1>2, <3>1 DEF Works
    <3> QED
      BY <1>2, <1>4, <1>5, <2>3, <3>3, <3>4
  <2>4. CASE e.removedCount # 0 /\ e.outcome # "canceled"
    <3>1. v = [w EXCEPT !.claimed = @ \cup {t}]
      BY <1>2, <1>3, <1>5, <2>4
    <3> QED
      BY <1>2, <1>4, <1>5, <2>4, <3>1 DEF Works
  <2> QED
    BY <2>2, <2>3, <2>4
<1>7. ~EndsWork(q, Len(ev) + 1)
  BY <1>1, EndsWorkAppend
<1>8. t # 0 => KnowsOpen(q, v, t)
  <2> SUFFICES ASSUME t # 0 PROVE KnowsOpen(q, v, t)
    OBVIOUS
  <2>1. KnowsOpen(ev, w, t)
    BY DEF AccountsFor
  <2>2. t \in v.stepped <=> t \in w.stepped \/ e.type = "step/start"
    BY <1>1, <1>6
  <2>3. t \in v.claimed <=> t \in w.claimed \/ IsClaim(e)
    BY <1>6
  <2> QED
    BY <1>1, <2>1, <2>2, <2>3, KnowsOpenAppend
<1>9. v.stepped \subseteq {t} \ {0} /\ \A c \in v.claimed : c \in w.claimed \/ (c = t /\ t # 0)
  BY <1>2, <1>6
<1>10. AccountsFor(q, v, t)
  BY <1>1, <1>6, <1>7, <1>8, <1>9, AccountsForMore
<1> QED
  BY <1>10 DEF v, q

\* The end of the open turn, over work or not.
LEMMA EndAccounted ==
  ASSUME NEW ev \in Seq(Events), NEW w, NEW t \in Turns, AccountsFor(ev, w, t), TurnsIncrease(ev),
         NEW reason \in Reasons
  PROVE  AccountsFor(Append(ev, TurnEnd(t, reason)), Account(w, TurnEnd(t, reason), Len(ev) + 1), 0)
<1> DEFINE e == TurnEnd(t, reason)
           q == Append(ev, e)
           n == Len(ev) + 1
           v == Account(w, e, n)
           over == t \in w.stepped \/ (t \in w.claimed /\ reason # "completed")
<1>1. e \in Events /\ e.type = "turn/end" /\ e.turn = t /\ e.reason = reason /\ t \in Nat /\ t # 0
  BY EventKinds DEF TurnEnd, Turns
<1>2. w \in Works /\ w.stepped \subseteq {t} \ {0} /\ w.open = t /\ KnowsOpen(ev, w, t)
  BY <1>1 DEF AccountsFor
<1>3. v = IF t \in w.stepped
          THEN [w EXCEPT !.open = 0, !.stepped = @ \ {t}, !.end = n, !.droppedUnrun = FALSE]
          ELSE IF t \in w.claimed /\ reason # "completed"
          THEN [w EXCEPT !.open = 0, !.claimed = @ \ {t}, !.end = n, !.droppedUnrun = FALSE]
          ELSE [w EXCEPT !.open = 0, !.claimed = @ \ {t}]
  BY <1>1 DEF Account, AccountsForClaim
<1>4. /\ n \in Nat /\ n # 0 /\ Len(ev) \in Nat /\ Len(q) = n /\ DOMAIN ev = 1 .. Len(ev)
      /\ \A i \in DOMAIN ev : ev[i] \in Events
  BY <1>1, AppendIs
<1> HIDE DEF e, v, n
<1>5. /\ v \in Works /\ v.open = 0 /\ v.stepped = {} /\ v.claimed \subseteq w.claimed
      /\ v.end = IF over THEN n ELSE w.end
      /\ v.droppedUnrun = IF over THEN FALSE ELSE w.droppedUnrun
  BY <1>2, <1>3, <1>4 DEF Works
<1>6. EndsWork(q, n) <=> over
  <2>1. PICK s \in DOMAIN ev :
          /\ ev[s] = TurnStart(t)
          /\ t \in w.stepped <=> \E k \in s .. Len(ev) : ev[k].type = "step/start"
          /\ t \in w.claimed <=> \E k \in s .. Len(ev) : IsClaim(ev[k])
    BY <1>2 DEF KnowsOpen
  <2>2. \A r \in DOMAIN ev : ev[r] = TurnStart(t) => r = s
    <3> SUFFICES ASSUME NEW r \in DOMAIN ev, ev[r] = TurnStart(t), r # s PROVE FALSE
      OBVIOUS
    <3>1. r < s \/ s < r
      BY <1>4
    <3>2. t < t
      BY <2>1, <3>1 DEF TurnsIncrease, TurnStart
    <3> QED
      BY <1>1, <3>2
  <2>3. EndsWork(q, n) <=>
          \E r \in 1 .. Len(ev) :
             /\ ev[r] = TurnStart(t)
             /\ \E k \in r .. Len(ev) : \/ ev[k].type = "step/start"
                                        \/ IsClaim(ev[k]) /\ reason # "completed"
    BY <1>1, EndsWorkAppend DEF n
  <2> QED
    BY <1>4, <2>1, <2>2, <2>3
<1>7. \A c \in v.claimed : \E i \in DOMAIN q : q[i] = TurnStart(c)
  BY <1>1, <1>5, StartsAppend DEF AccountsFor
<1>8. CASE over
  <2>1. LastWork(q, n)
    BY <1>1, <1>6, <1>8, WorkEnds DEF n
  <2>2. ~\E k \in n + 1 .. Len(q) : IsDrop(q[k])
    BY <1>4
  <2> QED
    BY <1>5, <1>7, <1>8, <2>1, <2>2 DEF AccountsFor, v, q, e, n
<1>9. CASE ~over
  <2>1. LastWork(q, w.end)
    BY <1>1, <1>6, <1>9, NoWorkEnds DEF AccountsFor, n
  <2>2. w.end \in 0 .. Len(ev) /\ ~IsDrop(e)
    BY <1>1 DEF AccountsFor, LastWork, IsDrop
  <2>3. (\E k \in w.end + 1 .. Len(q) : IsDrop(q[k])) <=> (\E k \in w.end + 1 .. Len(ev) : IsDrop(ev[k]))
    BY <1>1, <2>2, DropsAppend
  <2>4. w.droppedUnrun = \E k \in w.end + 1 .. Len(q) : IsDrop(q[k])
    BY <2>3 DEF AccountsFor
  <2> QED
    BY <1>5, <1>7, <1>9, <2>1, <2>4 DEF AccountsFor, v, q, e, n
<1> QED
  BY <1>8, <1>9

-----------------------------------------------------------------------------
\* Good logs, one event longer.

LEMMA TurnsIncreaseAppend ==
  ASSUME NEW l \in Seq(Events), NEW e \in Events, TurnsIncrease(l),
         e.type = "turn/start" => \A i \in DOMAIN l : l[i].type = "turn/start" => l[i].turn < e.turn
  PROVE  TurnsIncrease(Append(l, e))
<1> DEFINE q == Append(l, e)
<1>1. /\ Len(l) \in Nat /\ DOMAIN l = 1 .. Len(l) /\ DOMAIN q = 1 .. (Len(l) + 1) /\ q[Len(l) + 1] = e
      /\ \A k \in 1 .. Len(l) : q[k] = l[k]
  BY AppendIs
<1> HIDE DEF q
<1>2. ASSUME NEW i \in DOMAIN q, NEW j \in DOMAIN q,
             i < j, q[i].type = "turn/start", q[j].type = "turn/start"
      PROVE  q[i].turn < q[j].turn
  <2>1. i \in DOMAIN l /\ q[i] = l[i]
    BY <1>1, <1>2
  <2>2. CASE j = Len(l) + 1
    BY <1>1, <1>2, <2>1, <2>2
  <2>3. CASE j # Len(l) + 1
    <3>1. j \in DOMAIN l /\ q[j] = l[j]
      BY <1>1, <2>3
    <3> QED
      BY <1>2, <2>1, <3>1 DEF TurnsIncrease
  <2> QED
    BY <2>2, <2>3
<1> QED
  BY <1>2 DEF TurnsIncrease, q

LEMMA EndsFollowAppend ==
  ASSUME NEW l \in Seq(Events), NEW e \in Events, EndsFollowStarts(l),
         e.type = "turn/end" => \E i \in DOMAIN l : l[i] = TurnStart(e.turn)
  PROVE  EndsFollowStarts(Append(l, e))
<1> DEFINE q == Append(l, e)
<1>1. /\ Len(l) \in Nat /\ DOMAIN l = 1 .. Len(l) /\ DOMAIN q = 1 .. (Len(l) + 1) /\ q[Len(l) + 1] = e
      /\ \A k \in 1 .. Len(l) : q[k] = l[k]
  BY AppendIs
<1> HIDE DEF q
<1>2. ASSUME NEW j \in DOMAIN q, q[j].type = "turn/end"
      PROVE  \E i \in 1 .. j - 1 : q[i] = TurnStart(q[j].turn)
  <2>1. CASE j = Len(l) + 1
    <3>1. PICK i \in DOMAIN l : l[i] = TurnStart(e.turn)
      BY <1>1, <1>2, <2>1
    <3>2. i \in 1 .. j - 1 /\ q[i] = l[i] /\ q[j] = e
      BY <1>1, <2>1
    <3> QED
      BY <3>1, <3>2
  <2>2. CASE j # Len(l) + 1
    <3>1. j \in DOMAIN l /\ q[j] = l[j] /\ \A i \in 1 .. j - 1 : q[i] = l[i]
      BY <1>1, <2>2
    <3> QED
      BY <1>2, <3>1 DEF EndsFollowStarts
  <2> QED
    BY <2>1, <2>2
<1> QED
  BY <1>2 DEF EndsFollowStarts, q

LEMMA GoodAppend ==
  ASSUME NEW box, NEW l, NEW seed, Good(box, l, seed), NEW e \in Events, NEW b,
         TurnsIncrease(Append(l, e)), EndsFollowStarts(Append(l, e)), Sound(b, Append(l, e), seed)
  PROVE  Good(b, Append(l, e), seed)
<1> DEFINE q == Append(l, e)
<1>0. l \in Seq(Events) /\ seed \in 0 .. Len(l)
  BY DEF Good
<1>1. q \in Seq(Events) /\ Len(q) = Len(l) + 1 /\ Len(l) \in Nat
  BY <1>0, AppendIs
<1>2. SubSeq(q, 1, Len(l) + 1) = q
  BY <1>1, WholeIsPrefix
<1>3. \A n \in 0 .. Len(l) : SubSeq(q, 1, n) = SubSeq(l, 1, n)
  BY <1>0, PrefixOfAppend
<1> HIDE DEF q
<1>4. seed \in 0 .. Len(q) /\ SubSeq(q, 1, seed) = SubSeq(l, 1, seed)
  BY <1>0, <1>1, <1>3
<1>5. ASSUME NEW n \in seed .. Len(q) PROVE Kept(q, seed, n)
  <2>1. CASE n \in seed .. Len(l)
    <3>1. n \in 0 .. Len(l)
      BY <1>0, <2>1
    <3>2. Kept(l, seed, n)
      BY <2>1 DEF Good, PrefixesSound
    <3> QED
      BY <1>3, <3>1, <3>2 DEF Kept
  <2>2. CASE n = Len(l) + 1
    <3>1. Sound(b, q, seed) /\ Replay(OwnedBy(q, seed)).inbox = b
      BY DEF Sound, q
    <3> QED
      BY <1>2, <2>2, <3>1 DEF Kept
  <2> QED
    BY <1>0, <1>1, <2>1, <2>2
<1> QED
  BY <1>1, <1>4, <1>5 DEF Good, PrefixesSound, q

\* What a good log gives.
LEMMA GoodGives ==
  ASSUME NEW box, NEW l, NEW seed, Good(box, l, seed)
  PROVE  /\ l \in Seq(Events) /\ seed \in 0 .. Len(l) /\ box \in Boxes /\ Once(box)
         /\ TurnsIncrease(l) /\ EndsFollowStarts(l)
         /\ OwnedBy(l, seed) \in Seq(Events) /\ Replay(OwnedBy(l, seed)) = [ok |-> TRUE, inbox |-> box]
         /\ AccountsFor(OwnedBy(l, seed), FoldConsumedWork(OwnedBy(l, seed)), OpenTurn(l))
         /\ OpenTurn(l) \in Nat
BY OwnedIs, OpenTurnIs DEF Good, Sound

\* Its replay and its account with one more event.
LEMMA GoodExtends ==
  ASSUME NEW box, NEW l, NEW seed, Good(box, l, seed), NEW e \in Events
  PROVE  /\ Replay(OwnedBy(Append(l, e), seed)) = Projected([ok |-> TRUE, inbox |-> box], e)
         /\ FoldConsumedWork(OwnedBy(Append(l, e), seed)) =
              Account(FoldConsumedWork(OwnedBy(l, seed)), e, Len(OwnedBy(l, seed)) + 1)
         /\ OwnedBy(Append(l, e), seed) = Append(OwnedBy(l, seed), e)
<1>1. OwnedBy(Append(l, e), seed) = Append(OwnedBy(l, seed), e)
  BY GoodGives, OwnedAppend
<1>2. Replay(Append(OwnedBy(l, seed), e)) = Projected(Replay(OwnedBy(l, seed)), e)
  BY GoodGives, ReplayAppend
<1>3. FoldConsumedWork(Append(OwnedBy(l, seed), e)) =
        Account(FoldConsumedWork(OwnedBy(l, seed)), e, Len(OwnedBy(l, seed)) + 1)
  BY GoodGives, FoldAppend
<1> QED
  BY <1>1, <1>2, <1>3, GoodGives

LEMMA SoundAppend ==
  ASSUME NEW box, NEW l, NEW seed, Good(box, l, seed), NEW e \in Events, NEW b \in Boxes, Once(b),
         Projected([ok |-> TRUE, inbox |-> box], e) = [ok |-> TRUE, inbox |-> b],
         AccountsFor(Append(OwnedBy(l, seed), e),
                     Account(FoldConsumedWork(OwnedBy(l, seed)), e, Len(OwnedBy(l, seed)) + 1),
                     OpenTurn(Append(l, e)))
  PROVE  Sound(b, Append(l, e), seed)
<1>1. Replay(OwnedBy(Append(l, e), seed)) = Projected([ok |-> TRUE, inbox |-> box], e)
  BY GoodExtends
<1>2. FoldConsumedWork(OwnedBy(Append(l, e), seed)) =
        Account(FoldConsumedWork(OwnedBy(l, seed)), e, Len(OwnedBy(l, seed)) + 1)
  BY GoodExtends
<1>3. OwnedBy(Append(l, e), seed) = Append(OwnedBy(l, seed), e)
  BY GoodExtends
<1>4. AccountsFor(OwnedBy(Append(l, e), seed), FoldConsumedWork(OwnedBy(Append(l, e), seed)), OpenTurn(Append(l, e)))
  BY <1>2, <1>3
<1> QED
  BY <1>1, <1>4 DEF Sound

LEMMA GoodTurnStart ==
  ASSUME NEW box, NEW l, NEW seed, Good(box, l, seed), OpenTurn(l) = 0,
         NEW t, t = LastTurn(l) + 1
  PROVE  /\ TurnStart(t) \in Events /\ t \in Turns
         /\ Good(box, Append(l, TurnStart(t)), seed) /\ OpenTurn(Append(l, TurnStart(t))) = t
<1> DEFINE e == TurnStart(t)
           q == Append(l, e)
           own == OwnedBy(l, seed)
<1>1. /\ l \in Seq(Events) /\ seed \in 0 .. Len(l) /\ box \in Boxes /\ Once(box)
      /\ TurnsIncrease(l) /\ EndsFollowStarts(l) /\ own \in Seq(Events)
      /\ AccountsFor(own, FoldConsumedWork(own), 0)
  BY GoodGives
<1>2. /\ LastTurn(l) \in Nat /\ \A i \in DOMAIN l : l[i].type = "turn/start" => l[i].turn <= LastTurn(l)
  BY <1>1, LastTurnIs
<1>3. t \in Turns /\ e \in Events /\ e.type = "turn/start" /\ e.turn = t
  BY <1>2, EventKinds DEF Turns, TurnStart
<1>4. ASSUME NEW i \in DOMAIN l, l[i].type = "turn/start" PROVE l[i].turn < t
  <2>1. l[i] \in Events
    BY <1>1
  <2>2. l[i].turn \in Nat /\ l[i].turn <= LastTurn(l)
    BY <1>2, <1>4, <2>1, EventCases DEF Turns
  <2> QED
    BY <1>2, <2>2
<1> HIDE DEF e
<1>5. TurnsIncrease(q)
  BY <1>1, <1>3, <1>4, TurnsIncreaseAppend
<1>6. EndsFollowStarts(q)
  BY <1>1, <1>3, EndsFollowAppend
<1>7. OpenTurn(q) = t
  BY <1>1, <1>3, <1>5, OpenTurnAppend
<1>8. \A i \in DOMAIN own : own[i] # TurnStart(t)
  <2> SUFFICES ASSUME NEW i \in DOMAIN own, own[i] = TurnStart(t) PROVE FALSE
    OBVIOUS
  <2>1. Len(own) = Len(l) - seed /\ Len(l) \in Nat /\ seed \in Nat /\ \A k \in 1 .. Len(l) - seed : own[k] = l[seed + k]
    BY <1>1, OwnedIs
  <2>2. i \in 1 .. Len(l) - seed
    BY <1>1, <2>1
  <2>3. seed + i \in DOMAIN l /\ l[seed + i] = TurnStart(t)
    BY <1>1, <2>1, <2>2
  <2>4. t < t
    BY <1>4, <2>3 DEF TurnStart
  <2> QED
    BY <1>3, <2>4 DEF Turns
<1>9. AccountsFor(Append(own, e), Account(FoldConsumedWork(own), e, Len(own) + 1), t)
  BY <1>1, <1>3, <1>8, StartAccounted DEF e
<1>10. Projected([ok |-> TRUE, inbox |-> box], e) = [ok |-> TRUE, inbox |-> box]
  BY <1>3 DEF Projected
<1>11. Sound(box, q, seed)
  BY <1>1, <1>3, <1>7, <1>9, <1>10, SoundAppend
<1>12. Good(box, q, seed)
  BY <1>3, <1>5, <1>6, <1>11, GoodAppend
<1> QED
  BY <1>3, <1>7, <1>12 DEF e

LEMMA GoodStepStart ==
  ASSUME NEW box, NEW l, NEW seed, Good(box, l, seed), OpenTurn(l) # 0
  PROVE  /\ StepStart(OpenTurn(l)) \in Events
         /\ Good(box, Append(l, StepStart(OpenTurn(l))), seed)
         /\ OpenTurn(Append(l, StepStart(OpenTurn(l)))) = OpenTurn(l)
<1> DEFINE t == OpenTurn(l)
           e == StepStart(t)
           q == Append(l, e)
           own == OwnedBy(l, seed)
<1>1. /\ l \in Seq(Events) /\ box \in Boxes /\ Once(box)
      /\ TurnsIncrease(l) /\ EndsFollowStarts(l) /\ own \in Seq(Events)
      /\ AccountsFor(own, FoldConsumedWork(own), t) /\ t \in Nat
  BY GoodGives
<1> HIDE DEF t
<1>2. t \in Turns /\ e \in Events /\ e.type = "step/start"
  BY <1>1, EventKinds DEF Turns, StepStart, t
<1>3. AccountsFor(Append(own, e), Account(FoldConsumedWork(own), e, Len(own) + 1), t)
  BY <1>1, <1>2, StepAccounted
<1> HIDE DEF e
<1>4. TurnsIncrease(q)
  BY <1>1, <1>2, TurnsIncreaseAppend
<1>5. EndsFollowStarts(q)
  BY <1>1, <1>2, EndsFollowAppend
<1>6. OpenTurn(q) = t
  BY <1>1, <1>2, <1>4, OpenTurnAppend DEF t
<1>7. Projected([ok |-> TRUE, inbox |-> box], e) = [ok |-> TRUE, inbox |-> box]
  BY <1>2 DEF Projected
<1>8. Sound(box, q, seed)
  BY <1>1, <1>2, <1>3, <1>6, <1>7, SoundAppend
<1>9. Good(box, q, seed)
  BY <1>2, <1>4, <1>5, <1>8, GoodAppend
<1> QED
  BY <1>2, <1>6, <1>9 DEF e, t

LEMMA GoodTurnEnd ==
  ASSUME NEW box, NEW l, NEW seed, Good(box, l, seed), OpenTurn(l) # 0, NEW reason \in Reasons
  PROVE  /\ TurnEnd(OpenTurn(l), reason) \in Events
         /\ Good(box, Append(l, TurnEnd(OpenTurn(l), reason)), seed)
         /\ OpenTurn(Append(l, TurnEnd(OpenTurn(l), reason))) = 0
<1> DEFINE t == OpenTurn(l)
           e == TurnEnd(t, reason)
           q == Append(l, e)
           own == OwnedBy(l, seed)
<1>1. /\ l \in Seq(Events) /\ seed \in 0 .. Len(l) /\ box \in Boxes /\ Once(box)
      /\ TurnsIncrease(l) /\ EndsFollowStarts(l) /\ own \in Seq(Events)
      /\ AccountsFor(own, FoldConsumedWork(own), t) /\ t \in Nat
  BY GoodGives
<1>2. t = LastTurn(l) /\ \E i \in DOMAIN l : l[i] = TurnStart(t)
  BY <1>1, OpenTurnIs, LastTurnIs
<1>3. TurnsIncrease(own)
  <2>1. /\ Len(own) = Len(l) - seed /\ Len(l) \in Nat /\ seed \in Nat
        /\ \A k \in 1 .. Len(l) - seed : own[k] = l[seed + k]
    BY <1>1, OwnedIs
  <2>2. DOMAIN own = 1 .. Len(own) /\ DOMAIN l = 1 .. Len(l)
    BY <1>1
  <2>3. ASSUME NEW i \in DOMAIN own, NEW j \in DOMAIN own, i < j,
               own[i].type = "turn/start", own[j].type = "turn/start"
        PROVE  own[i].turn < own[j].turn
    <3>1. seed + i \in DOMAIN l /\ seed + j \in DOMAIN l /\ seed + i < seed + j
      BY <2>1, <2>2, <2>3
    <3>2. i \in 1 .. Len(l) - seed /\ j \in 1 .. Len(l) - seed
      BY <2>1, <2>2
    <3>3. own[i] = l[seed + i] /\ own[j] = l[seed + j]
      BY <2>1, <3>2
    <3> QED
      BY <1>1, <2>3, <3>1, <3>3 DEF TurnsIncrease
  <2> QED
    BY <2>3 DEF TurnsIncrease
<1> HIDE DEF t
<1>4. t \in Turns /\ e \in Events /\ e.type = "turn/end" /\ e.turn = t /\ t # 0
  BY <1>1, EventKinds DEF Turns, TurnEnd, t
<1>5. AccountsFor(Append(own, e), Account(FoldConsumedWork(own), e, Len(own) + 1), 0)
  BY <1>1, <1>3, <1>4, EndAccounted
<1> HIDE DEF e
<1>6. TurnsIncrease(q)
  BY <1>1, <1>4, TurnsIncreaseAppend
<1>7. EndsFollowStarts(q)
  BY <1>1, <1>2, <1>4, EndsFollowAppend
<1>8. OpenTurn(q) = 0
  BY <1>1, <1>4, <1>6, OpenTurnAppend DEF t
<1>9. Projected([ok |-> TRUE, inbox |-> box], e) = [ok |-> TRUE, inbox |-> box]
  BY <1>4 DEF Projected
<1>10. Sound(box, q, seed)
  BY <1>1, <1>4, <1>5, <1>8, <1>9, SoundAppend
<1>11. Good(box, q, seed)
  BY <1>4, <1>6, <1>7, <1>10, GoodAppend
<1> QED
  BY <1>4, <1>8, <1>11 DEF e, t

-----------------------------------------------------------------------------
\* Splices.

LEMMA SpliceIsList ==
  ASSUME NEW s \in Seq(Messages), NEW at \in Nat, NEW n \in Nat, at + n <= Len(s), NEW ins \in Seq(Messages)
  PROVE  Splice(s, at, n, ins) \in Seq(Messages)
<1>1. SubSeq(s, 1, at) \in Seq(Messages) /\ SubSeq(s, at + n + 1, Len(s)) \in Seq(Messages)
  OBVIOUS
<1>2. SubSeq(s, 1, at) \o ins \in Seq(Messages)
  BY <1>1
<1> QED
  BY <1>1, <1>2 DEF Splice

\* A valid splice gives two lists without a message twice.
LEMMA ApplyIsBox ==
  ASSUME NEW box \in Boxes, NEW e \in Splices, Valid(box, e)
  PROVE  Apply(box, e) \in Boxes /\ Once(Apply(box, e))
<1> DEFINE t == e.target
           new == Splice(box[t], e.start, e.removedCount, e.inserted)
<1>1. /\ t \in Targets /\ e.start \in Nat /\ e.removedCount \in Nat /\ e.inserted \in Seq(Messages)
      /\ box[t] \in Seq(Messages)
  BY DEF Splices, Boxes
<1>2. e.start + e.removedCount <= Len(box[t])
  BY DEF Valid
<1>3. new \in Seq(Messages)
  BY <1>1, <1>2, SpliceIsList
<1>4. Apply(box, e) = [box EXCEPT ![t] = new]
  BY DEF Apply
<1>5. IsInjective(PendingIds(box, t, new))
  BY DEF Valid
<1> HIDE DEF new, t
<1>6. Apply(box, e) \in Boxes
  BY <1>1, <1>3, <1>4 DEF Boxes
<1>7. CASE t = "next-turn"
  <2>1. Apply(box, e)["next-turn"] = new /\ Apply(box, e)["next-step"] = box["next-step"]
    BY <1>4, <1>7 DEF Boxes, Targets
  <2> QED
    BY <1>5, <1>6, <1>7, <2>1 DEF Once, PendingIds
<1>8. CASE t = "next-step"
  <2>1. Apply(box, e)["next-step"] = new /\ Apply(box, e)["next-turn"] = box["next-turn"]
    BY <1>4, <1>8 DEF Boxes, Targets
  <2> QED
    BY <1>5, <1>6, <1>8, <2>1 DEF Once, PendingIds
<1> QED
  BY <1>1, <1>7, <1>8 DEF Targets

LEMMA GoodSplice ==
  ASSUME NEW box, NEW l, NEW seed, Good(box, l, seed), NEW e \in Splices, Valid(box, e),
         IsClaim(e) => OpenTurn(l) # 0
  PROVE  /\ Good(Apply(box, e), Append(l, e), seed)
         /\ OpenTurn(Append(l, e)) = OpenTurn(l)
<1> DEFINE t == OpenTurn(l)
           q == Append(l, e)
           own == OwnedBy(l, seed)
<1>1. /\ l \in Seq(Events) /\ box \in Boxes
      /\ TurnsIncrease(l) /\ EndsFollowStarts(l) /\ own \in Seq(Events)
      /\ AccountsFor(own, FoldConsumedWork(own), t) /\ t \in Nat
  BY GoodGives
<1>2. e \in Events /\ e.type = "agent/inbox/spliced"
  BY EventKinds DEF Splices
<1>3. AccountsFor(Append(own, e), Account(FoldConsumedWork(own), e, Len(own) + 1), t)
  BY <1>1, SpliceAccounted
<1>4. TurnsIncrease(q)
  BY <1>1, <1>2, TurnsIncreaseAppend
<1>5. EndsFollowStarts(q)
  BY <1>1, <1>2, EndsFollowAppend
<1>6. OpenTurn(q) = t
  BY <1>1, <1>2, <1>4, OpenTurnAppend
<1>7. Projected([ok |-> TRUE, inbox |-> box], e) = [ok |-> TRUE, inbox |-> Apply(box, e)]
  BY <1>2 DEF Projected
<1>8. Apply(box, e) \in Boxes /\ Once(Apply(box, e))
  BY <1>1, ApplyIsBox
<1>9. Sound(Apply(box, e), q, seed)
  BY <1>2, <1>3, <1>6, <1>7, <1>8, SoundAppend
<1> QED
  BY <1>2, <1>4, <1>5, <1>6, <1>9, GoodAppend

-----------------------------------------------------------------------------
\* mutate.

LEMMA MaxOfTwo ==
  ASSUME NEW a \in Int, NEW b \in Int
  PROVE  Max({a, b}) = (IF a >= b THEN a ELSE b)
<1>1. \E x \in {a, b} : \A y \in {a, b} : x >= y
  OBVIOUS
<1>2. Max({a, b}) \in {a, b} /\ \A y \in {a, b} : Max({a, b}) >= y
  BY <1>1 DEF Max
<1> QED
  BY <1>2

LEMMA MinOfTwo ==
  ASSUME NEW a \in Int, NEW b \in Int
  PROVE  Min({a, b}) = (IF a <= b THEN a ELSE b)
<1>1. \E x \in {a, b} : \A y \in {a, b} : x <= y
  OBVIOUS
<1>2. Min({a, b}) \in {a, b} /\ \A y \in {a, b} : Min({a, b}) <= y
  BY <1>1 DEF Min
<1> QED
  BY <1>2

\* Whatever the arguments, the clamped coordinates lie in the list.
LEMMA Clamped ==
  ASSUME NEW len \in Nat, NEW start \in Int, NEW count \in Int
  PROVE  /\ ActualStart(len, start) \in 0 .. len
         /\ ActualDeleteCount(len, ActualStart(len, start), count) \in 0 .. (len - ActualStart(len, start))
<1> DEFINE at == ActualStart(len, start)
<1>1. len + start \in Int /\ 0 \in Int
  OBVIOUS
<1>2. at \in 0 .. len
  <2>1. CASE start < 0
    <3>1. Max({len + start, 0}) = IF len + start >= 0 THEN len + start ELSE 0
      BY <1>1, MaxOfTwo
    <3> QED
      BY <2>1, <3>1 DEF ActualStart
  <2>2. CASE ~(start < 0)
    <3>1. Min({start, len}) = IF start <= len THEN start ELSE len
      BY MinOfTwo
    <3> QED
      BY <2>2, <3>1 DEF ActualStart
  <2> QED
    BY <2>1, <2>2
<1> HIDE DEF at
<1>3. len - at \in Nat
  BY <1>2
<1>4. Max({count, 0}) = IF count >= 0 THEN count ELSE 0
  BY <1>1, MaxOfTwo
<1>5. Max({count, 0}) \in Nat
  BY <1>4
<1>6. Min({Max({count, 0}), len - at}) = IF Max({count, 0}) <= len - at THEN Max({count, 0}) ELSE len - at
  BY <1>3, <1>5, MinOfTwo
<1>7. Min({Max({count, 0}), len - at}) \in 0 .. (len - at)
  BY <1>3, <1>5, <1>6
<1> QED
  BY <1>2, <1>7 DEF ActualDeleteCount, at

\* A mutation changes nothing, or appends one valid splice and applies it; only a claim, which
\* does not discard, records a removal without a cancellation.
LEMMA MutateRecords ==
  ASSUME NEW st, st.inbox \in Boxes, NEW t \in Targets, NEW start \in Int, NEW count \in Int,
         NEW ins \in Seq(Messages), NEW discard \in BOOLEAN
  PROVE  \/ Mutate(st, t, start, count, ins, discard) = st
         \/ \E e \in Splices :
              /\ Valid(st.inbox, e)
              /\ IsClaim(e) => discard = FALSE
              /\ Mutate(st, t, start, count, ins, discard) =
                   [inbox |-> Apply(st.inbox, e), log |-> Append(st.log, e)]
<1> DEFINE len == Len(st.inbox[t])
           at == ActualStart(len, start)
           n == ActualDeleteCount(len, at, count)
           e == Spliced(t, at, n, ins, IF discard /\ n > 0 THEN "canceled" ELSE "none")
<1>1. len \in Nat
  BY DEF Boxes
<1>2. at \in Nat /\ n \in Nat
  <2>1. at \in 0 .. len /\ n \in 0 .. (len - at)
    BY <1>1, Clamped
  <2> QED
    BY <1>1, <2>1
<1>3. Mutate(st, t, start, count, ins, discard) =
        IF (n = 0 /\ ins = <<>>) \/ ~Valid(st.inbox, e) THEN st
        ELSE [inbox |-> Apply(st.inbox, e), log |-> Append(st.log, [e EXCEPT !.start = RecordedStart(@, start)])]
  BY DEF Mutate
<1> HIDE DEF len, at, n
<1>4. e = [type |-> "agent/inbox/spliced", target |-> t, start |-> at, removedCount |-> n, inserted |-> ins,
           outcome |-> IF discard /\ n > 0 THEN "canceled" ELSE "none"]
  BY DEF Spliced
<1> HIDE DEF e
<1>5. [e EXCEPT !.start = RecordedStart(@, start)] = e
  BY <1>4 DEF RecordedStart
<1>6. e \in Splices
  BY <1>2, <1>4 DEF Splices
<1>7. IsClaim(e) => discard = FALSE
  BY <1>4 DEF IsClaim
<1> QED
  BY <1>3, <1>5, <1>6, <1>7

\* The lists and the log of st are good, and its open turn is t.
GoodState(st, seed, t) == Good(st.inbox, st.log, seed) /\ OpenTurn(st.log) = t

LEMMA MutateKeepsGood ==
  ASSUME NEW st, NEW seed, NEW o, GoodState(st, seed, o), NEW t \in Targets, NEW start \in Int,
         NEW count \in Int, NEW ins \in Seq(Messages), NEW discard \in BOOLEAN, discard = FALSE => o # 0
  PROVE  GoodState(Mutate(st, t, start, count, ins, discard), seed, o)
<1> DEFINE new == Mutate(st, t, start, count, ins, discard)
<1>1. st.inbox \in Boxes
  BY GoodGives DEF GoodState
<1>2. \/ new = st
      \/ \E e \in Splices :
              /\ Valid(st.inbox, e)
              /\ IsClaim(e) => discard = FALSE
              /\ new = [inbox |-> Apply(st.inbox, e), log |-> Append(st.log, e)]
  BY <1>1, MutateRecords
<1> HIDE DEF new
<1>3. CASE new = st
  BY <1>3 DEF new
<1>4. ASSUME NEW e \in Splices, Valid(st.inbox, e), IsClaim(e) => discard = FALSE,
             new = [inbox |-> Apply(st.inbox, e), log |-> Append(st.log, e)]
      PROVE  GoodState(new, seed, o)
  <2>1. Good(st.inbox, st.log, seed) /\ (IsClaim(e) => OpenTurn(st.log) # 0) /\ OpenTurn(st.log) = o
    BY <1>4 DEF GoodState
  <2>2. Good(Apply(st.inbox, e), Append(st.log, e), seed) /\ OpenTurn(Append(st.log, e)) = OpenTurn(st.log)
    BY <1>4, <2>1, GoodSplice
  <2>3. new.inbox = Apply(st.inbox, e) /\ new.log = Append(st.log, e)
    BY <1>4
  <2> QED
    BY <2>1, <2>2, <2>3 DEF GoodState
<1> QED
  BY <1>2, <1>3, <1>4 DEF new

-----------------------------------------------------------------------------
\* Restart and fork.

LEMMA GoodPrefix ==
  ASSUME NEW box, NEW l, NEW seed, Good(box, l, seed), NEW n \in seed .. Len(l)
  PROVE  Good(Replay(OwnedBy(SubSeq(l, 1, n), seed)).inbox, SubSeq(l, 1, n), seed)
<1> DEFINE p == SubSeq(l, 1, n)
<1>1. l \in Seq(Events) /\ seed \in 0 .. Len(l) /\ TurnsIncrease(l) /\ EndsFollowStarts(l)
  BY DEF Good
<1>2. n \in 0 .. Len(l) /\ seed \in 0 .. n
  BY <1>1
<1>3. p \in Seq(Events) /\ Len(p) = n /\ Len(l) \in Nat /\ \A k \in 1 .. n : p[k] = l[k]
  BY <1>1, <1>2, PrefixIs
<1>4. \A i \in 0 .. n : SubSeq(p, 1, i) = SubSeq(l, 1, i)
  BY <1>1, <1>2, PrefixOfPrefix
<1>5. Kept(l, seed, n)
  BY DEF Good, PrefixesSound
<1> HIDE DEF p
<1>6. DOMAIN p = 1 .. n /\ DOMAIN l = 1 .. Len(l)
  BY <1>1, <1>3
<1>7. \A i \in DOMAIN p : i \in DOMAIN l /\ p[i] = l[i]
  BY <1>2, <1>3, <1>6
<1>8. TurnsIncrease(p)
  BY <1>1, <1>7 DEF TurnsIncrease
<1>9. EndsFollowStarts(p)
  <2>1. \A j \in DOMAIN p : \A i \in 1 .. j - 1 : p[i] = l[i]
    BY <1>2, <1>3, <1>6
  <2> QED
    BY <1>1, <1>7, <2>1 DEF EndsFollowStarts
<1>10. ASSUME NEW i \in seed .. Len(p) PROVE Kept(p, seed, i)
  <2>1. i \in 0 .. n /\ i \in seed .. Len(l)
    BY <1>2, <1>3
  <2>2. Kept(l, seed, i)
    BY <2>1 DEF Good, PrefixesSound
  <2> QED
    BY <1>4, <2>1, <2>2 DEF Kept
<1>11. Sound(Replay(OwnedBy(p, seed)).inbox, p, seed)
  BY <1>5 DEF Kept, p
<1>12. OpenTurn(SubSeq(p, 1, seed)) = 0
  BY <1>2, <1>4 DEF Good
<1>13. seed \in 0 .. Len(p)
  BY <1>2, <1>3
<1>14. Good(Replay(OwnedBy(p, seed)).inbox, p, seed)
  BY <1>3, <1>8, <1>9, <1>10, <1>11, <1>12, <1>13 DEF Good, PrefixesSound
<1> QED
  BY <1>14 DEF p

\* A session that owns nothing yet.
LEMMA FreshIsGood ==
  ASSUME NEW l \in Seq(Events), TurnsIncrease(l), EndsFollowStarts(l), OpenTurn(l) = 0
  PROVE  Good(EmptyInbox, l, Len(l))
<1>1. Len(l) \in 0 .. Len(l) /\ SubSeq(l, 1, Len(l)) = l /\ \A n \in Len(l) .. Len(l) : n = Len(l)
  BY WholeIsPrefix
<1>2. OwnedBy(l, Len(l)) = <<>>
  BY DEF OwnedBy
<1>3. EmptyInbox \in Boxes
  BY DEF EmptyInbox, Boxes
<1>4. Once(EmptyInbox)
  <2>1. EmptyInbox["next-turn"] \o EmptyInbox["next-step"] = <<>>
    BY DEF EmptyInbox, Targets
  <2>2. DOMAIN (EmptyInbox["next-turn"] \o EmptyInbox["next-step"]) = {}
    BY <2>1
  <2> QED
    BY <2>2 DEF Once, IsInjective
<1>5. Replay(<<>>) = [ok |-> TRUE, inbox |-> EmptyInbox]
  BY ReplayEmpty DEF NothingPending
<1>6. AccountsFor(<<>>, NoWork, 0)
  <2>1. NoWork \in Works /\ NoWork.open = 0 /\ NoWork.stepped = {} /\ NoWork.claimed = {}
        /\ NoWork.end = 0 /\ NoWork.droppedUnrun = FALSE
    BY DEF NoWork, Works
  <2>2. DOMAIN <<>> = {} /\ Len(<<>>) = 0 /\ 0 \in 0 .. 0 /\ 0 + 1 .. 0 = {}
    OBVIOUS
  <2>3. LastWork(<<>>, 0)
    BY <2>2 DEF LastWork
  <2>4. ~\E k \in NoWork.end + 1 .. Len(<<>>) : IsDrop(<<>>[k])
    BY <2>1, <2>2
  <2> QED
    BY <2>1, <2>3, <2>4 DEF AccountsFor
<1>7. Sound(EmptyInbox, l, Len(l))
  BY <1>2, <1>3, <1>4, <1>5, <1>6, FoldEmpty DEF Sound
<1>8. Replay(OwnedBy(l, Len(l))).inbox = EmptyInbox
  BY <1>2, <1>5
<1> QED
  BY <1>1, <1>7, <1>8 DEF Good, PrefixesSound, Kept

-----------------------------------------------------------------------------
\* The inductive step, action by action.

\* Every mutation of the inbox is a sequence of mutate calls.
LEMMA BecomesKeeps ==
  ASSUME InboxInvariant, NEW st, GoodState(st, seedLength, open), Becomes(st)
  PROVE  InboxInvariant'
BY DEF InboxInvariant, GoodState, Becomes

LEMMA LiveIsGood ==
  ASSUME InboxInvariant
  PROVE  /\ GoodState(Live, seedLength, open)
         /\ \A t \in Targets : inbox[t] \in Seq(Messages) /\ Len(inbox[t]) \in Int
         /\ \A m \in Messages : <<m>> \in Seq(Messages)
         /\ <<>> \in Seq(Messages)
         /\ "next-turn" \in Targets /\ "next-step" \in Targets
<1>1. GoodState(Live, seedLength, open)
  BY DEF InboxInvariant, GoodState, Live
<1>2. inbox \in Boxes
  BY GoodGives DEF InboxInvariant
<1>3. \A t \in Targets : inbox[t] \in Seq(Messages)
  BY <1>2 DEF Boxes
<1> QED
  BY <1>1, <1>3 DEF Targets

LEMMA AppendMessageKeeps ==
  ASSUME InboxInvariant, NEW t \in Targets, NEW m \in Messages, AppendMessage(t, m) \/ Prepend(t, m)
  PROVE  InboxInvariant'
<1>1. /\ GoodState(Live, seedLength, open) /\ Len(inbox[t]) \in Int /\ <<m>> \in Seq(Messages)
      /\ 0 \in Int /\ TRUE \in BOOLEAN
  BY LiveIsGood
<1>2. ASSUME AppendMessage(t, m) PROVE InboxInvariant'
  <2>1. GoodState(Mutate(Live, t, Len(inbox[t]), 0, <<m>>, TRUE), seedLength, open)
    BY <1>1, MutateKeepsGood
  <2> QED
    BY <1>2, <2>1, BecomesKeeps DEF AppendMessage
<1>3. ASSUME Prepend(t, m) PROVE InboxInvariant'
  <2>1. GoodState(Mutate(Live, t, 0, 0, <<m>>, TRUE), seedLength, open)
    BY <1>1, MutateKeepsGood
  <2> QED
    BY <1>3, <2>1, BecomesKeeps DEF Prepend
<1> QED
  BY <1>2, <1>3

LEMMA IndexIsInt ==
  ASSUME InboxInvariant, NEW m
  PROVE  Locate(m) \in Targets /\ IndexIn(Locate(m), m) \in Int
<1> DEFINE s == inbox[Locate(m)]
           I == {i \in 1 .. Len(s) : s[i] = m}
<1>1. Locate(m) \in Targets
  BY DEF Locate, Targets
<1>2. IndexIn(Locate(m), m) = (IF I # {} THEN Min(I) ELSE 0) - 1
  BY DEF IndexIn, SelectInSeq
<1>3. I \subseteq Nat
  OBVIOUS
<1>4. I # {} => Min(I) \in I
  <2> HIDE DEF I
  <2> SUFFICES ASSUME I # {} PROVE Min(I) \in I
    OBVIOUS
  <2>1. \E k \in I : \A j \in I : k <= j
    BY <1>3, LeastOf
  <2> QED
    BY <2>1 DEF Min
<1> HIDE DEF I
<1>5. (IF I # {} THEN Min(I) ELSE 0) \in Nat
  BY <1>3, <1>4
<1> QED
  BY <1>1, <1>2, <1>5

LEMMA ReplaceKeeps ==
  ASSUME InboxInvariant, NEW m \in Messages, NEW new \in Messages, Replace(m, new) \/ RemoveMessage(m)
  PROVE  InboxInvariant'
<1>1. /\ GoodState(Live, seedLength, open) /\ <<new>> \in Seq(Messages) /\ <<>> \in Seq(Messages)
      /\ 1 \in Int /\ TRUE \in BOOLEAN
  BY LiveIsGood
<1>2. Locate(m) \in Targets /\ IndexIn(Locate(m), m) \in Int
  BY IndexIsInt
<1>3. ASSUME Replace(m, new) PROVE InboxInvariant'
  <2>1. GoodState(Mutate(Live, Locate(m), IndexIn(Locate(m), m), 1, <<new>>, TRUE), seedLength, open)
    BY <1>1, <1>2, MutateKeepsGood
  <2> QED
    BY <1>3, <2>1, BecomesKeeps DEF Replace
<1>4. ASSUME RemoveMessage(m) PROVE InboxInvariant'
  <2>1. GoodState(Mutate(Live, Locate(m), IndexIn(Locate(m), m), 1, <<>>, TRUE), seedLength, open)
    BY <1>1, <1>2, MutateKeepsGood
  <2> QED
    BY <1>4, <2>1, BecomesKeeps DEF RemoveMessage
<1> QED
  BY <1>3, <1>4

LEMMA SpliceCallKeeps ==
  ASSUME InboxInvariant, NEW t \in Targets, NEW start \in Starts, NEW count \in Counts, NEW ins \in Inserts,
         SpliceCall(t, start, count, ins)
  PROVE  InboxInvariant'
<1>1. start \in Int /\ count \in Int /\ ins \in Seq(Messages) /\ TRUE \in BOOLEAN
  BY ArgumentsAssumption
<1>2. GoodState(Mutate(Live, t, start, count, ins, TRUE), seedLength, open)
  BY <1>1, LiveIsGood, MutateKeepsGood
<1> QED
  BY <1>2, BecomesKeeps DEF SpliceCall

\* clear discards both lists; claim takes next-step, and one of next-turn at the start of a turn.
LEMMA ClearKeeps ==
  ASSUME InboxInvariant, Clear
  PROVE  InboxInvariant'
<1> DEFINE first == Mutate(Live, "next-step", 0, Len(inbox["next-step"]), <<>>, TRUE)
           second == Mutate(first, "next-turn", 0, Len(inbox["next-turn"]), <<>>, TRUE)
<1>1. /\ GoodState(Live, seedLength, open) /\ "next-turn" \in Targets /\ "next-step" \in Targets
      /\ Len(inbox["next-step"]) \in Int /\ Len(inbox["next-turn"]) \in Int
      /\ <<>> \in Seq(Messages) /\ 0 \in Int /\ TRUE \in BOOLEAN
  BY LiveIsGood
<1>2. GoodState(first, seedLength, open)
  BY <1>1, MutateKeepsGood
<1> HIDE DEF first
<1>3. GoodState(second, seedLength, open)
  BY <1>1, <1>2, MutateKeepsGood
<1>4. Becomes(second)
  BY DEF Clear, first
<1> QED
  BY <1>3, <1>4, BecomesKeeps

LEMMA ClaimKeeps ==
  ASSUME InboxInvariant, NEW t \in Targets, Claim(t)
  PROVE  InboxInvariant'
<1> DEFINE first == Mutate(Live, "next-step", 0, Len(inbox["next-step"]), <<>>, FALSE)
           second == Mutate(first, "next-turn", 0, 1, <<>>, FALSE)
<1>1. /\ GoodState(Live, seedLength, open) /\ "next-turn" \in Targets /\ "next-step" \in Targets
      /\ Len(inbox["next-step"]) \in Int /\ 1 \in Int
      /\ <<>> \in Seq(Messages) /\ 0 \in Int /\ FALSE \in BOOLEAN
  BY LiveIsGood
<1>2. open # 0
  BY DEF Claim
<1>3. GoodState(first, seedLength, open)
  BY <1>1, <1>2, MutateKeepsGood
<1> HIDE DEF first
<1>4. GoodState(second, seedLength, open)
  BY <1>1, <1>2, <1>3, MutateKeepsGood
<1> HIDE DEF second
<1>5. Becomes(IF t = "next-turn" THEN second ELSE first)
  BY DEF Claim, first, second
<1>6. CASE t = "next-turn"
  BY <1>4, <1>5, <1>6, BecomesKeeps
<1>7. CASE t # "next-turn"
  BY <1>3, <1>5, <1>7, BecomesKeeps
<1> QED
  BY <1>6, <1>7

LEMMA TurnKeeps ==
  ASSUME InboxInvariant,
         BeginTurn \/ BeginStep \/ \E reason \in {"completed", "blocked", "aborted", "error"} : EndTurn(reason)
  PROVE  InboxInvariant'
<1>1. Good(inbox, log, seedLength) /\ open = OpenTurn(log)
  BY DEF InboxInvariant
<1>2. ASSUME BeginTurn PROVE InboxInvariant'
  <2>1. /\ open = 0 /\ open' = LastTurn(log) + 1 /\ log' = Append(log, TurnStart(open'))
        /\ inbox' = inbox /\ seedLength' = seedLength
    BY <1>2 DEF BeginTurn, Logs
  <2> DEFINE t == LastTurn(log) + 1
  <2>2. t = LastTurn(log) + 1 /\ OpenTurn(log) = 0
    BY <1>1, <2>1
  <2> HIDE DEF t
  <2>3. Good(inbox, Append(log, TurnStart(t)), seedLength) /\ OpenTurn(Append(log, TurnStart(t))) = t
    BY <1>1, <2>2, GoodTurnStart
  <2> QED
    BY <2>1, <2>2, <2>3 DEF InboxInvariant
<1>3. ASSUME BeginStep PROVE InboxInvariant'
  <2>1. /\ open # 0 /\ log' = Append(log, StepStart(open))
        /\ inbox' = inbox /\ seedLength' = seedLength /\ open' = open
    BY <1>3 DEF BeginStep, Logs
  <2>2. Good(inbox, log', seedLength) /\ OpenTurn(log') = open
    BY <1>1, <2>1, GoodStepStart
  <2> QED
    BY <2>1, <2>2 DEF InboxInvariant
<1>4. ASSUME NEW reason \in {"completed", "blocked", "aborted", "error"}, EndTurn(reason) PROVE InboxInvariant'
  <2>1. /\ open # 0 /\ log' = Append(log, TurnEnd(open, reason)) /\ reason \in Reasons
        /\ inbox' = inbox /\ seedLength' = seedLength /\ open' = 0
    BY <1>4 DEF EndTurn, Logs, Reasons
  <2>2. Good(inbox, log', seedLength) /\ OpenTurn(log') = 0
    BY <1>1, <2>1, GoodTurnEnd
  <2> QED
    BY <2>1, <2>2 DEF InboxInvariant
<1> QED
  BY <1>2, <1>3, <1>4

LEMMA RestartKeeps ==
  ASSUME InboxInvariant, NEW n, Restart(n)
  PROVE  InboxInvariant'
<1> DEFINE kept == SubSeq(log, 1, n)
           t == OpenTurn(kept)
           box == Replay(OwnedBy(kept, seedLength)).inbox
           repaired == IF t = 0 THEN kept ELSE Append(kept, TurnEnd(t, "interrupted"))
<1>1. /\ n \in seedLength .. Len(log) /\ log' = repaired /\ open' = 0 /\ seedLength' = seedLength
      /\ inbox' = Replay(OwnedBy(repaired, seedLength)).inbox
  BY DEF Restart
<1>2. Good(box, kept, seedLength)
  BY <1>1, GoodPrefix DEF InboxInvariant
<1>3. \E b : Good(b, repaired, seedLength) /\ OpenTurn(repaired) = 0
  <2> HIDE DEF kept, box
  <2>1. CASE t = 0
    BY <1>2, <2>1
  <2>2. CASE t # 0
    <3>1. "interrupted" \in Reasons
      BY DEF Reasons
    <3>2. Good(box, Append(kept, TurnEnd(t, "interrupted")), seedLength)
      BY <1>2, <2>2, <3>1, GoodTurnEnd
    <3>3. OpenTurn(Append(kept, TurnEnd(t, "interrupted"))) = 0
      BY <1>2, <2>2, <3>1, GoodTurnEnd
    <3> QED
      BY <2>2, <3>2, <3>3
  <2> QED
    BY <2>1, <2>2
<1> HIDE DEF repaired
<1>4. PICK b : Good(b, repaired, seedLength) /\ OpenTurn(repaired) = 0
  BY <1>3
<1>5. Replay(OwnedBy(repaired, seedLength)) = [ok |-> TRUE, inbox |-> b]
  BY <1>4, GoodGives
<1>6. inbox' = b
  BY <1>1, <1>5
<1> QED
  BY <1>1, <1>4, <1>6 DEF InboxInvariant

LEMMA ForkKeeps ==
  ASSUME InboxInvariant, Fork
  PROVE  InboxInvariant'
<1>1. /\ open = 0 /\ seedLength' = Len(log) /\ inbox' = EmptyInbox /\ log' = log /\ open' = open
  BY DEF Fork
<1>2. log \in Seq(Events) /\ TurnsIncrease(log) /\ EndsFollowStarts(log) /\ OpenTurn(log) = 0
  BY <1>1, GoodGives DEF InboxInvariant
<1>3. Good(EmptyInbox, log, Len(log))
  BY <1>2, FreshIsGood
<1> QED
  BY <1>1, <1>2, <1>3 DEF InboxInvariant

LEMMA InitHolds == Init => InboxInvariant
<1> SUFFICES ASSUME Init PROVE InboxInvariant
  OBVIOUS
<1>1. <<>> \in Seq(Events) /\ Len(<<>>) = 0 /\ DOMAIN <<>> = {}
  OBVIOUS
<1>2. TurnsIncrease(<<>>) /\ EndsFollowStarts(<<>>)
  BY <1>1 DEF TurnsIncrease, EndsFollowStarts
<1>3. LastTurn(<<>>) = 0
  <2>1. {i \in 1 .. Len(<<>>) : <<>>[i].type = "turn/start"} = {}
    BY <1>1
  <2> QED
    BY <2>1 DEF LastTurn, SelectLastInSeq
<1>4. OpenTurn(<<>>) = 0
  BY <1>3 DEF OpenTurn
<1>5. Good(EmptyInbox, <<>>, 0)
  BY <1>1, <1>2, <1>4, FreshIsGood
<1> QED
  BY <1>4, <1>5 DEF Init, InboxInvariant

LEMMA NextKeeps == InboxInvariant /\ [Next]_vars => InboxInvariant'
<1> SUFFICES ASSUME InboxInvariant, [Next]_vars PROVE InboxInvariant'
  OBVIOUS
<1>1. CASE UNCHANGED vars
  BY <1>1 DEF vars, InboxInvariant
<1>2. ASSUME NEW t \in Targets, NEW m \in Messages, AppendMessage(t, m) \/ Prepend(t, m) PROVE InboxInvariant'
  BY <1>2, AppendMessageKeeps
<1>3. ASSUME NEW m \in Messages, NEW new \in Messages, Replace(m, new) PROVE InboxInvariant'
  BY <1>3, ReplaceKeeps
<1>4. ASSUME NEW m \in Messages, RemoveMessage(m) PROVE InboxInvariant'
  BY <1>4, ReplaceKeeps
<1>5. ASSUME NEW t \in Targets, NEW start \in Starts, NEW count \in Counts, NEW ins \in Inserts,
             SpliceCall(t, start, count, ins)
      PROVE  InboxInvariant'
  BY <1>5, SpliceCallKeeps
<1>6. CASE Clear
  BY <1>6, ClearKeeps
<1>7. ASSUME NEW t \in Targets, Claim(t) PROVE InboxInvariant'
  BY <1>7, ClaimKeeps
<1>8. CASE BeginTurn \/ BeginStep
           \/ \E reason \in {"completed", "blocked", "aborted", "error"} : EndTurn(reason)
  BY <1>8, TurnKeeps
<1>9. ASSUME NEW n \in 0 .. Len(log), Restart(n) PROVE InboxInvariant'
  BY <1>9, RestartKeeps
<1>10. CASE Fork
  BY <1>10, ForkKeeps
<1> QED
  BY <1>1, <1>2, <1>3, <1>4, <1>5, <1>6, <1>7, <1>8, <1>9, <1>10 DEF Next

LEMMA MaxIs ==
  ASSUME NEW S, S \subseteq Int, NEW m \in S, \A i \in S : i <= m
  PROVE  Max(S) = m
<1>1. \A x \in S : (\A y \in S : x >= y) => x = m
  OBVIOUS
<1>2. \A y \in S : m >= y
  OBVIOUS
<1> QED
  BY <1>1, <1>2 DEF Max

-----------------------------------------------------------------------------
\* The theorems.

\* InboxInvariant is inductive: the lists are those that the log replays to, the account
\* of the log is right, and both are true of every prefix that a crash may leave.
THEOREM InboxInvariantHolds == Spec => []InboxInvariant
<1> QED
  BY InitHolds, NextKeeps, PTL DEF Spec

\* Both lists hold messages, the log holds events, and a fork's seed lies in its log.
THEOREM TypeCorrect == Spec => []TypeOK
<1>1. InboxInvariant => TypeOK
  BY GoodGives DEF InboxInvariant, TypeOK, Boxes
<1> QED
  BY <1>1, InboxInvariantHolds, PTL

\* A constructor that replays the recorded splices is accepted by validate and gets the live
\* lists, whatever arguments splice was called with and wherever a crash cut the log.
THEOREM ReplayAlwaysLive == Spec => []ReplayIsLive
<1>1. InboxInvariant => ReplayIsLive
  BY GoodGives DEF InboxInvariant, ReplayIsLive, Owned
<1> QED
  BY <1>1, InboxInvariantHolds, PTL

\* No message is pending twice, in one list or across both.
THEOREM NeverPendingTwice == Spec => []PendingOnce
<1>1. InboxInvariant => PendingOnce
  BY GoodGives DEF InboxInvariant, PendingOnce, Once
<1> QED
  BY <1>1, InboxInvariantHolds, PTL

\* foldConsumedWork names the last turn that ended over work, and says that work was dropped
\* exactly if input was cancelled and not replaced after it.
THEOREM WorkIsAccounted == Spec => []WorkAccounted
<1>1. InboxInvariant => WorkAccounted
  <2> SUFFICES ASSUME InboxInvariant PROVE WorkAccounted
    OBVIOUS
  <2> DEFINE w == FoldConsumedWork(Owned)
             ends == {i \in DOMAIN Owned : EndsWork(Owned, i)}
  <2>1. Owned \in Seq(Events) /\ AccountsFor(Owned, w, OpenTurn(log))
    BY GoodGives DEF InboxInvariant, Owned
  <2>2. /\ LastWork(Owned, w.end)
        /\ w.droppedUnrun = \E k \in w.end + 1 .. Len(Owned) : IsDrop(Owned[k])
    BY <2>1 DEF AccountsFor
  <2> HIDE DEF w
  <2>3. w.end = IF ends = {} THEN 0 ELSE Max(ends)
    <3>1. Len(Owned) \in Nat /\ DOMAIN Owned = 1 .. Len(Owned) /\ w.end \in 0 .. Len(Owned)
      BY <2>1, <2>2 DEF LastWork
    <3>2. ends \subseteq Int /\ (w.end # 0 => w.end \in ends) /\ \A i \in ends : i <= w.end /\ i >= 1
      BY <2>2, <3>1 DEF LastWork
    <3> HIDE DEF ends
    <3>3. ASSUME ends # {} PROVE Max(ends) = w.end
      <4>1. PICK i : i \in ends
        BY <3>3
      <4>2. i \in Int /\ i <= w.end /\ i >= 1
        BY <3>2, <4>1
      <4>3. w.end # 0
        BY <3>1, <4>2
      <4> QED
        BY <3>2, <4>3, MaxIs
    <3>4. ends = {} => w.end = 0
      BY <3>2
    <3> QED
      BY <3>3, <3>4
  <2> QED
    BY <2>2, <2>3 DEF WorkAccounted, w, IsDrop
<1> QED
  BY <1>1, InboxInvariantHolds, PTL

=============================================================================
