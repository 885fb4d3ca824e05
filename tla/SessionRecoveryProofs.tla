------------------------ MODULE SessionRecoveryProofs ------------------------
(***************************************************************************)
(* Proofs about SessionRecovery for any calls, turns, steps and crashes:   *)
(* the log a crash leaves, and every log the repair passes through, is     *)
(* legal; the repair is complete and resumes where it was cut; no call     *)
(* whose body ran is called not started; no request is taken back.         *)
(***************************************************************************)
EXTENDS SessionRecovery, SequenceTheorems, FiniteSetTheorems, NaturalsInduction,
        WellFoundedInduction, TLAPS

-----------------------------------------------------------------------------
\* What is true of a log, said of the scan s and the trace t over it.

Entries == [call : Calls, step : Nat, callSeq : Nat]
Scans == [turn : Nat, step : Nat, pendingCalls : Seq(Entries), seq : Nat]
Traces == [ok : BOOLEAN, turn : Nat, step : Nat, nextTurn : Nat \ {0}, nextStep : Nat \ {0},
           pendingCalls : SUBSET Calls]

\* A call id has one entry in the Map, of the open step.
OneEntryEach(s) ==
  /\ \A i \in DOMAIN s.pendingCalls : s.pendingCalls[i].step = s.step
  /\ \A i, j \in DOMAIN s.pendingCalls : s.pendingCalls[i].call = s.pendingCalls[j].call => i = j

\* The scan of repair.ts and the trace of invariant.ts see the same open turn, step and calls,
\* and the trace has found nothing to object to.
Agree(s, t) ==
  /\ t.ok = TRUE /\ t.turn = s.turn /\ t.step = s.step
  /\ s.turn \in {0, t.nextTurn} /\ s.step \in {0, t.nextStep}
  /\ s.turn = 0 => s.step = 0
  /\ s.step = 0 => s.pendingCalls = <<>>
  /\ OneEntryEach(s)
  /\ \A c \in Calls : c \in t.pendingCalls <=>
       \E i \in DOMAIN s.pendingCalls : s.pendingCalls[i].call = c /\ s.pendingCalls[i].callSeq # 0

\* Turns and the calls' steps are numbered up to the open ones.
Numbered(p, s, t) ==
  \A k \in DOMAIN p :
    /\ p[k].turn <= t.nextTurn
    /\ s.turn = 0 => p[k].turn < t.nextTurn
    /\ p[k].type = "tool/call" /\ p[k].turn = t.nextTurn =>
         p[k].step <= t.nextStep /\ (s.step = 0 => p[k].step < t.nextStep)

LastTurnIs(p, s, t) == LastTurn(p) = IF s.turn = 0 THEN t.nextTurn - 1 ELSE t.nextTurn

\* A pending call cites its last tool/call, and one without a citation has none in its step.
Cites(p, s) ==
  \A i \in DOMAIN s.pendingCalls :
    LET entry == s.pendingCalls[i]
    IN /\ entry.callSeq = 0 => \A k \in DOMAIN p : p[k] # ToolCall(s.turn, s.step, entry.call)
       /\ entry.callSeq # 0 =>
            /\ entry.callSeq \in DOMAIN p
            /\ p[entry.callSeq] = ToolCall(s.turn, s.step, entry.call)
            /\ \A k \in DOMAIN p : k > entry.callSeq => ~(p[k].type = "tool/call" /\ p[k].call = entry.call)

NotStarted(e) == e.type = "tool/result" /\ e.error = "TOOL_NOT_STARTED"

\* No call on record is called not started.
NeverDenied(p) ==
  \A k, l \in DOMAIN p : NotStarted(p[k]) => p[l] # ToolCall(p[k].turn, p[k].step, p[k].call)

\* The message at i belongs to a step that is not closed.
InOpenStep(p, i) ==
  p[i].type = "assistant/message" /\ \A k \in i + 1 .. Len(p) : p[k].type # "step/end"
Answers(p, i, c) == {k \in i + 1 .. Len(p) : p[k].type = "tool/result" /\ p[k].call = c}
IsPending(s, c) == \E i \in DOMAIN s.pendingCalls : s.pendingCalls[i].call = c

\* The calls of the open step's message are pending and unanswered, or answered once.
AnsweredOnce(p, s) ==
  \A i \in DOMAIN p : InOpenStep(p, i) =>
    /\ s.step # 0
    /\ \A c \in Range(p[i].calls) :
         /\ IsPending(s, c) => Answers(p, i, c) = {}
         /\ ~IsPending(s, c) => \E k \in i + 1 .. Len(p) : Answers(p, i, c) = {k}

\* A log that the code can have written, or a crash can have left.
GoodOver(p, s, t) ==
  /\ s \in Scans /\ t \in Traces
  /\ s.seq = Len(p)
  /\ Agree(s, t)
  /\ Numbered(p, s, t)
  /\ LastTurnIs(p, s, t)
  /\ Cites(p, s)
  /\ AnsweredOnce(p, s)
Good(p) == GoodOver(p, OpenTail(p), Trace(p)) /\ NeverDenied(p)

AllGood(p) == \A n \in 0 .. Len(p) : Good(SubSeq(p, 1, n))

\* The inductive invariant.

\* Every prefix of the log is good: a crash may leave any of them.
LogGood == AllGood(log)

\* The plan's first k calls are answered; the rest are what the scan has pending, at the stage
\* their entries show.
PlanMatches(calls, stage, pending, k) ==
  /\ \A j \in 1 .. k : stage[calls[j]] = "answered"
  /\ \A i \in DOMAIN pending :
       /\ pending[i].call = calls[k + i]
       /\ \/ pending[i].callSeq = 0 /\ stage[calls[k + i]] = "planned"
          \/ pending[i].callSeq # 0 /\ stage[calls[k + i]] \in {"started", "settled"}
PlanFollows(s) ==
  LET k == Len(plan) - Len(s.pendingCalls)
  IN k \in Nat /\ PlanMatches(plan, tool, s.pendingCalls, k)

\* Nothing of the open step is on record but its start.
StepUntouched(p, s) ==
  /\ \A k \in DOMAIN p : p[k].type = "tool/call" => ~(p[k].turn = s.turn /\ p[k].step = s.step)
  /\ \A i \in DOMAIN p : ~InOpenStep(p, i)

\* Every call that was called not started is of a turn before the next.
DeniedBefore(p, t) == \A k \in DOMAIN p : NotStarted(p[k]) => p[k].turn < t.nextTurn

\* A running agent agrees with the log it appends to.
AgentAt(s, t) ==
  /\ pc = "idle" => s.turn = 0 /\ t.nextTurn = turn + 1
  /\ pc # "idle" => s.turn = turn /\ turn # 0
  /\ pc = "turn" => s.step = 0 /\ t.nextStep = step + 1
  /\ pc \in {"step", "asked", "tools"} => s.step = step /\ step # 0
  /\ pc \in {"step", "asked"} => s.pendingCalls = <<>> /\ StepUntouched(log, s)
  /\ pc = "tools" => PlanFollows(s)
AgentFollows ==
  up => DeniedBefore(log, Trace(log)) /\ AgentAt(OpenTail(log), Trace(log))

\* The plan names each call once, and only its calls have a stage.
PlanShape ==
  /\ \A i, j \in DOMAIN plan : plan[i] = plan[j] => i = j
  /\ \A c \in Calls : tool[c] # "none" => \E i \in DOMAIN plan : plan[i] = c
  /\ pc # "tools" => \A c \in Calls : tool[c] = "none"
  /\ ~up => pc = "idle"

\* A body that ran has its call in the durable prefix.
RanIsDurable ==
  \A r \in ran : \E k \in 1 .. durable : log[k] = ToolCall(r[1], r[2], r[3])

\* A request was made from a durable prefix.
AskedIsDurable ==
  \A sent \in asked : sent \in Seq(Events) /\ Len(sent) <= durable /\ sent = SubSeq(log, 1, Len(sent))

RecoveryInvariant ==
  TypeOK /\ LogGood /\ AgentFollows /\ PlanShape /\ RanIsDurable /\ AskedIsDurable

-----------------------------------------------------------------------------
\* The two recursive functions: they exist, and an appended event adds one step.

LEMMA LeastOf ==
  ASSUME NEW S, S \subseteq Nat, S # {}
  PROVE  \E m \in S : \A k \in S : m <= k
<1>1. PICK m \in S : \A k \in S : ~(<<k, m>> \in OpToRel(<, Nat))
  BY WFMin, NatLessThanWellFounded
<1>2. \A k \in S : ~(k < m)
  BY <1>1 DEF OpToRel
<1> QED
  BY <1>2

\* A bounded set of numbers has a greatest one: the distance to the bound has a least one.
LEMMA GreatestOf ==
  ASSUME NEW N \in Nat, NEW S, S \subseteq 0 .. N, S # {}
  PROVE  \E m \in S : \A k \in S : m >= k
<1> DEFINE D == {d \in 0 .. N : N - d \in S}
<1>1. D \subseteq Nat /\ \A k \in S : N - k \in D
  OBVIOUS
<1>2. PICK d \in D : \A k \in D : d <= k
  <2>1. D # {}
    BY <1>1
  <2> HIDE DEF D
  <2> QED
    BY <1>1, <2>1, LeastOf
<1>3. N - d \in S /\ \A k \in S : N - d >= k
  BY <1>1, <1>2
<1> QED
  BY <1>3

\* The loop of interruptedTurnClosers over the first n events.
IsScan(g, p, n) == g = [i \in 0 .. n |-> IF i = 0 THEN NothingOpen ELSE Scan(g[i - 1], p[i])]

LEMMA IsScanExists ==
  ASSUME NEW p, NEW n \in Nat
  PROVE  \E g : IsScan(g, p, n)
<1> DEFINE Bad == {m \in Nat : ~\E g : IsScan(g, p, m)}
<1>1. SUFFICES ASSUME Bad # {} PROVE FALSE
  OBVIOUS
<1>2. PICK m \in Bad : \A k \in Bad : m <= k
  BY <1>1, LeastOf
<1>3. m \in Nat
  OBVIOUS
<1>4. CASE m = 0
  <2> DEFINE g == [i \in 0 .. 0 |-> NothingOpen]
  <2>1. IsScan(g, p, 0)
    BY DEF IsScan
  <2> QED
    BY <1>4, <2>1
<1>5. CASE m # 0
  <2>1. m - 1 \in Nat /\ ~(m <= m - 1)
    BY <1>3, <1>5
  <2>2. PICK h : IsScan(h, p, m - 1)
    BY <1>2, <2>1
  <2> DEFINE g == [i \in 0 .. m |-> IF i = m THEN Scan(h[m - 1], p[m]) ELSE h[i]]
  <2>3. \A i \in 0 .. m : g[i] = IF i = 0 THEN NothingOpen ELSE Scan(g[i - 1], p[i])
    <3> SUFFICES ASSUME NEW i \in 0 .. m PROVE g[i] = IF i = 0 THEN NothingOpen ELSE Scan(g[i - 1], p[i])
      OBVIOUS
    <3>1. CASE i = m
      <4>1. i # 0 /\ i - 1 \in 0 .. m /\ i - 1 # m
        BY <1>3, <1>5, <3>1
      <4>2. g[i - 1] = h[m - 1] /\ g[i] = Scan(h[m - 1], p[m])
        BY <3>1, <4>1
      <4> QED
        BY <3>1, <4>1, <4>2
    <3>2. CASE i # m
      <4>1. i \in 0 .. (m - 1) /\ (i # 0 => i - 1 \in 0 .. m /\ i - 1 # m)
        BY <1>3, <3>2
      <4>2. h[i] = IF i = 0 THEN NothingOpen ELSE Scan(h[i - 1], p[i])
        BY <2>2, <4>1 DEF IsScan
      <4>3. g[i] = h[i] /\ (i # 0 => g[i - 1] = h[i - 1])
        BY <3>2, <4>1
      <4> QED
        BY <4>2, <4>3
    <3> QED
      BY <3>1, <3>2
  <2>4. DOMAIN g = 0 .. m /\ g = [i \in 0 .. m |-> g[i]]
    OBVIOUS
  <2> HIDE DEF g
  <2>5. IsScan(g, p, m)
    BY <2>3, <2>4 DEF IsScan
  <2> QED
    BY <2>5
<1> QED
  BY <1>4, <1>5

LEMMA ScannedIs ==
  ASSUME NEW p \in Seq(Events)
  PROVE  IsScan(Scanned(p), p, Len(p))
<1>1. PICK g : IsScan(g, p, Len(p))
  BY IsScanExists
<1> QED
  BY <1>1 DEF IsScan, Scanned

LEMMA OpenTailEmpty == OpenTail(<<>>) = NothingOpen
<1>1. <<>> \in Seq(Events) /\ Len(<<>>) = 0 /\ 0 \in 0 .. 0
  OBVIOUS
<1>2. Scanned(<<>>) = [i \in 0 .. 0 |-> IF i = 0 THEN NothingOpen ELSE Scan(Scanned(<<>>)[i - 1], <<>>[i])]
  BY <1>1, ScannedIs DEF IsScan
<1>3. Scanned(<<>>)[0] = NothingOpen
  BY <1>1, <1>2
<1> QED
  BY <1>1, <1>3 DEF OpenTail

LEMMA OpenTailAppend ==
  ASSUME NEW p \in Seq(Events), NEW e \in Events
  PROVE  OpenTail(Append(p, e)) = Scan(OpenTail(p), e)
<1> DEFINE n == Len(p)
           q == Append(p, e)
           f == Scanned(p)
           g == Scanned(q)
           Bad == {i \in 0 .. n : f[i] # g[i]}
<1>1. n \in Nat /\ q \in Seq(Events) /\ Len(q) = n + 1 /\ q[n + 1] = e /\ \A i \in 1 .. n : q[i] = p[i]
  OBVIOUS
<1>2. f = [i \in 0 .. n |-> IF i = 0 THEN NothingOpen ELSE Scan(f[i - 1], p[i])]
  BY ScannedIs DEF IsScan
<1>3. g = [i \in 0 .. (n + 1) |-> IF i = 0 THEN NothingOpen ELSE Scan(g[i - 1], q[i])]
  BY <1>1, ScannedIs DEF IsScan
<1> HIDE DEF f, g, q, n
<1>4. Bad = {}
  <2> SUFFICES ASSUME Bad # {} PROVE FALSE
    OBVIOUS
  <2>1. Bad \subseteq Nat
    BY <1>1
  <2>2. PICK m \in Bad : \A k \in Bad : m <= k
    <3> HIDE DEF Bad
    <3> QED
      BY <2>1, LeastOf
  <2>3. m \in 0 .. n /\ f[m] # g[m]
    BY <2>2
  <2>4. CASE m = 0
    BY <1>1, <1>2, <1>3, <2>3, <2>4
  <2>5. CASE m # 0
    <3>1. m - 1 \in 0 .. n /\ ~(m <= m - 1) /\ m \in 0 .. (n + 1) /\ m \in 1 .. n
      BY <1>1, <2>3, <2>5
    <3>2. f[m - 1] = g[m - 1]
      BY <2>2, <3>1
    <3>3. f[m] = Scan(f[m - 1], p[m])
      BY <1>2, <2>3, <2>5
    <3>4. g[m] = Scan(g[m - 1], q[m])
      BY <1>3, <2>5, <3>1
    <3> QED
      BY <1>1, <2>3, <3>1, <3>2, <3>3, <3>4
  <2> QED
    BY <2>4, <2>5
<1>5. n \in 0 .. n /\ n + 1 \in 0 .. (n + 1) /\ n + 1 # 0 /\ (n + 1) - 1 = n
  BY <1>1
<1>6. g[n + 1] = Scan(g[n], e)
  <2>1. g[n + 1] = Scan(g[(n + 1) - 1], q[n + 1])
    BY <1>3, <1>5
  <2> QED
    BY <1>1, <1>5, <2>1
<1>7. g[n] = f[n]
  BY <1>4, <1>5
<1> QED
  BY <1>1, <1>6, <1>7 DEF OpenTail, f, g, q, n

\* The loop of seedSession over the first n events.
IsTrace(g, p, n) == g = [i \in 0 .. n |-> IF i = 0 THEN FreshTrace ELSE Validate(g[i - 1], p[i])]

LEMMA IsTraceExists ==
  ASSUME NEW p, NEW n \in Nat
  PROVE  \E g : IsTrace(g, p, n)
<1> DEFINE Bad == {m \in Nat : ~\E g : IsTrace(g, p, m)}
<1>1. SUFFICES ASSUME Bad # {} PROVE FALSE
  OBVIOUS
<1>2. PICK m \in Bad : \A k \in Bad : m <= k
  BY <1>1, LeastOf
<1>3. m \in Nat
  OBVIOUS
<1>4. CASE m = 0
  <2> DEFINE g == [i \in 0 .. 0 |-> FreshTrace]
  <2>1. IsTrace(g, p, 0)
    BY DEF IsTrace
  <2> QED
    BY <1>4, <2>1
<1>5. CASE m # 0
  <2>1. m - 1 \in Nat /\ ~(m <= m - 1)
    BY <1>3, <1>5
  <2>2. PICK h : IsTrace(h, p, m - 1)
    BY <1>2, <2>1
  <2> DEFINE g == [i \in 0 .. m |-> IF i = m THEN Validate(h[m - 1], p[m]) ELSE h[i]]
  <2>3. \A i \in 0 .. m : g[i] = IF i = 0 THEN FreshTrace ELSE Validate(g[i - 1], p[i])
    <3> SUFFICES ASSUME NEW i \in 0 .. m PROVE g[i] = IF i = 0 THEN FreshTrace ELSE Validate(g[i - 1], p[i])
      OBVIOUS
    <3>1. CASE i = m
      <4>1. i # 0 /\ i - 1 \in 0 .. m /\ i - 1 # m
        BY <1>3, <1>5, <3>1
      <4>2. g[i - 1] = h[m - 1] /\ g[i] = Validate(h[m - 1], p[m])
        BY <3>1, <4>1
      <4> QED
        BY <3>1, <4>1, <4>2
    <3>2. CASE i # m
      <4>1. i \in 0 .. (m - 1) /\ (i # 0 => i - 1 \in 0 .. m /\ i - 1 # m)
        BY <1>3, <3>2
      <4>2. h[i] = IF i = 0 THEN FreshTrace ELSE Validate(h[i - 1], p[i])
        BY <2>2, <4>1 DEF IsTrace
      <4>3. g[i] = h[i] /\ (i # 0 => g[i - 1] = h[i - 1])
        BY <3>2, <4>1
      <4> QED
        BY <4>2, <4>3
    <3> QED
      BY <3>1, <3>2
  <2>4. DOMAIN g = 0 .. m /\ g = [i \in 0 .. m |-> g[i]]
    OBVIOUS
  <2> HIDE DEF g
  <2>5. IsTrace(g, p, m)
    BY <2>3, <2>4 DEF IsTrace
  <2> QED
    BY <2>5
<1> QED
  BY <1>4, <1>5

LEMMA TracedIs ==
  ASSUME NEW p \in Seq(Events)
  PROVE  IsTrace(Traced(p), p, Len(p))
<1>1. PICK g : IsTrace(g, p, Len(p))
  BY IsTraceExists
<1> QED
  BY <1>1 DEF IsTrace, Traced

LEMMA TraceEmpty == Trace(<<>>) = FreshTrace
<1>1. <<>> \in Seq(Events) /\ Len(<<>>) = 0 /\ 0 \in 0 .. 0
  OBVIOUS
<1>2. Traced(<<>>) = [i \in 0 .. 0 |-> IF i = 0 THEN FreshTrace ELSE Validate(Traced(<<>>)[i - 1], <<>>[i])]
  BY <1>1, TracedIs DEF IsTrace
<1>3. Traced(<<>>)[0] = FreshTrace
  BY <1>1, <1>2
<1> QED
  BY <1>1, <1>3 DEF Trace

LEMMA TraceAppend ==
  ASSUME NEW p \in Seq(Events), NEW e \in Events
  PROVE  Trace(Append(p, e)) = Validate(Trace(p), e)
<1> DEFINE n == Len(p)
           q == Append(p, e)
           f == Traced(p)
           g == Traced(q)
           Bad == {i \in 0 .. n : f[i] # g[i]}
<1>1. n \in Nat /\ q \in Seq(Events) /\ Len(q) = n + 1 /\ q[n + 1] = e /\ \A i \in 1 .. n : q[i] = p[i]
  OBVIOUS
<1>2. f = [i \in 0 .. n |-> IF i = 0 THEN FreshTrace ELSE Validate(f[i - 1], p[i])]
  BY TracedIs DEF IsTrace
<1>3. g = [i \in 0 .. (n + 1) |-> IF i = 0 THEN FreshTrace ELSE Validate(g[i - 1], q[i])]
  BY <1>1, TracedIs DEF IsTrace
<1> HIDE DEF f, g, q, n
<1>4. Bad = {}
  <2> SUFFICES ASSUME Bad # {} PROVE FALSE
    OBVIOUS
  <2>1. Bad \subseteq Nat
    BY <1>1
  <2>2. PICK m \in Bad : \A k \in Bad : m <= k
    <3> HIDE DEF Bad
    <3> QED
      BY <2>1, LeastOf
  <2>3. m \in 0 .. n /\ f[m] # g[m]
    BY <2>2
  <2>4. CASE m = 0
    BY <1>1, <1>2, <1>3, <2>3, <2>4
  <2>5. CASE m # 0
    <3>1. m - 1 \in 0 .. n /\ ~(m <= m - 1) /\ m \in 0 .. (n + 1) /\ m \in 1 .. n
      BY <1>1, <2>3, <2>5
    <3>2. f[m - 1] = g[m - 1]
      BY <2>2, <3>1
    <3>3. f[m] = Validate(f[m - 1], p[m])
      BY <1>2, <2>3, <2>5
    <3>4. g[m] = Validate(g[m - 1], q[m])
      BY <1>3, <2>5, <3>1
    <3> QED
      BY <1>1, <2>3, <3>1, <3>2, <3>3, <3>4
  <2> QED
    BY <2>4, <2>5
<1>5. n \in 0 .. n /\ n + 1 \in 0 .. (n + 1) /\ n + 1 # 0 /\ (n + 1) - 1 = n
  BY <1>1
<1>6. g[n + 1] = Validate(g[n], e)
  <2>1. g[n + 1] = Validate(g[(n + 1) - 1], q[n + 1])
    BY <1>3, <1>5
  <2> QED
    BY <1>1, <1>5, <2>1
<1>7. g[n] = f[n]
  BY <1>4, <1>5
<1> QED
  BY <1>1, <1>6, <1>7 DEF Trace, f, g, q, n

-----------------------------------------------------------------------------
\* Sequences and prefixes.

LEMMA AppendIs ==
  ASSUME NEW S, NEW p \in Seq(S), NEW e \in S
  PROVE  /\ Append(p, e) \in Seq(S) /\ Len(Append(p, e)) = Len(p) + 1 /\ Len(p) \in Nat
         /\ DOMAIN p = 1 .. Len(p) /\ DOMAIN Append(p, e) = 1 .. (Len(p) + 1)
         /\ Append(p, e)[Len(p) + 1] = e
         /\ \A k \in 1 .. Len(p) : Append(p, e)[k] = p[k]
OBVIOUS

LEMMA PrefixIs ==
  ASSUME NEW S, NEW p \in Seq(S), NEW n \in 0 .. Len(p)
  PROVE  /\ SubSeq(p, 1, n) \in Seq(S) /\ Len(SubSeq(p, 1, n)) = n /\ Len(p) \in Nat
         /\ \A k \in 1 .. n : SubSeq(p, 1, n)[k] = p[k]
OBVIOUS

LEMMA PrefixOfAppend ==
  ASSUME NEW S, NEW p \in Seq(S), NEW e \in S, NEW i \in 0 .. Len(p)
  PROVE  SubSeq(Append(p, e), 1, i) = SubSeq(p, 1, i)
<1> DEFINE q == Append(p, e)
<1>1. q \in Seq(S) /\ Len(q) = Len(p) + 1 /\ Len(p) \in Nat /\ \A k \in 1 .. Len(p) : q[k] = p[k]
  BY AppendIs
<1> HIDE DEF q
<1>2. i \in 0 .. Len(q)
  BY <1>1
<1>3. /\ SubSeq(q, 1, i) \in Seq(S) /\ Len(SubSeq(q, 1, i)) = i
      /\ \A k \in 1 .. i : SubSeq(q, 1, i)[k] = q[k]
  BY <1>1, <1>2, PrefixIs
<1>4. /\ SubSeq(p, 1, i) \in Seq(S) /\ Len(SubSeq(p, 1, i)) = i
      /\ \A k \in 1 .. i : SubSeq(p, 1, i)[k] = p[k]
  BY PrefixIs
<1>5. \A k \in 1 .. i : q[k] = p[k]
  BY <1>1
<1> QED
  BY <1>3, <1>4, <1>5, SeqEqual DEF q

LEMMA PrefixOfPrefix ==
  ASSUME NEW S, NEW p \in Seq(S), NEW n \in 0 .. Len(p), NEW i \in 0 .. n
  PROVE  SubSeq(SubSeq(p, 1, n), 1, i) = SubSeq(p, 1, i)
<1> DEFINE q == SubSeq(p, 1, n)
<1>1. q \in Seq(S) /\ Len(q) = n /\ Len(p) \in Nat /\ \A k \in 1 .. n : q[k] = p[k]
  BY PrefixIs
<1> HIDE DEF q
<1>2. i \in 0 .. Len(q) /\ i \in 0 .. Len(p)
  BY <1>1
<1>3. /\ SubSeq(q, 1, i) \in Seq(S) /\ Len(SubSeq(q, 1, i)) = i
      /\ \A k \in 1 .. i : SubSeq(q, 1, i)[k] = q[k]
  BY <1>1, <1>2, PrefixIs
<1>4. /\ SubSeq(p, 1, i) \in Seq(S) /\ Len(SubSeq(p, 1, i)) = i
      /\ \A k \in 1 .. i : SubSeq(p, 1, i)[k] = p[k]
  BY <1>2, PrefixIs
<1>5. \A k \in 1 .. i : q[k] = p[k]
  BY <1>1
<1> QED
  BY <1>3, <1>4, <1>5, SeqEqual DEF q

LEMMA WholeIsPrefix ==
  ASSUME NEW S, NEW p \in Seq(S)
  PROVE  SubSeq(p, 1, Len(p)) = p
BY SubSeqFull

LEMMA AllGoodHere ==
  ASSUME NEW p \in Seq(Events), AllGood(p)
  PROVE  Good(p)
<1>1. Len(p) \in 0 .. Len(p)
  OBVIOUS
<1> QED
  BY <1>1, WholeIsPrefix DEF AllGood

LEMMA AllGoodAppend ==
  ASSUME NEW p \in Seq(Events), NEW e \in Events, AllGood(p), Good(Append(p, e))
  PROVE  AllGood(Append(p, e))
<1> DEFINE q == Append(p, e)
<1>1. q \in Seq(Events) /\ Len(q) = Len(p) + 1 /\ Len(p) \in Nat
  BY AppendIs
<1>2. SubSeq(q, 1, Len(p) + 1) = q
  BY <1>1, WholeIsPrefix
<1>3. \A i \in 0 .. Len(p) : SubSeq(q, 1, i) = SubSeq(p, 1, i)
  BY PrefixOfAppend
<1> HIDE DEF q
<1>4. ASSUME NEW i \in 0 .. Len(q) PROVE Good(SubSeq(q, 1, i))
  <2>1. i \in 0 .. Len(p) \/ i = Len(p) + 1
    BY <1>1
  <2> QED
    BY <1>2, <1>3, <2>1 DEF AllGood, q
<1> QED
  BY <1>4 DEF AllGood, q

LEMMA AllGoodPrefix ==
  ASSUME NEW p \in Seq(Events), NEW n \in 0 .. Len(p), AllGood(p)
  PROVE  AllGood(SubSeq(p, 1, n))
<1>1. Len(SubSeq(p, 1, n)) = n /\ Len(p) \in Nat
  BY PrefixIs
<1>2. \A i \in 0 .. n : i \in 0 .. Len(p) /\ SubSeq(SubSeq(p, 1, n), 1, i) = SubSeq(p, 1, i)
  BY <1>1, PrefixOfPrefix
<1> QED
  BY <1>1, <1>2 DEF AllGood

\* An appended event and the last turn, the open message and its answers.
LEMMA LastTurnAppend ==
  ASSUME NEW p \in Seq(Events), NEW e \in Events
  PROVE  LastTurn(Append(p, e)) = IF e.type = "turn/start" THEN e.turn ELSE LastTurn(p)
<1> DEFINE q == Append(p, e)
           n == Len(p) + 1
           I(r) == {i \in 1 .. Len(r) : r[i].type = "turn/start"}
           L(r) == IF I(r) # {} THEN Max(I(r)) ELSE 0
<1>0. ASSUME NEW r PROVE LastTurn(r) = IF L(r) = 0 THEN 0 ELSE r[L(r)].turn
  BY DEF LastTurn, SelectLastInSeq
<1>1. q \in Seq(Events) /\ Len(q) = n /\ n \in Nat \ {0} /\ q[n] = e /\ Len(p) \in Nat /\ \A k \in 1 .. Len(p) : q[k] = p[k]
  BY AppendIs
<1> HIDE DEF q
<1>2. CASE e.type = "turn/start"
  <2>1. n \in I(q) /\ \A k \in I(q) : n >= k
    BY <1>1, <1>2
  <2>2. \A m \in I(q) : (\A k \in I(q) : m >= k) => m = n
    BY <1>1, <2>1
  <2>3. Max(I(q)) = n
    <3> HIDE DEF I
    <3> QED
      BY <2>1, <2>2 DEF Max
  <2>4. L(q) = n
    BY <2>1, <2>3
  <2> HIDE DEF L, I
  <2> QED
    BY <1>0, <1>1, <1>2, <2>4 DEF q
<1>3. CASE e.type # "turn/start"
  <2>1. I(q) = I(p)
    BY <1>1, <1>3
  <2>2. L(q) = L(p)
    BY <2>1
  <2>3. L(p) = 0 \/ L(p) \in 1 .. Len(p)
    <3>1. CASE I(p) = {}
      BY <3>1
    <3>2. CASE I(p) # {}
      <4>1. I(p) \subseteq 0 .. Len(p) /\ I(p) \subseteq 1 .. Len(p)
        BY <1>1
      <4>3. \E m \in I(p) : \A k \in I(p) : m >= k
        <5> HIDE DEF I
        <5> QED
          BY <1>1, <3>2, <4>1, GreatestOf
      <4>4. Max(I(p)) \in I(p)
        <5> HIDE DEF I
        <5> QED
          BY <4>3 DEF Max
      <4> QED
        BY <3>2, <4>1, <4>4
    <3> QED
      BY <3>1, <3>2
  <2>4. L(p) # 0 => q[L(p)] = p[L(p)]
    BY <1>1, <2>3
  <2> HIDE DEF L, I
  <2> QED
    BY <1>0, <1>3, <2>2, <2>4 DEF q
<1> QED
  BY <1>2, <1>3 DEF q

LEMMA AnswersAppend ==
  ASSUME NEW p \in Seq(Events), NEW e \in Events, NEW i \in DOMAIN p
  PROVE  /\ Append(p, e)[i] = p[i]
         /\ InOpenStep(Append(p, e), i) <=> InOpenStep(p, i) /\ e.type # "step/end"
         /\ \A c : ~(e.type = "tool/result" /\ e.call = c) => Answers(Append(p, e), i, c) = Answers(p, i, c)
         /\ \A c : e.type = "tool/result" /\ e.call = c =>
              Answers(Append(p, e), i, c) = Answers(p, i, c) \cup {Len(p) + 1}
<1> DEFINE q == Append(p, e)
           n == Len(p) + 1
<1>1. /\ Len(q) = n /\ n \in Nat /\ q[n] = e /\ Len(p) \in Nat /\ \A k \in 1 .. Len(p) : q[k] = p[k]
      /\ DOMAIN p = 1 .. Len(p)
  BY AppendIs
<1> HIDE DEF q
<1>2. i \in Nat /\ i >= 1 /\ i <= Len(p)
  BY <1>1
<1>3. /\ \A k : k \in i + 1 .. Len(q) <=> k \in i + 1 .. Len(p) \/ k = n
      /\ \A k \in i + 1 .. Len(p) : q[k] = p[k] /\ k # n
  BY <1>1, <1>2
<1>4. InOpenStep(q, i) <=> InOpenStep(p, i) /\ e.type # "step/end"
  BY <1>1, <1>2, <1>3 DEF InOpenStep
<1>5. \A c : ~(e.type = "tool/result" /\ e.call = c) => Answers(q, i, c) = Answers(p, i, c)
  BY <1>1, <1>3 DEF Answers
<1>6. \A c : e.type = "tool/result" /\ e.call = c => Answers(q, i, c) = Answers(p, i, c) \cup {n}
  BY <1>1, <1>3 DEF Answers
<1> QED
  BY <1>1, <1>2, <1>4, <1>5, <1>6 DEF q

LEMMA NewMessageOpens ==
  ASSUME NEW p \in Seq(Events), NEW e \in Events
  PROVE  /\ InOpenStep(Append(p, e), Len(p) + 1) <=> e.type = "assistant/message"
         /\ \A c : Answers(Append(p, e), Len(p) + 1, c) = {}
<1> DEFINE q == Append(p, e)
           n == Len(p) + 1
<1>1. /\ Len(q) = n /\ n \in Nat /\ q[n] = e
  BY AppendIs
<1> HIDE DEF q, n
<1>2. n + 1 .. Len(q) = {}
  BY <1>1
<1>3. InOpenStep(q, n) <=> e.type = "assistant/message"
  BY <1>1, <1>2 DEF InOpenStep
<1>4. \A c : Answers(q, n, c) = {}
  BY <1>1, <1>2 DEF Answers
<1> QED
  BY <1>3, <1>4 DEF q, n

-----------------------------------------------------------------------------
\* What a turn or step boundary does to the scan and to the trace.

LEMMA TurnStartEffect ==
  ASSUME NEW s \in Scans, NEW t \in Traces, NEW u \in Nat
  PROVE  /\ TurnStart(u) \in Events /\ TurnStart(u).type = "turn/start" /\ TurnStart(u).turn = u
         /\ Scan(s, TurnStart(u)) =
             [turn |-> u, step |-> 0, pendingCalls |-> <<>>, seq |-> s.seq + 1]
         /\ Validate(t, TurnStart(u)) =
             [t EXCEPT !.ok = t.ok /\ t.turn = 0 /\ u = t.nextTurn, !.turn = u, !.nextStep = 1]
<1>1. TurnStart(u) \in Events /\ TurnStart(u).type = "turn/start" /\ TurnStart(u).turn = u
  BY DEF TurnStart, Events, Codes
<1>2. Scan(s, TurnStart(u)) =
             [turn |-> u, step |-> 0, pendingCalls |-> <<>>, seq |-> s.seq + 1]
  BY DEF Scan, TurnStart, Scans, NothingOpen, CallsAtStepEnd
<1>3. Validate(t, TurnStart(u)) =
             [t EXCEPT !.ok = t.ok /\ t.turn = 0 /\ u = t.nextTurn, !.turn = u, !.nextStep = 1]
  BY DEF Validate, TurnStart, Traces
<1> QED
  BY <1>1, <1>2, <1>3

LEMMA TurnEndEffect ==
  ASSUME NEW s \in Scans, NEW t \in Traces, NEW u \in Nat
  PROVE  /\ TurnEnd(u) \in Events /\ TurnEnd(u).type = "turn/end" /\ TurnEnd(u).turn = u
         /\ Scan(s, TurnEnd(u)) =
             [turn |-> 0, step |-> 0, pendingCalls |-> <<>>, seq |-> s.seq + 1]
         /\ Validate(t, TurnEnd(u)) =
             [t EXCEPT !.ok = t.ok /\ t.turn = u /\ t.step = 0, !.turn = 0, !.nextTurn = t.nextTurn + 1]
<1>1. TurnEnd(u) \in Events /\ TurnEnd(u).type = "turn/end" /\ TurnEnd(u).turn = u
  BY DEF TurnEnd, Events, Codes
<1>2. Scan(s, TurnEnd(u)) =
             [turn |-> 0, step |-> 0, pendingCalls |-> <<>>, seq |-> s.seq + 1]
  BY DEF Scan, TurnEnd, Scans, NothingOpen, CallsAtStepEnd
<1>3. Validate(t, TurnEnd(u)) =
             [t EXCEPT !.ok = t.ok /\ t.turn = u /\ t.step = 0, !.turn = 0, !.nextTurn = t.nextTurn + 1]
  BY DEF Validate, TurnEnd, Traces
<1> QED
  BY <1>1, <1>2, <1>3

LEMMA StepStartEffect ==
  ASSUME NEW s \in Scans, NEW t \in Traces, NEW u \in Nat, NEW v \in Nat
  PROVE  /\ StepStart(u, v) \in Events /\ StepStart(u, v).type = "step/start" /\ StepStart(u, v).turn = u
         /\ Scan(s, StepStart(u, v)) =
             [s EXCEPT !.step = v, !.seq = s.seq + 1]
         /\ Validate(t, StepStart(u, v)) =
             [t EXCEPT !.ok = t.ok /\ t.turn = u /\ t.step = 0 /\ v = t.nextStep, !.step = v]
<1>1. StepStart(u, v) \in Events /\ StepStart(u, v).type = "step/start" /\ StepStart(u, v).turn = u
  BY DEF StepStart, Events, Codes
<1>2. Scan(s, StepStart(u, v)) =
             [s EXCEPT !.step = v, !.seq = s.seq + 1]
  BY DEF Scan, StepStart, Scans, NothingOpen, CallsAtStepEnd
<1>3. Validate(t, StepStart(u, v)) =
             [t EXCEPT !.ok = t.ok /\ t.turn = u /\ t.step = 0 /\ v = t.nextStep, !.step = v]
  BY DEF Validate, StepStart, Traces
<1> QED
  BY <1>1, <1>2, <1>3

LEMMA StepEndEffect ==
  ASSUME NEW s \in Scans, NEW t \in Traces, NEW u \in Nat, NEW v \in Nat
  PROVE  /\ StepEnd(u, v) \in Events /\ StepEnd(u, v).type = "step/end" /\ StepEnd(u, v).turn = u
         /\ Scan(s, StepEnd(u, v)) =
             [s EXCEPT !.step = 0, !.pendingCalls = <<>>, !.seq = s.seq + 1]
         /\ Validate(t, StepEnd(u, v)) =
             [t EXCEPT !.ok = t.ok /\ t.turn = u /\ t.step = v, !.step = 0, !.nextStep = t.nextStep + 1, !.pendingCalls = {}]
<1>1. StepEnd(u, v) \in Events /\ StepEnd(u, v).type = "step/end" /\ StepEnd(u, v).turn = u
  BY DEF StepEnd, Events, Codes
<1>2. Scan(s, StepEnd(u, v)) =
             [s EXCEPT !.step = 0, !.pendingCalls = <<>>, !.seq = s.seq + 1]
  BY DEF Scan, StepEnd, Scans, NothingOpen, CallsAtStepEnd
<1>3. Validate(t, StepEnd(u, v)) =
             [t EXCEPT !.ok = t.ok /\ t.turn = u /\ t.step = v, !.step = 0, !.nextStep = t.nextStep + 1, !.pendingCalls = {}]
  BY DEF Validate, StepEnd, Traces
<1> QED
  BY <1>1, <1>2, <1>3

-----------------------------------------------------------------------------
\* One legal event keeps a good log good.

LEMMA AppendCases ==
  ASSUME NEW p \in Seq(Events), NEW e \in Events
  PROVE  \A k \in DOMAIN Append(p, e) :
           (k \in DOMAIN p /\ Append(p, e)[k] = p[k]) \/ (k = Len(p) + 1 /\ Append(p, e)[k] = e)
<1> DEFINE q == Append(p, e)
<1>1. /\ DOMAIN p = 1 .. Len(p) /\ DOMAIN q = 1 .. Len(p) + 1 /\ Len(p) \in Nat /\ q[Len(p) + 1] = e
      /\ \A k \in 1 .. Len(p) : q[k] = p[k]
  BY AppendIs
<1> HIDE DEF q
<1>2. ASSUME NEW k \in DOMAIN q PROVE (k \in DOMAIN p /\ q[k] = p[k]) \/ (k = Len(p) + 1 /\ q[k] = e)
  <2>1. k \in 1 .. Len(p) \/ k = Len(p) + 1
    BY <1>1
  <2> QED
    BY <1>1, <2>1
<1> QED
  BY <1>2 DEF q

LEMMA NeverDeniedAppend ==
  ASSUME NEW p \in Seq(Events), NEW e \in Events, NeverDenied(p),
         NotStarted(e) => \A k \in DOMAIN p : p[k] # ToolCall(e.turn, e.step, e.call),
         \A k \in DOMAIN p : NotStarted(p[k]) => e # ToolCall(p[k].turn, p[k].step, p[k].call)
  PROVE  NeverDenied(Append(p, e))
<1> DEFINE q == Append(p, e)
           n == Len(p) + 1
<1>2. \A k \in DOMAIN q : (k \in DOMAIN p /\ q[k] = p[k]) \/ (k = n /\ q[k] = e)
  BY AppendCases
<1>3. NotStarted(e) => \A u, v, c : e # ToolCall(u, v, c)
  BY DEF NotStarted, ToolCall
<1> HIDE DEF q, n
<1>4. ASSUME NEW k \in DOMAIN q, NEW l \in DOMAIN q, NotStarted(q[k])
      PROVE  q[l] # ToolCall(q[k].turn, q[k].step, q[k].call)
  BY <1>2, <1>3, <1>4 DEF NeverDenied
<1> QED
  BY <1>4 DEF NeverDenied, q

LEMMA SilentOnDenial ==
  ASSUME NEW p \in Seq(Events), NEW e \in Events, NeverDenied(p),
         e.type # "tool/call", e.type # "tool/result"
  PROVE  NeverDenied(Append(p, e))
<1>1. ~NotStarted(e) /\ \A u, v, c : e # ToolCall(u, v, c)
  BY DEF NotStarted, ToolCall
<1> QED
  BY <1>1, NeverDeniedAppend

LEMMA NoneOpenAppend ==
  ASSUME NEW p \in Seq(Events), NEW e \in Events, e.type # "assistant/message",
         e.type = "step/end" \/ \A i \in DOMAIN p : ~InOpenStep(p, i)
  PROVE  \A i \in DOMAIN Append(p, e) : ~InOpenStep(Append(p, e), i)
<1>1. \A i \in DOMAIN Append(p, e) : i \in DOMAIN p \/ i = Len(p) + 1
  BY AppendIs
<1> QED
  BY <1>1, AnswersAppend, NewMessageOpens

LEMMA NoneOpenIsAnswered ==
  ASSUME NEW p, NEW s, \A i \in DOMAIN p : ~InOpenStep(p, i)
  PROVE  AnsweredOnce(p, s)
BY DEF AnsweredOnce

\* No message is in an open step where the scan has no step open.
LEMMA NoneOpenOutside ==
  ASSUME NEW p, NEW s, AnsweredOnce(p, s), s.step = 0
  PROVE  \A i \in DOMAIN p : ~InOpenStep(p, i)
BY DEF AnsweredOnce

\* What GoodOver says of the fields of the scan and the trace.
Fields(p, s, t) ==
  /\ s \in Scans /\ t \in Traces /\ s.seq = Len(p) /\ s.seq \in Nat /\ t.ok = TRUE
  /\ s.turn \in Nat /\ s.step \in Nat /\ s.pendingCalls \in Seq(Entries)
  /\ t.turn \in Nat /\ t.step \in Nat /\ t.nextTurn \in Nat \ {0} /\ t.nextStep \in Nat \ {0}
  /\ t.pendingCalls \subseteq Calls /\ t.turn = s.turn /\ t.step = s.step
  /\ s.turn \in {0, t.nextTurn} /\ s.step \in {0, t.nextStep}
  /\ (s.turn = 0 => s.step = 0) /\ (s.step = 0 => s.pendingCalls = <<>>)
  /\ (s.step = 0 => t.pendingCalls = {})

LEMMA GoodFields ==
  ASSUME NEW p \in Seq(Events), NEW s, NEW t, GoodOver(p, s, t)
  PROVE  Fields(p, s, t)
<1>1. s \in Scans /\ t \in Traces
  BY DEF GoodOver
<1>2. /\ s.seq = Len(p) /\ t.ok = TRUE /\ t.turn = s.turn /\ t.step = s.step
      /\ s.turn \in {0, t.nextTurn} /\ s.step \in {0, t.nextStep}
      /\ (s.turn = 0 => s.step = 0) /\ (s.step = 0 => s.pendingCalls = <<>>)
      /\ \A c \in Calls : c \in t.pendingCalls <=>
           \E i \in DOMAIN s.pendingCalls : s.pendingCalls[i].call = c /\ s.pendingCalls[i].callSeq # 0
  BY DEF GoodOver, Agree
<1>3. /\ s.seq \in Nat /\ s.turn \in Nat /\ s.step \in Nat /\ s.pendingCalls \in Seq(Entries)
      /\ t.turn \in Nat /\ t.step \in Nat /\ t.nextTurn \in Nat \ {0} /\ t.nextStep \in Nat \ {0}
      /\ t.pendingCalls \subseteq Calls
  BY <1>1 DEF Scans, Traces
<1>4. s.step = 0 => t.pendingCalls = {}
  BY <1>2, <1>3
<1> QED
  BY <1>1, <1>2, <1>3, <1>4 DEF Fields

\* Nothing is pending after a boundary.
LEMMA BoundaryIsGood ==
  ASSUME NEW q, NEW s \in Scans, NEW t \in Traces, s.seq = Len(q),
         s.pendingCalls = <<>>, t.pendingCalls = {}, t.ok = TRUE, t.turn = s.turn, t.step = s.step,
         s.turn \in {0, t.nextTurn}, s.step \in {0, t.nextStep}, s.turn = 0 => s.step = 0,
         Numbered(q, s, t), LastTurnIs(q, s, t), \A i \in DOMAIN q : ~InOpenStep(q, i)
  PROVE  GoodOver(q, s, t)
<1>3. Agree(s, t)
  BY DEF Agree, OneEntryEach
<1>4. Cites(q, s)
  BY DEF Cites
<1>5. AnsweredOnce(q, s)
  BY NoneOpenIsAnswered
<1> QED
  BY <1>3, <1>4, <1>5 DEF GoodOver

\* The next turn begins.
LEMMA TurnStartIsGood ==
  ASSUME NEW p \in Seq(Events), NEW s, NEW t, GoodOver(p, s, t), s.turn = 0
  PROVE  /\ TurnStart(t.nextTurn) \in Events /\ TurnStart(t.nextTurn).type = "turn/start"
         /\ GoodOver(Append(p, TurnStart(t.nextTurn)), Scan(s, TurnStart(t.nextTurn)), Validate(t, TurnStart(t.nextTurn)))
         /\ Scan(s, TurnStart(t.nextTurn)) = [turn |-> t.nextTurn, step |-> 0, pendingCalls |-> <<>>, seq |-> Len(p) + 1]
         /\ Validate(t, TurnStart(t.nextTurn)) =
              [ok |-> TRUE, turn |-> t.nextTurn, step |-> 0, nextTurn |-> t.nextTurn, nextStep |-> 1, pendingCalls |-> {}]
<1> DEFINE e == TurnStart(t.nextTurn)
           q == Append(p, e)
           s1 == Scan(s, e)
           t1 == Validate(t, e)
<1>20. Fields(p, s, t)
  BY GoodFields
<1>0. /\ s \in Scans /\ t \in Traces /\ s.seq = Len(p) /\ s.seq \in Nat /\ t.ok = TRUE
      /\ s.turn \in Nat /\ s.step \in Nat
      /\ t.nextTurn \in Nat \ {0} /\ t.nextStep \in Nat \ {0} /\ t.turn = s.turn /\ t.step = s.step
      /\ s.turn \in {0, t.nextTurn} /\ s.step \in {0, t.nextStep}
      /\ (s.turn = 0 => s.step = 0) /\ (s.step = 0 => s.pendingCalls = <<>>)
      /\ (s.step = 0 => t.pendingCalls = {})
  BY <1>20 DEF Fields
<1>1. /\ e \in Events /\ e.type = "turn/start" /\ e.turn = t.nextTurn
      /\ s1 = [turn |-> t.nextTurn, step |-> 0, pendingCalls |-> <<>>, seq |-> s.seq + 1]
      /\ t1 = [t EXCEPT !.ok = t.ok /\ t.turn = 0 /\ t.nextTurn = t.nextTurn, !.turn = t.nextTurn, !.nextStep = 1]
  BY <1>0, TurnStartEffect
<1> HIDE DEF e, s1, t1
<1>2. s1 = [turn |-> t.nextTurn, step |-> 0, pendingCalls |-> <<>>, seq |-> Len(p) + 1]
  BY <1>0, <1>1 DEF Scans
<1>3. t1 = [ok |-> TRUE, turn |-> t.nextTurn, step |-> 0, nextTurn |-> t.nextTurn, nextStep |-> 1, pendingCalls |-> {}]
  BY <1>0, <1>1 DEF Traces
<1>4. q \in Seq(Events) /\ Len(q) = Len(p) + 1
  BY <1>1, AppendIs
<1>5. \A i \in DOMAIN q : ~InOpenStep(q, i)
  <2>1. AnsweredOnce(p, s) /\ s.step = 0
    BY <1>0 DEF GoodOver
  <2>2. \A i \in DOMAIN p : ~InOpenStep(p, i)
    BY <2>1, NoneOpenOutside
  <2> QED
    BY <1>1, <2>2, NoneOpenAppend
<1>6. \A k \in DOMAIN q : (k \in DOMAIN p /\ q[k] = p[k]) \/ (k = Len(p) + 1 /\ q[k] = e)
  BY <1>1, AppendCases
<1>7. LastTurn(q) = IF e.type = "turn/start" THEN e.turn ELSE LastTurn(p)
  BY <1>1, LastTurnAppend
<1> HIDE DEF q
<1>8. Numbered(q, s1, t1)
  <2>1. ASSUME NEW k \in DOMAIN p
        PROVE  /\ p[k].turn \in Nat /\ p[k].turn <= t.nextTurn /\ (s.turn = 0 => p[k].turn < t.nextTurn)
               /\ (p[k].type = "tool/call" => p[k].step \in Nat)
               /\ (p[k].type = "tool/call" /\ p[k].turn = t.nextTurn => p[k].step <= t.nextStep)
               /\ (p[k].type = "tool/call" /\ p[k].turn = t.nextTurn /\ s.step = 0 => p[k].step < t.nextStep)
    <3>1. p[k].turn \in Nat /\ (p[k].type = "tool/call" => p[k].step \in Nat)
      BY <2>1 DEF Events
    <3> QED
      BY <2>1, <3>1 DEF GoodOver, Numbered
  <2>2. ASSUME NEW k \in DOMAIN q
        PROVE  /\ q[k].turn <= t1.nextTurn
               /\ s1.turn = 0 => q[k].turn < t1.nextTurn
               /\ q[k].type = "tool/call" /\ q[k].turn = t1.nextTurn =>
                    q[k].step <= t1.nextStep /\ (s1.step = 0 => q[k].step < t1.nextStep)
    <3>1. CASE k \in DOMAIN p /\ q[k] = p[k]
      BY <1>0, <1>2, <1>3, <2>1, <3>1
    <3>2. CASE k = Len(p) + 1 /\ q[k] = e
      BY <1>0, <1>1, <1>2, <1>3, <3>2
    <3> QED
      BY <1>6, <3>1, <3>2
  <2> QED
    BY <2>2 DEF Numbered
<1>9. LastTurnIs(q, s1, t1)
  <2>1. LastTurnIs(p, s, t)
    BY DEF GoodOver
  <2> QED
    BY <1>0, <1>1, <1>2, <1>3, <1>7, <2>1 DEF LastTurnIs
<1>10. GoodOver(q, s1, t1)
  <2>1. s1 \in Scans
    <3>1. <<>> \in Seq(Entries)
      OBVIOUS
    <3> QED
      BY <1>0, <1>2, <3>1 DEF Scans
  <2>2. t1 \in Traces
    BY <1>0, <1>3 DEF Traces
  <2>3. /\ s1.seq = Len(q) /\ s1.pendingCalls = <<>> /\ t1.pendingCalls = {} /\ t1.ok = TRUE
        /\ t1.turn = s1.turn /\ t1.step = s1.step
        /\ s1.turn \in {0, t1.nextTurn} /\ s1.step \in {0, t1.nextStep} /\ (s1.turn = 0 => s1.step = 0)
    BY <1>0, <1>2, <1>3, <1>4
  <2> QED
    BY <1>5, <1>8, <1>9, <2>1, <2>2, <2>3, BoundaryIsGood
<1> QED
  BY <1>1, <1>2, <1>3, <1>10 DEF e, q, s1, t1

\* The open turn ends between steps.
LEMMA TurnEndIsGood ==
  ASSUME NEW p \in Seq(Events), NEW s, NEW t, GoodOver(p, s, t), s.turn # 0, s.step = 0
  PROVE  /\ TurnEnd(s.turn) \in Events /\ TurnEnd(s.turn).type = "turn/end"
         /\ GoodOver(Append(p, TurnEnd(s.turn)), Scan(s, TurnEnd(s.turn)), Validate(t, TurnEnd(s.turn)))
         /\ Scan(s, TurnEnd(s.turn)) = [turn |-> 0, step |-> 0, pendingCalls |-> <<>>, seq |-> Len(p) + 1]
         /\ Validate(t, TurnEnd(s.turn)) =
              [ok |-> TRUE, turn |-> 0, step |-> 0, nextTurn |-> t.nextTurn + 1, nextStep |-> t.nextStep, pendingCalls |-> {}]
<1> DEFINE e == TurnEnd(s.turn)
           q == Append(p, e)
           s1 == Scan(s, e)
           t1 == Validate(t, e)
<1>20. Fields(p, s, t)
  BY GoodFields
<1>0. /\ s \in Scans /\ t \in Traces /\ s.seq = Len(p) /\ s.seq \in Nat /\ t.ok = TRUE
      /\ s.turn \in Nat /\ s.step \in Nat
      /\ t.nextTurn \in Nat \ {0} /\ t.nextStep \in Nat \ {0} /\ t.turn = s.turn /\ t.step = s.step
      /\ s.turn \in {0, t.nextTurn} /\ s.step \in {0, t.nextStep}
      /\ (s.turn = 0 => s.step = 0) /\ (s.step = 0 => s.pendingCalls = <<>>)
      /\ (s.step = 0 => t.pendingCalls = {})
  BY <1>20 DEF Fields
<1>1. /\ e \in Events /\ e.type = "turn/end" /\ e.turn = s.turn
      /\ s1 = [turn |-> 0, step |-> 0, pendingCalls |-> <<>>, seq |-> s.seq + 1]
      /\ t1 = [t EXCEPT !.ok = t.ok /\ t.turn = s.turn /\ t.step = 0, !.turn = 0, !.nextTurn = t.nextTurn + 1]
  BY <1>0, TurnEndEffect
<1> HIDE DEF e, s1, t1
<1>2. s1 = [turn |-> 0, step |-> 0, pendingCalls |-> <<>>, seq |-> Len(p) + 1]
  BY <1>0, <1>1 DEF Scans
<1>3. t1 = [ok |-> TRUE, turn |-> 0, step |-> 0, nextTurn |-> t.nextTurn + 1, nextStep |-> t.nextStep, pendingCalls |-> {}]
  BY <1>0, <1>1 DEF Traces
<1>4. q \in Seq(Events) /\ Len(q) = Len(p) + 1
  BY <1>1, AppendIs
<1>5. \A i \in DOMAIN q : ~InOpenStep(q, i)
  <2>1. AnsweredOnce(p, s) /\ s.step = 0
    BY <1>0 DEF GoodOver
  <2>2. \A i \in DOMAIN p : ~InOpenStep(p, i)
    BY <2>1, NoneOpenOutside
  <2> QED
    BY <1>1, <2>2, NoneOpenAppend
<1>6. \A k \in DOMAIN q : (k \in DOMAIN p /\ q[k] = p[k]) \/ (k = Len(p) + 1 /\ q[k] = e)
  BY <1>1, AppendCases
<1>7. LastTurn(q) = IF e.type = "turn/start" THEN e.turn ELSE LastTurn(p)
  BY <1>1, LastTurnAppend
<1> HIDE DEF q
<1>8. Numbered(q, s1, t1)
  <2>1. ASSUME NEW k \in DOMAIN p
        PROVE  /\ p[k].turn \in Nat /\ p[k].turn <= t.nextTurn /\ (s.turn = 0 => p[k].turn < t.nextTurn)
               /\ (p[k].type = "tool/call" => p[k].step \in Nat)
               /\ (p[k].type = "tool/call" /\ p[k].turn = t.nextTurn => p[k].step <= t.nextStep)
               /\ (p[k].type = "tool/call" /\ p[k].turn = t.nextTurn /\ s.step = 0 => p[k].step < t.nextStep)
    <3>1. p[k].turn \in Nat /\ (p[k].type = "tool/call" => p[k].step \in Nat)
      BY <2>1 DEF Events
    <3> QED
      BY <2>1, <3>1 DEF GoodOver, Numbered
  <2>2. ASSUME NEW k \in DOMAIN q
        PROVE  /\ q[k].turn <= t1.nextTurn
               /\ s1.turn = 0 => q[k].turn < t1.nextTurn
               /\ q[k].type = "tool/call" /\ q[k].turn = t1.nextTurn =>
                    q[k].step <= t1.nextStep /\ (s1.step = 0 => q[k].step < t1.nextStep)
    <3>1. CASE k \in DOMAIN p /\ q[k] = p[k]
      BY <1>0, <1>2, <1>3, <2>1, <3>1
    <3>2. CASE k = Len(p) + 1 /\ q[k] = e
      BY <1>0, <1>1, <1>2, <1>3, <3>2
    <3> QED
      BY <1>6, <3>1, <3>2
  <2> QED
    BY <2>2 DEF Numbered
<1>9. LastTurnIs(q, s1, t1)
  <2>1. LastTurnIs(p, s, t)
    BY DEF GoodOver
  <2> QED
    BY <1>0, <1>1, <1>2, <1>3, <1>7, <2>1 DEF LastTurnIs
<1>10. GoodOver(q, s1, t1)
  <2>1. s1 \in Scans
    <3>1. <<>> \in Seq(Entries)
      OBVIOUS
    <3> QED
      BY <1>0, <1>2, <3>1 DEF Scans
  <2>2. t1 \in Traces
    BY <1>0, <1>3 DEF Traces
  <2>3. /\ s1.seq = Len(q) /\ s1.pendingCalls = <<>> /\ t1.pendingCalls = {} /\ t1.ok = TRUE
        /\ t1.turn = s1.turn /\ t1.step = s1.step
        /\ s1.turn \in {0, t1.nextTurn} /\ s1.step \in {0, t1.nextStep} /\ (s1.turn = 0 => s1.step = 0)
    BY <1>0, <1>2, <1>3, <1>4
  <2> QED
    BY <1>5, <1>8, <1>9, <2>1, <2>2, <2>3, BoundaryIsGood
<1> QED
  BY <1>1, <1>2, <1>3, <1>10 DEF e, q, s1, t1

\* The next step of the open turn begins.
LEMMA StepStartIsGood ==
  ASSUME NEW p \in Seq(Events), NEW s, NEW t, GoodOver(p, s, t), s.turn # 0, s.step = 0
  PROVE  /\ StepStart(s.turn, t.nextStep) \in Events /\ StepStart(s.turn, t.nextStep).type = "step/start"
         /\ GoodOver(Append(p, StepStart(s.turn, t.nextStep)), Scan(s, StepStart(s.turn, t.nextStep)), Validate(t, StepStart(s.turn, t.nextStep)))
         /\ Scan(s, StepStart(s.turn, t.nextStep)) = [turn |-> s.turn, step |-> t.nextStep, pendingCalls |-> <<>>, seq |-> Len(p) + 1]
         /\ Validate(t, StepStart(s.turn, t.nextStep)) =
              [ok |-> TRUE, turn |-> s.turn, step |-> t.nextStep, nextTurn |-> t.nextTurn, nextStep |-> t.nextStep, pendingCalls |-> {}]
<1> DEFINE e == StepStart(s.turn, t.nextStep)
           q == Append(p, e)
           s1 == Scan(s, e)
           t1 == Validate(t, e)
<1>20. Fields(p, s, t)
  BY GoodFields
<1>0. /\ s \in Scans /\ t \in Traces /\ s.seq = Len(p) /\ s.seq \in Nat /\ t.ok = TRUE
      /\ s.turn \in Nat /\ s.step \in Nat
      /\ t.nextTurn \in Nat \ {0} /\ t.nextStep \in Nat \ {0} /\ t.turn = s.turn /\ t.step = s.step
      /\ s.turn \in {0, t.nextTurn} /\ s.step \in {0, t.nextStep}
      /\ (s.turn = 0 => s.step = 0) /\ (s.step = 0 => s.pendingCalls = <<>>)
      /\ (s.step = 0 => t.pendingCalls = {})
  BY <1>20 DEF Fields
<1>1. /\ e \in Events /\ e.type = "step/start" /\ e.turn = s.turn
      /\ s1 = [s EXCEPT !.step = t.nextStep, !.seq = s.seq + 1]
      /\ t1 = [t EXCEPT !.ok = t.ok /\ t.turn = s.turn /\ t.step = 0 /\ t.nextStep = t.nextStep, !.step = t.nextStep]
  BY <1>0, StepStartEffect
<1> HIDE DEF e, s1, t1
<1>2. s1 = [turn |-> s.turn, step |-> t.nextStep, pendingCalls |-> <<>>, seq |-> Len(p) + 1]
  BY <1>0, <1>1 DEF Scans
<1>3. t1 = [ok |-> TRUE, turn |-> s.turn, step |-> t.nextStep, nextTurn |-> t.nextTurn, nextStep |-> t.nextStep, pendingCalls |-> {}]
  BY <1>0, <1>1 DEF Traces
<1>4. q \in Seq(Events) /\ Len(q) = Len(p) + 1
  BY <1>1, AppendIs
<1>5. \A i \in DOMAIN q : ~InOpenStep(q, i)
  <2>1. AnsweredOnce(p, s) /\ s.step = 0
    BY <1>0 DEF GoodOver
  <2>2. \A i \in DOMAIN p : ~InOpenStep(p, i)
    BY <2>1, NoneOpenOutside
  <2> QED
    BY <1>1, <2>2, NoneOpenAppend
<1>6. \A k \in DOMAIN q : (k \in DOMAIN p /\ q[k] = p[k]) \/ (k = Len(p) + 1 /\ q[k] = e)
  BY <1>1, AppendCases
<1>7. LastTurn(q) = IF e.type = "turn/start" THEN e.turn ELSE LastTurn(p)
  BY <1>1, LastTurnAppend
<1> HIDE DEF q
<1>8. Numbered(q, s1, t1)
  <2>1. ASSUME NEW k \in DOMAIN p
        PROVE  /\ p[k].turn \in Nat /\ p[k].turn <= t.nextTurn /\ (s.turn = 0 => p[k].turn < t.nextTurn)
               /\ (p[k].type = "tool/call" => p[k].step \in Nat)
               /\ (p[k].type = "tool/call" /\ p[k].turn = t.nextTurn => p[k].step <= t.nextStep)
               /\ (p[k].type = "tool/call" /\ p[k].turn = t.nextTurn /\ s.step = 0 => p[k].step < t.nextStep)
    <3>1. p[k].turn \in Nat /\ (p[k].type = "tool/call" => p[k].step \in Nat)
      BY <2>1 DEF Events
    <3> QED
      BY <2>1, <3>1 DEF GoodOver, Numbered
  <2>2. ASSUME NEW k \in DOMAIN q
        PROVE  /\ q[k].turn <= t1.nextTurn
               /\ s1.turn = 0 => q[k].turn < t1.nextTurn
               /\ q[k].type = "tool/call" /\ q[k].turn = t1.nextTurn =>
                    q[k].step <= t1.nextStep /\ (s1.step = 0 => q[k].step < t1.nextStep)
    <3>1. CASE k \in DOMAIN p /\ q[k] = p[k]
      BY <1>0, <1>2, <1>3, <2>1, <3>1
    <3>2. CASE k = Len(p) + 1 /\ q[k] = e
      BY <1>0, <1>1, <1>2, <1>3, <3>2
    <3> QED
      BY <1>6, <3>1, <3>2
  <2> QED
    BY <2>2 DEF Numbered
<1>9. LastTurnIs(q, s1, t1)
  <2>1. LastTurnIs(p, s, t)
    BY DEF GoodOver
  <2> QED
    BY <1>0, <1>1, <1>2, <1>3, <1>7, <2>1 DEF LastTurnIs
<1>10. GoodOver(q, s1, t1)
  <2>1. s1 \in Scans
    <3>1. <<>> \in Seq(Entries)
      OBVIOUS
    <3> QED
      BY <1>0, <1>2, <3>1 DEF Scans
  <2>2. t1 \in Traces
    BY <1>0, <1>3 DEF Traces
  <2>3. /\ s1.seq = Len(q) /\ s1.pendingCalls = <<>> /\ t1.pendingCalls = {} /\ t1.ok = TRUE
        /\ t1.turn = s1.turn /\ t1.step = s1.step
        /\ s1.turn \in {0, t1.nextTurn} /\ s1.step \in {0, t1.nextStep} /\ (s1.turn = 0 => s1.step = 0)
    BY <1>0, <1>2, <1>3, <1>4
  <2> QED
    BY <1>5, <1>8, <1>9, <2>1, <2>2, <2>3, BoundaryIsGood
<1> QED
  BY <1>1, <1>2, <1>3, <1>10 DEF e, q, s1, t1

\* The open step ends, with whatever calls it leaves unanswered.
LEMMA StepEndIsGood ==
  ASSUME NEW p \in Seq(Events), NEW s, NEW t, GoodOver(p, s, t), s.step # 0
  PROVE  /\ StepEnd(s.turn, s.step) \in Events /\ StepEnd(s.turn, s.step).type = "step/end"
         /\ GoodOver(Append(p, StepEnd(s.turn, s.step)), Scan(s, StepEnd(s.turn, s.step)), Validate(t, StepEnd(s.turn, s.step)))
         /\ Scan(s, StepEnd(s.turn, s.step)) = [turn |-> s.turn, step |-> 0, pendingCalls |-> <<>>, seq |-> Len(p) + 1]
         /\ Validate(t, StepEnd(s.turn, s.step)) =
              [ok |-> TRUE, turn |-> s.turn, step |-> 0, nextTurn |-> t.nextTurn, nextStep |-> t.nextStep + 1, pendingCalls |-> {}]
<1> DEFINE e == StepEnd(s.turn, s.step)
           q == Append(p, e)
           s1 == Scan(s, e)
           t1 == Validate(t, e)
<1>20. Fields(p, s, t)
  BY GoodFields
<1>0. /\ s \in Scans /\ t \in Traces /\ s.seq = Len(p) /\ s.seq \in Nat /\ t.ok = TRUE
      /\ s.turn \in Nat /\ s.step \in Nat
      /\ t.nextTurn \in Nat \ {0} /\ t.nextStep \in Nat \ {0} /\ t.turn = s.turn /\ t.step = s.step
      /\ s.turn \in {0, t.nextTurn} /\ s.step \in {0, t.nextStep}
      /\ (s.turn = 0 => s.step = 0) /\ (s.step = 0 => s.pendingCalls = <<>>)
      /\ (s.step = 0 => t.pendingCalls = {})
  BY <1>20 DEF Fields
<1>1. /\ e \in Events /\ e.type = "step/end" /\ e.turn = s.turn
      /\ s1 = [s EXCEPT !.step = 0, !.pendingCalls = <<>>, !.seq = s.seq + 1]
      /\ t1 = [t EXCEPT !.ok = t.ok /\ t.turn = s.turn /\ t.step = s.step, !.step = 0, !.nextStep = t.nextStep + 1, !.pendingCalls = {}]
  BY <1>0, StepEndEffect
<1> HIDE DEF e, s1, t1
<1>2. s1 = [turn |-> s.turn, step |-> 0, pendingCalls |-> <<>>, seq |-> Len(p) + 1]
  BY <1>0, <1>1 DEF Scans
<1>3. t1 = [ok |-> TRUE, turn |-> s.turn, step |-> 0, nextTurn |-> t.nextTurn, nextStep |-> t.nextStep + 1, pendingCalls |-> {}]
  BY <1>0, <1>1 DEF Traces
<1>4. q \in Seq(Events) /\ Len(q) = Len(p) + 1
  BY <1>1, AppendIs
<1>5. \A i \in DOMAIN q : ~InOpenStep(q, i)
  BY <1>1, NoneOpenAppend
<1>6. \A k \in DOMAIN q : (k \in DOMAIN p /\ q[k] = p[k]) \/ (k = Len(p) + 1 /\ q[k] = e)
  BY <1>1, AppendCases
<1>7. LastTurn(q) = IF e.type = "turn/start" THEN e.turn ELSE LastTurn(p)
  BY <1>1, LastTurnAppend
<1> HIDE DEF q
<1>8. Numbered(q, s1, t1)
  <2>1. ASSUME NEW k \in DOMAIN p
        PROVE  /\ p[k].turn \in Nat /\ p[k].turn <= t.nextTurn /\ (s.turn = 0 => p[k].turn < t.nextTurn)
               /\ (p[k].type = "tool/call" => p[k].step \in Nat)
               /\ (p[k].type = "tool/call" /\ p[k].turn = t.nextTurn => p[k].step <= t.nextStep)
               /\ (p[k].type = "tool/call" /\ p[k].turn = t.nextTurn /\ s.step = 0 => p[k].step < t.nextStep)
    <3>1. p[k].turn \in Nat /\ (p[k].type = "tool/call" => p[k].step \in Nat)
      BY <2>1 DEF Events
    <3> QED
      BY <2>1, <3>1 DEF GoodOver, Numbered
  <2>2. ASSUME NEW k \in DOMAIN q
        PROVE  /\ q[k].turn <= t1.nextTurn
               /\ s1.turn = 0 => q[k].turn < t1.nextTurn
               /\ q[k].type = "tool/call" /\ q[k].turn = t1.nextTurn =>
                    q[k].step <= t1.nextStep /\ (s1.step = 0 => q[k].step < t1.nextStep)
    <3>1. CASE k \in DOMAIN p /\ q[k] = p[k]
      BY <1>0, <1>2, <1>3, <2>1, <3>1
    <3>2. CASE k = Len(p) + 1 /\ q[k] = e
      BY <1>0, <1>1, <1>2, <1>3, <3>2
    <3> QED
      BY <1>6, <3>1, <3>2
  <2> QED
    BY <2>2 DEF Numbered
<1>9. LastTurnIs(q, s1, t1)
  <2>1. LastTurnIs(p, s, t)
    BY DEF GoodOver
  <2> QED
    BY <1>0, <1>1, <1>2, <1>3, <1>7, <2>1 DEF LastTurnIs
<1>10. GoodOver(q, s1, t1)
  <2>1. s1 \in Scans
    <3>1. <<>> \in Seq(Entries)
      OBVIOUS
    <3> QED
      BY <1>0, <1>2, <3>1 DEF Scans
  <2>2. t1 \in Traces
    BY <1>0, <1>3 DEF Traces
  <2>3. /\ s1.seq = Len(q) /\ s1.pendingCalls = <<>> /\ t1.pendingCalls = {} /\ t1.ok = TRUE
        /\ t1.turn = s1.turn /\ t1.step = s1.step
        /\ s1.turn \in {0, t1.nextTurn} /\ s1.step \in {0, t1.nextStep} /\ (s1.turn = 0 => s1.step = 0)
    BY <1>0, <1>2, <1>3, <1>4
  <2> QED
    BY <1>5, <1>8, <1>9, <2>1, <2>2, <2>3, BoundaryIsGood
<1> QED
  BY <1>1, <1>2, <1>3, <1>10 DEF e, q, s1, t1

\* The open step gets its message, and with it its calls.
MessageFollows(p, s, t, cs) ==
  LET e == AssistantMessage(s.turn, s.step, cs)
  IN /\ e \in Events /\ e.type = "assistant/message"
     /\ GoodOver(Append(p, e), Scan(s, e), Validate(t, e))
     /\ Scan(s, e) =
          [turn |-> s.turn, step |-> s.step, seq |-> Len(p) + 1,
           pendingCalls |-> [i \in DOMAIN cs |-> [call |-> cs[i], step |-> s.step, callSeq |-> 0]]]
     /\ Validate(t, e) =
          [ok |-> TRUE, turn |-> s.turn, step |-> s.step, nextTurn |-> t.nextTurn, nextStep |-> t.nextStep,
           pendingCalls |-> {}]

LEMMA AssistantMessageIsGood ==
  ASSUME NEW p \in Seq(Events), NEW s, NEW t, NEW cs \in Seq(Calls),
         GoodOver(p, s, t), s.step # 0, s.pendingCalls = <<>>, StepUntouched(p, s),
         \A i, j \in DOMAIN cs : cs[i] = cs[j] => i = j
  PROVE  MessageFollows(p, s, t, cs)
<1> DEFINE e == AssistantMessage(s.turn, s.step, cs)
           q == Append(p, e)
           s1 == Scan(s, e)
           t1 == Validate(t, e)
           pend == [i \in DOMAIN cs |-> [call |-> cs[i], step |-> s.step, callSeq |-> 0]]
<1>20. Fields(p, s, t)
  BY GoodFields
<1>0. /\ s \in Scans /\ t \in Traces /\ s.seq = Len(p) /\ s.seq \in Nat /\ t.ok = TRUE
      /\ s.turn = t.nextTurn /\ s.step = t.nextStep
      /\ s.turn \in Nat /\ s.step \in Nat /\ s.turn # 0 /\ s.step # 0 /\ s.pendingCalls \in Seq(Entries)
      /\ t.nextTurn \in Nat \ {0} /\ t.nextStep \in Nat \ {0} /\ t.turn = s.turn /\ t.step = s.step
      /\ t.pendingCalls \subseteq Calls
  BY <1>20 DEF Fields
<1>21. /\ OneEntryEach(s)
      /\ \A c \in Calls : c \in t.pendingCalls <=>
           \E i \in DOMAIN s.pendingCalls : s.pendingCalls[i].call = c /\ s.pendingCalls[i].callSeq # 0
  BY DEF GoodOver, Agree
<1>22. Cites(p, s) /\ AnsweredOnce(p, s)
  BY DEF GoodOver
<1>1. /\ e \in Events /\ e.type = "assistant/message" /\ e.turn = s.turn
      /\ s1 = [s EXCEPT !.seq = s.seq + 1, !.pendingCalls = s.pendingCalls \o pend]
      /\ t1 = [t EXCEPT !.ok = t.ok /\ t.turn = s.turn /\ t.step = s.step]
  <2>1. s.turn \in Nat /\ s.step \in Nat /\ s \in Scans /\ t \in Traces /\ s.seq = Len(p)
    BY <1>0
  <2>2. e \in Events /\ e.type = "assistant/message" /\ e.turn = s.turn
    BY <2>1 DEF AssistantMessage, Events, Codes
  <2>3. s1 = [s EXCEPT !.seq = s.seq + 1, !.pendingCalls = s.pendingCalls \o pend]
    BY <2>1 DEF Scan, AssistantMessage, Scans
  <2>4. t1 = [t EXCEPT !.ok = t.ok /\ t.turn = s.turn /\ t.step = s.step]
    BY <2>1 DEF Validate, AssistantMessage, Traces
  <2> QED
    BY <2>2, <2>3, <2>4
<1>23. e.calls = cs
  BY DEF e, AssistantMessage
<1> HIDE DEF e, s1, t1
<1>24. pend \in Seq(Entries) /\ s.pendingCalls \o pend = pend
  <2>1. pend \in Seq(Entries)
    <3>1. Len(cs) \in Nat /\ DOMAIN cs = 1 .. Len(cs) /\ \A i \in DOMAIN cs : cs[i] \in Calls
      OBVIOUS
    <3>2. \A i \in DOMAIN cs : [call |-> cs[i], step |-> s.step, callSeq |-> 0] \in Entries
      BY <1>0, <3>1 DEF Entries
    <3>3. pend \in [1 .. Len(cs) -> Entries]
      BY <3>1, <3>2
    <3> HIDE DEF pend
    <3> QED
      BY <3>1, <3>3, SeqDef
  <2> HIDE DEF pend
  <2> QED
    BY <2>1
<1>26. t.pendingCalls = {}
  BY <1>0, <1>21
<1>29. /\ DOMAIN pend = DOMAIN cs
      /\ \A i \in DOMAIN cs : pend[i].call = cs[i] /\ pend[i].step = s.step /\ pend[i].callSeq = 0
  OBVIOUS
<1>2. s1 = [turn |-> s.turn, step |-> s.step, seq |-> Len(p) + 1, pendingCalls |-> pend]
  BY <1>0, <1>1, <1>24 DEF Scans
<1>3. t1 = [ok |-> TRUE, turn |-> s.turn, step |-> s.step, nextTurn |-> t.nextTurn, nextStep |-> t.nextStep,
            pendingCalls |-> {}]
  BY <1>0, <1>1, <1>26 DEF Traces
<1>4. /\ q \in Seq(Events) /\ Len(q) = Len(p) + 1 /\ Len(p) \in Nat /\ DOMAIN p = 1 .. Len(p)
      /\ DOMAIN q = 1 .. (Len(p) + 1) /\ q[Len(p) + 1] = e /\ \A k \in 1 .. Len(p) : q[k] = p[k]
  BY <1>1, AppendIs
<1>6. \A k \in DOMAIN q : (k \in DOMAIN p /\ q[k] = p[k]) \/ (k = Len(p) + 1 /\ q[k] = e)
  BY <1>1, AppendCases
<1>7. LastTurn(q) = IF e.type = "turn/start" THEN e.turn ELSE LastTurn(p)
  BY <1>1, LastTurnAppend
<1>27. \A i \in DOMAIN p :
        /\ q[i] = p[i]
        /\ InOpenStep(q, i) <=> InOpenStep(p, i)
        /\ \A c : ~(e.type = "tool/result" /\ e.call = c) => Answers(q, i, c) = Answers(p, i, c)
        /\ \A c : e.type = "tool/result" /\ e.call = c => Answers(q, i, c) = Answers(p, i, c) \cup {Len(p) + 1}
  BY <1>1, AnswersAppend
<1>28. /\ InOpenStep(q, Len(p) + 1) <=> e.type = "assistant/message"
      /\ \A c : Answers(q, Len(p) + 1, c) = {}
  BY <1>1, NewMessageOpens
<1> HIDE DEF q, pend
<1>8. Numbered(q, s1, t1)
  <2>1. ASSUME NEW k \in DOMAIN p
        PROVE  /\ p[k].turn <= t.nextTurn
               /\ (p[k].type = "tool/call" /\ p[k].turn = t.nextTurn => p[k].step <= t.nextStep)
    BY <2>1 DEF GoodOver, Numbered
  <2>2. ASSUME NEW k \in DOMAIN q
        PROVE  /\ q[k].turn <= t.nextTurn
               /\ (q[k].type = "tool/call" /\ q[k].turn = t.nextTurn => q[k].step <= t.nextStep)
    <3>1. CASE k \in DOMAIN p /\ q[k] = p[k]
      BY <2>1, <3>1
    <3>2. CASE k = Len(p) + 1 /\ q[k] = e
      BY <1>0, <1>1, <1>23, <3>2
    <3> QED
      BY <1>6, <3>1, <3>2
  <2> QED
    BY <1>0, <1>2, <1>3, <2>2 DEF Numbered
<1>9. LastTurnIs(q, s1, t1)
  <2>1. LastTurnIs(p, s, t)
    BY DEF GoodOver
  <2> QED
    BY <1>0, <1>1, <1>2, <1>3, <1>7, <2>1 DEF LastTurnIs
<1>10. s1 \in Scans /\ t1 \in Traces /\ s1.seq = Len(q)
  BY <1>0, <1>2, <1>3, <1>4, <1>24 DEF Scans, Traces
<1>11. Agree(s1, t1)
  <2>1. OneEntryEach(s1)
    BY <1>2, <1>29 DEF OneEntryEach
  <2>2. \A c \in Calls : ~\E i \in DOMAIN s1.pendingCalls : s1.pendingCalls[i].call = c /\ s1.pendingCalls[i].callSeq # 0
    BY <1>2, <1>29
  <2> QED
    BY <1>0, <1>2, <1>3, <2>1, <2>2 DEF Agree
<1>12. Cites(q, s1)
  <2>1. \A k \in DOMAIN q : \A c : q[k] # ToolCall(s.turn, s.step, c)
    <3>1. \A c : e # ToolCall(s.turn, s.step, c)
      BY <1>1 DEF ToolCall
    <3>2. \A k \in DOMAIN p : \A c : p[k] # ToolCall(s.turn, s.step, c)
      BY DEF StepUntouched, ToolCall
    <3> QED
      BY <1>6, <3>1, <3>2
  <2> QED
    BY <1>2, <1>29, <2>1 DEF Cites
<1>13. AnsweredOnce(q, s1)
  <2>1. ASSUME NEW i \in DOMAIN q, InOpenStep(q, i)
        PROVE  i = Len(p) + 1 /\ q[i] = e
    BY <1>6, <1>27, <2>1 DEF StepUntouched
  <2>2. \A c \in Range(cs) : IsPending(s1, c)
    BY <1>2, <1>29 DEF IsPending, Range
  <2>3. s1.step # 0
    BY <1>0, <1>2
  <2>4. \A i \in DOMAIN q : InOpenStep(q, i) => q[i].calls = cs /\ \A c : Answers(q, i, c) = {}
    BY <1>23, <1>28, <2>1
  <2> QED
    BY <2>2, <2>3, <2>4 DEF AnsweredOnce
<1> QED
  BY <1>1, <1>2, <1>3, <1>8, <1>9, <1>10, <1>11, <1>12, <1>13
     DEF GoodOver, e, q, s1, t1, pend, MessageFollows

\* A pending call is recorded.
CallFollows(p, s, t, c) ==
  LET e == ToolCall(s.turn, s.step, c)
  IN /\ e \in Events /\ e.type = "tool/call"
     /\ GoodOver(Append(p, e), Scan(s, e), Validate(t, e))
     /\ Scan(s, e) =
          [turn |-> s.turn, step |-> s.step, seq |-> Len(p) + 1,
           pendingCalls |-> [i \in DOMAIN s.pendingCalls |->
              IF s.pendingCalls[i].call = c THEN [s.pendingCalls[i] EXCEPT !.callSeq = Len(p) + 1]
                                            ELSE s.pendingCalls[i]]]
     /\ Validate(t, e) =
          [ok |-> TRUE, turn |-> s.turn, step |-> s.step, nextTurn |-> t.nextTurn, nextStep |-> t.nextStep,
           pendingCalls |-> t.pendingCalls \cup {c}]

LEMMA ToolCallIsGood ==
  ASSUME NEW p \in Seq(Events), NEW s, NEW t, NEW c \in Calls, GoodOver(p, s, t), s.step # 0, IsPending(s, c)
  PROVE  CallFollows(p, s, t, c)
<1> DEFINE e == ToolCall(s.turn, s.step, c)
           q == Append(p, e)
           s1 == Scan(s, e)
           t1 == Validate(t, e)
           pend == [i \in DOMAIN s.pendingCalls |->
                  IF s.pendingCalls[i].call = c THEN [s.pendingCalls[i] EXCEPT !.callSeq = Len(p) + 1]
                                                ELSE s.pendingCalls[i]]
<1>20. Fields(p, s, t)
  BY GoodFields
<1>0. /\ s \in Scans /\ t \in Traces /\ s.seq = Len(p) /\ s.seq \in Nat /\ t.ok = TRUE
      /\ s.turn = t.nextTurn /\ s.step = t.nextStep
      /\ s.turn \in Nat /\ s.step \in Nat /\ s.turn # 0 /\ s.step # 0 /\ s.pendingCalls \in Seq(Entries)
      /\ t.nextTurn \in Nat \ {0} /\ t.nextStep \in Nat \ {0} /\ t.turn = s.turn /\ t.step = s.step
      /\ t.pendingCalls \subseteq Calls
  BY <1>20 DEF Fields
<1>21. /\ OneEntryEach(s)
      /\ \A x \in Calls : x \in t.pendingCalls <=>
           \E i \in DOMAIN s.pendingCalls : s.pendingCalls[i].call = x /\ s.pendingCalls[i].callSeq # 0
  BY DEF GoodOver, Agree
<1>22. Cites(p, s) /\ AnsweredOnce(p, s)
  BY DEF GoodOver
<1>1. /\ e \in Events /\ e.type = "tool/call" /\ e.turn = s.turn
      /\ s1 = [s EXCEPT !.seq = s.seq + 1, !.pendingCalls = pend]
      /\ t1 = [t EXCEPT !.ok = t.ok /\ t.turn = s.turn /\ t.step = s.step, !.pendingCalls = t.pendingCalls \cup {c}]
  <2>1. s.turn \in Nat /\ s.step \in Nat /\ s \in Scans /\ t \in Traces /\ s.seq = Len(p)
    BY <1>0
  <2>2. e \in Events /\ e.type = "tool/call" /\ e.turn = s.turn
    BY <2>1 DEF ToolCall, Events, Codes
  <2>3. s1 = [s EXCEPT !.seq = s.seq + 1, !.pendingCalls = pend]
    BY <2>1 DEF Scan, ToolCall, Scans
  <2>4. t1 = [t EXCEPT !.ok = t.ok /\ t.turn = s.turn /\ t.step = s.step, !.pendingCalls = t.pendingCalls \cup {c}]
    BY <2>1 DEF Validate, ToolCall, Traces
  <2> QED
    BY <2>2, <2>3, <2>4
<1>23. e.call = c /\ e.step = s.step
  BY DEF e, ToolCall
<1> HIDE DEF e, s1, t1
<1>29. /\ DOMAIN pend = DOMAIN s.pendingCalls
      /\ \A i \in DOMAIN s.pendingCalls :
           /\ pend[i].call = s.pendingCalls[i].call /\ pend[i].step = s.pendingCalls[i].step
           /\ s.pendingCalls[i].call = c => pend[i].callSeq = Len(p) + 1
           /\ s.pendingCalls[i].call # c => pend[i].callSeq = s.pendingCalls[i].callSeq
  BY <1>0 DEF Entries
<1>24. pend \in Seq(Entries)
  <2> DEFINE old == s.pendingCalls
  <2>1. Len(old) \in Nat /\ DOMAIN old = 1 .. Len(old) /\ \A i \in DOMAIN old : old[i] \in Entries
    BY <1>0
  <2>2. \A i \in DOMAIN old : [old[i] EXCEPT !.callSeq = Len(p) + 1] \in Entries
    <3>1. ASSUME NEW x \in Entries, NEW n \in Nat PROVE [x EXCEPT !.callSeq = n] \in Entries
      BY DEF Entries
    <3>2. Len(p) + 1 \in Nat
      BY <1>0
    <3> HIDE DEF old
    <3> QED
      BY <2>1, <3>1, <3>2
  <2>3. pend \in [1 .. Len(old) -> Entries]
    BY <2>1, <2>2
  <2> HIDE DEF pend, old
  <2> QED
    BY <2>1, <2>3, SeqDef
<1>26. t.pendingCalls \cup {c} \subseteq Calls
  BY <1>0
<1>2. s1 = [turn |-> s.turn, step |-> s.step, seq |-> Len(p) + 1, pendingCalls |-> pend]
  BY <1>0, <1>1, <1>24 DEF Scans
<1>3. t1 = [ok |-> TRUE, turn |-> s.turn, step |-> s.step, nextTurn |-> t.nextTurn, nextStep |-> t.nextStep,
            pendingCalls |-> t.pendingCalls \cup {c}]
  BY <1>0, <1>1, <1>26 DEF Traces
<1>4. /\ q \in Seq(Events) /\ Len(q) = Len(p) + 1 /\ Len(p) \in Nat /\ DOMAIN p = 1 .. Len(p)
      /\ DOMAIN q = 1 .. (Len(p) + 1) /\ q[Len(p) + 1] = e /\ \A k \in 1 .. Len(p) : q[k] = p[k]
  BY <1>1, AppendIs
<1>6. \A k \in DOMAIN q : (k \in DOMAIN p /\ q[k] = p[k]) \/ (k = Len(p) + 1 /\ q[k] = e)
  BY <1>1, AppendCases
<1>7. LastTurn(q) = IF e.type = "turn/start" THEN e.turn ELSE LastTurn(p)
  BY <1>1, LastTurnAppend
<1>27. \A i \in DOMAIN p :
        /\ q[i] = p[i]
        /\ InOpenStep(q, i) <=> InOpenStep(p, i)
        /\ \A x : ~(e.type = "tool/result" /\ e.call = x) => Answers(q, i, x) = Answers(p, i, x)
        /\ \A x : e.type = "tool/result" /\ e.call = x => Answers(q, i, x) = Answers(p, i, x) \cup {Len(p) + 1}
  BY <1>1, AnswersAppend
<1>28. /\ InOpenStep(q, Len(p) + 1) <=> e.type = "assistant/message"
      /\ \A x : Answers(q, Len(p) + 1, x) = {}
  BY <1>1, NewMessageOpens
<1> HIDE DEF q, pend
<1>8. Numbered(q, s1, t1)
  <2>1. ASSUME NEW k \in DOMAIN p
        PROVE  /\ p[k].turn <= t.nextTurn
               /\ (p[k].type = "tool/call" /\ p[k].turn = t.nextTurn => p[k].step <= t.nextStep)
    BY <2>1 DEF GoodOver, Numbered
  <2>2. ASSUME NEW k \in DOMAIN q
        PROVE  /\ q[k].turn <= t.nextTurn
               /\ (q[k].type = "tool/call" /\ q[k].turn = t.nextTurn => q[k].step <= t.nextStep)
    <3>1. CASE k \in DOMAIN p /\ q[k] = p[k]
      BY <2>1, <3>1
    <3>2. CASE k = Len(p) + 1 /\ q[k] = e
      BY <1>0, <1>1, <1>23, <3>2
    <3> QED
      BY <1>6, <3>1, <3>2
  <2> QED
    BY <1>0, <1>2, <1>3, <2>2 DEF Numbered
<1>9. LastTurnIs(q, s1, t1)
  <2>1. LastTurnIs(p, s, t)
    BY DEF GoodOver
  <2> QED
    BY <1>0, <1>1, <1>2, <1>3, <1>7, <2>1 DEF LastTurnIs
<1>10. s1 \in Scans /\ t1 \in Traces /\ s1.seq = Len(q)
  BY <1>0, <1>2, <1>3, <1>4, <1>24 DEF Scans, Traces
<1>11. Agree(s1, t1)
  <2>1. OneEntryEach(s1)
    BY <1>2, <1>21, <1>29 DEF OneEntryEach
  <2>2. ASSUME NEW d \in Calls
        PROVE  d \in t1.pendingCalls <=>
                 \E i \in DOMAIN s1.pendingCalls : s1.pendingCalls[i].call = d /\ s1.pendingCalls[i].callSeq # 0
    <3>1. CASE d = c
      <4>1. Len(p) + 1 # 0
        BY <1>4
      <4> QED
        BY <1>2, <1>3, <1>29, <3>1, <4>1 DEF IsPending
    <3>2. CASE d # c
      BY <1>2, <1>3, <1>21, <1>29, <3>2
    <3> QED
      BY <3>1, <3>2
  <2> QED
    BY <1>0, <1>2, <1>3, <2>1, <2>2 DEF Agree
<1>12. Cites(q, s1)
  <2> SUFFICES ASSUME NEW i \in DOMAIN pend
               PROVE  /\ pend[i].callSeq = 0 => \A k \in DOMAIN q : q[k] # ToolCall(s.turn, s.step, pend[i].call)
                      /\ pend[i].callSeq # 0 =>
                           /\ pend[i].callSeq \in DOMAIN q
                           /\ q[pend[i].callSeq] = ToolCall(s.turn, s.step, pend[i].call)
                           /\ \A k \in DOMAIN q : k > pend[i].callSeq =>
                                ~(q[k].type = "tool/call" /\ q[k].call = pend[i].call)
    BY <1>2 DEF Cites
  <2>1. CASE pend[i].call = c
    <3>1. pend[i].callSeq = Len(p) + 1 /\ Len(p) + 1 # 0 /\ Len(p) + 1 \in DOMAIN q
      BY <1>4, <1>29, <2>1
    <3>2. \A k \in DOMAIN q : ~(k > Len(p) + 1)
      BY <1>4
    <3>3. q[Len(p) + 1] = ToolCall(s.turn, s.step, c)
      BY <1>4 DEF e
    <3> QED
      BY <2>1, <3>1, <3>2, <3>3
  <2>2. CASE pend[i].call # c
    <3>1. /\ i \in DOMAIN s.pendingCalls /\ pend[i].call = s.pendingCalls[i].call
          /\ pend[i].callSeq = s.pendingCalls[i].callSeq
      BY <1>29, <2>2
    <3>2. e # ToolCall(s.turn, s.step, pend[i].call) /\ e.call # pend[i].call
      BY <1>23, <2>2 DEF ToolCall
    <3>3. /\ pend[i].callSeq = 0 => \A k \in DOMAIN p : p[k] # ToolCall(s.turn, s.step, pend[i].call)
          /\ pend[i].callSeq # 0 =>
               /\ pend[i].callSeq \in DOMAIN p
               /\ p[pend[i].callSeq] = ToolCall(s.turn, s.step, pend[i].call)
               /\ \A k \in DOMAIN p : k > pend[i].callSeq => ~(p[k].type = "tool/call" /\ p[k].call = pend[i].call)
      BY <1>22, <3>1 DEF Cites
    <3>4. \A k \in DOMAIN p : k \in DOMAIN q /\ q[k] = p[k]
      BY <1>4
    <3> QED
      BY <1>6, <3>2, <3>3, <3>4
  <2> QED
    BY <2>1, <2>2
<1>13. AnsweredOnce(q, s1)
  <2>1. \A d : IsPending(s1, d) <=> IsPending(s, d)
    BY <1>2, <1>29 DEF IsPending
  <2>2. s1.step # 0
    BY <1>0, <1>2
  <2>3. ASSUME NEW i \in DOMAIN q, InOpenStep(q, i)
        PROVE  /\ i \in DOMAIN p /\ InOpenStep(p, i) /\ q[i] = p[i] /\ \A d : Answers(q, i, d) = Answers(p, i, d)
    BY <1>1, <1>6, <1>27, <1>28, <2>3
  <2>4. ASSUME NEW i \in DOMAIN q, InOpenStep(q, i), NEW d \in Range(q[i].calls)
        PROVE  /\ IsPending(s1, d) => Answers(q, i, d) = {}
               /\ ~IsPending(s1, d) => \E k \in i + 1 .. Len(q) : Answers(q, i, d) = {k}
    <3>1. /\ IsPending(s, d) => Answers(p, i, d) = {}
          /\ ~IsPending(s, d) => \E k \in i + 1 .. Len(p) : Answers(p, i, d) = {k}
      BY <1>22, <2>3, <2>4 DEF AnsweredOnce
    <3>2. i + 1 .. Len(p) \subseteq i + 1 .. Len(q)
      BY <1>4, <2>3, <2>4
    <3> QED
      BY <2>1, <2>3, <2>4, <3>1, <3>2
  <2> QED
    BY <2>2, <2>4 DEF AnsweredOnce
<1> QED
  BY <1>1, <1>2, <1>3, <1>8, <1>9, <1>10, <1>11, <1>12, <1>13
     DEF GoodOver, e, q, s1, t1, pend, CallFollows

\* Map.delete of the first entry.
LEMMA DeletedHead ==
  ASSUME NEW s \in Seq(Entries), s # <<>>, \A i, j \in DOMAIN s : s[i].call = s[j].call => i = j
  PROVE  /\ Deleted(s, s[1].call) = Tail(s) /\ Tail(s) \in Seq(Entries)
         /\ Len(s) \in Nat \ {0} /\ DOMAIN s = 1 .. Len(s) /\ Len(Tail(s)) = Len(s) - 1
         /\ DOMAIN Tail(s) = 1 .. (Len(s) - 1) /\ \A i \in 1 .. (Len(s) - 1) : Tail(s)[i] = s[i + 1]
<1>1. Len(s) \in Nat \ {0} /\ DOMAIN s = 1 .. Len(s) /\ 1 \in DOMAIN s
  OBVIOUS
<1>2. /\ Tail(s) \in Seq(Entries) /\ Len(Tail(s)) = Len(s) - 1 /\ DOMAIN Tail(s) = 1 .. (Len(s) - 1)
      /\ \A i \in 1 .. (Len(s) - 1) : Tail(s)[i] = s[i + 1]
  OBVIOUS
<1>3. {i \in DOMAIN s : s[i].call = s[1].call} = {1}
  BY <1>1
<1>4. Deleted(s, s[1].call) = RemoveAt(s, 1)
  BY <1>3 DEF Deleted
<1> DEFINE a == SubSeq(s, 1, 1 - 1)
           b == SubSeq(s, 1 + 1, Len(s))
<1>5. a \in Seq(Entries) /\ Len(a) = 0
  BY <1>1
<1>6. b \in Seq(Entries) /\ Len(b) = Len(s) - 1 /\ \A i \in 1 .. (Len(s) - 1) : b[i] = s[i + 1]
  BY <1>1
<1>7. RemoveAt(s, 1) = a \o b
  BY DEF RemoveAt
<1> HIDE DEF a, b
<1>8. a \o b = b
  <2>1. a = <<>>
    BY <1>5
  <2> QED
    BY <1>6, <2>1
<1>9. b = Tail(s)
  BY <1>2, <1>6, SeqEqual
<1> QED
  BY <1>1, <1>2, <1>4, <1>7, <1>8, <1>9

\* The first pending call is answered.
ResultFollows(p, s, t, code, n) ==
  LET e == ToolResult(s.turn, s.step, s.pendingCalls[1].call, code, n)
  IN /\ e \in Events /\ e.type = "tool/result"
     /\ GoodOver(Append(p, e), Scan(s, e), Validate(t, e))
     /\ Scan(s, e) =
          [turn |-> s.turn, step |-> s.step, seq |-> Len(p) + 1,
           pendingCalls |-> Tail(s.pendingCalls)]
     /\ Validate(t, e) =
          [ok |-> TRUE, turn |-> s.turn, step |-> s.step, nextTurn |-> t.nextTurn, nextStep |-> t.nextStep,
           pendingCalls |-> t.pendingCalls \ {s.pendingCalls[1].call}]

LEMMA ToolResultIsGood ==
  ASSUME NEW p \in Seq(Events), NEW s, NEW t, NEW code \in Codes, NEW n \in Nat,
         GoodOver(p, s, t), s.step # 0, s.pendingCalls # <<>>, s.pendingCalls[1].callSeq = 0 => code = "TOOL_NOT_STARTED"
  PROVE  ResultFollows(p, s, t, code, n)
<1> DEFINE e == ToolResult(s.turn, s.step, s.pendingCalls[1].call, code, n)
           q == Append(p, e)
           s1 == Scan(s, e)
           t1 == Validate(t, e)
           pend == Tail(s.pendingCalls)
<1>20. Fields(p, s, t)
  BY GoodFields
<1>0. /\ s \in Scans /\ t \in Traces /\ s.seq = Len(p) /\ s.seq \in Nat /\ t.ok = TRUE
      /\ s.turn = t.nextTurn /\ s.step = t.nextStep
      /\ s.turn \in Nat /\ s.step \in Nat /\ s.turn # 0 /\ s.step # 0 /\ s.pendingCalls \in Seq(Entries)
      /\ t.nextTurn \in Nat \ {0} /\ t.nextStep \in Nat \ {0} /\ t.turn = s.turn /\ t.step = s.step
      /\ t.pendingCalls \subseteq Calls
  BY <1>20 DEF Fields
<1>21. /\ OneEntryEach(s)
      /\ \A c \in Calls : c \in t.pendingCalls <=>
           \E i \in DOMAIN s.pendingCalls : s.pendingCalls[i].call = c /\ s.pendingCalls[i].callSeq # 0
  BY DEF GoodOver, Agree
<1>25. s.pendingCalls[1].call \in Calls /\ 1 \in DOMAIN s.pendingCalls
  <2>1. 1 \in DOMAIN s.pendingCalls /\ s.pendingCalls[1] \in Entries
    BY <1>0
  <2> QED
    BY <2>1 DEF Entries
<1>22. Cites(p, s) /\ AnsweredOnce(p, s)
  BY DEF GoodOver
<1>1. /\ e \in Events /\ e.type = "tool/result" /\ e.turn = s.turn
      /\ s1 = [s EXCEPT !.seq = s.seq + 1, !.pendingCalls = Deleted(s.pendingCalls, s.pendingCalls[1].call)]
      /\ t1 = [t EXCEPT !.ok = t.ok /\ t.turn = s.turn /\ t.step = s.step /\
                             (s.pendingCalls[1].call \in t.pendingCalls \/ code = "TOOL_NOT_STARTED"),
                   !.pendingCalls = t.pendingCalls \ {s.pendingCalls[1].call}]
  <2>1. s.turn \in Nat /\ s.step \in Nat /\ s \in Scans /\ t \in Traces /\ s.seq = Len(p)
    BY <1>0
  <2>2. e \in Events /\ e.type = "tool/result" /\ e.turn = s.turn
    BY <2>1, <1>25 DEF ToolResult, Events, Codes
  <2>3. s1 = [s EXCEPT !.seq = s.seq + 1, !.pendingCalls = Deleted(s.pendingCalls, s.pendingCalls[1].call)]
    BY <2>1 DEF Scan, ToolResult, Scans
  <2>4. t1 = [t EXCEPT !.ok = t.ok /\ t.turn = s.turn /\ t.step = s.step /\
                             (s.pendingCalls[1].call \in t.pendingCalls \/ code = "TOOL_NOT_STARTED"),
                   !.pendingCalls = t.pendingCalls \ {s.pendingCalls[1].call}]
    BY <2>1 DEF Validate, ToolResult, Traces
  <2> QED
    BY <2>2, <2>3, <2>4
<1>23. e.call = s.pendingCalls[1].call
  BY DEF e, ToolResult
<1> HIDE DEF e, s1, t1
<1>29. /\ Deleted(s.pendingCalls, s.pendingCalls[1].call) = pend /\ pend \in Seq(Entries)
      /\ Len(s.pendingCalls) \in Nat \ {0} /\ DOMAIN s.pendingCalls = 1 .. Len(s.pendingCalls)
      /\ Len(pend) = Len(s.pendingCalls) - 1
      /\ DOMAIN pend = 1 .. (Len(s.pendingCalls) - 1)
      /\ \A i \in 1 .. (Len(s.pendingCalls) - 1) : pend[i] = s.pendingCalls[i + 1]
  BY <1>0, <1>21, DeletedHead DEF OneEntryEach
<1>24. pend \in Seq(Entries) /\ Deleted(s.pendingCalls, s.pendingCalls[1].call) = pend
  BY <1>29
<1>26. /\ s.pendingCalls[1].call \in t.pendingCalls \/ code = "TOOL_NOT_STARTED"
      /\ t.pendingCalls \ {s.pendingCalls[1].call} \subseteq Calls
  BY <1>0, <1>21, <1>25, <1>29
<1>2. s1 = [turn |-> s.turn, step |-> s.step, seq |-> Len(p) + 1, pendingCalls |-> pend]
  BY <1>0, <1>1, <1>24 DEF Scans
<1>3. t1 = [ok |-> TRUE, turn |-> s.turn, step |-> s.step, nextTurn |-> t.nextTurn, nextStep |-> t.nextStep,
            pendingCalls |-> t.pendingCalls \ {s.pendingCalls[1].call}]
  BY <1>0, <1>1, <1>26 DEF Traces
<1>4. /\ q \in Seq(Events) /\ Len(q) = Len(p) + 1 /\ Len(p) \in Nat /\ DOMAIN p = 1 .. Len(p)
      /\ DOMAIN q = 1 .. (Len(p) + 1) /\ q[Len(p) + 1] = e /\ \A k \in 1 .. Len(p) : q[k] = p[k]
  BY <1>1, AppendIs
<1>6. \A k \in DOMAIN q : (k \in DOMAIN p /\ q[k] = p[k]) \/ (k = Len(p) + 1 /\ q[k] = e)
  BY <1>1, AppendCases
<1>7. LastTurn(q) = IF e.type = "turn/start" THEN e.turn ELSE LastTurn(p)
  BY <1>1, LastTurnAppend
<1>27. \A i \in DOMAIN p :
        /\ q[i] = p[i]
        /\ InOpenStep(q, i) <=> InOpenStep(p, i)
        /\ \A c : ~(e.type = "tool/result" /\ e.call = c) => Answers(q, i, c) = Answers(p, i, c)
        /\ \A c : e.type = "tool/result" /\ e.call = c => Answers(q, i, c) = Answers(p, i, c) \cup {Len(p) + 1}
  BY <1>1, AnswersAppend
<1>28. /\ InOpenStep(q, Len(p) + 1) <=> e.type = "assistant/message"
      /\ \A c : Answers(q, Len(p) + 1, c) = {}
  BY <1>1, NewMessageOpens
<1> HIDE DEF q, pend
<1>8. Numbered(q, s1, t1)
  <2>1. ASSUME NEW k \in DOMAIN p
        PROVE  /\ p[k].turn <= t.nextTurn
               /\ (p[k].type = "tool/call" /\ p[k].turn = t.nextTurn => p[k].step <= t.nextStep)
    BY <2>1 DEF GoodOver, Numbered
  <2>2. ASSUME NEW k \in DOMAIN q
        PROVE  /\ q[k].turn <= t.nextTurn
               /\ (q[k].type = "tool/call" /\ q[k].turn = t.nextTurn => q[k].step <= t.nextStep)
    <3>1. CASE k \in DOMAIN p /\ q[k] = p[k]
      BY <2>1, <3>1
    <3>2. CASE k = Len(p) + 1 /\ q[k] = e
      BY <1>0, <1>1, <1>23, <3>2
    <3> QED
      BY <1>6, <3>1, <3>2
  <2> QED
    BY <1>0, <1>2, <1>3, <2>2 DEF Numbered
<1>9. LastTurnIs(q, s1, t1)
  <2>1. LastTurnIs(p, s, t)
    BY DEF GoodOver
  <2> QED
    BY <1>0, <1>1, <1>2, <1>3, <1>7, <2>1 DEF LastTurnIs
<1>10. s1 \in Scans /\ t1 \in Traces /\ s1.seq = Len(q)
  BY <1>0, <1>2, <1>3, <1>4, <1>24 DEF Scans, Traces
<1>30. \A i \in DOMAIN pend : i + 1 \in DOMAIN s.pendingCalls /\ pend[i] = s.pendingCalls[i + 1]
  BY <1>29
<1>31. \A i \in DOMAIN s.pendingCalls : i = 1 \/ (i - 1 \in DOMAIN pend /\ pend[i - 1] = s.pendingCalls[i])
  BY <1>29
<1>32. \A i \in DOMAIN pend : pend[i].call # s.pendingCalls[1].call
  <2>1. \A i \in DOMAIN pend : i + 1 # 1
    BY <1>29
  <2> QED
    BY <1>21, <1>25, <1>30, <2>1 DEF OneEntryEach
<1>11. Agree(s1, t1)
  <2>1. OneEntryEach(s1)
    <3>1. \A i, j \in DOMAIN pend : i + 1 = j + 1 => i = j
      BY <1>29
    <3> QED
      BY <1>2, <1>21, <1>30, <3>1 DEF OneEntryEach
  <2>2. ASSUME NEW d \in Calls
        PROVE  d \in t1.pendingCalls <=>
                 \E i \in DOMAIN s1.pendingCalls : s1.pendingCalls[i].call = d /\ s1.pendingCalls[i].callSeq # 0
    BY <1>2, <1>3, <1>21, <1>30, <1>31, <1>32
  <2> QED
    BY <1>0, <1>2, <1>3, <2>1, <2>2 DEF Agree
<1>12. Cites(q, s1)
  <2> SUFFICES ASSUME NEW i \in DOMAIN pend
               PROVE  /\ pend[i].callSeq = 0 => \A k \in DOMAIN q : q[k] # ToolCall(s.turn, s.step, pend[i].call)
                      /\ pend[i].callSeq # 0 =>
                           /\ pend[i].callSeq \in DOMAIN q
                           /\ q[pend[i].callSeq] = ToolCall(s.turn, s.step, pend[i].call)
                           /\ \A k \in DOMAIN q : k > pend[i].callSeq =>
                                ~(q[k].type = "tool/call" /\ q[k].call = pend[i].call)
    BY <1>2 DEF Cites
  <2>1. e # ToolCall(s.turn, s.step, pend[i].call) /\ e.type # "tool/call"
    BY <1>1 DEF ToolCall
  <2>2. /\ pend[i].callSeq = 0 => \A k \in DOMAIN p : p[k] # ToolCall(s.turn, s.step, pend[i].call)
        /\ pend[i].callSeq # 0 =>
             /\ pend[i].callSeq \in DOMAIN p
             /\ p[pend[i].callSeq] = ToolCall(s.turn, s.step, pend[i].call)
             /\ \A k \in DOMAIN p : k > pend[i].callSeq => ~(p[k].type = "tool/call" /\ p[k].call = pend[i].call)
    BY <1>22, <1>30 DEF Cites
  <2>3. \A k \in DOMAIN p : k \in DOMAIN q /\ q[k] = p[k]
    BY <1>4
  <2> QED
    BY <1>6, <2>1, <2>2, <2>3
<1>13. AnsweredOnce(q, s1)
  <2>1. \A d : IsPending(s1, d) <=> IsPending(s, d) /\ d # s.pendingCalls[1].call
    BY <1>2, <1>30, <1>31, <1>32 DEF IsPending
  <2>2. s1.step # 0 /\ IsPending(s, s.pendingCalls[1].call)
    BY <1>0, <1>2, <1>25 DEF IsPending
  <2>3. ASSUME NEW i \in DOMAIN q, InOpenStep(q, i)
        PROVE  /\ i \in DOMAIN p /\ InOpenStep(p, i) /\ q[i] = p[i]
               /\ \A d : d # s.pendingCalls[1].call => Answers(q, i, d) = Answers(p, i, d)
               /\ Answers(q, i, s.pendingCalls[1].call) = Answers(p, i, s.pendingCalls[1].call) \cup {Len(p) + 1}
    BY <1>1, <1>6, <1>23, <1>27, <1>28, <2>3
  <2>4. ASSUME NEW i \in DOMAIN q, InOpenStep(q, i), NEW d \in Range(q[i].calls)
        PROVE  /\ IsPending(s1, d) => Answers(q, i, d) = {}
               /\ ~IsPending(s1, d) => \E k \in i + 1 .. Len(q) : Answers(q, i, d) = {k}
    <3>1. /\ IsPending(s, d) => Answers(p, i, d) = {}
          /\ ~IsPending(s, d) => \E k \in i + 1 .. Len(p) : Answers(p, i, d) = {k}
      BY <1>22, <2>3, <2>4 DEF AnsweredOnce
    <3>2. i + 1 .. Len(p) \subseteq i + 1 .. Len(q) /\ Len(p) + 1 \in i + 1 .. Len(q)
      BY <1>4, <2>3, <2>4
    <3>3. CASE d = s.pendingCalls[1].call
      BY <2>1, <2>2, <2>3, <2>4, <3>1, <3>2, <3>3
    <3>4. CASE d # s.pendingCalls[1].call
      BY <2>1, <2>3, <2>4, <3>1, <3>2, <3>4
    <3> QED
      BY <3>3, <3>4
  <2> QED
    BY <2>2, <2>4 DEF AnsweredOnce
<1> QED
  BY <1>1, <1>2, <1>3, <1>8, <1>9, <1>10, <1>11, <1>12, <1>13
     DEF GoodOver, e, q, s1, t1, pend, ResultFollows

-----------------------------------------------------------------------------
\* The repair, one closer at a time: the first closer of a log makes a good log of a good log,
\* and the closers of the new log are the closers that are left.

Results(s) == [i \in DOMAIN s.pendingCalls |-> SyntheticResult(s.turn, s.pendingCalls[i])]
Boundaries(s) == (IF s.step = 0 THEN <<>> ELSE <<StepEnd(s.turn, s.step)>>) \o <<TurnEnd(s.turn)>>

LEMMA ResultsAreEvents ==
  ASSUME NEW s \in Scans
  PROVE  /\ Results(s) \in Seq(Events) /\ Len(Results(s)) = Len(s.pendingCalls)
         /\ \A i \in 1 .. Len(s.pendingCalls) : Results(s)[i] = SyntheticResult(s.turn, s.pendingCalls[i])
<1>1. s.turn \in Nat /\ s.pendingCalls \in Seq(Entries)
  BY DEF Scans
<1>2. ASSUME NEW x \in Entries PROVE SyntheticResult(s.turn, x) \in Events
  BY <1>1 DEF SyntheticResult, ToolResult, Entries, Events, Codes
<1> DEFINE n == Len(s.pendingCalls)
<1>3. n \in Nat /\ DOMAIN s.pendingCalls = 1 .. n /\ \A i \in 1 .. n : s.pendingCalls[i] \in Entries
  BY <1>1
<1> HIDE DEF n
<1>4. Results(s) = [i \in 1 .. n |-> SyntheticResult(s.turn, s.pendingCalls[i])]
  BY <1>3 DEF Results
<1>5. Results(s) \in [1 .. n -> Events] /\ \A i \in 1 .. n : Results(s)[i] = SyntheticResult(s.turn, s.pendingCalls[i])
  BY <1>2, <1>3, <1>4
<1>6. Results(s) \in Seq(Events)
  BY <1>3, <1>5, SeqDef
<1>7. Len(Results(s)) = n
  BY <1>3, <1>5, <1>6, LenProperties
<1> QED
  BY <1>5, <1>6, <1>7 DEF n

LEMMA BoundariesAreEvents ==
  ASSUME NEW s \in Scans
  PROVE  /\ Boundaries(s) \in Seq(Events) /\ Boundaries(s) # <<>>
         /\ s.step # 0 => Boundaries(s) = <<StepEnd(s.turn, s.step), TurnEnd(s.turn)>>
         /\ s.step = 0 => Boundaries(s) = <<TurnEnd(s.turn)>>
<1>1. s.turn \in Nat /\ s.step \in Nat
  BY DEF Scans
<1>2. StepEnd(s.turn, s.step) \in Events /\ TurnEnd(s.turn) \in Events
  BY <1>1 DEF StepEnd, TurnEnd, Events
<1> DEFINE a == StepEnd(s.turn, s.step)
           b == TurnEnd(s.turn)
<1> HIDE DEF a, b
<1>3. a \in Events /\ b \in Events /\ Boundaries(s) = (IF s.step = 0 THEN <<>> ELSE <<a>>) \o <<b>>
  BY <1>2 DEF Boundaries, a, b
<1>4. CASE s.step = 0
  <2>1. Boundaries(s) = <<b>>
    BY <1>3, <1>4
  <2> QED
    BY <1>3, <1>4, <2>1 DEF b
<1>5. CASE s.step # 0
  <2>1. <<a>> \in Seq(Events) /\ <<b>> \in Seq(Events) /\ Boundaries(s) = <<a>> \o <<b>>
    BY <1>3, <1>5
  <2>2. Boundaries(s) = Append(<<a>>, b)
    BY <1>3, <2>1
  <2>3. <<a, b>> \in Seq(Events) /\ Len(<<a, b>>) = 2 /\ <<a, b>>[1] = a /\ <<a, b>>[2] = b
    BY <1>3
  <2>4. /\ Append(<<a>>, b) \in Seq(Events) /\ Len(Append(<<a>>, b)) = 2
        /\ Append(<<a>>, b)[1] = a /\ Append(<<a>>, b)[2] = b
    BY <1>3, <2>1
  <2>5. Boundaries(s) = <<a, b>>
    <3>1. \A i \in 1 .. 2 : Append(<<a>>, b)[i] = <<a, b>>[i]
      <4>1. \A i \in 1 .. 2 : i = 1 \/ i = 2
        OBVIOUS
      <4> QED
        BY <2>3, <2>4, <4>1
    <3> QED
      BY <2>2, <2>3, <2>4, <3>1, SeqEqual
  <2>6. <<a, b>> # <<>>
    OBVIOUS
  <2> QED
    BY <1>5, <2>3, <2>5, <2>6 DEF a, b
<1> QED
  BY <1>4, <1>5

LEMMA ClosersShape ==
  ASSUME NEW p \in Seq(Events), OpenTail(p) \in Scans
  PROVE  /\ OpenTail(p).turn = 0 => Closers(p) = <<>>
         /\ OpenTail(p).turn # 0 => Closers(p) = Results(OpenTail(p)) \o Boundaries(OpenTail(p))
         /\ Closers(p) \in Seq(Events)
         /\ Closers(p) = <<>> <=> OpenTail(p).turn = 0
<1> DEFINE s == OpenTail(p)
           a == IF s.step = 0 THEN <<>> ELSE <<StepEnd(s.turn, s.step)>>
           b == <<TurnEnd(s.turn)>>
<1>1. s.turn = 0 => Closers(p) = <<>>
  BY DEF Closers
<1>2. s.turn # 0 => Closers(p) = Results(s) \o a \o b
  BY DEF Closers, InClosingOrder, Results
<1>3. a \in Seq(Events) /\ b \in Seq(Events) /\ Boundaries(s) = a \o b
  <2>1. s.turn \in Nat /\ s.step \in Nat
    BY DEF Scans
  <2>2. StepEnd(s.turn, s.step) \in Events /\ TurnEnd(s.turn) \in Events
    BY <2>1 DEF StepEnd, TurnEnd, Events
  <2>3. <<StepEnd(s.turn, s.step)>> \in Seq(Events) /\ <<TurnEnd(s.turn)>> \in Seq(Events) /\ <<>> \in Seq(Events)
    BY <2>2
  <2> QED
    BY <2>3 DEF Boundaries
<1>4. /\ Results(s) \in Seq(Events) /\ Boundaries(s) \in Seq(Events) /\ Boundaries(s) # <<>>
  BY ResultsAreEvents, BoundariesAreEvents
<1> HIDE DEF a, b, s
<1>5. Results(s) \o a \o b = Results(s) \o Boundaries(s)
  BY <1>3, <1>4, ConcatAssociative
<1>6. Results(s) \o Boundaries(s) \in Seq(Events) /\ Results(s) \o Boundaries(s) # <<>>
  BY <1>4, ConcatProperties, ConcatEqualIffEmpty
<1>7. <<>> \in Seq(Events)
  OBVIOUS
<1> QED
  BY <1>1, <1>2, <1>5, <1>6, <1>7 DEF s

\* A message of the step the repair closes is in an open step, or its calls are answered.
Accounted(p, i) ==
  \/ InOpenStep(p, i)
  \/ /\ OpenTail(p).step = 0
     /\ \A c \in Range(p[i].calls) : \E k \in i + 1 .. Len(p) : Answers(p, i, c) = {k}

\* What one closer does: q is p with its first closer.
Closes(p, q) ==
  /\ q = Append(p, Head(Closers(p))) /\ Head(Closers(p)) \in Events
  /\ Good(q)
  /\ Closers(q) = Tail(Closers(p))
  /\ \A i \in DOMAIN p : Accounted(p, i) => Accounted(q, i)

LEMMA AccountedAppend ==
  ASSUME NEW p \in Seq(Events), NEW e \in Events, NEW i \in DOMAIN p, e.type # "tool/result",
         OpenTail(Append(p, e)).step = 0,
         \A c \in Range(p[i].calls) : \E k \in i + 1 .. Len(p) : Answers(p, i, c) = {k}
  PROVE  Accounted(Append(p, e), i)
<1> DEFINE q == Append(p, e)
<1>1. q[i] = p[i] /\ \A c : Answers(q, i, c) = Answers(p, i, c)
  BY AnswersAppend
<1>2. Len(q) = Len(p) + 1 /\ Len(p) \in Nat /\ DOMAIN p = 1 .. Len(p)
  BY AppendIs
<1> HIDE DEF q
<1>3. i + 1 .. Len(p) \subseteq i + 1 .. Len(q)
  BY <1>2
<1>4. OpenTail(q).step = 0
  BY DEF q
<1>5. Accounted(q, i)
  BY <1>1, <1>3, <1>4 DEF Accounted
<1> QED
  BY <1>5 DEF q

LEMMA CloseTurn ==
  ASSUME NEW p \in Seq(Events), Good(p), OpenTail(p).turn # 0, OpenTail(p).step = 0
  PROVE  Closes(p, Append(p, Head(Closers(p))))
<1> DEFINE s == OpenTail(p)
           t == Trace(p)
           e == TurnEnd(s.turn)
           q == Append(p, e)
<1>1. GoodOver(p, s, t) /\ NeverDenied(p)
  BY DEF Good
<1>2. s \in Scans /\ s.pendingCalls = <<>>
  BY <1>1, GoodFields DEF Fields
<1>3. /\ e \in Events /\ e.type = "turn/end" /\ GoodOver(q, Scan(s, e), Validate(t, e))
      /\ Scan(s, e) = [turn |-> 0, step |-> 0, pendingCalls |-> <<>>, seq |-> Len(p) + 1]
  BY <1>1, TurnEndIsGood
<1>4. OpenTail(q) = Scan(s, e) /\ Trace(q) = Validate(t, e)
  BY <1>3, OpenTailAppend, TraceAppend
<1>5. NeverDenied(q)
  BY <1>1, <1>3, SilentOnDenial
<1>6. Good(q)
  BY <1>3, <1>4, <1>5 DEF Good
<1>7. Closers(p) = <<e>>
  <2>1. Closers(p) = Results(s) \o Boundaries(s) /\ Boundaries(s) = <<e>>
    BY <1>2, ClosersShape, BoundariesAreEvents
  <2>2. Results(s) = <<>>
    BY <1>2, ResultsAreEvents
  <2> HIDE DEF e
  <2> QED
    BY <1>3, <2>1, <2>2
<1>8. q \in Seq(Events)
  BY <1>3, AppendIs
<1>9. Closers(q) = <<>>
  <2>1. OpenTail(q).turn = 0
    BY <1>3, <1>4
  <2> QED
    BY <2>1 DEF Closers
<1>10. ASSUME NEW i \in DOMAIN p, Accounted(p, i) PROVE Accounted(q, i)
  <2>1. ~InOpenStep(p, i)
    BY <1>1 DEF GoodOver, AnsweredOnce
  <2>2. OpenTail(q).step = 0
    BY <1>3, <1>4
  <2> HIDE DEF e
  <2> QED
    BY <1>3, <1>10, <2>1, <2>2, AccountedAppend DEF Accounted
<1> HIDE DEF e
<1>11. Head(Closers(p)) = e /\ Tail(Closers(p)) = <<>>
  BY <1>7
<1> QED
  BY <1>3, <1>6, <1>9, <1>10, <1>11 DEF Closes

LEMMA CloseStep ==
  ASSUME NEW p \in Seq(Events), Good(p), OpenTail(p).turn # 0, OpenTail(p).step # 0,
         OpenTail(p).pendingCalls = <<>>
  PROVE  Closes(p, Append(p, Head(Closers(p))))
<1> DEFINE s == OpenTail(p)
           t == Trace(p)
           e == StepEnd(s.turn, s.step)
           q == Append(p, e)
<1>1. GoodOver(p, s, t) /\ NeverDenied(p)
  BY DEF Good
<1>2. s \in Scans
  BY <1>1, GoodFields DEF Fields
<1>3. /\ e \in Events /\ e.type = "step/end" /\ GoodOver(q, Scan(s, e), Validate(t, e))
      /\ Scan(s, e) = [turn |-> s.turn, step |-> 0, pendingCalls |-> <<>>, seq |-> Len(p) + 1]
  BY <1>1, StepEndIsGood
<1>4. OpenTail(q) = Scan(s, e) /\ Trace(q) = Validate(t, e)
  BY <1>3, OpenTailAppend, TraceAppend
<1>5. NeverDenied(q)
  BY <1>1, <1>3, SilentOnDenial
<1>6. Good(q)
  BY <1>3, <1>4, <1>5 DEF Good
<1>7. Closers(p) = <<e, TurnEnd(s.turn)>>
  <2>1. Closers(p) = Results(s) \o Boundaries(s) /\ Boundaries(s) = <<e, TurnEnd(s.turn)>>
    BY <1>2, ClosersShape, BoundariesAreEvents
  <2>2. Results(s) = <<>>
    BY <1>2, ResultsAreEvents
  <2>3. Boundaries(s) \in Seq(Events)
    BY <1>2, BoundariesAreEvents
  <2> HIDE DEF e, s
  <2> QED
    BY <2>1, <2>2, <2>3, ConcatEmptySeq
<1>8. q \in Seq(Events) /\ OpenTail(q) \in Scans
  BY <1>3, <1>4, AppendIs DEF GoodOver
<1>9. Closers(q) = <<TurnEnd(s.turn)>>
  <2> DEFINE s1 == OpenTail(q)
  <2>1. s1.turn = s.turn /\ s1.step = 0 /\ s1.pendingCalls = <<>> /\ s1 \in Scans
    BY <1>3, <1>4, <1>8
  <2>2. Closers(q) = Results(s1) \o Boundaries(s1) /\ Boundaries(s1) = <<TurnEnd(s.turn)>>
    BY <1>8, <2>1, ClosersShape, BoundariesAreEvents
  <2>3. Boundaries(s1) \in Seq(Events)
    BY <2>1, BoundariesAreEvents
  <2>4. Results(s1) = <<>>
    BY <2>1, ResultsAreEvents
  <2> HIDE DEF s1, e, s, q
  <2> QED
    BY <2>2, <2>3, <2>4, ConcatEmptySeq
<1>10. ASSUME NEW i \in DOMAIN p, Accounted(p, i) PROVE Accounted(q, i)
  <2>1. InOpenStep(p, i)
    BY <1>10 DEF Accounted
  <2>2. \A c : ~IsPending(s, c)
    BY DEF IsPending
  <2>3. \A c \in Range(p[i].calls) : \E k \in i + 1 .. Len(p) : Answers(p, i, c) = {k}
    BY <1>1, <2>1, <2>2 DEF GoodOver, AnsweredOnce
  <2>4. OpenTail(q).step = 0
    BY <1>3, <1>4
  <2> HIDE DEF e
  <2> QED
    BY <1>3, <2>3, <2>4, AccountedAppend
<1> DEFINE f == TurnEnd(s.turn)
<1> HIDE DEF e, f
<1>11. Head(Closers(p)) = e /\ Tail(Closers(p)) = <<f>>
  BY <1>7 DEF f
<1> QED
  BY <1>3, <1>6, <1>9, <1>10, <1>11 DEF Closes, f

LEMMA TailOfConcat ==
  ASSUME NEW S, NEW r \in Seq(S), NEW b \in Seq(S), r # <<>>
  PROVE  Head(r \o b) = r[1] /\ Tail(r \o b) = Tail(r) \o b
<1> DEFINE rb == r \o b
           tb == Tail(r) \o b
<1>1. Len(r) \in Nat \ {0} /\ Len(b) \in Nat
  BY EmptySeq
<1>2. /\ rb \in Seq(S) /\ Len(rb) = Len(r) + Len(b)
      /\ \A i \in 1 .. Len(r) + Len(b) : rb[i] = IF i <= Len(r) THEN r[i] ELSE b[i - Len(r)]
  BY ConcatProperties
<1>3. Tail(r) \in Seq(S) /\ Len(Tail(r)) = Len(r) - 1 /\ \A i \in 1 .. Len(r) - 1 : Tail(r)[i] = r[i + 1]
  BY HeadTailProperties
<1>4. /\ tb \in Seq(S) /\ Len(tb) = Len(Tail(r)) + Len(b)
      /\ \A i \in 1 .. Len(Tail(r)) + Len(b) : tb[i] = IF i <= Len(Tail(r)) THEN Tail(r)[i] ELSE b[i - Len(Tail(r))]
  BY <1>3, ConcatProperties
<1> HIDE DEF rb, tb
<1>5. rb # <<>> /\ Head(rb) = r[1]
  <2>1. Len(rb) # 0 /\ rb[1] = r[1]
    BY <1>1, <1>2
  <2> QED
    BY <1>2, <2>1
<1>6. Tail(rb) \in Seq(S) /\ Len(Tail(rb)) = Len(rb) - 1 /\ \A i \in 1 .. Len(rb) - 1 : Tail(rb)[i] = rb[i + 1]
  BY <1>2, <1>5, HeadTailProperties
<1>7. Len(Tail(rb)) = Len(tb)
  BY <1>1, <1>2, <1>3, <1>4, <1>6
<1>8. ASSUME NEW i \in 1 .. Len(Tail(rb)) PROVE Tail(rb)[i] = tb[i]
  <2>1. /\ i \in Nat /\ i >= 1 /\ i + 1 \in 1 .. Len(r) + Len(b) /\ i \in 1 .. Len(Tail(r)) + Len(b)
        /\ i \in 1 .. Len(rb) - 1
    BY <1>1, <1>2, <1>3, <1>6
  <2>2. Tail(rb)[i] = rb[i + 1]
    BY <1>6, <2>1
  <2>3. CASE i <= Len(r) - 1
    <3>1. i \in 1 .. Len(r) - 1 /\ i + 1 <= Len(r) /\ i <= Len(Tail(r))
      BY <1>1, <1>3, <2>1, <2>3
    <3> QED
      BY <1>2, <1>3, <1>4, <2>1, <2>2, <3>1
  <2>4. CASE ~(i <= Len(r) - 1)
    <3>1. ~(i + 1 <= Len(r)) /\ ~(i <= Len(Tail(r))) /\ (i + 1) - Len(r) = i - Len(Tail(r))
      BY <1>1, <1>3, <2>1, <2>4
    <3>2. rb[i + 1] = b[(i + 1) - Len(r)]
      BY <1>2, <2>1, <3>1
    <3>3. tb[i] = b[i - Len(Tail(r))]
      BY <1>4, <2>1, <3>1
    <3> QED
      BY <2>2, <3>1, <3>2, <3>3
  <2> QED
    BY <2>3, <2>4
<1>9. Tail(rb) = tb
  BY <1>4, <1>6, <1>7, <1>8, SeqEqual
<1> QED
  BY <1>5, <1>9 DEF rb, tb

LEMMA CloseCall ==
  ASSUME NEW p \in Seq(Events), Good(p), OpenTail(p).turn # 0, OpenTail(p).step # 0,
         OpenTail(p).pendingCalls # <<>>
  PROVE  Closes(p, Append(p, Head(Closers(p))))
<1> DEFINE s == OpenTail(p)
           t == Trace(p)
           x == s.pendingCalls[1]
           code == IF x.callSeq = 0 THEN "TOOL_NOT_STARTED" ELSE "TOOL_OUTCOME_UNKNOWN"
           e == ToolResult(s.turn, s.step, x.call, code, x.callSeq)
           q == Append(p, e)
           s1 == Scan(s, e)
<1>1. GoodOver(p, s, t) /\ NeverDenied(p)
  BY DEF Good
<1>2. s \in Scans /\ s.pendingCalls \in Seq(Entries)
  BY <1>1, GoodFields DEF Fields
<1>3. 1 \in DOMAIN s.pendingCalls /\ x \in Entries
  BY <1>2
<1>4. code \in Codes /\ x.callSeq \in Nat /\ x.step = s.step
  <2>1. code \in Codes
    BY DEF Codes
  <2>2. x.callSeq \in Nat
    BY <1>3 DEF Entries
  <2>3. x.step = s.step
    BY <1>1, <1>3 DEF GoodOver, Agree, OneEntryEach
  <2> QED
    BY <2>1, <2>2, <2>3
<1>5. e = SyntheticResult(s.turn, x)
  BY <1>4 DEF SyntheticResult
<1>6. /\ e \in Events /\ e.type = "tool/result" /\ GoodOver(q, s1, Validate(t, e))
      /\ s1 = [turn |-> s.turn, step |-> s.step, seq |-> Len(p) + 1, pendingCalls |-> Tail(s.pendingCalls)]
  <2> HIDE DEF s, t
  <2>1. x.callSeq = 0 => code = "TOOL_NOT_STARTED"
    OBVIOUS
  <2>2. s.step # 0 /\ s.pendingCalls # <<>>
    BY DEF s
  <2> HIDE DEF code
  <2>3. ResultFollows(p, s, t, code, x.callSeq)
    BY <1>1, <1>4, <2>1, <2>2, ToolResultIsGood
  <2> HIDE DEF x
  <2> QED
    BY <2>3 DEF ResultFollows, x
<1>7. OpenTail(q) = s1 /\ Trace(q) = Validate(t, e) /\ q \in Seq(Events)
  BY <1>6, OpenTailAppend, TraceAppend, AppendIs
<1>8. NeverDenied(q)
  <2>1. e.turn = s.turn /\ e.step = s.step /\ e.call = x.call /\ e.error = code /\ \A u, v, c : e # ToolCall(u, v, c)
    BY DEF ToolResult, ToolCall
  <2>2. x.callSeq = 0 => \A k \in DOMAIN p : p[k] # ToolCall(s.turn, s.step, x.call)
    BY <1>1, <1>3 DEF GoodOver, Cites
  <2>3. NotStarted(e) => x.callSeq = 0
    BY <2>1 DEF NotStarted
  <2> HIDE DEF e, x, code, s
  <2> QED
    BY <1>1, <1>6, <2>1, <2>2, <2>3, NeverDeniedAppend
<1>9. Good(q)
  BY <1>6, <1>7, <1>8 DEF Good
<1>10. s1 \in Scans
  BY <1>6 DEF GoodOver
<1>11. Closers(p) = Results(s) \o Boundaries(s)
  BY <1>2, ClosersShape
<1>12. Closers(q) = Results(s1) \o Boundaries(s1)
  <2>1. OpenTail(q) \in Scans /\ OpenTail(q).turn # 0
    BY <1>6, <1>7, <1>10
  <2> HIDE DEF q, s1
  <2> QED
    BY <1>7, <2>1, ClosersShape
<1> HIDE DEF s, t, x, code, e, q, s1
<1>13. Boundaries(s1) = Boundaries(s) /\ Boundaries(s) \in Seq(Events)
  BY <1>2, <1>6, BoundariesAreEvents DEF Boundaries
<1>14. Results(s) \in Seq(Events) /\ Results(s) # <<>> /\ Results(s)[1] = e
  <2>1. Len(s.pendingCalls) \in Nat /\ 1 \in 1 .. Len(s.pendingCalls)
    BY <1>2, <1>3
  <2>2. /\ Results(s) \in Seq(Events) /\ Len(Results(s)) = Len(s.pendingCalls)
        /\ Results(s)[1] = SyntheticResult(s.turn, s.pendingCalls[1])
    BY <1>2, <2>1, ResultsAreEvents
  <2> QED
    BY <1>5, <2>1, <2>2 DEF x
<1>15. Results(s1) = Tail(Results(s))
  <2> DEFINE n == Len(s.pendingCalls)
             a == Tail(s.pendingCalls)
             r == Results(s)
  <2>1. n \in Nat /\ n # 0 /\ Len(a) = n - 1 /\ \A i \in 1 .. n - 1 : a[i] = s.pendingCalls[i + 1]
    <3>1. s.pendingCalls # <<>>
      BY DEF s
    <3> QED
      BY <1>2, <3>1, HeadTailProperties, EmptySeq
  <2>2. s1.pendingCalls = a /\ s1.turn = s.turn
    BY <1>6
  <2>3. r \in Seq(Events) /\ Len(r) = n /\ \A i \in 1 .. n : r[i] = SyntheticResult(s.turn, s.pendingCalls[i])
    BY <1>2, ResultsAreEvents
  <2> HIDE DEF n, a, r
  <2>4. /\ Results(s1) \in Seq(Events) /\ Len(Results(s1)) = n - 1
        /\ \A i \in 1 .. n - 1 : Results(s1)[i] = SyntheticResult(s.turn, a[i])
    BY <1>10, <2>1, <2>2, ResultsAreEvents
  <2>5. Tail(r) \in Seq(Events) /\ Len(Tail(r)) = n - 1 /\ \A i \in 1 .. n - 1 : Tail(r)[i] = r[i + 1]
    BY <1>14, <2>3, HeadTailProperties DEF r
  <2>6. \A i \in 1 .. n - 1 : i + 1 \in 1 .. n
    BY <2>1
  <2>7. \A i \in 1 .. n - 1 : Results(s1)[i] = Tail(r)[i]
    BY <2>1, <2>3, <2>4, <2>5, <2>6
  <2>8. Results(s1) = Tail(r)
    BY <2>4, <2>5, <2>7, SeqEqual
  <2> QED
    BY <2>8 DEF r
<1>16. Head(Closers(p)) = e /\ Closers(q) = Tail(Closers(p))
  BY <1>11, <1>12, <1>13, <1>14, <1>15, TailOfConcat
<1>17. ASSUME NEW i \in DOMAIN p, Accounted(p, i) PROVE Accounted(q, i)
  <2>1. InOpenStep(p, i)
    BY <1>17 DEF Accounted
  <2> QED
    BY <1>6, <2>1, AnswersAppend DEF Accounted, q
<1> QED
  BY <1>6, <1>9, <1>16, <1>17 DEF Closes, q

LEMMA CloseOne ==
  ASSUME NEW p \in Seq(Events), Good(p), Closers(p) # <<>>
  PROVE  Closes(p, Append(p, Head(Closers(p))))
<1>1. OpenTail(p).turn # 0
  BY DEF Closers
<1> QED
  BY <1>1, CloseTurn, CloseStep, CloseCall

\* After j closers.
Repairing(p, j) == p \o SubSeq(Closers(p), 1, j)

RepairedSoFar(p, j) ==
  /\ AllGood(Repairing(p, j))
  /\ Closers(Repairing(p, j)) = SubSeq(Closers(p), j + 1, Len(Closers(p)))
  /\ \A i \in DOMAIN p : InOpenStep(p, i) =>
       Accounted(Repairing(p, j), i) /\ Repairing(p, j)[i] = p[i] /\ i \in DOMAIN Repairing(p, j)

LEMMA NextRepairing ==
  ASSUME NEW p \in Seq(Events), NEW c \in Seq(Events), NEW j \in 1 .. Len(c)
  PROVE  /\ p \o SubSeq(c, 1, j) = Append(p \o SubSeq(c, 1, j - 1), c[j])
         /\ p \o SubSeq(c, 1, j - 1) \in Seq(Events) /\ c[j] \in Events
         /\ Head(SubSeq(c, j, Len(c))) = c[j] /\ Tail(SubSeq(c, j, Len(c))) = SubSeq(c, j + 1, Len(c))
         /\ SubSeq(c, j, Len(c)) # <<>>
<1>1. Len(c) \in Nat /\ c[j] \in Events /\ j - 1 \in 0 .. Len(c) /\ 1 \in 1 .. Len(c) /\ j \in 1 .. Len(c) /\ Len(c) \in j .. Len(c)
  BY ElementOfSeq
<1>2. SubSeq(c, 1, j) = SubSeq(c, 1, j - 1) \o <<c[j]>>
  BY <1>1, SubSeqRecursiveSecond
<1>3. SubSeq(c, 1, j - 1) \in Seq(Events)
  BY <1>1, PrefixIs
<1> DEFINE a == SubSeq(c, 1, j - 1)
           x == c[j]
<1> HIDE DEF a, x
<1>4. p \o (a \o <<x>>) = (p \o a) \o <<x>> /\ p \o a \in Seq(Events)
  <2>1. <<x>> \in Seq(Events)
    BY <1>1 DEF x
  <2> QED
    BY <1>3, <2>1, ConcatAssociative, ConcatProperties DEF a
<1>5. (p \o a) \o <<x>> = Append(p \o a, x)
  BY <1>1, <1>4 DEF x
<1>6. Head(SubSeq(c, j, Len(c))) = c[j] /\ Tail(SubSeq(c, j, Len(c))) = SubSeq(c, j + 1, Len(c))
  BY <1>1, HeadTailOfSubSeq
<1>7. SubSeq(c, j, Len(c)) # <<>>
  <2>1. Len(SubSeq(c, j, Len(c))) = Len(c) - j + 1
    <3>1. \A i \in j .. Len(c) : c[i] \in Events
      BY <1>1, ElementOfSeq
    <3>2. j \in Int /\ Len(c) \in Int /\ j <= Len(c)
      BY <1>1
    <3> QED
      BY <3>1, <3>2, SubSeqProperties
  <2>2. Len(SubSeq(c, j, Len(c))) # 0
    BY <1>1, <2>1
  <2> QED
    BY <2>2, EmptySeq
<1> QED
  BY <1>1, <1>2, <1>4, <1>5, <1>6, <1>7 DEF a, x

LEMMA RepairSteps ==
  ASSUME NEW p \in Seq(Events), AllGood(p)
  PROVE  /\ Closers(p) \in Seq(Events) /\ Len(Closers(p)) \in Nat
         /\ \A j \in 0 .. Len(Closers(p)) : RepairedSoFar(p, j) /\ Repairing(p, j) \in Seq(Events)
<1> DEFINE C == Closers(p)
           N == Len(C)
           Bad == {j \in 0 .. N : ~RepairedSoFar(p, j)}
<1>0. Good(p) /\ OpenTail(p) \in Scans
  BY AllGoodHere DEF Good, GoodOver
<1>1. C \in Seq(Events)
  BY <1>0, ClosersShape
<1>2. N \in Nat
  BY <1>1
<1> HIDE DEF C, N
<1>3. \A j \in 0 .. N : Repairing(p, j) \in Seq(Events)
  <2>1. \A j \in 0 .. N : SubSeq(C, 1, j) \in Seq(Events)
    BY <1>1, PrefixIs DEF N
  <2> QED
    BY <2>1, ConcatProperties DEF Repairing, C
<1>4. RepairedSoFar(p, 0)
  <2>1. SubSeq(C, 1, 0) = <<>>
    BY SubSeqEmpty
  <2>2. Repairing(p, 0) = p
    BY <2>1, ConcatEmptySeq DEF Repairing, C
  <2>3. SubSeq(C, 0 + 1, N) = C
    <3>1. 0 + 1 = 1
      OBVIOUS
    <3> QED
      BY <1>1, <3>1, SubSeqFull DEF N
  <2> QED
    BY <2>2, <2>3 DEF RepairedSoFar, Accounted, C, N
<1>5. Bad = {}
  <2> SUFFICES ASSUME Bad # {} PROVE FALSE
    OBVIOUS
  <2>1. Bad \subseteq Nat
    BY <1>2
  <2>2. PICK j \in Bad : \A k \in Bad : j <= k
    <3> HIDE DEF Bad
    <3> QED
      BY <2>1, LeastOf
  <2>3. j \in 1 .. N /\ ~RepairedSoFar(p, j) /\ j - 1 \in 0 .. N /\ ~(j <= j - 1)
    BY <1>2, <1>4, <2>2
  <2>4. RepairedSoFar(p, j - 1)
    BY <2>2, <2>3
  <2> DEFINE r == Repairing(p, j - 1)
             q == Repairing(p, j)
  <2>5. /\ q = Append(r, C[j]) /\ r \in Seq(Events) /\ C[j] \in Events
        /\ Head(SubSeq(C, j, N)) = C[j] /\ Tail(SubSeq(C, j, N)) = SubSeq(C, j + 1, N) /\ SubSeq(C, j, N) # <<>>
    BY <1>1, <2>3, NextRepairing DEF Repairing, C, N
  <2>6. /\ AllGood(r) /\ Closers(r) = SubSeq(C, j, N)
        /\ \A i \in DOMAIN p : InOpenStep(p, i) => Accounted(r, i) /\ r[i] = p[i] /\ i \in DOMAIN r
    <3>1. (j - 1) + 1 = j
      BY <2>3
    <3> QED
      BY <2>4, <3>1 DEF RepairedSoFar, C, N
  <2> HIDE DEF r, q, Bad
  <2>7. Good(r)
    BY <2>5, <2>6, AllGoodHere
  <2>8. Closes(r, q)
    BY <2>5, <2>6, <2>7, CloseOne
  <2>9. Good(q) /\ Closers(q) = SubSeq(C, j + 1, N) /\ \A i \in DOMAIN r : Accounted(r, i) => Accounted(q, i)
    BY <2>5, <2>6, <2>8 DEF Closes
  <2>10. AllGood(q)
    BY <2>5, <2>6, <2>9, AllGoodAppend
  <2>11. \A i \in DOMAIN r : q[i] = r[i] /\ i \in DOMAIN q
    <3>1. /\ DOMAIN r = 1 .. Len(r) /\ DOMAIN q = 1 .. (Len(r) + 1) /\ Len(r) \in Nat
          /\ \A i \in 1 .. Len(r) : q[i] = r[i]
      BY <2>5, AppendIs
    <3> QED
      BY <3>1
  <2>12. RepairedSoFar(p, j)
    BY <2>6, <2>9, <2>10, <2>11 DEF RepairedSoFar, q, C, N
  <2> QED
    BY <2>3, <2>12
<1>6. \A j \in 0 .. N : RepairedSoFar(p, j)
  BY <1>5
<1> QED
  BY <1>1, <1>2, <1>3, <1>6 DEF C, N

\* Where every closer is written the repair is done.
LEMMA RepairDone ==
  ASSUME NEW p \in Seq(Events), AllGood(p)
  PROVE  /\ Repaired(p) \in Seq(Events) /\ AllGood(Repaired(p)) /\ Closers(Repaired(p)) = <<>>
         /\ \A i \in DOMAIN p : InOpenStep(p, i) =>
              \A c \in Range(p[i].calls) : \E k \in i + 1 .. Len(Repaired(p)) : Answers(Repaired(p), i, c) = {k}
<1> DEFINE C == Closers(p)
           N == Len(C)
           q == Repaired(p)
<1>1. C \in Seq(Events) /\ N \in Nat /\ RepairedSoFar(p, N) /\ Repairing(p, N) \in Seq(Events)
  BY RepairSteps
<1>2. Repairing(p, N) = q
  <2>1. SubSeq(C, 1, N) = C
    BY <1>1, SubSeqFull
  <2> QED
    BY <2>1 DEF Repairing, Repaired
<1>3. SubSeq(C, N + 1, N) = <<>>
  BY <1>1, SubSeqEmpty
<1> HIDE DEF q
<1>4. /\ q \in Seq(Events) /\ AllGood(q) /\ Closers(q) = <<>>
      /\ \A i \in DOMAIN p : InOpenStep(p, i) => Accounted(q, i) /\ q[i] = p[i] /\ i \in DOMAIN q
  BY <1>1, <1>2, <1>3 DEF RepairedSoFar
<1>5. GoodOver(q, OpenTail(q), Trace(q))
  BY <1>4, AllGoodHere DEF Good
<1>6. OpenTail(q).step = 0
  <2>1. OpenTail(q) \in Scans
    BY <1>5 DEF GoodOver
  <2>2. OpenTail(q).turn = 0
    BY <1>4, <2>1, ClosersShape
  <2> QED
    BY <1>5, <2>2 DEF GoodOver, Agree
<1>7. \A i \in DOMAIN q : ~InOpenStep(q, i)
  BY <1>5, <1>6, NoneOpenOutside DEF GoodOver
<1>8. ASSUME NEW i \in DOMAIN p, InOpenStep(p, i), NEW c \in Range(p[i].calls)
      PROVE  \E k \in i + 1 .. Len(q) : Answers(q, i, c) = {k}
  BY <1>4, <1>7, <1>8 DEF Accounted
<1> QED
  BY <1>4, <1>8 DEF q

\* A repair cut short is taken up where it was.
LEMMA RepairTakenUp ==
  ASSUME NEW p \in Seq(Events), AllGood(p), NEW j \in 0 .. Len(Closers(p))
  PROVE  Repaired(Repairing(p, j)) = Repaired(p)
<1> DEFINE C == Closers(p)
           N == Len(C)
           a == SubSeq(C, 1, j)
           b == SubSeq(C, j + 1, N)
<1>1. C \in Seq(Events) /\ N \in Nat /\ Closers(Repairing(p, j)) = b
  BY RepairSteps DEF RepairedSoFar
<1>2. a \o b = C
  <2>1. 1 \in 1 .. N + 1 /\ j \in 1 - 1 .. N /\ N \in j .. N
    BY <1>1
  <2>2. a \o b = SubSeq(C, 1, N)
    <3> HIDE DEF C
    <3> QED
      BY <1>1, <2>1, ConcatAdjacentSubSeq
  <2> QED
    BY <1>1, <2>2, SubSeqFull
<1>3. a \in Seq(Events) /\ b \in Seq(Events)
  <2>1. \A i \in 1 .. N : C[i] \in Events
    BY <1>1, ElementOfSeq
  <2> HIDE DEF C, N
  <2>2. a \in Seq(Events)
    <3>1. \A i \in 1 .. j : C[i] \in Events
      BY <1>1, <2>1 DEF C, N
    <3>2. 1 \in Int /\ j \in Int
      BY <1>1
    <3> QED
      BY <3>1, <3>2, SubSeqProperties
  <2>3. b \in Seq(Events)
    <3>1. \A i \in j + 1 .. N : C[i] \in Events
      BY <1>1, <2>1
    <3>2. j + 1 \in Int /\ N \in Int
      BY <1>1
    <3> QED
      BY <3>1, <3>2, SubSeqProperties
  <2> QED
    BY <2>2, <2>3
<1>4. Repaired(Repairing(p, j)) = (p \o a) \o b
  BY <1>1 DEF Repaired, Repairing
<1> HIDE DEF a, b, C
<1>5. (p \o a) \o b = p \o (a \o b)
  BY <1>3, ConcatAssociative
<1> QED
  BY <1>2, <1>4, <1>5 DEF Repaired, C

-----------------------------------------------------------------------------
\* The steps.

\* What is acknowledged as stored, the bodies that ran and the requests survive a step that
\* keeps the durable events and makes no fewer of them durable.
LEMMA DurableKept ==
  ASSUME log \in Seq(Events), durable \in 0 .. Len(log), RanIsDurable, AskedIsDurable,
         log' \in Seq(Events), durable' \in durable .. Len(log'), \A k \in 1 .. durable : log'[k] = log[k],
         UNCHANGED history
  PROVE  RanIsDurable' /\ AskedIsDurable'
<1>1. ran' = ran /\ asked' = asked
  BY DEF history
<1>2. durable \in Nat /\ Len(log) \in Nat /\ Len(log') \in Nat /\ durable' \in Nat /\ durable <= durable' /\ durable <= Len(log')
  BY EmptySeq
<1>3. RanIsDurable'
  <2>1. 1 .. durable \subseteq 1 .. durable'
    BY <1>2
  <2> QED
    BY <1>1, <2>1 DEF RanIsDurable
<1>4. ASSUME NEW sent \in asked
      PROVE  sent \in Seq(Events) /\ Len(sent) <= durable' /\ sent = SubSeq(log', 1, Len(sent))
  <2>1. sent \in Seq(Events) /\ Len(sent) <= durable /\ sent = SubSeq(log, 1, Len(sent)) /\ Len(sent) \in Nat
    BY <1>4 DEF AskedIsDurable
  <2> DEFINE n == Len(sent)
  <2>2. n \in 0 .. Len(log) /\ n \in 0 .. Len(log') /\ 1 .. n \subseteq 1 .. durable /\ n <= durable'
    BY <1>2, <2>1
  <2> HIDE DEF n
  <2>3. SubSeq(log, 1, n) \in Seq(Events) /\ Len(SubSeq(log, 1, n)) = n /\ \A k \in 1 .. n : SubSeq(log, 1, n)[k] = log[k]
    BY <2>2, PrefixIs
  <2>4. SubSeq(log', 1, n) \in Seq(Events) /\ Len(SubSeq(log', 1, n)) = n /\ \A k \in 1 .. n : SubSeq(log', 1, n)[k] = log'[k]
    BY <2>2, PrefixIs
  <2>5. \A k \in 1 .. n : SubSeq(log, 1, n)[k] = SubSeq(log', 1, n)[k]
    BY <2>2, <2>3, <2>4
  <2>6. SubSeq(log, 1, n) = SubSeq(log', 1, n)
    BY <2>3, <2>4, <2>5, SeqEqual
  <2> QED
    BY <2>1, <2>2, <2>6 DEF n
<1>5. AskedIsDurable'
  BY <1>1, <1>4 DEF AskedIsDurable
<1> QED
  BY <1>3, <1>5

\* The log after a step that appends e.
Appended(e) ==
  /\ log' = Append(log, e) /\ log' \in Seq(Events) /\ Len(log') = Len(log) + 1
  /\ durable' \in 0 .. Len(log')
  /\ LogGood' /\ RanIsDurable' /\ AskedIsDurable'
  /\ OpenTail(log)' = Scan(OpenTail(log), e)
  /\ Trace(log)' = Validate(Trace(log), e)
  /\ \A k \in DOMAIN log' : (k \in DOMAIN log /\ log'[k] = log[k]) \/ (k = Len(log) + 1 /\ log'[k] = e)

LEMMA AppendStep ==
  ASSUME RecoveryInvariant, NEW e \in Events, Appends(e), durable' = durable, UNCHANGED history,
         GoodOver(Append(log, e), Scan(OpenTail(log), e), Validate(Trace(log), e)),
         NeverDenied(Append(log, e))
  PROVE  Appended(e)
<1>1. /\ log \in Seq(Events) /\ durable \in 0 .. Len(log) /\ AllGood(log) /\ RanIsDurable /\ AskedIsDurable
  BY DEF RecoveryInvariant, TypeOK, LogGood
<1>2. /\ Append(log, e) \in Seq(Events) /\ Len(Append(log, e)) = Len(log) + 1 /\ Len(log) \in Nat
      /\ \A k \in 1 .. Len(log) : Append(log, e)[k] = log[k]
  BY <1>1, AppendIs
<1>3. log' = Append(log, e)
  BY DEF Appends
<1>4. OpenTail(log') = Scan(OpenTail(log), e) /\ Trace(log') = Validate(Trace(log), e)
  BY <1>1, <1>3, OpenTailAppend, TraceAppend
<1>5. Good(Append(log, e))
  BY <1>3, <1>4 DEF Good
<1>6. AllGood(log')
  BY <1>1, <1>3, <1>5, AllGoodAppend
<1>7. \A k \in DOMAIN log' : (k \in DOMAIN log /\ log'[k] = log[k]) \/ (k = Len(log) + 1 /\ log'[k] = e)
  BY <1>1, <1>3, AppendCases
<1>8. /\ log' \in Seq(Events) /\ Len(log') = Len(log) + 1 /\ durable' \in 0 .. Len(log')
      /\ durable' \in durable .. Len(log') /\ \A k \in 1 .. durable : log'[k] = log[k]
  BY <1>1, <1>2, <1>3
<1>9. RanIsDurable' /\ AskedIsDurable'
  BY <1>1, <1>8, DurableKept
<1> QED
  BY <1>3, <1>4, <1>6, <1>7, <1>8, <1>9 DEF Appended, LogGood

LEMMA StillDeniedBefore ==
  ASSUME NEW p, NEW q, NEW e, NEW t \in Traces, NEW t1 \in Traces, p \in Seq(Events),
         DeniedBefore(p, t), ~NotStarted(e), t.nextTurn <= t1.nextTurn,
         \A k \in DOMAIN q : (k \in DOMAIN p /\ q[k] = p[k]) \/ q[k] = e
  PROVE  DeniedBefore(q, t1)
<1>1. t.nextTurn \in Nat /\ t1.nextTurn \in Nat
  BY DEF Traces
<1>2. \A k \in DOMAIN p : p[k].turn \in Nat
  BY DEF Events
<1> QED
  BY <1>1, <1>2 DEF DeniedBefore

\* What holds before a step of the running agent.
LEMMA Before ==
  ASSUME RecoveryInvariant
  PROVE  /\ log \in Seq(Events) /\ turn \in Nat /\ step \in Nat /\ plan \in Seq(Calls)
         /\ GoodOver(log, OpenTail(log), Trace(log)) /\ NeverDenied(log)
         /\ Fields(log, OpenTail(log), Trace(log))
         /\ up => DeniedBefore(log, Trace(log)) /\ AgentAt(OpenTail(log), Trace(log))
         /\ PlanShape
<1>1. log \in Seq(Events) /\ turn \in Nat /\ step \in Nat /\ plan \in Seq(Calls) /\ AllGood(log)
  BY DEF RecoveryInvariant, TypeOK, LogGood
<1>2. GoodOver(log, OpenTail(log), Trace(log)) /\ NeverDenied(log)
  BY <1>1, AllGoodHere DEF Good
<1>3. Fields(log, OpenTail(log), Trace(log))
  BY <1>1, <1>2, GoodFields
<1> QED
  BY <1>1, <1>2, <1>3 DEF RecoveryInvariant, AgentFollows

LEMMA BeginTurnStep ==
  ASSUME RecoveryInvariant, BeginTurn
  PROVE  RecoveryInvariant'
<1> DEFINE s == OpenTail(log)
           t == Trace(log)
<1>0. /\ up /\ pc = "idle" /\ turn' = turn + 1 /\ step' = 0 /\ Appends(TurnStart(turn + 1)) /\ pc' = "turn"
      /\ UNCHANGED <<durable, up, plan, tool, crashes, history>>
  BY DEF BeginTurn, Running
<1>1. /\ log \in Seq(Events) /\ turn \in Nat /\ step \in Nat /\ plan \in Seq(Calls)
      /\ GoodOver(log, s, t) /\ NeverDenied(log) /\ Fields(log, s, t)
      /\ DeniedBefore(log, t) /\ AgentAt(s, t) /\ PlanShape
  BY <1>0, Before
<1>2. s.turn = 0 /\ t.nextTurn = turn + 1
  BY <1>0, <1>1 DEF AgentAt
<1> DEFINE e == TurnStart(t.nextTurn)
<1>3. /\ e \in Events /\ e.type = "turn/start" /\ GoodOver(Append(log, e), Scan(s, e), Validate(t, e))
      /\ Scan(s, e) = [turn |-> t.nextTurn, step |-> 0, pendingCalls |-> <<>>, seq |-> Len(log) + 1]
      /\ Validate(t, e) =
           [ok |-> TRUE, turn |-> t.nextTurn, step |-> 0, nextTurn |-> t.nextTurn, nextStep |-> 1, pendingCalls |-> {}]
  BY <1>1, <1>2, TurnStartIsGood
<1>4. NeverDenied(Append(log, e))
  BY <1>1, <1>3, SilentOnDenial
<1>5. Appended(e)
  <2>1. Appends(e)
    BY <1>0, <1>2
  <2> HIDE DEF e
  <2> QED
    BY <1>0, <1>3, <1>4, <2>1, AppendStep
<1>6. DeniedBefore(log, Trace(log))'
  <2>1. ~NotStarted(e)
    BY <1>3 DEF NotStarted
  <2>2. t \in Traces /\ Trace(log)' \in Traces /\ t.nextTurn <= Trace(log)'.nextTurn
    BY <1>1, <1>3, <1>5 DEF Appended, GoodOver, Fields
  <2> HIDE DEF e, t
  <2> QED
    BY <1>1, <1>5, <2>1, <2>2, StillDeniedBefore DEF Appended
<1>7. AgentAt(OpenTail(log), Trace(log))'
  BY <1>0, <1>1, <1>2, <1>3, <1>5 DEF AgentAt, Appended
<1>8. PlanShape'
  BY <1>0, <1>1 DEF PlanShape
<1>9. TypeOK'
  BY <1>0, <1>1, <1>5 DEF RecoveryInvariant, TypeOK, Appended
<1> QED
  BY <1>5, <1>6, <1>7, <1>8, <1>9 DEF RecoveryInvariant, AgentFollows, Appended

LEMMA BeginStepStep ==
  ASSUME RecoveryInvariant, BeginStep
  PROVE  RecoveryInvariant'
<1> DEFINE s == OpenTail(log)
           t == Trace(log)
<1>0. /\ up /\ pc = "turn" /\ step' = step + 1 /\ Appends(StepStart(turn, step + 1)) /\ pc' = "step"
      /\ UNCHANGED <<durable, up, turn, plan, tool, crashes, history>>
  BY DEF BeginStep, Running
<1>1. /\ log \in Seq(Events) /\ turn \in Nat /\ step \in Nat /\ plan \in Seq(Calls)
      /\ GoodOver(log, s, t) /\ NeverDenied(log) /\ Fields(log, s, t)
      /\ DeniedBefore(log, t) /\ AgentAt(s, t) /\ PlanShape
  BY <1>0, Before
<1>2. s.turn = turn /\ turn # 0 /\ s.step = 0 /\ t.nextStep = step + 1 /\ s.turn = t.nextTurn
  BY <1>0, <1>1 DEF AgentAt, Fields
<1> DEFINE e == StepStart(s.turn, t.nextStep)
<1>3. /\ e \in Events /\ e.type = "step/start" /\ GoodOver(Append(log, e), Scan(s, e), Validate(t, e))
      /\ Scan(s, e) = [turn |-> s.turn, step |-> t.nextStep, pendingCalls |-> <<>>, seq |-> Len(log) + 1]
      /\ Validate(t, e) =
           [ok |-> TRUE, turn |-> s.turn, step |-> t.nextStep, nextTurn |-> t.nextTurn, nextStep |-> t.nextStep, pendingCalls |-> {}]
  BY <1>1, <1>2, StepStartIsGood
<1>4. NeverDenied(Append(log, e))
  BY <1>1, <1>3, SilentOnDenial
<1>5. Appended(e)
  <2>1. Appends(e)
    BY <1>0, <1>2
  <2> HIDE DEF e
  <2> QED
    BY <1>0, <1>3, <1>4, <2>1, AppendStep
<1>6. DeniedBefore(log, Trace(log))'
  <2>1. ~NotStarted(e)
    BY <1>3 DEF NotStarted
  <2>2. t \in Traces /\ Trace(log)' \in Traces /\ t.nextTurn <= Trace(log)'.nextTurn
    BY <1>1, <1>3, <1>5 DEF Appended, GoodOver, Fields
  <2> HIDE DEF e, t
  <2> QED
    BY <1>1, <1>5, <2>1, <2>2, StillDeniedBefore DEF Appended
<1>10. /\ \A k \in DOMAIN log' : log'[k].type = "tool/call" => ~(log'[k].turn = s.turn /\ log'[k].step = t.nextStep)
       /\ \A i \in DOMAIN log' : ~InOpenStep(log', i)
  <2>1. \A k \in DOMAIN log : log[k].type = "tool/call" => ~(log[k].turn = s.turn /\ log[k].step = t.nextStep)
    <3>1. \A k \in DOMAIN log : log[k].type = "tool/call" /\ log[k].turn = t.nextTurn => log[k].step < t.nextStep
      BY <1>1, <1>2 DEF GoodOver, Numbered
    <3>2. t.nextStep \in Nat
      BY <1>1 DEF Fields
    <3> QED
      BY <1>2, <3>1, <3>2
  <2>2. \A i \in DOMAIN log : ~InOpenStep(log, i)
    BY <1>1, <1>2, NoneOpenOutside DEF GoodOver
  <2>3. \A i \in DOMAIN Append(log, e) : ~InOpenStep(Append(log, e), i)
    <3> HIDE DEF e
    <3> QED
      BY <1>1, <1>3, <2>2, NoneOpenAppend
  <2> HIDE DEF e
  <2> QED
    BY <1>3, <1>5, <2>1, <2>3 DEF Appended
<1>7. AgentAt(OpenTail(log), Trace(log))'
  <2>1. StepUntouched(log, OpenTail(log))'
    BY <1>3, <1>5, <1>10 DEF StepUntouched, Appended
  <2>2. /\ OpenTail(log)'.turn = turn /\ OpenTail(log)'.step = step + 1 /\ OpenTail(log)'.pendingCalls = <<>>
        /\ step + 1 # 0
    BY <1>1, <1>2, <1>3, <1>5 DEF Appended
  <2> QED
    BY <1>0, <1>1, <1>2, <2>1, <2>2 DEF AgentAt
<1>8. PlanShape'
  BY <1>0, <1>1 DEF PlanShape
<1>9. TypeOK'
  BY <1>0, <1>1, <1>5 DEF RecoveryInvariant, TypeOK, Appended
<1> QED
  BY <1>5, <1>6, <1>7, <1>8, <1>9 DEF RecoveryInvariant, AgentFollows, Appended

LEMMA EndTurnStep ==
  ASSUME RecoveryInvariant, EndTurn
  PROVE  RecoveryInvariant'
<1> DEFINE s == OpenTail(log)
           t == Trace(log)
<1>0. /\ up /\ pc = "turn" /\ Appends(TurnEnd(turn)) /\ pc' = "idle"
      /\ UNCHANGED <<durable, up, turn, step, plan, tool, crashes, history>>
  BY DEF EndTurn, Running
<1>1. /\ log \in Seq(Events) /\ turn \in Nat /\ step \in Nat /\ plan \in Seq(Calls)
      /\ GoodOver(log, s, t) /\ NeverDenied(log) /\ Fields(log, s, t)
      /\ DeniedBefore(log, t) /\ AgentAt(s, t) /\ PlanShape
  BY <1>0, Before
<1>2. s.turn = turn /\ turn # 0 /\ s.step = 0 /\ s.turn = t.nextTurn
  BY <1>0, <1>1 DEF AgentAt, Fields
<1> DEFINE e == TurnEnd(s.turn)
<1>3. /\ e \in Events /\ e.type = "turn/end" /\ GoodOver(Append(log, e), Scan(s, e), Validate(t, e))
      /\ Scan(s, e) = [turn |-> 0, step |-> 0, pendingCalls |-> <<>>, seq |-> Len(log) + 1]
      /\ Validate(t, e) =
           [ok |-> TRUE, turn |-> 0, step |-> 0, nextTurn |-> t.nextTurn + 1, nextStep |-> t.nextStep, pendingCalls |-> {}]
  BY <1>1, <1>2, TurnEndIsGood
<1>4. NeverDenied(Append(log, e))
  BY <1>1, <1>3, SilentOnDenial
<1>5. Appended(e)
  <2>1. Appends(e)
    BY <1>0, <1>2
  <2> HIDE DEF e
  <2> QED
    BY <1>0, <1>3, <1>4, <2>1, AppendStep
<1>6. DeniedBefore(log, Trace(log))'
  <2>1. ~NotStarted(e)
    BY <1>3 DEF NotStarted
  <2>2. t \in Traces /\ Trace(log)' \in Traces /\ t.nextTurn <= Trace(log)'.nextTurn
    BY <1>1, <1>3, <1>5 DEF Appended, GoodOver, Fields
  <2> HIDE DEF e, t
  <2> QED
    BY <1>1, <1>5, <2>1, <2>2, StillDeniedBefore DEF Appended
<1>7. AgentAt(OpenTail(log), Trace(log))'
  BY <1>0, <1>1, <1>2, <1>3, <1>5 DEF AgentAt, Appended
<1>8. PlanShape'
  BY <1>0, <1>1 DEF PlanShape
<1>9. TypeOK'
  BY <1>0, <1>1, <1>5 DEF RecoveryInvariant, TypeOK, Appended
<1> QED
  BY <1>5, <1>6, <1>7, <1>8, <1>9 DEF RecoveryInvariant, AgentFollows, Appended

LEMMA EndStepStep ==
  ASSUME RecoveryInvariant, EndStep
  PROVE  RecoveryInvariant'
<1> DEFINE s == OpenTail(log)
           t == Trace(log)
<1>0. /\ up /\ pc \in {"step", "asked", "tools"} /\ Appends(StepEnd(turn, step)) /\ pc' = "turn" /\ NoPlan
      /\ UNCHANGED <<durable, up, turn, step, crashes, history>>
  BY DEF EndStep
<1>1. /\ log \in Seq(Events) /\ turn \in Nat /\ step \in Nat /\ plan \in Seq(Calls)
      /\ GoodOver(log, s, t) /\ NeverDenied(log) /\ Fields(log, s, t)
      /\ DeniedBefore(log, t) /\ AgentAt(s, t) /\ PlanShape
  BY <1>0, Before
<1>2. s.turn = turn /\ turn # 0 /\ s.step = step /\ step # 0 /\ s.step = t.nextStep
  BY <1>0, <1>1 DEF AgentAt, Fields
<1> DEFINE e == StepEnd(s.turn, s.step)
<1>3. /\ e \in Events /\ e.type = "step/end" /\ GoodOver(Append(log, e), Scan(s, e), Validate(t, e))
      /\ Scan(s, e) = [turn |-> s.turn, step |-> 0, pendingCalls |-> <<>>, seq |-> Len(log) + 1]
      /\ Validate(t, e) =
           [ok |-> TRUE, turn |-> s.turn, step |-> 0, nextTurn |-> t.nextTurn, nextStep |-> t.nextStep + 1, pendingCalls |-> {}]
  BY <1>1, <1>2, StepEndIsGood
<1>4. NeverDenied(Append(log, e))
  BY <1>1, <1>3, SilentOnDenial
<1>5. Appended(e)
  <2>1. Appends(e)
    BY <1>0, <1>2
  <2> HIDE DEF e
  <2> QED
    BY <1>0, <1>3, <1>4, <2>1, AppendStep
<1>6. DeniedBefore(log, Trace(log))'
  <2>1. ~NotStarted(e)
    BY <1>3 DEF NotStarted
  <2>2. t \in Traces /\ Trace(log)' \in Traces /\ t.nextTurn <= Trace(log)'.nextTurn
    BY <1>1, <1>3, <1>5 DEF Appended, GoodOver, Fields
  <2> HIDE DEF e, t
  <2> QED
    BY <1>1, <1>5, <2>1, <2>2, StillDeniedBefore DEF Appended
<1>7. AgentAt(OpenTail(log), Trace(log))'
  BY <1>0, <1>1, <1>2, <1>3, <1>5 DEF AgentAt, Appended
<1>8. PlanShape'
  BY <1>0, <1>1 DEF PlanShape, NoPlan
<1>9. TypeOK'
  <2>1. plan' \in Seq(Calls)
    BY <1>0 DEF NoPlan
  <2>2. tool' \in [Calls -> {"none", "planned", "started", "settled", "answered"}]
    BY <1>0 DEF NoPlan
  <2> QED
    BY <1>0, <1>1, <1>5, <2>1, <2>2 DEF RecoveryInvariant, TypeOK, Appended
<1> QED
  BY <1>5, <1>6, <1>7, <1>8, <1>9 DEF RecoveryInvariant, AgentFollows, Appended

LEMMA RespondStep ==
  ASSUME RecoveryInvariant, NEW cs \in Plans, Respond(cs)
  PROVE  RecoveryInvariant'
<1> DEFINE s == OpenTail(log)
           t == Trace(log)
           pend == [i \in DOMAIN cs |-> [call |-> cs[i], step |-> s.step, callSeq |-> 0]]
<1>10. cs \in Seq(Calls) /\ DOMAIN cs = 1 .. Len(cs) /\ \A i, j \in DOMAIN cs : cs[i] = cs[j] => i = j
  <2>1. cs \in Seq(Calls)
    <3>1. Cardinality(Calls) \in Nat
      BY CallsFinite, FS_CardinalityType
    <3>2. PICK m \in 0 .. Cardinality(Calls) : cs \in [1 .. m -> Calls]
      BY DEF Plans, BoundedSeq, SeqOf
    <3> QED
      BY <3>1, <3>2, SeqDef
  <2> QED
    BY <2>1 DEF Plans, IsInjective
<1>0. /\ up /\ pc = "asked" /\ Appends(AssistantMessage(turn, step, cs)) /\ plan' = cs /\ pc' = "tools"
      /\ tool' = [c \in Calls |-> IF c \in Range(cs) THEN "planned" ELSE "none"]
      /\ UNCHANGED <<durable, up, turn, step, crashes, history>>
  BY DEF Respond, Running
<1>1. /\ log \in Seq(Events) /\ turn \in Nat /\ step \in Nat /\ plan \in Seq(Calls)
      /\ GoodOver(log, s, t) /\ NeverDenied(log) /\ Fields(log, s, t)
      /\ DeniedBefore(log, t) /\ AgentAt(s, t) /\ PlanShape
  BY <1>0, Before
<1>2. s.turn = turn /\ turn # 0 /\ s.step = step /\ step # 0 /\ s.pendingCalls = <<>> /\ StepUntouched(log, s)
  BY <1>0, <1>1 DEF AgentAt
<1>11. MessageFollows(log, s, t, cs)
  BY <1>1, <1>2, <1>10, AssistantMessageIsGood
<1> DEFINE e == AssistantMessage(s.turn, s.step, cs)
<1>3. /\ e \in Events /\ e.type = "assistant/message" /\ GoodOver(Append(log, e), Scan(s, e), Validate(t, e))
      /\ Scan(s, e) = [turn |-> s.turn, step |-> s.step, seq |-> Len(log) + 1, pendingCalls |-> pend]
      /\ Validate(t, e) =
           [ok |-> TRUE, turn |-> s.turn, step |-> s.step, nextTurn |-> t.nextTurn, nextStep |-> t.nextStep, pendingCalls |-> {}]
  BY <1>11 DEF MessageFollows
<1>4. NeverDenied(Append(log, e))
  BY <1>1, <1>3, SilentOnDenial
<1>5. Appended(e)
  <2>1. Appends(e)
    BY <1>0, <1>2
  <2> HIDE DEF e
  <2> QED
    BY <1>0, <1>3, <1>4, <2>1, AppendStep
<1>6. DeniedBefore(log, Trace(log))'
  <2>1. ~NotStarted(e)
    BY <1>3 DEF NotStarted
  <2>2. t \in Traces /\ Trace(log)' \in Traces /\ t.nextTurn <= Trace(log)'.nextTurn
    BY <1>1, <1>3, <1>5 DEF Appended, GoodOver, Fields
  <2> HIDE DEF e, t
  <2> QED
    BY <1>1, <1>5, <2>1, <2>2, StillDeniedBefore DEF Appended
<1>7. AgentAt(OpenTail(log), Trace(log))'
  <2>1. OpenTail(log)'.turn = turn /\ OpenTail(log)'.step = step /\ OpenTail(log)'.pendingCalls = pend
    BY <1>2, <1>3, <1>5 DEF Appended
  <2>2. PlanFollows(OpenTail(log))'
    <3>1. Len(pend) = Len(cs) /\ Len(cs) \in Nat /\ DOMAIN pend = DOMAIN cs /\ \A i \in DOMAIN cs : pend[i].call = cs[i] /\ pend[i].callSeq = 0
      BY <1>10
    <3>2. \A i \in DOMAIN cs : tool'[cs[i]] = "planned"
      BY <1>0, <1>10 DEF Range
    <3> HIDE DEF pend
    <3>3. /\ Len(plan') - Len(pend) = 0 /\ plan' = cs /\ \A i \in DOMAIN cs : 0 + i = i
      BY <1>0, <1>10, <3>1
    <3> QED
      BY <2>1, <3>1, <3>2, <3>3 DEF PlanFollows, PlanMatches
  <2> QED
    BY <1>0, <1>2, <2>1, <2>2 DEF AgentAt
<1>8. PlanShape'
  <2>1. \A c \in Calls : tool'[c] # "none" => \E i \in DOMAIN cs : cs[i] = c
    BY <1>0 DEF Range
  <2> QED
    BY <1>0, <1>10, <2>1 DEF PlanShape
<1>9. TypeOK'
  <2>1. tool' \in [Calls -> {"none", "planned", "started", "settled", "answered"}]
    BY <1>0
  <2> QED
    BY <1>0, <1>1, <1>5, <1>10, <2>1 DEF RecoveryInvariant, TypeOK, Appended
<1> QED
  BY <1>5, <1>6, <1>7, <1>8, <1>9 DEF RecoveryInvariant, AgentFollows, Appended

\* A call of the plan is answered, or it is pending and the scan and its stage agree.
StageAgrees(calls, stage, pending, k, i) ==
  \/ i <= k /\ stage[calls[i]] = "answered"
  \/ /\ i > k /\ i - k \in DOMAIN pending /\ pending[i - k].call = calls[i]
     /\ \/ pending[i - k].callSeq = 0 /\ stage[calls[i]] = "planned"
        \/ pending[i - k].callSeq # 0 /\ stage[calls[i]] \in {"started", "settled"}

LEMMA PlanCases ==
  ASSUME NEW calls \in Seq(Calls), NEW stage, NEW pending \in Seq(Entries), NEW k \in Nat,
         k = Len(calls) - Len(pending)
  PROVE  PlanMatches(calls, stage, pending, k) <=> \A i \in DOMAIN calls : StageAgrees(calls, stage, pending, k, i)
<1> DEFINE n == Len(calls)
           m == Len(pending)
<1>1. n \in Nat /\ m \in Nat /\ DOMAIN calls = 1 .. n /\ DOMAIN pending = 1 .. m /\ k = n - m
  OBVIOUS
<1> HIDE DEF n, m
<1>2. \A i \in DOMAIN calls : (i \in 1 .. k /\ i <= k) \/ (i > k /\ i - k \in DOMAIN pending /\ k + (i - k) = i)
  BY <1>1
<1>3. \A i \in 1 .. k : i \in DOMAIN calls /\ ~(i > k)
  BY <1>1
<1>4. \A i \in DOMAIN pending : k + i \in DOMAIN calls /\ ~(k + i <= k) /\ (k + i) - k = i
  BY <1>1
<1>5. ASSUME PlanMatches(calls, stage, pending, k), NEW i \in DOMAIN calls
      PROVE  StageAgrees(calls, stage, pending, k, i)
  BY <1>2, <1>5 DEF PlanMatches, StageAgrees
<1>6. ASSUME \A i \in DOMAIN calls : StageAgrees(calls, stage, pending, k, i)
      PROVE  PlanMatches(calls, stage, pending, k)
  BY <1>3, <1>4, <1>6 DEF PlanMatches, StageAgrees
<1> QED
  BY <1>5, <1>6

LEMMA SameLength ==
  ASSUME NEW a \in Nat, NEW b \in Nat, 1 .. a = 1 .. b
  PROVE  a = b
<1>1. (a # 0 => a \in 1 .. b) /\ (b # 0 => b \in 1 .. a)
  <2>1. (a # 0 => a \in 1 .. a) /\ (b # 0 => b \in 1 .. b)
    OBVIOUS
  <2> QED
    BY <2>1
<1> QED
  BY <1>1

\* A started call is pending, and CallSeq is the seq its entry cites.
LEMMA CallSeqIs ==
  ASSUME NEW s, s \in Scans, log \in Seq(Events), Cites(log, s), NEW i \in DOMAIN s.pendingCalls,
         s.pendingCalls[i].callSeq # 0
  PROVE  LET c == s.pendingCalls[i].call
         IN CallSeq(c) = s.pendingCalls[i].callSeq /\ CallSeq(c) \in DOMAIN log /\ log[CallSeq(c)] = ToolCall(s.turn, s.step, c)
<1> DEFINE c == s.pendingCalls[i].call
           m == s.pendingCalls[i].callSeq
           I == {k \in 1 .. Len(log) : log[k].type = "tool/call" /\ log[k].call = c}
<1>1. /\ m \in DOMAIN log /\ log[m] = ToolCall(s.turn, s.step, c)
      /\ \A k \in DOMAIN log : k > m => ~(log[k].type = "tool/call" /\ log[k].call = c)
  BY DEF Cites
<1>2. DOMAIN log = 1 .. Len(log) /\ Len(log) \in Nat
  OBVIOUS
<1>3. ToolCall(s.turn, s.step, c).type = "tool/call" /\ ToolCall(s.turn, s.step, c).call = c
  BY DEF ToolCall
<1>4. CallSeq(c) = IF I # {} THEN Max(I) ELSE 0
  BY DEF CallSeq, SelectLastInSeq
<1> HIDE DEF c, m
<1>5. m \in I /\ \A k \in I : m >= k
  BY <1>1, <1>2, <1>3
<1>6. \A n \in I : (\A k \in I : n >= k) => n = m
  BY <1>2, <1>5
<1>7. Max(I) = m
  <2> HIDE DEF I
  <2> QED
    BY <1>5, <1>6 DEF Max
<1>8. CallSeq(c) = m
  BY <1>4, <1>5, <1>7
<1> QED
  BY <1>1, <1>8 DEF c, m

LEMMA StartCallStep ==
  ASSUME RecoveryInvariant, StartCall
  PROVE  RecoveryInvariant'
<1> DEFINE s == OpenTail(log)
           t == Trace(log)
<1>14. PICK i \in DOMAIN plan : tool[plan[i]] = "planned" /\ Appends(ToolCall(turn, step, plan[i])) /\ tool' = [tool EXCEPT ![plan[i]] = "started"]
  BY DEF StartCall, IsNext
<1> DEFINE pend == [j \in DOMAIN s.pendingCalls |->
                      IF s.pendingCalls[j].call = plan[i] THEN [s.pendingCalls[j] EXCEPT !.callSeq = Len(log) + 1]
                                                          ELSE s.pendingCalls[j]]
<1>0. /\ up /\ pc = "tools" /\ Appends(ToolCall(turn, step, plan[i])) /\ tool' = [tool EXCEPT ![plan[i]] = "started"]
      /\ UNCHANGED <<durable, up, pc, turn, step, plan, crashes, history>>
  BY <1>14 DEF StartCall, Running
<1>1. /\ log \in Seq(Events) /\ turn \in Nat /\ step \in Nat /\ plan \in Seq(Calls)
      /\ GoodOver(log, s, t) /\ NeverDenied(log) /\ Fields(log, s, t)
      /\ DeniedBefore(log, t) /\ AgentAt(s, t) /\ PlanShape
  BY <1>0, Before
<1>10. /\ tool \in [Calls -> {"none", "planned", "started", "settled", "answered"}] /\ plan[i] \in Calls
       /\ DOMAIN plan = 1 .. Len(plan)
  BY DEF RecoveryInvariant, TypeOK
<1>2. s.turn = turn /\ turn # 0 /\ s.step = step /\ step # 0 /\ PlanFollows(s) /\ s.turn = t.nextTurn
      /\ s.pendingCalls \in Seq(Entries) /\ OneEntryEach(s)
  BY <1>0, <1>1 DEF AgentAt, Fields, GoodOver, Agree
<1> DEFINE k == Len(plan) - Len(s.pendingCalls)
<1>12. k \in Nat /\ \A j \in DOMAIN plan : StageAgrees(plan, tool, s.pendingCalls, k, j)
  <2>1. k \in Nat /\ PlanMatches(plan, tool, s.pendingCalls, k) /\ k = Len(plan) - Len(s.pendingCalls)
    BY <1>2 DEF PlanFollows
  <2> HIDE DEF k
  <2> QED
    BY <1>1, <1>2, <2>1, PlanCases
<1>13. IsPending(s, plan[i])
  BY <1>12, <1>14 DEF IsPending, StageAgrees
<1>11. CallFollows(log, s, t, plan[i])
  BY <1>1, <1>2, <1>10, <1>13, ToolCallIsGood
<1> DEFINE e == ToolCall(s.turn, s.step, plan[i])
<1>3. /\ e \in Events /\ e.type = "tool/call" /\ GoodOver(Append(log, e), Scan(s, e), Validate(t, e))
      /\ Scan(s, e) = [turn |-> s.turn, step |-> s.step, seq |-> Len(log) + 1, pendingCalls |-> pend]
      /\ Validate(t, e) = [ok |-> TRUE, turn |-> s.turn, step |-> s.step, nextTurn |-> t.nextTurn, nextStep |-> t.nextStep,
                          pendingCalls |-> t.pendingCalls \cup {plan[i]}]
  BY <1>11 DEF CallFollows
<1>4. NeverDenied(Append(log, e))
  <2>1. \A j \in DOMAIN log : NotStarted(log[j]) => e # ToolCall(log[j].turn, log[j].step, log[j].call)
    <3>1. \A j \in DOMAIN log : NotStarted(log[j]) => log[j].turn < s.turn /\ log[j].turn \in Nat
      BY <1>1, <1>2 DEF DeniedBefore, Events
    <3>2. \A u, v, c : e = ToolCall(u, v, c) => u = s.turn
      BY DEF ToolCall
    <3>3. \A n \in Nat : n < s.turn => n # s.turn
      BY <1>1, <1>2
    <3> QED
      BY <3>1, <3>2, <3>3
  <2>2. ~NotStarted(e)
    BY <1>3 DEF NotStarted
  <2> HIDE DEF e
  <2> QED
    BY <1>1, <1>3, <2>1, <2>2, NeverDeniedAppend
<1>5. Appended(e)
  <2>1. Appends(e)
    BY <1>0, <1>2
  <2> HIDE DEF e
  <2> QED
    BY <1>0, <1>3, <1>4, <2>1, AppendStep
<1>6. DeniedBefore(log, Trace(log))'
  <2>1. ~NotStarted(e)
    BY <1>3 DEF NotStarted
  <2>2. t \in Traces /\ Trace(log)' \in Traces /\ t.nextTurn <= Trace(log)'.nextTurn
    BY <1>1, <1>3, <1>5 DEF Appended, GoodOver, Fields
  <2> HIDE DEF e, t
  <2> QED
    BY <1>1, <1>5, <2>1, <2>2, StillDeniedBefore DEF Appended
<1>7. AgentAt(OpenTail(log), Trace(log))'
  <2>1. OpenTail(log)'.turn = turn /\ OpenTail(log)'.step = step /\ OpenTail(log)'.pendingCalls = pend
    BY <1>2, <1>3, <1>5 DEF Appended
  <2>2. PlanFollows(OpenTail(log))'
    <3>1. /\ pend \in Seq(Entries)
      BY <1>3 DEF GoodOver, Scans
    <3>2. /\ DOMAIN pend = DOMAIN s.pendingCalls
          /\ \A j \in DOMAIN s.pendingCalls :
               /\ pend[j].call = s.pendingCalls[j].call
               /\ s.pendingCalls[j].call = plan[i] => pend[j].callSeq = Len(log) + 1
               /\ s.pendingCalls[j].call # plan[i] => pend[j].callSeq = s.pendingCalls[j].callSeq
      <4>1. \A j \in DOMAIN s.pendingCalls : s.pendingCalls[j] \in Entries
        BY <1>2
      <4> QED
        BY <4>1 DEF Entries
    <3> HIDE DEF pend
    <3>3. Len(pend) = Len(s.pendingCalls) /\ Len(plan) - Len(pend) = k /\ k \in Nat
      <4>1. Len(pend) \in Nat /\ DOMAIN pend = 1 .. Len(pend) /\ Len(s.pendingCalls) \in Nat
            /\ DOMAIN s.pendingCalls = 1 .. Len(s.pendingCalls)
        BY <1>2, <3>1
      <4>2. Len(pend) = Len(s.pendingCalls)
        BY <3>2, <4>1, SameLength
      <4> QED
        BY <1>12, <4>2
    <3>4. Len(log) + 1 # 0
      BY <1>1
    <3>5. ASSUME NEW j \in DOMAIN plan
          PROVE  StageAgrees(plan, tool', pend, k, j)
      <4> HIDE DEF k
      <4>1. plan[j] \in Calls
        BY <1>1
      <4>2. tool'[plan[j]] = IF plan[j] = plan[i] THEN "started" ELSE tool[plan[j]]
        BY <1>0, <1>10, <4>1
      <4>3. CASE plan[j] = plan[i]
        BY <1>12, <1>14, <3>2, <3>4, <4>2, <4>3 DEF StageAgrees
      <4>4. CASE plan[j] # plan[i]
        BY <1>12, <3>2, <4>2, <4>4 DEF StageAgrees
      <4> QED
        BY <4>3, <4>4
    <3>6. plan' = plan
      BY <1>0
    <3> HIDE DEF k
    <3>7. k \in Nat /\ k = Len(plan) - Len(pend)
      BY <3>3
    <3>8. PlanMatches(plan, tool', pend, k)
      BY <1>1, <3>1, <3>5, <3>7, PlanCases
    <3> QED
      BY <2>1, <3>6, <3>7, <3>8 DEF PlanFollows
  <2> QED
    BY <1>0, <1>2, <2>1, <2>2 DEF AgentAt
<1>8. PlanShape'
  <2>1. \A c \in Calls : tool'[c] # "none" => \E j \in DOMAIN plan : plan[j] = c
    BY <1>0, <1>1, <1>10 DEF PlanShape
  <2> QED
    BY <1>0, <1>1, <2>1 DEF PlanShape
<1>9. TypeOK'
  <2>1. tool' \in [Calls -> {"none", "planned", "started", "settled", "answered"}]
    BY <1>0, <1>10 DEF RecoveryInvariant, TypeOK
  <2> QED
    BY <1>0, <1>1, <1>5, <2>1 DEF RecoveryInvariant, TypeOK, Appended
<1> QED
  BY <1>5, <1>6, <1>7, <1>8, <1>9 DEF RecoveryInvariant, AgentFollows, Appended

LEMMA CommitResultStep ==
  ASSUME RecoveryInvariant, CommitResult
  PROVE  RecoveryInvariant'
<1> DEFINE s == OpenTail(log)
           t == Trace(log)
<1>14. PICK i \in DOMAIN plan :
         /\ \A j \in 1 .. i - 1 : tool[plan[j]] \notin {"planned", "started", "settled"}
         /\ tool[plan[i]] = "settled"
         /\ Appends(ToolResult(turn, step, plan[i], "none", CallSeq(plan[i])))
         /\ tool' = [tool EXCEPT ![plan[i]] = "answered"]
  BY DEF CommitResult, IsNext
<1> DEFINE pend == Tail(s.pendingCalls)
<1>0. /\ up /\ pc = "tools" /\ Appends(ToolResult(turn, step, plan[i], "none", CallSeq(plan[i])))
      /\ tool' = [tool EXCEPT ![plan[i]] = "answered"]
      /\ UNCHANGED <<durable, up, pc, turn, step, plan, crashes, history>>
  BY <1>14 DEF CommitResult, Running
<1>1. /\ log \in Seq(Events) /\ turn \in Nat /\ step \in Nat /\ plan \in Seq(Calls)
      /\ GoodOver(log, s, t) /\ NeverDenied(log) /\ Fields(log, s, t)
      /\ DeniedBefore(log, t) /\ AgentAt(s, t) /\ PlanShape
  BY <1>0, Before
<1>10. /\ tool \in [Calls -> {"none", "planned", "started", "settled", "answered"}] /\ plan[i] \in Calls
       /\ DOMAIN plan = 1 .. Len(plan) /\ Len(plan) \in Nat
  BY DEF RecoveryInvariant, TypeOK
<1>2. s.turn = turn /\ turn # 0 /\ s.step = step /\ step # 0 /\ PlanFollows(s) /\ s.turn = t.nextTurn
      /\ s \in Scans /\ s.pendingCalls \in Seq(Entries) /\ OneEntryEach(s)
  BY <1>0, <1>1 DEF AgentAt, Fields, GoodOver, Agree
<1> DEFINE k == Len(plan) - Len(s.pendingCalls)
<1>12. k \in Nat /\ \A j \in DOMAIN plan : StageAgrees(plan, tool, s.pendingCalls, k, j)
  <2>1. k \in Nat /\ PlanMatches(plan, tool, s.pendingCalls, k) /\ k = Len(plan) - Len(s.pendingCalls)
    BY <1>2 DEF PlanFollows
  <2> HIDE DEF k
  <2> QED
    BY <1>1, <1>2, <2>1, PlanCases
<1>13. /\ i = k + 1 /\ 1 \in DOMAIN s.pendingCalls /\ s.pendingCalls # <<>>
       /\ s.pendingCalls[1].call = plan[i] /\ s.pendingCalls[1].callSeq # 0
  <2> HIDE DEF k
  <2>1. /\ i > k /\ i - k \in DOMAIN s.pendingCalls /\ s.pendingCalls[i - k].call = plan[i]
        /\ s.pendingCalls[i - k].callSeq # 0
    BY <1>12, <1>14 DEF StageAgrees
  <2>2. CASE i > k + 1
    <3>1. k + 1 \in DOMAIN plan /\ k + 1 \in 1 .. i - 1 /\ ~(k + 1 <= k)
      BY <1>10, <1>12, <2>2
    <3>2. tool[plan[k + 1]] \in {"planned", "started", "settled"}
      BY <1>12, <3>1 DEF StageAgrees
    <3> QED
      BY <1>14, <3>1, <3>2
  <2>3. CASE ~(i > k + 1)
    <3>1. i = k + 1 /\ i - k = 1
      BY <1>10, <1>12, <2>1, <2>3
    <3>2. 1 \in DOMAIN s.pendingCalls
      BY <2>1, <3>1
    <3>3. s.pendingCalls # <<>>
      BY <3>2
    <3> QED
      BY <2>1, <3>1, <3>2, <3>3
  <2> QED
    BY <2>2, <2>3
<1>15. CallSeq(plan[i]) \in Nat
  <2>1. Cites(log, s)
    BY <1>1 DEF GoodOver
  <2>2. CallSeq(s.pendingCalls[1].call) \in DOMAIN log
    BY <1>1, <1>2, <1>13, <2>1, CallSeqIs
  <2>3. \A n \in DOMAIN log : n \in Nat
    BY <1>1
  <2> QED
    BY <1>13, <2>2, <2>3
<1>11. ResultFollows(log, s, t, "none", CallSeq(plan[i]))
  <2>1. "none" \in Codes
    BY DEF Codes
  <2> QED
    BY <1>1, <1>2, <1>13, <1>15, <2>1, ToolResultIsGood
<1> DEFINE e == ToolResult(s.turn, s.step, s.pendingCalls[1].call, "none", CallSeq(plan[i]))
<1>3. /\ e \in Events /\ e.type = "tool/result" /\ GoodOver(Append(log, e), Scan(s, e), Validate(t, e))
      /\ Scan(s, e) = [turn |-> s.turn, step |-> s.step, seq |-> Len(log) + 1, pendingCalls |-> pend]
      /\ Validate(t, e) = [ok |-> TRUE, turn |-> s.turn, step |-> s.step, nextTurn |-> t.nextTurn, nextStep |-> t.nextStep,
                          pendingCalls |-> t.pendingCalls \ {s.pendingCalls[1].call}]
  BY <1>11 DEF ResultFollows
<1>4. NeverDenied(Append(log, e))
  <2>1. ~NotStarted(e) /\ \A u, v, c : e # ToolCall(u, v, c)
    BY DEF NotStarted, ToolResult, ToolCall
  <2> HIDE DEF e
  <2> QED
    BY <1>1, <1>3, <2>1, NeverDeniedAppend
<1>5. Appended(e)
  <2>1. Appends(e)
    BY <1>0, <1>2, <1>13
  <2> HIDE DEF e
  <2> QED
    BY <1>0, <1>3, <1>4, <2>1, AppendStep
<1>6. DeniedBefore(log, Trace(log))'
  <2>1. ~NotStarted(e)
    BY DEF NotStarted, ToolResult
  <2>2. t \in Traces /\ Trace(log)' \in Traces /\ t.nextTurn <= Trace(log)'.nextTurn
    BY <1>1, <1>3, <1>5 DEF Appended, GoodOver, Fields
  <2> HIDE DEF e, t
  <2> QED
    BY <1>1, <1>5, <2>1, <2>2, StillDeniedBefore DEF Appended
<1>7. AgentAt(OpenTail(log), Trace(log))'
  <2>1. OpenTail(log)'.turn = turn /\ OpenTail(log)'.step = step /\ OpenTail(log)'.pendingCalls = pend
    <3> HIDE DEF pend, e
    <3> QED
      BY <1>2, <1>3, <1>5 DEF Appended
  <2>2. PlanFollows(OpenTail(log))'
    <3>1. /\ pend \in Seq(Entries) /\ Len(s.pendingCalls) \in Nat /\ Len(pend) = Len(s.pendingCalls) - 1
          /\ DOMAIN pend = 1 .. Len(s.pendingCalls) - 1 /\ DOMAIN s.pendingCalls = 1 .. Len(s.pendingCalls)
          /\ \A j \in 1 .. Len(s.pendingCalls) - 1 : pend[j] = s.pendingCalls[j + 1]
      BY <1>2, <1>13, DeletedHead DEF OneEntryEach
    <3> DEFINE k1 == k + 1
    <3>2. Len(plan) - Len(pend) = k1 /\ k1 \in Nat
      <4> HIDE DEF pend
      <4>1. k \in Nat /\ k = Len(plan) - Len(s.pendingCalls)
        BY <1>12
      <4> HIDE DEF k
      <4> QED
        BY <1>10, <3>1, <4>1
    <3> HIDE DEF pend
    <3>3. ASSUME NEW j \in DOMAIN plan
          PROVE  StageAgrees(plan, tool', pend, k1, j)
      <4> HIDE DEF k
      <4>1. plan[j] \in Calls /\ j \in Nat /\ k \in Nat
        BY <1>1, <1>12
      <4>2. tool'[plan[j]] = IF plan[j] = plan[i] THEN "answered" ELSE tool[plan[j]]
        BY <1>0, <1>10, <4>1
      <4>3. CASE plan[j] = plan[i]
        <5>1. j = i
          BY <1>1, <4>3 DEF PlanShape
        <5> QED
          BY <1>13, <4>1, <4>2, <5>1 DEF StageAgrees
      <4>4. CASE plan[j] # plan[i]
        <5>1. j # k + 1 /\ tool'[plan[j]] = tool[plan[j]]
          BY <1>13, <4>2, <4>4
        <5>2. CASE j <= k
          <6>1. ~(j > k) /\ j <= k1
            BY <4>1, <5>2
          <6> QED
            BY <1>12, <5>1, <6>1 DEF StageAgrees
        <5>3. CASE ~(j <= k)
          <6>1. j > k1 /\ (j - k1) + 1 = j - k
            BY <4>1, <5>1, <5>3
          <6>2. /\ j - k \in DOMAIN s.pendingCalls /\ s.pendingCalls[j - k].call = plan[j]
                /\ \/ s.pendingCalls[j - k].callSeq = 0 /\ tool[plan[j]] = "planned"
                   \/ s.pendingCalls[j - k].callSeq # 0 /\ tool[plan[j]] \in {"started", "settled"}
            BY <1>12, <5>3 DEF StageAgrees
          <6>3. j - k1 \in 1 .. Len(s.pendingCalls) - 1
            BY <3>1, <4>1, <6>1, <6>2
          <6>4. pend[j - k1] = s.pendingCalls[j - k] /\ j - k1 \in DOMAIN pend
            BY <3>1, <6>1, <6>3
          <6> QED
            BY <5>1, <6>1, <6>2, <6>4 DEF StageAgrees
        <5> QED
          BY <5>2, <5>3
      <4> QED
        BY <4>3, <4>4
    <3>4. plan' = plan
      BY <1>0
    <3> HIDE DEF k, k1
    <3>5. PlanMatches(plan, tool', pend, k1)
      BY <1>1, <3>1, <3>2, <3>3, PlanCases
    <3> QED
      BY <2>1, <3>2, <3>4, <3>5 DEF PlanFollows
  <2> QED
    BY <1>0, <1>2, <2>1, <2>2 DEF AgentAt
<1>8. PlanShape'
  <2>1. \A c \in Calls : tool'[c] # "none" => \E j \in DOMAIN plan : plan[j] = c
    BY <1>0, <1>1, <1>10 DEF PlanShape
  <2> QED
    BY <1>0, <1>1, <2>1 DEF PlanShape
<1>9. TypeOK'
  <2>1. tool' \in [Calls -> {"none", "planned", "started", "settled", "answered"}]
    BY <1>0, <1>10 DEF RecoveryInvariant, TypeOK
  <2> QED
    BY <1>0, <1>1, <1>5, <2>1 DEF RecoveryInvariant, TypeOK, Appended
<1> QED
  BY <1>5, <1>6, <1>7, <1>8, <1>9 DEF RecoveryInvariant, AgentFollows, Appended

\* What a step of the agent or of the disk that leaves the log alone keeps.
LEMMA LogAlone ==
  ASSUME RecoveryInvariant, log' = log, durable' \in durable .. Len(log'), UNCHANGED history
  PROVE  /\ LogGood' /\ RanIsDurable' /\ AskedIsDurable' /\ log' \in Seq(Events) /\ durable' \in 0 .. Len(log')
         /\ OpenTail(log)' = OpenTail(log) /\ Trace(log)' = Trace(log)
<1>1. log \in Seq(Events) /\ durable \in 0 .. Len(log) /\ LogGood /\ RanIsDurable /\ AskedIsDurable
  BY DEF RecoveryInvariant, TypeOK
<1>2. durable' \in 0 .. Len(log')
  BY <1>1
<1>3. RanIsDurable' /\ AskedIsDurable'
  BY <1>1, DurableKept
<1> QED
  BY <1>1, <1>2, <1>3 DEF LogGood

LEMMA PersistStep ==
  ASSUME RecoveryInvariant, NEW n \in 1 .. Len(log), Persist(n)
  PROVE  RecoveryInvariant'
<1>1. /\ durable' = n /\ n \in durable + 1 .. Len(log)
      /\ UNCHANGED <<log, up, pc, turn, step, plan, tool, crashes, history>>
  BY DEF Persist, agentVars
<1>2. durable' \in durable .. Len(log') /\ durable \in Nat
  BY <1>1 DEF RecoveryInvariant, TypeOK
<1>3. /\ LogGood' /\ RanIsDurable' /\ AskedIsDurable' /\ durable' \in 0 .. Len(log')
  BY <1>1, <1>2, LogAlone
<1>4. TypeOK'
  BY <1>1, <1>3 DEF RecoveryInvariant, TypeOK
<1>5. AgentFollows' /\ PlanShape'
  BY <1>1
     DEF RecoveryInvariant, AgentFollows, DeniedBefore, AgentAt, PlanFollows, StepUntouched, PlanShape
<1> QED
  BY <1>3, <1>4, <1>5 DEF RecoveryInvariant

LEMMA SendRequestStep ==
  ASSUME RecoveryInvariant, SendRequest
  PROVE  RecoveryInvariant'
<1>1. /\ up /\ pc = "step" /\ durable = Len(log) /\ pc' = "asked" /\ asked' = asked \cup {log}
      /\ UNCHANGED <<log, durable, up, turn, step, plan, tool, crashes, ran>>
  BY DEF SendRequest, Running, RequestCheckpointed
<1>2. log \in Seq(Events) /\ Len(log) \in Nat /\ SubSeq(log, 1, Len(log)) = log
  BY WholeIsPrefix DEF RecoveryInvariant, TypeOK
<1>3. AskedIsDurable'
  BY <1>1, <1>2 DEF RecoveryInvariant, AskedIsDurable
<1>4. LogGood' /\ RanIsDurable'
  BY <1>1 DEF RecoveryInvariant, LogGood, RanIsDurable
<1>5. TypeOK'
  BY <1>1 DEF RecoveryInvariant, TypeOK
<1>6. AgentFollows'
  BY <1>1 DEF RecoveryInvariant, AgentFollows, DeniedBefore, AgentAt, StepUntouched
<1>7. PlanShape'
  BY <1>1 DEF RecoveryInvariant, PlanShape
<1> QED
  BY <1>3, <1>4, <1>5, <1>6, <1>7 DEF RecoveryInvariant

\* A started call settles.
LEMMA SettleStep ==
  ASSUME RecoveryInvariant, NEW c \in Calls, up, pc = "tools", tool[c] = "started",
         tool' = [tool EXCEPT ![c] = "settled"],
         UNCHANGED <<log, durable, up, pc, turn, step, plan, crashes, asked>>
  PROVE  /\ TypeOK' /\ LogGood' /\ AgentFollows' /\ PlanShape' /\ AskedIsDurable'
         /\ CallSeq(c) \in DOMAIN log /\ log[CallSeq(c)] = ToolCall(turn, step, c)
<1> DEFINE s == OpenTail(log)
           t == Trace(log)
           k == Len(plan) - Len(s.pendingCalls)
<1>1. /\ log \in Seq(Events) /\ plan \in Seq(Calls) /\ GoodOver(log, s, t) /\ Fields(log, s, t)
      /\ DeniedBefore(log, t) /\ AgentAt(s, t) /\ PlanShape
      /\ tool \in [Calls -> {"none", "planned", "started", "settled", "answered"}]
  BY Before DEF RecoveryInvariant, TypeOK
<1>2. s.turn = turn /\ s.step = step /\ PlanFollows(s) /\ s \in Scans /\ s.pendingCalls \in Seq(Entries)
  BY <1>1 DEF AgentAt, Fields
<1>3. k \in Nat /\ PlanMatches(plan, tool, s.pendingCalls, k) /\ \A j \in DOMAIN plan : StageAgrees(plan, tool, s.pendingCalls, k, j)
  <2>1. k \in Nat /\ PlanMatches(plan, tool, s.pendingCalls, k) /\ k = Len(plan) - Len(s.pendingCalls)
    BY <1>2 DEF PlanFollows
  <2> HIDE DEF k
  <2> QED
    BY <1>1, <1>2, <2>1, PlanCases
<1> HIDE DEF k
<1>4. PICK i \in DOMAIN plan : plan[i] = c
  BY <1>1 DEF PlanShape
<1>5. i - k \in DOMAIN s.pendingCalls /\ s.pendingCalls[i - k].call = c /\ s.pendingCalls[i - k].callSeq # 0
  BY <1>3, <1>4 DEF StageAgrees
<1>6. CallSeq(c) \in DOMAIN log /\ log[CallSeq(c)] = ToolCall(turn, step, c)
  <2>1. Cites(log, s)
    BY <1>1 DEF GoodOver
  <2> QED
    BY <1>1, <1>2, <1>5, <2>1, CallSeqIs
<1>7. \A j \in DOMAIN plan : StageAgrees(plan, tool', s.pendingCalls, k, j)
  <2> SUFFICES ASSUME NEW j \in DOMAIN plan PROVE StageAgrees(plan, tool', s.pendingCalls, k, j)
    OBVIOUS
  <2>1. plan[j] \in Calls
    BY <1>1
  <2>2. tool'[plan[j]] = IF plan[j] = c THEN "settled" ELSE tool[plan[j]]
    BY <1>1, <2>1
  <2> QED
    BY <1>3, <2>2 DEF StageAgrees
<1>8. PlanFollows(OpenTail(log))'
  <2>1. k = Len(plan) - Len(s.pendingCalls)
    BY DEF k
  <2>2. PlanMatches(plan, tool', s.pendingCalls, k)
    BY <1>1, <1>2, <1>3, <1>7, <2>1, PlanCases
  <2> QED
    BY <1>3, <2>1, <2>2 DEF PlanFollows
<1>9. AgentAt(OpenTail(log), Trace(log))' /\ DeniedBefore(log, Trace(log))'
  BY <1>1, <1>8 DEF AgentAt, DeniedBefore
<1>10. PlanShape'
  <2>1. \A d \in Calls : tool'[d] # "none" => \E j \in DOMAIN plan : plan[j] = d
    BY <1>1 DEF PlanShape
  <2> QED
    BY <1>1, <2>1 DEF PlanShape
<1>11. TypeOK'
  <2>1. tool' \in [Calls -> {"none", "planned", "started", "settled", "answered"}]
    BY <1>1
  <2> QED
    BY <2>1 DEF RecoveryInvariant, TypeOK
<1>12. LogGood' /\ AskedIsDurable'
  BY DEF RecoveryInvariant, LogGood, AskedIsDurable
<1> QED
  BY <1>6, <1>9, <1>10, <1>11, <1>12 DEF AgentFollows

LEMMA RunBodyStep ==
  ASSUME RecoveryInvariant, NEW c \in Calls, RunBody(c)
  PROVE  RecoveryInvariant'
<1>1. /\ up /\ pc = "tools" /\ tool[c] = "started" /\ tool' = [tool EXCEPT ![c] = "settled"]
      /\ UNCHANGED <<log, durable, up, pc, turn, step, plan, crashes, asked>>
      /\ durable >= CallSeq(c) /\ ran' = ran \cup {<<turn, step, c>>}
  BY DEF RunBody, Running, BodyCheckpointed
<1>2. /\ TypeOK' /\ LogGood' /\ AgentFollows' /\ PlanShape' /\ AskedIsDurable'
      /\ CallSeq(c) \in DOMAIN log /\ log[CallSeq(c)] = ToolCall(turn, step, c)
  BY <1>1, SettleStep
<1>3. RanIsDurable'
  <2>1. CallSeq(c) \in 1 .. durable
    <3>1. durable \in Nat /\ DOMAIN log = 1 .. Len(log)
      BY DEF RecoveryInvariant, TypeOK
    <3> QED
      BY <1>1, <1>2, <3>1
  <2>2. \A r \in ran' : r \in ran \/ (r[1] = turn /\ r[2] = step /\ r[3] = c)
    BY <1>1
  <2>3. \A r \in ran : \E k \in 1 .. durable : log[k] = ToolCall(r[1], r[2], r[3])
    BY DEF RecoveryInvariant, RanIsDurable
  <2>4. \A r \in ran' : \E k \in 1 .. durable : log[k] = ToolCall(r[1], r[2], r[3])
    BY <1>2, <2>1, <2>2, <2>3
  <2> QED
    BY <1>1, <2>4 DEF RanIsDurable
<1> QED
  BY <1>2, <1>3 DEF RecoveryInvariant

LEMMA RefuseBodyStep ==
  ASSUME RecoveryInvariant, NEW c \in Calls, RefuseBody(c)
  PROVE  RecoveryInvariant'
<1>1. /\ up /\ pc = "tools" /\ tool[c] = "started" /\ tool' = [tool EXCEPT ![c] = "settled"]
      /\ UNCHANGED <<log, durable, up, pc, turn, step, plan, crashes, asked>> /\ ran' = ran
  BY DEF RefuseBody, Running, history
<1>2. TypeOK' /\ LogGood' /\ AgentFollows' /\ PlanShape' /\ AskedIsDurable'
  BY <1>1, SettleStep
<1>3. RanIsDurable'
  BY <1>1 DEF RecoveryInvariant, RanIsDurable
<1> QED
  BY <1>2, <1>3 DEF RecoveryInvariant

LEMMA CrashStep ==
  ASSUME RecoveryInvariant, NEW n \in 0 .. Len(log), Crash(n)
  PROVE  RecoveryInvariant'
<1>1. /\ n \in durable .. Len(log) /\ log' = SubSeq(log, 1, n) /\ durable' = n /\ up' = FALSE /\ pc' = "idle"
      /\ plan' = <<>> /\ tool' = [c \in Calls |-> "none"]
      /\ UNCHANGED <<turn, step, history>>
  BY DEF Crash, NoPlan
<1>2. /\ log \in Seq(Events) /\ durable \in 0 .. Len(log) /\ AllGood(log) /\ RanIsDurable /\ AskedIsDurable
  BY DEF RecoveryInvariant, TypeOK, LogGood
<1>3. log' \in Seq(Events) /\ Len(log') = n /\ \A k \in 1 .. n : log'[k] = log[k]
  BY <1>1, <1>2, PrefixIs
<1>4. AllGood(log')
  BY <1>1, <1>2, AllGoodPrefix
<1>5. durable' \in durable .. Len(log') /\ durable' \in 0 .. Len(log') /\ 1 .. durable \subseteq 1 .. n
  BY <1>1, <1>2, <1>3
<1>6. RanIsDurable' /\ AskedIsDurable'
  BY <1>1, <1>2, <1>3, <1>5, DurableKept
<1>7. TypeOK'
  <2>1. plan' \in Seq(Calls) /\ tool' \in [Calls -> {"none", "planned", "started", "settled", "answered"}]
    BY <1>1
  <2> QED
    BY <1>1, <1>3, <1>5, <2>1 DEF RecoveryInvariant, TypeOK
<1>8. PlanShape' /\ AgentFollows'
  BY <1>1 DEF PlanShape, AgentFollows
<1> QED
  BY <1>4, <1>6, <1>7, <1>8 DEF RecoveryInvariant, LogGood

\* Any number of closers is written.
LEMMA RepairStep ==
  ASSUME RecoveryInvariant, ~up, NEW j \in 0 .. Len(Closers(log)), log' = Repairing(log, j),
         durable' = Len(log'), UNCHANGED <<up, pc, turn, step, plan, tool, history>>
  PROVE  RecoveryInvariant'
<1>1. /\ log \in Seq(Events) /\ durable \in 0 .. Len(log) /\ AllGood(log) /\ RanIsDurable /\ AskedIsDurable
  BY DEF RecoveryInvariant, TypeOK, LogGood
<1>2. log' \in Seq(Events) /\ AllGood(log') /\ Closers(log) \in Seq(Events)
  BY <1>1, RepairSteps DEF RepairedSoFar
<1> DEFINE b == SubSeq(Closers(log), 1, j)
<1>3. log' = log \o b /\ b \in Seq(Events)
  BY <1>2, PrefixIs DEF Repairing
<1> HIDE DEF b
<1>4. Len(log') \in Nat /\ Len(log) <= Len(log') /\ Len(log) \in Nat /\ \A k \in 1 .. Len(log) : log'[k] = log[k]
  <2>1. /\ Len(log \o b) = Len(log) + Len(b)
        /\ \A i \in 1 .. Len(log) + Len(b) : (log \o b)[i] = IF i <= Len(log) THEN log[i] ELSE b[i - Len(log)]
    BY <1>1, <1>3, ConcatProperties
  <2>2. Len(log) \in Nat /\ Len(b) \in Nat
    BY <1>1, <1>3
  <2>3. \A k \in 1 .. Len(log) : k \in 1 .. Len(log) + Len(b) /\ k <= Len(log)
    BY <2>2
  <2> QED
    BY <1>3, <2>1, <2>2, <2>3
<1>5. durable' \in durable .. Len(log') /\ durable' \in 0 .. Len(log') /\ \A k \in 1 .. durable : log'[k] = log[k]
  BY <1>1, <1>4
<1>6. RanIsDurable' /\ AskedIsDurable'
  BY <1>1, <1>2, <1>5, DurableKept
<1>7. TypeOK'
  BY <1>2, <1>5 DEF RecoveryInvariant, TypeOK
<1>8. PlanShape' /\ AgentFollows'
  BY DEF RecoveryInvariant, PlanShape, AgentFollows
<1> QED
  BY <1>2, <1>6, <1>7, <1>8 DEF RecoveryInvariant, LogGood

LEMMA CrashInRepairStep ==
  ASSUME RecoveryInvariant, NEW j, CrashInRepair(j)
  PROVE  RecoveryInvariant'
<1>1. /\ ~up /\ j \in 1 .. Len(Closers(log)) - 1 /\ log' = Repairing(log, j) /\ durable' = Len(log')
      /\ UNCHANGED <<up, pc, turn, step, plan, tool, history>>
  BY DEF CrashInRepair, agentVars, Repairing
<1>2. j \in 0 .. Len(Closers(log))
  <2>1. Len(Closers(log)) \in Nat
    BY RepairSteps DEF RecoveryInvariant, TypeOK, LogGood
  <2> QED
    BY <1>1, <2>1
<1> QED
  BY <1>1, <1>2, RepairStep

LEMMA CommitRepairStep ==
  ASSUME RecoveryInvariant, CommitRepair
  PROVE  RecoveryInvariant'
<1>1. /\ ~up /\ log' = log \o Closers(log) /\ durable' = Len(log')
      /\ UNCHANGED <<up, pc, turn, step, plan, tool, history>>
  BY DEF CommitRepair, agentVars, Cursor
<1>2. Closers(log) \in Seq(Events) /\ Len(Closers(log)) \in 0 .. Len(Closers(log))
  <2>1. Closers(log) \in Seq(Events) /\ Len(Closers(log)) \in Nat
    BY RepairSteps DEF RecoveryInvariant, TypeOK, LogGood
  <2> QED
    BY <2>1
<1>3. log' = Repairing(log, Len(Closers(log)))
  BY <1>1, <1>2, SubSeqFull DEF Repairing
<1> QED
  BY <1>1, <1>2, <1>3, RepairStep

LEMMA ReopenStep ==
  ASSUME RecoveryInvariant, Reopen
  PROVE  RecoveryInvariant'
<1> DEFINE s == OpenTail(log)
           t == Trace(log)
<1>1. /\ ~up /\ Closers(log) = <<>> /\ up' = TRUE /\ turn' = LastTurn(log) /\ step' = 0
      /\ UNCHANGED <<log, durable, pc, plan, tool, crashes, history>>
  BY DEF Reopen
<1>2. /\ log \in Seq(Events) /\ GoodOver(log, s, t) /\ Fields(log, s, t) /\ PlanShape /\ durable \in 0 .. Len(log)
  BY Before DEF RecoveryInvariant, TypeOK
<1>3. s.turn = 0
  BY <1>1, <1>2, ClosersShape DEF Fields
<1>4. LastTurn(log) = t.nextTurn - 1 /\ t.nextTurn \in Nat \ {0}
  BY <1>2, <1>3 DEF GoodOver, LastTurnIs, Fields
<1>5. durable' \in durable .. Len(log')
  BY <1>1, <1>2
<1>6. LogGood' /\ RanIsDurable' /\ AskedIsDurable' /\ OpenTail(log)' = s /\ Trace(log)' = t
  BY <1>1, <1>5, LogAlone
<1>7. pc = "idle" /\ pc' = "idle"
  BY <1>1, <1>2 DEF PlanShape
<1>8. DeniedBefore(log, Trace(log))'
  <2>1. \A k \in DOMAIN log : log[k].turn < t.nextTurn
    BY <1>2, <1>3 DEF GoodOver, Numbered
  <2> QED
    BY <1>1, <2>1 DEF DeniedBefore
<1>9. AgentAt(OpenTail(log), Trace(log))'
  <2>1. turn' \in Nat /\ t.nextTurn = turn' + 1
    BY <1>1, <1>4
  <2> QED
    BY <1>1, <1>3, <1>7, <2>1 DEF AgentAt
<1>10. PlanShape'
  BY <1>1, <1>2, <1>7 DEF PlanShape
<1>11. TypeOK'
  <2>1. turn' \in Nat
    BY <1>1, <1>4
  <2> QED
    BY <1>1, <2>1 DEF RecoveryInvariant, TypeOK
<1> QED
  BY <1>6, <1>8, <1>9, <1>10, <1>11 DEF RecoveryInvariant, AgentFollows

LEMMA InitGood == Init => RecoveryInvariant
<1> SUFFICES ASSUME Init PROVE RecoveryInvariant
  OBVIOUS
<1>1. /\ log = <<>> /\ durable = 0 /\ up = TRUE /\ pc = "idle" /\ turn = 0 /\ step = 0
      /\ plan = <<>> /\ tool = [c \in Calls |-> "none"] /\ asked = {} /\ ran = {}
  BY DEF Init
<1>2. OpenTail(log) = NothingOpen /\ Trace(log) = FreshTrace
  BY <1>1, OpenTailEmpty, TraceEmpty
<1>3. log \in Seq(Events) /\ Len(log) = 0 /\ DOMAIN log = {}
  BY <1>1
<1>4. GoodOver(log, OpenTail(log), Trace(log))
  <2>1. NothingOpen \in Scans
    <3>1. <<>> \in Seq(Entries)
      OBVIOUS
    <3> QED
      BY <3>1 DEF NothingOpen, Scans
  <2>2. FreshTrace \in Traces
    BY DEF FreshTrace, Traces
  <2>3. LastTurn(log) = 0
    <3>1. {i \in 1 .. Len(log) : log[i].type = "turn/start"} = {}
      BY <1>3
    <3> QED
      BY <3>1 DEF LastTurn, SelectLastInSeq
  <2>4. /\ NothingOpen.turn = 0 /\ NothingOpen.step = 0 /\ NothingOpen.pendingCalls = <<>> /\ NothingOpen.seq = 0
        /\ FreshTrace.ok = TRUE /\ FreshTrace.turn = 0 /\ FreshTrace.step = 0 /\ FreshTrace.pendingCalls = {}
        /\ FreshTrace.nextTurn = 1
    BY DEF NothingOpen, FreshTrace
  <2>5. Agree(NothingOpen, FreshTrace)
    BY <2>4 DEF Agree, OneEntryEach
  <2>6. Numbered(log, NothingOpen, FreshTrace) /\ Cites(log, NothingOpen) /\ AnsweredOnce(log, NothingOpen)
    BY <1>3, <2>4 DEF Numbered, Cites, AnsweredOnce
  <2>7. LastTurnIs(log, NothingOpen, FreshTrace)
    BY <2>3, <2>4 DEF LastTurnIs
  <2> QED
    BY <1>2, <1>3, <2>1, <2>2, <2>4, <2>5, <2>6, <2>7 DEF GoodOver
<1>5. Good(log)
  BY <1>3, <1>4 DEF Good, NeverDenied
<1>6. LogGood
  <2>1. \A n \in 0 .. Len(log) : SubSeq(log, 1, n) = log
    <3>1. \A n \in 0 .. 0 : n = Len(log)
      BY <1>3
    <3> QED
      BY <1>3, <3>1, WholeIsPrefix
  <2> QED
    BY <1>5, <2>1 DEF LogGood, AllGood
<1>7. TypeOK
  <2>1. plan \in Seq(Calls) /\ tool \in [Calls -> {"none", "planned", "started", "settled", "answered"}]
    BY <1>1
  <2> QED
    BY <1>1, <1>3, <2>1 DEF TypeOK
<1>8. AgentFollows
  <2>1. DeniedBefore(log, Trace(log))
    BY <1>3 DEF DeniedBefore
  <2>2. AgentAt(OpenTail(log), Trace(log))
    BY <1>1, <1>2 DEF AgentAt, NothingOpen, FreshTrace
  <2> QED
    BY <2>1, <2>2 DEF AgentFollows
<1>9. PlanShape /\ RanIsDurable /\ AskedIsDurable
  BY <1>1 DEF PlanShape, RanIsDurable, AskedIsDurable
<1> QED
  BY <1>6, <1>7, <1>8, <1>9 DEF RecoveryInvariant

LEMMA NextGood == RecoveryInvariant /\ [Next]_vars => RecoveryInvariant'
<1> SUFFICES ASSUME RecoveryInvariant, [Next]_vars PROVE RecoveryInvariant'
  OBVIOUS
<1>1. ASSUME NEW n \in 1 .. Len(log), Persist(n) PROVE RecoveryInvariant'
  BY <1>1, PersistStep
<1>2. CASE BeginTurn
  BY <1>2, BeginTurnStep
<1>3. CASE BeginStep
  BY <1>3, BeginStepStep
<1>4. CASE SendRequest
  BY <1>4, SendRequestStep
<1>5. ASSUME NEW cs \in Plans, Respond(cs) PROVE RecoveryInvariant'
  BY <1>5, RespondStep
<1>6. CASE StartCall
  BY <1>6, StartCallStep
<1>7. ASSUME NEW c \in Calls, RunBody(c) PROVE RecoveryInvariant'
  BY <1>7, RunBodyStep
<1>8. ASSUME NEW c \in Calls, RefuseBody(c) PROVE RecoveryInvariant'
  BY <1>8, RefuseBodyStep
<1>9. CASE CommitResult
  BY <1>9, CommitResultStep
<1>10. CASE EndStep
  BY <1>10, EndStepStep
<1>11. CASE EndTurn
  BY <1>11, EndTurnStep
<1>12. ASSUME NEW n \in 0 .. Len(log), Crash(n) PROVE RecoveryInvariant'
  BY <1>12, CrashStep
<1>13. ASSUME NEW j \in 1 .. Len(log) + 2, CrashInRepair(j) PROVE RecoveryInvariant'
  BY <1>13, CrashInRepairStep
<1>14. CASE CommitRepair
  BY <1>14, CommitRepairStep
<1>15. CASE Reopen
  BY <1>15, ReopenStep
<1>16. CASE UNCHANGED vars
  BY <1>16
     DEF vars, agentVars, history, RecoveryInvariant, TypeOK, LogGood, AgentFollows, DeniedBefore,
         AgentAt,
               PlanFollows, StepUntouched, PlanShape, RanIsDurable, AskedIsDurable
<1> QED
  BY <1>1, <1>2, <1>3, <1>4, <1>5, <1>6, <1>7, <1>8, <1>9, <1>10, <1>11, <1>12, <1>13, <1>14, <1>15,
     <1>16 DEF Next

-----------------------------------------------------------------------------
\* The theorems.

\* RecoveryInvariant is inductive: whatever runs, lands, crashes or is repaired, the log and
\* each of its prefixes is one that repair.ts and invariant.ts agree on, and the agent, its
\* plan, the bodies that ran and the requests follow it.
THEOREM RecoveryInvariantHolds == Spec => []RecoveryInvariant
<1>1. Init => RecoveryInvariant
  BY InitGood
<1>2. RecoveryInvariant /\ [Next]_vars => RecoveryInvariant'
  BY NextGood
<1> QED
  BY <1>1, <1>2, PTL DEF Spec

\* Every variable keeps its type, and no more is acknowledged as stored than is logged.
THEOREM TypeCorrect == Spec => []TypeOK
<1>1. RecoveryInvariant => TypeOK
  BY DEF RecoveryInvariant
<1> QED
  BY <1>1, RecoveryInvariantHolds, PTL

\* The relational invariants of invariant.ts hold of the log a crash leaves and of the log
\* interruptedTurnClosers makes of it.
THEOREM LogStaysValid == Spec => []LogValid
<1>1. ASSUME RecoveryInvariant PROVE LogValid
  <2>1. log \in Seq(Events) /\ AllGood(log)
    BY <1>1 DEF RecoveryInvariant, TypeOK, LogGood
  <2>2. ASSUME NEW p \in Seq(Events), AllGood(p) PROVE Trace(p).ok
    <3>1. Trace(p).ok = TRUE
      BY <2>2, AllGoodHere DEF Good, GoodOver, Agree
    <3> QED
      BY <3>1
  <2>3. Repaired(log) \in Seq(Events) /\ AllGood(Repaired(log))
    BY <2>1, RepairDone
  <2> QED
    BY <2>1, <2>2, <2>3 DEF LogValid
<1> QED
  BY <1>1, RecoveryInvariantHolds, PTL

\* A repaired log needs no second repair, and each call of the step that was open when the
\* process died has exactly one result.
THEOREM RepairIsComplete == Spec => []RepairComplete
<1>1. ASSUME RecoveryInvariant PROVE RepairComplete
  <2> DEFINE q == Repaired(log)
  <2>1. log \in Seq(Events) /\ AllGood(log)
    BY <1>1 DEF RecoveryInvariant, TypeOK, LogGood
  <2>2. /\ Closers(q) = <<>>
        /\ \A i \in DOMAIN log : InOpenStep(log, i) =>
             \A c \in Range(log[i].calls) : \E k \in i + 1 .. Len(q) : Answers(q, i, c) = {k}
    BY <2>1, RepairDone
  <2> HIDE DEF q
  <2>3. ASSUME NEW i \in DOMAIN log, InOpenStep(log, i), NEW c \in Range(log[i].calls)
        PROVE  Cardinality(Answers(q, i, c)) = 1
    <3>1. PICK k \in i + 1 .. Len(q) : Answers(q, i, c) = {k}
      BY <2>2, <2>3
    <3>2. Cardinality({k}) = 1
      BY FS_Singleton
    <3> QED
      BY <3>1, <3>2
  <2> QED
    BY <2>2, <2>3 DEF RepairComplete, InOpenStep, Answers, q
<1> QED
  BY <1>1, RecoveryInvariantHolds, PTL

\* commitRepair may stop after any closer: the next load writes the rest.
THEOREM RepairIsResumable == Spec => []RepairResumes
<1>1. ASSUME RecoveryInvariant PROVE RepairResumes
  <2>1. log \in Seq(Events) /\ AllGood(log)
    BY <1>1 DEF RecoveryInvariant, TypeOK, LogGood
  <2>2. \A j \in DOMAIN Closers(log) : j \in 0 .. Len(Closers(log))
    <3>1. Closers(log) \in Seq(Events)
      BY <2>1, RepairSteps
    <3> QED
      BY <3>1
  <2>3. \A j \in DOMAIN Closers(log) : Repaired(log \o SubSeq(Closers(log), 1, j)) = log \o Closers(log)
    BY <2>1, <2>2, RepairTakenUp DEF Repairing, Repaired
  <2> QED
    BY <2>3 DEF RepairResumes
<1> QED
  BY <1>1, RecoveryInvariantHolds, PTL

\* A call whose body ran is never answered TOOL_NOT_STARTED: tools/execute waits until its
\* tool/call is durable.
THEOREM RanNeverDenied == Spec => []RanNotDenied
<1>1. ASSUME RecoveryInvariant PROVE RanNotDenied
  <2>1. NeverDenied(log) /\ RanIsDurable /\ durable \in 0 .. Len(log) /\ log \in Seq(Events)
    BY <1>1, Before DEF RecoveryInvariant, TypeOK
  <2> SUFFICES ASSUME NEW r \in ran, NEW i \in DOMAIN log, log[i].type = "tool/result",
                      <<log[i].turn, log[i].step, log[i].call>> = r, log[i].error = "TOOL_NOT_STARTED"
               PROVE  FALSE
    BY DEF RanNotDenied
  <2>2. PICK k \in 1 .. durable : log[k] = ToolCall(r[1], r[2], r[3])
    BY <2>1 DEF RanIsDurable
  <2>3. k \in DOMAIN log
    BY <2>1
  <2>4. r[1] = log[i].turn /\ r[2] = log[i].step /\ r[3] = log[i].call
    OBVIOUS
  <2> QED
    BY <2>1, <2>2, <2>3, <2>4 DEF NeverDenied, NotStarted
<1> QED
  BY <1>1, RecoveryInvariantHolds, PTL

\* Every log a provider was asked to continue stays a prefix of the log: llm/stream waits
\* until the log is durable.
THEOREM RequestsNeverTakenBack == Spec => []RequestsKept
<1>1. ASSUME RecoveryInvariant PROVE RequestsKept
  <2> SUFFICES ASSUME NEW sent \in asked PROVE IsPrefix(sent, log)
    BY DEF RequestsKept
  <2>1. /\ sent \in Seq(Events) /\ Len(sent) <= durable /\ sent = SubSeq(log, 1, Len(sent))
        /\ log \in Seq(Events) /\ durable \in 0 .. Len(log)
    BY <1>1 DEF RecoveryInvariant, AskedIsDurable, TypeOK
  <2>2. Len(sent) <= Len(log) /\ SubSeq(sent, 1, Len(sent)) = sent
    BY <2>1, WholeIsPrefix
  <2> QED
    BY <2>1, <2>2 DEF IsPrefix
<1> QED
  BY <1>1, RecoveryInvariantHolds, PTL

=============================================================================
