----------------------------- MODULE DurableLog -----------------------------
(***************************************************************************)
(* What the persistence of one live session promises (session-persistence  *)
(* README and docs/subsystems/persistence.md): events become durable in    *)
(* the order they were admitted, each once, and a resolved flush means     *)
(* that everything admitted is durable.  A crash forgets what was not.     *)
(***************************************************************************)
EXTENDS Naturals, Sequences

CONSTANT Events  \* the events a session may append

VARIABLES
  admitted,     \* the session's log, in order
  stored,       \* what the backend made durable
  acknowledged  \* how many events the last resolved flush covered

vars == <<admitted, stored, acknowledged>>

\* The session may have a history, stored up to some point.
Init ==
  /\ \E n \in 0..Len(admitted) : stored = SubSeq(admitted, 1, n)
  /\ acknowledged = 0

Admit ==
  /\ \E e \in Events : admitted' = Append(admitted, e)
  /\ UNCHANGED <<stored, acknowledged>>

Store ==
  /\ \E n \in (Len(stored) + 1)..Len(admitted) : stored' = SubSeq(admitted, 1, n)
  /\ UNCHANGED <<admitted, acknowledged>>

Acknowledge ==
  /\ stored = admitted
  /\ acknowledged' = Len(admitted)
  /\ UNCHANGED <<admitted, stored>>

Lose ==
  /\ admitted' = stored
  /\ UNCHANGED <<stored, acknowledged>>

Next == Admit \/ Store \/ Acknowledge \/ Lose

Spec == Init /\ [][Next]_vars
=============================================================================
