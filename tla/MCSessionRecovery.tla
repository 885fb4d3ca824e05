-------------------------- MODULE MCSessionRecovery --------------------------
(* Two interchangeable call ids. *)
EXTENDS SessionRecovery

CONSTANTS c1, c2

MCCalls == {c1, c2}

\* Sound for the safety run only: no property there names a call.
Symmetry == Permutations(MCCalls)

=============================================================================
