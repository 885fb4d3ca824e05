---------------------------- MODULE MCJobRegistry ----------------------------
(* Two jobs of one agent or of nobody, and two waits. *)
EXTENDS JobRegistry

CONSTANTS j1, j2, w1, w2, a1

MCJobs == {j1, j2}
MCWaiters == {w1, w2}
MCAgents == {a1}

=============================================================================
