---------------------------- MODULE MCAgentInbox ----------------------------
(* Two interchangeable messages; splices before, at, inside and beyond both ends of a list
   of two. *)
EXTENDS AgentInbox

CONSTANTS m1, m2

MCMessages == {m1, m2}
MCStarts == {-3, -1, 0, 1, 3}
MCCounts == {-1, 0, 1, 3}
MCInserts == {<<>>} \cup {<<m>> : m \in MCMessages}

Symmetry == Permutations(MCMessages)

=============================================================================
