---------------------------- MODULE MCAgentLoop ----------------------------
(* Model-checking instance of AgentLoop: messages are interchangeable. *)
EXTENDS AgentLoop, TLC

MessageSymmetry == Permutations(Messages)
=============================================================================
