------------------------ MODULE MCSessionCoordinator ------------------------
(* Bounds of the SessionCoordinator runs are in their cfg files. *)
EXTENDS SessionCoordinator, TLC

CallerSymmetry == Permutations(Callers)
=============================================================================
