------------------------ MODULE MCSessionWriteBehind ------------------------
(* Instances of SessionWriteBehind for TLC. *)
EXTENDS SessionWriteBehind
=============================================================================
