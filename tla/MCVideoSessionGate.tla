-------------------------- MODULE MCVideoSessionGate --------------------------
(* VideoSessionGate with three sessions; a count of two exhausts the word.  *)
EXTENDS VideoSessionGate

CONSTANTS v1, v2, v3

Three == {v1, v2, v3}
=============================================================================
