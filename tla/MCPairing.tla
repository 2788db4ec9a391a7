----------------------------- MODULE MCPairing -----------------------------
(* Pairing on a small instance: two clients that send the same id, and one  *)
(* of another.                                                              *)
EXTENDS Pairing, TLC

CONSTANTS a, b, c, u1, u2, w1

ThreeClients == {a, b, c}
SharedId == [x \in ThreeClients |-> IF x = c THEN u2 ELSE u1]
OneWeb == {w1}
=============================================================================
