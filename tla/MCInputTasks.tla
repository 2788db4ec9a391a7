----------------------------- MODULE MCInputTasks -----------------------------
(* InputTasks with two sessions and one key.                                 *)
EXTENDS InputTasks

CONSTANTS a, b, k1

MCSessions == {a, b}
OneClient == {a}
OneKey == {k1}
MCIds == 1..5
=============================================================================
