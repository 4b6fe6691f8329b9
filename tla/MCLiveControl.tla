--------------------------- MODULE MCLiveControl ---------------------------
(* LiveControl for TLC: two concurrent arm requests, one panic stop. *)
EXTENDS LiveControl, TLC

CONSTANTS a1, a2, q1

MCArmers == {a1, a2}
MCPanics == {q1}
Symmetry == Permutations(MCArmers)
============================================================================
