----------------------------- MODULE MCTraffic -----------------------------
(* Three requests from any of three addresses; the window and the day roll over. *)
EXTENDS Traffic, TLC

CONSTANTS r1, r2, r3, a1, a2, a3

MCRequest == {r1, r2, r3}
MCAddr == {a1, a2, a3}
Symmetry == Permutations(MCRequest) \cup Permutations(MCAddr)
=============================================================================
