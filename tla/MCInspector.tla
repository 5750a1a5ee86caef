---------------------------- MODULE MCInspector ----------------------------
(* One page with a few connections, from one address. *)
EXTENDS Inspector

CONSTANTS p1, a1

MCPage == {p1}
MCAddr == {a1}
=============================================================================
