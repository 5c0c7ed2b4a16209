--------------------------- MODULE MCPolicyPlugin ---------------------------
(* An instance of PolicyPlugin for TLC. *)
EXTENDS PolicyPlugin

CONSTANTS c1, c2

TwoCalls == {c1, c2}
=============================================================================
