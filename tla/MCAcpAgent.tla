----------------------------- MODULE MCAcpAgent -----------------------------
(***************************************************************************)
(* Two sessions, of which one may be open at a time, and three prompts:    *)
(* two for the first session and one for the second.                       *)
(***************************************************************************)
EXTENDS AcpAgent

CONSTANTS a, b, p1, p2, p3

MCSessionOf == [p \in Prompts |-> IF p = p3 THEN b ELSE a]
=============================================================================
