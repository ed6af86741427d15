--------------------------- MODULE MCWsConnection ---------------------------
(***************************************************************************)
(* Instances of WsConnection for TLC: one response and a few assignments.   *)
(***************************************************************************)
EXTENDS WsConnection, TLC

CONSTANTS r, m1, m2, m3, m4

\* Assignments are interchangeable.
MCSymmetry == Permutations(Msg \ {Response})
=============================================================================
