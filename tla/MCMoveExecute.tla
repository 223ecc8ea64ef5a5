--------------------------- MODULE MCMoveExecute ---------------------------
(***************************************************************************)
(* Two slots, two resources and one event for MoveExecute.                 *)
(***************************************************************************)
EXTENDS MoveExecute

CONSTANTS s1, s2, v1, v2, e1

MCSlot == {s1, s2}
MCValue == {v1, v2}
MCEvent == {e1}

\* 0 refuses every charge, 4 ends inside an operation, 8 lets a resource be
\* moved out, back and rewritten, 9 is where charges saturate.
MCGasLimit == {0, 4, 8, 9}
=============================================================================
