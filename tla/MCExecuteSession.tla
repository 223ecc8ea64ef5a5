-------------------------- MODULE MCExecuteSession --------------------------
(***************************************************************************)
(* Two slots, a short and a long resource for ExecuteSession.              *)
(***************************************************************************)
EXTENDS ExecuteSession

CONSTANTS s1, s2, short, long

MCSlot == {s1, s2}
MCValue == {short, long}
MCSize == [v \in MCValue |-> IF v = short THEN 1 ELSE 2]
MCAmount == {1}

\* 1 refuses the long resource, 2 the second write, 3 is where sums saturate.
MCGasLimit == {1, 2, 3}
=============================================================================
