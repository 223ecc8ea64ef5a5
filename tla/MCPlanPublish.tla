--------------------------- MODULE MCPlanPublish ---------------------------
(***************************************************************************)
(* Bundles of up to three bytes for PlanPublish: two that store the same   *)
(* bytes, one at the size limit, and one for each structural error.        *)
(***************************************************************************)
EXTENDS PlanPublish

CONSTANTS alice, bob, x, y

MCAddress == {alice, bob}
MCByte == {x, y}

MCBundle ==
    { << <<x>> >>, << <<x, y>> >>, << <<x>>, <<y>> >>, << <<x, y>>, <<x>> >>,
      <<>>, << <<>> >>, << <<x>>, <<x>> >>, << <<x, y, x>> >>,
      << <<x>>, <<y>>, <<x, y>> >>, << <<x, y>>, <<y, x>> >> }

\* 3 admits one byte, 4 is reached by two, 0 admits all.
MCGasLimit == {0, 3, 4}
=============================================================================
