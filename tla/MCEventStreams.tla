--------------------------- MODULE MCEventStreams ---------------------------
(***************************************************************************)
(* Two accounts and two slots for EventStreams; a u64 ends at MaxU64 = 2.  *)
(***************************************************************************)
EXTENDS EventStreams

CONSTANTS alice, bob, s1, s2

MCAddress == {alice, bob}
MCSlot == {s1, s2}
=============================================================================
