------------------------------ MODULE MCLibrary ------------------------------
(***************************************************************************)
(* Library on small instances.                                             *)
(***************************************************************************)
EXTENDS Library, TLC

\* A struct type whose handle index has bytes that look like tags.
OneElement == {[tag |-> 11, idx |-> 257]}

\* The names "a" and "aa", the types bool and vector<bool>.
Letters == <<<<97>>, <<97, 97>>>>
BoolAndVector == {<<1>>, <<10, 1>>}
=============================================================================
