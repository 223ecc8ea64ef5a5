--------------------------- MODULE MCModuleLoader ---------------------------
(***************************************************************************)
(* ModuleLoader with three modules and two threads.                        *)
(***************************************************************************)
EXTENDS ModuleLoader

CONSTANTS a, b, c

M(name, deps, sound, has) ==
    [name |-> name, deps |-> deps, sound |-> sound, has |-> has, expects |-> 1]

\* c is a leaf, of another interface, unsound, or depends on a; b uses c; a
\* uses both, so that c is met twice.
Leaf == M(c, {}, TRUE, 1)
LeafNew == M(c, {}, TRUE, 2)
LeafUnsound == M(c, {}, FALSE, 1)
Back == M(c, {a}, TRUE, 1)
Middle == M(b, {c}, TRUE, 1)
Both == M(a, {b, c}, TRUE, 1)
SomeBlobs == {Leaf, LeafNew, LeafUnsound, Back, Middle, Both}

\* A diamond, or a missing module; a publish may close a cycle, and put anything
\* in any place, also a module of another name, as the legacy key does.
SomeStores == {s \in [Ids -> SomeBlobs \cup {None}] :
                  s[a] = Both /\ s[b] = Middle /\ s[c] \in {Leaf, None}}
=============================================================================
