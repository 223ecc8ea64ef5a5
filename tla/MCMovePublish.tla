--------------------------- MODULE MCMovePublish ---------------------------
(***************************************************************************)
(* Small universes of module bytes for MovePublish: accounts alice and     *)
(* bob, the framework address, and module names "m" and "n".               *)
(***************************************************************************)
EXTENDS MovePublish

CONSTANTS alice, bob, framework

MCAddress == {alice, bob, framework}

Names == {"m", "n"}

Decl(item, bound) == [item |-> item, tokens |-> "t", bound |-> bound]

(* f and fNarrow differ only in what the ABI hash leaves out.              *)
f == Decl("f", "any")
fNarrow == Decl("f", "copy")
g == Decl("g", "any")

NoUses == <<>>

Use(d, decls) == [x \in {d} |-> decls]

Module(addr, name, exports, uses, body) ==
    [decodes |-> TRUE, verifies |-> TRUE, addr |-> addr, name |-> name,
     exports |-> exports, uses |-> uses, body |-> body]

\* An account's library module, its caller on another account, and a rewrite.
AM == Module(alice, "m", {f}, NoUses, "old")
AMNew == [AM EXCEPT !.body = "new"]
AMNarrow == Module(alice, "m", {fNarrow}, NoUses, "old")
AN == Module(alice, "n", {g}, NoUses, "old")
AMAsN == Module(alice, "m", {g}, NoUses, "old")
BUsesAM == Module(bob, "m", {g}, Use(<<alice, "m">>, {f}), "old")
BUsesAN == Module(bob, "m", {g}, Use(<<alice, "n">>, {g}), "old")
AMUsesB == Module(alice, "m", {g}, Use(<<bob, "m">>, {g}), "new")
AMGarbage == [AM EXCEPT !.decodes = FALSE]
AMUnsound == [AM EXCEPT !.verifies = FALSE]

FrameworkM == Module(framework, "m", {f}, NoUses, "embedded")
Embedded == [x \in {"m"} |-> FrameworkM]

\* Everything at once: rewrites, cross-account dependencies and bad bytes.
BlobAll == {AM, AMUsesB, AN, BUsesAM, AMUnsound, AMGarbage, FrameworkM}
LegacyAll == {AM, AMGarbage}

\* A library whose declarations the ABI hash tells apart, and its caller.
BlobFaithful == {AM, AMNew, AMAsN, AN, BUsesAM, BUsesAN, FrameworkM}

\* A library whose declarations the ABI hash does not tell apart.
BlobNarrow == {AM, AMNarrow, BUsesAM, FrameworkM}

\* A dependency that is not there.
BlobMissing == {AM, BUsesAN, FrameworkM}

NoLegacy == {}
=============================================================================
