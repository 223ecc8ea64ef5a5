--------------------------- MODULE MCPackageBuild ---------------------------
(***************************************************************************)
(* PackageBuild on small instances.                                        *)
(***************************************************************************)
EXTENDS PackageBuild, TLC

CONSTANTS builder, loader, m1, m2, m1mv, m2mv

\* One process builds, another loads what it finds.
OneWriter == [b \in {builder, loader} |-> IF b = builder THEN {"build"} ELSE {"verify"}]
OnlyBuilder == [b \in {builder} |-> {"build"}]

\* Each module its own file.
OwnFiles == m1 :> m1mv @@ m2 :> m2mv

\* Framework files whose length tells the versions apart, or does not.
SizesDiffer == [v \in FwVersions |-> v]
SizesAgree == [v \in FwVersions |-> 1]
Versions == {1, 2}
=============================================================================
