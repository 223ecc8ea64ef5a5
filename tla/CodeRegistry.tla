---------------------------- MODULE CodeRegistry ----------------------------
(***************************************************************************)
(* What publishing promises, with the machinery left out.  An account is   *)
(* free, open or sealed.  A step rewrites one account that is not sealed   *)
(* and leaves it open or sealed; sealed accounts keep their content, no    *)
(* account becomes free again, and no step touches two accounts.           *)
(***************************************************************************)
CONSTANT Address

VARIABLES
    stage,     \* account |-> "free", "open" or "sealed"
    content    \* account |-> what is stored there

registryVars == <<stage, content>>

RegistryInit ==
    /\ stage \in [Address -> {"free", "open", "sealed"}]
    /\ DOMAIN content = Address

Rewrite(a) ==
    /\ stage[a] # "sealed"
    /\ \E s \in {"open", "sealed"} : stage' = [stage EXCEPT ![a] = s]
    /\ DOMAIN content' = Address
    /\ \A x \in Address \ {a} : content'[x] = content[x]

RegistryNext == \E a \in Address : Rewrite(a)

RegistrySpec == RegistryInit /\ [][RegistryNext]_registryVars
=============================================================================
