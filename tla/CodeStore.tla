----------------------------- MODULE CodeStore -----------------------------
(***************************************************************************)
(* Published code as the runtime sees it: the state keys of one account,   *)
(* the lookups of NexusStateView and NexusMoveStorage, the ABI hash, and   *)
(* the conditions under which the loader accepts a module and everything   *)
(* it depends on.  Every operator takes the store as an argument, because  *)
(* each call of the runtime works on the state view it is handed.          *)
(***************************************************************************)
EXTENDS Naturals, Sequences, FiniteSets

CONSTANTS
    Address,          \* account addresses
    Name,             \* module identifiers
    Framework,        \* the address 0x1
    EmbeddedModule,   \* module name |-> module embedded in nexus-move-stdlib
    Blob,             \* the module byte strings that requests may carry
    None              \* an absent value

ModuleId == Address \X Name

(***************************************************************************)
(* A Blob stands for the bytes of a module through what deserializing and  *)
(* verifying them yields:                                                  *)
(*   decodes, verifies  the two checks that look at the module alone;      *)
(*   addr, name         its self_id();                                     *)
(*   exports            its public and friend declarations;                *)
(*   uses               immediate dependency |-> declarations used of it;  *)
(*   body               whatever else tells two modules apart.             *)
(* A declaration has the item it declares, the part of its signature that  *)
(* the ABI hash reads (tokens), and the part it does not (bound): the type *)
(* parameters with their constraints, and the struct a handle index in     *)
(* tokens denotes.                                                         *)
(***************************************************************************)
Declaration == [item : STRING, tokens : STRING, bound : STRING]

BlobTyped(b) ==
    /\ DOMAIN b = {"decodes", "verifies", "addr", "name", "exports", "uses", "body"}
    /\ b.decodes \in BOOLEAN /\ b.verifies \in BOOLEAN
    /\ b.addr \in Address /\ b.name \in Name
    /\ b.exports \subseteq Declaration
    /\ DOMAIN b.uses \subseteq ModuleId \ {<<b.addr, b.name>>}
    /\ \A d \in DOMAIN b.uses : b.uses[d] \subseteq Declaration

ASSUME CodeStoreAssumption ==
    /\ Framework \in Address
    /\ None \notin Blob
    /\ \A b \in Blob : BlobTyped(b)
    /\ DOMAIN EmbeddedModule \subseteq Name
    /\ \A n \in DOMAIN EmbeddedModule :
         /\ EmbeddedModule[n] \in Blob
         /\ EmbeddedModule[n].addr = Framework /\ EmbeddedModule[n].name = n

-----------------------------------------------------------------------------
(* State keys of an account.                                               *)

CodeKey == <<"code">>
CodeHashKey == <<"code_hash">>
MetadataKey == <<"package_metadata">>
ModuleCodeKey(n) == <<"code", n>>

Key == {CodeKey, CodeHashKey, MetadataKey} \cup {ModuleCodeKey(n) : n \in Name}

-----------------------------------------------------------------------------
(* Lookups of NexusStateView and of the loader's storage.                  *)

HasModule(st, a) == st[a][CodeKey] # None

GetModuleByName(st, a, n) ==
    IF st[a][ModuleCodeKey(n)] # None THEN st[a][ModuleCodeKey(n)] ELSE st[a][CodeKey]

FetchModuleBytes(st, id) ==
    IF id[1] = Framework /\ id[2] \in DOMAIN EmbeddedModule
      THEN EmbeddedModule[id[2]]
      ELSE GetModuleByName(st, id[1], id[2])

(* The loader deserializes what it fetches, whatever name it carries.      *)
Fetches(st, id) ==
    /\ FetchModuleBytes(st, id) # None
    /\ FetchModuleBytes(st, id).decodes

-----------------------------------------------------------------------------
(* The public surface as the ABI hash covers it: no module name, and of a  *)
(* declaration only the item and the encoded tokens.  A hash is            *)
(* represented by what it is computed from.                                *)
AbiHash(b) == {[item |-> e.item, tokens |-> e.tokens] : e \in b.exports}

(* Zero hash of a module published before ABI tracking.                    *)
ZeroAbi == None

AbiIsCompatible(old, new) == old = new

-----------------------------------------------------------------------------
(* Linking: what a module imports from the modules it depends on.          *)

ImmediateDependencies(b) == DOMAIN b.uses

(* verify_module of the dependency pass compares whole declarations.       *)
Links(b, d, dep) == b.uses[d] \subseteq dep.exports

Named(b, id) == <<b.addr, b.name>> = id
=============================================================================
