---------------------------- MODULE MovePublish ----------------------------
(***************************************************************************)
(* RealMoveVm::publish_modules and the node that applies its outputs.      *)
(* A call reads a state view, decides, and returns a VmOutput; the node    *)
(* applies the output's changes later, or never.  The node runs one        *)
(* transaction of an account at a time, so an account has at most one      *)
(* output in flight, but outputs of different accounts may be applied in   *)
(* any order and after the state they were computed from has changed.      *)
(***************************************************************************)
EXTENDS CodeStore

CONSTANTS
    LegacyBlob,   \* modules already stored by a version without per-module keys
    MaxModules    \* bound: modules in one request

VARIABLES
    store,   \* account |-> (state key |-> value)
    out      \* account |-> the VmOutput the node has not disposed of yet

vars == <<store, out>>

UpgradePolicy == {"Immutable", "Compatible", "GovernanceOnly"}

Bundle == UNION {[1..n -> Blob] : n \in 0..MaxModules}

(* PackageMetadata: name, package_hash and module_hashes describe one      *)
(* module and are represented by it; the deployer is the account.          *)
Metadata == [module : Blob, abi_hash : {ZeroAbi} \cup {AbiHash(b) : b \in Blob},
             upgrade_policy : UpgradePolicy]

Status == {"Success", "AlreadyPublished", "GovernanceRequired", "AbiIncompatible", "Error"}

ASSUME MovePublishAssumption ==
    /\ LegacyBlob \subseteq Blob
    /\ MaxModules \in Nat
    /\ None \notin Metadata \cup UpgradePolicy
    /\ \A b \in Blob : AbiHash(b) # ZeroAbi

-----------------------------------------------------------------------------
(* The checks on one module, in the order the loop makes them.             *)

(* The stored policy; code without metadata counts as Immutable.           *)
StoredPolicy(st, a) ==
    IF st[a][MetadataKey] = None THEN "Immutable" ELSE st[a][MetadataKey].upgrade_policy

StoredAbi(st, a) ==
    IF st[a][MetadataKey] = None THEN ZeroAbi ELSE st[a][MetadataKey].abi_hash

(* Mutant: only modules of one name are compared.                          *)
AbiAcceptedByName(st, a, b) ==
    \/ StoredAbi(st, a) = ZeroAbi
    \/ st[a][MetadataKey].module.name # b.name
    \/ AbiIsCompatible(StoredAbi(st, a), AbiHash(b))

(* Mutant: modules of one name are not compared.                           *)
AbiAcceptedOfOther(st, a, b) ==
    \/ StoredAbi(st, a) = ZeroAbi
    \/ st[a][MetadataKey].module.name = b.name
    \/ AbiIsCompatible(StoredAbi(st, a), AbiHash(b))

AbiAccepted(st, a, b) ==
    StoredAbi(st, a) = ZeroAbi \/ AbiIsCompatible(StoredAbi(st, a), AbiHash(b))

(* Mutant: the policy protects module names that exist, not the account.   *)
UpgradeStatusPerModule(st, a, b) ==
    IF st[a][ModuleCodeKey(b.name)] # None /\ StoredPolicy(st, a) # "Compatible"
      THEN "AlreadyPublished" ELSE "Success"

(* Mutant: GovernanceOnly is not enforced.                                 *)
UpgradeStatusUngoverned(st, a, b) ==
    CASE ~HasModule(st, a) -> "Success"
      [] HasModule(st, a) /\ StoredPolicy(st, a) = "Immutable" -> "AlreadyPublished"
      [] HasModule(st, a) /\ StoredPolicy(st, a) # "Immutable" ->
           IF AbiAccepted(st, a, b) THEN "Success" ELSE "AbiIncompatible"

UpgradeStatus(st, a, b) ==
    CASE ~HasModule(st, a)                      -> "Success"
      [] HasModule(st, a) /\ StoredPolicy(st, a) = "Immutable"      -> "AlreadyPublished"
      [] HasModule(st, a) /\ StoredPolicy(st, a) = "GovernanceOnly" -> "GovernanceRequired"
      [] HasModule(st, a) /\ StoredPolicy(st, a) = "Compatible"     ->
           IF AbiAccepted(st, a, b) THEN "Success" ELSE "AbiIncompatible"

DependencyMustExist(d, sender) == d[1] # sender /\ d[1] # Framework

(* Mutant: the dependency's bytes are only looked for, never built.        *)
DependencyPresent(st, sender, d) ==
    FetchModuleBytes(st, d) # None \/ ~DependencyMustExist(d, sender)

(* check_module_exists builds what it fetches, so undecodable bytes are an *)
(* error whoever the dependency belongs to.                                *)
DependencyAccepted(st, sender, d) ==
    IF FetchModuleBytes(st, d) = None
      THEN ~DependencyMustExist(d, sender)
      ELSE FetchModuleBytes(st, d).decodes

ModuleStatus(st, sender, b) ==
    IF ~b.decodes \/ b.addr # sender THEN "Error"
    ELSE IF UpgradeStatus(st, sender, b) # "Success" THEN UpgradeStatus(st, sender, b)
    ELSE IF /\ b.verifies
            /\ \A d \in ImmediateDependencies(b) : DependencyAccepted(st, sender, d)
      THEN "Success"
    ELSE "Error"

-----------------------------------------------------------------------------
(* The writes of an accepted bundle, None where a key is left alone.  Each *)
(* module writes its own key and the three keys of the account, so the     *)
(* last module of the bundle decides those three, and the last of two      *)
(* modules of one name its key.                                            *)

(* Mutant: the first of two modules of one name decides its key.           *)
FirstNamed(bundle, n) ==
    bundle[CHOOSE i \in DOMAIN bundle :
             /\ bundle[i].name = n
             /\ \A j \in DOMAIN bundle : bundle[j].name = n => i <= j]

LastNamed(bundle, n) ==
    bundle[CHOOSE i \in DOMAIN bundle :
             /\ bundle[i].name = n
             /\ \A j \in DOMAIN bundle : bundle[j].name = n => j <= i]

MetadataOf(b, policy) ==
    [module |-> b, abi_hash |-> AbiHash(b), upgrade_policy |-> policy]

AccountKeys == {CodeKey, CodeHashKey, MetadataKey}

Last(bundle) == bundle[Len(bundle)]

(* Mutant: the metadata is written under the key of the code hash too.     *)
WriteAtMisplaced(bundle, policy, k) ==
    IF bundle # <<>> /\ k # CodeKey THEN MetadataOf(Last(bundle), policy) ELSE None

WriteAt(bundle, policy, k) ==
    CASE bundle = <<>> -> None
      [] bundle # <<>> /\ k = MetadataKey -> MetadataOf(Last(bundle), policy)
      [] bundle # <<>> /\ k \in {CodeKey, CodeHashKey} -> Last(bundle)
      [] bundle # <<>> /\ k \notin AccountKeys ->
           IF \E i \in DOMAIN bundle : k = ModuleCodeKey(bundle[i].name)
             THEN LastNamed(bundle, k[2])
             ELSE None

WriteSet(bundle, policy) == [k \in Key |-> WriteAt(bundle, policy, k)]

(* A request without a policy means Immutable.                             *)
RequestedPolicy(p) == IF p = None THEN "Immutable" ELSE p

-----------------------------------------------------------------------------
FreshAccount == [k \in Key |-> None]

NoWrites == [k \in Key |-> None]

(* What a version without per-module keys has left behind: code and hash,  *)
(* and perhaps metadata without an ABI hash.                               *)
LegacyMetadata(b) ==
    {None} \cup
    {[module |-> b, abi_hash |-> ZeroAbi, upgrade_policy |-> p] : p \in UpgradePolicy}

LegacyAccount(b, m) ==
    [k \in Key |-> CASE k \in {CodeKey, CodeHashKey} -> b
                     [] k = MetadataKey -> m
                     [] OTHER -> None]

InitialAccount(a) ==
    {FreshAccount} \cup
    UNION {{LegacyAccount(b, m) : m \in LegacyMetadata(b)} : b \in {x \in LegacyBlob : x.addr = a}}

Init ==
    /\ store \in {st \in [Address -> UNION {InitialAccount(a) : a \in Address}] :
                    \A a \in Address : st[a] \in InitialAccount(a)}
    /\ out = [a \in Address |-> None]

(* The loop returns at the first module that fails, with nothing written.  *)
PublishRefused(sender, bundle, i) ==
    /\ out[sender] = None
    /\ i \in DOMAIN bundle
    /\ \A j \in 1..(i - 1) : ModuleStatus(store, sender, bundle[j]) = "Success"
    /\ ModuleStatus(store, sender, bundle[i]) # "Success"
    /\ out' = [out EXCEPT ![sender] =
                [status |-> ModuleStatus(store, sender, bundle[i]), write_set |-> NoWrites]]
    /\ UNCHANGED store

(* Every module passed; each was compared with the state view, never with  *)
(* the modules before it in the bundle.                                    *)
PublishAccepted(sender, bundle, policy) ==
    /\ out[sender] = None
    /\ \A i \in DOMAIN bundle : ModuleStatus(store, sender, bundle[i]) = "Success"
    /\ out' = [out EXCEPT ![sender] =
                [status |-> "Success",
                 write_set |-> WriteSet(bundle, RequestedPolicy(policy))]]
    /\ UNCHANGED store

(* Mutant: an output replaces the account, so keys it leaves alone vanish. *)
WrittenWhole(account, writes) == writes

Written(account, writes) ==
    [k \in Key |-> IF writes[k] # None THEN writes[k] ELSE account[k]]

(* The node commits an output: its writes replace what the keys held.      *)
ApplyOutput(a) ==
    /\ out[a] # None
    /\ store' = [store EXCEPT ![a] = Written(store[a], out[a].write_set)]
    /\ out' = [out EXCEPT ![a] = None]

(* The node abandons an output: the block is not committed, or a restart   *)
(* loses what was not applied.                                             *)
DropOutput(a) ==
    /\ out[a] # None
    /\ out' = [out EXCEPT ![a] = None]
    /\ UNCHANGED store

Next ==
    \E a \in Address :
      \/ \E bundle \in Bundle : \E i \in 1..MaxModules : PublishRefused(a, bundle, i)
      \/ \E bundle \in Bundle : \E p \in UpgradePolicy \cup {None} :
           PublishAccepted(a, bundle, p)
      \/ ApplyOutput(a)
      \/ DropOutput(a)

Spec == Init /\ [][Next]_vars

-----------------------------------------------------------------------------
(* Every key holds the kind of value it is for, in the store and in the    *)
(* outputs still to be applied.                                            *)
Account ==
    {r \in [Key -> {None} \cup Blob \cup Metadata] :
       \A k \in Key : r[k] \in {None} \cup (IF k = MetadataKey THEN Metadata ELSE Blob)}

VmOutput == [status : Status, write_set : Account]

TypeOK ==
    /\ store \in [Address -> Account]
    /\ out \in [Address -> {None} \cup VmOutput]

-----------------------------------------------------------------------------
Locked(st, a) == HasModule(st, a) /\ StoredPolicy(st, a) # "Compatible"

(* An account whose stored policy is Immutable or GovernanceOnly, or whose *)
(* code has no metadata, never changes again: not by a later publish of    *)
(* any module name, and not by an output computed before it was locked.    *)
LockedForever ==
    [][\A a \in Address : Locked(store, a) => store'[a] = store[a]]_vars

(* Once an account carries an ABI hash, every later publish there has the  *)
(* same one, however modules are bundled and named.                        *)
AbiFrozen ==
    [][\A a \in Address :
         StoredAbi(store, a) # ZeroAbi => StoredAbi(store', a) = StoredAbi(store, a)]_vars

(* The keys of an account describe one and the same module, which is also  *)
(* the one under its own name unless it predates per-module keys; the      *)
(* metadata's ABI hash, where there is one, is that module's.              *)
KeysAgree(r) ==
    /\ r[CodeHashKey] = r[CodeKey]
    /\ r[MetadataKey] # None => r[MetadataKey].module = r[CodeKey]
    /\ r[MetadataKey] # None /\ r[MetadataKey].abi_hash # ZeroAbi =>
         /\ r[MetadataKey].abi_hash = AbiHash(r[CodeKey])
         /\ r[ModuleCodeKey(r[CodeKey].name)] = r[CodeKey]
    /\ \A n \in Name : r[ModuleCodeKey(n)] # None =>
         r[MetadataKey] # None /\ r[MetadataKey].abi_hash # ZeroAbi

(* After any sequence of bundles, last-writer-wins leaves no account whose *)
(* hash, metadata or named module belong to a different module than code.  *)
RecordAgrees == \A a \in Address : KeysAgree(store[a])

(* A module passed every check made of it: it is at home, verifies alone,  *)
(* and each dependency on another account finds bytes that deserialize.    *)
Checked(st, a, n, b) ==
    /\ Named(b, <<a, n>>)
    /\ b.decodes /\ b.verifies
    /\ \A d \in ImmediateDependencies(b) : DependencyMustExist(d, a) => Fetches(st, d)

(* What is installed under a module key stays checked although its         *)
(* dependencies' accounts are rewritten after it was.                      *)
InstalledChecked ==
    \A a \in Address, n \in Name :
      store[a][ModuleCodeKey(n)] # None => Checked(store, a, n, store[a][ModuleCodeKey(n)])

(* An output decided on an old state view is still right when it is        *)
(* applied: in between nobody locked its account, changed the ABI hash it  *)
(* was compared with, or took away a dependency.                           *)
OutputsStayValid ==
    \A a \in Address :
      out[a] # None /\ out[a].write_set # NoWrites =>
        LET w == out[a].write_set IN
        /\ ~Locked(store, a)
        /\ w[CodeKey] # None /\ w[CodeKey].decodes
        /\ w[MetadataKey] # None
        /\ w[MetadataKey].abi_hash # ZeroAbi
        /\ StoredAbi(store, a) \in {ZeroAbi, w[MetadataKey].abi_hash}
        /\ KeysAgree(w)
        /\ \A n \in Name : w[ModuleCodeKey(n)] # None => Checked(store, a, n, w[ModuleCodeKey(n)])

LinkedTo(st, b, d) ==
    /\ Fetches(st, d)
    /\ Named(FetchModuleBytes(st, d), d)
    /\ Links(b, d, FetchModuleBytes(st, d))

(* The promise of the Compatible policy: replacing a module does not break *)
(* an installed caller that was linked to it.                              *)
CallersKeepLinking ==
    [][\A a \in Address, n \in Name :
         LET b == store[a][ModuleCodeKey(n)] IN
         b # None /\ store'[a][ModuleCodeKey(n)] = b =>
           \A d \in ImmediateDependencies(b) : LinkedTo(store, b, d) => LinkedTo(store', b, d)]_store

(* Where the promise is kept: for an account with an ABI hash that holds,  *)
(* after the step as before, no module but the one depended on, whenever   *)
(* the ABI hash tells the declarations of modules apart.                   *)
HashFaithful == \A x, y \in Blob : AbiHash(x) = AbiHash(y) => x.exports = y.exports

SoleModuleKeepsLinking ==
    [][HashFaithful => \A a \in Address, n \in Name :
         LET b == store[a][ModuleCodeKey(n)] IN
         b # None /\ store'[a][ModuleCodeKey(n)] = b =>
           \A d \in ImmediateDependencies(b) :
             /\ LinkedTo(store, b, d) /\ StoredAbi(store, d[1]) # ZeroAbi
             /\ \A m \in Name : m # d[2] => store'[d[1]][ModuleCodeKey(m)] = None
             => LinkedTo(store', b, d)]_store

(* A module is installed only if the modules of other accounts it depends  *)
(* on exist, as the modules it names.                                      *)
DependenciesExist ==
    \A a \in Address, n \in Name :
      LET b == store[a][ModuleCodeKey(n)] IN
      b # None =>
        \A d \in ImmediateDependencies(b) :
          DependencyMustExist(d, a) =>
            FetchModuleBytes(store, d) # None /\ Named(FetchModuleBytes(store, d), d)

-----------------------------------------------------------------------------
(* The accounts form a registry of free, open and sealed code.             *)
Stage(st, a) ==
    IF ~HasModule(st, a) THEN "free" ELSE IF Locked(st, a) THEN "sealed" ELSE "open"

Registry == INSTANCE CodeRegistry
              WITH stage <- [a \in Address |-> Stage(store, a)], content <- store

(* Publishing implements that registry: every commit rewrites one account  *)
(* that is not sealed, and nothing else changes any account.               *)
ImplementsRegistry == Registry!RegistrySpec
=============================================================================
