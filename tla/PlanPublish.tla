---------------------------- MODULE PlanPublish ----------------------------
(***************************************************************************)
(* PlanningMoveVm, the backend without a bytecode engine: it checks the    *)
(* structure of a bundle (verify_publish_bundle), derives a contract       *)
(* address from the sender and the bundle's bytes, and plans the writes of *)
(* a contract (publish_verified_modules); calls and scripts are answered   *)
(* Unsupported.  The node runs one transaction of a sender at a time and   *)
(* applies its output later, or drops it.                                  *)
(***************************************************************************)
EXTENDS Naturals, SequencesExt

CONSTANTS
    Address,         \* senders
    Byte,            \* what modules are made of
    Bundle,          \* the bundles requests carry: sequences of modules
    GasLimit,        \* gas limits requests carry; 0 means none
    MaxModuleCount, MaxModuleSize, MaxTotalSize,     \* StructuralLimits
    PublishBase, PublishPerByte, UnsupportedGas,     \* VmConfig
    MaxU64,          \* the largest gas amount: sums saturate there
    None             \* no contract, no output

ASSUME PlanPublishAssumption ==
    /\ Bundle \subseteq Seq(Seq(Byte))
    /\ MaxU64 \in Nat /\ GasLimit \subseteq 0..MaxU64
    /\ {MaxModuleCount, MaxModuleSize, MaxTotalSize, PublishPerByte} \subseteq Nat
    /\ {PublishBase, UnsupportedGas} \subseteq 0..MaxU64

VARIABLES
    store,   \* contract address |-> contract or None
    out      \* sender |-> the VmOutput the node has not disposed of yet

vars == <<store, out>>

-----------------------------------------------------------------------------
(* verify_publish_bundle finds no error.                                   *)
Verified(bundle) ==
    /\ Len(bundle) \in 1..MaxModuleCount
    /\ Len(FlattenSeq(bundle)) <= MaxTotalSize
    /\ \A i \in DOMAIN bundle : Len(bundle[i]) \in 1..MaxModuleSize
    /\ IsInjective(bundle)

(* The modules' bytes are stored end to end; where one ends is not kept.   *)
Bytecode(bundle) == FlattenSeq(bundle)

Code == {Bytecode(b) : b \in {x \in Bundle : Verified(x)}}

(* A hash is represented by what it is computed from.                      *)
CodeHash(code) == code

(* Mutant: the address is that of the code, whoever deploys it.            *)
DeriveFromCode(deployer, hash) == <<CHOOSE a \in Address : TRUE, hash>>

DeriveContractAddress(deployer, hash) == <<deployer, hash>>

ContractAddress == Address \X Code

(* Mutant: a contract is published again over what is there.               *)
HasModuleNever(c) == FALSE

HasModule(c) == store[c] # None

-----------------------------------------------------------------------------
Sat(n) == IF n > MaxU64 THEN MaxU64 ELSE n

Estimated(code) == Sat(PublishBase + Sat(Len(code) * PublishPerByte))

(* An estimate that reaches the limit is refused; limit 0 refuses nothing. *)
Affordable(code, limit) == limit = 0 \/ Estimated(code) < limit

Smaller(m, n) == IF m < n THEN m ELSE n

-----------------------------------------------------------------------------
Output(status, gas, writes) == [status |-> status, gas_used |-> gas, write_set |-> writes]

NoWrites == [c \in {} |-> None]

(* The contracts that can be stored, and the outputs there can be.         *)
Contracts == [code : Code, code_hash : Code, deployer : Address, module_count : Nat]
WriteSets == UNION {[D -> Contracts] : D \in SUBSET ContractAddress}
Outputs == [status : {"AlreadyPublished", "OutOfGas", "Success", "Unsupported"},
            gas_used : 0..MaxU64, write_set : WriteSets]

ASSUME NoneAssumption == None \notin Contracts /\ None \notin Outputs

(* Mutant: the count is that of the stored bytes.                          *)
ContractCountingBytes(sender, bundle) ==
    [code |-> Bytecode(bundle), code_hash |-> CodeHash(Bytecode(bundle)),
     deployer |-> sender, module_count |-> Len(Bytecode(bundle))]

(* The four keys of a contract, always written together.                   *)
Contract(sender, bundle) ==
    [code |-> Bytecode(bundle), code_hash |-> CodeHash(Bytecode(bundle)),
     deployer |-> sender, module_count |-> Len(bundle)]

(* publish_verified_modules on a bundle that verifies.                     *)
Planned(sender, bundle, limit) ==
    LET code == Bytecode(bundle)
        c    == DeriveContractAddress(sender, CodeHash(code))
    IN  IF HasModule(c) THEN Output("AlreadyPublished", PublishBase, NoWrites)
        ELSE IF ~Affordable(code, limit) THEN Output("OutOfGas", limit, NoWrites)
        ELSE Output("Success", Estimated(code), [x \in {c} |-> Contract(sender, bundle)])

Init ==
    /\ store = [c \in ContractAddress |-> None]
    /\ out = [a \in Address |-> None]

(* A bundle that does not verify is an Err, which leaves nothing.          *)
PublishModules(sender, bundle, limit) ==
    /\ out[sender] = None
    /\ Verified(bundle)
    /\ out' = [out EXCEPT ![sender] = Planned(sender, bundle, limit)]
    /\ UNCHANGED store

(* execute_function and execute_script.                                    *)
ExecuteUnsupported(sender, limit) ==
    /\ out[sender] = None
    /\ out' = [out EXCEPT ![sender] =
                 Output("Unsupported", Smaller(limit, UnsupportedGas), NoWrites)]
    /\ UNCHANGED store

ApplyOutput(sender) ==
    /\ out[sender] # None
    /\ store' = [c \in ContractAddress |->
                   IF c \in DOMAIN out[sender].write_set THEN out[sender].write_set[c]
                                                         ELSE store[c]]
    /\ out' = [out EXCEPT ![sender] = None]

DropOutput(sender) ==
    /\ out[sender] # None
    /\ out' = [out EXCEPT ![sender] = None]
    /\ UNCHANGED store

Next ==
    \E sender \in Address :
      \/ \E limit \in GasLimit :
           \/ ExecuteUnsupported(sender, limit)
           \/ \E bundle \in Bundle : PublishModules(sender, bundle, limit)
      \/ ApplyOutput(sender)
      \/ DropOutput(sender)

Spec == Init /\ [][Next]_vars

-----------------------------------------------------------------------------
(* A contract's keys describe one bundle that verifies, and its address is *)
(* derived from its own deployer and code hash.                            *)
Describes(c, contract) ==
    /\ c = DeriveContractAddress(contract.deployer, contract.code_hash)
    /\ contract.code_hash = CodeHash(contract.code)
    /\ \E b \in Bundle :
         Verified(b) /\ contract.code = Bytecode(b) /\ contract.module_count = Len(b)

(* What is stored, and what an output still to be applied would store.     *)
ContractsDescribeBundles ==
    /\ \A c \in ContractAddress : store[c] # None => Describes(c, store[c])
    /\ \A a \in Address : out[a] # None =>
         \A c \in DOMAIN out[a].write_set :
           c \in ContractAddress /\ Describes(c, out[a].write_set[c])

(* A contract never changes once it is deployed: not by its deployer's     *)
(* publishing the same bytes again, not by another account's publishing    *)
(* them, and not by an output computed before it was deployed.             *)
ContractsPermanent ==
    [][\A c \in ContractAddress : store[c] # None => store'[c] = store[c]]_vars

(* The contracts are a registry of code in which every deployment seals.   *)
Registry == INSTANCE CodeRegistry
              WITH Address <- ContractAddress, content <- store,
                   stage <- [c \in ContractAddress |->
                               IF HasModule(c) THEN "sealed" ELSE "free"]

(* Planning implements that registry: an applied output deploys one free   *)
(* contract and touches no other.                                          *)
ImplementsRegistry == Registry!RegistrySpec
=============================================================================
