------------------------- MODULE PlanPublish_proofs -------------------------
(***************************************************************************)
(* Theorems about PlanPublish for every set of senders, bytes, bundles and *)
(* gas limits, and every value of the structural limits and prices.        *)
(***************************************************************************)
EXTENDS PlanPublish, WellFoundedInduction, SequenceTheorems, TLAPS

(* Types of the stored contracts and of the outputs in flight.             *)
TypeInv ==
    /\ store \in [ContractAddress -> Contracts \cup {None}]
    /\ out \in [Address -> Outputs \cup {None}]

(* An output in flight deploys at most one contract, of its own sender,    *)
(* and nothing has been deployed there since it was computed.              *)
OutputsDeployFresh ==
    \A a \in Address : out[a] # None =>
        \A c \in DOMAIN out[a].write_set :
            /\ c[1] = a
            /\ store[c] = None
            /\ \A d \in DOMAIN out[a].write_set : d = c

IInv == TypeInv /\ ContractsDescribeBundles /\ OutputsDeployFresh

-----------------------------------------------------------------------------
(* Induction over the natural numbers, for a set.                          *)
LEMMA NatSetInduction ==
  ASSUME NEW S, 0 \in S, \A n \in Nat : n \in S => n + 1 \in S
  PROVE  Nat \subseteq S
<1> DEFINE T == Nat \ S
<1> SUFFICES ASSUME T # {} PROVE FALSE
  OBVIOUS
<1>1. PICK x \in T : \A y \in T : ~(<<y, x>> \in OpToRel(<, Nat))
  BY NatLessThanWellFounded, WFMin
<1>2. x - 1 \in Nat /\ x - 1 \in T
  OBVIOUS
<1>3. <<x - 1, x>> \in OpToRel(<, Nat)
  BY <1>2 DEF OpToRel
<1> QED
  BY <1>1, <1>2, <1>3

(* A bundle's modules stored end to end are a sequence of bytes.           *)
LEMMA FlattenType ==
  ASSUME NEW B, NEW s \in Seq(Seq(B)), Len(s) > 0
  PROVE  FlattenSeq(s) \in Seq(B)
<1> DEFINE n == Len(s)
           Part(g, i) == IF i = 1 THEN s[i] ELSE g[i-1] \o s[i]
           Ends(g, k) == g \in [1..k -> Seq(B)] /\ \A i \in 1..k : g[i] = Part(g, i)
           Exists(k) == k + 1 > n \/ \E g : Ends(g, k + 1)
<1>1. n \in Nat /\ n > 0 /\ \A i \in 1..n : s[i] \in Seq(B)
  OBVIOUS
<1>2. Exists(0)
  <2> DEFINE g == [i \in 1..1 |-> s[1]]
  <2>1. Ends(g, 0 + 1)
    BY <1>1
  <2> HIDE DEF Ends
  <2> QED
    BY <2>1
<1>3. ASSUME NEW k \in Nat, Exists(k) PROVE Exists(k + 1)
  <2>1. CASE k + 1 >= n
    BY <2>1
  <2>2. CASE k + 1 < n
    <3>1. PICK g : Ends(g, k + 1)
      <4> HIDE DEF Ends
      <4> QED
        BY <1>1, <1>3, <2>2
    <3> DEFINE h == [i \in 1..(k + 2) |-> IF i = k + 2 THEN g[k+1] \o s[k+2] ELSE g[i]]
    <3>2. g[k+1] \o s[k+2] \in Seq(B)
      BY <1>1, <2>2, <3>1, ConcatProperties
    <3>3. h \in [1..(k + 2) -> Seq(B)]
      BY <3>1, <3>2
    <3>4. \A i \in 1..(k + 2) : h[i] = Part(h, i)
      <4> SUFFICES ASSUME NEW i \in 1..(k + 2) PROVE h[i] = Part(h, i)
        OBVIOUS
      <4>1. CASE i = k + 2
        <5>1. i # 1 /\ i - 1 = k + 1 /\ k + 1 \in 1..(k + 2) /\ k + 1 # k + 2
          BY <4>1
        <5>2. h[i] = g[k+1] \o s[i] /\ h[i-1] = g[k+1]
          BY <4>1, <5>1
        <5> QED
          BY <5>1, <5>2
      <4>2. CASE i # k + 2
        <5>1. i \in 1..(k + 1) /\ (i # 1 => i - 1 \in 1..(k + 1))
          BY <4>2
        <5>2. h[i] = g[i] /\ (i # 1 => h[i-1] = g[i-1])
          BY <5>1
        <5>3. g[i] = Part(g, i)
          BY <3>1, <5>1
        <5> QED
          BY <5>2, <5>3
      <4> QED
        BY <4>1, <4>2
    <3>5. Ends(h, (k + 1) + 1)
      BY <3>3, <3>4, (k + 1) + 1 = k + 2
    <3> QED
      BY <3>5
  <2> HIDE DEF Exists
  <2> QED
    BY <1>1, <2>1, <2>2
<1>4. PICK g : Ends(g, n)
  <2> HIDE DEF Exists
  <2> DEFINE S == {k \in Nat : Exists(k)}
  <2>1. 0 \in S /\ \A k \in Nat : k \in S => k + 1 \in S
    BY <1>2, <1>3
  <2>2. Nat \subseteq S
    <3> HIDE DEF S
    <3> QED
      BY <2>1, NatSetInduction
  <2>3. Exists(n - 1) /\ (n - 1) + 1 = n
    BY <1>1, <2>2
  <2> QED
    BY <1>1, <2>3 DEF Exists
<1>5. PICK f : /\ FlattenSeq(s) = f[n]
               /\ f = [i \in 1..n |-> IF i = 1 THEN s[i] ELSE f[i-1] \o s[i]]
  <2> DEFINE F == CHOOSE h : h = [i \in 1..n |-> IF i = 1 THEN s[i] ELSE h[i-1] \o s[i]]
  <2>1. g = [i \in 1..n |-> IF i = 1 THEN s[i] ELSE g[i-1] \o s[i]]
    BY <1>4
  <2>2. F = [i \in 1..n |-> IF i = 1 THEN s[i] ELSE F[i-1] \o s[i]]
    BY <2>1
  <2>3. FlattenSeq(s) = F[n]
    BY <1>1 DEF FlattenSeq
  <2> QED
    BY <2>2, <2>3
<1> DEFINE Good(k) == k + 1 > n \/ f[k + 1] \in Seq(B)
<1>6. \A i \in 1..n : f[i] = Part(f, i)
  BY <1>5
<1>7. Good(0)
  BY <1>1, <1>6
<1>8. ASSUME NEW k \in Nat, Good(k) PROVE Good(k + 1)
  <2>1. CASE k + 2 > n
    BY <2>1
  <2>2. CASE k + 2 <= n
    <3>1. f[k+1] \in Seq(B) /\ s[k+2] \in Seq(B)
      BY <1>1, <1>8, <2>2
    <3>2. f[k+2] = f[k+1] \o s[k+2]
      <4>1. k + 2 \in 1..n /\ k + 2 # 1 /\ (k + 2) - 1 = k + 1
        BY <1>1, <2>2
      <4>2. f[k+2] = Part(f, k + 2)
        BY <1>6, <4>1
      <4> QED
        BY <4>1, <4>2
    <3> QED
      BY <3>1, <3>2, ConcatProperties, (k + 1) + 1 = k + 2
  <2> QED
    BY <1>1, <2>1, <2>2
<1>9. Good(n - 1)
  <2> HIDE DEF Good
  <2> DEFINE S == {k \in Nat : Good(k)}
  <2>1. 0 \in S /\ \A k \in Nat : k \in S => k + 1 \in S
    BY <1>7, <1>8
  <2>2. Nat \subseteq S
    <3> HIDE DEF S
    <3> QED
      BY <2>1, NatSetInduction
  <2> QED
    BY <1>1, <2>2
<1> QED
  BY <1>1, <1>5, <1>9

-----------------------------------------------------------------------------
(* A gas estimate is an amount, as the sums saturate.                      *)
LEMMA EstimateType ==
  ASSUME NEW b \in Bundle, Verified(b)
  PROVE  Estimated(Bytecode(b)) \in 0..MaxU64
<1>1. PublishPerByte \in Nat /\ PublishBase \in 0..MaxU64 /\ MaxU64 \in Nat
  BY PlanPublishAssumption
<1>2. Len(Bytecode(b)) \in Nat
  <2>1. b \in Seq(Seq(Byte)) /\ Len(b) > 0
    BY PlanPublishAssumption DEF Verified
  <2> QED
    BY <2>1, FlattenType DEF Bytecode
<1>3. Len(Bytecode(b)) * PublishPerByte \in Nat
  BY <1>1, <1>2
<1>4. \A m \in Nat : Sat(m) \in 0..MaxU64
  BY <1>1 DEF Sat
<1>5. PublishBase + Sat(Len(Bytecode(b)) * PublishPerByte) \in Nat
  BY <1>1, <1>3, <1>4
<1> QED
  BY <1>4, <1>5 DEF Estimated

(* Outputs without writes are outputs.                                     *)
LEMMA NoWritesType ==
  /\ NoWrites \in WriteSets /\ DOMAIN NoWrites = {}
  /\ \A st \in {"AlreadyPublished", "OutOfGas", "Unsupported"}, g \in 0..MaxU64 :
       Output(st, g, NoWrites) \in Outputs
<1>1. NoWrites \in [{} -> Contracts] /\ {} \in SUBSET ContractAddress
  BY DEF NoWrites
<1>2. NoWrites \in WriteSets
  BY <1>1 DEF WriteSets
<1> QED
  BY <1>2 DEF NoWrites, Output, Outputs

(* The contract that a bundle makes, at its address.                       *)
LEMMA ContractFacts ==
  ASSUME NEW a \in Address, NEW b \in Bundle, Verified(b)
  PROVE  LET c == DeriveContractAddress(a, CodeHash(Bytecode(b)))
         IN  /\ c \in ContractAddress /\ c[1] = a
             /\ Contract(a, b) \in Contracts
             /\ Describes(c, Contract(a, b))
<1>1. Bytecode(b) \in Code
  BY DEF Code
<1>2. Len(b) \in Nat
  BY PlanPublishAssumption
<1>3. /\ Contract(a, b).code = Bytecode(b) /\ Contract(a, b).code_hash = CodeHash(Bytecode(b))
      /\ Contract(a, b).deployer = a /\ Contract(a, b).module_count = Len(b)
  BY DEF Contract
<1>4. Describes(DeriveContractAddress(a, CodeHash(Bytecode(b))), Contract(a, b))
  BY <1>3 DEF Describes
<1> QED
  BY <1>1, <1>2, <1>4 DEF ContractAddress, DeriveContractAddress, CodeHash, Contract, Contracts

(* What publish_verified_modules plans on the current view: nothing, or    *)
(* one contract of the sender where there is none.                         *)
LEMMA PlannedFacts ==
  ASSUME TypeInv, NEW a \in Address, NEW b \in Bundle, NEW l \in GasLimit, Verified(b)
  PROVE  /\ Planned(a, b, l) \in Outputs
         /\ \A c \in DOMAIN Planned(a, b, l).write_set :
              /\ c \in ContractAddress /\ c[1] = a /\ store[c] = None
              /\ Describes(c, Planned(a, b, l).write_set[c])
              /\ \A d \in DOMAIN Planned(a, b, l).write_set : d = c
<1> DEFINE c == DeriveContractAddress(a, CodeHash(Bytecode(b)))
           w == [x \in {c} |-> Contract(a, b)]
<1>1. PublishBase \in 0..MaxU64 /\ l \in 0..MaxU64
  BY PlanPublishAssumption
<1>2. CASE HasModule(c)
  <2>1. Planned(a, b, l) = Output("AlreadyPublished", PublishBase, NoWrites)
    BY <1>2 DEF Planned
  <2> QED
    BY <1>1, <2>1, NoWritesType DEF Output
<1>3. CASE ~HasModule(c) /\ ~Affordable(Bytecode(b), l)
  <2>1. Planned(a, b, l) = Output("OutOfGas", l, NoWrites)
    BY <1>3 DEF Planned
  <2> QED
    BY <1>1, <2>1, NoWritesType DEF Output
<1>4. CASE ~HasModule(c) /\ Affordable(Bytecode(b), l)
  <2>1. Planned(a, b, l) = Output("Success", Estimated(Bytecode(b)), w)
    BY <1>4 DEF Planned
  <2>2. /\ c \in ContractAddress /\ c[1] = a /\ store[c] = None
        /\ Contract(a, b) \in Contracts /\ Describes(c, Contract(a, b))
    BY <1>4, ContractFacts DEF HasModule
  <2> HIDE DEF c
  <2>3. w \in WriteSets
    <3>1. w \in [{c} -> Contracts] /\ {c} \in SUBSET ContractAddress
      BY <2>2
    <3> QED
      BY <3>1 DEF WriteSets
  <2>4. Output("Success", Estimated(Bytecode(b)), w) \in Outputs
    BY <2>3, EstimateType DEF Output, Outputs
  <2>5. Planned(a, b, l).write_set = w /\ DOMAIN w = {c} /\ w[c] = Contract(a, b)
    BY <2>1 DEF Output
  <2> QED
    BY <2>1, <2>2, <2>4, <2>5
<1> QED
  BY <1>2, <1>3, <1>4

-----------------------------------------------------------------------------
(* An applied output changes nothing, or deploys the one contract it holds *)
(* where there was none.                                                   *)
LEMMA AppliedFacts ==
  ASSUME IInv, NEW s \in Address, ApplyOutput(s)
  PROVE  /\ store' \in [ContractAddress -> Contracts \cup {None}]
         /\ \/ store' = store
            \/ \E c \in ContractAddress :
                 /\ c[1] = s /\ store[c] = None
                 /\ store'[c] \in Contracts /\ store'[c] # None /\ Describes(c, store'[c])
                 /\ \A x \in ContractAddress \ {c} : store'[x] = store[x]
<1> DEFINE w == out[s].write_set
<1>1. /\ out[s] \in Outputs
      /\ store' = [c \in ContractAddress |-> IF c \in DOMAIN w THEN w[c] ELSE store[c]]
  BY DEF ApplyOutput, IInv, TypeInv
<1>2. PICK D \in SUBSET ContractAddress : w \in [D -> Contracts]
  BY <1>1 DEF Outputs, WriteSets
<1>3. DOMAIN w = D /\ \A c \in D : w[c] \in Contracts /\ w[c] # None
  BY <1>2, NoneAssumption
<1>4. \A c \in D : c[1] = s /\ store[c] = None /\ Describes(c, w[c]) /\ \A d \in D : d = c
  <2>1. out[s] # None
    BY DEF ApplyOutput
  <2> QED
    BY <1>3, <2>1 DEF IInv, OutputsDeployFresh, ContractsDescribeBundles
<1>5. store \in [ContractAddress -> Contracts \cup {None}]
  BY DEF IInv, TypeInv
<1> HIDE DEF w
<1>6. store' \in [ContractAddress -> Contracts \cup {None}]
  BY <1>1, <1>3, <1>5
<1>7. CASE D = {}
  <2>1. store' = store
    BY <1>1, <1>3, <1>5, <1>7
  <2> QED
    BY <1>6, <2>1
<1>8. ASSUME NEW c \in D PROVE
        /\ c[1] = s /\ store[c] = None
        /\ store'[c] \in Contracts /\ store'[c] # None /\ Describes(c, store'[c])
        /\ \A x \in ContractAddress \ {c} : store'[x] = store[x]
  <2>1. c \in ContractAddress /\ store'[c] = w[c]
    BY <1>1, <1>3
  <2>2. \A x \in ContractAddress \ {c} : store'[x] = store[x]
    BY <1>1, <1>3, <1>4
  <2> QED
    BY <1>3, <1>4, <2>1, <2>2
<1> QED
  BY <1>6, <1>7, <1>8

(* The invariant holds before any contract.                                *)
LEMMA InitInv == Init => IInv
<1> SUFFICES ASSUME Init PROVE IInv
  OBVIOUS
<1>1. TypeInv
  BY DEF Init, TypeInv
<1>2. ContractsDescribeBundles /\ OutputsDeployFresh
  BY DEF Init, ContractsDescribeBundles, OutputsDeployFresh
<1> QED
  BY <1>1, <1>2 DEF IInv

(* An output that is computed on the current store keeps the invariant.    *)
LEMMA NewOutputInv ==
  ASSUME IInv, NEW a \in Address, NEW o \in Outputs,
         \A c \in DOMAIN o.write_set :
           /\ c \in ContractAddress /\ c[1] = a /\ store[c] = None
           /\ Describes(c, o.write_set[c])
           /\ \A d \in DOMAIN o.write_set : d = c,
         out' = [out EXCEPT ![a] = o], UNCHANGED store
  PROVE  IInv'
<1>1. TypeInv'
  BY DEF IInv, TypeInv
<1>2. out'[a] = o /\ \A x \in Address \ {a} : out'[x] = out[x]
  BY DEF IInv, TypeInv
<1>3. ContractsDescribeBundles'
  BY <1>2 DEF IInv, ContractsDescribeBundles, Describes
<1>4. OutputsDeployFresh'
  BY <1>2 DEF IInv, OutputsDeployFresh
<1> QED
  BY <1>1, <1>3, <1>4 DEF IInv

(* An output that is disposed of, applied or dropped.                      *)
LEMMA ApplyInv ==
  ASSUME IInv, NEW s \in Address, ApplyOutput(s)
  PROVE  IInv'
<1>1. out' = [out EXCEPT ![s] = None]
  BY DEF ApplyOutput
<1>2. out'[s] = None /\ \A x \in Address \ {s} : out'[x] = out[x]
  BY <1>1 DEF IInv, TypeInv
<1>3. TypeInv'
  BY <1>1, AppliedFacts DEF IInv, TypeInv
<1>4. ContractsDescribeBundles'
  <2>1. \A c \in ContractAddress : store'[c] # None => Describes(c, store'[c])
    BY AppliedFacts DEF IInv, ContractsDescribeBundles
  <2>2. \A a \in Address : out'[a] # None => a # s /\ out'[a] = out[a]
    BY <1>2
  <2> QED
    BY <2>1, <2>2 DEF IInv, ContractsDescribeBundles, Describes
<1>5. OutputsDeployFresh'
  <2> SUFFICES ASSUME NEW a \in Address, out'[a] # None, NEW c \in DOMAIN out'[a].write_set
               PROVE  /\ c[1] = a /\ store'[c] = None
                      /\ \A d \in DOMAIN out'[a].write_set : d = c
    BY DEF OutputsDeployFresh
  <2>1. a # s /\ out'[a] = out[a]
    BY <1>2
  <2>2. /\ c[1] = a /\ store[c] = None /\ c \in ContractAddress
        /\ \A d \in DOMAIN out[a].write_set : d = c
    BY <2>1 DEF IInv, OutputsDeployFresh, ContractsDescribeBundles
  <2>3. store'[c] = store[c]
    BY <2>1, <2>2, AppliedFacts
  <2> QED
    BY <2>1, <2>2, <2>3
<1> QED
  BY <1>3, <1>4, <1>5 DEF IInv

(* Every step keeps it.                                                    *)
LEMMA StepInv == IInv /\ [Next]_vars => IInv'
<1> SUFFICES ASSUME IInv, [Next]_vars PROVE IInv'
  OBVIOUS
<1>1. ASSUME NEW s \in Address, NEW l \in GasLimit, ExecuteUnsupported(s, l) PROVE IInv'
  <2> DEFINE o == Output("Unsupported", Smaller(l, UnsupportedGas), NoWrites)
  <2>1. Smaller(l, UnsupportedGas) \in 0..MaxU64
    BY PlanPublishAssumption DEF Smaller
  <2>2. o \in Outputs /\ DOMAIN o.write_set = {}
    BY <2>1, NoWritesType DEF Output
  <2>3. out' = [out EXCEPT ![s] = o] /\ UNCHANGED store
    BY <1>1 DEF ExecuteUnsupported
  <2> HIDE DEF o
  <2> QED
    BY <2>2, <2>3, NewOutputInv
<1>2. ASSUME NEW s \in Address, NEW l \in GasLimit, NEW b \in Bundle, PublishModules(s, b, l)
      PROVE  IInv'
  <2>1. Verified(b) /\ out' = [out EXCEPT ![s] = Planned(s, b, l)] /\ UNCHANGED store
    BY <1>2 DEF PublishModules
  <2>2. TypeInv
    BY DEF IInv
  <2> QED
    BY <2>1, <2>2, PlannedFacts, NewOutputInv
<1>3. ASSUME NEW s \in Address, ApplyOutput(s) PROVE IInv'
  BY <1>3, ApplyInv
<1>4. ASSUME NEW s \in Address, DropOutput(s) PROVE IInv'
  <2>1. out' = [out EXCEPT ![s] = None] /\ UNCHANGED store
    BY <1>4 DEF DropOutput
  <2>2. TypeInv'
    BY <2>1 DEF IInv, TypeInv
  <2>3. \A a \in Address : out'[a] # None => out'[a] = out[a]
    BY <2>1 DEF IInv, TypeInv
  <2>4. ContractsDescribeBundles' /\ OutputsDeployFresh'
    BY <2>1, <2>3 DEF IInv, ContractsDescribeBundles, OutputsDeployFresh, Describes
  <2> QED
    BY <2>2, <2>4 DEF IInv
<1>5. CASE UNCHANGED vars
  BY <1>5 DEF vars, IInv, TypeInv, ContractsDescribeBundles, OutputsDeployFresh, Describes
<1> QED
  BY <1>1, <1>2, <1>3, <1>4, <1>5 DEF Next

(* The steps that change the store.                                        *)
LEMMA StoreStep ==
  [Next]_vars => store' = store \/ \E s \in Address : ApplyOutput(s)
  BY DEF Next, ExecuteUnsupported, PublishModules, DropOutput, vars

-----------------------------------------------------------------------------
(* Contracts and outputs in flight have their types, outputs deploy fresh  *)
(* contracts only, and every contract describes a bundle.                  *)
THEOREM Invariance == Spec => []IInv
  BY InitInv, StepInv, PTL DEF Spec

(* The keys that publish_verified_modules writes describe one bundle that  *)
(* passed verify_publish_bundle, at the address derived from its deployer  *)
(* and its bytes, although two bundles can share their bytes.              *)
THEOREM ContractsAreBundles == Spec => []ContractsDescribeBundles
<1>1. IInv => ContractsDescribeBundles
  BY DEF IInv
<1> QED
  BY <1>1, Invariance, PTL

(* has_module is asked on the view of the call and the keys are written    *)
(* when the node applies the output: even so no contract is written over.  *)
THEOREM ContractsStay == Spec => ContractsPermanent
<1>1. IInv /\ [Next]_vars =>
        [\A c \in ContractAddress : store[c] # None => store'[c] = store[c]]_vars
  <2> SUFFICES ASSUME IInv, [Next]_vars, NEW c \in ContractAddress, store[c] # None
               PROVE  store'[c] = store[c]
    OBVIOUS
  <2> QED
    BY AppliedFacts, StoreStep
<1> QED
  BY <1>1, Invariance, PTL DEF Spec, ContractsPermanent

(* PlanningMoveVm with the node's commits implements CodeRegistry, with    *)
(* contracts for accounts: a step deploys one contract that was free, and  *)
(* seals it, or changes nothing.                                           *)
THEOREM PlanningImplementsRegistry == Spec => ImplementsRegistry
<1> DEFINE stageOf == [c \in ContractAddress |-> IF HasModule(c) THEN "sealed" ELSE "free"]
<1>1. Init => Registry!RegistryInit
  <2> SUFFICES ASSUME Init PROVE Registry!RegistryInit
    OBVIOUS
  <2>1. DOMAIN store = ContractAddress
    BY DEF Init
  <2> QED
    BY <2>1 DEF Registry!RegistryInit
<1>2. IInv /\ [Next]_vars => [Registry!RegistryNext]_(Registry!registryVars)
  <2> SUFFICES ASSUME IInv, [Next]_vars
               PROVE  [Registry!RegistryNext]_(Registry!registryVars)
    OBVIOUS
  <2>1. CASE store' = store
    BY <2>1 DEF Registry!registryVars, HasModule
  <2>2. ASSUME NEW s \in Address, ApplyOutput(s), store' # store
        PROVE  Registry!RegistryNext
    <3>1. PICK c \in ContractAddress :
            /\ store[c] = None /\ store'[c] # None
            /\ \A x \in ContractAddress \ {c} : store'[x] = store[x]
      BY <2>2, AppliedFacts
    <3>2. DOMAIN store' = ContractAddress
      BY <2>2, AppliedFacts
    <3>3. stageOf' = [stageOf EXCEPT ![c] = "sealed"]
      BY <3>1 DEF HasModule
    <3>4. stageOf[c] # "sealed"
      BY <3>1 DEF HasModule
    <3> QED
      BY <3>1, <3>2, <3>3, <3>4 DEF Registry!RegistryNext, Registry!Rewrite
  <2> QED
    BY <2>1, <2>2, StoreStep
<1> QED
  BY <1>1, <1>2, Invariance, PTL DEF Spec, ImplementsRegistry, Registry!RegistrySpec
=============================================================================
