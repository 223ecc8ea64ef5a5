------------------------- MODULE MovePublish_proofs -------------------------
(***************************************************************************)
(* Theorems about MovePublish for every set of accounts, names, module     *)
(* bytes and embedded modules, and for bundles of any length.              *)
(***************************************************************************)
EXTENDS MovePublish, WellFoundedInduction, TLAPS

(* State keys of different kinds, and of different modules, differ.        *)
LEMMA KeysDistinct ==
    /\ CodeKey # CodeHashKey /\ CodeKey # MetadataKey /\ CodeHashKey # MetadataKey
    /\ \A n : ModuleCodeKey(n) \notin AccountKeys
    /\ \A n : ModuleCodeKey(n)[2] = n
    /\ \A k \in Key \ AccountKeys : \E n \in Name : k = ModuleCodeKey(n)
    /\ AccountKeys \subseteq Key
    /\ \A n \in Name : ModuleCodeKey(n) \in Key
  BY DEF CodeKey, CodeHashKey, MetadataKey, ModuleCodeKey, AccountKeys, Key

(* A bounded, nonempty set of numbers has a largest element.               *)
LEMMA LargestIndex ==
  ASSUME NEW n \in Nat, NEW S, S \subseteq 1..n, S # {}
  PROVE  \E i \in S : \A j \in S : j <= i
<1> DEFINE T == {n - i : i \in S}
<1>1. T \subseteq Nat /\ T # {}
  <2>1. \A i \in S : n - i \in Nat
    OBVIOUS
  <2> QED
    BY <2>1
<1>2. PICK t \in T : \A u \in T : ~(<<u, t>> \in OpToRel(<, Nat))
  BY <1>1, NatLessThanWellFounded, WFMin
<1>3. PICK i \in S : t = n - i
  OBVIOUS
<1>4. \A j \in S : j <= i
  <2> SUFFICES ASSUME NEW j \in S PROVE j <= i
    OBVIOUS
  <2>1. n - j \in T /\ n - j \in Nat /\ t \in Nat
    BY <1>1
  <2>2. ~(n - j < t)
    BY <1>2, <2>1 DEF OpToRel
  <2> QED
    BY <2>2, <1>3, i \in 1..n, j \in 1..n
<1> QED
  BY <1>4

(* LastNamed finds a module of the bundle with the name asked for.         *)
LEMMA LastNamedInBundle ==
  ASSUME NEW bundle \in Bundle, NEW i \in DOMAIN bundle
  PROVE  \E j \in DOMAIN bundle :
           /\ LastNamed(bundle, bundle[i].name) = bundle[j]
           /\ bundle[j].name = bundle[i].name
<1> DEFINE S == {j \in DOMAIN bundle : bundle[j].name = bundle[i].name}
<1>1. PICK n \in 0..MaxModules : bundle \in [1..n -> Blob]
  BY DEF Bundle
<1>2. n \in Nat /\ S \subseteq 1..n /\ S # {}
  BY <1>1, MovePublishAssumption
<1>3. PICK j \in S : \A k \in S : k <= j
  BY <1>2, LargestIndex
<1>4. \E x \in DOMAIN bundle :
        /\ bundle[x].name = bundle[i].name
        /\ \A k \in DOMAIN bundle : bundle[k].name = bundle[i].name => k <= x
  BY <1>3
<1> QED
  BY <1>4 DEF LastNamed

(* A bundle that is not empty is a sequence with a last module.            *)
LEMMA BundleLast ==
  ASSUME NEW bundle \in Bundle, bundle # <<>>
  PROVE  /\ Len(bundle) \in DOMAIN bundle
         /\ \A i \in DOMAIN bundle : i <= Len(bundle) /\ i \in Nat /\ bundle[i] \in Blob
         /\ Last(bundle) \in Blob
<1>1. PICK n \in 0..MaxModules : bundle \in [1..n -> Blob]
  BY DEF Bundle
<1>2. n \in Nat /\ bundle \in Seq(Blob) /\ Len(bundle) = n /\ DOMAIN bundle = 1..n
  BY <1>1, MovePublishAssumption
<1>3. n # 0
  BY <1>2
<1> QED
  BY <1>1, <1>2, <1>3 DEF Last

(* What the assumption on blobs says of one.                               *)
LEMMA BlobFacts ==
  ASSUME NEW b \in Blob
  PROVE  /\ b # None /\ b.addr \in Address /\ b.name \in Name
         /\ b.decodes \in BOOLEAN /\ b.verifies \in BOOLEAN
         /\ ModuleCodeKey(b.name) \in Key \ AccountKeys
         /\ ImmediateDependencies(b) \subseteq ModuleId
  BY CodeStoreAssumption, KeysDistinct DEF BlobTyped, ImmediateDependencies

(* The metadata written for a module describes that module.                *)
LEMMA MetadataOfTyped ==
  ASSUME NEW b \in Blob, NEW p \in UpgradePolicy
  PROVE  /\ MetadataOf(b, p) \in Metadata
         /\ MetadataOf(b, p) # None
         /\ MetadataOf(b, p).module = b
         /\ MetadataOf(b, p).abi_hash = AbiHash(b)
         /\ AbiHash(b) # ZeroAbi
  BY MovePublishAssumption DEF MetadataOf, Metadata

(* What an accepted bundle writes.                                         *)
LEMMA WriteSetFacts ==
  ASSUME NEW bundle \in Bundle, bundle # <<>>, NEW p \in UpgradePolicy,
         NEW w, w = WriteSet(bundle, p)
  PROVE  /\ w \in Account
         /\ w[CodeKey] = Last(bundle)
         /\ w[CodeHashKey] = Last(bundle)
         /\ w[MetadataKey] = MetadataOf(Last(bundle), p)
         /\ w[ModuleCodeKey(Last(bundle).name)] = Last(bundle)
         /\ \A n \in Name : w[ModuleCodeKey(n)] # None =>
              \E j \in DOMAIN bundle : w[ModuleCodeKey(n)] = bundle[j] /\ bundle[j].name = n
<1>1. /\ w[CodeKey] = Last(bundle)
      /\ w[CodeHashKey] = Last(bundle)
      /\ w[MetadataKey] = MetadataOf(Last(bundle), p)
  BY KeysDistinct DEF WriteSet, WriteAt, AccountKeys
<1>2. ASSUME NEW n \in Name, w[ModuleCodeKey(n)] # None
      PROVE  \E j \in DOMAIN bundle : w[ModuleCodeKey(n)] = bundle[j] /\ bundle[j].name = n
  <2>1. /\ w[ModuleCodeKey(n)] = LastNamed(bundle, n)
        /\ \E i \in DOMAIN bundle : ModuleCodeKey(n) = ModuleCodeKey(bundle[i].name)
    BY <1>2, KeysDistinct DEF WriteSet, WriteAt, AccountKeys
  <2>2. PICK i \in DOMAIN bundle : bundle[i].name = n
    BY <2>1, KeysDistinct
  <2> QED
    BY <2>1, <2>2, LastNamedInBundle
<1>3. w[ModuleCodeKey(Last(bundle).name)] = Last(bundle)
  <2> DEFINE n == Last(bundle).name
             L == Len(bundle)
  <2>1. L \in DOMAIN bundle /\ bundle[L] = Last(bundle) /\ n \in Name
    BY BundleLast, BlobFacts DEF Last
  <2>2. w[ModuleCodeKey(n)] = LastNamed(bundle, n)
    BY <2>1, KeysDistinct DEF WriteSet, WriteAt, AccountKeys
  <2>3. \A i \in DOMAIN bundle :
          /\ bundle[i].name = n
          /\ \A j \in DOMAIN bundle : bundle[j].name = n => j <= i
          => i = L
    <3> SUFFICES ASSUME NEW i \in DOMAIN bundle,
                        \A j \in DOMAIN bundle : bundle[j].name = n => j <= i
                 PROVE  i = L
      OBVIOUS
    <3>1. L <= i /\ i <= L /\ i \in Nat /\ L \in Nat
      BY <2>1, BundleLast
    <3> QED
      BY <3>1
  <2>4. \A j \in DOMAIN bundle : bundle[j].name = n => j <= L
    BY BundleLast
  <2>5. LastNamed(bundle, n) = bundle[L]
    BY <2>1, <2>3, <2>4 DEF LastNamed
  <2> QED
    BY <2>1, <2>2, <2>5
<1>4. w \in Account
  <2>1. w = [k \in Key |-> w[k]]
    BY DEF WriteSet
  <2>2. ASSUME NEW k \in Key
        PROVE  w[k] \in {None} \cup (IF k = MetadataKey THEN Metadata ELSE Blob)
    <3>1. CASE k \in AccountKeys
      BY <3>1, <1>1, BundleLast, MetadataOfTyped, KeysDistinct DEF AccountKeys
    <3>2. CASE k \notin AccountKeys
      <4>1. PICK n \in Name : k = ModuleCodeKey(n)
        BY <3>2, KeysDistinct
      <4>2. w[k] = None \/ w[k] \in Blob
        BY <4>1, <1>2, BundleLast
      <4> QED
        BY <4>1, <4>2, KeysDistinct DEF AccountKeys
    <3> QED
      BY <3>1, <3>2
  <2> QED
    BY <2>1, <2>2 DEF Account
<1> QED
  BY <1>1, <1>2, <1>3, <1>4

(* A bundle without modules writes nothing.                                *)
LEMMA EmptyWriteSet ==
  ASSUME NEW p
  PROVE  WriteSet(<<>>, p) = NoWrites
<1>1. \A k \in Key : WriteAt(<<>>, p, k) = None
  BY DEF WriteAt
<1> QED
  BY <1>1 DEF WriteSet, NoWrites

(* Applying writes replaces the written keys and keeps the others.         *)
LEMMA WrittenFacts ==
  ASSUME NEW r \in Account, NEW w \in Account
  PROVE  /\ Written(r, w) \in Account
         /\ \A k \in Key : Written(r, w)[k] = IF w[k] # None THEN w[k] ELSE r[k]
         /\ w = NoWrites => Written(r, w) = r
         /\ DOMAIN w = Key
<1>1. \A k \in Key : Written(r, w)[k] = IF w[k] # None THEN w[k] ELSE r[k]
  BY DEF Written
<1>2. Written(r, w) \in Account
  BY <1>1 DEF Written, Account
<1>3. w = NoWrites => Written(r, w) = r
  BY DEF NoWrites, Written, Account
<1> QED
  BY <1>1, <1>2, <1>3 DEF Account

(* The values of an account, key by key.                                   *)
LEMMA AccountValues ==
  ASSUME NEW r \in Account
  PROVE  /\ r[CodeKey] \in {None} \cup Blob
         /\ r[CodeHashKey] \in {None} \cup Blob
         /\ r[MetadataKey] \in {None} \cup Metadata
         /\ \A n \in Name : r[ModuleCodeKey(n)] \in {None} \cup Blob
  BY KeysDistinct DEF Account, AccountKeys

(* The empty write set is typed as a write set.                            *)
LEMMA NoWritesIsAccount == NoWrites \in Account
  BY DEF NoWrites, Account

(* A module's status is its own or that of the upgrade check.              *)
LEMMA StatusTyped ==
  ASSUME NEW st, NEW a, NEW b
  PROVE  ModuleStatus(st, a, b) \in Status \/ ModuleStatus(st, a, b) = UpgradeStatus(st, a, b)
  BY DEF ModuleStatus, Status

(* The upgrade check answers with a status.                                *)
LEMMA UpgradeStatusTyped ==
  ASSUME NEW st \in [Address -> Account], NEW a \in Address, NEW b \in Blob
  PROVE  UpgradeStatus(st, a, b) \in Status
<1>1. StoredPolicy(st, a) \in UpgradePolicy
  BY AccountValues DEF StoredPolicy, UpgradePolicy, Metadata
<1> QED
  BY <1>1 DEF UpgradeStatus, Status, UpgradePolicy

(* What a module that passes every check is known to satisfy.              *)
LEMMA SuccessFacts ==
  ASSUME NEW st \in [Address -> Account], NEW a \in Address, NEW b \in Blob,
         KeysAgree(st[a]), ModuleStatus(st, a, b) = "Success"
  PROVE  /\ b.decodes /\ b.verifies /\ b.addr = a
         /\ ~Locked(st, a)
         /\ StoredAbi(st, a) \in {ZeroAbi, AbiHash(b)}
         /\ \A d \in ImmediateDependencies(b) : DependencyMustExist(d, a) => Fetches(st, d)
<1>1. /\ b.decodes /\ b.verifies /\ b.addr = a
      /\ UpgradeStatus(st, a, b) = "Success"
      /\ \A d \in ImmediateDependencies(b) : DependencyAccepted(st, a, d)
  BY DEF ModuleStatus
<1>2. \A d \in ImmediateDependencies(b) : DependencyMustExist(d, a) => Fetches(st, d)
  BY <1>1 DEF DependencyAccepted, Fetches
<1>3. StoredPolicy(st, a) \in UpgradePolicy
  BY AccountValues DEF StoredPolicy, UpgradePolicy, Metadata
<1>4. CASE ~HasModule(st, a)
  <2>1. st[a][CodeKey] = None
    BY <1>4 DEF HasModule
  <2>2. st[a][MetadataKey] = None
    <3>1. ASSUME st[a][MetadataKey] # None PROVE FALSE
      <4>1. st[a][MetadataKey] \in Metadata
        BY <3>1, AccountValues
      <4>2. st[a][MetadataKey].module \in Blob
        BY <4>1 DEF Metadata
      <4> QED
        BY <3>1, <4>2, <2>1, CodeStoreAssumption DEF KeysAgree
    <3> QED
      BY <3>1
  <2> QED
    BY <1>1, <1>2, <1>4, <2>2 DEF Locked, StoredAbi
<1>5. CASE HasModule(st, a)
  <2>1. StoredPolicy(st, a) = "Compatible" /\ AbiAccepted(st, a, b)
    BY <1>1, <1>3, <1>5 DEF UpgradeStatus, UpgradePolicy
  <2> QED
    BY <1>1, <1>2, <2>1 DEF Locked, AbiAccepted, AbiIsCompatible
<1> QED
  BY <1>4, <1>5

-----------------------------------------------------------------------------
(* The inductive invariant: outputs in flight must be right for the store  *)
(* they will be applied to, not for the one they were computed from.       *)
IInv == TypeOK /\ RecordAgrees /\ InstalledChecked /\ OutputsStayValid

(* The invariant holds at the start.                                       *)
LEMMA InitIInv == Init => IInv
<1> SUFFICES ASSUME Init PROVE IInv
  OBVIOUS
<1>1. ASSUME NEW a \in Address
      PROVE  /\ store[a] \in Account
             /\ KeysAgree(store[a])
             /\ \A n \in Name : store[a][ModuleCodeKey(n)] = None
  <2>1. store[a] \in InitialAccount(a)
    BY DEF Init
  <2>2. CASE store[a] = FreshAccount
    <3>1. \A k \in Key : store[a][k] = None
      BY <2>2 DEF FreshAccount
    <3>2. store[a] \in Account
      BY <2>2 DEF FreshAccount, Account
    <3>3. /\ store[a][CodeKey] = None /\ store[a][CodeHashKey] = None
          /\ store[a][MetadataKey] = None
          /\ \A n \in Name : store[a][ModuleCodeKey(n)] = None
      BY <3>1, KeysDistinct DEF AccountKeys
    <3> QED
      BY <3>2, <3>3 DEF KeysAgree
  <2>3. CASE \E b \in LegacyBlob : b.addr = a /\ \E m \in LegacyMetadata(b) : store[a] = LegacyAccount(b, m)
    <3>0. PICK b \in Blob : \E m \in LegacyMetadata(b) : store[a] = LegacyAccount(b, m)
      BY <2>3, MovePublishAssumption
    <3>1. PICK m \in LegacyMetadata(b) : store[a] = LegacyAccount(b, m)
      BY <3>0
    <3>2. /\ store[a][CodeKey] = b /\ store[a][CodeHashKey] = b
          /\ store[a][MetadataKey] = m
          /\ \A n \in Name : store[a][ModuleCodeKey(n)] = None
      BY <3>1, KeysDistinct DEF LegacyAccount, AccountKeys
    <3>3. m = None \/ (m \in Metadata /\ m.module = b /\ m.abi_hash = ZeroAbi)
      BY <3>1 DEF LegacyMetadata, Metadata
    <3>4. \A k \in Key : store[a][k] \in {None} \cup (IF k = MetadataKey THEN Metadata ELSE Blob)
      BY <3>1, <3>2, <3>3, KeysDistinct DEF AccountKeys
    <3>5. DOMAIN store[a] = Key /\ store[a] = [k \in Key |-> store[a][k]]
      BY <3>1 DEF LegacyAccount
    <3>6. store[a] \in Account
      BY <3>4, <3>5 DEF Account
    <3> QED
      BY <3>2, <3>3, <3>6 DEF KeysAgree
  <2> QED
    BY <2>1, <2>2, <2>3 DEF InitialAccount
<1>2. store \in [Address -> Account] /\ out = [a \in Address |-> None]
  BY <1>1 DEF Init
<1> QED
  BY <1>1, <1>2 DEF IInv, TypeOK, RecordAgrees, InstalledChecked, OutputsStayValid

(* A refused request leaves an output without writes.                      *)
LEMMA RefusedStep ==
  ASSUME IInv, NEW s \in Address, NEW bundle \in Bundle, NEW i \in 1..MaxModules,
         PublishRefused(s, bundle, i)
  PROVE  IInv'
<1>1. bundle[i] \in Blob /\ bundle # <<>>
  BY BundleLast DEF PublishRefused, Bundle
<1>2. ModuleStatus(store, s, bundle[i]) \in Status
  BY <1>1, StatusTyped, UpgradeStatusTyped DEF IInv, TypeOK
<1>3. store' = store /\ out' \in [Address -> {None} \cup VmOutput]
  BY <1>2, NoWritesIsAccount DEF PublishRefused, IInv, TypeOK, VmOutput
<1>4. \A a \in Address : out'[a] = out[a] \/ out'[a].write_set = NoWrites
  BY DEF PublishRefused, IInv, TypeOK
<1> QED
  BY <1>3, <1>4 DEF IInv, TypeOK, RecordAgrees, InstalledChecked, OutputsStayValid

(* An accepted request leaves an output that is right for the store.       *)
LEMMA AcceptedStep ==
  ASSUME IInv, NEW s \in Address, NEW bundle \in Bundle, NEW p \in UpgradePolicy \cup {None},
         PublishAccepted(s, bundle, p)
  PROVE  IInv'
<1> DEFINE q == RequestedPolicy(p)
           w == WriteSet(bundle, q)
<1>1. q \in UpgradePolicy
  BY DEF RequestedPolicy, UpgradePolicy
<1>2. w \in Account
  BY <1>1, WriteSetFacts, EmptyWriteSet, NoWritesIsAccount
<1>3. store' = store /\ out' \in [Address -> {None} \cup VmOutput]
  BY <1>2 DEF PublishAccepted, IInv, TypeOK, VmOutput, Status
<1>4. \A a \in Address \ {s} : out'[a] = out[a]
  BY DEF PublishAccepted, IInv, TypeOK
<1>5. out'[s].write_set = w
  BY DEF PublishAccepted, IInv, TypeOK
<1>6. ASSUME w # NoWrites
      PROVE  /\ ~Locked(store, s)
             /\ w[CodeKey] # None /\ w[CodeKey].decodes
             /\ w[MetadataKey] # None
             /\ w[MetadataKey].abi_hash # ZeroAbi
             /\ StoredAbi(store, s) \in {ZeroAbi, w[MetadataKey].abi_hash}
             /\ KeysAgree(w)
             /\ \A n \in Name : w[ModuleCodeKey(n)] # None => Checked(store, s, n, w[ModuleCodeKey(n)])
  <2> DEFINE b == Last(bundle)
  <2>1. bundle # <<>>
    BY <1>6, EmptyWriteSet
  <2>2. ASSUME NEW j \in DOMAIN bundle
        PROVE  /\ bundle[j] \in Blob
               /\ bundle[j].decodes /\ bundle[j].verifies /\ bundle[j].addr = s
               /\ ~Locked(store, s)
               /\ StoredAbi(store, s) \in {ZeroAbi, AbiHash(bundle[j])}
               /\ \A d \in ImmediateDependencies(bundle[j]) :
                    DependencyMustExist(d, s) => Fetches(store, d)
    BY <2>1, BundleLast, SuccessFacts DEF PublishAccepted, IInv, TypeOK, RecordAgrees
  <2>3. Len(bundle) \in DOMAIN bundle /\ b \in Blob /\ b = bundle[Len(bundle)]
    BY <2>1, BundleLast DEF Last
  <2>4. /\ w[CodeKey] = b /\ w[CodeHashKey] = b
        /\ w[MetadataKey] = MetadataOf(b, q)
        /\ w[ModuleCodeKey(b.name)] = b
        /\ \A n \in Name : w[ModuleCodeKey(n)] # None =>
             \E j \in DOMAIN bundle : w[ModuleCodeKey(n)] = bundle[j] /\ bundle[j].name = n
    BY <1>1, <2>1, WriteSetFacts
  <2>5. /\ w[MetadataKey] # None
        /\ w[MetadataKey].module = b
        /\ w[MetadataKey].abi_hash = AbiHash(b)
        /\ AbiHash(b) # ZeroAbi
    BY <1>1, <2>3, <2>4, MetadataOfTyped
  <2>6. KeysAgree(w)
    BY <2>4, <2>5 DEF KeysAgree
  <2>7. ASSUME NEW n \in Name, w[ModuleCodeKey(n)] # None
        PROVE  Checked(store, s, n, w[ModuleCodeKey(n)])
    <3>1. PICK j \in DOMAIN bundle : w[ModuleCodeKey(n)] = bundle[j] /\ bundle[j].name = n
      BY <2>4, <2>7
    <3> QED
      BY <3>1, <2>2 DEF Checked, Named
  <2>8. b # None /\ b.decodes /\ ~Locked(store, s) /\ StoredAbi(store, s) \in {ZeroAbi, AbiHash(b)}
    BY <2>2, <2>3, BlobFacts
  <2> QED
    BY <2>4, <2>5, <2>6, <2>7, <2>8
<1>7. OutputsStayValid'
  BY <1>3, <1>4, <1>5, <1>6 DEF IInv, OutputsStayValid
<1> QED
  BY <1>3, <1>7 DEF IInv, TypeOK, RecordAgrees, InstalledChecked

(* Dropping an output keeps the invariant.                                 *)
LEMMA DroppedStep ==
  ASSUME IInv, NEW s \in Address, DropOutput(s)
  PROVE  IInv'
<1>1. store' = store /\ \A a \in Address : out'[a] = out[a] \/ out'[a] = None
  BY DEF DropOutput, IInv, TypeOK
<1>2. out' \in [Address -> {None} \cup VmOutput]
  BY DEF DropOutput, IInv, TypeOK
<1> QED
  BY <1>1, <1>2 DEF IInv, TypeOK, RecordAgrees, InstalledChecked, OutputsStayValid

(* Rewriting an account with modules that deserialize takes away nothing   *)
(* another module could fetch: the loader finds the new bytes or the old.  *)
LEMMA FetchPreserved ==
  ASSUME NEW st \in [Address -> Account], NEW a \in Address, NEW w \in Account,
         w[CodeKey] # None, w[CodeKey].decodes,
         \A n \in Name : w[ModuleCodeKey(n)] # None => w[ModuleCodeKey(n)].decodes,
         NEW st2, st2[a] = Written(st[a], w), \A x \in Address \ {a} : st2[x] = st[x],
         NEW d \in ModuleId, Fetches(st, d)
  PROVE  Fetches(st2, d)
<1> DEFINE k == ModuleCodeKey(d[2])
<1>1. d[1] \in Address /\ d[2] \in Name /\ k \in Key /\ CodeKey \in Key
  BY KeysDistinct DEF ModuleId, AccountKeys
<1>2. CASE d[1] # a
  <2>1. st2[d[1]] = st[d[1]]
    BY <1>1, <1>2
  <2> QED
    BY <2>1 DEF Fetches, FetchModuleBytes, GetModuleByName
<1>3. CASE d[1] = a
  <2>1. /\ st2[a][k] = IF w[k] # None THEN w[k] ELSE st[a][k]
        /\ st2[a][CodeKey] = w[CodeKey]
    BY <1>1, WrittenFacts
  <2>2. CASE w[k] # None
    BY <1>1, <1>3, <2>1, <2>2 DEF Fetches, FetchModuleBytes, GetModuleByName
  <2>3. CASE w[k] = None /\ st[a][k] # None
    BY <1>1, <1>3, <2>1, <2>3 DEF Fetches, FetchModuleBytes, GetModuleByName
  <2>4. CASE w[k] = None /\ st[a][k] = None
    BY <1>1, <1>3, <2>1, <2>4 DEF Fetches, FetchModuleBytes, GetModuleByName
  <2> QED
    BY <2>2, <2>3, <2>4
<1> QED
  BY <1>2, <1>3

(* An applied output that writes anything: what it is known to satisfy and *)
(* what the store holds afterwards.                                        *)
LEMMA AppliedFacts ==
  ASSUME IInv, NEW s \in Address, ApplyOutput(s),
         NEW w, w = out[s].write_set, w # NoWrites
  PROVE  /\ store \in [Address -> Account] /\ w \in Account
         /\ store' = [store EXCEPT ![s] = Written(store[s], w)]
         /\ store' \in [Address -> Account]
         /\ \A k \in Key : store'[s][k] = IF w[k] # None THEN w[k] ELSE store[s][k]
         /\ \A a \in Address \ {s} : store'[a] = store[a]
         /\ ~Locked(store, s)
         /\ w[CodeKey] # None /\ w[CodeKey].decodes
         /\ w[MetadataKey] # None /\ w[MetadataKey].abi_hash # ZeroAbi
         /\ StoredAbi(store, s) \in {ZeroAbi, w[MetadataKey].abi_hash}
         /\ KeysAgree(w)
         /\ \A n \in Name : w[ModuleCodeKey(n)] # None => Checked(store, s, n, w[ModuleCodeKey(n)])
         /\ \A d \in ModuleId : Fetches(store, d) => Fetches(store', d)
<1>1. /\ store \in [Address -> Account] /\ w \in Account
      /\ store' = [store EXCEPT ![s] = Written(store[s], w)]
  BY DEF ApplyOutput, IInv, TypeOK, VmOutput
<1>2. /\ store' \in [Address -> Account]
      /\ \A k \in Key : store'[s][k] = IF w[k] # None THEN w[k] ELSE store[s][k]
      /\ \A a \in Address \ {s} : store'[a] = store[a]
  BY <1>1, WrittenFacts
<1>3. /\ ~Locked(store, s)
      /\ w[CodeKey] # None /\ w[CodeKey].decodes
      /\ w[MetadataKey] # None /\ w[MetadataKey].abi_hash # ZeroAbi
      /\ StoredAbi(store, s) \in {ZeroAbi, w[MetadataKey].abi_hash}
      /\ KeysAgree(w)
      /\ \A n \in Name : w[ModuleCodeKey(n)] # None => Checked(store, s, n, w[ModuleCodeKey(n)])
  BY DEF ApplyOutput, IInv, OutputsStayValid
<1>4. \A n \in Name : w[ModuleCodeKey(n)] # None => w[ModuleCodeKey(n)].decodes
  BY <1>3 DEF Checked
<1>5. \A d \in ModuleId : Fetches(store, d) => Fetches(store', d)
  <2> SUFFICES ASSUME NEW d \in ModuleId, Fetches(store, d) PROVE Fetches(store', d)
    OBVIOUS
  <2> DEFINE st2 == store'
  <2>1. st2[s] = Written(store[s], w) /\ \A x \in Address \ {s} : st2[x] = store[x]
    BY <1>1, <1>2
  <2> HIDE DEF st2
  <2>2. Fetches(st2, d)
    BY <1>1, <1>3, <1>4, <2>1, FetchPreserved
  <2> QED
    BY <2>2 DEF st2
<1> QED
  BY <1>1, <1>2, <1>3, <1>5

(* Committing an output keeps the account in order, and leaves every other *)
(* output in flight right for the store as it now is.                      *)
LEMMA AppliedStep ==
  ASSUME IInv, NEW s \in Address, ApplyOutput(s)
  PROVE  IInv'
<1> DEFINE w == out[s].write_set
<1>1. /\ out' \in [Address -> {None} \cup VmOutput] /\ out'[s] = None
      /\ \A a \in Address \ {s} : out'[a] = out[a]
  BY DEF ApplyOutput, IInv, TypeOK
<1>2. CASE w = NoWrites
  <2>1. store' = store
    <3>1. store \in [Address -> Account]
      BY DEF IInv, TypeOK
    <3>2. Written(store[s], w) = store[s]
      BY <1>2, <3>1, NoWritesIsAccount, WrittenFacts
    <3> QED
      BY <3>1, <3>2 DEF ApplyOutput
  <2> QED
    BY <1>1, <2>1 DEF IInv, TypeOK, RecordAgrees, InstalledChecked, OutputsStayValid
<1>3. CASE w # NoWrites
  <2>1. /\ store' \in [Address -> Account] /\ w \in Account
        /\ \A k \in Key : store'[s][k] = IF w[k] # None THEN w[k] ELSE store[s][k]
        /\ \A a \in Address \ {s} : store'[a] = store[a]
        /\ w[CodeKey] # None
        /\ w[MetadataKey] # None /\ w[MetadataKey].abi_hash # ZeroAbi
        /\ KeysAgree(w)
        /\ \A n \in Name : w[ModuleCodeKey(n)] # None => Checked(store, s, n, w[ModuleCodeKey(n)])
        /\ \A d \in ModuleId : Fetches(store, d) => Fetches(store', d)
    BY <1>3, AppliedFacts
  <2>2. TypeOK'
    BY <1>1, <2>1 DEF TypeOK
  <2>3. RecordAgrees'
    <3>1. KeysAgree(store'[s])
      <4>1. w[CodeKey] \in Blob
        BY <2>1, AccountValues
      <4>2. /\ store'[s][CodeKey] = w[CodeKey]
            /\ store'[s][CodeHashKey] = w[CodeKey]
            /\ store'[s][MetadataKey] = w[MetadataKey]
            /\ store'[s][ModuleCodeKey(w[CodeKey].name)] = w[CodeKey]
        BY <2>1, <4>1, KeysDistinct, BlobFacts DEF KeysAgree, AccountKeys
      <4> QED
        BY <4>2, <2>1 DEF KeysAgree
    <3> QED
      BY <2>1, <3>1 DEF RecordAgrees, IInv
  <2>4. ASSUME NEW a \in Address, NEW n \in Name, NEW b \in Blob, Checked(store, a, n, b)
        PROVE  Checked(store', a, n, b)
    BY <2>1, <2>4, BlobFacts DEF Checked
  <2>5. InstalledChecked'
    <3> SUFFICES ASSUME NEW a \in Address, NEW n \in Name, store'[a][ModuleCodeKey(n)] # None
                 PROVE  Checked(store', a, n, store'[a][ModuleCodeKey(n)])
      BY DEF InstalledChecked
    <3>1. store'[a][ModuleCodeKey(n)] \in Blob
      BY <2>1, AccountValues
    <3>2. Checked(store, a, n, store'[a][ModuleCodeKey(n)])
      BY <2>1, KeysDistinct DEF IInv, InstalledChecked
    <3> QED
      BY <3>1, <3>2, <2>4
  <2>6. OutputsStayValid'
    <3> SUFFICES ASSUME NEW a \in Address, out'[a] # None, out'[a].write_set # NoWrites
                 PROVE  LET v == out'[a].write_set IN
                        /\ ~Locked(store', a)
                        /\ v[CodeKey] # None /\ v[CodeKey].decodes
                        /\ v[MetadataKey] # None
                        /\ v[MetadataKey].abi_hash # ZeroAbi
                        /\ StoredAbi(store', a) \in {ZeroAbi, v[MetadataKey].abi_hash}
                        /\ KeysAgree(v)
                        /\ \A n \in Name : v[ModuleCodeKey(n)] # None =>
                             Checked(store', a, n, v[ModuleCodeKey(n)])
      BY DEF OutputsStayValid
    <3> DEFINE v == out[a].write_set
    <3>1. a # s /\ out'[a] = out[a] /\ store'[a] = store[a]
      BY <1>1, <2>1
    <3>2. /\ ~Locked(store, a)
          /\ v[CodeKey] # None /\ v[CodeKey].decodes
          /\ v[MetadataKey] # None
          /\ v[MetadataKey].abi_hash # ZeroAbi
          /\ StoredAbi(store, a) \in {ZeroAbi, v[MetadataKey].abi_hash}
          /\ KeysAgree(v)
          /\ \A n \in Name : v[ModuleCodeKey(n)] # None => Checked(store, a, n, v[ModuleCodeKey(n)])
      BY <3>1 DEF IInv, OutputsStayValid
    <3>3. ~Locked(store', a) /\ StoredAbi(store', a) = StoredAbi(store, a)
      BY <3>1, <3>2 DEF Locked, HasModule, StoredPolicy, StoredAbi
    <3>4. v \in Account
      BY <3>1 DEF IInv, TypeOK, VmOutput
    <3>5. \A n \in Name : v[ModuleCodeKey(n)] # None => Checked(store', a, n, v[ModuleCodeKey(n)])
      BY <3>2, <3>4, <2>4, AccountValues
    <3> QED
      BY <3>1, <3>2, <3>3, <3>5
  <2> QED
    BY <2>2, <2>3, <2>5, <2>6 DEF IInv
<1> QED
  BY <1>2, <1>3

(* Every step of publish_modules and of the node preserves the invariant.  *)
LEMMA StepIInv == IInv /\ [Next]_vars => IInv'
<1> SUFFICES ASSUME IInv, [Next]_vars PROVE IInv'
  OBVIOUS
<1>1. CASE UNCHANGED vars
  BY <1>1 DEF vars, IInv, TypeOK, RecordAgrees, InstalledChecked, OutputsStayValid
<1>2. ASSUME NEW s \in Address, NEW bundle \in Bundle, NEW i \in 1..MaxModules,
             PublishRefused(s, bundle, i)
      PROVE  IInv'
  BY <1>2, RefusedStep
<1>3. ASSUME NEW s \in Address, NEW bundle \in Bundle, NEW p \in UpgradePolicy \cup {None},
             PublishAccepted(s, bundle, p)
      PROVE  IInv'
  BY <1>3, AcceptedStep
<1>4. ASSUME NEW s \in Address, ApplyOutput(s)
      PROVE  IInv'
  BY <1>4, AppliedStep
<1>5. ASSUME NEW s \in Address, DropOutput(s)
      PROVE  IInv'
  BY <1>5, DroppedStep
<1> QED
  BY <1>1, <1>2, <1>3, <1>4, <1>5 DEF Next

(* Only a commit that writes something changes the store.                  *)
LEMMA StoreStep ==
  ASSUME IInv, [Next]_vars
  PROVE  store' = store \/ \E s \in Address : ApplyOutput(s) /\ out[s].write_set # NoWrites
<1>1. CASE UNCHANGED vars
  BY <1>1 DEF vars
<1>2. ASSUME NEW s \in Address, ApplyOutput(s), out[s].write_set = NoWrites
      PROVE  store' = store
  <2>1. store \in [Address -> Account]
    BY DEF IInv, TypeOK
  <2>2. Written(store[s], NoWrites) = store[s]
    BY <2>1, NoWritesIsAccount, WrittenFacts
  <2> QED
    BY <1>2, <2>1, <2>2 DEF ApplyOutput
<1>3. CASE Next
  BY <1>2, <1>3 DEF Next, PublishRefused, PublishAccepted, DropOutput
<1> QED
  BY <1>1, <1>3

-----------------------------------------------------------------------------
(* In every reachable state the store and the outputs in flight have the   *)
(* kinds of values publish_modules writes, account records agree, what is  *)
(* installed passed the checks, and outputs are still right.               *)
THEOREM Invariance == Spec => []IInv
  BY InitIInv, StepIInv, PTL DEF Spec

(* Every state key of an account, and every write of an output, holds the  *)
(* kind of value publish_modules writes there.                             *)
THEOREM TypeCorrect == Spec => []TypeOK
<1>1. IInv => TypeOK
  BY DEF IInv
<1> QED
  BY <1>1, Invariance, PTL

(* Last-writer-wins over the modules of bundles never separates code,      *)
(* code_hash, package_metadata and the module's own key.                   *)
THEOREM RecordsAgree == Spec => []RecordAgrees
<1>1. IInv => RecordAgrees
  BY DEF IInv
<1> QED
  BY <1>1, Invariance, PTL

(* Whatever the order of commits, an installed module passed the checks of *)
(* publish_modules, and they still hold of the present store.              *)
THEOREM InstalledStayChecked == Spec => []InstalledChecked
<1>1. IInv => InstalledChecked
  BY DEF IInv
<1> QED
  BY <1>1, Invariance, PTL

(* An output computed on an older state view may be applied later: its     *)
(* decision still holds of the store it is applied to.                     *)
THEOREM OutputsValid == Spec => []OutputsStayValid
<1>1. IInv => OutputsStayValid
  BY DEF IInv
<1> QED
  BY <1>1, Invariance, PTL

(* The Immutable and GovernanceOnly policies of publish_modules: no step   *)
(* whatever changes a locked account.                                      *)
THEOREM LockedAccountsKeep == Spec => LockedForever
<1>1. IInv /\ [Next]_vars =>
        [\A a \in Address : Locked(store, a) => store'[a] = store[a]]_vars
  <2> SUFFICES ASSUME IInv, [Next]_vars, NEW a \in Address, Locked(store, a)
               PROVE  store'[a] = store[a]
    OBVIOUS
  <2>1. CASE store' = store
    BY <2>1
  <2>2. ASSUME NEW s \in Address, ApplyOutput(s), out[s].write_set # NoWrites
        PROVE  store'[a] = store[a]
    BY <2>2, AppliedFacts
  <2> QED
    BY <2>1, <2>2, StoreStep
<1> QED
  BY <1>1, Invariance, PTL DEF Spec, LockedForever

(* The ABI comparison of publish_modules: once an account's metadata has   *)
(* an ABI hash, every later publish leaves the same hash there.            *)
THEOREM AbiStaysFrozen == Spec => AbiFrozen
<1>1. IInv /\ [Next]_vars =>
        [\A a \in Address :
           StoredAbi(store, a) # ZeroAbi => StoredAbi(store', a) = StoredAbi(store, a)]_vars
  <2> SUFFICES ASSUME IInv, [Next]_vars, NEW a \in Address, StoredAbi(store, a) # ZeroAbi
               PROVE  StoredAbi(store', a) = StoredAbi(store, a)
    OBVIOUS
  <2>1. CASE store'[a] = store[a]
    BY <2>1 DEF StoredAbi
  <2>2. ASSUME NEW s \in Address, ApplyOutput(s), out[s].write_set # NoWrites
        PROVE  StoredAbi(store', a) = StoredAbi(store, a)
    <3> DEFINE w == out[s].write_set
    <3>1. CASE a # s
      BY <2>1, <2>2, <3>1, AppliedFacts
    <3>2. CASE a = s
      <4>1. /\ w[MetadataKey] # None
            /\ StoredAbi(store, s) \in {ZeroAbi, w[MetadataKey].abi_hash}
            /\ store'[s][MetadataKey] = w[MetadataKey]
        BY <2>2, AppliedFacts, KeysDistinct DEF AccountKeys
      <4> QED
        BY <3>2, <4>1 DEF StoredAbi
    <3> QED
      BY <3>1, <3>2
  <2> QED
    BY <2>1, <2>2, StoreStep
<1> QED
  BY <1>1, Invariance, PTL DEF Spec, AbiFrozen

(* An account that holds no module but one, and has an ABI hash: the       *)
(* lookup of that module finds the code the hash was computed from.        *)
LEMMA SoleModule ==
  ASSUME NEW r \in Account, KeysAgree(r), r[MetadataKey] # None,
         r[MetadataKey].abi_hash # ZeroAbi, NEW n \in Name,
         \A m \in Name : m # n => r[ModuleCodeKey(m)] = None
  PROVE  /\ r[CodeKey] \in Blob /\ r[CodeKey].name = n
         /\ r[ModuleCodeKey(n)] = r[CodeKey]
         /\ r[MetadataKey].abi_hash = AbiHash(r[CodeKey])
<1>1. /\ r[MetadataKey].module = r[CodeKey]
      /\ r[MetadataKey].abi_hash = AbiHash(r[CodeKey])
      /\ r[ModuleCodeKey(r[CodeKey].name)] = r[CodeKey]
  BY DEF KeysAgree
<1>2. r[CodeKey] \in Blob
  BY <1>1, AccountValues DEF Metadata
<1>3. r[CodeKey].name = n
  BY <1>1, <1>2, BlobFacts
<1> QED
  BY <1>1, <1>2, <1>3

(* A commit of the account of such a module leaves its callers linked.     *)
LEMMA CommitKeepsLinking ==
  ASSUME IInv, HashFaithful, NEW s \in Address, ApplyOutput(s),
         out[s].write_set # NoWrites,
         NEW b, NEW d \in ModuleId, d[1] = s, LinkedTo(store, b, d),
         StoredAbi(store, s) # ZeroAbi,
         \A m \in Name : m # d[2] => store'[s][ModuleCodeKey(m)] = None
  PROVE  LinkedTo(store', b, d)
<1> DEFINE w == out[s].write_set
           n == d[2]
           old == store[s]
           new == store'[s]
<1>1. CASE d[1] = Framework /\ d[2] \in DOMAIN EmbeddedModule
  BY <1>1 DEF LinkedTo, Fetches, FetchModuleBytes
<1>2. CASE ~(d[1] = Framework /\ d[2] \in DOMAIN EmbeddedModule)
  <2>1. /\ old \in Account /\ w \in Account
        /\ \A k \in Key : new[k] = IF w[k] # None THEN w[k] ELSE old[k]
        /\ w[CodeKey].decodes
        /\ w[MetadataKey] # None /\ w[MetadataKey].abi_hash # ZeroAbi
        /\ StoredAbi(store, s) \in {ZeroAbi, w[MetadataKey].abi_hash}
        /\ KeysAgree(w)
        /\ \A m \in Name : w[ModuleCodeKey(m)] # None => Checked(store, s, m, w[ModuleCodeKey(m)])
    BY AppliedFacts
  <2>2. n \in Name /\ d = <<s, n>>
    BY DEF ModuleId
  <2>3. \A m \in Name : m # n => old[ModuleCodeKey(m)] = None /\ w[ModuleCodeKey(m)] = None
    BY <2>1, KeysDistinct
  <2>4. KeysAgree(old) /\ old[MetadataKey] # None /\ old[MetadataKey].abi_hash # ZeroAbi
        /\ StoredAbi(store, s) = old[MetadataKey].abi_hash
    BY DEF IInv, RecordAgrees, StoredAbi
  <2> HIDE DEF w, n, old, new
  <2>5. /\ old[CodeKey] \in Blob /\ old[ModuleCodeKey(n)] = old[CodeKey]
        /\ old[MetadataKey].abi_hash = AbiHash(old[CodeKey])
    BY <2>1, <2>2, <2>3, <2>4, SoleModule
  <2>6. /\ w[CodeKey] \in Blob /\ w[ModuleCodeKey(n)] = w[CodeKey]
        /\ w[MetadataKey].abi_hash = AbiHash(w[CodeKey])
    BY <2>1, <2>2, <2>3, SoleModule
  <2>7. w[CodeKey].exports = old[CodeKey].exports
    BY <2>1, <2>4, <2>5, <2>6 DEF HashFaithful
  <2>8. old[CodeKey] # None /\ w[CodeKey] # None
    BY <2>5, <2>6, BlobFacts
  <2>9. FetchModuleBytes(store, d) = old[CodeKey]
    BY <1>2, <2>2, <2>5, <2>8 DEF FetchModuleBytes, GetModuleByName, old, n
  <2>10. new[ModuleCodeKey(n)] = w[CodeKey]
    BY <2>1, <2>2, <2>6, <2>8, KeysDistinct
  <2>11. FetchModuleBytes(store', d) = w[CodeKey]
    BY <1>2, <2>2, <2>8, <2>10 DEF FetchModuleBytes, GetModuleByName, new, n
  <2>12. Named(w[CodeKey], d)
    BY <2>1, <2>2, <2>6, <2>8 DEF Checked
  <2> QED
    BY <2>1, <2>7, <2>8, <2>9, <2>11, <2>12 DEF LinkedTo, Fetches, Links
<1> QED
  BY <1>1, <1>2

(* Where the ABI hash of publish_modules keeps its promise: replacing the  *)
(* only module of an account leaves linked callers linked, for any hash    *)
(* that tells the declarations of modules apart.                           *)
THEOREM SoleModulesKeepLinking == Spec => SoleModuleKeepsLinking
<1> DEFINE Kept ==
      HashFaithful => \A a \in Address, n \in Name :
         LET b == store[a][ModuleCodeKey(n)] IN
         b # None /\ store'[a][ModuleCodeKey(n)] = b =>
           \A d \in ImmediateDependencies(b) :
             /\ LinkedTo(store, b, d) /\ StoredAbi(store, d[1]) # ZeroAbi
             /\ \A m \in Name : m # d[2] => store'[d[1]][ModuleCodeKey(m)] = None
             => LinkedTo(store', b, d)
<1>1. IInv /\ [Next]_vars => [Kept]_store
  <2> SUFFICES ASSUME IInv, [Next]_vars, store' # store, HashFaithful,
                      NEW a \in Address, NEW n \in Name, store[a][ModuleCodeKey(n)] # None,
                      NEW d \in ImmediateDependencies(store[a][ModuleCodeKey(n)]),
                      LinkedTo(store, store[a][ModuleCodeKey(n)], d),
                      StoredAbi(store, d[1]) # ZeroAbi,
                      \A m \in Name : m # d[2] => store'[d[1]][ModuleCodeKey(m)] = None
               PROVE  LinkedTo(store', store[a][ModuleCodeKey(n)], d)
    OBVIOUS
  <2> DEFINE b == store[a][ModuleCodeKey(n)]
  <2>1. PICK s \in Address : ApplyOutput(s) /\ out[s].write_set # NoWrites
    BY StoreStep
  <2>2. b \in Blob
    BY AccountValues DEF IInv, TypeOK
  <2>3. d \in ModuleId
    BY <2>2, BlobFacts
  <2>4. CASE d[1] = s
    BY <2>1, <2>3, <2>4, CommitKeepsLinking
  <2>5. CASE d[1] # s
    <3>1. store'[d[1]] = store[d[1]]
      BY <2>1, <2>3, <2>5, AppliedFacts DEF ModuleId
    <3>2. FetchModuleBytes(store', d) = FetchModuleBytes(store, d)
      BY <3>1 DEF FetchModuleBytes, GetModuleByName
    <3> QED
      BY <3>2 DEF LinkedTo, Fetches
  <2> QED
    BY <2>4, <2>5
<1> QED
  BY <1>1, Invariance, PTL DEF Spec, SoleModuleKeepsLinking

(* publish_modules with the node's commits implements CodeRegistry: the    *)
(* initial accounts are a registry, and every step rewrites one unsealed   *)
(* account or nothing.                                                     *)
THEOREM PublishingImplementsRegistry == Spec => ImplementsRegistry
<1> DEFINE stageOf == [a \in Address |-> Stage(store, a)]
<1>1. Init => Registry!RegistryInit
  <2> SUFFICES ASSUME Init PROVE Registry!RegistryInit
    OBVIOUS
  <2>1. DOMAIN store = Address
    BY DEF Init
  <2> QED
    BY <2>1 DEF Registry!RegistryInit, Stage
<1>2. IInv /\ [Next]_vars => [Registry!RegistryNext]_(Registry!registryVars)
  <2> SUFFICES ASSUME IInv, [Next]_vars
               PROVE  [Registry!RegistryNext]_(Registry!registryVars)
    OBVIOUS
  <2>1. CASE store' = store
    BY <2>1 DEF Registry!registryVars
  <2>2. ASSUME NEW s \in Address, ApplyOutput(s), out[s].write_set # NoWrites
        PROVE  Registry!Rewrite(s)
    <3> DEFINE w == out[s].write_set
    <3>1. /\ store' \in [Address -> Account]
          /\ \A a \in Address \ {s} : store'[a] = store[a]
          /\ ~Locked(store, s)
          /\ w[CodeKey] # None
          /\ store'[s][CodeKey] = w[CodeKey]
      BY <2>2, AppliedFacts, KeysDistinct DEF AccountKeys
    <3>2. Stage(store, s) # "sealed"
      BY <3>1 DEF Stage
    <3>3. Stage(store', s) \in {"open", "sealed"}
      BY <3>1 DEF Stage, HasModule
    <3>4. \A a \in Address \ {s} : Stage(store', a) = Stage(store, a)
      BY <3>1 DEF Stage, Locked, HasModule, StoredPolicy
    <3>5. stageOf' = [stageOf EXCEPT ![s] = Stage(store', s)]
      BY <3>4
    <3> QED
      BY <3>1, <3>2, <3>3, <3>5 DEF Registry!Rewrite
  <2> QED
    BY <2>1, <2>2, StoreStep DEF Registry!RegistryNext
<1> QED
  BY <1>1, <1>2, Invariance, PTL DEF Spec, ImplementsRegistry, Registry!RegistrySpec
=============================================================================
