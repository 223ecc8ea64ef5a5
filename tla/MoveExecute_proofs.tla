------------------------- MODULE MoveExecute_proofs -------------------------
(***************************************************************************)
(* Theorems about MoveExecute for any finite set of slots, any resources,  *)
(* events, gas limits and costs.                                           *)
(***************************************************************************)
EXTENDS MoveExecute, FiniteSetTheorems, TLAPS

(* The four variants of a slot are told apart by their tags.               *)
LEMMA Slots ==
  /\ Unloaded \in GlobalValue /\ Absent \in GlobalValue /\ Deleted \in GlobalValue
  /\ ~Holds(Unloaded) /\ ~Holds(Absent) /\ ~Holds(Deleted)
  /\ Unloaded.tag = "Unloaded" /\ Absent.tag = "Absent" /\ Deleted.tag = "Deleted"
  /\ \A v \in Value : Fresh(v) \in GlobalValue /\ Fresh(v).tag = "Fresh" /\ Fresh(v).value = v
  /\ \A v \in Value, d \in BOOLEAN :
       /\ Cached(v, d) \in GlobalValue /\ Cached(v, d).tag = "Cached"
       /\ Cached(v, d).value = v /\ Cached(v, d).dirty = d
<1>1. /\ Unloaded \in GlobalValue /\ Absent \in GlobalValue /\ Deleted \in GlobalValue
      /\ \A v \in Value : Fresh(v) \in GlobalValue
      /\ \A v \in Value, d \in BOOLEAN : Cached(v, d) \in GlobalValue
  BY DEF GlobalValue
<1>2. /\ Unloaded.tag = "Unloaded" /\ Absent.tag = "Absent" /\ Deleted.tag = "Deleted"
      /\ \A v : Fresh(v).tag = "Fresh" /\ Fresh(v).value = v
      /\ \A v, d : Cached(v, d).tag = "Cached" /\ Cached(v, d).value = v /\ Cached(v, d).dirty = d
  BY DEF Unloaded, Absent, Deleted, Fresh, Cached
<1> QED
  BY <1>1, <1>2 DEF Holds

(* A slot that holds a resource holds one of Value.                        *)
LEMMA SlotCases ==
  ASSUME NEW gv \in GlobalValue
  PROVE  /\ gv.tag \in {"Unloaded", "Absent", "Deleted", "Fresh", "Cached"}
         /\ gv.tag = "Unloaded" => gv = Unloaded
         /\ gv.tag \in {"Fresh", "Cached"} => gv.value \in Value
         /\ Holds(gv) => gv.value \in Value /\ gv.tag \in {"Fresh", "Cached"}
         /\ gv.tag = "Cached" => gv.dirty \in BOOLEAN
  BY DEF GlobalValue, Holds, Unloaded, Absent, Deleted, Fresh, Cached

(* Saturating charges stay within the meter's range and never refund.      *)
LEMMA SatBounds ==
  ASSUME NEW n \in Nat
  PROVE  Sat(n) \in 0..MaxU64 /\ (n <= MaxU64 => Sat(n) = n)
  BY MoveExecuteAssumption DEF Sat

(* What a request is billed lies between its consumption and its limit.    *)
LEMMA BilledBounds ==
  ASSUME NEW spent \in 0..MaxU64, NEW writes, DOMAIN writes \subseteq Slot,
         limit \in 0..MaxU64, spent <= limit
  PROVE  GasUsed(spent, writes) \in Nat /\ spent <= GasUsed(spent, writes)
         /\ GasUsed(spent, writes) <= limit
<1>1. IsFiniteSet(DOMAIN writes)
  BY MoveExecuteAssumption, FS_Subset
<1>2. Cardinality(DOMAIN writes) \in Nat
  BY <1>1, FS_CardinalityType
<1>3. CallBase \in Nat /\ InputCost \in Nat /\ WriteCost \in Nat /\ MaxU64 \in Nat
  BY MoveExecuteAssumption
<1>4. WriteCost * Cardinality(DOMAIN writes) \in Nat
  BY <1>2, <1>3
<1>5. /\ CallBase + InputCost + WriteCost * Cardinality(DOMAIN writes) \in Nat
      /\ CallBase + InputCost \in Nat
  BY <1>3, <1>4
<1>6. Estimate(writes) \in 0..MaxU64
  BY <1>5, SatBounds DEF Estimate
<1> QED
  BY <1>3, <1>6 DEF GasUsed, Smaller, Larger

(* Between transactions, and once one has ended, no cache is left; a       *)
(* transaction that failed, and a query, leaves no effects and no events.  *)
Quiet ==
    /\ phase # "running" => cache = NothingLoaded /\ refs = {} /\ events = <<>>
    /\ phase = "idle" => consumed = 0
    /\ phase = "done" /\ Ending = "discarded" =>
         output.write_set = NoEffects /\ output.events = <<>>

IInv == TypeOK /\ Quiet /\ CacheAgrees /\ GasBilled /\ DeletesExist

(* The cache of a new transaction holds no slot.                           *)
LEMMA NothingLoadedFacts ==
  /\ NothingLoaded \in [Slot -> GlobalValue]
  /\ \A s \in Slot : NothingLoaded[s] = Unloaded
  BY Slots DEF NothingLoaded

(* The invariant holds at the start.                                       *)
LEMMA InitIInv == Init => IInv
<1> SUFFICES ASSUME Init PROVE IInv
  OBVIOUS
<1>1. \A s \in Slot : SlotAgrees(NothingLoaded[s], store[s])
  BY NothingLoadedFacts, Slots DEF SlotAgrees
<1>2. <<>> \in Seq(Event) /\ 0 \in 0..MaxU64
  BY MoveExecuteAssumption
<1> QED
  BY <1>1, <1>2, NothingLoadedFacts, MoveExecuteAssumption
     DEF Init, IInv, TypeOK, Quiet, CacheAgrees, GasBilled, DeletesExist, Kind

(* The slot after load_resource holds what the store holds.                *)
LEMMA LoadedFacts ==
  ASSUME IInv, NEW s \in Slot
  PROVE  /\ Loaded(s) \in GlobalValue
         /\ SlotAgrees(Loaded(s), store[s])
         /\ Loaded(s).tag # "Unloaded"
         /\ Content(Loaded(s), store[s]) = Content(cache[s], store[s])
         /\ s \in refs => Holds(Loaded(s))
<1>1. cache[s] \in GlobalValue /\ store[s] \in {None} \cup Value /\ SlotAgrees(cache[s], store[s])
  BY DEF IInv, TypeOK, CacheAgrees
<1>2. CASE cache[s] # Unloaded
  BY <1>1, <1>2, SlotCases DEF Loaded, IInv, CacheAgrees
<1>3. CASE cache[s] = Unloaded /\ store[s] = None
  BY <1>1, <1>3, Slots DEF Loaded, SlotAgrees, Content, IInv, CacheAgrees
<1>4. CASE cache[s] = Unloaded /\ store[s] # None
  <2>1. store[s] \in Value /\ Loaded(s) = Cached(store[s], FALSE)
    BY <1>1, <1>4 DEF Loaded
  <2>2. /\ Loaded(s) \in GlobalValue /\ Loaded(s).tag = "Cached"
        /\ Loaded(s).value = store[s] /\ Loaded(s).dirty = FALSE
    BY <2>1, Slots
  <2>3. cache[s].tag = "Unloaded" /\ Holds(Loaded(s))
    BY <1>4, <2>2, Slots DEF Holds
  <2> QED
    BY <1>4, <2>2, <2>3 DEF SlotAgrees, Content
<1> QED
  BY <1>2, <1>3, <1>4

(* What a charge leaves on the meter.                                      *)
LEMMA ChargedFacts ==
  ASSUME IInv, NEW amount \in Nat, CanCharge(amount)
  PROVE  Charged(amount) \in 0..MaxU64 /\ Charged(amount) <= limit
<1>1. consumed \in Nat /\ consumed + amount \in Nat
  BY MoveExecuteAssumption DEF IInv, TypeOK
<1> QED
  BY <1>1, SatBounds DEF Charged, CanCharge

(* What the meter is charged with is a natural number.                     *)
LEMMA Amounts ==
  /\ LoadCost \in Nat /\ GlobalOpCost \in Nat /\ RefOpCost \in Nat
  /\ InstructionCost \in Nat /\ NativeCost \in Nat
  /\ \A s : LoadCharge(s) \in Nat /\ LoadCharge(s) + GlobalOpCost \in Nat
  BY MoveExecuteAssumption DEF LoadCharge

(* A step that changes one slot of the cache and keeps it true.            *)
LEMMA SlotStep ==
  ASSUME IInv, phase = "running", NEW s \in Slot, NEW gv \in GlobalValue,
         SlotAgrees(gv, store[s]),
         cache' = [cache EXCEPT ![s] = gv],
         refs' \subseteq refs \cup {s}, s \in refs' => Holds(gv),
         events' = events, consumed' \in 0..MaxU64, consumed' <= limit,
         UNCHANGED <<store, phase, kind, limit, output>>
  PROVE  IInv'
<1>1. cache' \in [Slot -> GlobalValue] /\ cache'[s] = gv
      /\ \A x \in Slot \ {s} : cache'[x] = cache[x]
  BY DEF IInv, TypeOK
<1>2. TypeOK' /\ Quiet' /\ GasBilled' /\ DeletesExist'
  BY <1>1 DEF IInv, TypeOK, Quiet, GasBilled, DeletesExist
<1>3. CacheAgrees'
  BY <1>1 DEF IInv, TypeOK, CacheAgrees
<1> QED
  BY <1>2, <1>3 DEF IInv

(* The effects of a cache that is true to the store fit the store.         *)
LEMMA EffectsFit ==
  ASSUME IInv
  PROVE  /\ Effects \in PartialEffects
         /\ \A s \in DOMAIN Effects : Effects[s] = None => store[s] # None
         /\ \A s \in DOMAIN Effects : Effects[s] = Content(cache[s], store[s])
         /\ \A s \in Slot \ DOMAIN Effects : store[s] = Content(cache[s], store[s])
<1> DEFINE D == {x \in Slot : Changed(cache[x])}
<1>1. /\ DOMAIN Effects = D /\ D \subseteq Slot
      /\ \A s \in D : Effects[s] = IF Holds(cache[s]) THEN cache[s].value ELSE None
  BY DEF Effects
<1>2. ASSUME NEW s \in Slot
      PROVE  /\ cache[s] \in GlobalValue
             /\ SlotAgrees(cache[s], store[s])
             /\ cache[s].tag \in {"Unloaded", "Absent", "Deleted", "Fresh", "Cached"}
             /\ Holds(cache[s]) => cache[s].value \in Value
             /\ cache[s].tag = "Cached" => cache[s].dirty \in BOOLEAN
  <2>1. cache[s] \in GlobalValue /\ SlotAgrees(cache[s], store[s])
    BY DEF IInv, TypeOK, CacheAgrees
  <2> QED
    BY <2>1, SlotCases
<1>3. \A s \in D : Effects[s] \in {None} \cup Value
  BY <1>1, <1>2
<1>4. Effects \in [D -> {None} \cup Value]
  BY <1>3 DEF Effects
<1>5. Effects \in PartialEffects
  BY <1>1, <1>4 DEF PartialEffects
<1>6. \A s \in D : Effects[s] = None => store[s] # None
  <2> SUFFICES ASSUME NEW s \in D, Effects[s] = None PROVE store[s] # None
    OBVIOUS
  <2>1. ~Holds(cache[s])
    BY <1>1, <1>2, MoveExecuteAssumption
  <2>2. cache[s].tag = "Deleted"
    BY <2>1 DEF Changed, Holds
  <2> QED
    BY <2>2, <1>2 DEF SlotAgrees
<1>7. \A s \in D : Effects[s] = Content(cache[s], store[s])
  BY <1>1, <1>2 DEF Content, Holds, Changed
<1>8. \A s \in Slot \ D : store[s] = Content(cache[s], store[s])
  BY <1>2 DEF Content, Holds, Changed, SlotAgrees
<1> QED
  BY <1>1, <1>5, <1>6, <1>7, <1>8

(* Having no effects is a write set, of no slot.                           *)
LEMMA NoEffectsFit ==
  /\ NoEffects \in PartialEffects
  /\ DOMAIN NoEffects = {}
<1>1. NoEffects \in [{} -> {None} \cup Value] /\ {} \in SUBSET Slot
  BY DEF NoEffects
<1> QED
  BY <1>1 DEF PartialEffects, NoEffects

(* However a transaction ends, what it leaves is in order.                 *)
LEMMA FinishStep ==
  ASSUME IInv, phase = "running",
         NEW status \in {"Success", "MoveAbort", "Error"},
         NEW spent \in 0..MaxU64, spent <= limit,
         NEW writes \in PartialEffects, NEW evs \in Seq(Event),
         \A s \in DOMAIN writes : writes[s] = None => store[s] # None,
         status # "Success" \/ kind = "query" => writes = NoEffects /\ evs = <<>>,
         Finish(status, spent, writes, evs)
  PROVE  IInv'
<1>1. DOMAIN writes \subseteq Slot
  BY DEF PartialEffects
<1>2. limit \in 0..MaxU64 /\ 0 \in Nat /\ 0 <= limit
  BY MoveExecuteAssumption DEF IInv, TypeOK
<1>3. /\ GasUsed(spent, writes) \in Nat /\ spent <= GasUsed(spent, writes)
      /\ GasUsed(spent, writes) <= limit
  BY <1>1, <1>2, BilledBounds
<1>4. /\ output'.status = status
      /\ output'.gas_used = IF status = "Error" THEN 0 ELSE GasUsed(spent, writes)
      /\ output'.write_set = writes /\ output'.events = evs
      /\ output' \in Output
  BY <1>2, <1>3 DEF Finish, Output
<1>5. /\ phase' = "done" /\ cache' = NothingLoaded /\ refs' = {} /\ events' = <<>>
      /\ consumed' = spent /\ store' = store /\ kind' = kind /\ limit' = limit
  BY DEF Finish
<1>6. TypeOK'
  <2>1. <<>> \in Seq(Event)
    OBVIOUS
  <2> QED
    BY <1>4, <1>5, <2>1, NothingLoadedFacts DEF TypeOK, IInv
<1>7. Quiet'
  BY <1>4, <1>5 DEF Quiet, Ending
<1>8. CacheAgrees'
  <2>1. \A s \in Slot : SlotAgrees(Unloaded, store[s])
    BY Slots DEF SlotAgrees
  <2> QED
    BY <1>5, <2>1, NothingLoadedFacts DEF CacheAgrees
<1>9. GasBilled'
  BY <1>2, <1>3, <1>4, <1>5 DEF GasBilled
<1>10. DeletesExist'
  BY <1>4, <1>5 DEF DeletesExist
<1> QED
  BY <1>6, <1>7, <1>8, <1>9, <1>10 DEF IInv

(* A transaction that fails leaves nothing.                                *)
LEMMA FailStep ==
  ASSUME IInv, phase = "running", NEW spent \in 0..MaxU64, spent <= limit, Fail(spent)
  PROVE  IInv'
<1>1. FailureStatus \in {"Success", "MoveAbort", "Error"}
  BY DEF FailureStatus
<1>2. <<>> \in Seq(Event)
  OBVIOUS
<1>3. Finish(FailureStatus, spent, NoEffects, <<>>)
  BY DEF Fail
<1> QED
  BY <1>1, <1>2, <1>3, NoEffectsFit, FinishStep

(* borrow_global, exists, move_from and move_to keep the cache true.       *)
LEMMA AccessStep ==
  ASSUME IInv, NEW s \in Slot,
         \/ Exists(s) \/ BorrowGlobal(s) \/ MoveFrom(s)
         \/ \E v \in Value : MoveTo(s, v)
  PROVE  IInv'
<1>1. /\ phase = "running" /\ consumed' \in 0..MaxU64 /\ consumed' <= limit
      /\ UNCHANGED <<store, phase, kind, limit, events, output>>
  BY Amounts, ChargedFacts DEF Exists, BorrowGlobal, MoveFrom, MoveTo, Access
<1>2. /\ Loaded(s) \in GlobalValue /\ SlotAgrees(Loaded(s), store[s])
      /\ Loaded(s).tag # "Unloaded" /\ (s \in refs => Holds(Loaded(s)))
  BY LoadedFacts
<1>3. CASE Exists(s) \/ BorrowGlobal(s)
  BY <1>1, <1>2, <1>3, SlotStep DEF Exists, BorrowGlobal
<1>4. CASE MoveFrom(s)
  <2>1. MovedFrom(Loaded(s)) \in GlobalValue /\ SlotAgrees(MovedFrom(Loaded(s)), store[s])
    BY <1>2, <1>4, Slots DEF MoveFrom, MovedFrom, SlotAgrees, Holds
  <2> QED
    BY <1>1, <1>4, <2>1, SlotStep DEF MoveFrom
<1>5. ASSUME NEW v \in Value, MoveTo(s, v)
      PROVE  IInv'
  <2>1. Loaded(s).tag \in {"Absent", "Deleted"}
    BY <1>2, <1>5, SlotCases DEF MoveTo, Holds
  <2>2. TRUE \in BOOLEAN
    OBVIOUS
  <2>3. MovedTo(Loaded(s), v) \in GlobalValue /\ SlotAgrees(MovedTo(Loaded(s), v), store[s])
    BY <1>2, <2>1, <2>2, Slots DEF MovedTo, SlotAgrees
  <2>4. s \notin refs
    BY <1>2, <1>5 DEF MoveTo
  <2> QED
    BY <1>1, <1>5, <2>3, <2>4, SlotStep DEF MoveTo
<1> QED
  BY <1>3, <1>4, <1>5

(* Writing through a reference keeps the invariant.                        *)
LEMMA WriteRefStep ==
  ASSUME IInv, NEW s \in Slot, NEW v \in Value, WriteRef(s, v)
  PROVE  IInv'
<1>1. /\ phase = "running" /\ consumed' \in 0..MaxU64 /\ consumed' <= limit
      /\ UNCHANGED <<store, phase, kind, limit, events, output, refs>>
  BY Amounts, ChargedFacts DEF WriteRef, Step
<1>2. cache[s].tag \in {"Fresh", "Cached"} /\ SlotAgrees(cache[s], store[s])
  BY DEF WriteRef, IInv, CacheAgrees, Holds
<1>3. TRUE \in BOOLEAN
  OBVIOUS
<1>4. /\ Rewritten(cache[s], v) \in GlobalValue /\ SlotAgrees(Rewritten(cache[s], v), store[s])
      /\ Holds(Rewritten(cache[s], v))
  BY <1>2, <1>3, Slots DEF Rewritten, SlotAgrees, Holds
<1> QED
  BY <1>1, <1>4, SlotStep DEF WriteRef

(* Steps that leave the cache alone.                                       *)
LEMMA PlainStep ==
  ASSUME IInv,
         \/ \E s \in Slot : ReleaseRef(s)
         \/ \E e \in Event : WriteToEventStore(e)
         \/ Compute
  PROVE  IInv'
<1>1. /\ phase = "running" /\ consumed' \in 0..MaxU64 /\ consumed' <= limit
      /\ UNCHANGED <<store, phase, kind, limit, output, cache>>
      /\ refs' \subseteq refs
  BY Amounts, ChargedFacts DEF ReleaseRef, WriteToEventStore, Compute, Step
<1>2. events' \in Seq(Event)
  BY DEF ReleaseRef, WriteToEventStore, Compute, IInv, TypeOK
<1> QED
  BY <1>1, <1>2 DEF IInv, TypeOK, Quiet, CacheAgrees, GasBilled, DeletesExist

(* However a transaction ends, its output keeps the invariant.             *)
LEMMA EndStep ==
  ASSUME IInv,
         \/ \E s \in Slot : AccessFails(s)
         \/ InstructionFails \/ Return \/ EffectsFail
  PROVE  IInv'
<1>1. consumed \in 0..MaxU64 /\ consumed <= limit
  BY DEF IInv, TypeOK, GasBilled
<1>2. ASSUME NEW s \in Slot, AccessFails(s)
      PROVE  IInv'
  BY <1>1, <1>2, Amounts, ChargedFacts, FailStep DEF AccessFails
<1>3. CASE InstructionFails
  <2>1. PICK amount \in {0, RefOpCost, InstructionCost, NativeCost} :
          IF CanCharge(amount) THEN Fail(Charged(amount)) ELSE Fail(consumed)
    BY <1>3 DEF InstructionFails
  <2>2. amount \in Nat
    BY Amounts
  <2> QED
    BY <1>1, <1>3, <2>1, <2>2, ChargedFacts, FailStep DEF InstructionFails
<1>4. CASE Return \/ EffectsFail
  <2>1. /\ Charged(InstructionCost) \in 0..MaxU64 /\ Charged(InstructionCost) <= limit
        /\ phase = "running" /\ events \in Seq(Event) /\ <<>> \in Seq(Event)
    BY <1>4, Amounts, ChargedFacts DEF Return, EffectsFail, IInv, TypeOK
  <2>2. CASE Return
    BY <2>1, <2>2, EffectsFit, NoEffectsFit, FinishStep DEF Return
  <2>3. CASE EffectsFail
    BY <2>1, <2>3, NoEffectsFit, FinishStep DEF EffectsFail
  <2> QED
    BY <1>4, <2>2, <2>3
<1> QED
  BY <1>2, <1>3, <1>4

(* A request that starts, or is answered before anything runs.             *)
LEMMA RequestStep ==
  ASSUME IInv, NEW k \in Kind, NEW l \in GasLimit,
         Begin(k, l) \/ \E status \in {"MoveAbort", "Error"} : NothingRuns(k, l, status)
  PROVE  IInv'
<1>1. l \in 0..MaxU64 /\ l \in Nat /\ CallBase \in Nat
  BY MoveExecuteAssumption
<1>2. CASE Begin(k, l)
  BY <1>1, <1>2 DEF Begin, IInv, TypeOK, Quiet, CacheAgrees, GasBilled, DeletesExist
<1>3. ASSUME NEW status \in {"MoveAbort", "Error"}, NothingRuns(k, l, status)
      PROVE  IInv'
  <2>1. /\ output'.gas_used \in Nat /\ output'.gas_used <= l /\ output'.write_set = NoEffects
        /\ output' \in Output
    <3>1. Smaller(CallBase, l) \in Nat /\ Smaller(CallBase, l) <= l
      BY <1>1 DEF Smaller
    <3>2. <<>> \in Seq(Event)
      OBVIOUS
    <3> QED
      BY <1>1, <1>3, <3>1, <3>2, NoEffectsFit DEF NothingRuns, Output
  <2>2. consumed = 0 /\ consumed' = 0
    BY <1>3 DEF NothingRuns, IInv, Quiet
  <2>3. TypeOK' /\ Quiet' /\ CacheAgrees'
    BY <1>1, <1>3, <2>1 DEF NothingRuns, IInv, TypeOK, Quiet, CacheAgrees
  <2>4. GasBilled' /\ DeletesExist'
    BY <1>1, <1>3, <2>1, <2>2, NoEffectsFit DEF NothingRuns, GasBilled, DeletesExist
  <2> QED
    BY <2>3, <2>4 DEF IInv
<1> QED
  BY <1>2, <1>3

(* The node applies or drops an output.                                    *)
LEMMA DisposeStep ==
  ASSUME IInv, Apply \/ Drop
  PROVE  IInv'
<1>1. /\ phase = "done" /\ phase' = "idle" /\ kind' = "call" /\ limit' = 0 /\ consumed' = 0
      /\ output' = None /\ cache' = NothingLoaded /\ refs' = {} /\ events' = <<>>
  BY DEF Apply, Drop, Disposed, IInv, Quiet
<1>2. store' \in [Slot -> {None} \cup Value]
  <2>1. CASE Drop
    BY <2>1 DEF Drop, IInv, TypeOK
  <2>2. CASE Apply
    <3>1. output.write_set \in PartialEffects
      BY <1>1 DEF IInv, TypeOK, Output
    <3>2. \A s \in DOMAIN output.write_set : output.write_set[s] \in {None} \cup Value
      BY <3>1 DEF PartialEffects
    <3> QED
      BY <2>2, <3>2 DEF Apply, IInv, TypeOK
  <2> QED
    BY <2>1, <2>2
<1>3. TypeOK'
  <2>1. <<>> \in Seq(Event) /\ 0 \in 0..MaxU64
    BY MoveExecuteAssumption
  <2> QED
    BY <1>1, <1>2, <2>1, NothingLoadedFacts DEF TypeOK, Kind
<1>4. CacheAgrees'
  <2>1. \A s \in Slot : SlotAgrees(Unloaded, store'[s])
    BY Slots DEF SlotAgrees
  <2> QED
    BY <1>1, <2>1, NothingLoadedFacts DEF CacheAgrees
<1>5. Quiet' /\ GasBilled' /\ DeletesExist'
  BY <1>1 DEF Quiet, GasBilled, DeletesExist
<1> QED
  BY <1>3, <1>4, <1>5 DEF IInv

(* Every action keeps the invariant.                                       *)
LEMMA StepIInv == IInv /\ [Next]_vars => IInv'
<1> SUFFICES ASSUME IInv, [Next]_vars PROVE IInv'
  OBVIOUS
<1>1. CASE UNCHANGED vars
  BY <1>1 DEF vars, IInv, TypeOK, Quiet, Ending, CacheAgrees, GasBilled, DeletesExist
<1>2. ASSUME NEW k \in Kind, NEW l \in GasLimit,
             Begin(k, l) \/ \E status \in {"MoveAbort", "Error"} : NothingRuns(k, l, status)
      PROVE  IInv'
  BY <1>2, RequestStep
<1>3. CASE Execution
  BY <1>3, AccessStep, WriteRefStep, PlainStep, EndStep DEF Execution
<1>4. CASE Apply \/ Drop
  BY <1>4, DisposeStep
<1> QED
  BY <1>1, <1>2, <1>3, <1>4 DEF Next

-----------------------------------------------------------------------------
(* Throughout any run of transactions the state is well typed, the data    *)
(* cache is true to the store it lazily loads from, gas is billed within   *)
(* the limit, and write sets delete only what is stored.                   *)
THEOREM Invariance == Spec => []IInv
  BY InitIInv, StepIInv, PTL DEF Spec

(* Every variable of a transaction of RealMoveVm holds its kind of value.  *)
THEOREM TypeCorrect == Spec => []TypeOK
<1>1. IInv => TypeOK
  BY DEF IInv
<1> QED
  BY <1>1, Invariance, PTL

(* The statuses of TransactionDataCache never misjudge the stored resource.*)
THEOREM CacheStaysTrue == Spec => []CacheAgrees
<1>1. IInv => CacheAgrees
  BY DEF IInv
<1> QED
  BY <1>1, Invariance, PTL

(* The gas a VmOutput reports lies between what NexusGasMeter consumed and *)
(* the limit of the request.                                               *)
THEOREM GasWithinLimit == Spec => []GasBilled
<1>1. IInv => GasBilled
  BY DEF IInv
<1> QED
  BY <1>1, Invariance, PTL

(* changeset_to_nexus removes only keys that hold a resource.              *)
THEOREM DeletesFindResources == Spec => []DeletesExist
<1>1. IInv => DeletesExist
  BY DEF IInv
<1> QED
  BY <1>1, Invariance, PTL

-----------------------------------------------------------------------------
(* The abstract transaction's copy of the state, and its events.           *)
Copy == [s \in Slot |-> Working(s)]

Emitted == IF phase = "done" THEN output.events ELSE events

(* Away from a transaction, and after one without effects, the copy is the *)
(* store.                                                                  *)
LEMMA QuietCopy ==
  ASSUME IInv, phase = "idle" \/ (phase = "done" /\ output.write_set = NoEffects)
  PROVE  Copy = store
<1>1. store = [s \in Slot |-> store[s]]
  BY DEF IInv, TypeOK
<1>2. \A s \in Slot : Working(s) = store[s]
  BY NoEffectsFit, NothingLoadedFacts, Slots DEF Working, Content, IInv, Quiet
<1> QED
  BY <1>1, <1>2 DEF Copy

(* A step on one slot changes the copy there at most.                      *)
LEMMA CopyAtOneSlot ==
  ASSUME IInv, phase = "running", phase' = "running", store' = store, NEW s \in Slot,
         \A x \in Slot \ {s} : cache'[x] = cache[x]
  PROVE  DOMAIN Copy' = Slot /\ \A x \in Slot \ {s} : Copy'[x] = Copy[x]
  BY DEF Copy, Working, Content

(* A transaction that ends without effects discards its copy.              *)
LEMMA DiscardStep ==
  ASSUME IInv, IInv', phase \in {"idle", "running"}, phase' = "done", store' = store,
         output'.write_set = NoEffects, output'.events = <<>>, Ending' = "discarded"
  PROVE  Atomic!Discard
<1>1. Copy' = store
  <2>1. store = [s \in Slot |-> store[s]]
    BY DEF IInv, TypeOK
  <2>2. \A s \in Slot : Working(s)' = store[s]
    BY NoEffectsFit DEF Working
  <2> QED
    BY <2>1, <2>2 DEF Copy
<1> QED
  BY <1>1 DEF Atomic!Discard, Copy

(* A finished transaction keeps exactly what its cache amounts to.         *)
LEMMA KeepStep ==
  ASSUME IInv, Return, kind # "query"
  PROVE  Atomic!Keep
<1>1. /\ phase = "running" /\ phase' = "done" /\ store' = store
      /\ output'.write_set = Effects /\ output'.events = events
      /\ Ending' = "kept"
  BY DEF Return, Finish, Ending
<1>2. \A s \in Slot : Working(s)' = Working(s)
  BY <1>1, EffectsFit DEF Working
<1>3. Copy' = Copy
  BY <1>2 DEF Copy
<1> QED
  BY <1>1, <1>3 DEF Atomic!Keep, Copy

(* The node installs the copy as it is, or nothing of it.                  *)
LEMMA InstallStep ==
  ASSUME IInv, IInv', Apply \/ Drop
  PROVE  Atomic!Install \/ Atomic!Forget
<1>1. /\ phase = "done" /\ phase' = "idle" /\ Copy' = store'
      /\ events' = <<>>
  <2>1. phase = "done" /\ phase' = "idle" /\ events' = <<>>
    BY DEF Apply, Drop, Disposed, IInv, Quiet
  <2>2. \A s \in Slot : Working(s)' = store'[s]
    BY <2>1, NothingLoadedFacts, Slots DEF Working, Content, IInv, Quiet
  <2>3. store' = [s \in Slot |-> store'[s]]
    BY DEF IInv, TypeOK
  <2> QED
    BY <2>1, <2>2, <2>3 DEF Copy
<1>2. CASE store' = store
  BY <1>1, <1>2 DEF Ending, Atomic!Forget, Copy
<1>3. CASE Drop
  BY <1>2, <1>3 DEF Drop
<1>4. CASE Apply /\ Ending = "kept"
  <2>1. store' = Copy
    BY <1>1, <1>4 DEF Apply, Copy, Working
  <2> QED
    BY <1>1, <1>4, <2>1 DEF Atomic!Install, Copy
<1>5. CASE Apply /\ Ending = "discarded"
  <2>1. DOMAIN output.write_set = {}
    BY <1>1, <1>5, NoEffectsFit DEF IInv, Quiet
  <2>2. store' = [s \in Slot |-> store[s]]
    BY <1>5, <2>1 DEF Apply
  <2> QED
    BY <1>2, <2>2 DEF IInv, TypeOK
<1> QED
  BY <1>3, <1>4, <1>5 DEF Ending

(* Every step of the interpreter is a step on the copy, or a stutter.      *)
LEMMA ExecutionRefines ==
  ASSUME IInv, IInv', Execution
  PROVE  [Atomic!EffectsNext]_(Atomic!effectVars)
<1>1. ASSUME NEW s \in Slot,
             \/ Exists(s) \/ BorrowGlobal(s) \/ MoveFrom(s)
             \/ \E v \in Value : MoveTo(s, v) \/ WriteRef(s, v)
      PROVE  Atomic!Change(s)
  <2>1. /\ phase = "running" /\ phase' = "running" /\ store' = store /\ events' = events
        /\ \A x \in Slot \ {s} : cache'[x] = cache[x]
    BY <1>1 DEF Exists, BorrowGlobal, MoveFrom, MoveTo, WriteRef, Access, Step, IInv, TypeOK
  <2>2. DOMAIN Copy' = Slot /\ \A x \in Slot \ {s} : Copy'[x] = Copy[x]
    BY <2>1, CopyAtOneSlot
  <2> QED
    BY <2>1, <2>2 DEF Atomic!Change, Copy
<1>2. ASSUME NEW e \in Event, WriteToEventStore(e)
      PROVE  Atomic!Emit
  BY <1>2 DEF WriteToEventStore, Step, Atomic!Emit, Working
<1>3. CASE Compute \/ \E s \in Slot : ReleaseRef(s)
  BY <1>3 DEF Compute, ReleaseRef, Step, Atomic!effectVars, Working
<1>4. CASE \/ \E s \in Slot : AccessFails(s)
           \/ InstructionFails \/ EffectsFail \/ (Return /\ kind = "query")
  <2>1. /\ phase = "running" /\ phase' = "done" /\ store' = store
        /\ output'.write_set = NoEffects /\ output'.events = <<>>
        /\ Ending' = "discarded"
    BY <1>4 DEF AccessFails, InstructionFails, EffectsFail, Return, Fail, FailureStatus,
                Finish, Ending
  <2> QED
    BY <2>1, DiscardStep DEF Atomic!EffectsNext
<1>5. CASE Return /\ kind # "query"
  BY <1>5, KeepStep DEF Atomic!EffectsNext
<1> QED
  BY <1>1, <1>2, <1>3, <1>4, <1>5 DEF Execution, Atomic!EffectsNext

(* Executing through the lazy cache, the event store and the write set     *)
(* implements transactions on a private copy of the state.                 *)
THEOREM ExecutionImplementsAtomicEffects == Spec => ImplementsAtomicEffects
<1>1. Init => Atomic!EffectsInit
  <2> SUFFICES ASSUME Init PROVE Atomic!EffectsInit
    OBVIOUS
  <2>1. IInv /\ phase = "idle" /\ events = <<>>
    BY InitIInv DEF Init
  <2>2. Copy = store /\ DOMAIN store = Slot
    BY <2>1, QuietCopy DEF IInv, TypeOK
  <2> QED
    BY <2>1, <2>2 DEF Atomic!EffectsInit, Copy
<1>2. IInv /\ IInv' /\ [Next]_vars => [Atomic!EffectsNext]_(Atomic!effectVars)
  <2> SUFFICES ASSUME IInv, IInv', [Next]_vars
               PROVE  [Atomic!EffectsNext]_(Atomic!effectVars)
    OBVIOUS
  <2>1. CASE UNCHANGED vars
    BY <2>1 DEF vars, Atomic!effectVars, Working, Ending
  <2>2. ASSUME NEW k \in Kind, NEW l \in GasLimit, Begin(k, l)
        PROVE  Atomic!Start
    BY <2>2 DEF Begin, Atomic!Start, Working
  <2>3. ASSUME NEW k \in Kind, NEW l \in GasLimit, NEW status \in {"MoveAbort", "Error"},
               NothingRuns(k, l, status)
        PROVE  Atomic!Discard
    BY <2>3, DiscardStep DEF NothingRuns, Ending
  <2> QED
    BY <2>1, <2>2, <2>3, ExecutionRefines, InstallStep DEF Next, Atomic!EffectsNext
<1> QED
  BY <1>1, <1>2, Invariance, PTL DEF Spec, ImplementsAtomicEffects, Atomic!EffectsSpec
=============================================================================
