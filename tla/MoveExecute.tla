---------------------------- MODULE MoveExecute ----------------------------
(***************************************************************************)
(* RealMoveVm::execute_function, execute_script and query_view: one        *)
(* transaction at a time runs on a state view through a data cache that    *)
(* loads resources on first use, a gas meter and an event store; its end   *)
(* turns the cache into a write set, which the node applies or drops.      *)
(***************************************************************************)
EXTENDS Naturals, Sequences, FiniteSets

CONSTANTS
    Slot,           \* places a resource can be: an account and a struct tag
    Value,          \* resources
    Event,          \* event payloads
    None,           \* no resource, no output
    GasLimit,       \* gas limits that requests carry
    MaxU64,         \* the largest gas amount: charges saturate there
    LoadCost, GlobalOpCost, RefOpCost, InstructionCost, NativeCost,
    CallBase, InputCost, WriteCost,   \* GasSchedule: the estimate's parts
    MaxEvents       \* bound: events in one transaction

ASSUME MoveExecuteAssumption ==
    /\ None \notin Value
    /\ IsFiniteSet(Slot)
    /\ MaxU64 \in Nat /\ GasLimit \subseteq 0..MaxU64
    /\ {LoadCost, GlobalOpCost, RefOpCost, InstructionCost, NativeCost} \subseteq Nat \ {0}
    /\ {CallBase, InputCost, WriteCost} \subseteq Nat
    /\ MaxEvents \in Nat

VARIABLES
    store,      \* slot |-> resource or None: the state the view reads
    phase,      \* "idle", "running", "done"
    kind,       \* "call", "script", "query"
    limit,      \* gas limit of the request
    consumed,   \* NexusGasMeter
    cache,      \* slot |-> GlobalValue: the TransactionDataCache
    refs,       \* slots with a live mutable reference
    events,     \* NexusEventStore
    output      \* the VmOutput or QueryResult of a finished transaction

vars == <<store, phase, kind, limit, consumed, cache, refs, events, output>>

Kind == {"call", "script", "query"}

-----------------------------------------------------------------------------
(* A slot of the data cache.  A slot that has not been looked at is        *)
(* Unloaded; Absent is the code's GlobalValueImpl::None.                   *)

Unloaded == [tag |-> "Unloaded"]
Absent == [tag |-> "Absent"]
Deleted == [tag |-> "Deleted"]
Fresh(v) == [tag |-> "Fresh", value |-> v]
Cached(v, dirty) == [tag |-> "Cached", value |-> v, dirty |-> dirty]

GlobalValue ==
    {Unloaded, Absent, Deleted} \cup {Fresh(v) : v \in Value}
      \cup {Cached(v, dirty) : v \in Value, dirty \in BOOLEAN}

Holds(gv) == gv.tag \in {"Fresh", "Cached"}

NothingLoaded == [s \in Slot |-> Unloaded]

(* The slot after load_resource.                                           *)
Loaded(s) ==
    IF cache[s] # Unloaded THEN cache[s]
    ELSE IF store[s] = None THEN Absent
    ELSE Cached(store[s], FALSE)

(* Mutant: a fresh resource moved out is marked for deletion.              *)
MovedFromDeleted(gv) == Deleted

MovedFrom(gv) == IF gv.tag = "Fresh" THEN Absent ELSE Deleted

(* Mutant: a deleted resource moved back is taken for the stored one.      *)
MovedToClean(gv, v) == IF gv.tag = "Deleted" THEN Cached(v, FALSE) ELSE Fresh(v)

(* Mutant: a resource moved to a slot is fresh whatever was there before.  *)
MovedToFresh(gv, v) == Fresh(v)

MovedTo(gv, v) == IF gv.tag = "Deleted" THEN Cached(v, TRUE) ELSE Fresh(v)

Rewritten(gv, v) == IF gv.tag = "Fresh" THEN Fresh(v) ELSE Cached(v, TRUE)

(* into_effects and changeset_to_nexus: slots that changed, None to delete.*)
Changed(gv) == gv.tag \in {"Fresh", "Deleted"} \/ (gv.tag = "Cached" /\ gv.dirty)

Effects ==
    [s \in {x \in Slot : Changed(cache[x])} |-> IF Holds(cache[s]) THEN cache[s].value ELSE None]

NoEffects == [s \in {} |-> None]

-----------------------------------------------------------------------------
(* Gas.                                                                    *)

Sat(n) == IF n > MaxU64 THEN MaxU64 ELSE n

Smaller(m, n) == IF m < n THEN m ELSE n
Larger(m, n) == IF m > n THEN m ELSE n

(* Mutant: a charge is compared with the limit and not recorded.           *)
ChargedNothing(amount) == consumed

(* The meter after charges, and whether the limit allows them.             *)
Charged(amount) == Sat(consumed + amount)
CanCharge(amount) == Charged(amount) <= limit

LoadCharge(s) == IF cache[s] = Unloaded /\ store[s] # None THEN LoadCost ELSE 0

(* estimate_call_gas counts the writes, estimate_script_gas does not.      *)
Estimate(writes) ==
    IF kind = "call" THEN Sat(CallBase + InputCost + WriteCost * Cardinality(DOMAIN writes))
                     ELSE Sat(CallBase + InputCost)

(* Mutant: the estimate is not clamped to the limit.                       *)
GasUsedUnclamped(spent, writes) == Larger(spent, Estimate(writes))

GasUsed(spent, writes) ==
    IF kind = "query" THEN spent ELSE Smaller(Larger(spent, Estimate(writes)), limit)

-----------------------------------------------------------------------------
(* The ends of a transaction.                                              *)

Finish(status, spent, writes, evs) ==
    /\ phase' = "done"
    /\ output' = [status |-> status,
                  gas_used |-> IF status = "Error" THEN 0 ELSE GasUsed(spent, writes),
                  write_set |-> writes, events |-> evs]
    /\ cache' = NothingLoaded /\ refs' = {} /\ events' = <<>> /\ consumed' = spent
    /\ UNCHANGED <<store, kind, limit>>

(* A failed query is an Err, which carries nothing; a failed call or       *)
(* script is an output with an abort status.                               *)
FailureStatus == IF kind = "query" THEN "Error" ELSE "MoveAbort"

(* Mutant: the events of a failed transaction stay in its output.          *)
FailKeepingEvents(spent) == Finish(FailureStatus, spent, NoEffects, events)

Fail(spent) == Finish(FailureStatus, spent, NoEffects, <<>>)

-----------------------------------------------------------------------------
Init ==
    /\ store \in [Slot -> {None} \cup Value]
    /\ phase = "idle" /\ kind = "call" /\ limit = 0 /\ consumed = 0
    /\ cache = NothingLoaded /\ refs = {} /\ events = <<>> /\ output = None

Begin(k, l) ==
    /\ phase = "idle"
    /\ phase' = "running" /\ kind' = k /\ limit' = l
    /\ UNCHANGED <<store, consumed, cache, refs, events, output>>

(* The request names no function, its type arguments do not decode, or the *)
(* function does not load; nothing has run and no meter exists yet.        *)
NothingRuns(k, l, status) ==
    /\ phase = "idle"
    /\ k = "query" => status = "Error"
    /\ phase' = "done" /\ kind' = k /\ limit' = l
    /\ output' = [status |-> status,
                  gas_used |-> IF status = "Error" THEN 0 ELSE Smaller(CallBase, l),
                  write_set |-> NoEffects, events |-> <<>>]
    /\ UNCHANGED <<store, consumed, cache, refs, events>>

(* borrow_global, exists, move_from and move_to load the slot, charge for  *)
(* the load if there was one, charge for the operation, and check access.  *)
Access(s) ==
    /\ phase = "running"
    /\ CanCharge(LoadCharge(s) + GlobalOpCost)
    /\ consumed' = Charged(LoadCharge(s) + GlobalOpCost)
    /\ UNCHANGED <<store, phase, kind, limit, events, output>>

Exists(s) ==
    /\ Access(s)
    /\ cache' = [cache EXCEPT ![s] = Loaded(s)]
    /\ UNCHANGED refs

BorrowGlobal(s) ==
    /\ Access(s) /\ Holds(Loaded(s))
    /\ cache' = [cache EXCEPT ![s] = Loaded(s)]
    /\ refs' = refs \cup {s}

MoveFrom(s) ==
    /\ Access(s) /\ Holds(Loaded(s)) /\ s \notin refs
    /\ cache' = [cache EXCEPT ![s] = MovedFrom(Loaded(s))]
    /\ UNCHANGED refs

MoveTo(s, v) ==
    /\ Access(s) /\ ~Holds(Loaded(s))
    /\ cache' = [cache EXCEPT ![s] = MovedTo(Loaded(s), v)]
    /\ UNCHANGED refs

(* The slot cannot be read or the charge for it is refused; the charge for *)
(* the operation is refused; or, after it, the resource is missing, in the *)
(* way or referenced, or access control says no.                           *)
AccessFails(s) ==
    /\ phase = "running"
    /\ \/ /\ cache[s] = Unloaded
          /\ Fail(consumed)
       \/ /\ CanCharge(LoadCharge(s)) /\ ~CanCharge(LoadCharge(s) + GlobalOpCost)
          /\ Fail(Charged(LoadCharge(s)))
       \/ /\ CanCharge(LoadCharge(s) + GlobalOpCost)
          /\ Fail(Charged(LoadCharge(s) + GlobalOpCost))

Step(amount) ==
    /\ phase = "running" /\ CanCharge(amount) /\ consumed' = Charged(amount)
    /\ UNCHANGED <<store, phase, kind, limit, output>>

WriteRef(s, v) ==
    /\ Step(RefOpCost) /\ s \in refs
    /\ cache' = [cache EXCEPT ![s] = Rewritten(cache[s], v)]
    /\ UNCHANGED <<refs, events>>

(* The reference goes out of use.                                          *)
ReleaseRef(s) ==
    /\ Step(InstructionCost) /\ s \in refs
    /\ refs' = refs \ {s}
    /\ UNCHANGED <<cache, events>>

(* Any instruction that touches neither resources nor events.              *)
Compute ==
    /\ Step(InstructionCost)
    /\ UNCHANGED <<cache, refs, events>>

WriteToEventStore(e) ==
    /\ Step(NativeCost) /\ Len(events) < MaxEvents
    /\ events' = Append(events, e)
    /\ UNCHANGED <<cache, refs>>

(* The meter refuses a charge, an instruction aborts after its charge, or  *)
(* arguments or return values do not decode, which is not charged.         *)
InstructionFails ==
    /\ phase = "running"
    /\ \E amount \in {0, RefOpCost, InstructionCost, NativeCost} :
         IF CanCharge(amount) THEN Fail(Charged(amount)) ELSE Fail(consumed)

(* The entry function returns; a query's effects and events are dropped.   *)
Return ==
    /\ phase = "running" /\ CanCharge(InstructionCost)
    /\ IF kind = "query"
         THEN Finish("Success", Charged(InstructionCost), NoEffects, <<>>)
         ELSE Finish("Success", Charged(InstructionCost), Effects, events)

(* Extracting the effects fails: an Err instead of an output.              *)
EffectsFail ==
    /\ phase = "running" /\ CanCharge(InstructionCost) /\ kind # "query"
    /\ Finish("Error", Charged(InstructionCost), NoEffects, <<>>)

Execution ==
    \/ \E s \in Slot :
         \/ Exists(s) \/ BorrowGlobal(s) \/ MoveFrom(s) \/ AccessFails(s) \/ ReleaseRef(s)
         \/ \E v \in Value : MoveTo(s, v) \/ WriteRef(s, v)
    \/ \E e \in Event : WriteToEventStore(e)
    \/ Compute \/ InstructionFails \/ Return \/ EffectsFail

Disposed ==
    /\ phase = "done" /\ phase' = "idle"
    /\ kind' = "call" /\ limit' = 0 /\ consumed' = 0 /\ output' = None
    /\ UNCHANGED <<cache, refs, events>>

(* The node applies the output's write set: None removes the key.          *)
Apply ==
    /\ Disposed
    /\ store' = [s \in Slot |-> IF s \in DOMAIN output.write_set
                                  THEN output.write_set[s] ELSE store[s]]

(* The node drops the output, or a restart loses it.                       *)
Drop ==
    /\ Disposed
    /\ UNCHANGED store

Next ==
    \/ \E k \in Kind, l \in GasLimit :
         \/ Begin(k, l)
         \/ \E status \in {"MoveAbort", "Error"} : NothingRuns(k, l, status)
    \/ Execution
    \/ Apply
    \/ Drop

Spec == Init /\ [][Next]_vars

(* The interpreter loop keeps running until the transaction ends.          *)
FairSpec == Spec /\ WF_vars(Execution)

-----------------------------------------------------------------------------
PartialEffects == UNION {[S -> {None} \cup Value] : S \in SUBSET Slot}

Output ==
    [status : {"Success", "MoveAbort", "Error"}, gas_used : Nat,
     write_set : PartialEffects, events : Seq(Event)]

(* Every variable holds the kind of value its comment says; a finished     *)
(* transaction has an output whose write set maps slots to resources.      *)
TypeOK ==
    /\ store \in [Slot -> {None} \cup Value]
    /\ phase \in {"idle", "running", "done"} /\ kind \in Kind
    /\ limit \in 0..MaxU64 /\ consumed \in 0..MaxU64
    /\ cache \in [Slot -> GlobalValue]
    /\ refs \subseteq Slot
    /\ events \in Seq(Event)
    /\ phase # "done" => output = None
    /\ phase = "done" => output \in Output

(* A slot of the cache always says truly how it relates to the store:      *)
(* Fresh and Absent only where nothing is stored, Cached and Deleted only  *)
(* where something is, clean only with the stored resource, and a live     *)
(* reference only where there is a resource.                               *)
SlotAgrees(gv, stored) ==
    /\ gv.tag \in {"Fresh", "Absent"} => stored = None
    /\ gv.tag \in {"Cached", "Deleted"} => stored # None
    /\ gv.tag = "Cached" /\ ~gv.dirty => gv.value = stored

CacheAgrees ==
    /\ \A s \in Slot : SlotAgrees(cache[s], store[s])
    /\ \A s \in refs : Holds(cache[s])

(* The gas a request is billed: within its limit whatever the estimate,    *)
(* and never less than what the interpreter consumed.                      *)
GasBilled ==
    /\ consumed <= limit
    /\ phase = "done" =>
         /\ output.gas_used <= limit
         /\ output.status # "Error" => consumed <= output.gas_used

(* A key is removed only where a resource is stored, so applying an output *)
(* never deletes what is not there.                                        *)
DeletesExist ==
    phase = "done" =>
      \A s \in DOMAIN output.write_set : output.write_set[s] = None => store[s] # None

(* Gas bounds execution: every transaction ends, however its code loops,   *)
(* unless its limit is the one at which charges saturate.                  *)
Terminates == (phase = "running" /\ limit < MaxU64) ~> (phase = "done")

-----------------------------------------------------------------------------
(* What a transaction makes of a slot.                                     *)
Content(gv, stored) ==
    IF gv.tag = "Unloaded" THEN stored ELSE IF Holds(gv) THEN gv.value ELSE None

Working(s) ==
    IF phase = "done"
      THEN IF s \in DOMAIN output.write_set THEN output.write_set[s] ELSE store[s]
      ELSE Content(cache[s], store[s])

(* A call or script that succeeded keeps its effects; every other end, a   *)
(* query's among them, discards them.                                      *)
Ending == IF output.status = "Success" /\ kind # "query" THEN "kept" ELSE "discarded"

Atomic == INSTANCE AtomicEffects
            WITH stage <- IF phase = "done" THEN Ending ELSE phase,
                 state <- store,
                 working <- [s \in Slot |-> Working(s)],
                 emitted <- IF phase = "done" THEN output.events ELSE events

(* Lazily loaded slots, their status flags and the write set amount to a   *)
(* copy of the state that is installed as a whole or not at all; the       *)
(* output of a failed transaction and of a query has no write and no event *)
(* and applying it changes nothing, a successful one loses none of either. *)
ImplementsAtomicEffects == Atomic!EffectsSpec
=============================================================================
