--------------------------- MODULE ExecuteSession ---------------------------
(***************************************************************************)
(* ExecuteSession, its ResourceStore and its SimpleGasMeter: a caller      *)
(* charges, reads and writes through an overlay on a state view, in any    *)
(* order, and in the end commits or aborts the session.  The meter refuses *)
(* what exceeds the limit; the gas summary counts refused charges too, and *)
(* a refused read is made all the same.  The meter and the resource store  *)
(* are public fields: a caller can use both past the session's methods.    *)
(***************************************************************************)
EXTENDS Naturals, FiniteSetsExt

CONSTANTS
    Slot,          \* places a resource can be: an account and a type tag
    Value,         \* resources
    Size,          \* value |-> its length in bytes
    None,          \* no resource, no output
    Amount,        \* amounts callers charge
    GasLimit,      \* gas limits of sessions
    MaxU64,        \* the largest gas amount: sums saturate there
    ReadPerByte, WritePerByte    \* GasSchedule

ASSUME ExecuteSessionAssumption ==
    /\ None \notin Value
    /\ Size \in [Value -> Nat]
    /\ MaxU64 \in Nat /\ Amount \subseteq 0..MaxU64 /\ GasLimit \subseteq 0..MaxU64
    /\ ReadPerByte \in Nat /\ WritePerByte \in Nat

VARIABLES
    store,        \* slot |-> resource or None: the state the view reads
    phase,        \* "idle", "open", "committed", "aborted"
    kind,         \* SessionKind
    limit,        \* the meter's limit
    consumed,     \* SimpleGasMeter
    gas_summary,  \* MoveGasSummary
    overlay,      \* slot |-> written resource or None for a removal
    output,       \* the VmOutput of a finished session
    direct,       \* history: slots last set past the session's write_resource
    beside        \* history: gas charged at the meter past the summary

vars == <<store, phase, kind, limit, consumed, gas_summary, overlay, output, direct, beside>>

SessionKind == {"Publish", "Execute", "ReadOnly"}
Category == {"execution_gas", "io_gas", "storage_fee"}

NoGas == [c \in Category |-> 0]
NoChanges == [s \in {} |-> None]

-----------------------------------------------------------------------------
Sat(n) == IF n > MaxU64 THEN MaxU64 ELSE n

Total(summary) ==
    Sat(Sat(summary["execution_gas"] + summary["io_gas"]) + summary["storage_fee"])

CanCharge(amount) == Sat(consumed + amount) <= limit

(* A refused charge leaves the meter alone.                                *)
MeterAfter(amount) == IF CanCharge(amount) THEN Sat(consumed + amount) ELSE consumed

(* Mutant: the summary counts the last charge only.                        *)
SummaryAfterLast(c, amount) == [gas_summary EXCEPT ![c] = Sat(amount)]

SummaryAfter(c, amount) == [gas_summary EXCEPT ![c] = Sat(@ + amount)]

(* charge_execution, charge_io and charge_storage.                         *)
Charge(c, amount) ==
    /\ gas_summary' = SummaryAfter(c, amount)
    /\ consumed' = MeterAfter(amount)

(* ResourceStore::get, set and remove.                                     *)
Get(s) == IF s \in DOMAIN overlay THEN overlay[s] ELSE store[s]

(* Mutant: a write replaces the overlay.                                   *)
PutAlone(s, v) == [x \in {s} |-> v]

Put(s, v) == [x \in DOMAIN overlay \cup {s} |-> IF x = s THEN v ELSE overlay[x]]

ReadCost(s) == IF Get(s) = None THEN 0 ELSE Sat(Size[Get(s)] * ReadPerByte)

(* Mutant: the length of the value is not charged for.                     *)
WriteCostFlat(v) == WritePerByte

WriteCost(v) == Sat(Size[v] * WritePerByte)

-----------------------------------------------------------------------------
Init ==
    /\ store \in [Slot -> {None} \cup Value]
    /\ phase = "idle" /\ kind = "Execute" /\ limit = 0
    /\ consumed = 0 /\ gas_summary = NoGas /\ overlay = NoChanges /\ output = None
    /\ direct = {} /\ beside = 0

New(k, l) ==
    /\ phase = "idle"
    /\ phase' = "open" /\ kind' = k /\ limit' = l
    /\ UNCHANGED <<store, consumed, gas_summary, overlay, output, direct, beside>>

Open == phase = "open" /\ UNCHANGED <<store, phase, kind, limit, output>>

ChargeOnly(c, amount) ==
    /\ Open
    /\ Charge(c, amount)
    /\ UNCHANGED <<overlay, direct, beside>>

(* SimpleGasMeter::charge on the public meter: the summary misses it.      *)
ChargeMeter(amount) ==
    /\ Open
    /\ consumed' = MeterAfter(amount)
    /\ beside' = IF CanCharge(amount) THEN Sat(beside + amount) ELSE beside
    /\ UNCHANGED <<gas_summary, overlay, direct>>

(* The result of the charge is ignored.                                    *)
ReadResource(s) ==
    /\ Open
    /\ Charge("io_gas", ReadCost(s))
    /\ UNCHANGED <<overlay, direct, beside>>

WriteResource(s, v) ==
    /\ Open /\ kind # "ReadOnly"
    /\ Charge("storage_fee", WriteCost(v))
    /\ IF CanCharge(WriteCost(v))
         THEN overlay' = Put(s, v) /\ direct' = direct \ {s}
         ELSE UNCHANGED <<overlay, direct>>
    /\ UNCHANGED beside

(* ResourceStore::set and remove on the public resource store, past the    *)
(* meter and whatever the kind of the session.                             *)
SetDirect(s, v) ==
    /\ Open
    /\ overlay' = Put(s, v) /\ direct' = direct \cup {s}
    /\ UNCHANGED <<consumed, gas_summary, beside>>

Remove(s) ==
    /\ Open
    /\ overlay' = Put(s, None) /\ direct' = direct \ {s}
    /\ UNCHANGED <<consumed, gas_summary, beside>>

(* The session is consumed; what it held goes with it.                     *)
Close(end, changes) ==
    /\ phase = "open" /\ phase' = end
    /\ output' = [gas_used |-> consumed, write_set |-> changes]
    /\ overlay' = NoChanges
    /\ UNCHANGED <<store, kind, limit, consumed, gas_summary, direct, beside>>

(* The caller's status changes nothing in either.                          *)
Commit == Close("committed", overlay)

Abort == Close("aborted", NoChanges)

Closed == phase \in {"committed", "aborted"}

Disposed ==
    /\ Closed /\ phase' = "idle"
    /\ kind' = "Execute" /\ limit' = 0 /\ consumed' = 0 /\ gas_summary' = NoGas
    /\ output' = None /\ direct' = {} /\ beside' = 0
    /\ UNCHANGED overlay

(* The node applies the output's write set: None removes the key.          *)
Apply ==
    /\ Disposed
    /\ store' = [s \in Slot |-> IF s \in DOMAIN output.write_set
                                  THEN output.write_set[s] ELSE store[s]]

Drop ==
    /\ Disposed
    /\ UNCHANGED store

Next ==
    \/ \E k \in SessionKind, l \in GasLimit : New(k, l)
    \/ \E c \in Category, amount \in Amount : ChargeOnly(c, amount)
    \/ \E amount \in Amount : ChargeMeter(amount)
    \/ \E s \in Slot :
         \/ ReadResource(s) \/ Remove(s)
         \/ \E v \in Value : WriteResource(s, v) \/ SetDirect(s, v)
    \/ Commit \/ Abort \/ Apply \/ Drop

Spec == Init /\ [][Next]_vars

-----------------------------------------------------------------------------
Changes == UNION {[S -> {None} \cup Value] : S \in SUBSET Slot}

(* Every variable holds the kind of value its comment says.                *)
TypeOK ==
    /\ store \in [Slot -> {None} \cup Value]
    /\ phase \in {"idle", "open", "committed", "aborted"} /\ kind \in SessionKind
    /\ limit \in 0..MaxU64 /\ consumed \in 0..MaxU64 /\ beside \in 0..MaxU64
    /\ gas_summary \in [Category -> 0..MaxU64]
    /\ overlay \in Changes
    /\ direct \subseteq Slot
    /\ ~Closed => output = None
    /\ Closed => output \in [gas_used : 0..MaxU64, write_set : Changes]

(* The meter and the summary, with what was charged at the meter past it,  *)
(* are two accounts of the same charges.  They agree until a charge of the *)
(* session is refused, which is when the sum passes the limit, and from    *)
(* then on it is the larger one.                                           *)
SummaryMatchesMeter ==
    LET counted == Sat(Total(gas_summary) + beside) IN
      /\ consumed <= limit
      /\ consumed <= counted
      /\ counted <= limit => consumed = counted

(* What write_resource put of a set of changes.                            *)
Recorded(changes) == [s \in DOMAIN changes \ direct |-> changes[s]]

BytesStored(changes) ==
    MapThenSumSet(LAMBDA s : Size[changes[s]], {s \in DOMAIN changes : changes[s] # None})

(* Every resource that write_resource put and a session would commit, or   *)
(* has committed, is paid for, whatever was charged, refused, overwritten, *)
(* removed or set directly before.  What ResourceStore::set put past the   *)
(* session, and nothing wrote or removed since, is not paid for.           *)
WritesArePaid ==
    /\ Sat(BytesStored(Recorded(overlay)) * WritePerByte) <= consumed
    /\ Closed =>
         Sat(BytesStored(Recorded(output.write_set)) * WritePerByte) <= output.gas_used

-----------------------------------------------------------------------------
Working(s) ==
    IF Closed /\ s \in DOMAIN output.write_set THEN output.write_set[s] ELSE Get(s)

Stage ==
    CASE phase = "idle" -> "idle" [] phase = "open" -> "running"
      [] phase = "committed" -> "kept" [] phase = "aborted" -> "discarded"

Atomic == INSTANCE AtomicEffects
            WITH stage <- Stage,
                 state <- store,
                 working <- [s \in Slot |-> Working(s)],
                 emitted <- <<>>,
                 Event <- {}

(* The overlay amounts to a copy of the state: reads see the session's own *)
(* writes, a write touches one slot, a commit keeps all of them and an     *)
(* abort none.                                                             *)
ImplementsAtomicEffects == Atomic!EffectsSpec
=============================================================================
