------------------------ MODULE ExecuteSession_proofs ------------------------
(***************************************************************************)
(* Proofs about ExecuteSession: the two accounts of its gas, what its      *)
(* writes pay, and the refinement to AtomicEffects.                        *)
(***************************************************************************)
EXTENDS ExecuteSession, FiniteSetTheorems, WellFoundedInduction, TLAPS

(* A session that is not open holds no overlay, an idle one no gas, an     *)
(* aborted one no changes.                                                 *)
Quiet ==
    /\ phase # "open" => overlay = NoChanges
    /\ phase = "idle" => consumed = 0 /\ gas_summary = NoGas /\ beside = 0
    /\ phase = "aborted" => output.write_set = NoChanges

IInv == TypeOK /\ Quiet /\ SummaryMatchesMeter

-----------------------------------------------------------------------------
(* Costs are gas amounts.                                                  *)
LEMMA CostsTyped ==
    ASSUME TypeOK
    PROVE  /\ \A s \in Slot : ReadCost(s) \in 0..MaxU64
           /\ \A v \in Value : WriteCost(v) \in 0..MaxU64
<1>1. ASSUME NEW n \in Nat PROVE Sat(n) \in 0..MaxU64
  BY ExecuteSessionAssumption DEF Sat
<1>2. \A v \in Value : Size[v] * WritePerByte \in Nat /\ Size[v] * ReadPerByte \in Nat
  BY ExecuteSessionAssumption
<1>3. \A v \in Value : WriteCost(v) \in 0..MaxU64
  BY <1>1, <1>2 DEF WriteCost
<1>4. \A s \in Slot : Get(s) \in {None} \cup Value
  BY DEF TypeOK, Changes, Get
<1>5. \A s \in Slot : ReadCost(s) \in 0..MaxU64
  BY <1>1, <1>2, <1>4, ExecuteSessionAssumption DEF ReadCost
<1> QED BY <1>3, <1>5

(* A charge keeps the meter and the summary of their kinds and in step.    *)
LEMMA ChargeKeeps ==
    ASSUME IInv, NEW c \in Category, NEW amount \in 0..MaxU64, Charge(c, amount),
           limit' = limit, beside' = beside
    PROVE  /\ consumed' \in 0..MaxU64 /\ gas_summary' \in [Category -> 0..MaxU64]
           /\ SummaryMatchesMeter'
<1> DEFINE e == gas_summary["execution_gas"]
           i == gas_summary["io_gas"]
           f == gas_summary["storage_fee"]
<1>1. /\ consumed \in 0..MaxU64 /\ limit \in 0..MaxU64 /\ MaxU64 \in Nat
      /\ gas_summary \in [Category -> 0..MaxU64]
      /\ e \in 0..MaxU64 /\ i \in 0..MaxU64 /\ f \in 0..MaxU64
  BY ExecuteSessionAssumption DEF IInv, TypeOK, Category
<1>2. /\ gas_summary' = [gas_summary EXCEPT ![c] = Sat(gas_summary[c] + amount)]
      /\ consumed' = IF Sat(consumed + amount) <= limit THEN Sat(consumed + amount) ELSE consumed
  BY DEF Charge, SummaryAfter, MeterAfter, CanCharge
<1>3. \A n \in Nat : Sat(n) \in 0..MaxU64
  BY <1>1 DEF Sat
<1>4. consumed' \in 0..MaxU64 /\ gas_summary' \in [Category -> 0..MaxU64]
  <2>1. gas_summary[c] + amount \in Nat /\ consumed + amount \in Nat
    BY <1>1
  <2> QED BY <2>1, <1>1, <1>2, <1>3
<1>5. Total(gas_summary') = Sat(Total(gas_summary) + amount)
  <2>1. CASE c = "execution_gas"
    <3>1. /\ gas_summary'["execution_gas"] = Sat(e + amount)
          /\ gas_summary'["io_gas"] = i /\ gas_summary'["storage_fee"] = f
      BY <2>1, <1>1, <1>2 DEF Category
    <3> QED BY <3>1, <1>1 DEF Total, Sat
  <2>2. CASE c = "io_gas"
    <3>1. /\ gas_summary'["execution_gas"] = e
          /\ gas_summary'["io_gas"] = Sat(i + amount) /\ gas_summary'["storage_fee"] = f
      BY <2>2, <1>1, <1>2 DEF Category
    <3> QED BY <3>1, <1>1 DEF Total, Sat
  <2>3. CASE c = "storage_fee"
    <3>1. /\ gas_summary'["execution_gas"] = e
          /\ gas_summary'["io_gas"] = i /\ gas_summary'["storage_fee"] = Sat(f + amount)
      BY <2>3, <1>1, <1>2 DEF Category
    <3> QED BY <3>1, <1>1 DEF Total, Sat
  <2> QED BY <2>1, <2>2, <2>3 DEF Category
<1>6. Total(gas_summary) \in 0..MaxU64
  BY <1>1 DEF Total, Sat
<1>7. SummaryMatchesMeter'
  <2> DEFINE t == Total(gas_summary)
             m == Sat(t + beside)
  <2>1. consumed <= limit /\ consumed <= m /\ (m <= limit => consumed = m)
    BY DEF IInv, SummaryMatchesMeter
  <2>2. Total(gas_summary)' = Sat(t + amount)
    BY <1>5
  <2>3. Sat(Sat(t + amount) + beside) = Sat(m + amount) /\ m \in 0..MaxU64
    <3> HIDE DEF t
    <3>1. t \in 0..MaxU64 /\ beside \in 0..MaxU64
      BY <1>6 DEF t, IInv, TypeOK
    <3> QED BY <3>1, <1>1 DEF Sat
  <2>4. /\ consumed' <= limit /\ consumed' <= Sat(m + amount)
        /\ Sat(m + amount) <= limit => consumed' = Sat(m + amount)
    <3> HIDE DEF m
    <3> QED BY <1>1, <1>2, <2>1, <2>3 DEF Sat
  <2> QED BY <2>2, <2>3, <2>4 DEF SummaryMatchesMeter
<1> QED BY <1>4, <1>7

(* A charge at the meter alone is one more part of what was counted.       *)
LEMMA MeterChargeKeeps ==
    ASSUME IInv, NEW amount \in 0..MaxU64, ChargeMeter(amount)
    PROVE  consumed' \in 0..MaxU64 /\ beside' \in 0..MaxU64 /\ SummaryMatchesMeter'
<1> DEFINE t == Total(gas_summary)
           m == Sat(t + beside)
<1>1. /\ consumed \in 0..MaxU64 /\ limit \in 0..MaxU64 /\ beside \in 0..MaxU64
      /\ MaxU64 \in Nat /\ t \in 0..MaxU64
  BY ExecuteSessionAssumption DEF IInv, TypeOK, Category, Total, Sat
<1>2. consumed <= limit /\ consumed <= m /\ (m <= limit => consumed = m)
  BY DEF IInv, SummaryMatchesMeter
<1>3. limit' = limit /\ Total(gas_summary)' = t
  BY DEF ChargeMeter, Open
<1>4. /\ consumed' = IF Sat(consumed + amount) <= limit THEN Sat(consumed + amount) ELSE consumed
      /\ beside' = IF Sat(consumed + amount) <= limit THEN Sat(beside + amount) ELSE beside
  BY DEF ChargeMeter, MeterAfter, CanCharge
<1> HIDE DEF t
<1>5. /\ consumed' \in 0..MaxU64 /\ beside' \in 0..MaxU64
      /\ Sat(t + beside') = IF Sat(consumed + amount) <= limit THEN Sat(m + amount) ELSE m
      /\ m \in 0..MaxU64
  BY <1>1, <1>4 DEF Sat
<1> HIDE DEF m
<1>6. /\ consumed' <= limit /\ consumed' <= Sat(t + beside')
      /\ Sat(t + beside') <= limit => consumed' = Sat(t + beside')
  BY <1>1, <1>2, <1>4, <1>5 DEF Sat
<1> QED BY <1>3, <1>5, <1>6 DEF SummaryMatchesMeter

(* Putting a resource or a removal keeps the overlay an overlay.           *)
LEMMA PutTyped ==
    ASSUME TypeOK, NEW s \in Slot, NEW v \in {None} \cup Value
    PROVE  /\ Put(s, v) \in Changes
           /\ DOMAIN Put(s, v) = DOMAIN overlay \cup {s}
           /\ \A x \in DOMAIN Put(s, v) : Put(s, v)[x] = IF x = s THEN v ELSE overlay[x]
<1>1. PICK S \in SUBSET Slot : overlay \in [S -> {None} \cup Value]
  BY DEF TypeOK, Changes
<1>2. Put(s, v) \in [S \cup {s} -> {None} \cup Value]
  BY <1>1 DEF Put
<1> QED BY <1>1, <1>2 DEF Put, Changes

(* Having changed nothing is a set of changes.                             *)
LEMMA NoChangesFacts == NoChanges \in Changes /\ DOMAIN NoChanges = {}
<1>1. NoChanges \in [{} -> {None} \cup Value]
  BY DEF NoChanges
<1> QED BY <1>1 DEF Changes, NoChanges

-----------------------------------------------------------------------------
(* The invariant holds at the start.                                       *)
LEMMA InitIInv == Init => IInv
<1> SUFFICES ASSUME Init PROVE IInv
  OBVIOUS
<1>1. TypeOK /\ Quiet
  BY NoChangesFacts, ExecuteSessionAssumption
     DEF Init, TypeOK, Quiet, Closed, NoGas, SessionKind, Category
<1>2. Sat(Total(NoGas) + 0) = 0
  BY ExecuteSessionAssumption DEF Total, NoGas, Category, Sat
<1>3. SummaryMatchesMeter
  BY <1>2 DEF Init, SummaryMatchesMeter
<1> QED BY <1>1, <1>3 DEF IInv

(* Every action keeps the invariant.                                       *)
LEMMA StepIInv == IInv /\ [Next]_vars => IInv'
<1> SUFFICES ASSUME IInv, [Next]_vars PROVE IInv'
  OBVIOUS
<1>u. TypeOK /\ Quiet /\ SummaryMatchesMeter
  BY DEF IInv
<1>0. Sat(Total(NoGas) + 0) = 0 /\ MaxU64 \in Nat
  BY ExecuteSessionAssumption DEF Total, NoGas, Category, Sat
<1>1. ASSUME NEW k \in SessionKind, NEW l \in GasLimit, New(k, l) PROVE IInv'
  <2>1. l \in 0..MaxU64
    BY ExecuteSessionAssumption
  <2>2. TypeOK' /\ Quiet'
    BY <1>u, <1>1, <2>1 DEF New, TypeOK, Quiet, Closed
  <2>3. consumed' = 0 /\ gas_summary' = NoGas /\ beside' = 0 /\ limit' = l
    BY <1>u, <1>1 DEF New, Quiet
  <2>4. SummaryMatchesMeter'
    BY <1>0, <2>1, <2>3 DEF SummaryMatchesMeter
  <2> QED BY <2>2, <2>4 DEF IInv
<1>2. ASSUME Open, overlay' \in Changes, direct' \subseteq Slot,
             consumed' \in 0..MaxU64, beside' \in 0..MaxU64,
             gas_summary' \in [Category -> 0..MaxU64], SummaryMatchesMeter'
      PROVE  IInv'
  BY <1>u, <1>2 DEF Open, IInv, TypeOK, Quiet, Closed
<1>3. ASSUME NEW c \in Category, NEW amount \in Amount, ChargeOnly(c, amount) PROVE IInv'
  BY <1>u, <1>2, <1>3, ChargeKeeps, ExecuteSessionAssumption DEF ChargeOnly, Open, TypeOK
<1>4. ASSUME NEW amount \in Amount, ChargeMeter(amount) PROVE IInv'
  BY <1>u, <1>2, <1>4, MeterChargeKeeps, ExecuteSessionAssumption DEF ChargeMeter, TypeOK
<1>5. ASSUME NEW s \in Slot, ReadResource(s) PROVE IInv'
  BY <1>u, <1>2, <1>5, ChargeKeeps, CostsTyped DEF ReadResource, Open, TypeOK, Category
<1>6. ASSUME NEW s \in Slot, NEW v \in Value, WriteResource(s, v) PROVE IInv'
  <2>1. overlay' \in Changes
    <3>1. Put(s, v) \in Changes /\ overlay \in Changes
      BY <1>u, PutTyped DEF TypeOK
    <3> QED BY <1>6, <3>1 DEF WriteResource
  <2>2. direct' \subseteq Slot
    BY <1>u, <1>6 DEF WriteResource, TypeOK
  <2>3. WriteCost(v) \in 0..MaxU64 /\ "storage_fee" \in Category
    BY <1>u, CostsTyped DEF Category
  <2> QED BY <1>u, <1>2, <1>6, <2>1, <2>2, <2>3, ChargeKeeps DEF WriteResource, Open, TypeOK
<1>7. ASSUME NEW s \in Slot, NEW v \in Value, SetDirect(s, v) PROVE IInv'
  <2>1. overlay' \in Changes /\ direct' \subseteq Slot /\ SummaryMatchesMeter'
    BY <1>u, <1>7, PutTyped DEF SetDirect, Open, TypeOK, SummaryMatchesMeter
  <2> QED BY <1>u, <1>2, <1>7, <2>1 DEF SetDirect, TypeOK
<1>8. ASSUME NEW s \in Slot, Remove(s) PROVE IInv'
  <2>1. overlay' \in Changes /\ direct' \subseteq Slot /\ SummaryMatchesMeter'
    BY <1>u, <1>8, PutTyped DEF Remove, Open, TypeOK, SummaryMatchesMeter
  <2> QED BY <1>u, <1>2, <1>8, <2>1 DEF Remove, TypeOK
<1>9. CASE Commit \/ Abort
  <2>1. \E changes \in {overlay, NoChanges}, end \in {"committed", "aborted"} :
          /\ Close(end, changes)
          /\ end = "aborted" => changes = NoChanges
    BY <1>9 DEF Commit, Abort
  <2>2. PICK changes \in {overlay, NoChanges}, end \in {"committed", "aborted"} :
          /\ Close(end, changes)
          /\ end = "aborted" => changes = NoChanges
    BY <2>1
  <2>3. changes \in Changes
    BY <1>u, NoChangesFacts DEF TypeOK
  <2>4. TypeOK' /\ Quiet' /\ SummaryMatchesMeter'
    BY <1>u, <2>2, <2>3, NoChangesFacts
       DEF Close, Closed, TypeOK, Quiet, SummaryMatchesMeter
  <2> QED BY <2>4 DEF IInv
<1>10. ASSUME Disposed, store' \in [Slot -> {None} \cup Value] PROVE IInv'
  <2>1. NoGas \in [Category -> 0..MaxU64] /\ 0 \in 0..MaxU64
    BY <1>0 DEF NoGas
  <2>2. TypeOK' /\ Quiet'
    BY <1>u, <1>10, <2>1 DEF Disposed, Closed, TypeOK, Quiet, SessionKind
  <2>3. SummaryMatchesMeter'
    BY <1>0, <1>10 DEF Disposed, SummaryMatchesMeter
  <2> QED BY <2>2, <2>3 DEF IInv
<1>11. CASE Apply
  <2>1. store' \in [Slot -> {None} \cup Value]
    BY <1>u, <1>11 DEF Apply, Disposed, Closed, TypeOK, Changes
  <2> QED BY <1>10, <1>11, <2>1 DEF Apply
<1>12. CASE Drop
  BY <1>u, <1>10, <1>12 DEF Drop, TypeOK
<1>13. CASE UNCHANGED vars
  BY <1>13, <1>u DEF vars, IInv, TypeOK, Closed, Quiet, SummaryMatchesMeter
<1> QED BY <1>1, <1>3, <1>4, <1>5, <1>6, <1>7, <1>8, <1>9, <1>11, <1>12, <1>13 DEF Next

(* The invariant holds in every reachable state, for any slots, resources, *)
(* sizes, prices and limits.                                               *)
THEOREM Invariance == Spec => []IInv
BY InitIInv, StepIInv, PTL DEF Spec

(* The session's variables and its output hold values of their kinds.      *)
THEOREM TypeCorrect == Spec => []TypeOK
BY Invariance, PTL DEF IInv

(* The gas summary, with what was charged past it, and the meter agree     *)
(* until a charge is refused.                                              *)
THEOREM SummaryFollowsMeter == Spec => []SummaryMatchesMeter
BY Invariance, PTL DEF IInv

-----------------------------------------------------------------------------
(* Sums over finite sets.                                                  *)

(* Induction on the natural numbers, for a set of them.                    *)
LEMMA NatSetInduction ==
  ASSUME NEW S, 0 \in S, \A n \in Nat : n \in S => n + 1 \in S
  PROVE  Nat \subseteq S
<1> DEFINE T == Nat \ S
<1> SUFFICES ASSUME T # {} PROVE FALSE
  OBVIOUS
<1>1. PICK x \in T : \A y \in T : ~(<<y, x>> \in OpToRel(<, Nat))
  BY NatLessThanWellFounded, WFMin
<1>2. x - 1 \in Nat /\ x - 1 \in T
  OBVIOUS
<1>3. <<x - 1, x>> \in OpToRel(<, Nat)
  BY <1>2 DEF OpToRel
<1> QED
  BY <1>1, <1>2, <1>3

(* Induction on the finite sets within a finite set, for a set of them.    *)
LEMMA FiniteSetInduction ==
  ASSUME NEW S, IsFiniteSet(S), NEW G,
         \A t \in SUBSET S : (\A x \in t : t \ {x} \in G) => t \in G
  PROVE  SUBSET S \subseteq G
<1> DEFINE N == {n \in Nat : \A t \in SUBSET S : Cardinality(t) <= n => t \in G}
<1>1. \A t \in SUBSET S : IsFiniteSet(t) /\ Cardinality(t) \in Nat
  BY FS_Subset, FS_CardinalityType
<1>2. 0 \in N
  <2> SUFFICES ASSUME NEW t \in SUBSET S, Cardinality(t) <= 0 PROVE t \in G
    OBVIOUS
  <2>1. Cardinality(t) = 0
    BY <1>1
  <2>2. t = {}
    BY <1>1, <2>1, FS_EmptySet
  <2> QED
    BY <2>2
<1>3. ASSUME NEW n \in Nat, n \in N PROVE n + 1 \in N
  <2> SUFFICES ASSUME NEW t \in SUBSET S, Cardinality(t) <= n + 1, NEW x \in t
               PROVE  t \ {x} \in G
    OBVIOUS
  <2>1. Cardinality(t \ {x}) = Cardinality(t) - 1 /\ t \ {x} \in SUBSET S
    BY <1>1, FS_RemoveElement
  <2>2. Cardinality(t \ {x}) <= n
    BY <1>1, <2>1
  <2> QED
    BY <1>3, <2>1, <2>2
<1>4. Nat \subseteq N
  <2> HIDE DEF N
  <2> QED
    BY <1>2, <1>3, NatSetInduction
<1> QED
  BY <1>1, <1>4

(* f sums w over the subsets of S, whichever element is taken first.       *)
Additive(f, S, w) ==
    /\ f \in [SUBSET S -> Nat]
    /\ f[{}] = 0
    /\ \A t \in SUBSET S : \A x \in t : f[t] = w[x] + f[t \ {x}]

(* The slots whose resources a set of changes stores, and their lengths.   *)
Stored(changes) == {s \in DOMAIN changes : changes[s] # None}
Lengths(changes) == [s \in Stored(changes) |-> Size[changes[s]]]

(* What BytesStored computes.                                              *)
Picked(t) == CHOOSE x \in t : TRUE
IsFold(h, S, changes) ==
    h = [t \in SUBSET S |-> IF t = {} THEN 0
                            ELSE Size[changes[Picked(t)]] + h[t \ {Picked(t)}]]

(* BytesStored is the library's fold over the stored slots.                *)
LEMMA BytesStoredFolds ==
  ASSUME NEW changes
  PROVE  BytesStored(changes) =
           (CHOOSE h : IsFold(h, Stored(changes), changes))[Stored(changes)]
  BY DEF BytesStored, MapThenSumSet, MapThenFoldSet, IsFold, Picked, Stored

(* There is such a fold of the lengths over the subsets of a finite set:   *)
(* one for the subsets of at most n elements, for every n.                 *)
LEMMA FoldExists ==
  ASSUME NEW changes, NEW S, IsFiniteSet(S)
  PROVE  \E h : IsFold(h, S, changes)
<1> DEFINE Up(n) == {t \in SUBSET S : Cardinality(t) <= n}
           At(h, t) == IF t = {} THEN 0
                       ELSE Size[changes[Picked(t)]] + h[t \ {Picked(t)}]
           Upto(h, n) == \A t \in Up(n) : h[t] = At(h, t)
           N == {n \in Nat : \E h : Upto(h, n)}
<1>1. \A t \in SUBSET S : IsFiniteSet(t) /\ Cardinality(t) \in Nat
  BY FS_Subset, FS_CardinalityType
<1>2. ASSUME NEW t \in SUBSET S, t # {}
      PROVE  Cardinality(t \ {Picked(t)}) = Cardinality(t) - 1 /\ t \ {Picked(t)} \in SUBSET S
  <2>1. Picked(t) \in t
    BY <1>2 DEF Picked
  <2> QED
    BY <1>1, <2>1, FS_RemoveElement
<1>3. 0 \in N
  <2> DEFINE h == [t \in SUBSET S |-> 0]
  <2>1. ASSUME NEW t \in Up(0) PROVE h[t] = At(h, t)
    <3>1. Cardinality(t) = 0
      BY <1>1, <2>1
    <3>2. t = {}
      BY <1>1, <2>1, <3>1, FS_EmptySet
    <3> QED
      BY <3>2
  <2> QED
    BY <2>1
<1>4. ASSUME NEW n \in Nat, n \in N PROVE n + 1 \in N
  <2>1. PICK h : Upto(h, n)
    BY <1>4
  <2> DEFINE g == [t \in SUBSET S |-> IF Cardinality(t) <= n THEN h[t] ELSE At(h, t)]
  <2>2. ASSUME NEW t \in Up(n + 1) PROVE g[t] = At(g, t)
    <3>1. t # {} => g[t \ {Picked(t)}] = h[t \ {Picked(t)}]
      BY <1>1, <1>2, <2>2
    <3>2. g[t] = At(h, t)
      BY <2>1, <2>2
    <3> QED
      BY <3>1, <3>2
  <2> HIDE DEF g
  <2>3. Upto(g, n + 1)
    BY <2>2
  <2> HIDE DEF Upto
  <2> QED
    BY <2>3
<1>5. Nat \subseteq N
  <2> HIDE DEF N
  <2> QED
    BY <1>3, <1>4, NatSetInduction
<1>6. PICK h : Upto(h, Cardinality(S))
  BY <1>1, <1>5
<1>7. \A t \in SUBSET S : t \in Up(Cardinality(S))
  BY FS_Subset, <1>1
<1> DEFINE g == [t \in SUBSET S |-> h[t]]
<1>8. ASSUME NEW t \in SUBSET S PROVE g[t] = At(g, t)
  <2>1. h[t] = At(h, t)
    BY <1>6, <1>7
  <2>2. t # {} => g[t \ {Picked(t)}] = h[t \ {Picked(t)}]
    BY <1>2
  <2> QED
    BY <2>1, <2>2
<1>9. g = [t \in SUBSET S |-> At(g, t)]
  BY <1>8
<1> QED
  BY <1>9 DEF IsFold

(* The fold is a sum: the order in which it takes the slots is immaterial. *)
LEMMA FoldIsAdditive ==
  ASSUME NEW changes, NEW S, IsFiniteSet(S), NEW h, IsFold(h, S, changes),
         \A x \in S : Size[changes[x]] \in Nat,
         NEW w, w = [x \in S |-> Size[changes[x]]]
  PROVE  Additive(h, S, w)
<1>1. \A t \in SUBSET S : h[t] = IF t = {} THEN 0
                                 ELSE Size[changes[Picked(t)]] + h[t \ {Picked(t)}]
  BY DEF IsFold
<1>2. ASSUME NEW t \in SUBSET S, t # {}
      PROVE  Picked(t) \in t /\ Picked(t) \in S /\ h[t] = w[Picked(t)] + h[t \ {Picked(t)}]
  <2>1. Picked(t) \in t
    BY <1>2 DEF Picked
  <2> QED
    BY <1>1, <1>2, <2>1
<1> DEFINE G == {t \in SUBSET S : /\ h[t] \in Nat
                                  /\ \A x \in t : h[t \ {x}] \in Nat /\ h[t] = w[x] + h[t \ {x}]}
<1>4. ASSUME NEW t \in SUBSET S, \A x \in t : t \ {x} \in G PROVE t \in G
  <2>1. CASE t = {}
    <3>1. h[{}] = 0
      BY <1>1, {} \in SUBSET S
    <3> QED
      BY <2>1, <3>1
  <2>2. CASE t # {}
    <3> DEFINE p == Picked(t)
    <3>1. p \in t /\ h[t] = w[p] + h[t \ {p}]
      BY <1>2, <2>2
    <3>2. \A x \in t : h[t \ {x}] \in Nat /\ w[x] \in Nat
      BY <1>4
    <3>3. ASSUME NEW x \in t, x # p PROVE h[t] = w[x] + h[t \ {x}]
      <4> DEFINE r == (t \ {p}) \ {x}
      <4>1. r = (t \ {x}) \ {p}
        OBVIOUS
      <4>2. h[t \ {p}] = w[x] + h[r] /\ h[r] \in Nat
        BY <1>4, <3>1, <3>3
      <4>3. h[t \ {x}] = w[p] + h[r]
        <5>1. t \ {x} \in G /\ p \in t \ {x}
          BY <1>4, <3>1, <3>3
        <5>2. h[t \ {x}] = w[p] + h[(t \ {x}) \ {p}]
          BY <5>1
        <5> HIDE DEF r, p, G
        <5> QED
          BY <4>1, <5>2
      <4> HIDE DEF r, p
      <4> QED
        BY <3>1, <3>2, <4>2, <4>3
    <3>4. h[t] \in Nat
      BY <3>1, <3>2
    <3> QED
      BY <3>1, <3>2, <3>3, <3>4
  <2> QED
    BY <2>1, <2>2
<1>5. SUBSET S \subseteq G
  <2> HIDE DEF G
  <2> QED
    BY <1>4, FiniteSetInduction
<1>6. h \in [SUBSET S -> Nat]
  BY <1>5 DEF IsFold
<1> QED
  BY <1>1, <1>5, <1>6 DEF Additive

(* Sums over the same slots of the same lengths are the same.              *)
LEMMA SameSums ==
  ASSUME NEW f, NEW S, NEW w, Additive(f, S, w), NEW g, NEW T, NEW u, Additive(g, T, u),
         NEW R, IsFiniteSet(R), R \subseteq S, R \subseteq T, \A x \in R : w[x] = u[x]
  PROVE  f[R] = g[R]
<1> DEFINE G == {t \in SUBSET R : f[t] = g[t]}
<1>1. ASSUME NEW t \in SUBSET R, \A x \in t : t \ {x} \in G PROVE t \in G
  <2>1. CASE t = {}
    <3>1. f[{}] = 0 /\ g[{}] = 0
      BY DEF Additive
    <3> QED
      BY <2>1, <3>1
  <2>2. CASE t # {}
    <3>1. PICK x \in t : TRUE
      BY <2>2
    <3>2. f[t] = w[x] + f[t \ {x}] /\ g[t] = u[x] + g[t \ {x}]
      BY <3>1 DEF Additive
    <3>3. f[t \ {x}] = g[t \ {x}] /\ w[x] = u[x]
      BY <1>1, <3>1
    <3> QED
      BY <3>2, <3>3
  <2> QED
    BY <2>1, <2>2
<1>2. SUBSET R \subseteq G
  <2> HIDE DEF G
  <2> QED
    BY <1>1, FiniteSetInduction
<1> QED
  BY <1>2, R \in SUBSET R

-----------------------------------------------------------------------------
(* What a session stores, and what it has paid.                            *)

(* BytesStored is the sum of the lengths of what finitely many changes     *)
(* store.                                                                  *)
LEMMA BytesAreSums ==
  ASSUME NEW changes \in Changes, IsFiniteSet(DOMAIN changes)
  PROVE  /\ IsFiniteSet(Stored(changes))
         /\ \E f : /\ Additive(f, Stored(changes), Lengths(changes))
                   /\ BytesStored(changes) = f[Stored(changes)]
         /\ BytesStored(changes) \in Nat
<1> DEFINE S == Stored(changes)
<1>1. IsFiniteSet(S)
  BY FS_Subset DEF Stored
<1>2. \A x \in S : Size[changes[x]] \in Nat
  BY ExecuteSessionAssumption DEF Stored, Changes
<1> DEFINE f == CHOOSE h : IsFold(h, S, changes)
<1>3. IsFold(f, S, changes)
  <2>1. \E h : IsFold(h, S, changes)
    BY <1>1, FoldExists
  <2> QED
    BY <2>1
<1>4. BytesStored(changes) = f[S]
  BY BytesStoredFolds
<1> HIDE DEF f
<1>5. Additive(f, S, Lengths(changes))
  BY <1>1, <1>2, <1>3, FoldIsAdditive DEF Lengths
<1>6. f[S] \in Nat
  BY <1>5 DEF Additive
<1> QED
  BY <1>1, <1>4, <1>5, <1>6

(* Putting one slot, or none, adds at most the length of what is put,      *)
(* whatever the slot held before.                                          *)
LEMMA PutBytes ==
  ASSUME NEW old \in Changes, IsFiniteSet(DOMAIN old),
         NEW new \in Changes, IsFiniteSet(DOMAIN new),
         NEW s \in Slot, Stored(new) \subseteq Stored(old) \cup {s},
         Stored(old) \ {s} \subseteq Stored(new),
         \A x \in Stored(new) \ {s} : new[x] = old[x]
  PROVE  /\ BytesStored(new) \in Nat /\ BytesStored(old) \in Nat
         /\ s \notin Stored(new) => BytesStored(new) <= BytesStored(old)
         /\ s \in Stored(new) =>
              Size[new[s]] \in Nat /\ BytesStored(new) <= BytesStored(old) + Size[new[s]]
<1> DEFINE R == Stored(old) \ {s}
<1>1. PICK f : Additive(f, Stored(old), Lengths(old)) /\ BytesStored(old) = f[Stored(old)]
  BY BytesAreSums
<1>2. PICK g : Additive(g, Stored(new), Lengths(new)) /\ BytesStored(new) = g[Stored(new)]
  BY BytesAreSums
<1>3. /\ BytesStored(old) \in Nat /\ BytesStored(new) \in Nat
      /\ IsFiniteSet(Stored(old)) /\ IsFiniteSet(R)
  BY BytesAreSums, FS_Subset
<1>4. f[R] = g[R] /\ f[R] \in Nat
  <2>1. R \subseteq Stored(old) /\ R \subseteq Stored(new)
    OBVIOUS
  <2>2. \A x \in R : Lengths(old)[x] = Lengths(new)[x]
    BY <2>1 DEF Lengths
  <2>3. f[R] \in Nat
    BY <1>1, <2>1 DEF Additive
  <2> HIDE DEF R
  <2> QED
    BY <1>1, <1>2, <1>3, <2>1, <2>2, <2>3, SameSums
<1>5. f[R] <= f[Stored(old)]
  <2>1. CASE s \in Stored(old)
    <3>1. f[Stored(old)] = Lengths(old)[s] + f[R]
      BY <1>1, <2>1 DEF Additive
    <3>2. Lengths(old)[s] \in Nat
      BY <2>1, ExecuteSessionAssumption DEF Lengths, Stored, Changes
    <3> QED
      BY <1>4, <3>1, <3>2
  <2>2. CASE s \notin Stored(old)
    <3>1. R = Stored(old)
      BY <2>2
    <3> QED
      BY <1>4, <3>1
  <2> QED
    BY <2>1, <2>2
<1>6. CASE s \notin Stored(new)
  <2>1. Stored(new) = R
    BY <1>6
  <2> QED
    BY <1>1, <1>2, <1>3, <1>4, <1>5, <1>6, <2>1
<1>7. CASE s \in Stored(new)
  <2>1. Stored(new) \ {s} = R
    OBVIOUS
  <2>2. g[Stored(new)] = Lengths(new)[s] + g[R]
    BY <1>2, <1>7, <2>1 DEF Additive
  <2>3. Lengths(new)[s] = Size[new[s]] /\ Size[new[s]] \in Nat
    BY <1>7, ExecuteSessionAssumption DEF Lengths, Stored, Changes
  <2>4. BytesStored(new) <= BytesStored(old) + Size[new[s]]
    BY <1>1, <1>2, <1>3, <1>4, <1>5, <2>2, <2>3
  <2> QED
    BY <1>3, <1>7, <2>3, <2>4
<1> QED
  BY <1>6, <1>7

(* What write_resource put of a finite set of changes is one, too.         *)
LEMMA RecordedTyped ==
  ASSUME NEW changes \in Changes, IsFiniteSet(DOMAIN changes)
  PROVE  /\ Recorded(changes) \in Changes
         /\ DOMAIN Recorded(changes) = DOMAIN changes \ direct
         /\ IsFiniteSet(DOMAIN Recorded(changes))
         /\ \A x \in DOMAIN changes \ direct : Recorded(changes)[x] = changes[x]
<1>1. PICK S \in SUBSET Slot : changes \in [S -> {None} \cup Value]
  BY DEF Changes
<1>2. Recorded(changes) \in [S \ direct -> {None} \cup Value] /\ S \ direct \in SUBSET Slot
  BY <1>1 DEF Recorded
<1>3. IsFiniteSet(DOMAIN changes \ direct)
  BY FS_Subset
<1> QED
  BY <1>1, <1>2, <1>3 DEF Recorded, Changes

(* What a put adds to the resources that write_resource put: at most the   *)
(* length of a resource it put, nothing for one set directly or removed.   *)
LEMMA RecordedBytes ==
  ASSUME TypeOK, IsFiniteSet(DOMAIN overlay), NEW s \in Slot, NEW v \in {None} \cup Value,
         overlay' = Put(s, v), direct' \in {direct \cup {s}, direct \ {s}}
  PROVE  /\ IsFiniteSet(DOMAIN overlay')
         /\ BytesStored(Recorded(overlay)) \in Nat /\ BytesStored(Recorded(overlay))' \in Nat
         /\ s \in direct' \/ v = None =>
              BytesStored(Recorded(overlay))' <= BytesStored(Recorded(overlay))
         /\ v # None =>
              BytesStored(Recorded(overlay))' <= BytesStored(Recorded(overlay)) + Size[v]
<1> DEFINE old == Recorded(overlay)
           new == [x \in DOMAIN overlay' \ direct' |-> overlay'[x]]
<1>1. /\ overlay \in Changes /\ overlay' \in Changes /\ DOMAIN overlay' = DOMAIN overlay \cup {s}
      /\ \A x \in DOMAIN overlay' : overlay'[x] = IF x = s THEN v ELSE overlay[x]
  <2>1. /\ Put(s, v) \in Changes /\ DOMAIN Put(s, v) = DOMAIN overlay \cup {s}
        /\ \A x \in DOMAIN Put(s, v) : Put(s, v)[x] = IF x = s THEN v ELSE overlay[x]
    BY PutTyped
  <2>2. overlay \in Changes
    BY DEF TypeOK
  <2> QED
    BY <2>1, <2>2
<1>2. IsFiniteSet(DOMAIN overlay')
  BY <1>1, FS_AddElement
<1>3. /\ old \in Changes /\ IsFiniteSet(DOMAIN old) /\ DOMAIN old = DOMAIN overlay \ direct
      /\ \A x \in DOMAIN overlay \ direct : old[x] = overlay[x]
  BY <1>1, RecordedTyped
<1>4. /\ new \in Changes /\ IsFiniteSet(DOMAIN new) /\ DOMAIN new = DOMAIN overlay' \ direct'
      /\ \A x \in DOMAIN overlay' \ direct' : new[x] = overlay'[x]
  <2>1. PICK S \in SUBSET Slot : overlay' \in [S -> {None} \cup Value]
    BY <1>1 DEF Changes
  <2>2. new \in [S \ direct' -> {None} \cup Value] /\ S \ direct' \in SUBSET Slot
    BY <2>1
  <2>3. IsFiniteSet(DOMAIN overlay' \ direct')
    BY <1>2, FS_Subset
  <2> QED
    BY <2>1, <2>2, <2>3 DEF Changes
<1>5. BytesStored(Recorded(overlay))' = BytesStored(new)
  <2>1. Recorded(overlay)' = new
    BY DEF Recorded
  <2> HIDE DEF new
  <2> QED
    BY <2>1
<1> HIDE DEF old, new
<1>6. /\ Stored(new) \subseteq Stored(old) \cup {s} /\ Stored(old) \ {s} \subseteq Stored(new)
      /\ \A x \in Stored(new) \ {s} : new[x] = old[x]
      /\ s \in Stored(new) => s \notin direct' /\ v # None /\ new[s] = v
  BY <1>1, <1>3, <1>4 DEF Stored
<1>7. v # None => Size[v] \in Nat
  BY ExecuteSessionAssumption
<1>8. /\ BytesStored(new) \in Nat /\ BytesStored(old) \in Nat
      /\ s \notin Stored(new) => BytesStored(new) <= BytesStored(old)
      /\ s \in Stored(new) => BytesStored(new) <= BytesStored(old) + Size[v]
  BY <1>3, <1>4, <1>6, PutBytes
<1>9. /\ s \in direct' \/ v = None => BytesStored(new) <= BytesStored(old)
      /\ v # None => BytesStored(new) <= BytesStored(old) + Size[v]
  BY <1>6, <1>7, <1>8
<1> QED
  BY <1>2, <1>5, <1>8, <1>9 DEF old

(* Saturating amounts add up.                                              *)
LEMMA PaidSum ==
  ASSUME NEW x \in Nat, NEW y \in Nat, NEW z \in Nat, NEW paid \in 0..MaxU64,
         z <= x + y, Sat(x * WritePerByte) <= paid
  PROVE  Sat(z * WritePerByte) <= Sat(paid + Sat(y * WritePerByte))
<1> DEFINE p == WritePerByte
           a == x * p
           b == y * p
           c == z * p
<1>1. p \in Nat /\ MaxU64 \in Nat
  BY ExecuteSessionAssumption
<1>2. a \in Nat /\ b \in Nat /\ c \in Nat
  BY <1>1
<1>3. c <= a + b
  <2>1. (x + y) * p = a + b
    BY <1>1
  <2>2. PICK d \in Nat : x + y = z + d
    BY (x + y) - z \in Nat, x + y = z + ((x + y) - z)
  <2>3. (z + d) * p = c + d * p /\ d * p \in Nat
    BY <1>1
  <2> HIDE DEF a, b, c, p
  <2> QED
    BY <1>2, <2>1, <2>2, <2>3
<1> HIDE DEF a, b, c
<1>4. Sat(a) <= paid
  BY DEF a
<1>5. Sat(c) <= Sat(paid + Sat(b))
  BY <1>1, <1>2, <1>3, <1>4 DEF Sat
<1> QED
  BY <1>5 DEF b, c

(* A session has changed finitely many slots, and paid for what they store.*)
PaidInv ==
    /\ IsFiniteSet(DOMAIN overlay)
    /\ WritesArePaid

(* Nothing stored costs nothing.                                           *)
LEMMA NothingToPay ==
    /\ IsFiniteSet(DOMAIN NoChanges)
    /\ Sat(BytesStored(NoChanges) * WritePerByte) = 0
    /\ Recorded(NoChanges) = NoChanges /\ Recorded(NoChanges)' = NoChanges
<1>1. DOMAIN NoChanges = {} /\ NoChanges \in Changes /\ IsFiniteSet(DOMAIN NoChanges)
  BY NoChangesFacts, FS_EmptySet
<1>2. PICK f : /\ Additive(f, Stored(NoChanges), Lengths(NoChanges))
               /\ BytesStored(NoChanges) = f[Stored(NoChanges)]
  BY <1>1, BytesAreSums
<1>3. Stored(NoChanges) = {}
  BY <1>1 DEF Stored
<1>4. BytesStored(NoChanges) = 0
  BY <1>2, <1>3 DEF Additive
<1>5. WritePerByte \in Nat /\ MaxU64 \in Nat
  BY ExecuteSessionAssumption
<1>6. BytesStored(NoChanges) * WritePerByte = 0
  BY <1>4, <1>5
<1>7. Recorded(NoChanges) = NoChanges /\ Recorded(NoChanges)' = NoChanges
  BY DEF Recorded, NoChanges
<1> QED
  BY <1>1, <1>5, <1>6, <1>7 DEF Sat

(* A charge never lowers what the meter has taken.                         *)
LEMMA MeterGrows ==
    ASSUME TypeOK, NEW amount \in 0..MaxU64
    PROVE  consumed <= MeterAfter(amount)
  BY ExecuteSessionAssumption DEF TypeOK, MeterAfter, Sat

(* Every step keeps paid what the overlay and the output store: a write is *)
(* charged before it is stored, and nothing else adds bytes to what        *)
(* write_resource put.                                                     *)
LEMMA PaidKept ==
    ASSUME IInv, PaidInv, [Next]_vars
    PROVE  PaidInv'
<1> DEFINE bytes == BytesStored(Recorded(overlay))
<1>0. /\ TypeOK /\ Quiet /\ IsFiniteSet(DOMAIN overlay)
      /\ Sat(bytes * WritePerByte) <= consumed
      /\ Closed => Sat(BytesStored(Recorded(output.write_set)) * WritePerByte) <= output.gas_used
  BY DEF IInv, PaidInv, WritesArePaid
<1>1. /\ consumed \in 0..MaxU64 /\ MaxU64 \in Nat /\ WritePerByte \in Nat
      /\ overlay \in Changes /\ bytes \in Nat
      /\ \A n \in Nat : Sat(n) \in 0..MaxU64
      /\ \A n \in Nat : n * WritePerByte \in Nat
  <2>1. overlay \in Changes
    BY <1>0 DEF TypeOK
  <2>2. bytes \in Nat
    BY <1>0, <2>1, RecordedTyped, BytesAreSums
  <2> HIDE DEF bytes
  <2> QED
    BY <1>0, <2>1, <2>2, ExecuteSessionAssumption DEF TypeOK, Sat
<1>2. ASSUME NEW k \in SessionKind, NEW l \in GasLimit, New(k, l) PROVE PaidInv'
  <2>1. bytes' = bytes
    BY <1>2 DEF New, Recorded
  <2> QED
    BY <1>0, <1>2, <2>1 DEF New, Closed, PaidInv, WritesArePaid
<1>3. ASSUME Open, NEW amount \in 0..MaxU64, consumed' = MeterAfter(amount),
             overlay' = overlay, direct' = direct
      PROVE  PaidInv'
  <2>1. consumed <= consumed' /\ consumed' \in 0..MaxU64
    BY <1>0, <1>1, <1>3, MeterGrows DEF MeterAfter
  <2>2. Sat(bytes * WritePerByte) \in 0..MaxU64 /\ bytes' = bytes
    BY <1>1, <1>3 DEF Recorded
  <2>3. Sat(bytes * WritePerByte)' <= consumed'
    BY <1>0, <1>1, <2>1, <2>2
  <2> QED
    BY <1>0, <1>3, <2>3 DEF Open, Closed, PaidInv, WritesArePaid
<1>4. ASSUME NEW c \in Category, NEW amount \in Amount, ChargeOnly(c, amount) PROVE PaidInv'
  BY <1>3, <1>4, ExecuteSessionAssumption DEF ChargeOnly, Charge
<1>5. ASSUME NEW amount \in Amount, ChargeMeter(amount) PROVE PaidInv'
  BY <1>3, <1>5, ExecuteSessionAssumption DEF ChargeMeter
<1>6. ASSUME NEW s \in Slot, ReadResource(s) PROVE PaidInv'
  BY <1>0, <1>3, <1>6, CostsTyped DEF ReadResource, Charge
<1>7. ASSUME NEW s \in Slot, NEW v \in Value, WriteResource(s, v) PROVE PaidInv'
  <2>1. Open /\ WriteCost(v) \in 0..MaxU64 /\ consumed' = MeterAfter(WriteCost(v))
    BY <1>0, <1>7, CostsTyped DEF WriteResource, Charge
  <2>2. CASE ~CanCharge(WriteCost(v))
    BY <1>3, <1>7, <2>1, <2>2 DEF WriteResource
  <2>3. CASE CanCharge(WriteCost(v))
    <3>1. /\ overlay' = Put(s, v) /\ direct' = direct \ {s}
          /\ consumed' = Sat(consumed + Sat(Size[v] * WritePerByte))
      BY <1>7, <2>1, <2>3 DEF WriteResource, MeterAfter, WriteCost
    <3>2. /\ IsFiniteSet(DOMAIN overlay') /\ bytes' \in Nat
          /\ bytes' <= bytes + Size[v] /\ Size[v] \in Nat
      BY <1>0, <3>1, RecordedBytes, ExecuteSessionAssumption
    <3> HIDE DEF bytes
    <3>3. Sat(bytes' * WritePerByte) <= consumed'
      BY <1>0, <1>1, <3>1, <3>2, PaidSum
    <3>4. phase' = "open"
      BY <2>1 DEF Open
    <3> QED
      BY <3>2, <3>3, <3>4 DEF bytes, Closed, PaidInv, WritesArePaid
  <2> QED
    BY <2>2, <2>3
<1>8. ASSUME NEW s \in Slot, Remove(s) \/ \E v \in Value : SetDirect(s, v)
      PROVE  PaidInv'
  <2>1. PICK v \in {None} \cup Value :
          /\ overlay' = Put(s, v) /\ direct' \in {direct \cup {s}, direct \ {s}}
          /\ v = None \/ s \in direct'
    BY <1>8 DEF Remove, SetDirect
  <2>2. consumed' = consumed /\ phase' = "open"
    BY <1>8 DEF Remove, SetDirect, Open
  <2>3. IsFiniteSet(DOMAIN overlay') /\ bytes' \in Nat /\ bytes' <= bytes + 0
    BY <1>0, <1>1, <2>1, RecordedBytes
  <2> HIDE DEF bytes
  <2>4. Sat(bytes' * WritePerByte) <= Sat(consumed + Sat(0 * WritePerByte))
    BY <1>0, <1>1, <2>3, PaidSum
  <2>5. 0 * WritePerByte = 0
    BY <1>1
  <2>6. Sat(consumed + Sat(0 * WritePerByte)) = consumed
    BY <1>1, <2>5 DEF Sat
  <2> QED
    BY <2>2, <2>3, <2>4, <2>6 DEF bytes, Closed, PaidInv, WritesArePaid
<1>9. CASE Commit \/ Abort
  <2>1. PICK changes \in {overlay, NoChanges} :
          /\ overlay' = NoChanges /\ consumed' = consumed /\ direct' = direct
          /\ output'.gas_used = consumed /\ output'.write_set = changes
    BY <1>9 DEF Commit, Abort, Close
  <2>2. Sat(BytesStored(Recorded(changes)) * WritePerByte) <= consumed
    BY <1>0, <1>1, <2>1, NothingToPay
  <2>3. Recorded(output.write_set)' = Recorded(changes)
    BY <2>1 DEF Recorded
  <2> QED
    BY <1>1, <2>1, <2>2, <2>3, NothingToPay DEF PaidInv, WritesArePaid
<1>10. CASE Disposed
  <2>1. phase' = "idle" /\ overlay' = NoChanges /\ consumed' = 0
    BY <1>0, <1>10 DEF Disposed, Closed, Quiet
  <2> QED
    BY <2>1, NothingToPay DEF Closed, PaidInv, WritesArePaid
<1>11. CASE UNCHANGED vars
  <2>1. bytes' = bytes /\ BytesStored(Recorded(output.write_set))' = BytesStored(Recorded(output.write_set))
    BY <1>11 DEF vars, Recorded
  <2> QED
    BY <1>0, <1>11, <2>1 DEF vars, Closed, PaidInv, WritesArePaid
<1> QED
  BY <1>2, <1>4, <1>5, <1>6, <1>7, <1>8, <1>9, <1>10, <1>11 DEF Next, Apply, Drop

(* write_resource charges before it stores: what it put of what a session  *)
(* would commit, or has committed, is paid for, whatever was overwritten,  *)
(* refused, removed or set past the session.                               *)
THEOREM SessionsPay == Spec => []WritesArePaid
<1>1. Init => PaidInv
  BY NothingToPay DEF Init, Closed, PaidInv, WritesArePaid
<1>2. PaidInv => WritesArePaid
  BY DEF PaidInv
<1>3. IInv /\ PaidInv /\ [Next]_vars => PaidInv'
  BY PaidKept
<1> QED
  BY <1>1, <1>2, <1>3, Invariance, PTL DEF Spec

-----------------------------------------------------------------------------
(* The copy of the state that an overlay amounts to.                       *)
Copy == [s \in Slot |-> Working(s)]

(* With nothing written, the copy is the state.                            *)
LEMMA QuietCopy ==
    ASSUME IInv, overlay = NoChanges, Closed => output.write_set = NoChanges
    PROVE  Copy = store /\ DOMAIN store = Slot
<1>1. store = [s \in Slot |-> store[s]]
  BY DEF IInv, TypeOK
<1>2. \A s \in Slot : Working(s) = store[s]
  BY NoChangesFacts DEF Working, Get
<1> QED BY <1>1, <1>2 DEF Copy

(* Putting a resource or a removal changes the copy at one slot.           *)
LEMMA PutOneSlot ==
    ASSUME IInv, Open, NEW s \in Slot, NEW v \in {None} \cup Value,
           overlay' \in {overlay, Put(s, v)}
    PROVE  Atomic!Change(s)
<1>1. phase = "open" /\ phase' = "open" /\ store' = store
  BY DEF Open
<1>2. ASSUME NEW x \in Slot \ {s} PROVE Get(x)' = Get(x)
  <2>1. CASE overlay' = Put(s, v)
    <3>1. /\ DOMAIN Put(s, v) = DOMAIN overlay \cup {s}
          /\ \A y \in DOMAIN Put(s, v) : Put(s, v)[y] = IF y = s THEN v ELSE overlay[y]
      BY PutTyped DEF IInv
    <3>2. x \in DOMAIN overlay' <=> x \in DOMAIN overlay
      BY <2>1, <3>1
    <3>3. x \in DOMAIN overlay => overlay'[x] = overlay[x]
      BY <2>1, <3>1
    <3> QED BY <1>1, <3>2, <3>3 DEF Get
  <2> QED BY <1>1, <2>1 DEF Get
<1>3. \A x \in Slot \ {s} : Working(x)' = Working(x)
  BY <1>1, <1>2 DEF Working, Closed
<1> QED BY <1>1, <1>3 DEF Atomic!Change, Stage

(* Committing keeps the copy, aborting discards it.                        *)
LEMMA CloseRefines ==
    /\ IInv /\ Commit => Atomic!Keep
    /\ IInv /\ Abort => Atomic!Discard
<1>1. ASSUME IInv, Commit PROVE Atomic!Keep
  <2>1. /\ phase = "open" /\ phase' = "committed" /\ store' = store
        /\ overlay' = NoChanges /\ output'.write_set = overlay
    BY <1>1 DEF Commit, Close
  <2>2. \A s \in Slot : Working(s)' = Working(s)
    BY <2>1, NoChangesFacts DEF Working, Get, Closed
  <2> QED BY <2>1, <2>2 DEF Atomic!Keep, Stage
<1>2. ASSUME IInv, Abort PROVE Atomic!Discard
  <2>1. /\ phase = "open" /\ phase' = "aborted" /\ store' = store
        /\ overlay' = NoChanges /\ output'.write_set = NoChanges
    BY <1>2 DEF Abort, Close
  <2>2. Copy' = store
    <3>1. store = [s \in Slot |-> store[s]]
      BY <1>2 DEF IInv, TypeOK
    <3>2. \A s \in Slot : Working(s)' = store[s]
      BY <2>1, NoChangesFacts DEF Working, Get
    <3> QED BY <3>1, <3>2 DEF Copy
  <2> QED BY <2>1, <2>2 DEF Atomic!Discard, Copy, Stage
<1> QED BY <1>1, <1>2

(* The node installs what a commit kept as it is, or nothing of it, and    *)
(* nothing of an aborted session.                                          *)
LEMMA DisposeRefines ==
    ASSUME IInv, IInv', Apply \/ Drop
    PROVE  Atomic!Install \/ Atomic!Forget
<1>1. /\ Closed /\ phase' = "idle" /\ ~Closed' /\ overlay = NoChanges /\ overlay' = NoChanges
  BY DEF Apply, Drop, Disposed, Closed, IInv, Quiet
<1>2. Copy' = store'
  <2>1. store' = [s \in Slot |-> store'[s]]
    BY DEF IInv, TypeOK
  <2>2. \A s \in Slot : Working(s)' = store'[s]
    BY <1>1, NoChangesFacts DEF Working, Get
  <2> QED BY <2>1, <2>2 DEF Copy
<1>3. CASE store' = store
  BY <1>1, <1>2, <1>3 DEF Atomic!Forget, Copy, Stage, Closed
<1>4. CASE Drop
  BY <1>3, <1>4 DEF Drop
<1>5. CASE Apply /\ phase = "aborted"
  <2>1. DOMAIN output.write_set = {}
    BY <1>5, NoChangesFacts DEF IInv, Quiet
  <2>2. store' = [s \in Slot |-> store[s]]
    BY <1>5, <2>1 DEF Apply
  <2> QED BY <1>3, <2>2 DEF IInv, TypeOK
<1>6. CASE Apply /\ phase = "committed"
  <2>1. \A s \in Slot : Working(s) = IF s \in DOMAIN output.write_set
                                       THEN output.write_set[s] ELSE store[s]
    BY <1>1, NoChangesFacts DEF Working, Get
  <2>2. store' = Copy
    BY <1>6, <2>1 DEF Apply, Copy
  <2> QED BY <1>1, <1>2, <1>6, <2>2 DEF Atomic!Install, Copy, Stage
<1> QED BY <1>1, <1>4, <1>5, <1>6 DEF Closed

(* A session on an overlay implements a transaction on a private copy of   *)
(* the state.                                                              *)
THEOREM SessionImplementsAtomicEffects == Spec => ImplementsAtomicEffects
<1>1. Init => Atomic!EffectsInit
  <2> SUFFICES ASSUME Init PROVE Atomic!EffectsInit
    OBVIOUS
  <2>1. Copy = store /\ DOMAIN store = Slot
    BY InitIInv, QuietCopy DEF Init, Closed
  <2> QED BY <2>1 DEF Init, Atomic!EffectsInit, Copy, Stage
<1>2. IInv /\ IInv' /\ [Next]_vars => [Atomic!EffectsNext]_(Atomic!effectVars)
  <2> SUFFICES ASSUME IInv, IInv', [Next]_vars
               PROVE  [Atomic!EffectsNext]_(Atomic!effectVars)
    OBVIOUS
  <2>0. ASSUME Open, overlay' = overlay PROVE UNCHANGED Atomic!effectVars
    BY <2>0 DEF Open, Atomic!effectVars, Working, Get, Closed, Stage
  <2>1. CASE UNCHANGED vars
    BY <2>1 DEF vars, Atomic!effectVars, Working, Get, Closed, Stage
  <2>2. ASSUME NEW k \in SessionKind, NEW l \in GasLimit, New(k, l) PROVE Atomic!Start
    BY <2>2 DEF New, Atomic!Start, Working, Get, Closed, Stage
  <2>3. ASSUME NEW c \in Category, NEW amount \in Amount,
               ChargeOnly(c, amount)
        PROVE  UNCHANGED Atomic!effectVars
    BY <2>0, <2>3 DEF ChargeOnly
  <2>4. ASSUME NEW s \in Slot, ReadResource(s) PROVE UNCHANGED Atomic!effectVars
    BY <2>0, <2>4 DEF ReadResource
  <2>5. ASSUME NEW s \in Slot, Remove(s) PROVE Atomic!Change(s)
    BY <2>5, PutOneSlot DEF Remove
  <2>6. ASSUME NEW s \in Slot, NEW v \in Value, WriteResource(s, v) \/ SetDirect(s, v)
        PROVE  Atomic!Change(s)
    BY <2>6, PutOneSlot DEF WriteResource, SetDirect
  <2>7. CASE Commit \/ Abort
    BY <2>7, CloseRefines DEF Atomic!EffectsNext
  <2>8. CASE Apply \/ Drop
    BY <2>8, DisposeRefines DEF Atomic!EffectsNext
  <2>9. ASSUME NEW amount \in Amount, ChargeMeter(amount) PROVE UNCHANGED Atomic!effectVars
    BY <2>0, <2>9 DEF ChargeMeter
  <2> QED
    BY <2>1, <2>2, <2>3, <2>4, <2>5, <2>6, <2>7, <2>8, <2>9 DEF Next, Atomic!EffectsNext
<1> QED
  BY <1>1, <1>2, Invariance, PTL DEF Spec, ImplementsAtomicEffects, Atomic!EffectsSpec
=============================================================================
