--------------------------- MODULE Library_proofs ---------------------------
(***************************************************************************)
(* Theorems about the sequential parts, for every value of their           *)
(* constants.  Each part has an invariant of its own specification, from   *)
(* which its properties follow; the theorems at the end carry them over to *)
(* the parts side by side.                                                 *)
(***************************************************************************)
EXTENDS Library, FiniteSetTheorems, SequenceTheorems, TLAPS

-----------------------------------------------------------------------------
(* Numbers.                                                                *)

(* A nonempty set of natural numbers has a least element.                  *)
LEMMA LeastNatural ==
  ASSUME NEW S, S \subseteq Nat, S # {}
  PROVE  \E x \in S : \A y \in S : x <= y
<1>1. PICK x \in S : \A y \in S : ~(<<y, x>> \in OpToRel(<, Nat))
  BY NatLessThanWellFounded, WFMin
<1>2. \A y \in S : x <= y
  <2> SUFFICES ASSUME NEW y \in S PROVE x <= y
    OBVIOUS
  <2>1. x \in Nat /\ y \in Nat /\ ~(y < x)
    BY <1>1 DEF OpToRel
  <2> QED
    BY <2>1
<1> QED
  BY <1>2

(* A set of frames of the stack is finite, and whether it is empty or has  *)
(* one element can be read off its cardinality.                            *)
LEMMA FrameSets ==
  ASSUME NEW n \in Nat, NEW S, S \subseteq 1..n
  PROVE  /\ IsFiniteSet(S) /\ Cardinality(S) \in Nat
         /\ Cardinality(S) = 0 <=> S = {}
         /\ Cardinality(S) <= 1 <=> \A x, y \in S : x = y
<1>1. IsFiniteSet(1..n)
  BY FS_Interval
<1>2. IsFiniteSet(S) /\ Cardinality(S) \in Nat
  BY <1>1, FS_Subset, FS_CardinalityType
<1>3. Cardinality(S) = 0 <=> S = {}
  BY <1>2, FS_EmptySet
<1>4. ASSUME NEW x \in S
      PROVE  /\ IsFiniteSet(S \ {x})
             /\ Cardinality(S \ {x}) = Cardinality(S) - 1
             /\ Cardinality(S \ {x}) = 0 <=> S \ {x} = {}
  BY <1>2, FS_RemoveElement, FS_EmptySet
<1>5. Cardinality(S) <= 1 <=> \A x, y \in S : x = y
  <2>1. CASE S = {}
    BY <1>3, <2>1
  <2>2. ASSUME NEW x \in S PROVE Cardinality(S) <= 1 <=> \A u, v \in S : u = v
    <3>1. Cardinality(S) # 0
      BY <1>3, <2>2
    <3>2. /\ Cardinality(S \ {x}) = Cardinality(S) - 1
          /\ Cardinality(S \ {x}) = 0 <=> S \ {x} = {}
      BY <1>4, <2>2
    <3>3. Cardinality(S) <= 1 <=> Cardinality(S) - 1 = 0
      BY <1>2, <3>1
    <3>4. S \ {x} = {} <=> \A u, v \in S : u = v
      BY <2>2
    <3> QED
      BY <3>2, <3>3, <3>4
  <2> QED
    BY <2>1, <2>2
<1> QED
  BY <1>2, <1>3, <1>5

-----------------------------------------------------------------------------
(* The reentrancy checker.                                                 *)

CallFrame == [module : Modules, locks : BOOLEAN, call : Calls!CallType]

(* What the frames of a stack s say, as a function of s.                   *)
EntersIn(s, k) == k = 1 \/ Calls!Enters(s[k-1].module, s[k])
EnteredIn(s, m) == {k \in 1..Len(s) : s[k].module = m /\ EntersIn(s, k)}
LockingIn(s) == {k \in 1..Len(s) : Calls!Locking(s[k])}

(* Types of the stack and the counters; before the entry function they are *)
(* empty.                                                                  *)
CallTypes ==
    /\ stack \in Seq(CallFrame)
    /\ active \in [Modules -> Nat]
    /\ lockCount \in Nat
    /\ status = "start" => stack = <<>>
    /\ status = "run" => stack # <<>>

(* The counters are those of the stack as long as code may run.            *)
Counted ==
    status \in {"start", "run"} =>
        /\ \A m \in Modules : active[m] = Cardinality(EnteredIn(stack, m))
        /\ lockCount = Cardinality(LockingIn(stack))

(* Above a locking frame, and at it, the frames of a module that was       *)
(* active before are consecutive.                                          *)
Consecutive(s) ==
    \A l \in LockingIn(s) : \A k \in l..Len(s) : \A j \in 1..(k-1) :
        s[j].module = s[k].module => s[k-1].module = s[k].module \/ k = 1

CallInv ==
    /\ CallTypes
    /\ status \in {"start", "run", "returned", "RUNTIME_DISPATCH_ERROR"}
    /\ Counted
    /\ status \in {"start", "run"} => Consecutive(stack)

(* The sets of the properties are those of the current stack.              *)
LEMMA SetsOfStack ==
  /\ \A m \in Modules : Calls!Entered(m) = EnteredIn(stack, m)
  /\ Calls!LockingFrames = LockingIn(stack)
  BY DEF Calls!Entered, EnteredIn, Calls!LockingFrames, LockingIn, Calls!Depth,
         Calls!EntersAt, EntersIn

(* The instance's Cardinality is the one the library's theorems are about. *)
LEMMA CallCardinality ==
  \A S : Calls!Cardinality(S) = Cardinality(S)
  BY DEF Calls!Cardinality, Cardinality

(* The frames of a stack are frames, and the counted ones are among them.  *)
LEMMA FrameFields ==
  ASSUME NEW s \in Seq(CallFrame)
  PROVE  /\ Len(s) \in Nat
         /\ \A k \in 1..Len(s) : s[k] \in CallFrame /\ s[k].module \in Modules
         /\ \A m \in Modules : EnteredIn(s, m) \subseteq 1..Len(s)
         /\ LockingIn(s) \subseteq 1..Len(s)
<1>1. Len(s) \in Nat /\ \A k \in 1..Len(s) : s[k] \in CallFrame
  OBVIOUS
<1>2. \A f \in CallFrame : f.module \in Modules
  BY DEF CallFrame
<1>3. /\ \A m \in Modules : EnteredIn(s, m) \subseteq 1..Len(s)
      /\ LockingIn(s) \subseteq 1..Len(s)
  BY DEF EnteredIn, LockingIn
<1> QED
  BY <1>1, <1>2, <1>3

(* A module that has a frame has been entered: its lowest frame did it.    *)
LEMMA LowestFrameEnters ==
  ASSUME NEW s \in Seq(CallFrame), NEW j \in 1..Len(s)
  PROVE  \E k \in EnteredIn(s, s[j].module) :
           /\ k <= j
           /\ \A x \in 1..Len(s) : s[x].module = s[j].module => k <= x
<1> DEFINE S == {k \in 1..Len(s) : s[k].module = s[j].module}
<1>1. S \subseteq Nat /\ j \in S
  BY FrameFields
<1>2. PICK k \in S : \A x \in S : k <= x
  BY <1>1, LeastNatural
<1>3. k <= j /\ k \in 1..Len(s)
  BY <1>1, <1>2
<1>4. k = 1 \/ (k - 1 \in 1..Len(s) /\ k - 1 \notin S)
  BY <1>2, <1>3, FrameFields
<1>5. EntersIn(s, k)
  BY <1>2, <1>4, <1>3 DEF EntersIn, Calls!Enters
<1> QED
  BY <1>2, <1>3, <1>5 DEF EnteredIn

(* A stack with one frame more.                                            *)
LEMMA PushedFrames ==
  ASSUME NEW s \in Seq(CallFrame), NEW f \in CallFrame
  PROVE  /\ Append(s, f) \in Seq(CallFrame)
         /\ Len(Append(s, f)) = Len(s) + 1 /\ Append(s, f) # <<>>
         /\ \A k \in 1..Len(s) : Append(s, f)[k] = s[k]
         /\ Append(s, f)[Len(s) + 1] = f
  OBVIOUS

(* The new frame enters its module, or no module's entries change.         *)
LEMMA PushedEntries ==
  ASSUME NEW s \in Seq(CallFrame), NEW f \in CallFrame, NEW m \in Modules
  PROVE  /\ m = f.module /\ EntersIn(Append(s, f), Len(s) + 1) =>
              EnteredIn(Append(s, f), m) = EnteredIn(s, m) \cup {Len(s) + 1}
         /\ ~(m = f.module /\ EntersIn(Append(s, f), Len(s) + 1)) =>
              EnteredIn(Append(s, f), m) = EnteredIn(s, m)
<1> DEFINE n == Len(s)
           t == Append(s, f)
<1>1. /\ t \in Seq(CallFrame) /\ Len(t) = n + 1 /\ n \in Nat
      /\ \A k \in 1..n : t[k] = s[k]
      /\ t[n + 1] = f
  OBVIOUS
<1>2. \A k \in 1..n : EntersIn(t, k) <=> EntersIn(s, k)
  <2> SUFFICES ASSUME NEW k \in 1..n PROVE EntersIn(t, k) <=> EntersIn(s, k)
    OBVIOUS
  <2>1. k = 1 \/ k - 1 \in 1..n
    BY <1>1
  <2> QED
    BY <1>1, <2>1 DEF EntersIn
<1>3. /\ \A k : k \in 1..(n + 1) <=> k \in 1..n \/ k = n + 1
      /\ \A k \in 1..n : k # n + 1
  BY <1>1
<1> HIDE DEF t
<1>4. \A k : k \in EnteredIn(t, m) <=> k \in 1..(n + 1) /\ t[k].module = m /\ EntersIn(t, k)
  BY <1>1 DEF EnteredIn
<1>5. \A k : k \in EnteredIn(s, m) <=> k \in 1..n /\ s[k].module = m /\ EntersIn(s, k)
  BY DEF EnteredIn
<1> HIDE DEF n
<1>6. \A k : k \in EnteredIn(t, m) <=>
               \/ k \in EnteredIn(s, m)
               \/ k = n + 1 /\ m = f.module /\ EntersIn(t, n + 1)
  BY <1>1, <1>2, <1>3, <1>4, <1>5
<1> QED
  BY <1>6 DEF n, t

(* A frame that holds the module lock adds itself to those that do.        *)
LEMMA PushedLocks ==
  ASSUME NEW s \in Seq(CallFrame), NEW f \in CallFrame
  PROVE  /\ Calls!Locking(f) => LockingIn(Append(s, f)) = LockingIn(s) \cup {Len(s) + 1}
         /\ ~Calls!Locking(f) => LockingIn(Append(s, f)) = LockingIn(s)
<1> DEFINE n == Len(s)
           t == Append(s, f)
<1>1. /\ t \in Seq(CallFrame) /\ Len(t) = n + 1 /\ n \in Nat
      /\ \A k \in 1..n : t[k] = s[k]
      /\ t[n + 1] = f
  OBVIOUS
<1>2. /\ \A k : k \in 1..(n + 1) <=> k \in 1..n \/ k = n + 1
      /\ \A k \in 1..n : k # n + 1
  BY <1>1
<1> HIDE DEF t
<1>3. \A k : k \in LockingIn(t) <=> k \in 1..(n + 1) /\ Calls!Locking(t[k])
  BY <1>1 DEF LockingIn
<1>4. \A k : k \in LockingIn(s) <=> k \in 1..n /\ Calls!Locking(s[k])
  BY DEF LockingIn
<1> HIDE DEF n
<1>5. \A k : k \in LockingIn(t) <=> k \in LockingIn(s) \/ (k = n + 1 /\ Calls!Locking(f))
  BY <1>1, <1>2, <1>3, <1>4
<1> QED
  BY <1>5 DEF n, t

(* So each count goes up by one where the frame counts.                    *)
LEMMA PushedCounts ==
  ASSUME NEW s \in Seq(CallFrame), NEW f \in CallFrame
  PROVE  /\ \A m \in Modules :
              /\ Cardinality(EnteredIn(s, m)) \in Nat
              /\ Cardinality(EnteredIn(Append(s, f), m)) =
                   IF m = f.module /\ EntersIn(Append(s, f), Len(s) + 1)
                   THEN Cardinality(EnteredIn(s, m)) + 1 ELSE Cardinality(EnteredIn(s, m))
         /\ Cardinality(LockingIn(s)) \in Nat
         /\ Cardinality(LockingIn(Append(s, f))) =
              IF Calls!Locking(f)
              THEN Cardinality(LockingIn(s)) + 1 ELSE Cardinality(LockingIn(s))
<1>1. ASSUME NEW S, S \subseteq 1..Len(s)
      PROVE  /\ Cardinality(S) \in Nat
             /\ Cardinality(S \cup {Len(s) + 1}) = Cardinality(S) + 1
  <2>1. Len(s) \in Nat /\ Len(s) + 1 \notin S
    BY <1>1
  <2>2. IsFiniteSet(S) /\ Cardinality(S) \in Nat
    BY <1>1, <2>1, FrameSets
  <2> QED
    BY <2>1, <2>2, FS_AddElement
<1>2. /\ \A m \in Modules : EnteredIn(s, m) \subseteq 1..Len(s)
      /\ LockingIn(s) \subseteq 1..Len(s)
  BY FrameFields
<1>3. ASSUME NEW m \in Modules
      PROVE  /\ Cardinality(EnteredIn(s, m)) \in Nat
             /\ Cardinality(EnteredIn(Append(s, f), m)) =
                  IF m = f.module /\ EntersIn(Append(s, f), Len(s) + 1)
                  THEN Cardinality(EnteredIn(s, m)) + 1 ELSE Cardinality(EnteredIn(s, m))
  <2>1. /\ Cardinality(EnteredIn(s, m)) \in Nat
        /\ Cardinality(EnteredIn(s, m) \cup {Len(s) + 1}) = Cardinality(EnteredIn(s, m)) + 1
    BY <1>1, <1>2
  <2>2. CASE m = f.module /\ EntersIn(Append(s, f), Len(s) + 1)
    BY <2>1, <2>2, PushedEntries
  <2>3. CASE ~(m = f.module /\ EntersIn(Append(s, f), Len(s) + 1))
    BY <2>1, <2>3, PushedEntries
  <2> QED
    BY <2>2, <2>3
<1>4. /\ Cardinality(LockingIn(s)) \in Nat
      /\ Cardinality(LockingIn(s) \cup {Len(s) + 1}) = Cardinality(LockingIn(s)) + 1
  BY <1>1, <1>2
<1>5. Cardinality(LockingIn(Append(s, f))) =
        IF Calls!Locking(f) THEN Cardinality(LockingIn(s)) + 1 ELSE Cardinality(LockingIn(s))
  BY <1>4, PushedLocks
<1> QED
  BY <1>3, <1>4, <1>5

(* The frames of a shorter stack are consecutive where those of the longer *)
(* one are.                                                                *)
LEMMA PoppedConsecutive ==
  ASSUME NEW s \in Seq(CallFrame), NEW f \in CallFrame, Consecutive(Append(s, f))
  PROVE  Consecutive(s)
<1> DEFINE t == Append(s, f)
<1>0. t = Append(s, f)
  OBVIOUS
<1> HIDE DEF t
<1>1. /\ Len(s) \in Nat /\ Len(t) = Len(s) + 1
      /\ \A k \in 1..Len(s) : t[k] = s[k]
      /\ LockingIn(s) \subseteq LockingIn(t)
  BY <1>0, PushedFrames, PushedLocks, FrameFields
<1> SUFFICES ASSUME NEW l \in LockingIn(s), NEW k \in l..Len(s), NEW j \in 1..(k-1),
                    s[j].module = s[k].module, k # 1
             PROVE  s[k-1].module = s[k].module
  BY DEF Consecutive
<1>2. l \in 1..Len(s)
  BY FrameFields
<1>3. k \in 1..Len(s) /\ j \in 1..Len(s) /\ k - 1 \in 1..Len(s) /\ k \in l..Len(t)
  BY <1>1, <1>2
<1>4. t[j].module = t[k].module
  BY <1>1, <1>3
<1>5. t[k-1].module = t[k].module
  BY <1>0, <1>1, <1>3, <1>4 DEF Consecutive
<1> QED
  BY <1>1, <1>3, <1>5

(* A frame pushed from its own module, or when no frame locks, or for a    *)
(* module that has no frame keeps them consecutive.                        *)
LEMMA PushedConsecutive ==
  ASSUME NEW s \in Seq(CallFrame), NEW f \in CallFrame, Consecutive(s),
         \/ s # <<>> /\ s[Len(s)].module = f.module
         \/ LockingIn(s) = {} /\ ~Calls!Locking(f)
         \/ \A j \in 1..Len(s) : s[j].module # f.module
  PROVE  Consecutive(Append(s, f))
<1> DEFINE t == Append(s, f)
<1>0. t = Append(s, f)
  OBVIOUS
<1> HIDE DEF t
<1>1. /\ Len(s) \in Nat /\ Len(t) = Len(s) + 1
      /\ \A k \in 1..Len(s) : t[k] = s[k]
      /\ t[Len(s) + 1] = f
      /\ Calls!Locking(f) => LockingIn(t) = LockingIn(s) \cup {Len(s) + 1}
      /\ ~Calls!Locking(f) => LockingIn(t) = LockingIn(s)
  BY <1>0, PushedFrames, PushedLocks, FrameFields
<1> SUFFICES ASSUME NEW l \in LockingIn(t), NEW k \in l..Len(t), NEW j \in 1..(k-1),
                    t[j].module = t[k].module, k # 1
             PROVE  t[k-1].module = t[k].module
  BY <1>0 DEF Consecutive
<1>2. l \in 1..(Len(s) + 1) /\ (l \in LockingIn(s) \/ l = Len(s) + 1)
  BY <1>1, FrameFields
<1>3. k \in 1..(Len(s) + 1) /\ j \in 1..Len(s) /\ k - 1 \in 1..Len(s)
  BY <1>1, <1>2
<1>4. CASE k = Len(s) + 1
  <2>1. s[j].module = f.module
    BY <1>1, <1>3, <1>4
  <2>2. LockingIn(s) # {} \/ Calls!Locking(f)
    BY <1>1
  <2>3. s[Len(s)].module = f.module
    BY <2>1, <2>2, <1>3
  <2> QED
    BY <2>3, <1>1, <1>3, <1>4
<1>5. CASE k # Len(s) + 1
  <2>1. k \in 1..Len(s) /\ l \in LockingIn(s) /\ k \in l..Len(s)
    BY <1>1, <1>2, <1>3, <1>5
  <2>2. s[j].module = s[k].module
    BY <1>1, <1>3, <2>1
  <2>3. s[k-1].module = s[k].module
    BY <2>1, <2>2 DEF Consecutive
  <2> QED
    BY <1>1, <1>3, <2>1, <2>3
<1> QED
  BY <1>4, <1>5

(* Whether the last frame entered is what enter_function and exit_function *)
(* compute from its caller.                                                *)
LEMMA PushedEnters ==
  ASSUME NEW s \in Seq(CallFrame), NEW f \in CallFrame
  PROVE  EntersIn(Append(s, f), Len(s) + 1) <=>
           s = <<>> \/ Calls!Enters(s[Len(s)].module, f)
<1>1. CASE s = <<>>
  BY <1>1 DEF EntersIn
<1>2. CASE s # <<>>
  <2>1. /\ Len(s) \in Nat /\ Len(s) \in 1..Len(s)
        /\ Len(s) + 1 # 1 /\ (Len(s) + 1) - 1 = Len(s)
    BY <1>2
  <2>2. Append(s, f)[Len(s)] = s[Len(s)] /\ Append(s, f)[Len(s) + 1] = f
    BY <2>1, PushedFrames
  <2> QED
    BY <1>2, <2>1, <2>2 DEF EntersIn
<1> QED
  BY <1>1, <1>2

(* enter_function keeps the invariant, from the entry and from any call.   *)
LEMMA EnterKeeps ==
  ASSUME CallInv, "none" \notin Modules, NEW caller, NEW f \in CallFrame,
         \/ status = "start" /\ caller = "none"
         \/ status = "run" /\ caller = stack[Len(stack)].module,
         Calls!EnterFunction(caller, f)
  PROVE  CallInv'
<1>1. /\ stack \in Seq(CallFrame) /\ active \in [Modules -> Nat] /\ lockCount \in Nat
      /\ \A m \in Modules : active[m] = Cardinality(EnteredIn(stack, m))
      /\ lockCount = Cardinality(LockingIn(stack))
      /\ Consecutive(stack)
      /\ stack = <<>> <=> status = "start"
      /\ f.module \in Modules
  BY DEF CallInv, CallTypes, Counted, CallFrame
<1>2. CASE caller # f.module /\ active[f.module] > 0 /\ Calls!LockedOnEntry(f)
  <2>1. /\ UNCHANGED <<stack, active>> /\ status' = "RUNTIME_DISPATCH_ERROR"
        /\ lockCount' \in Nat
    BY <1>1, <1>2 DEF Calls!EnterFunction
  <2> QED
    BY <1>1, <2>1 DEF CallInv, CallTypes, Counted
<1>3. CASE ~(caller # f.module /\ active[f.module] > 0 /\ Calls!LockedOnEntry(f))
  <2>1. /\ stack' = Append(stack, f) /\ status' = "run"
        /\ active' = IF Calls!Enters(caller, f)
                     THEN [active EXCEPT ![f.module] = @ + 1] ELSE active
        /\ lockCount' = IF Calls!Locking(f) THEN lockCount + 1 ELSE lockCount
    BY <1>3 DEF Calls!EnterFunction
  <2>2. EntersIn(stack', Len(stack) + 1) <=> Calls!Enters(caller, f)
    <3>1. stack = <<>> => Calls!Enters(caller, f)
      BY <1>1 DEF Calls!Enters
    <3>2. stack # <<>> => caller = stack[Len(stack)].module
      BY <1>1
    <3> QED
      BY <1>1, <2>1, <3>1, <3>2, PushedEnters
  <2>3. CallTypes'
    <3>1. stack' \in Seq(CallFrame) /\ stack' # <<>>
      BY <1>1, <2>1, PushedFrames
    <3>2. active' \in [Modules -> Nat] /\ lockCount' \in Nat
      BY <1>1, <2>1
    <3> QED
      BY <2>1, <3>1, <3>2 DEF CallTypes
  <2>4. Counted'
    <3>1. ASSUME NEW m \in Modules
          PROVE  active'[m] = Cardinality(EnteredIn(stack', m))
      <4>1. /\ Cardinality(EnteredIn(stack, m)) \in Nat
            /\ Cardinality(EnteredIn(stack', m)) =
                 IF m = f.module /\ Calls!Enters(caller, f)
                 THEN Cardinality(EnteredIn(stack, m)) + 1 ELSE Cardinality(EnteredIn(stack, m))
        BY <1>1, <2>1, <2>2, PushedCounts
      <4>2. active'[m] = IF m = f.module /\ Calls!Enters(caller, f)
                         THEN active[m] + 1 ELSE active[m]
        BY <1>1, <2>1
      <4> QED
        BY <1>1, <4>1, <4>2
    <3>2. lockCount' = Cardinality(LockingIn(stack'))
      BY <1>1, <2>1, PushedCounts
    <3> QED
      BY <3>1, <3>2 DEF Counted
  <2>5. Consecutive(stack')
    <3>1. CASE active[f.module] = 0
      <4>1. EnteredIn(stack, f.module) \subseteq 1..Len(stack) /\ Len(stack) \in Nat
        BY <1>1, FrameFields
      <4>2. EnteredIn(stack, f.module) = {}
        BY <1>1, <3>1, <4>1, FrameSets
      <4>3. \A j \in 1..Len(stack) : stack[j].module # f.module
        BY <1>1, <4>2, LowestFrameEnters
      <4> QED
        BY <1>1, <2>1, <4>3, PushedConsecutive
    <3>2. CASE caller = f.module
      <4>1. stack # <<>> /\ stack[Len(stack)].module = f.module
        BY <1>1, <3>2
      <4> QED
        BY <1>1, <2>1, <4>1, PushedConsecutive
    <3>3. CASE ~Calls!LockedOnEntry(f)
      <4>1. lockCount = 0 /\ ~Calls!Locking(f)
        BY <1>1, <3>3 DEF Calls!LockedOnEntry
      <4>2. LockingIn(stack) \subseteq 1..Len(stack) /\ Len(stack) \in Nat
        BY <1>1, FrameFields
      <4>3. LockingIn(stack) = {}
        BY <1>1, <4>1, <4>2, FrameSets
      <4> QED
        BY <1>1, <2>1, <4>1, <4>3, PushedConsecutive
    <3> QED
      BY <1>1, <1>3, <3>1, <3>2, <3>3
  <2> QED
    BY <2>1, <2>3, <2>4, <2>5 DEF CallInv
<1> QED
  BY <1>2, <1>3

(* A stack is its last frame on the rest.                                  *)
LEMMA PoppedStack ==
  ASSUME NEW t \in Seq(CallFrame), Len(t) > 1
  PROVE  /\ SubSeq(t, 1, Len(t) - 1) \in Seq(CallFrame)
         /\ Len(SubSeq(t, 1, Len(t) - 1)) = Len(t) - 1
         /\ SubSeq(t, 1, Len(t) - 1) # <<>>
         /\ SubSeq(t, 1, Len(t) - 1)[Len(t) - 1] = t[Len(t) - 1]
         /\ t[Len(t)] \in CallFrame
         /\ t = Append(SubSeq(t, 1, Len(t) - 1), t[Len(t)])
<1> DEFINE s == SubSeq(t, 1, Len(t) - 1)
<1>1. /\ s \in Seq(CallFrame) /\ Len(s) = Len(t) - 1 /\ Len(t) \in Nat
      /\ \A k \in 1..(Len(t) - 1) : s[k] = t[k]
      /\ t[Len(t)] \in CallFrame
  OBVIOUS
<1> HIDE DEF s
<1>2. s # <<>> /\ s[Len(t) - 1] = t[Len(t) - 1]
  BY <1>1
<1>3. t = Append(s, t[Len(t)])
  <2>1. /\ Append(s, t[Len(t)]) \in Seq(CallFrame)
        /\ Len(Append(s, t[Len(t)])) = Len(t)
        /\ \A k \in 1..Len(s) : Append(s, t[Len(t)])[k] = s[k]
        /\ Append(s, t[Len(t)])[Len(s) + 1] = t[Len(t)]
    BY <1>1, PushedFrames
  <2>2. \A k \in 1..Len(t) : Append(s, t[Len(t)])[k] = t[k]
    BY <1>1, <2>1
  <2> QED
    BY <2>1, <2>2, SeqEqual
<1> QED
  BY <1>1, <1>2, <1>3 DEF s

(* exit_function undoes what enter_function did, and raises neither of its *)
(* internal errors.                                                        *)
LEMMA ReturnKeeps ==
  ASSUME CallInv, Calls!Return
  PROVE  CallInv'
<1> DEFINE s == SubSeq(stack, 1, Len(stack) - 1)
           f == stack[Len(stack)]
           caller == stack[Len(stack) - 1].module
<1>1. /\ stack \in Seq(CallFrame) /\ active \in [Modules -> Nat] /\ lockCount \in Nat
      /\ \A m \in Modules : active[m] = Cardinality(EnteredIn(stack, m))
      /\ lockCount = Cardinality(LockingIn(stack))
      /\ Consecutive(stack)
      /\ status = "run" /\ Len(stack) > 1
      /\ Calls!ExitFunction(caller, f) /\ stack' = s
  BY DEF CallInv, CallTypes, Counted, Calls!Return, Calls!Depth, Calls!Top
<1>2. /\ s \in Seq(CallFrame) /\ Len(s) = Len(stack) - 1 /\ s # <<>>
      /\ s[Len(s)].module = caller
      /\ f \in CallFrame /\ stack = Append(s, f)
  BY <1>1, PoppedStack
<1> HIDE DEF s, f, caller
<1>3. f.module \in Modules
  BY <1>2 DEF CallFrame
<1>4. EntersIn(Append(s, f), Len(s) + 1) <=> Calls!Leaves(caller, f)
  BY <1>2, PushedEnters DEF Calls!Enters, Calls!Leaves
<1>5. \A m \in Modules :
        /\ Cardinality(EnteredIn(s, m)) \in Nat
        /\ active[m] = IF m = f.module /\ Calls!Leaves(caller, f)
                       THEN Cardinality(EnteredIn(s, m)) + 1 ELSE Cardinality(EnteredIn(s, m))
  BY <1>1, <1>2, <1>4, PushedCounts
<1>6. /\ Cardinality(LockingIn(s)) \in Nat
      /\ lockCount = IF Calls!Locking(f)
                     THEN Cardinality(LockingIn(s)) + 1 ELSE Cardinality(LockingIn(s))
  BY <1>1, <1>2, PushedCounts
<1>7. ~(Calls!Leaves(caller, f) /\ active[f.module] = 0)
  BY <1>3, <1>5
<1>8. ~(Calls!Releases(f) /\ lockCount = 0)
  BY <1>6 DEF Calls!Releases
<1>9. /\ active' = IF Calls!Leaves(caller, f)
                   THEN [active EXCEPT ![f.module] = @ - 1] ELSE active
      /\ lockCount' = IF Calls!Locking(f) THEN lockCount - 1 ELSE lockCount
      /\ status' = status
  BY <1>1, <1>7, <1>8 DEF Calls!ExitFunction, Calls!Releases
<1>10. \A m \in Modules : active'[m] = Cardinality(EnteredIn(s, m))
  BY <1>1, <1>3, <1>5, <1>9
<1>11. lockCount' = Cardinality(LockingIn(s))
  BY <1>6, <1>9
<1>12. active' \in [Modules -> Nat] /\ lockCount' \in Nat
  <2>1. \A m \in Modules : active'[m] \in Nat
    BY <1>5, <1>10
  <2>2. active' = [m \in Modules |-> active'[m]]
    BY <1>1, <1>9
  <2> QED
    BY <1>6, <1>11, <2>1, <2>2
<1>13. Consecutive(s)
  BY <1>1, <1>2, PoppedConsecutive
<1>14. CallTypes' /\ Counted'
  BY <1>1, <1>2, <1>9, <1>10, <1>11, <1>12 DEF CallTypes, Counted
<1> QED
  BY <1>1, <1>9, <1>13, <1>14 DEF CallInv

(* Every step of the interpreter keeps the invariant.                      *)
LEMMA CallNext ==
  ASSUME CallInv, [Calls!Next]_Calls!vars, "none" \notin Modules
  PROVE  CallInv'
<1>1. \A f \in Calls!Function, c \in Calls!CallType : Calls!FrameOf(f, c) \in CallFrame
  BY DEF Calls!Function, Calls!FrameOf, CallFrame
<1>2. ASSUME NEW f \in Calls!Function, Calls!ExecuteMain(f) PROVE CallInv'
  <2>1. Calls!FrameOf(f, "Regular") \in CallFrame
    BY <1>1 DEF Calls!CallType
  <2> QED
    BY <1>2, <2>1, EnterKeeps DEF Calls!ExecuteMain
<1>3. ASSUME NEW f \in Calls!Function, NEW c \in Calls!CallType, Calls!Call(f, c)
      PROVE  CallInv'
  <2>1. Calls!FrameOf(f, c) \in CallFrame
    BY <1>1
  <2>2. /\ status = "run"
        /\ Calls!EnterFunction(stack[Len(stack)].module, Calls!FrameOf(f, c))
    BY <1>3 DEF Calls!Call, Calls!Top, Calls!Depth
  <2> QED
    BY <2>1, <2>2, EnterKeeps
<1>4. ASSUME Calls!ReturnFromMain \/ Calls!AccessRefused PROVE CallInv'
  <2>1. /\ UNCHANGED <<stack, active, lockCount>>
        /\ status = "run" /\ status' \in {"returned", "RUNTIME_DISPATCH_ERROR"}
    BY <1>4 DEF Calls!ReturnFromMain, Calls!AccessRefused
  <2> QED
    BY <2>1 DEF CallInv, CallTypes, Counted
<1>5. CASE UNCHANGED Calls!vars
  <2>1. UNCHANGED <<stack, active, lockCount, status>>
    BY <1>5 DEF Calls!vars
  <2> QED
    BY <2>1 DEF CallInv, CallTypes, Counted
<1> QED
  BY <1>2, <1>3, <1>4, <1>5, ReturnKeeps DEF Calls!Next

(* Nothing is called yet.                                                  *)
LEMMA CallInit ==
  ASSUME Calls!Init
  PROVE  CallInv
<1>1. /\ stack = <<>> /\ active = [m \in Modules |-> 0] /\ lockCount = 0
      /\ status = "start"
  BY DEF Calls!Init
<1>2. (\A m \in Modules : EnteredIn(stack, m) = {}) /\ LockingIn(stack) = {}
  BY <1>1 DEF EnteredIn, LockingIn
<1>3. Cardinality({}) = 0
  BY FS_EmptySet
<1>4. CallTypes
  BY <1>1 DEF CallTypes
<1>5. Counted
  BY <1>1, <1>2, <1>3 DEF Counted
<1>6. Consecutive(stack)
  BY <1>2 DEF Consecutive
<1> QED
  BY <1>1, <1>4, <1>5, <1>6 DEF CallInv

(* The counters follow the stack in every reachable state.                 *)
LEMMA CallInvariance ==
  ASSUME "none" \notin Modules
  PROVE  Calls!Spec => []CallInv
<1>1. CallInv /\ [Calls!Next]_Calls!vars => CallInv'
  BY CallNext
<1> QED
  BY <1>1, CallInit, PTL DEF Calls!Spec

(* While code runs the checker's counters are what the interpreter's stack *)
(* says, so exit_function never raises an "Unbalanced ..." error.          *)
LEMMA CallCounters ==
  ASSUME "none" \notin Modules
  PROVE  Calls!Spec => []Calls!CountersMatchStack
<1>1. ASSUME CallInv PROVE Calls!CountersMatchStack
  <2>1. (\A m \in Modules : Calls!Entered(m) = EnteredIn(stack, m))
        /\ Calls!LockingFrames = LockingIn(stack)
    BY SetsOfStack
  <2>2. ASSUME status = "run", NEW m \in Modules
        PROVE  active[m] = Cardinality(Calls!Entered(m))
    BY <1>1, <2>1, <2>2 DEF CallInv, Counted
  <2>3. status = "run" => lockCount = Cardinality(Calls!LockingFrames)
    BY <1>1, <2>1 DEF CallInv, Counted
  <2> QED
    BY <1>1, <2>2, <2>3, CallCardinality DEF CallInv, Calls!CountersMatchStack
<1> QED
  BY <1>1, CallInvariance, PTL

(* Under a module lock a module is called again from its own frames only.  *)
LEMMA CallLocks ==
  ASSUME "none" \notin Modules
  PROVE  Calls!Spec => []Calls!ReenteredOnlyFromItself
<1>1. ASSUME CallInv, status = "run", NEW l \in LockingIn(stack), NEW k \in l..Len(stack),
             NEW j \in 1..(k-1), stack[j].module = stack[k].module,
             NEW i \in l..k, j < i, stack[i-1].module # stack[k].module
      PROVE  FALSE
  <2> DEFINE S == {x \in i..k : stack[x].module = stack[k].module}
  <2>1. l \in 1..Len(stack) /\ Len(stack) \in Nat
    BY <1>1 DEF LockingIn, CallInv, CallTypes
  <2>2. S \subseteq Nat /\ k \in S
    BY <1>1, <2>1
  <2>3. PICK x \in S : \A y \in S : x <= y
    BY <2>2, LeastNatural
  <2>4. x \in l..Len(stack) /\ j \in 1..(x-1) /\ x # 1 /\ (x = i \/ x - 1 \in i..k)
    BY <1>1, <2>1, <2>3
  <2>5. stack[x-1].module # stack[k].module /\ stack[x].module = stack[k].module
    BY <1>1, <2>1, <2>3, <2>4
  <2> QED
    BY <1>1, <2>4, <2>5 DEF CallInv, Consecutive
<1>2. CallInv => Calls!ReenteredOnlyFromItself
  BY <1>1, SetsOfStack DEF Calls!ReenteredOnlyFromItself, Calls!Depth
<1> QED
  BY <1>2, CallInvariance, PTL

(* A module was entered at most once exactly when its frames, from the     *)
(* lowest one up, are all the frames there are and none but the first is a *)
(* closure's.                                                              *)
LEMMA EnteredOnce ==
  ASSUME NEW s \in Seq(CallFrame), NEW m, Len(s) > 0, m = s[Len(s)].module
  PROVE  (\A x, y \in EnteredIn(s, m) : x = y) <=>
           \A j \in 1..Len(s) : s[j].module = m =>
             \A k \in (j+1)..Len(s) :
               s[k].module = m /\ s[k].call # "ClosureDynamicDispatch"
<1> DEFINE E == EnteredIn(s, m)
           n == Len(s)
<1>1. n \in Nat /\ n \in 1..n
  OBVIOUS
<1>2. \A k : k \in E <=>
        /\ k \in 1..n /\ s[k].module = m
        /\ k = 1 \/ s[k-1].module # m \/ s[k].call = "ClosureDynamicDispatch"
  BY DEF EnteredIn, EntersIn, Calls!Enters
<1> HIDE DEF E, n
<1>3. ASSUME \A x, y \in E : x = y,
             NEW j \in 1..n, s[j].module = m, NEW k \in (j+1)..n
      PROVE  s[k].module = m /\ s[k].call # "ClosureDynamicDispatch"
  <2>1. PICK e \in E : e <= j /\ e \in 1..n
    <3>1. \E e \in EnteredIn(s, s[j].module) : e <= j
      BY LowestFrameEnters DEF n
    <3> QED
      BY <1>2, <1>3, <3>1 DEF E
  <2>2. k \in 1..n /\ j < k /\ e < k
    BY <1>1, <2>1
  <2>3. s[k].module = m
    <3> SUFFICES ASSUME s[k].module # m PROVE FALSE
      OBVIOUS
    <3> DEFINE S == {x \in k..n : s[x].module = m}
    <3>1. S \subseteq Nat /\ n \in S
      BY <1>1, <2>2 DEF n
    <3>2. PICK x \in S : \A y \in S : x <= y
      BY <3>1, LeastNatural
    <3>3. x \in 1..n /\ x # k /\ k <= x /\ x - 1 \in k..n /\ x - 1 \notin S
      BY <1>1, <2>2, <3>2
    <3>4. s[x-1].module # m /\ s[x].module = m
      BY <3>2, <3>3
    <3>5. x \in E
      BY <1>2, <3>3, <3>4
    <3>6. x # e
      BY <2>1, <2>2, <3>3
    <3> QED
      BY <1>3, <2>1, <3>5, <3>6
  <2>4. s[k].call # "ClosureDynamicDispatch"
    <3> SUFFICES ASSUME s[k].call = "ClosureDynamicDispatch" PROVE FALSE
      OBVIOUS
    <3>1. k \in E
      BY <1>2, <2>2, <2>3
    <3> QED
      BY <1>3, <2>1, <2>2, <3>1
  <2> QED
    BY <2>3, <2>4
<1>4. ASSUME \A j \in 1..n : s[j].module = m =>
               \A k \in (j+1)..n :
                 s[k].module = m /\ s[k].call # "ClosureDynamicDispatch",
             NEW x \in E, NEW y \in E, x < y
      PROVE  FALSE
  <2>1. /\ x \in 1..n /\ y \in 1..n /\ s[x].module = m
        /\ y = 1 \/ s[y-1].module # m \/ s[y].call = "ClosureDynamicDispatch"
    BY <1>2
  <2>2. y \in (x+1)..n /\ y # 1 /\ (y - 1 = x \/ y - 1 \in (x+1)..n)
    BY <1>1, <1>4, <2>1
  <2>3. s[y].call # "ClosureDynamicDispatch" /\ s[y-1].module = m
    BY <1>4, <2>1, <2>2
  <2> QED
    BY <2>1, <2>2, <2>3
<1>5. ASSUME \A j \in 1..n : s[j].module = m =>
               \A k \in (j+1)..n :
                 s[k].module = m /\ s[k].call # "ClosureDynamicDispatch",
             NEW x \in E, NEW y \in E
      PROVE  x = y
  <2>1. x \in Nat /\ y \in Nat
    BY <1>1, <1>2
  <2>2. ~(x < y) /\ ~(y < x)
    BY <1>4, <1>5
  <2> QED
    BY <2>1, <2>2
<1> QED
  BY <1>3, <1>5 DEF E, n

(* check_resource_access lets the current function at its module's         *)
(* resources exactly when every call from the module's lowest frame up     *)
(* stayed in the module and none went through a closure.                   *)
LEMMA CallAccess ==
  ASSUME "none" \notin Modules
  PROVE  Calls!Spec => []Calls!AccessIffNotReentered
<1>1. ASSUME CallInv PROVE Calls!AccessIffNotReentered
  <2> SUFFICES ASSUME status = "run"
               PROVE  Calls!MayAccess(Calls!Top.module) <=>
                        \A j \in 1..Len(stack) : stack[j].module = stack[Len(stack)].module =>
                          \A k \in (j+1)..Len(stack) :
                            /\ stack[k].module = stack[Len(stack)].module
                            /\ stack[k].call # "ClosureDynamicDispatch"
    BY DEF Calls!AccessIffNotReentered, Calls!Depth, Calls!Top
  <2> DEFINE m == stack[Len(stack)].module
  <2>1. stack \in Seq(CallFrame) /\ Len(stack) > 0 /\ Len(stack) \in 1..Len(stack)
    BY <1>1 DEF CallInv, CallTypes
  <2>2. m \in Modules /\ EnteredIn(stack, m) \subseteq 1..Len(stack) /\ Len(stack) \in Nat
    BY <2>1, FrameFields
  <2>3. Calls!MayAccess(Calls!Top.module) <=> Cardinality(EnteredIn(stack, m)) <= 1
    BY <1>1, <2>2 DEF CallInv, Counted, Calls!MayAccess, Calls!Top, Calls!Depth
  <2>4. Cardinality(EnteredIn(stack, m)) <= 1 <=> \A x, y \in EnteredIn(stack, m) : x = y
    BY <2>2, FrameSets
  <2> QED
    BY <2>1, <2>3, <2>4, EnteredOnce
<1> QED
  BY <1>1, CallInvariance, PTL
-----------------------------------------------------------------------------
(* Strings.                                                                *)

Text == Seq({"x", "y", "lead2", "lead3", "cont"})

(* One byte of a string that is UTF-8.                                     *)
LEMMA Utf8At ==
  ASSUME NEW b \in Text, Strings!Utf8(b), NEW k \in 1..Len(b)
  PROVE  /\ b[k] = "cont" <=> \/ k > 1 /\ b[k-1] \in {"lead2", "lead3"}
                              \/ k > 2 /\ b[k-2] = "lead3"
         /\ b[k] = "lead2" => k + 1 <= Len(b)
         /\ b[k] = "lead3" => k + 2 <= Len(b)
  BY DEF Strings!Utf8, Strings!TailLen

(* ... and that is all there is to being UTF-8.                            *)
LEMMA IsUtf8 ==
  ASSUME NEW b \in Text,
         \A k \in 1..Len(b) :
           /\ b[k] = "cont" <=> \/ k > 1 /\ b[k-1] \in {"lead2", "lead3"}
                                \/ k > 2 /\ b[k-2] = "lead3"
           /\ b[k] = "lead2" => k + 1 <= Len(b)
           /\ b[k] = "lead3" => k + 2 <= Len(b)
  PROVE  Strings!Utf8(b)
<1>1. \A k \in 1..Len(b) : k + Strings!TailLen(b[k]) <= Len(b)
  BY DEF Strings!TailLen, Text
<1> QED
  BY <1>1 DEF Strings!Utf8

(* Two strings end to end are a string: no character of the first reaches  *)
(* into the second.                                                        *)
LEMMA Utf8Concat ==
  ASSUME NEW a \in Text, NEW b \in Text, Strings!Utf8(a), Strings!Utf8(b)
  PROVE  a \o b \in Text /\ Strings!Utf8(a \o b)
<1> DEFINE c == a \o b
           m == Len(a)
           n == Len(b)
<1>1. /\ c \in Text /\ m \in Nat /\ n \in Nat /\ Len(c) = m + n
      /\ \A k \in 1..m : c[k] = a[k]
      /\ \A k \in 1..n : c[m + k] = b[k]
  BY DEF Text
<1> HIDE DEF c, m, n
<1>2. ASSUME NEW k \in 1..m
      PROVE  /\ c[k] = "cont" <=> \/ k > 1 /\ c[k-1] \in {"lead2", "lead3"}
                                  \/ k > 2 /\ c[k-2] = "lead3"
             /\ c[k] = "lead2" => k + 1 <= m
             /\ c[k] = "lead3" => k + 2 <= m
  <2>1. /\ a[k] = "cont" <=> \/ k > 1 /\ a[k-1] \in {"lead2", "lead3"}
                             \/ k > 2 /\ a[k-2] = "lead3"
        /\ a[k] = "lead2" => k + 1 <= m
        /\ a[k] = "lead3" => k + 2 <= m
    BY Utf8At DEF m
  <2>2. c[k] = a[k] /\ (k > 1 => c[k-1] = a[k-1]) /\ (k > 2 => c[k-2] = a[k-2])
    BY <1>1
  <2> QED
    BY <2>1, <2>2
<1>3. m > 0 => c[m] \notin {"lead2", "lead3"}
  BY <1>1, <1>2
<1>4. m > 1 => c[m-1] # "lead3"
  BY <1>1, <1>2
<1>5. ASSUME NEW k \in 1..n
      PROVE  /\ c[m+k] = "cont" <=> \/ m + k > 1 /\ c[m+k-1] \in {"lead2", "lead3"}
                                    \/ m + k > 2 /\ c[m+k-2] = "lead3"
             /\ c[m+k] = "lead2" => m + k + 1 <= m + n
             /\ c[m+k] = "lead3" => m + k + 2 <= m + n
  <2>1. /\ b[k] = "cont" <=> \/ k > 1 /\ b[k-1] \in {"lead2", "lead3"}
                             \/ k > 2 /\ b[k-2] = "lead3"
        /\ b[k] = "lead2" => k + 1 <= n
        /\ b[k] = "lead3" => k + 2 <= n
    BY Utf8At DEF n
  <2>2. c[m+k] = b[k] /\ (k > 1 => c[m+(k-1)] = b[k-1]) /\ (k > 2 => c[m+(k-2)] = b[k-2])
    BY <1>1
  <2>3. m + (k-1) = m+k-1 /\ m + (k-2) = m+k-2
    BY <1>1
  <2>4. CASE k = 1
    <3>1. m+k-1 = m /\ m+k-2 = m-1
      BY <1>1, <2>4
    <3> QED
      BY <1>1, <1>3, <1>4, <2>1, <2>2, <2>4, <3>1
  <2>5. CASE k = 2
    <3>1. m+k-2 = m
      BY <1>1, <2>5
    <3> QED
      BY <1>1, <1>3, <2>1, <2>2, <2>3, <2>5, <3>1
  <2>6. CASE k > 2
    BY <1>1, <2>1, <2>2, <2>3, <2>6
  <2> QED
    BY <2>4, <2>5, <2>6
<1>6. ASSUME NEW k \in 1..(m+n)
      PROVE  /\ c[k] = "cont" <=> \/ k > 1 /\ c[k-1] \in {"lead2", "lead3"}
                                  \/ k > 2 /\ c[k-2] = "lead3"
             /\ c[k] = "lead2" => k + 1 <= m + n
             /\ c[k] = "lead3" => k + 2 <= m + n
  <2>1. CASE k <= m
    BY <1>1, <1>2, <2>1
  <2>2. CASE k > m
    <3> DEFINE d == k - m
    <3>1. d \in 1..n /\ m + d = k /\ m + d - 1 = k - 1 /\ m + d - 2 = k - 2
      BY <1>1, <2>2
    <3> HIDE DEF d
    <3>2. /\ c[m+d] = "cont" <=> \/ m + d > 1 /\ c[m+d-1] \in {"lead2", "lead3"}
                                 \/ m + d > 2 /\ c[m+d-2] = "lead3"
          /\ c[m+d] = "lead2" => m + d + 1 <= m + n
          /\ c[m+d] = "lead3" => m + d + 2 <= m + n
      BY <1>5, <3>1
    <3> QED
      BY <3>1, <3>2
  <2> QED
    BY <1>1, <2>1, <2>2
<1>7. Strings!Utf8(c)
  BY <1>1, <1>6, IsUtf8
<1> QED
  BY <1>1, <1>7 DEF c

(* A string cut between characters is a string.                            *)
LEMMA Utf8Cut ==
  ASSUME NEW b \in Text, Strings!Utf8(b), NEW i \in Nat, NEW j \in Nat, i <= j, j <= Len(b),
         i = Len(b) \/ b[i+1] # "cont", j = Len(b) \/ b[j+1] # "cont"
  PROVE  SubSeq(b, i+1, j) \in Text /\ Strings!Utf8(SubSeq(b, i+1, j))
<1> DEFINE c == SubSeq(b, i+1, j)
           n == j - i
<1>1. c \in Text /\ n \in Nat /\ Len(b) \in Nat /\ Len(c) = n /\ \A k \in 1..n : c[k] = b[i+k]
  BY DEF Text
<1> HIDE DEF c
<1>2. ASSUME NEW k \in 1..n
      PROVE  /\ c[k] = "cont" <=> \/ k > 1 /\ c[k-1] \in {"lead2", "lead3"}
                                  \/ k > 2 /\ c[k-2] = "lead3"
             /\ c[k] = "lead2" => k + 1 <= n
             /\ c[k] = "lead3" => k + 2 <= n
  <2>1. i + k \in 1..Len(b) /\ i + 1 \in 1..Len(b)
    BY <1>1
  <2>2. /\ b[i+k] = "cont" <=> \/ i+k > 1 /\ b[i+k-1] \in {"lead2", "lead3"}
                               \/ i+k > 2 /\ b[i+k-2] = "lead3"
        /\ b[i+k] = "lead2" => i + k + 1 <= Len(b)
        /\ b[i+k] = "lead3" => i + k + 2 <= Len(b)
    BY <2>1, Utf8At
  <2>3. /\ c[k] = b[i+k]
        /\ k > 1 => c[k-1] = b[i+(k-1)] /\ i+(k-1) = i+k-1
        /\ k > 2 => c[k-2] = b[i+(k-2)] /\ i+(k-2) = i+k-2
    BY <1>1
  <2>4. c[k] = "cont" <=> \/ k > 1 /\ c[k-1] \in {"lead2", "lead3"}
                          \/ k > 2 /\ c[k-2] = "lead3"
    <3>1. CASE k = 1
      BY <1>1, <2>3, <3>1
    <3>2. CASE k = 2
      <4>1. b[i+1] # "cont" /\ (i+1 > 1 => b[i] # "lead3")
        <5>1. b[i+1] # "cont"
          BY <1>1
        <5>2. i + 1 - 1 = i
          OBVIOUS
        <5> QED
          BY <2>1, <5>1, <5>2, Utf8At
      <4>2. i + k - 2 = i
        BY <3>2
      <4> QED
        BY <2>2, <2>3, <3>2, <4>1, <4>2
    <3>3. CASE k > 2
      BY <2>2, <2>3, <3>3
    <3> QED
      BY <3>1, <3>2, <3>3
  <2>5. ASSUME j < Len(b) PROVE /\ b[j] \notin {"lead2", "lead3"}
                                /\ j > 1 => b[j-1] # "lead3"
    <3>1. j + 1 \in 1..Len(b) /\ j + 1 - 1 = j /\ j + 1 - 2 = j - 1 /\ j >= 1
      BY <1>1, <2>1, <2>5
    <3>2. b[j+1] # "cont"
      BY <1>1, <2>5
    <3> QED
      BY <3>1, <3>2, Utf8At
  <2>6. c[k] = "lead2" => k + 1 <= n
    <3>1. ASSUME k = n PROVE i + k = j
      BY <3>1
    <3> QED
      BY <1>1, <2>2, <2>3, <2>5, <3>1
  <2>7. c[k] = "lead3" => k + 2 <= n
    <3> SUFFICES ASSUME c[k] = "lead3" PROVE k # n /\ k + 1 # n
      BY <1>1
    <3>1. (b[i+k] = "lead3" /\ j < Len(b)) \/ i + k + 2 <= j
      BY <1>1, <2>2, <2>3
    <3>2. ASSUME k = n PROVE FALSE
      <4>1. i + k = j
        BY <3>2
      <4> QED
        BY <2>5, <3>1, <4>1
    <3>3. ASSUME k + 1 = n PROVE FALSE
      <4>1. i + k = j - 1 /\ j > 1
        BY <1>1, <3>3
      <4> QED
        BY <2>5, <3>1, <4>1
    <3> QED
      BY <3>2, <3>3
  <2> QED
    BY <2>4, <2>6, <2>7
<1>3. Strings!Utf8(c)
  BY <1>1, <1>2, IsUtf8
<1> QED
  BY <1>1, <1>3 DEF c

(* In a string, a window that holds a string begins and ends between       *)
(* characters.                                                             *)
LEMMA WindowBounds ==
  ASSUME NEW b \in Text, Strings!Utf8(b), NEW p \in Text, Strings!Utf8(p), p # <<>>,
         NEW i \in Nat, i + Len(p) <= Len(b), \A k \in 1..Len(p) : b[i+k] = p[k]
  PROVE  /\ b[i+1] # "cont"
         /\ i + Len(p) = Len(b) \/ b[i + Len(p) + 1] # "cont"
<1> DEFINE n == Len(p)
<1>1. n \in Nat /\ n >= 1 /\ Len(b) \in Nat /\ (n = 1 \/ n > 1)
  <2>1. n \in Nat /\ n # 0 /\ Len(b) \in Nat
    BY DEF Text
  <2> HIDE DEF n
  <2> QED
    BY <2>1
<1>2. b[i+1] # "cont"
  <2>1. 1 \in 1..n /\ p[1] # "cont"
    BY <1>1, Utf8At
  <2> QED
    BY <2>1
<1>3. p[n] \notin {"lead2", "lead3"} /\ (n > 1 => p[n-1] # "lead3")
  <2>1. p[n] \notin {"lead2", "lead3"}
    BY <1>1, n \in 1..n, Utf8At
  <2>2. ASSUME n > 1 PROVE p[n-1] # "lead3"
    BY <1>1, <2>2, n - 1 \in 1..n, Utf8At
  <2> QED
    BY <2>1, <2>2
<1>4. b[i+n] = p[n] /\ (n > 1 => b[i+(n-1)] = p[n-1])
  BY <1>1
<1>5. ASSUME i + n < Len(b) PROVE b[i+n+1] # "cont"
  <2> DEFINE k == i + n + 1
  <2>1. /\ k \in 1..Len(b) /\ k - 1 = i + n /\ k - 2 = i + (n-1)
    BY <1>1, <1>5
  <2>2. b[k-1] \notin {"lead2", "lead3"}
    BY <1>3, <1>4, <2>1
  <2>3. ASSUME k > 2, b[k-2] = "lead3" PROVE FALSE
    <3>1. CASE n > 1
      BY <1>3, <1>4, <2>1, <2>3, <3>1
    <3>2. CASE n = 1
      <4>1. b[i] = "lead3" /\ i >= 1 /\ i + 1 \in 1..Len(b) /\ i + 1 - 1 = i
        BY <1>1, <2>1, <2>3, <3>2
      <4>2. b[i+1] = "cont"
        BY <4>1, Utf8At
      <4> QED
        BY <1>2, <4>2
    <3> QED
      BY <1>1, <3>1, <3>2
  <2> HIDE DEF k
  <2>4. b[k] # "cont"
    BY <2>1, <2>2, <2>3, Utf8At
  <2> QED
    BY <2>4 DEF k
<1> QED
  BY <1>1, <1>2, <1>5

(* A window equals p just when it does so byte by byte.                    *)
LEMMA WindowBytes ==
  ASSUME NEW b \in Text, NEW p \in Text, NEW i \in Nat, i + Len(p) <= Len(b)
  PROVE  SubSeq(b, i + 1, i + Len(p)) = p <=> \A k \in 1..Len(p) : b[i+k] = p[k]
<1> DEFINE n == Len(p)
           c == SubSeq(b, i + 1, i + n)
<1>1. n \in Nat /\ Len(c) = n /\ c \in Text /\ \A k \in 1..n : c[k] = b[i+k]
  BY DEF Text
<1> HIDE DEF c
<1>2. c = p <=> \A k \in 1..n : c[k] = p[k]
  BY <1>1 DEF Text
<1>3. c = p <=> \A k \in 1..n : b[i+k] = p[k]
  BY <1>1, <1>2
<1> QED
  BY <1>3 DEF c

Boundary(b, i) == i \in 0..Len(b) /\ (i = Len(b) \/ b[i+1] # "cont")
Places(b, p) == {i \in 0..Len(b) : /\ Boundary(b, i) /\ Boundary(b, i + Len(p))
                                   /\ \A k \in 1..Len(p) : b[i+k] = p[k]}

(* Searching by bytes finds what searching by characters finds.            *)
LEMMA FindsCharacters ==
  ASSUME NEW b \in Text, Strings!Utf8(b), NEW p \in Text, Strings!Utf8(p),
         NEW x, x = Strings!InternalIndexOf(b, p)
  PROVE  /\ IF Places(b, p) = {} THEN x = Len(b)
            ELSE x \in Places(b, p) /\ \A q \in Places(b, p) : x <= q
         /\ Boundary(b, x)
<1>0. Len(b) \in Nat /\ Len(p) \in Nat
  BY DEF Text
<1>1. CASE p = <<>>
  <2>1. x = 0 /\ Len(p) = 0
    BY <1>1 DEF Strings!InternalIndexOf
  <2>2. Boundary(b, 0)
    <3>1. Len(b) > 0 => b[1] # "cont"
      BY <1>0, Utf8At
    <3> QED
      BY <1>0, <3>1 DEF Boundary
  <2>3. 0 \in Places(b, p) /\ \A q \in Places(b, p) : 0 <= q
    BY <1>0, <2>1, <2>2 DEF Places
  <2> QED
    BY <2>1, <2>2, <2>3
<1>2. CASE p # <<>>
  <2> DEFINE W == Strings!Windows(b, p)
  <2>1. W = Places(b, p)
    <3>1. ASSUME NEW i \in W PROVE i \in Places(b, p)
      <4>1. /\ i \in 0..Len(b) /\ i \in Nat /\ i + Len(p) <= Len(b)
            /\ \A k \in 1..Len(p) : b[i+k] = p[k]
        BY <1>0, <3>1, WindowBytes DEF Strings!Windows
      <4>2. /\ b[i+1] # "cont"
            /\ i + Len(p) = Len(b) \/ b[i + Len(p) + 1] # "cont"
        BY <1>2, <4>1, WindowBounds
      <4> QED
        BY <1>0, <4>1, <4>2 DEF Places, Boundary
    <3>2. ASSUME NEW i \in Places(b, p) PROVE i \in W
      <4>1. /\ i \in 0..Len(b) /\ i \in Nat /\ i + Len(p) <= Len(b)
            /\ \A k \in 1..Len(p) : b[i+k] = p[k]
        BY <1>0, <3>2 DEF Places, Boundary
      <4> QED
        BY <1>0, <4>1, WindowBytes DEF Strings!Windows
    <3> HIDE DEF W
    <3> QED
      BY <3>1, <3>2
  <2>2. CASE W = {}
    <3>1. x = Len(b)
      BY <1>2, <2>2 DEF Strings!InternalIndexOf
    <3> QED
      BY <1>0, <2>1, <2>2, <3>1 DEF Boundary
  <2>3. CASE W # {}
    <3>1. x = Strings!First(W)
      BY <1>2, <2>3 DEF Strings!InternalIndexOf
    <3>2. W \subseteq Nat
      BY <1>0 DEF Strings!Windows
    <3>3. \E i \in W : \A j \in W : i <= j
      <4> HIDE DEF W
      <4> QED
        BY <2>3, <3>2, LeastNatural
    <3>4. x \in W /\ \A j \in W : x <= j
      <4> HIDE DEF W
      <4> QED
        BY <3>1, <3>3 DEF Strings!First
    <3>5. x \in Places(b, p) /\ \A q \in Places(b, p) : x <= q
      BY <2>1, <3>4
    <3>6. Boundary(b, x)
      BY <3>5 DEF Places
    <3> QED
      BY <3>5, <3>6
  <2> QED
    BY <2>2, <2>3
<1> QED
  BY <1>1, <1>2

(* Strings hold characters, and a search found what it says.               *)
StringInv ==
    /\ text \in Text /\ other \in Text
    /\ Strings!StringsAreUtf8
    /\ Strings!FoundLikeFind

(* The inputs of the natives are bytes.                                    *)
LEMMA BytesAreText ==
  ASSUME Strings!MaxLenAssumption, NEW b \in Strings!Bytes
  PROVE  b \in Text
<1>1. PICK n \in 0..MaxLen : b \in [1..n -> Strings!Byte]
  BY DEF Strings!Bytes
<1>2. n \in Nat
  BY DEF Strings!MaxLenAssumption
<1> QED
  BY <1>1, <1>2 DEF Text, Strings!Byte

(* With another string in place nothing has been searched for.             *)
LEMMA Unsearched ==
  ASSUME NEW b, NEW p, b \in Text, p \in Text, Strings!Utf8(b), Strings!Utf8(p),
         text' = b, other' = p, found' = Strings!NotAsked
  PROVE  StringInv'
  BY DEF StringInv, Strings!StringsAreUtf8, Strings!FoundLikeFind, Strings!NotAsked,
         Strings!Utf8

(* Every function of std::string leaves whole characters, and index_of's   *)
(* answer is the search's.                                                 *)
LEMMA StringsKeep ==
  ASSUME Strings!MaxLenAssumption, StringInv, [Strings!Next]_(Strings!vars)
  PROVE  StringInv'
<1>0. /\ text \in Text /\ other \in Text /\ Strings!Utf8(text) /\ Strings!Utf8(other)
      /\ Len(text) \in Nat /\ Len(other) \in Nat
  BY DEF StringInv, Strings!StringsAreUtf8, Text
<1>1. ASSUME UNCHANGED <<text, other, found>> PROVE StringInv'
  <2>1. text' = text /\ other' = other /\ found' = found
    BY <1>1
  <2>2. Strings!FoundLikeFind'
    BY <2>1 DEF StringInv, Strings!FoundLikeFind, Strings!NotAsked
  <2>3. Strings!StringsAreUtf8'
    BY <1>0, <2>1 DEF Strings!StringsAreUtf8, Strings!Utf8
  <2> QED
    BY <1>0, <2>1, <2>2, <2>3 DEF StringInv
<1>2. ASSUME NEW code, Strings!Abort(code) PROVE StringInv'
  BY <1>1, <1>2 DEF Strings!Abort
<1>3. ASSUME NEW b \in Strings!Bytes, Strings!MakeUtf8(b) PROVE StringInv'
  BY <1>0, <1>2, <1>3, BytesAreText, Unsearched DEF Strings!MakeUtf8, Strings!InternalCheckUtf8
<1>4. ASSUME NEW b \in Strings!Bytes, Strings!TryUtf8(b) PROVE StringInv'
  BY <1>0, <1>4, BytesAreText, Unsearched DEF Strings!TryUtf8, Strings!InternalCheckUtf8
<1>5. ASSUME NEW b \in Strings!Bytes, Strings!AppendUtf8(b) PROVE StringInv'
  BY <1>0, <1>2, <1>5, BytesAreText, Utf8Concat, Unsearched
     DEF Strings!AppendUtf8, Strings!InternalCheckUtf8
<1>6. CASE Strings!AppendString
  BY <1>0, <1>6, Utf8Concat, Unsearched DEF Strings!AppendString
<1>7. ASSUME NEW i \in Nat, NEW j \in Nat, Strings!CanCut(text, i, j)
      PROVE  /\ Strings!InternalSubString(text, i, j) \in Text
             /\ Strings!Utf8(Strings!InternalSubString(text, i, j))
  <2>1. i <= j /\ j <= Len(text)
    BY <1>7 DEF Strings!CanCut
  <2>2. \A k \in Nat : Strings!InternalIsCharBoundary(text, k) => k = Len(text) \/ text[k+1] # "cont"
    <3>1. Len(text) > 0 => text[0+1] # "cont"
      BY <1>0, Utf8At
    <3> QED
      BY <1>0, <3>1 DEF Strings!InternalIsCharBoundary
  <2>3. /\ i = Len(text) \/ text[i+1] # "cont"
        /\ j = Len(text) \/ text[j+1] # "cont"
    BY <1>7, <2>2 DEF Strings!CanCut
  <2> QED
    BY <1>0, <2>1, <2>3, Utf8Cut DEF Strings!InternalSubString
<1>8. ASSUME NEW at \in 0..(MaxLen + 1), Strings!Insert(at) PROVE StringInv'
  <2> DEFINE left == Strings!InternalSubString(text, 0, at)
             right == Strings!InternalSubString(text, at, Len(text))
  <2>1. CASE Strings!Abort("EINVALID_INDEX")
    BY <1>2, <2>1
  <2>2. CASE /\ Strings!CanCut(text, 0, at) /\ Strings!CanCut(text, at, Len(text))
             /\ text' = left \o other \o right
             /\ found' = Strings!NotAsked /\ other' = other
    <3>1. at \in Nat /\ 0 \in Nat
      BY DEF Strings!MaxLenAssumption
    <3>2. left \in Text /\ Strings!Utf8(left) /\ right \in Text /\ Strings!Utf8(right)
      BY <1>0, <1>7, <2>2, <3>1
    <3> HIDE DEF left, right
    <3>3. left \o other \in Text /\ Strings!Utf8(left \o other)
      BY <1>0, <3>2, Utf8Concat
    <3>4. (left \o other) \o right \in Text /\ Strings!Utf8((left \o other) \o right)
      BY <3>2, <3>3, Utf8Concat
    <3> QED
      BY <1>0, <2>2, <3>4, Unsearched
  <2> QED
    BY <1>8, <2>1, <2>2 DEF Strings!Insert
<1>9. ASSUME NEW i \in 0..(MaxLen + 1), NEW j \in 0..(MaxLen + 1), Strings!CutString(i, j)
      PROVE  StringInv'
  <2>1. i \in Nat /\ j \in Nat
    BY DEF Strings!MaxLenAssumption
  <2>2. CASE Strings!CanCut(text, i, j)
    <3>1. /\ other' = Strings!InternalSubString(text, i, j) /\ text' = text
          /\ found' = Strings!NotAsked
      BY <1>9, <2>2 DEF Strings!CutString
    <3> QED
      BY <1>0, <1>7, <2>1, <2>2, <3>1, Unsearched
  <2>3. CASE ~Strings!CanCut(text, i, j)
    BY <1>2, <1>9, <2>3 DEF Strings!CutString
  <2> QED
    BY <2>2, <2>3
<1>10. CASE Strings!IndexOf
  <2>1. text' = text /\ other' = other /\ found' = Strings!InternalIndexOf(text, other)
    BY <1>10 DEF Strings!IndexOf
  <2>2. /\ IF Places(text, other) = {} THEN found' = Len(text)
           ELSE found' \in Places(text, other) /\ \A q \in Places(text, other) : found' <= q
        /\ Boundary(text, found')
    BY <1>0, <2>1, FindsCharacters
  <2>3. Strings!FoundLikeFind'
    BY <2>1, <2>2 DEF Strings!FoundLikeFind, Places, Boundary
  <2>4. Strings!StringsAreUtf8'
    BY <1>0, <2>1 DEF Strings!StringsAreUtf8, Strings!Utf8
  <2> QED
    BY <1>0, <2>1, <2>3, <2>4 DEF StringInv
<1> QED
  BY <1>1, <1>3, <1>4, <1>5, <1>6, <1>8, <1>9, <1>10 DEF Strings!Next, Strings!vars

(* The invariant of the strings, for byte strings of any length.           *)
LEMMA StringInvariance ==
  ASSUME Strings!MaxLenAssumption
  PROVE  Strings!Spec => []StringInv
<1>1. Strings!Init => StringInv
  BY DEF Strings!Init, StringInv, Strings!StringsAreUtf8, Strings!FoundLikeFind,
         Strings!Utf8, Text
<1>2. StringInv /\ [Strings!Next]_(Strings!vars) => StringInv'
  BY StringsKeep
<1> QED
  BY <1>1, <1>2, PTL DEF Strings!Spec

(* Whatever is appended, inserted and cut at byte indices, every String    *)
(* holds whole characters (string.move's guarantee).                       *)
LEMMA StringCharacters ==
  ASSUME Strings!MaxLenAssumption
  PROVE  Strings!Spec => []Strings!StringsAreUtf8
<1>1. StringInv => Strings!StringsAreUtf8
  BY DEF StringInv
<1> QED
  BY <1>1, StringInvariance, PTL

(* internal_index_of compares bytes, and answers as str::find does: the    *)
(* first place of the characters, which is never inside of one.            *)
LEMMA StringSearch ==
  ASSUME Strings!MaxLenAssumption
  PROVE  Strings!Spec => []Strings!FoundLikeFind
<1>1. StringInv => Strings!FoundLikeFind
  BY DEF StringInv
<1> QED
  BY <1>1, StringInvariance, PTL

-----------------------------------------------------------------------------
(* Addresses.                                                              *)

(* Induction on the natural numbers, for a set of them.                    *)
LEMMA NatSetInduction ==
  ASSUME NEW S, 0 \in S, \A n \in Nat : n \in S => n + 1 \in S
  PROVE  Nat \subseteq S
<1> DEFINE T == Nat \ S
<1> SUFFICES ASSUME T # {} PROVE FALSE
  OBVIOUS
<1>1. PICK x \in T : \A y \in T : x <= y
  BY LeastNatural
<1>2. x - 1 \in Nat /\ x - 1 \in T
  OBVIOUS
<1> QED
  BY <1>1, <1>2

(* Numbers made of digits.                                                 *)
LEMMA DigitArithmetic ==
  /\ \A x, y, b \in Nat : x * b + y \in Nat
  /\ \A x, y \in 0..15 : 16 * x + y \in 0..255
  /\ \A x, y, w \in Nat : (w * 16 + x) * 16 + y = w * 256 + (16 * x + y)
  OBVIOUS

(* The elements of a sequence over a set are members of the set.           *)
LEMMA ElementsOfSeq ==
  ASSUME NEW S, NEW q \in Seq(S)
  PROVE  \A j \in 1..Len(q) : q[j] \in S
OBVIOUS

(* A sequence of some values is a sequence of more.                        *)
LEMMA WiderSeq ==
  ASSUME NEW S, NEW T, S \subseteq T, NEW ds \in Seq(S)
  PROVE  ds \in Seq(T)
<1>1. Len(ds) \in Nat /\ ds = [k \in 1..Len(ds) |-> ds[k]] /\ \A k \in 1..Len(ds) : ds[k] \in T
  OBVIOUS
<1> DEFINE n == Len(ds)
<1>2. ds \in [1..n -> T]
  BY <1>1
<1> HIDE DEF n
<1> QED
  BY <1>1, <1>2 DEF n

(* v[k] is the number the first k digits denote.                           *)
Denotes(v, ds, base) ==
    /\ v[0] = 0
    /\ \A k \in Nat : k + 1 <= Len(ds) => v[k+1] = v[k] * base + ds[k+1]

(* ValueOf's recursion has the meaning it seems to have.                   *)
LEMMA ValueSteps ==
  ASSUME NEW ds \in Seq(Nat), NEW base \in Nat
  PROVE  \E v : Denotes(v, ds, base) /\ Address!ValueOf(ds, base) = v[Len(ds)]
<1> DEFINE n == Len(ds)
           At(g, k) == IF k = 0 THEN 0 ELSE g[k-1] * base + ds[k]
           Is(g, m) == g = [k \in 0..m |-> At(g, k)]
           Good == {m \in Nat : \E g : Is(g, m)}
<1>0. n \in Nat
  OBVIOUS
<1>1. 0 \in Good
  <2> DEFINE g == [k \in 0..0 |-> 0]
  <2>1. Is(g, 0)
    OBVIOUS
  <2> HIDE DEF Is
  <2> QED
    BY <2>1
<1>2. ASSUME NEW m \in Nat, m \in Good PROVE m + 1 \in Good
  <2>1. PICK g : Is(g, m)
    BY <1>2
  <2> DEFINE h == [k \in 0..(m+1) |-> At(g, k)]
  <2>2. \A k \in 0..m : g[k] = At(g, k)
    BY <2>1
  <2>3. \A k \in 0..m : h[k] = g[k]
    BY <2>2
  <2>4. ASSUME NEW k \in 0..(m+1) PROVE h[k] = At(h, k)
    <3>1. h[k] = At(g, k)
      OBVIOUS
    <3> HIDE DEF h
    <3>2. k # 0 => h[k-1] = g[k-1]
      <4>1. k # 0 => k - 1 \in 0..m
        OBVIOUS
      <4> QED
        BY <2>3, <4>1
    <3> QED
      BY <3>1, <3>2
  <2>5. Is(h, m + 1)
    BY <2>4
  <2> HIDE DEF Is
  <2> QED
    BY <2>5
<1>3. Nat \subseteq Good
  <2> HIDE DEF Good
  <2> QED
    BY <1>1, <1>2, NatSetInduction
<1>4. \E g : Is(g, n)
  BY <1>0, <1>3
<1> DEFINE v == CHOOSE g : Is(g, n)
<1>5. Is(v, n)
  <2> HIDE DEF Is
  <2> QED
    BY <1>4
<1>6. Address!ValueOf(ds, base) = v[n]
  BY DEF Address!ValueOf
<1> HIDE DEF v
<1>7. \A k \in 0..n : v[k] = At(v, k)
  BY <1>5
<1>8. Denotes(v, ds, base)
  <2>1. v[0] = 0
    BY <1>0, <1>7
  <2>2. ASSUME NEW k \in Nat, k + 1 <= n PROVE v[k+1] = v[k] * base + ds[k+1]
    <3>1. k + 1 \in 0..n /\ (k + 1) - 1 = k /\ k + 1 # 0
      BY <1>0, <2>2
    <3> QED
      BY <1>7, <3>1
  <2> QED
    BY <2>1, <2>2 DEF Denotes
<1> QED
  BY <1>6, <1>8

(* What digits denote is a number.                                         *)
LEMMA ValuesAreNumbers ==
  ASSUME NEW ds \in Seq(Nat), NEW base \in Nat, NEW v, Denotes(v, ds, base)
  PROVE  \A k \in Nat : k <= Len(ds) => v[k] \in Nat
<1> DEFINE G == {k \in Nat : k <= Len(ds) => v[k] \in Nat}
<1>1. 0 \in G
  BY DEF Denotes
<1>2. ASSUME NEW k \in Nat, k \in G PROVE k + 1 \in G
  <2> SUFFICES ASSUME k + 1 <= Len(ds) PROVE v[k+1] \in Nat
    OBVIOUS
  <2>1. v[k] \in Nat /\ ds[k+1] \in Nat
    BY <1>2
  <2>2. v[k+1] = v[k] * base + ds[k+1]
    BY DEF Denotes
  <2> DEFINE x == v[k]
             y == ds[k+1]
  <2> HIDE DEF x, y
  <2>3. x * base + y \in Nat
    BY <2>1, DigitArithmetic DEF x, y
  <2> QED
    BY <2>2, <2>3 DEF x, y
<1>3. Nat \subseteq G
  <2> HIDE DEF G
  <2> QED
    BY <1>1, <1>2, NatSetInduction
<1> QED
  BY <1>3

(* Leading zeros do not count.                                             *)
LEMMA LeadingZeros ==
  ASSUME NEW ds \in Seq(Nat), NEW es \in Seq(Nat), NEW base \in Nat, NEW z \in Nat,
         Len(es) = z + Len(ds),
         \A k \in 1..z : es[k] = 0,
         \A k \in 1..Len(ds) : es[z + k] = ds[k]
  PROVE  Address!ValueOf(es, base) = Address!ValueOf(ds, base)
<1> DEFINE n == Len(ds)
<1>0. n \in Nat /\ Len(es) = z + n
  OBVIOUS
<1>1. PICK v : Denotes(v, ds, base) /\ Address!ValueOf(ds, base) = v[n]
  BY ValueSteps
<1>2. PICK u : Denotes(u, es, base) /\ Address!ValueOf(es, base) = u[Len(es)]
  BY ValueSteps
<1> DEFINE Z == {k \in Nat : k <= z => u[k] = 0}
<1>3. Nat \subseteq Z
  <2>1. 0 \in Z
    BY <1>2 DEF Denotes
  <2>2. ASSUME NEW k \in Nat, k \in Z PROVE k + 1 \in Z
    <3> SUFFICES ASSUME k + 1 <= z PROVE u[k+1] = 0
      OBVIOUS
    <3>1. u[k] = 0 /\ es[k+1] = 0 /\ k + 1 <= Len(es)
      BY <1>0, <2>2
    <3>2. u[k+1] = u[k] * base + es[k+1]
      BY <1>2, <3>1 DEF Denotes
    <3> QED
      BY <3>1, <3>2
  <2> HIDE DEF Z
  <2> QED
    BY <2>1, <2>2, NatSetInduction
<1> DEFINE G == {k \in Nat : k <= n => u[z + k] = v[k]}
<1>4. Nat \subseteq G
  <2>1. 0 \in G
    BY <1>1, <1>3 DEF Denotes
  <2>2. ASSUME NEW k \in Nat, k \in G PROVE k + 1 \in G
    <3> SUFFICES ASSUME k + 1 <= n PROVE u[z + (k + 1)] = v[k+1]
      OBVIOUS
    <3>1. /\ u[z + k] = v[k] /\ es[z + (k+1)] = ds[k+1] /\ z + k \in Nat
          /\ (z + k) + 1 <= Len(es) /\ (z + k) + 1 = z + (k + 1)
      BY <1>0, <2>2
    <3>2. u[(z + k) + 1] = u[z + k] * base + es[(z + k) + 1]
      BY <1>2, <3>1 DEF Denotes
    <3>3. v[k+1] = v[k] * base + ds[k+1]
      BY <1>1 DEF Denotes
    <3> QED
      BY <3>1, <3>2, <3>3
  <2> HIDE DEF G
  <2> QED
    BY <2>1, <2>2, NatSetInduction
<1> QED
  BY <1>0, <1>1, <1>2, <1>4

(* Two hex digits make a byte.                                             *)
LEMMA PairsOfDigits ==
  ASSUME NEW ds \in Seq(0..15), NEW n \in Nat, Len(ds) = 2 * n
  PROVE  /\ Address!Decoded(ds) \in Seq(0..255) /\ Len(Address!Decoded(ds)) = n
         /\ Address!ValueOf(Address!Decoded(ds), 256) = Address!ValueOf(ds, 16)
<1> DEFINE bs == Address!Decoded(ds)
<1>1. (2 * n) \div 2 = n
  OBVIOUS
<1>2. bs = [k \in 1..n |-> 16 * ds[2*k - 1] + ds[2*k]]
  BY <1>1 DEF Address!Decoded
<1>3. \A k \in 1..n : 2*k - 1 \in 1..Len(ds) /\ 2*k \in 1..Len(ds)
  OBVIOUS
<1>4. \A k \in 1..n : ds[2*k - 1] \in 0..15 /\ ds[2*k] \in 0..15
  BY <1>3
<1>5. \A k \in 1..n : 16 * ds[2*k - 1] + ds[2*k] \in 0..255
  BY <1>4, DigitArithmetic
<1>6. bs \in Seq(0..255) /\ Len(bs) = n
  BY <1>2, <1>5
<1> HIDE DEF bs
<1>7. ds \in Seq(Nat) /\ bs \in Seq(Nat)
  BY <1>6, 0..15 \subseteq Nat, 0..255 \subseteq Nat, WiderSeq
<1>8. PICK v : Denotes(v, ds, 16) /\ Address!ValueOf(ds, 16) = v[Len(ds)]
  BY <1>7, ValueSteps
<1>9. PICK u : Denotes(u, bs, 256) /\ Address!ValueOf(bs, 256) = u[Len(bs)]
  BY <1>7, ValueSteps
<1> DEFINE G == {k \in Nat : k <= n => u[k] = v[2*k]}
<1>10. Nat \subseteq G
  <2>1. 0 \in G
    BY <1>8, <1>9 DEF Denotes
  <2>2. ASSUME NEW k \in Nat, k \in G PROVE k + 1 \in G
    <3> SUFFICES ASSUME k + 1 <= n PROVE u[k+1] = v[2*(k+1)]
      OBVIOUS
    <3>1. u[k] = v[2*k] /\ k + 1 \in 1..n
      BY <2>2
    <3>2. /\ 2*k \in Nat /\ 2*k + 1 \in Nat /\ 2*k + 1 <= Len(ds) /\ (2*k + 1) + 1 <= Len(ds)
          /\ 2*(k+1) - 1 = 2*k + 1 /\ 2*(k+1) = (2*k + 1) + 1
      OBVIOUS
    <3>3. v[2*k + 1] = v[2*k] * 16 + ds[2*k + 1]
      BY <1>8, <3>2 DEF Denotes
    <3>4. v[(2*k + 1) + 1] = v[2*k + 1] * 16 + ds[(2*k + 1) + 1]
      BY <1>8, <3>2 DEF Denotes
    <3>5. u[k+1] = u[k] * 256 + bs[k+1]
      BY <1>6, <1>9 DEF Denotes
    <3>6. bs[k+1] = 16 * ds[2*k + 1] + ds[(2*k + 1) + 1]
      BY <1>2, <3>1, <3>2
    <3>7. v[2*k] \in Nat
      BY <1>7, <1>8, <3>2, ValuesAreNumbers
    <3>8. ds[2*k + 1] \in Nat /\ ds[(2*k + 1) + 1] \in Nat
      BY <1>7, <3>2
    <3> DEFINE w == v[2*k]
               x == ds[2*k + 1]
               y == ds[(2*k + 1) + 1]
    <3>9. u[k+1] = w * 256 + (16 * x + y)
      BY <3>1, <3>5, <3>6
    <3>10. v[(2*k + 1) + 1] = (w * 16 + x) * 16 + y
      BY <3>3, <3>4
    <3>11. w \in Nat /\ x \in Nat /\ y \in Nat
      BY <3>7, <3>8
    <3> HIDE DEF w, x, y
    <3>12. w * 256 + (16 * x + y) = (w * 16 + x) * 16 + y
      BY <3>11, DigitArithmetic
    <3>13. u[k+1] = v[(2*k + 1) + 1]
      BY <3>9, <3>10, <3>12
    <3> QED
      BY <3>2, <3>13
  <2> HIDE DEF G
  <2> QED
    BY <2>1, <2>2, NatSetInduction
<1>11. u[n] = v[2*n]
  BY <1>10
<1> QED
  BY <1>6, <1>8, <1>9, <1>11 DEF bs

(* The text of an address is a sequence of characters.                     *)
LEMMA InputType ==
  ASSUME Address!AddressAssumption, NEW in \in Address!Inputs
  PROVE  in.chars \in Seq(0..16)
<1>1. PICK n \in 0..MaxDigits : in.chars \in [1..n -> Digits \cup {16}]
  BY DEF Address!Inputs, Address!NotHex
<1>2. n \in Nat /\ Digits \cup {16} \subseteq 0..16
  BY DEF Address!AddressAssumption
<1>3. in.chars \in Seq(Digits \cup {16})
  BY <1>1, <1>2
<1> QED
  BY <1>2, <1>3, WiderSeq

(* A 0 in front makes the number of digits even, and changes nothing else. *)
LEMMA NormalizedFacts ==
  ASSUME NEW cs \in Seq(0..16)
  PROVE  LET ds == Address!Normalized(cs) IN
         /\ ds \in Seq(0..16)
         /\ \E n \in Nat : /\ Len(ds) = 2 * n /\ (cs # <<>> => n > 0)
                           /\ \A m \in Nat : n > m <=> Len(cs) > 2 * m
         /\ Address!BadAt(ds) = {} <=> \A k \in DOMAIN cs : cs[k] # 16
         /\ (\A k \in DOMAIN cs : cs[k] # 16) =>
              ds \in Seq(0..15) /\ Address!ValueOf(ds, 16) = Address!ValueOf(cs, 16)
<1> DEFINE ds == Address!Normalized(cs)
           z == Len(cs) % 2
           m == Len(cs)
<1>1. m \in Nat /\ DOMAIN cs = 1..m /\ z \in {0, 1}
  OBVIOUS
<1>2. /\ ds \in Seq(0..16) /\ Len(ds) = z + m
      /\ \A k \in 1..z : ds[k] = 0
      /\ \A k \in 1..m : ds[z + k] = cs[k]
  <2>1. CASE z = 0
    BY <2>1 DEF Address!Normalized
  <2>2. CASE z = 1
    <3>1. ds = <<0>> \o cs /\ <<0>> \in Seq(0..16)
      BY <2>2 DEF Address!Normalized
    <3> HIDE DEF ds
    <3> QED
      BY <2>2, <3>1
  <2> QED
    BY <1>1, <2>1, <2>2
<1>3. PICK n \in Nat : z + m = 2 * n
  <2>1. m = 2 * (m \div 2) + z /\ m \div 2 \in Nat
    OBVIOUS
  <2>2. CASE z = 0
    BY <2>1, <2>2
  <2>3. CASE z = 1
    <3> DEFINE q == (m \div 2) + 1
    <3>1. q \in Nat /\ z + m = 2 * q
      BY <2>1, <2>3
    <3> HIDE DEF q, z, m
    <3> QED
      BY <3>1
  <2> QED
    BY <1>1, <2>2, <2>3
<1> HIDE DEF ds, z
<1>4. (cs # <<>> => n > 0) /\ \A q \in Nat : n > q <=> m > 2 * q
  <2>1. cs # <<>> => m > 0
    OBVIOUS
  <2> HIDE DEF m
  <2> QED
    BY <1>1, <1>3, <2>1
<1>5. \A k \in DOMAIN ds : k \in 1..z \/ (k - z \in 1..m /\ z + (k - z) = k)
  BY <1>1, <1>2
<1>6. \A k \in 1..m : z + k \in DOMAIN ds
  BY <1>1, <1>2
<1>7. (\E j \in DOMAIN ds : ds[j] = 16) <=> (\E k \in 1..m : cs[k] = 16)
  <2>1. ASSUME NEW j \in DOMAIN ds, ds[j] = 16 PROVE \E k \in 1..m : cs[k] = 16
    BY <1>2, <1>5, <2>1
  <2>2. ASSUME NEW k \in 1..m, cs[k] = 16 PROVE \E j \in DOMAIN ds : ds[j] = 16
    BY <1>2, <1>6, <2>2
  <2> QED
    BY <2>1, <2>2
<1>8. Address!BadAt(ds) = {} <=> \A k \in DOMAIN cs : cs[k] # 16
  <2>1. Address!BadAt(ds) = {} <=> ~(\E j \in DOMAIN ds : ds[j] = 16)
    BY DEF Address!BadAt, Address!NotHex
  <2> QED
    BY <1>1, <1>7, <2>1
<1>9. ASSUME \A k \in DOMAIN cs : cs[k] # 16
      PROVE  ds \in Seq(0..15) /\ Address!ValueOf(ds, 16) = Address!ValueOf(cs, 16)
  <2>1. \A j \in DOMAIN ds : ds[j] # 16
    BY <1>1, <1>7, <1>9
  <2>2. \A j \in DOMAIN ds : ds[j] \in 0..15
    BY <1>2, <2>1
  <2>3. ds \in Seq(0..15)
    <3> DEFINE l == Len(ds)
    <3>1. l \in Nat /\ ds \in [1..l -> 0..15]
      BY <1>2, <2>2
    <3> HIDE DEF l
    <3> QED
      BY <3>1
  <2>4. ds \in Seq(Nat) /\ cs \in Seq(Nat)
    BY <1>2, 0..16 \subseteq Nat, WiderSeq
  <2>5. z \in Nat
    BY <1>1
  <2>6. Address!ValueOf(ds, 16) = Address!ValueOf(cs, 16)
    BY <1>2, <2>4, <2>5, LeadingZeros
  <2> QED
    BY <2>3, <2>6
<1> QED
  BY <1>2, <1>3, <1>4, <1>8, <1>9 DEF ds

(* Right-aligned bytes denote the same number.                             *)
LEMMA PaddedFacts ==
  ASSUME Width \in Nat, NEW bs \in Seq(0..255), Len(bs) <= Width
  PROVE  /\ Address!Padded(bs) \in [1..Width -> 0..255]
         /\ Address!ValueOf(Address!Padded(bs), 256) = Address!ValueOf(bs, 256)
         /\ Len(bs) = Width => Address!Padded(bs) = bs
<1> DEFINE a == Address!Padded(bs)
           n == Len(bs)
           z == Width - n
<1>1. n \in Nat /\ z \in Nat /\ Width = z + n
  OBVIOUS
<1>2. a = [k \in 1..Width |-> IF k <= z THEN 0 ELSE bs[k - z]]
  BY DEF Address!Padded
<1> HIDE DEF a, z
<1>3. \A k \in 1..Width : k <= z \/ k - z \in 1..n
  BY <1>1
<1>4. a \in [1..Width -> 0..255]
  <2>1. ASSUME NEW k \in 1..Width PROVE (IF k <= z THEN 0 ELSE bs[k - z]) \in 0..255
    <3>0. \A j \in 1..n : bs[j] \in 0..255
      BY ElementsOfSeq
    <3>1. k - z \in 1..n => bs[k - z] \in 0..255
      BY <3>0
    <3>2. 0 \in 0..255
      OBVIOUS
    <3> QED
      BY <1>3, <3>1, <3>2
  <2> QED
    BY <1>2, <2>1
<1>5. a \in Seq(0..255) /\ Len(a) = z + n
  <2>1. a \in Seq(0..255) /\ Len(a) = Width
    BY <1>4
  <2> QED
    BY <1>1, <2>1
<1>6. a \in Seq(Nat) /\ bs \in Seq(Nat)
  BY <1>5, 0..255 \subseteq Nat, WiderSeq
<1>7. /\ \A k \in 1..z : a[k] = 0
      /\ \A k \in 1..n : a[z + k] = bs[k]
  <2>1. \A k \in 1..z : k \in 1..Width /\ k <= z
    BY <1>1
  <2>2. \A k \in 1..n : z + k \in 1..Width /\ ~(z + k <= z) /\ (z + k) - z = k
    BY <1>1
  <2> QED
    BY <1>2, <2>1, <2>2
<1>8. Address!ValueOf(a, 256) = Address!ValueOf(bs, 256)
  BY <1>1, <1>5, <1>6, <1>7, LeadingZeros
<1>9. ASSUME n = Width PROVE a = bs
  <2>1. z = 0
    BY <1>1, <1>9
  <2>2. \A k \in 1..Width : a[k] = bs[k]
    BY <1>1, <1>2, <2>1
  <2> QED
    BY <1>4, <1>9, <2>2
<1> QED
  BY <1>4, <1>8, <1>9 DEF a

(* Display prints two digits for every byte, which parse back to it.       *)
LEMMA DisplayParses ==
  ASSUME Width \in Nat \ {0}, NEW a \in [1..Width -> 0..255]
  PROVE  Address!FromHexLiteral(Address!Display(a)) = Address!Ok(a)
<1> DEFINE cs == Address!Display(a).chars
<1>1. cs = [k \in 1..(2 * Width) |->
              IF k % 2 = 1 THEN a[(k + 1) \div 2] \div 16 ELSE a[k \div 2] % 16]
  BY DEF Address!Display
<1>2. \A x \in 0..255 : x \div 16 \in 0..15 /\ x % 16 \in 0..15 /\ 16 * (x \div 16) + (x % 16) = x
  OBVIOUS
<1>3. \A k \in 1..(2 * Width) : /\ k % 2 = 1 => (k + 1) \div 2 \in 1..Width
                                /\ k % 2 # 1 => k \div 2 \in 1..Width
  OBVIOUS
<1> HIDE DEF cs
<1>4. cs \in [1..(2 * Width) -> 0..15]
  BY <1>1, <1>2, <1>3
<1>5. cs \in Seq(0..15) /\ Len(cs) = 2 * Width
  BY <1>4, 2 * Width \in Nat
<1>6. cs # <<>> /\ cs \in Seq(0..16) /\ Len(cs) % 2 = 0 /\ \A k \in DOMAIN cs : cs[k] # 16
  <2>1. Len(cs) # 0 /\ Len(cs) % 2 = 0
    BY <1>5
  <2>2. 0..15 \subseteq 0..16
    OBVIOUS
  <2>3. cs \in Seq(0..16)
    BY <1>5, <2>2, WiderSeq
  <2>4. ASSUME NEW k \in DOMAIN cs PROVE cs[k] # 16
    <3>1. cs[k] \in 0..15
      BY <1>4
    <3>2. 16 \notin 0..15
      OBVIOUS
    <3> QED
      BY <3>1, <3>2
  <2> QED
    BY <2>1, <2>3, <2>4
<1>7. Address!Normalized(cs) = cs
  BY <1>6 DEF Address!Normalized
<1>8. Address!BadAt(cs) = {}
  BY <1>6, <1>7, NormalizedFacts
<1>9. Address!Decoded(cs) \in Seq(0..255) /\ Len(Address!Decoded(cs)) = Width
  BY <1>5, PairsOfDigits
<1>10. Address!Decoded(cs) = a
  <2>1. (2 * Width) \div 2 = Width
    OBVIOUS
  <2>2. Address!Decoded(cs) = [k \in 1..Width |-> 16 * cs[2*k - 1] + cs[2*k]]
    BY <1>5, <2>1 DEF Address!Decoded
  <2>3. ASSUME NEW k \in 1..Width PROVE 16 * cs[2*k - 1] + cs[2*k] = a[k]
    <3>1. /\ 2*k - 1 \in 1..(2 * Width) /\ 2*k \in 1..(2 * Width)
          /\ (2*k - 1) % 2 = 1 /\ (2*k) % 2 # 1
          /\ ((2*k - 1) + 1) \div 2 = k /\ (2*k) \div 2 = k
      OBVIOUS
    <3>2. cs[2*k - 1] = a[k] \div 16 /\ cs[2*k] = a[k] % 16
      BY <1>1, <3>1
    <3> QED
      BY <1>2, <3>2
  <2> QED
    BY <2>2, <2>3
<1>11. Address!Padded(a) = a
  BY <1>9, <1>10, PaddedFacts
<1>12. ~(Width > Width)
  OBVIOUS
<1> QED
  BY <1>6, <1>7, <1>8, <1>9, <1>10, <1>11, <1>12
     DEF Address!FromHexLiteral, Address!FromHex, cs

(* Parsing is exact for one text.                                          *)
LEMMA FromHexExact ==
  ASSUME Width \in Nat \ {0}, NEW cs \in Seq(0..16), NEW o, o = Address!FromHex(cs)
  PROVE  /\ o.kind = "Empty" <=> cs = <<>>
         /\ o.kind = "InvalidHex" <=> ~(\A k \in DOMAIN cs : cs[k] # 16)
         /\ o.kind = "TooLong" <=> (\A k \in DOMAIN cs : cs[k] # 16) /\ Len(cs) > 2 * Width
         /\ o.kind = "Ok" =>
              /\ Address!ValueOf(o.address, 256) = Address!ValueOf(cs, 16)
              /\ Address!FromHexLiteral(Address!Display(o.address)) = o
<1> DEFINE ds == Address!Normalized(cs)
           allHex == \A k \in DOMAIN cs : cs[k] # 16
<1>1. /\ Address!BadAt(ds) = {} <=> allHex
      /\ allHex => ds \in Seq(0..15) /\ Address!ValueOf(ds, 16) = Address!ValueOf(cs, 16)
  BY NormalizedFacts
<1>2. PICK n \in Nat : /\ Len(ds) = 2 * n
                       /\ \A m \in Nat : n > m <=> Len(cs) > 2 * m
  BY NormalizedFacts
<1>3. n > Width <=> Len(cs) > 2 * Width
  BY <1>2
<1>4. CASE cs = <<>>
  <2>1. o.kind = "Empty"
    BY <1>4 DEF Address!FromHex, Address!Err
  <2>2. allHex /\ Len(cs) = 0
    BY <1>4
  <2>3. ~(Len(cs) > 2 * Width)
    BY <2>2
  <2> QED
    BY <1>4, <2>1, <2>2, <2>3
<1>5. CASE cs # <<>> /\ ~allHex
  <2>1. o.kind = "InvalidHex"
    BY <1>1, <1>5 DEF Address!FromHex, Address!InvalidHex
  <2> QED
    BY <1>5, <2>1
<1>6. CASE cs # <<>> /\ allHex
  <2> DEFINE bs == Address!Decoded(ds)
             a == Address!Padded(bs)
  <2>1. /\ bs \in Seq(0..255) /\ Len(bs) = n
        /\ Address!ValueOf(bs, 256) = Address!ValueOf(cs, 16)
    BY <1>1, <1>2, <1>6, PairsOfDigits
  <2>2. o = IF Len(bs) > Width THEN Address!Err("TooLong") ELSE Address!Ok(a)
    BY <1>1, <1>6 DEF Address!FromHex
  <2> HIDE DEF allHex, ds, bs, a
  <2>3. CASE n > Width
    <3>1. o.kind = "TooLong"
      BY <2>1, <2>2, <2>3 DEF Address!Err
    <3> QED
      BY <1>3, <1>6, <2>3, <3>1 DEF allHex
  <2>4. CASE ~(n > Width)
    <3>1. o = Address!Ok(a)
      BY <2>1, <2>2, <2>4
    <3>2. o.kind = "Ok" /\ o.address = a
      BY <3>1 DEF Address!Ok
    <3>3. Width \in Nat /\ Len(bs) <= Width
      BY <2>1, <2>4
    <3>4. a \in [1..Width -> 0..255] /\ Address!ValueOf(a, 256) = Address!ValueOf(bs, 256)
      BY <2>1, <3>3, PaddedFacts DEF a
    <3>5. Address!FromHexLiteral(Address!Display(a)) = Address!Ok(a)
      BY <3>4, DisplayParses
    <3> QED
      BY <1>3, <1>6, <2>1, <2>4, <3>1, <3>2, <3>4, <3>5 DEF allHex
  <2> QED
    BY <2>3, <2>4
<1> QED
  BY <1>4, <1>5, <1>6

(* A text has been read exactly, or not at all.                            *)
AddressInv ==
    /\ input \in Address!Inputs
    /\ outcome \in {Address!Unread, Address!FromHexLiteral(input)}

(* AccountAddress::from_hex fails just where it should and gives the       *)
(* number written, and Display's text parses back: for addresses of any    *)
(* width, and texts of any length.                                         *)
LEMMA AddressParsing ==
  ASSUME Address!AddressAssumption
  PROVE  Address!Spec => []Address!ParsesExactly
<1>1. Address!Init => AddressInv
  BY DEF Address!Init, AddressInv
<1>2. AddressInv /\ [Address!Next]_(Address!vars) => AddressInv'
  BY DEF AddressInv, Address!Next, Address!Parse, Address!vars
<1>3. ASSUME AddressInv PROVE Address!ParsesExactly
  <2> SUFFICES ASSUME outcome # Address!Unread PROVE Address!ParsesExactly
    BY DEF Address!ParsesExactly
  <2>1. outcome = Address!FromHex(input.chars) /\ input.chars \in Seq(0..16)
    BY <1>3, InputType DEF AddressInv, Address!FromHexLiteral
  <2>2. Width \in Nat \ {0}
    BY DEF Address!AddressAssumption
  <2> QED
    BY <2>1, <2>2, FromHexExact DEF Address!ParsesExactly, Address!NotHex
<1> QED
  BY <1>1, <1>2, <1>3, PTL DEF Address!Spec

-----------------------------------------------------------------------------
(* The build plan: the last assignment of a name wins.                     *)

Assignment == [name : Names, address : Addrs]

(* k is the greatest member of S; LastOf(S) is it, if there is one.        *)
IsLast(k, S) == k \in S /\ \A j \in S : j <= k
LastOf(S) == CHOOSE j \in S : \A i \in S : i <= j

(* A nonempty set of positions has a last one.                             *)
LEMMA LastExists ==
  ASSUME NEW n \in Nat, NEW S, S \subseteq 1..n, S # {}
  PROVE  \E k : IsLast(k, S)
<1> DEFINE Bounds == {b \in Nat : \A j \in S : j <= b}
<1>1. n \in Bounds
  OBVIOUS
<1>2. PICK b \in Bounds : \A c \in Bounds : b <= c
  <2>1. Bounds \subseteq Nat /\ Bounds # {}
    BY <1>1
  <2> HIDE DEF Bounds
  <2> QED
    BY <2>1, LeastNatural
<1>3. b \in Nat /\ \A j \in S : j \in Nat /\ 1 <= j /\ j <= b
  OBVIOUS
<1>4. b \in S
  <2> SUFFICES ASSUME b \notin S PROVE FALSE
    OBVIOUS
  <2>1. \A j \in S : j <= b - 1
    BY <1>3
  <2>2. b - 1 \in Nat
    <3>1. PICK j \in S : TRUE
      OBVIOUS
    <3>2. j \in Nat /\ 1 <= j /\ j <= b
      BY <1>3
    <3> QED
      BY <1>3, <3>2
  <2>3. b - 1 \in Bounds
    BY <2>1, <2>2
  <2> QED
    BY <1>2, <1>3, <2>3
<1> QED
  BY <1>3, <1>4 DEF IsLast

(* There is no other last position, and it is what CHOOSE finds.           *)
LEMMA LastChosen ==
  ASSUME NEW n \in Nat, NEW S, S \subseteq 1..n, NEW k, IsLast(k, S)
  PROVE  LastOf(S) = k
<1>1. k \in S /\ \A j \in S : j <= k
  BY DEF IsLast
<1>2. ASSUME NEW j \in S, \A i \in S : i <= j PROVE j = k
  <2>1. j <= k /\ k <= j /\ j \in Nat /\ k \in Nat
    BY <1>1, <1>2
  <2> QED
    BY <2>1
<1> QED
  BY <1>1, <1>2 DEF LastOf

(* The address the compiler's map has for a name is the last one listed.   *)
LEMMA LastAssigned ==
  ASSUME NEW l \in Seq(Assignment), NEW n
  PROVE  /\ Plan!Assigns(l, n) => \E k : IsLast(k, {j \in DOMAIN l : l[j].name = n})
         /\ ~Plan!Assigns(l, n) => Plan!LastAddress(l, n) = None
         /\ \A k : IsLast(k, {j \in DOMAIN l : l[j].name = n})
                     => Plan!Assigns(l, n) /\ Plan!LastAddress(l, n) = l[k].address
<1> DEFINE S == {j \in DOMAIN l : l[j].name = n}
<1>1. Len(l) \in Nat /\ DOMAIN l = 1..Len(l) /\ S \subseteq 1..Len(l)
  OBVIOUS
<1>2. Plan!Assigns(l, n) => \E k : IsLast(k, S)
  <2>1. Plan!Assigns(l, n) => S # {}
    BY DEF Plan!Assigns
  <2> HIDE DEF S
  <2> QED
    BY <1>1, <2>1, LastExists
<1>3. ASSUME NEW k, IsLast(k, S)
      PROVE  Plan!Assigns(l, n) /\ Plan!LastAddress(l, n) = l[k].address
  <2>1. k \in DOMAIN l /\ l[k].name = n /\ \A j \in DOMAIN l : l[j].name = n => j <= k
    BY <1>3 DEF IsLast
  <2>2. Plan!Assigns(l, n)
    BY <2>1 DEF Plan!Assigns
  <2>3. ASSUME NEW i \in DOMAIN l, l[i].name = n, \A j \in DOMAIN l : l[j].name = n => j <= i
        PROVE  i = k
    <3>1. i <= k /\ k <= i /\ i \in Nat /\ k \in Nat
      BY <1>1, <2>1, <2>3
    <3> QED
      BY <3>1
  <2>4. (CHOOSE i \in DOMAIN l :
            l[i].name = n /\ \A j \in DOMAIN l : l[j].name = n => j <= i) = k
    BY <2>1, <2>3
  <2> QED
    BY <2>2, <2>4 DEF Plan!LastAddress
<1>4. ~Plan!Assigns(l, n) => Plan!LastAddress(l, n) = None
  BY DEF Plan!LastAddress
<1> QED
  BY <1>2, <1>3, <1>4

(* None stands for the names that have no address.                         *)
LEMMA LastAddressType ==
  ASSUME None \notin Addrs, NEW l \in Seq(Assignment), NEW n
  PROVE  /\ Plan!Assigns(l, n) => Plan!LastAddress(l, n) \in Addrs
         /\ Plan!LastAddress(l, n) # None <=> Plan!Assigns(l, n)
<1>1. ASSUME Plan!Assigns(l, n) PROVE Plan!LastAddress(l, n) \in Addrs
  <2>1. PICK k : IsLast(k, {j \in DOMAIN l : l[j].name = n})
    BY <1>1, LastAssigned
  <2>2. k \in DOMAIN l
    BY <2>1 DEF IsLast
  <2>3. l[k] \in Assignment
    BY <2>2
  <2>4. l[k].address \in Addrs
    BY <2>3 DEF Assignment
  <2> QED
    BY <2>1, <2>4, LastAssigned
<1>2. ~Plan!Assigns(l, n) => Plan!LastAddress(l, n) = None
  BY LastAssigned
<1> QED
  BY <1>1, <1>2

(* One more assignment is the last of its name.                            *)
LEMMA AppendedAddress ==
  ASSUME NEW l \in Seq(Assignment), NEW e \in Assignment, NEW n
  PROVE  /\ Append(l, e) \in Seq(Assignment)
         /\ Plan!Assigns(Append(l, e), n) <=> Plan!Assigns(l, n) \/ e.name = n
         /\ Plan!LastAddress(Append(l, e), n)
              = IF e.name = n THEN e.address ELSE Plan!LastAddress(l, n)
<1> DEFINE m == Append(l, e)
           S == {j \in DOMAIN l : l[j].name = n}
           T == {j \in DOMAIN m : m[j].name = n}
<1>1. /\ m \in Seq(Assignment) /\ Len(l) \in Nat
      /\ DOMAIN l = 1..Len(l) /\ DOMAIN m = 1..(Len(l) + 1)
      /\ m[Len(l) + 1] = e /\ \A j \in 1..Len(l) : m[j] = l[j]
  OBVIOUS
<1> HIDE DEF m
<1>2. \A j : j \in T <=> j \in S \/ (j = Len(l) + 1 /\ e.name = n)
  BY <1>1
<1>3. Plan!Assigns(m, n) <=> Plan!Assigns(l, n) \/ e.name = n
  <2>1. Plan!Assigns(m, n) <=> \E j : j \in T
    BY DEF Plan!Assigns
  <2>2. Plan!Assigns(l, n) <=> \E j : j \in S
    BY DEF Plan!Assigns
  <2> HIDE DEF S, T
  <2> QED
    BY <1>2, <2>1, <2>2
<1>4. ASSUME e.name = n PROVE Plan!LastAddress(m, n) = e.address
  <2>1. \A j \in S : j <= Len(l) + 1
    BY <1>1
  <2>2. IsLast(Len(l) + 1, T)
    <3> HIDE DEF S, T
    <3> QED
      BY <1>1, <1>2, <1>4, <2>1 DEF IsLast
  <2> QED
    BY <1>1, <2>2, LastAssigned
<1>5. ASSUME e.name # n PROVE Plan!LastAddress(m, n) = Plan!LastAddress(l, n)
  <2>1. T = S
    <3> HIDE DEF S, T
    <3> QED
      BY <1>2, <1>5
  <2>2. CASE ~Plan!Assigns(l, n)
    <3>1. ~Plan!Assigns(m, n)
      BY <1>3, <1>5, <2>2
    <3> QED
      BY <1>1, <2>2, <3>1, LastAssigned
  <2>3. CASE Plan!Assigns(l, n)
    <3>1. PICK k : IsLast(k, S)
      BY <2>3, LastAssigned
    <3>2. k \in 1..Len(l)
      BY <1>1, <3>1 DEF IsLast
    <3>3. m[k] = l[k]
      BY <1>1, <3>2
    <3>4. Plan!LastAddress(l, n) = l[k].address
      BY <3>1, LastAssigned
    <3>5. Plan!LastAddress(m, n) = m[k].address
      BY <1>1, <2>1, <3>1, LastAssigned
    <3> QED
      BY <3>3, <3>4, <3>5
  <2> QED
    BY <2>2, <2>3
<1> QED
  BY <1>1, <1>3, <1>4, <1>5 DEF m

(* A name is listed twice.                                                 *)
Twice(l, n) == \E j, k \in DOMAIN l : j # k /\ l[j].name = n /\ l[k].name = n

(* One more assignment lists its name twice if it was listed.              *)
LEMMA AppendedTwice ==
  ASSUME NEW l \in Seq(Assignment), NEW e \in Assignment, NEW n
  PROVE  Twice(Append(l, e), n) <=> Twice(l, n) \/ (e.name = n /\ Plan!Assigns(l, n))
<1> DEFINE m == Append(l, e)
<1>1. /\ DOMAIN l = 1..Len(l) /\ DOMAIN m = 1..(Len(l) + 1) /\ Len(l) \in Nat
      /\ m[Len(l) + 1] = e /\ \A j \in 1..Len(l) : m[j] = l[j] /\ j # Len(l) + 1
  OBVIOUS
<1>2. \A j : j \in DOMAIN m <=> j = Len(l) + 1 \/ j \in DOMAIN l
  BY <1>1
<1> HIDE DEF m
<1>3. Twice(l, n) \/ (e.name = n /\ Plan!Assigns(l, n)) => Twice(m, n)
  BY <1>1, <1>2 DEF Twice, Plan!Assigns
<1>4. Twice(m, n) => Twice(l, n) \/ (e.name = n /\ Plan!Assigns(l, n))
  BY <1>1, <1>2 DEF Twice, Plan!Assigns
<1> QED
  BY <1>3, <1>4 DEF m

(* merged_named_addresses' loop body adds a name that is not listed, and   *)
(* replaces the first assignment of one that is.                           *)
LEMMA PutFirst ==
  ASSUME NEW l \in Seq(Assignment), NEW e \in Assignment, Plan!Assigns(l, e.name)
  PROVE  \E f \in DOMAIN l :
            /\ l[f].name = e.name /\ Plan!Put(l, e) = [l EXCEPT ![f] = e]
            /\ \A j \in DOMAIN l : l[j].name = e.name => f <= j
<1> DEFINE S == {j \in DOMAIN l : l[j].name = e.name}
<1>1. Len(l) \in Nat /\ DOMAIN l = 1..Len(l)
  OBVIOUS
<1>2. S \subseteq Nat /\ S # {}
  BY <1>1 DEF Plan!Assigns
<1>3. PICK f \in S : \A j \in S : f <= j
  BY <1>2, LeastNatural
<1>4. \A j \in 1..(f - 1) : j \in DOMAIN l /\ ~(f <= j)
  BY <1>1, <1>3
<1>5. l[f].name = e.name /\ \A j \in 1..(f - 1) : l[j].name # e.name
  BY <1>3, <1>4
<1>6. ASSUME NEW k \in DOMAIN l, l[k].name = e.name, \A j \in 1..(k-1) : l[j].name # e.name
      PROVE  k = f
  <2>1. f <= k /\ f \in 1..Len(l) /\ k \in 1..Len(l)
    BY <1>1, <1>3, <1>6
  <2>2. ~(f \in 1..(k-1))
    BY <1>5, <1>6
  <2> QED
    BY <1>1, <2>1, <2>2
<1>7. (CHOOSE k \in DOMAIN l :
          l[k].name = e.name /\ \A j \in 1..(k-1) : l[j].name # e.name) = f
  BY <1>3, <1>5, <1>6
<1> QED
  BY <1>3, <1>7 DEF Plan!Put

(* So it gives its name its address unless the name is listed twice, and   *)
(* leaves every other name alone.                                          *)
LEMMA PutAddress ==
  ASSUME NEW l \in Seq(Assignment), NEW e \in Assignment
  PROVE  /\ Plan!Put(l, e) \in Seq(Assignment)
         /\ \A n : Twice(Plan!Put(l, e), n) <=> Twice(l, n)
         /\ \A n : Plan!LastAddress(Plan!Put(l, e), n)
                     = IF e.name = n /\ ~Twice(l, n) THEN e.address ELSE Plan!LastAddress(l, n)
<1>1. CASE ~Plan!Assigns(l, e.name)
  <2>1. Plan!Put(l, e) = Append(l, e) /\ ~Twice(l, e.name)
    BY <1>1 DEF Plan!Put, Twice, Plan!Assigns
  <2> QED
    BY <1>1, <2>1, AppendedTwice, AppendedAddress
<1>2. CASE Plan!Assigns(l, e.name)
  <2>1. PICK f \in DOMAIN l :
            /\ l[f].name = e.name /\ Plan!Put(l, e) = [l EXCEPT ![f] = e]
            /\ \A j \in DOMAIN l : l[j].name = e.name => f <= j
    BY <1>2, PutFirst
  <2> DEFINE m == [l EXCEPT ![f] = e]
  <2>2. /\ m \in Seq(Assignment) /\ DOMAIN m = DOMAIN l
        /\ m[f] = e /\ \A j \in DOMAIN l : j # f => m[j] = l[j]
        /\ DOMAIN l \subseteq Nat
    BY <2>1
  <2> HIDE DEF m
  <2>3. \A j \in DOMAIN l : m[j].name = l[j].name
    BY <2>1, <2>2
  <2>4. \A n : Twice(m, n) <=> Twice(l, n)
    BY <2>2, <2>3 DEF Twice
  <2>5. ASSUME NEW n
        PROVE  Plan!LastAddress(m, n)
                 = IF e.name = n /\ ~Twice(l, n) THEN e.address ELSE Plan!LastAddress(l, n)
    <3>1. {j \in DOMAIN m : m[j].name = n} = {j \in DOMAIN l : l[j].name = n}
      BY <2>2, <2>3
    <3>2. CASE ~Plan!Assigns(l, n)
      <4>1. ~Plan!Assigns(m, n)
        BY <2>2, <2>3, <3>2 DEF Plan!Assigns
      <4>2. e.name # n
        BY <1>2, <3>2
      <4> QED
        BY <2>2, <3>2, <4>1, <4>2, LastAssigned
    <3>3. CASE Plan!Assigns(l, n)
      <4>1. PICK k : IsLast(k, {j \in DOMAIN l : l[j].name = n})
        BY <3>3, LastAssigned
      <4>2. k \in DOMAIN l /\ l[k].name = n /\ \A j \in DOMAIN l : l[j].name = n => j <= k
        BY <4>1 DEF IsLast
      <4>3. Plan!LastAddress(l, n) = l[k].address
        BY <4>1, LastAssigned
      <4>4. Plan!LastAddress(m, n) = m[k].address
        BY <2>2, <3>1, <4>1, LastAssigned
      <4>5. k # f => (e.name = n => Twice(l, n))
        BY <2>1, <4>2 DEF Twice
      <4>6. k = f => e.name = n /\ ~Twice(l, n)
        <5> SUFFICES ASSUME k = f, NEW i \in DOMAIN l, NEW j \in DOMAIN l, i # j,
                            l[i].name = n, l[j].name = n
                     PROVE  FALSE
          BY <2>1, <4>2 DEF Twice
        <5>1. f <= i /\ i <= f /\ f <= j /\ j <= f
          BY <2>1, <4>2
        <5> QED
          BY <2>2, <5>1
      <4> QED
        BY <2>2, <4>2, <4>3, <4>4, <4>5, <4>6
    <3> QED
      BY <3>2, <3>3
  <2> QED
    BY <2>1, <2>2, <2>4, <2>5 DEF m
<1> QED
  BY <1>1, <1>2

-----------------------------------------------------------------------------
(* Move.toml, read as a whole: the model's operators of its lines, as      *)
(* operators of any sequence of lines.                                     *)

HeadersTo(ls, k) == {j \in 1..k : "table" \in DOMAIN ls[j]}
TableOf(ls, k) ==
    IF HeadersTo(ls, k) = {} THEN ""
    ELSE ls[LastOf(HeadersTo(ls, k))].table

PairsOf(ls, table, n) ==
    {k \in DOMAIN ls : /\ TableOf(ls, k) = table /\ "key" \in DOMAIN ls[k]
                       /\ ls[k].key = n /\ ls[k].value \in Addrs}
ValueIn(ls, table, n) ==
    IF PairsOf(ls, table, n) = {} THEN None
    ELSE ls[LastOf(PairsOf(ls, table, n))].value

PairsTwice(ls, table, n) == \E j, k \in PairsOf(ls, table, n) : j # k

PoliciesOf(ls) == {k \in DOMAIN ls : "policy" \in DOMAIN ls[k] /\ TableOf(ls, k) = "package"}
PolicyIn(ls) ==
    IF PoliciesOf(ls) = {} THEN "Immutable"
    ELSE Plan!PolicyOf(ls[LastOf(PoliciesOf(ls))].policy)

(* They are the model's.                                                   *)
LEMMA WrittenLines ==
  /\ \A k : Plan!TableAt(k) = TableOf(lines, k)
  /\ \A table, n : Plan!WrittenIn(table, n) = ValueIn(lines, table, n)
  /\ \A table, n : Plan!WrittenTwice(table, n) <=> PairsTwice(lines, table, n)
<1>1. \A k : Plan!TableAt(k) = TableOf(lines, k)
  BY DEF Plan!TableAt, Plan!IsHeader, TableOf, HeadersTo, LastOf
<1>2. ASSUME NEW table, NEW n PROVE Plan!WritingLines(table, n) = PairsOf(lines, table, n)
  BY <1>1 DEF Plan!WritingLines, PairsOf
<1>3. ASSUME NEW table, NEW n PROVE Plan!WrittenIn(table, n) = ValueIn(lines, table, n)
  BY DEF Plan!WrittenIn, Plan!WritingLines, Plan!TableAt, Plan!IsHeader,
         ValueIn, PairsOf, TableOf, HeadersTo, LastOf
<1>4. ASSUME NEW table, NEW n PROVE Plan!WrittenTwice(table, n) <=> PairsTwice(lines, table, n)
  BY <1>2 DEF Plan!WrittenTwice, PairsTwice
<1> QED
  BY <1>1, <1>3, <1>4

(* A line is a table's header, a pair, or a policy, and only one of them.  *)
LEMMA LineShapes ==
  ASSUME NEW line \in Plan!Line
  PROVE  \/ /\ DOMAIN line = {"table"}
            /\ line.table \in {"package", "addresses", "dev-addresses", "dependencies"}
         \/ DOMAIN line = {"key", "value"} /\ line.key \in Names
         \/ DOMAIN line = {"policy"}
BY DEF Plan!Line, Plan!Tables

(* Reading one more line: the lines above keep their tables, and the new   *)
(* one stands in the table of the last header.                             *)
LEMMA AppendedTable ==
  ASSUME NEW ls \in Seq(Plan!Line), NEW line \in Plan!Line
  PROVE  /\ \A k \in 0..Len(ls) : TableOf(Append(ls, line), k) = TableOf(ls, k)
         /\ TableOf(Append(ls, line), Len(ls) + 1)
              = IF "table" \in DOMAIN line THEN line.table ELSE TableOf(ls, Len(ls))
<1> DEFINE m == Append(ls, line)
           n == Len(ls)
<1>1. /\ n \in Nat /\ DOMAIN ls = 1..n /\ DOMAIN m = 1..(n + 1)
      /\ m[n + 1] = line /\ \A j \in 1..n : m[j] = ls[j]
  OBVIOUS
<1> HIDE DEF m, n
<1>2. ASSUME NEW k \in 0..n, NEW S, S = HeadersTo(ls, k), S # {}
      PROVE  LastOf(S) \in S /\ LastOf(S) \in 1..n
  <2>1. k \in Nat /\ S \subseteq 1..k /\ 1..k \subseteq 1..n
    BY <1>1, <1>2 DEF HeadersTo
  <2>2. PICK j : IsLast(j, S)
    BY <1>2, <2>1, LastExists
  <2>3. j \in S /\ LastOf(S) = j
    BY <2>1, <2>2, LastChosen DEF IsLast
  <2> QED
    BY <2>1, <2>3
<1>3. ASSUME NEW k \in 0..n PROVE TableOf(m, k) = TableOf(ls, k)
  <2>1. HeadersTo(m, k) = HeadersTo(ls, k)
    <3>1. \A j \in 1..k : m[j] = ls[j]
      BY <1>1
    <3> QED
      BY <3>1 DEF HeadersTo
  <2>2. CASE HeadersTo(ls, k) = {}
    BY <2>1, <2>2 DEF TableOf
  <2>3. CASE HeadersTo(ls, k) # {}
    <3>1. PICK j \in 1..n : LastOf(HeadersTo(ls, k)) = j
      BY <1>2, <2>3
    <3>2. TableOf(m, k) = m[j].table /\ TableOf(ls, k) = ls[j].table
      BY <2>1, <2>3, <3>1 DEF TableOf
    <3> QED
      BY <1>1, <3>2
  <2> QED
    BY <2>2, <2>3
<1>4. ASSUME "table" \in DOMAIN line PROVE TableOf(m, n + 1) = line.table
  <2>1. IsLast(n + 1, HeadersTo(m, n + 1))
    BY <1>1, <1>4 DEF IsLast, HeadersTo
  <2>2. HeadersTo(m, n + 1) \subseteq 1..(n + 1) /\ n + 1 \in Nat
    BY <1>1 DEF HeadersTo
  <2>3. n + 1 \in HeadersTo(m, n + 1)
    BY <2>1 DEF IsLast
  <2>4. LastOf(HeadersTo(m, n + 1)) = n + 1
    BY <2>1, <2>2, LastChosen
  <2> QED
    BY <1>1, <2>3, <2>4 DEF TableOf
<1>5. ASSUME "table" \notin DOMAIN line PROVE TableOf(m, n + 1) = TableOf(ls, n)
  <2>1. HeadersTo(m, n + 1) = HeadersTo(m, n)
    <3>1. \A j : j \in 1..(n + 1) <=> j \in 1..n \/ j = n + 1
      BY <1>1
    <3> QED
      BY <1>1, <1>5, <3>1 DEF HeadersTo
  <2>2. TableOf(m, n + 1) = TableOf(m, n)
    BY <2>1 DEF TableOf
  <2> QED
    BY <1>1, <1>3, <2>2
<1> QED
  BY <1>3, <1>4, <1>5 DEF m, n

(* One more position is the last; the last of fewer is among them.         *)
LEMMA LastOfMore ==
  ASSUME NEW n \in Nat, NEW S, S \subseteq 1..n
  PROVE  /\ LastOf(S \cup {n + 1}) = n + 1
         /\ S # {} => LastOf(S) \in S /\ LastOf(S) \in 1..n
<1>1. IsLast(n + 1, S \cup {n + 1})
  BY DEF IsLast
<1>2. S \cup {n + 1} \subseteq 1..(n + 1) /\ n + 1 \in Nat
  OBVIOUS
<1>3. LastOf(S \cup {n + 1}) = n + 1
  BY <1>1, <1>2, LastChosen
<1>4. ASSUME S # {} PROVE LastOf(S) \in S
  <2>1. PICK k : IsLast(k, S)
    BY <1>4, LastExists
  <2>2. LastOf(S) = k
    BY <2>1, LastChosen
  <2> QED
    BY <2>1, <2>2 DEF IsLast
<1> QED
  BY <1>3, <1>4

(* A line that gives n an address in a table, after the lines ls.          *)
Gives(ls, line, table, n) ==
    /\ "key" \in DOMAIN line /\ TableOf(ls, Len(ls)) = table
    /\ line.key = n /\ line.value \in Addrs

(* What Move.toml says for a name changes with a pair of its table whose   *)
(* value is an address, and with no other line.                            *)
LEMMA AppendedValue ==
  ASSUME NEW ls \in Seq(Plan!Line), NEW line \in Plan!Line, NEW table, NEW n
  PROVE  /\ ValueIn(Append(ls, line), table, n)
              = IF Gives(ls, line, table, n) THEN line.value ELSE ValueIn(ls, table, n)
         /\ PairsOf(Append(ls, line), table, n) # {} <=> Gives(ls, line, table, n) \/ PairsOf(ls, table, n) # {}
         /\ PairsTwice(Append(ls, line), table, n)
              <=> PairsTwice(ls, table, n) \/ (Gives(ls, line, table, n) /\ PairsOf(ls, table, n) # {})
<1> DEFINE m == Append(ls, line)
           len == Len(ls)
           hit == Gives(ls, line, table, n)
           S == PairsOf(ls, table, n)
           T == PairsOf(m, table, n)
<1>1. /\ len \in Nat /\ DOMAIN ls = 1..len /\ DOMAIN m = 1..(len + 1)
      /\ m[len + 1] = line /\ \A j \in 1..len : m[j] = ls[j]
  OBVIOUS
<1>2. /\ \A k \in 1..len : TableOf(m, k) = TableOf(ls, k)
      /\ "key" \in DOMAIN line => TableOf(m, len + 1) = TableOf(ls, len)
  <2>1. "key" \in DOMAIN line => "table" \notin DOMAIN line
    BY LineShapes
  <2> QED
    BY <2>1, AppendedTable
<1> HIDE DEF m, len
<1>3. \A k : k \in T <=> k \in S \/ (k = len + 1 /\ hit)
  <2>1. ASSUME NEW k \in 1..len PROVE k \in T <=> k \in S
    BY <1>1, <1>2, <2>1 DEF PairsOf
  <2>2. len + 1 \in T <=> hit
    BY <1>1, <1>2 DEF PairsOf, Gives, len
  <2>3. S \subseteq 1..len /\ T \subseteq 1..(len + 1) /\ len + 1 \notin 1..len
    BY <1>1 DEF PairsOf
  <2>4. \A k : k \in 1..(len + 1) <=> k \in 1..len \/ k = len + 1
    BY <1>1
  <2> HIDE DEF S, T, hit
  <2> QED
    BY <2>1, <2>2, <2>3, <2>4
<1>4. S \subseteq 1..len
  BY <1>1 DEF PairsOf
<1>5. ASSUME hit PROVE ValueIn(m, table, n) = line.value
  <2>1. T = S \cup {len + 1}
    <3> HIDE DEF S, T, hit
    <3> QED
      BY <1>3, <1>5
  <2>2. LastOf(T) = len + 1 /\ T # {}
    BY <1>1, <1>4, <2>1, LastOfMore
  <2> QED
    BY <1>1, <2>2 DEF ValueIn
<1>6. ASSUME ~hit PROVE ValueIn(m, table, n) = ValueIn(ls, table, n)
  <2>1. T = S
    <3> HIDE DEF S, T, hit
    <3> QED
      BY <1>3, <1>6
  <2>2. S # {} => m[LastOf(S)] = ls[LastOf(S)]
    BY <1>1, <1>4, LastOfMore
  <2> QED
    BY <2>1, <2>2 DEF ValueIn
<1>7. T # {} <=> hit \/ S # {}
  <2> HIDE DEF S, T, hit
  <2> QED
    BY <1>3
<1>8. PairsTwice(m, table, n) <=> PairsTwice(ls, table, n) \/ (hit /\ S # {})
  <2>1. \A k \in S : k # len + 1
    BY <1>1, <1>4
  <2>2. (\E j, k \in T : j # k) <=> (\E j, k \in S : j # k) \/ (hit /\ S # {})
    <3> HIDE DEF S, T, hit
    <3> QED
      BY <1>3, <2>1
  <2> QED
    BY <2>2 DEF PairsTwice
<1> QED
  BY <1>5, <1>6, <1>7, <1>8 DEF m, len

(* The upgrade policy of Move.toml changes with a policy in [package].     *)
LEMMA AppendedPolicy ==
  ASSUME NEW ls \in Seq(Plan!Line), NEW line \in Plan!Line
  PROVE  PolicyIn(Append(ls, line))
           = IF "policy" \in DOMAIN line /\ TableOf(ls, Len(ls)) = "package"
             THEN Plan!PolicyOf(line.policy) ELSE PolicyIn(ls)
<1> DEFINE m == Append(ls, line)
           len == Len(ls)
           hit == "policy" \in DOMAIN line /\ TableOf(ls, len) = "package"
           S == PoliciesOf(ls)
           T == PoliciesOf(m)
<1>1. /\ len \in Nat /\ DOMAIN ls = 1..len /\ DOMAIN m = 1..(len + 1)
      /\ m[len + 1] = line /\ \A j \in 1..len : m[j] = ls[j]
  OBVIOUS
<1>2. /\ \A k \in 1..len : TableOf(m, k) = TableOf(ls, k)
      /\ "policy" \in DOMAIN line => TableOf(m, len + 1) = TableOf(ls, len)
  <2>1. "policy" \in DOMAIN line => "table" \notin DOMAIN line
    BY LineShapes
  <2> QED
    BY <2>1, AppendedTable
<1> HIDE DEF m, len
<1>3. \A k : k \in T <=> k \in S \/ (k = len + 1 /\ hit)
  <2>1. ASSUME NEW k \in 1..len PROVE k \in T <=> k \in S
    BY <1>1, <1>2, <2>1 DEF PoliciesOf
  <2>2. len + 1 \in T <=> hit
    BY <1>1, <1>2 DEF PoliciesOf
  <2>3. S \subseteq 1..len /\ T \subseteq 1..(len + 1) /\ len + 1 \notin 1..len
    BY <1>1 DEF PoliciesOf
  <2>4. \A k : k \in 1..(len + 1) <=> k \in 1..len \/ k = len + 1
    BY <1>1
  <2> HIDE DEF S, T, hit
  <2> QED
    BY <2>1, <2>2, <2>3, <2>4
<1>4. S \subseteq 1..len
  BY <1>1 DEF PoliciesOf
<1>5. ASSUME hit PROVE PolicyIn(m) = Plan!PolicyOf(line.policy)
  <2>1. T = S \cup {len + 1}
    <3> HIDE DEF S, T
    <3> QED
      BY <1>3, <1>5
  <2>2. LastOf(T) = len + 1 /\ T # {}
    BY <1>1, <1>4, <2>1, LastOfMore
  <2> QED
    BY <1>1, <2>2 DEF PolicyIn
<1>6. ASSUME ~hit PROVE PolicyIn(m) = PolicyIn(ls)
  <2>1. T = S
    <3> HIDE DEF S, T, hit
    <3> QED
      BY <1>3, <1>6
  <2>2. S # {} => m[LastOf(S)] = ls[LastOf(S)]
    BY <1>1, <1>4, LastOfMore
  <2> QED
    BY <2>1, <2>2 DEF PolicyIn
<1> QED
  BY <1>5, <1>6 DEF m, len

-----------------------------------------------------------------------------
(* The invariant of the plan.  list holds what the lines read so far say   *)
(* in a table, and lists twice what they say twice.                        *)

ListsTable(ls, list, table) ==
    /\ list \in Seq(Assignment)
    /\ \A n \in Names :
        /\ Plan!LastAddress(list, n) = ValueIn(ls, table, n)
        /\ Plan!Assigns(list, n) <=> PairsOf(ls, table, n) # {}
        /\ Twice(list, n) <=> PairsTwice(ls, table, n)

TomlInv ==
    /\ lines \in Seq(Plan!Line)
    /\ section = TableOf(lines, Len(lines))
    /\ policy = PolicyIn(lines)
    /\ ListsTable(lines, addresses, "addresses")
    /\ ListsTable(lines, devAddresses, "dev-addresses")

(* merged_named_addresses after next - 1 of the options.                   *)
MergedSoFar ==
    /\ options = IF Plan!HasStd THEN cli ELSE Append(cli, [name |-> Std, address |-> StdAddr])
    /\ merged \in Seq(Assignment)
    /\ next \in 1..(Len(options) + 1)
    /\ \A n : Twice(merged, n) <=> Twice(Plan!TomlAddresses, n)
    /\ \A n \in Names :
        Plan!LastAddress(merged, n) =
            IF /\ Plan!LastAddress(SubSeq(options, 1, next - 1), n) # None
               /\ ~Twice(Plan!TomlAddresses, n)
            THEN Plan!LastAddress(SubSeq(options, 1, next - 1), n)
            ELSE Plan!LastAddress(Plan!TomlAddresses, n)

PlanInv ==
    /\ TomlInv
    /\ cli \in Seq(Assignment)
    /\ phase \in {"toml", "cli"} => next = 1
    /\ phase \in {"merge", "done"} => MergedSoFar
    /\ phase = "done" => next > Len(options)

(* inspect_move_toml's list of a table stays what the lines say.           *)
LEMMA ListsMore ==
  ASSUME NEW ls \in Seq(Plan!Line), NEW line \in Plan!Line,
         NEW table, NEW list, ListsTable(ls, list, table)
  PROVE  ListsTable(Append(ls, line),
                    IF "key" \in DOMAIN line /\ TableOf(ls, Len(ls)) = table
                    THEN Plan!PushNamedAddress(list, line) ELSE list,
                    table)
<1> DEFINE m == Append(ls, line)
           here == "key" \in DOMAIN line /\ TableOf(ls, Len(ls)) = table
           taken == here /\ line.value \in Addrs
           e == [name |-> line.key, address |-> line.value]
           new == IF taken THEN Append(list, e) ELSE list
<1>1. (IF here THEN Plan!PushNamedAddress(list, line) ELSE list) = new
  BY DEF Plan!PushNamedAddress
<1>2. "key" \in DOMAIN line => line.key \in Names
  BY LineShapes
<1>3. /\ list \in Seq(Assignment)
      /\ taken => e \in Assignment /\ e.name = line.key /\ e.address = line.value
  BY <1>2 DEF Assignment, ListsTable
<1>4. ASSUME NEW n \in Names
      PROVE  /\ Plan!LastAddress(list, n) = ValueIn(ls, table, n)
             /\ Plan!Assigns(list, n) <=> PairsOf(ls, table, n) # {}
             /\ Twice(list, n) <=> PairsTwice(ls, table, n)
  BY DEF ListsTable
<1>5. ASSUME NEW n \in Names
      PROVE  /\ ValueIn(m, table, n)
                  = IF taken /\ line.key = n THEN line.value ELSE ValueIn(ls, table, n)
             /\ PairsOf(m, table, n) # {} <=> (taken /\ line.key = n) \/ PairsOf(ls, table, n) # {}
             /\ PairsTwice(m, table, n)
                  <=> PairsTwice(ls, table, n)
                      \/ (taken /\ line.key = n /\ PairsOf(ls, table, n) # {})
  <2>1. Gives(ls, line, table, n) <=> taken /\ line.key = n
    BY DEF Gives
  <2> HIDE DEF taken, m
  <2> QED
    BY <2>1, AppendedValue DEF m
<1> HIDE DEF m
<1>6. CASE taken
  <2>1. e \in Assignment /\ e.name = line.key /\ e.address = line.value /\ new = Append(list, e)
    BY <1>3, <1>6
  <2> HIDE DEF e, new, taken
  <2>2. /\ new \in Seq(Assignment)
        /\ \A n : /\ Plan!Assigns(new, n) <=> Plan!Assigns(list, n) \/ e.name = n
                  /\ Plan!LastAddress(new, n)
                       = IF e.name = n THEN e.address ELSE Plan!LastAddress(list, n)
                  /\ Twice(new, n) <=> Twice(list, n) \/ (e.name = n /\ Plan!Assigns(list, n))
    BY <1>3, <2>1, AppendedAddress, AppendedTwice
  <2>3. ListsTable(m, new, table)
    BY <1>4, <1>5, <1>6, <2>1, <2>2 DEF ListsTable
  <2> QED
    BY <1>1, <2>3 DEF m, here
<1>7. CASE ~taken
  <2>1. new = list
    BY <1>7
  <2> HIDE DEF taken, new
  <2>2. ListsTable(m, new, table)
    BY <1>3, <1>4, <1>5, <1>7, <2>1 DEF ListsTable
  <2> QED
    BY <1>1, <2>2 DEF m, here
<1> QED
  BY <1>6, <1>7

(* inspect_move_toml reads a line.                                         *)
LEMMA ReadLineKeeps ==
  ASSUME PlanInv, NEW line \in Plan!Line, Plan!ReadLine(line)
  PROVE  PlanInv'
<1>1. /\ phase = "toml" /\ phase' = phase /\ cli' = cli /\ next' = next
      /\ lines' = Append(lines, line)
  BY DEF Plan!ReadLine
<1>2. TomlInv
  BY DEF PlanInv
<1>3. lines \in Seq(Plan!Line) /\ section = TableOf(lines, Len(lines)) /\ policy = PolicyIn(lines)
  BY <1>2 DEF TomlInv
<1>4. lines' \in Seq(Plan!Line) /\ Len(lines') = Len(lines) + 1
  BY <1>1, <1>3
<1>5. section' = TableOf(lines', Len(lines'))
  BY <1>1, <1>3, <1>4, AppendedTable DEF Plan!ReadLine
<1>6. policy' = PolicyIn(lines')
  BY <1>1, <1>3, AppendedPolicy DEF Plan!ReadLine
<1>7. ListsTable(lines', addresses', "addresses")
  <2>1. ListsTable(lines, addresses, "addresses")
    BY <1>2 DEF TomlInv
  <2>2. addresses' = IF "key" \in DOMAIN line /\ TableOf(lines, Len(lines)) = "addresses"
                     THEN Plan!PushNamedAddress(addresses, line) ELSE addresses
    BY <1>3 DEF Plan!ReadLine
  <2> QED
    BY <1>1, <1>3, <2>1, <2>2, ListsMore
<1>8. ListsTable(lines', devAddresses', "dev-addresses")
  <2>1. ListsTable(lines, devAddresses, "dev-addresses")
    BY <1>2 DEF TomlInv
  <2>2. devAddresses' = IF "key" \in DOMAIN line /\ TableOf(lines, Len(lines)) = "dev-addresses"
                        THEN Plan!PushNamedAddress(devAddresses, line) ELSE devAddresses
    BY <1>3 DEF Plan!ReadLine
  <2> QED
    BY <1>1, <1>3, <2>1, <2>2, ListsMore
<1>9. TomlInv'
  BY <1>4, <1>5, <1>6, <1>7, <1>8 DEF TomlInv
<1> QED
  BY <1>1, <1>9 DEF PlanInv

(* The list Move.toml hands on is one of the two tables'.                  *)
LEMMA TomlListed ==
  ASSUME TomlInv
  PROVE  Plan!TomlAddresses \in Seq(Assignment)
BY DEF TomlInv, ListsTable, Plan!TomlAddresses

(* The options are those of the command line and, if nothing assigns std,  *)
(* the default for it.                                                     *)
LEMMA OptionsType ==
  ASSUME Plan!BuildPlanAssumption, PlanInv, phase \in {"merge", "done"}
  PROVE  options \in Seq(Assignment)
<1>1. [name |-> Std, address |-> StdAddr] \in Assignment
  BY DEF Plan!BuildPlanAssumption, Assignment
<1>2. cli \in Seq(Assignment) /\ (options = cli \/ options = Append(cli, [name |-> Std, address |-> StdAddr]))
  BY DEF PlanInv, MergedSoFar
<1> QED
  BY <1>1, <1>2

(* build_package starts to merge.                                          *)
LEMMA StartMergeKeeps ==
  ASSUME Plan!BuildPlanAssumption, PlanInv, Plan!StartMerge
  PROVE  PlanInv'
<1>1. /\ phase = "cli" /\ phase' = "merge" /\ next' = next /\ merged' = Plan!TomlAddresses
      /\ options' = IF Plan!HasStd THEN cli ELSE Append(cli, [name |-> Std, address |-> StdAddr])
      /\ UNCHANGED <<lines, section, policy, addresses, devAddresses, cli>>
  BY DEF Plan!StartMerge
<1>2. Plan!HasStd' = Plan!HasStd /\ Plan!TomlAddresses' = Plan!TomlAddresses
  BY <1>1 DEF Plan!HasStd, Plan!TomlAddresses, Plan!Assigns
<1>3. TomlInv /\ cli \in Seq(Assignment) /\ next = 1
  BY <1>1 DEF PlanInv
<1>4. TomlInv'
  BY <1>1, <1>3 DEF TomlInv
<1>5. merged' \in Seq(Assignment)
  BY <1>1, <1>3, TomlListed
<1>6. [name |-> Std, address |-> StdAddr] \in Assignment
  BY DEF Plan!BuildPlanAssumption, Assignment
<1>7. options' \in Seq(Assignment)
  BY <1>1, <1>3, <1>6
<1>8. next' \in 1..(Len(options') + 1)
  BY <1>1, <1>3, <1>7
<1>9. SubSeq(options', 1, next' - 1) = <<>>
  BY <1>1, <1>3, <1>7
<1>10. ASSUME NEW n PROVE Plan!LastAddress(<<>>, n) = None
  BY DEF Plan!LastAddress, Plan!Assigns
<1>11. MergedSoFar'
  BY <1>1, <1>2, <1>5, <1>8, <1>9, <1>10 DEF MergedSoFar
<1> QED
  BY <1>1, <1>3, <1>4, <1>11 DEF PlanInv

(* One option is merged.                                                   *)
LEMMA MergeOverrideKeeps ==
  ASSUME Plan!BuildPlanAssumption, PlanInv, Plan!MergeOverride
  PROVE  PlanInv'
<1>1. /\ phase = "merge" /\ phase' = phase /\ next <= Len(options) /\ next' = next + 1
      /\ merged' = Plan!Put(merged, options[next])
      /\ UNCHANGED <<lines, section, policy, addresses, devAddresses, cli, options>>
  BY DEF Plan!MergeOverride
<1>2. Plan!HasStd' = Plan!HasStd /\ Plan!TomlAddresses' = Plan!TomlAddresses
  BY <1>1 DEF Plan!HasStd, Plan!TomlAddresses, Plan!Assigns
<1>3. TomlInv /\ cli \in Seq(Assignment) /\ MergedSoFar
  BY <1>1 DEF PlanInv
<1>4. TomlInv'
  BY <1>1, <1>3 DEF TomlInv
<1>5. options \in Seq(Assignment) /\ next \in 1..Len(options)
  BY <1>1, <1>3, OptionsType DEF MergedSoFar
<1> DEFINE e == options[next]
           done == SubSeq(options, 1, next - 1)
<1>6. e \in Assignment
  BY <1>5
<1>7. done \in Seq(Assignment) /\ SubSeq(options, 1, next) = Append(done, e)
  BY <1>5
<1>8. next' - 1 = next
  BY <1>1, <1>5
<1> HIDE DEF e, done
<1>9. /\ merged \in Seq(Assignment)
      /\ \A n : Twice(merged, n) <=> Twice(Plan!TomlAddresses, n)
      /\ \A n \in Names : Plan!LastAddress(merged, n) =
            IF Plan!LastAddress(done, n) # None /\ ~Twice(Plan!TomlAddresses, n)
            THEN Plan!LastAddress(done, n) ELSE Plan!LastAddress(Plan!TomlAddresses, n)
  BY <1>3 DEF MergedSoFar, done
<1>10. /\ merged' \in Seq(Assignment)
       /\ \A n : Twice(merged', n) <=> Twice(Plan!TomlAddresses, n)
       /\ \A n : Plan!LastAddress(merged', n)
                   = IF e.name = n /\ ~Twice(Plan!TomlAddresses, n) THEN e.address ELSE Plan!LastAddress(merged, n)
  BY <1>1, <1>6, <1>9, PutAddress DEF e
<1>11. \A n : Plan!LastAddress(Append(done, e), n)
                = IF e.name = n THEN e.address ELSE Plan!LastAddress(done, n)
  BY <1>6, <1>7, AppendedAddress
<1>12. e.address # None
  BY <1>6 DEF Assignment, Plan!BuildPlanAssumption
<1>13. \A n \in Names : Plan!LastAddress(merged', n) =
            IF Plan!LastAddress(Append(done, e), n) # None /\ ~Twice(Plan!TomlAddresses, n)
            THEN Plan!LastAddress(Append(done, e), n) ELSE Plan!LastAddress(Plan!TomlAddresses, n)
  BY <1>9, <1>10, <1>11, <1>12
<1>14. SubSeq(options', 1, next' - 1) = Append(done, e)
  BY <1>1, <1>7, <1>8
<1>15. next' \in 1..(Len(options') + 1)
  BY <1>1, <1>5
<1>16. MergedSoFar'
  BY <1>1, <1>2, <1>3, <1>10, <1>13, <1>14, <1>15 DEF MergedSoFar
<1> QED
  BY <1>1, <1>3, <1>4, <1>16 DEF PlanInv

(* The steps that move to the next phase, or add an assignment.            *)
LEMMA PhaseKeeps ==
  ASSUME PlanInv,
         \/ Plan!EndOfToml \/ Plan!EndMerge \/ UNCHANGED Plan!vars
         \/ \E n \in Names, v \in Plan!Values : Plan!ParseAssignment(n, v)
  PROVE  PlanInv'
<1>1. TomlInv /\ cli \in Seq(Assignment)
  BY DEF PlanInv
<1>2. UNCHANGED <<lines, section, policy, addresses, devAddresses, options, merged, next>>
  BY DEF Plan!EndOfToml, Plan!EndMerge, Plan!ParseAssignment, Plan!vars
<1>3. TomlInv'
  BY <1>1, <1>2 DEF TomlInv
<1>4. CASE \E n \in Names, v \in Plan!Values : Plan!ParseAssignment(n, v)
  <2>1. PICK n \in Names, v \in Plan!Values : Plan!ParseAssignment(n, v)
    BY <1>4
  <2>2. phase = "cli" /\ phase' \in {"cli", "err"}
    BY <2>1 DEF Plan!ParseAssignment
  <2>3. cli' \in Seq(Assignment)
    <3>1. CASE v \in Addrs
      <4>1. [name |-> n, address |-> v] \in Assignment
        BY <3>1 DEF Assignment
      <4> QED
        BY <1>1, <2>1, <3>1, <4>1 DEF Plan!ParseAssignment
    <3>2. CASE v \notin Addrs
      BY <1>1, <2>1, <3>2 DEF Plan!ParseAssignment
    <3> QED
      BY <3>1, <3>2
  <2> QED
    BY <1>2, <1>3, <2>2, <2>3 DEF PlanInv
<1>5. CASE Plan!EndOfToml \/ Plan!EndMerge \/ UNCHANGED Plan!vars
  <2>1. cli' = cli
    BY <1>5 DEF Plan!EndOfToml, Plan!EndMerge, Plan!vars
  <2>2. MergedSoFar => MergedSoFar'
    <3>1. Plan!HasStd' = Plan!HasStd /\ Plan!TomlAddresses' = Plan!TomlAddresses
      BY <1>2, <2>1 DEF Plan!HasStd, Plan!TomlAddresses, Plan!Assigns
    <3> QED
      BY <1>2, <2>1, <3>1 DEF MergedSoFar
  <2>3. \/ phase = "toml" /\ phase' = "cli"
        \/ phase = "merge" /\ phase' = "done" /\ next > Len(options)
        \/ phase' = phase
    BY <1>5 DEF Plan!EndOfToml, Plan!EndMerge, Plan!vars
  <2> QED
    BY <1>1, <1>2, <1>3, <2>1, <2>2, <2>3 DEF PlanInv
<1> QED
  BY <1>4, <1>5

(* Nothing has been read.                                                  *)
LEMMA PlanInit ==
  Plan!Init => PlanInv
<1> SUFFICES ASSUME Plan!Init PROVE PlanInv
  OBVIOUS
<1>1. /\ lines = <<>> /\ section = "" /\ policy = "Immutable" /\ addresses = <<>>
      /\ devAddresses = <<>> /\ cli = <<>> /\ next = 1 /\ phase = "toml"
  BY DEF Plan!Init
<1>2. TableOf(<<>>, 0) = ""
  BY DEF TableOf, HeadersTo
<1>3. PolicyIn(<<>>) = "Immutable"
  BY DEF PolicyIn, PoliciesOf
<1>4. \A table, n : /\ ValueIn(<<>>, table, n) = None /\ PairsOf(<<>>, table, n) = {}
                    /\ ~PairsTwice(<<>>, table, n)
  BY DEF ValueIn, PairsOf, PairsTwice
<1>5. \A n : /\ ~Plan!Assigns(<<>>, n) /\ Plan!LastAddress(<<>>, n) = None
             /\ ~Twice(<<>>, n)
  BY DEF Plan!Assigns, Plan!LastAddress, Twice
<1>6. \A table : ListsTable(<<>>, <<>>, table)
  BY <1>4, <1>5 DEF ListsTable
<1>7. lines \in Seq(Plan!Line) /\ Len(lines) = 0 /\ cli \in Seq(Assignment)
  <2>1. \A S : <<>> \in Seq(S) /\ Len(<<>>) = 0
    OBVIOUS
  <2> QED
    BY <1>1, <2>1
<1>8. section = TableOf(lines, Len(lines)) /\ policy = PolicyIn(lines)
  BY <1>1, <1>2, <1>3, <1>7
<1>9. TomlInv
  BY <1>1, <1>6, <1>7, <1>8 DEF TomlInv
<1>10. phase = "toml" /\ next = 1
  BY <1>1
<1> QED
  BY <1>7, <1>9, <1>10 DEF PlanInv

(* The plan keeps its invariant: at every line, assignment and override    *)
(* the lists hold the last address written so far.                         *)
LEMMA PlanInvariance ==
  ASSUME Plan!BuildPlanAssumption
  PROVE  Plan!Spec => []PlanInv
<1>1. PlanInv /\ [Plan!Next]_(Plan!vars) => PlanInv'
  <2> SUFFICES ASSUME PlanInv, [Plan!Next]_(Plan!vars) PROVE PlanInv'
    OBVIOUS
  <2>1. CASE \E line \in Plan!Line : Plan!ReadLine(line)
    BY <2>1, ReadLineKeeps
  <2>2. CASE Plan!StartMerge
    BY <2>2, StartMergeKeeps
  <2>3. CASE Plan!MergeOverride
    BY <2>3, MergeOverrideKeeps
  <2>4. CASE \/ Plan!EndOfToml \/ Plan!EndMerge \/ UNCHANGED Plan!vars
             \/ \E n \in Names, v \in Plan!Values : Plan!ParseAssignment(n, v)
    BY <2>4, PhaseKeeps
  <2> QED
    BY <2>1, <2>2, <2>3, <2>4 DEF Plan!Next
<1> QED
  BY <1>1, PlanInit, PTL DEF Plan!Spec

(* The table Move.toml's addresses come from is the one the rule names:    *)
(* [dev-addresses] if it assigns any address.                              *)
LEMMA TomlSays ==
  ASSUME Plan!BuildPlanAssumption, TomlInv, NEW n \in Names
  PROVE  /\ Plan!LastAddress(Plan!TomlAddresses, n) = Plan!WrittenIn(Plan!UsedTable, n)
         /\ Twice(Plan!TomlAddresses, n) <=> Plan!WrittenTwice(Plan!UsedTable, n)
<1>1. None \notin Addrs
  BY DEF Plan!BuildPlanAssumption
<1>2. /\ devAddresses \in Seq(Assignment)
      /\ \A m \in Names : Plan!LastAddress(devAddresses, m) = ValueIn(lines, "dev-addresses", m)
      /\ \A m \in Names : Plan!LastAddress(addresses, m) = ValueIn(lines, "addresses", m)
      /\ Twice(devAddresses, n) <=> PairsTwice(lines, "dev-addresses", n)
      /\ Twice(addresses, n) <=> PairsTwice(lines, "addresses", n)
  BY DEF TomlInv, ListsTable
<1>3. (\E m \in Names : Plan!WrittenIn("dev-addresses", m) # None) <=> devAddresses # <<>>
  <2>1. \A m \in Names : Plan!WrittenIn("dev-addresses", m) # None
                           <=> Plan!Assigns(devAddresses, m)
    BY <1>1, <1>2, LastAddressType, WrittenLines
  <2>2. devAddresses # <<>> => devAddresses[1] \in Assignment /\ 1 \in DOMAIN devAddresses
    BY <1>2
  <2>3. devAddresses # <<>> => \E m \in Names : Plan!Assigns(devAddresses, m)
    BY <2>2 DEF Plan!Assigns, Assignment
  <2>4. devAddresses = <<>> => \A m : ~Plan!Assigns(devAddresses, m)
    BY DEF Plan!Assigns
  <2> QED
    BY <2>1, <2>3, <2>4
<1>4. Plan!UsedTable = IF devAddresses # <<>> THEN "dev-addresses" ELSE "addresses"
  BY <1>3 DEF Plan!UsedTable
<1> QED
  BY <1>2, <1>4, WrittenLines DEF Plan!TomlAddresses

(* Every named address and the upgrade policy are compiled, and listed, as *)
(* the developer wrote them, for any Move.toml and any command line, but   *)
(* that a name written twice is not overridden.                            *)
LEMMA PlanCompiled ==
  ASSUME Plan!BuildPlanAssumption
  PROVE  Plan!Spec => []Plan!CompiledAsWritten
<1>1. ASSUME PlanInv PROVE Plan!CompiledAsWritten
  <2> SUFFICES ASSUME phase = "done" PROVE Plan!CompiledAsWritten
    BY DEF Plan!CompiledAsWritten
  <2>1. TomlInv /\ MergedSoFar /\ cli \in Seq(Assignment) /\ next > Len(options)
    BY <1>1 DEF PlanInv
  <2>2. options \in Seq(Assignment)
    BY <1>1, OptionsType
  <2>3. None \notin Addrs /\ Std \in Names /\ StdAddr \in Addrs
    BY DEF Plan!BuildPlanAssumption
  <2>4. next - 1 = Len(options)
    BY <2>1, <2>2 DEF MergedSoFar
  <2>5. SubSeq(options, 1, next - 1) = options
    BY <2>2, <2>4
  <2>6. Plan!TomlAddresses \in Seq(Assignment)
    BY <2>1, TomlListed
  <2>7. ASSUME NEW j \in DOMAIN merged, NEW k \in DOMAIN merged,
               merged[j].name = merged[k].name, j # k
        PROVE  Plan!WrittenTwice(Plan!UsedTable, merged[j].name)
    <3>1. Twice(merged, merged[j].name)
      BY <2>7 DEF Twice
    <3>2. merged[j] \in Assignment /\ Twice(Plan!TomlAddresses, merged[j].name)
      BY <2>1, <3>1 DEF MergedSoFar
    <3> QED
      BY <2>1, <3>2, TomlSays DEF Assignment
  <2>8. ASSUME NEW n \in Names
        PROVE  Plan!LastAddress(merged, n) =
                IF Plan!LastAddress(cli, n) # None /\ ~Plan!WrittenTwice(Plan!UsedTable, n)
                THEN Plan!LastAddress(cli, n)
                ELSE IF Plan!WrittenIn(Plan!UsedTable, n) # None
                     THEN Plan!WrittenIn(Plan!UsedTable, n)
                     ELSE IF n = Std THEN StdAddr ELSE None
    <3> DEFINE c == Plan!LastAddress(cli, n)
               w == Plan!WrittenIn(Plan!UsedTable, n)
               t == Plan!WrittenTwice(Plan!UsedTable, n)
               o == Plan!LastAddress(options, n)
    <3>1. Plan!LastAddress(merged, n) = IF o # None /\ ~t THEN o ELSE w
      BY <2>1, <2>5, TomlSays DEF MergedSoFar
    <3>2. t => w # None
      <4>1. t => Plan!Assigns(Plan!TomlAddresses, n)
        BY <2>1, TomlSays DEF Twice, Plan!Assigns
      <4> QED
        BY <2>1, <2>3, <2>6, <4>1, LastAddressType, TomlSays
    <3>3. CASE Plan!HasStd
      <4>1. o = c
        BY <2>1, <3>3 DEF MergedSoFar
      <4>2. n = Std => c # None \/ w # None
        BY <2>1, <2>3, <2>6, <3>3, LastAddressType, TomlSays DEF Plan!HasStd
      <4> HIDE DEF c, w, t, o
      <4>3. Plan!LastAddress(merged, n) =
               IF c # None /\ ~t THEN c ELSE IF w # None THEN w ELSE IF n = Std THEN StdAddr ELSE None
        BY <3>1, <3>2, <4>1, <4>2
      <4> QED
        BY <4>3 DEF c, w, t
    <3>4. CASE ~Plan!HasStd
      <4> DEFINE e == [name |-> Std, address |-> StdAddr]
      <4>1. options = Append(cli, e)
        BY <2>1, <3>4 DEF MergedSoFar
      <4>2. e \in Assignment /\ e.name = Std /\ e.address = StdAddr /\ StdAddr # None
        BY <2>3 DEF Assignment
      <4>3. n = Std => c = None /\ w = None
        BY <2>1, <2>3, <2>6, <3>4, LastAddressType, TomlSays DEF Plan!HasStd
      <4> HIDE DEF e, c, w, t, o
      <4>4. o = IF e.name = n THEN e.address ELSE c
        BY <2>1, <4>1, <4>2, AppendedAddress DEF c, o
      <4>5. Plan!LastAddress(merged, n) =
               IF c # None /\ ~t THEN c ELSE IF w # None THEN w ELSE IF n = Std THEN StdAddr ELSE None
        BY <3>1, <3>2, <4>2, <4>3, <4>4
      <4> QED
        BY <4>5 DEF c, w, t
    <3> QED
      BY <3>3, <3>4
  <2>9. LET at == {k \in DOMAIN lines : "policy" \in DOMAIN lines[k]
                                        /\ Plan!TableAt(k) = "package"}
        IN policy = IF at = {} THEN "Immutable"
                    ELSE Plan!PolicyOf(lines[CHOOSE k \in at : \A j \in at : j <= k].policy)
    <3>1. policy = PolicyIn(lines)
      BY <2>1 DEF TomlInv
    <3> QED
      BY <3>1 DEF PolicyIn, PoliciesOf, LastOf, TableOf, HeadersTo, Plan!TableAt, Plan!IsHeader
  <2> QED
    BY <2>7, <2>8, <2>9 DEF Plan!CompiledAsWritten
<1> QED
  BY <1>1, PlanInvariance, PTL

-----------------------------------------------------------------------------
(* Streams: the words that are laid one after the other.                   *)

(* Word k of ws begins after position e[k-1] of the stream v and ends at   *)
(* e[k].                                                                   *)
Joined(ws, e, v) ==
    /\ e[0] = 0 /\ Len(v) = e[Len(ws)]
    /\ \A k \in 1..Len(ws) :
         /\ e[k-1] \in Nat /\ e[k] = e[k-1] + Len(ws[k]) /\ e[k] <= Len(v)
         /\ \A i \in 1..Len(ws[k]) : v[e[k-1] + i] = ws[k][i]

(* FlattenSeq joins the words of a sequence.                               *)
LEMMA Flattened ==
  ASSUME NEW S, NEW ws \in Seq(Seq(S))
  PROVE  /\ Layout!FlattenSeq(ws) \in Seq(S)
         /\ \E e : Joined(ws, e, Layout!FlattenSeq(ws))
<1> DEFINE n == Len(ws)
           At(g, k) == IF k = 1 THEN ws[k] ELSE g[k-1] \o ws[k]
           Is(g, m) == g = [k \in 1..m |-> At(g, k)]
           Good == {m \in Nat : \E g : Is(g, m)}
<1>0. n \in Nat /\ \A k \in 1..n : ws[k] \in Seq(S) /\ Len(ws[k]) \in Nat
  OBVIOUS
<1>1. CASE n = 0
  <2>1. Layout!FlattenSeq(ws) = ws /\ ws = << >>
    BY <1>1 DEF Layout!FlattenSeq
  <2> DEFINE e == [k \in {0} |-> 0]
  <2>2. Joined(ws, e, ws)
    BY <1>1, <2>1 DEF Joined
  <2> QED
    BY <2>1, <2>2
<1>2. CASE n # 0
  <2>1. 0 \in Good
    <3> DEFINE g == [k \in 1..0 |-> 0]
    <3>1. Is(g, 0)
      OBVIOUS
    <3> HIDE DEF Is
    <3> QED
      BY <3>1
  <2>2. ASSUME NEW m \in Nat, m \in Good PROVE m + 1 \in Good
    <3>1. PICK g : Is(g, m)
      BY <2>2
    <3> DEFINE h == [k \in 1..(m+1) |-> At(g, k)]
    <3>2. \A k \in 1..m : g[k] = At(g, k)
      BY <3>1
    <3>3. \A k \in 1..m : h[k] = g[k]
      BY <3>2
    <3>4. ASSUME NEW k \in 1..(m+1) PROVE h[k] = At(h, k)
      <4>1. h[k] = At(g, k)
        OBVIOUS
      <4> HIDE DEF h
      <4>2. k # 1 => h[k-1] = g[k-1]
        <5>1. k # 1 => k - 1 \in 1..m
          OBVIOUS
        <5> QED
          BY <3>3, <5>1
      <4> QED
        BY <4>1, <4>2
    <3>5. Is(h, m + 1)
      BY <3>4
    <3> HIDE DEF Is
    <3> QED
      BY <3>5
  <2>3. Nat \subseteq Good
    <3> HIDE DEF Good
    <3> QED
      BY <2>1, <2>2, NatSetInduction
  <2>4. \E g : Is(g, n)
    BY <1>0, <2>3
  <2> DEFINE f == CHOOSE g : Is(g, n)
  <2>5. Is(f, n)
    <3> HIDE DEF Is
    <3> QED
      BY <2>4
  <2>6. Layout!FlattenSeq(ws) = f[n]
    BY <1>2 DEF Layout!FlattenSeq
  <2> HIDE DEF f
  <2>7. \A k \in 1..n : f[k] = At(f, k)
    BY <2>5
  <2>8. f[1] = ws[1] /\ \A k \in 1..n : k + 1 <= n => f[k+1] = f[k] \o ws[k+1]
    <3>1. ASSUME NEW k \in 1..n, k + 1 <= n PROVE f[k+1] = f[k] \o ws[k+1]
      <4>1. k + 1 \in 1..n /\ k + 1 # 1 /\ (k + 1) - 1 = k
        BY <1>0, <3>1
      <4> QED
        BY <2>7, <4>1
    <3>2. 1 \in 1..n
      BY <1>0, <1>2
    <3>3. f[1] = ws[1]
      BY <2>7, <3>2
    <3> QED
      BY <3>1, <3>3
  <2> DEFINE e == [k \in 0..n |-> IF k = 0 THEN 0 ELSE Len(f[k])]
             Fine(m) == /\ f[m] \in Seq(S)
                        /\ \A k \in 1..m :
                             /\ e[k-1] \in Nat /\ e[k] = e[k-1] + Len(ws[k]) /\ e[k] <= Len(f[m])
                             /\ \A i \in 1..Len(ws[k]) : f[m][e[k-1] + i] = ws[k][i]
             F == {m \in Nat : m + 1 <= n => Fine(m + 1)}
  <2>9. 0 \in F
    <3>1. f[1] = ws[1] /\ e[0] = 0 /\ e[1] = Len(f[1]) /\ ws[1] \in Seq(S)
      BY <1>0, <1>2, <2>8
    <3> HIDE DEF e
    <3> QED
      BY <3>1
  <2>10. ASSUME NEW m \in Nat, m \in F PROVE m + 1 \in F
    <3>0. (m + 1) + 1 = m + 2 /\ m + 1 \in Nat
      OBVIOUS
    <3> SUFFICES ASSUME m + 2 <= n PROVE Fine(m + 2)
      <4> HIDE DEF Fine
      <4> QED
        BY <3>0
    <3>1. /\ m + 1 \in 1..n /\ m + 2 \in 1..n /\ (m + 1) + 1 = m + 2 /\ (m + 2) - 1 = m + 1
          /\ m + 1 \in 0..n /\ m + 2 \in 0..n /\ m + 1 # 0 /\ m + 2 # 0
      BY <1>0
    <3>2. f[m+2] = f[m+1] \o ws[m+2]
      BY <2>8, <3>1
    <3>3. e[m+1] = Len(f[m+1]) /\ e[m+2] = Len(f[m+2])
      BY <3>1
    <3> HIDE DEF e
    <3>4. Fine(m + 1)
      BY <2>10, <3>1
    <3> DEFINE a == f[m+1]
               b == ws[m+2]
               c == f[m+2]
    <3>5. a \in Seq(S) /\ b \in Seq(S) /\ c = a \o b
      BY <1>0, <3>1, <3>2, <3>4
    <3> HIDE DEF a, b, c
    <3>6. /\ c \in Seq(S) /\ Len(c) = Len(a) + Len(b) /\ Len(a) \in Nat /\ Len(b) \in Nat
          /\ \A i \in 1..Len(a) : c[i] = a[i]
          /\ \A i \in 1..Len(b) : c[Len(a) + i] = b[i]
      BY <3>5
    <3>7. ASSUME NEW k \in 1..(m+1)
          PROVE  /\ e[k-1] \in Nat /\ e[k] = e[k-1] + Len(ws[k]) /\ e[k] <= Len(c)
                 /\ \A i \in 1..Len(ws[k]) : c[e[k-1] + i] = ws[k][i]
      <4>1. /\ e[k-1] \in Nat /\ e[k] = e[k-1] + Len(ws[k]) /\ e[k] <= Len(a)
            /\ \A i \in 1..Len(ws[k]) : a[e[k-1] + i] = ws[k][i]
        BY <3>4 DEF a
      <4>2. Len(ws[k]) \in Nat
        BY <1>0, <3>1
      <4> DEFINE p == e[k-1]
                 l == Len(ws[k])
                 la == Len(a)
      <4>3. \A i \in 1..l : p + i \in 1..la
        <5>1. p \in Nat /\ l \in Nat /\ la \in Nat /\ p + l <= la
          BY <3>6, <4>1, <4>2
        <5> HIDE DEF p, l, la
        <5> QED
          BY <5>1
      <4>4. \A i \in 1..Len(ws[k]) : c[e[k-1] + i] = ws[k][i]
        BY <3>6, <4>1, <4>3
      <4>5. e[k] <= Len(c)
        <5>1. e[k] \in Nat
          BY <4>1, <4>2
        <5> QED
          BY <3>6, <4>1, <5>1
      <4> QED
        BY <4>1, <4>4, <4>5
    <3>8. /\ e[m+1] \in Nat /\ e[m+2] = e[m+1] + Len(b) /\ e[m+2] <= Len(c)
          /\ \A i \in 1..Len(b) : c[e[m+1] + i] = b[i]
      <4>1. e[m+1] = Len(a) /\ e[m+2] = Len(c)
        BY <3>3 DEF a, c
      <4> QED
        BY <3>6, <4>1
    <3>9. ASSUME NEW k \in 1..(m+2)
          PROVE  /\ e[k-1] \in Nat /\ e[k] = e[k-1] + Len(ws[k]) /\ e[k] <= Len(c)
                 /\ \A i \in 1..Len(ws[k]) : c[e[k-1] + i] = ws[k][i]
      <4>1. CASE k \in 1..(m+1)
        BY <3>7, <4>1
      <4>2. CASE k = m + 2
        BY <3>1, <3>8, <4>2 DEF b
      <4> QED
        BY <4>1, <4>2
    <3> QED
      BY <3>6, <3>9 DEF c
  <2>11. Nat \subseteq F
    <3> HIDE DEF F
    <3> QED
      BY <2>9, <2>10, NatSetInduction
  <2>12. Fine(n)
    <3>1. n - 1 \in Nat /\ (n - 1) + 1 = n
      BY <1>0, <1>2
    <3>2. n - 1 \in F
      <4> HIDE DEF F
      <4> QED
        BY <2>11, <3>1
    <3>3. Fine((n - 1) + 1)
      <4> HIDE DEF Fine
      <4> QED
        BY <3>1, <3>2
    <3> HIDE DEF Fine
    <3> QED
      BY <3>1, <3>3
  <2>13. e[0] = 0 /\ e[n] = Len(f[n])
    BY <1>0, <1>2
  <2> HIDE DEF e
  <2>14. Joined(ws, e, f[n])
    BY <2>12, <2>13 DEF Joined
  <2> QED
    BY <2>6, <2>12, <2>14
<1> QED
  BY <1>1, <1>2

(* a and b agree as far as both go.                                        *)
Agree(a, b) == \A i \in 1..Len(a) : i <= Len(b) => a[i] = b[i]

(* In a prefix code no word begins another.                                *)
PrefixCode(C) ==
    /\ \A a \in C : Len(a) \in Nat \ {0}
    /\ \A a, b \in C : Agree(a, b) => a = b

(* In a prefix code streams that agree begin with the same words.          *)
LEMMA SameWords ==
  ASSUME NEW C, PrefixCode(C), NEW us \in Seq(C), NEW ws \in Seq(C),
         NEW v, NEW w, NEW d, NEW e, Joined(us, d, v), Joined(ws, e, w),
         Len(v) \in Nat, Len(w) \in Nat, Agree(v, w)
  PROVE  \A k \in Nat : k <= Len(us) /\ k <= Len(ws) =>
            d[k] = e[k] /\ \A j \in 1..k : us[j] = ws[j]
<1> DEFINE G == {k \in Nat : k <= Len(us) /\ k <= Len(ws) =>
                     d[k] = e[k] /\ \A j \in 1..k : us[j] = ws[j]}
<1>1. 0 \in G
  BY DEF Joined
<1>2. ASSUME NEW k \in Nat, k \in G PROVE k + 1 \in G
  <2> SUFFICES ASSUME k + 1 <= Len(us), k + 1 <= Len(ws)
               PROVE  d[k+1] = e[k+1] /\ \A j \in 1..(k+1) : us[j] = ws[j]
    OBVIOUS
  <2>1. d[k] = e[k] /\ \A j \in 1..k : us[j] = ws[j]
    BY <1>2
  <2>2. k + 1 \in 1..Len(us) /\ k + 1 \in 1..Len(ws) /\ (k + 1) - 1 = k
    OBVIOUS
  <2> DEFINE a == us[k+1]
             b == ws[k+1]
             p == d[k]
  <2>3. a \in C /\ b \in C
    BY <2>2
  <2>4. /\ p \in Nat /\ d[k+1] = p + Len(a) /\ d[k+1] <= Len(v)
        /\ \A i \in 1..Len(a) : v[p+i] = a[i]
    BY <2>2 DEF Joined
  <2>5. /\ e[k+1] = p + Len(b) /\ e[k+1] <= Len(w)
        /\ \A i \in 1..Len(b) : w[p+i] = b[i]
    BY <2>1, <2>2 DEF Joined
  <2> HIDE DEF a, b, p
  <2>6. Len(a) \in Nat /\ Len(b) \in Nat
    BY <2>3 DEF PrefixCode
  <2>7. ASSUME NEW i \in 1..Len(a), i <= Len(b) PROVE a[i] = b[i]
    <3>1. i \in 1..Len(b) /\ p + i \in 1..Len(v) /\ p + i <= Len(w)
      BY <2>4, <2>5, <2>6, <2>7
    <3> QED
      BY <2>4, <2>5, <3>1 DEF Agree
  <2>8. a = b
    BY <2>3, <2>7 DEF PrefixCode, Agree
  <2> QED
    BY <2>1, <2>4, <2>5, <2>8 DEF a, b
<1>3. Nat \subseteq G
  <2> HIDE DEF G
  <2> QED
    BY <1>1, <1>2, NatSetInduction
<1> QED
  BY <1>3

(* A stream of words that are not empty says how many they are.            *)
LEMMA SameCount ==
  ASSUME NEW us, NEW ws, NEW v, NEW d, NEW e, Joined(us, d, v), Joined(ws, e, v),
         Len(us) \in Nat, Len(ws) \in Nat, Len(v) \in Nat,
         \A k \in 1..Len(us) : Len(us[k]) \in Nat \ {0},
         \A k \in 1..Len(ws) : Len(ws[k]) \in Nat \ {0},
         \A k \in Nat : k <= Len(us) /\ k <= Len(ws) => d[k] = e[k]
  PROVE  Len(us) = Len(ws)
<1>1. ASSUME NEW xs, NEW ys, NEW f, NEW g, Len(xs) \in Nat, Len(ys) \in Nat,
             \A k \in 1..Len(ys) : Len(ys[k]) \in Nat \ {0}, Joined(xs, f, v), Joined(ys, g, v),
             f[Len(xs)] = g[Len(xs)], Len(xs) < Len(ys)
      PROVE  FALSE
  <2> DEFINE n == Len(xs)
  <2>1. n \in Nat /\ n + 1 \in 1..Len(ys) /\ (n + 1) - 1 = n
    BY <1>1
  <2>2. Len(ys[n+1]) \in Nat \ {0}
    BY <1>1, <2>1
  <2>3. g[n] = Len(v)
    BY <1>1 DEF Joined
  <2>4. g[n+1] = g[n] + Len(ys[n+1]) /\ g[n+1] <= Len(v)
    BY <1>1, <2>1 DEF Joined
  <2> HIDE DEF n
  <2> QED
    BY <2>2, <2>3, <2>4
<1>2. ~(Len(us) < Len(ws))
  BY <1>1
<1>3. ~(Len(ws) < Len(us))
  BY <1>1
<1> QED
  BY <1>2, <1>3

(* Words of a prefix code can be told apart in a stream: when there is     *)
(* nothing after them, or when one knows how many they are.                *)
LEMMA Decoded ==
  ASSUME NEW C, NEW S, C \subseteq Seq(S), PrefixCode(C), NEW us \in Seq(C), NEW ws \in Seq(C),
         \/ Layout!FlattenSeq(us) = Layout!FlattenSeq(ws)
         \/ Len(us) = Len(ws) /\ Agree(Layout!FlattenSeq(us), Layout!FlattenSeq(ws))
  PROVE  us = ws
<1> DEFINE v == Layout!FlattenSeq(us)
           w == Layout!FlattenSeq(ws)
<1>1. us \in Seq(Seq(S)) /\ ws \in Seq(Seq(S))
  OBVIOUS
<1>2. PICK d, e : Joined(us, d, v) /\ Joined(ws, e, w)
  BY <1>1, Flattened
<1>3. Len(v) \in Nat /\ Len(w) \in Nat
  BY <1>1, Flattened
<1> HIDE DEF v, w
<1>4. Agree(v, w)
  BY DEF Agree, v, w
<1>5. \A k \in Nat : k <= Len(us) /\ k <= Len(ws) =>
         d[k] = e[k] /\ \A j \in 1..k : us[j] = ws[j]
  BY <1>2, <1>3, <1>4, SameWords
<1>6. ASSUME v = w PROVE Len(us) = Len(ws)
  <2>1. Len(us) \in Nat /\ \A k \in 1..Len(us) : Len(us[k]) \in Nat \ {0}
    BY DEF PrefixCode
  <2>2. Len(ws) \in Nat /\ \A k \in 1..Len(ws) : Len(ws[k]) \in Nat \ {0}
    BY DEF PrefixCode
  <2>3. \A k \in Nat : k <= Len(us) /\ k <= Len(ws) => d[k] = e[k]
    BY <1>5
  <2>4. Joined(us, d, v) /\ Joined(ws, e, v)
    BY <1>2, <1>6
  <2> QED
    BY <1>3, <2>1, <2>2, <2>3, <2>4, SameCount
<1>7. Len(us) = Len(ws) /\ \A j \in 1..Len(us) : us[j] = ws[j]
  <2>1. Len(us) \in Nat /\ Len(us) = Len(ws)
    BY <1>6 DEF v, w
  <2> QED
    BY <1>5, <2>1
<1>8. /\ Len(us) \in Nat /\ us = [j \in 1..Len(us) |-> us[j]] /\ ws = [j \in 1..Len(ws) |-> ws[j]]
  OBVIOUS
<1> QED
  BY <1>7, <1>8

(* The largest length that four bytes can tell.                            *)
MaxU32 == 4294967295

(* Short lengths fit.                                                      *)
LEMMA ShortLengths ==
  MaxU32 \in Nat /\ \A n \in 0..255 : n <= MaxU32
BY SMT DEF MaxU32

(* A number is the quotient and the remainder of a division by 256.        *)
LEMMA Digit256 ==
  /\ \A x \in Nat : x \div 256 \in Nat /\ x % 256 \in 0..255 /\ x = 256 * (x \div 256) + (x % 256)
  /\ \A x \in Nat : (x \div 256) \div 256 = x \div 65536
  /\ \A x \in Nat : (x \div 65536) \div 256 = x \div 16777216
  /\ \A x \in 0..255 : x % 256 = x
<1>1. ASSUME NEW x \in Nat
      PROVE  x \div 256 \in Nat /\ x % 256 \in 0..255 /\ x = 256 * (x \div 256) + (x % 256)
  BY SMT
<1>2. ASSUME NEW x \in Nat
      PROVE  (x \div 256) \div 256 = x \div 65536
  BY SMT
<1>3. ASSUME NEW x \in Nat
      PROVE  (x \div 65536) \div 256 = x \div 16777216
  BY SMT
<1> QED
  BY <1>1, <1>2, <1>3, SMT

(* The quotient of a length that fits is one byte.                        *)
LEMMA LastByte ==
  ASSUME NEW x \in Nat, x <= MaxU32 PROVE (x \div 16777216) \in 0..255
<1> DEFINE q == x \div 16777216
<1>1. q \in Nat
  BY SMT
<1>2. 16777216 * q <= x
  BY SMT
<1>3. x < 256 * 16777216
  BY SMT DEF MaxU32
<1> HIDE DEF q
<1>4. q < 256
  BY <1>1, <1>2, <1>3, SMT
<1> QED
  BY <1>1, <1>4 DEF q

(* A length of 32 bits can be read back from its bytes.                    *)
LEMMA LittleEndian ==
  ASSUME NEW m \in Nat, NEW n \in Nat, m <= MaxU32, n <= MaxU32, Layout!Le32(m) = Layout!Le32(n)
  PROVE  m = n
<1>1. /\ m % 256 = n % 256 /\ (m \div 256) % 256 = (n \div 256) % 256
      /\ (m \div 65536) % 256 = (n \div 65536) % 256
      /\ (m \div 16777216) % 256 = (n \div 16777216) % 256
  BY SMT DEF Layout!Le32
<1>2. m \div 16777216 = n \div 16777216
  <2> DEFINE a == m \div 16777216
             b == n \div 16777216
  <2>1. a \in 0..255 /\ b \in 0..255 /\ a % 256 = b % 256
    BY <1>1, LastByte
  <2> HIDE DEF a, b
  <2>2. a = b
    BY <2>1, SMT
  <2> QED
    BY <2>2 DEF a, b
<1>3. m \div 65536 = n \div 65536
  BY <1>1, <1>2, Digit256, SMT
<1>4. m \div 256 = n \div 256
  BY <1>1, <1>3, Digit256, SMT
<1> QED
  BY <1>1, <1>4, Digit256, SMT
(* The elements of a concatenation.                                        *)
LEMMA Concatenated ==
  ASSUME NEW S, NEW a \in Seq(S), NEW b \in Seq(S)
  PROVE  /\ a \o b \in Seq(S) /\ Len(a \o b) = Len(a) + Len(b) /\ Len(a) \in Nat /\ Len(b) \in Nat
         /\ \A i \in 1..Len(a) : (a \o b)[i] = a[i]
         /\ \A i \in 1..Len(b) : (a \o b)[Len(a) + i] = b[i]
<1>1. \A i \in 1..Len(b) : Len(a) + i \in 1..(Len(a) + Len(b)) /\ (Len(a) + i) - Len(a) = i /\ ~(Len(a) + i <= Len(a))
  OBVIOUS
<1> QED
  BY <1>1

(* The bytes of a length are four.                                         *)
LEMMA Le32Bytes ==
  ASSUME NEW n \in Nat
  PROVE  Layout!Le32(n) \in Seq(0..255) /\ Len(Layout!Le32(n)) = 4
<1> DEFINE a == n % 256
           b == (n \div 256) % 256
           c == (n \div 65536) % 256
           d == (n \div 16777216) % 256
<1>1. a \in 0..255 /\ b \in 0..255 /\ c \in 0..255 /\ d \in 0..255
  BY SMT
<1>2. Layout!Le32(n) = <<a, b, c, d>>
  BY DEF Layout!Le32
<1> HIDE DEF a, b, c, d
<1> QED
  BY <1>1, <1>2

(* The bytes of a length and what follows them.                            *)
LEMMA PrefixedBytes ==
  ASSUME NEW x \in Seq(0..255)
  PROVE  /\ Layout!Prefixed(x) \in Seq(0..255) /\ Len(Layout!Prefixed(x)) = 4 + Len(x)
         /\ \A i \in 1..4 : Layout!Prefixed(x)[i] = Layout!Le32(Len(x))[i]
         /\ \A i \in 1..Len(x) : Layout!Prefixed(x)[4 + i] = x[i]
<1> DEFINE l == Layout!Le32(Len(x))
<1>1. l \in Seq(0..255) /\ Len(l) = 4
  BY Le32Bytes
<1>2. Layout!Prefixed(x) = l \o x
  BY DEF Layout!Prefixed
<1> HIDE DEF l
<1>3. /\ Len(l \o x) = 4 + Len(x) /\ l \o x \in Seq(0..255)
      /\ \A i \in 1..4 : (l \o x)[i] = l[i]
      /\ \A i \in 1..Len(x) : (l \o x)[4+i] = x[i]
  <2>1. /\ Len(l \o x) = Len(l) + Len(x) /\ l \o x \in Seq(0..255)
        /\ \A i \in 1..Len(l) : (l \o x)[i] = l[i]
        /\ \A i \in 1..Len(x) : (l \o x)[Len(l)+i] = x[i]
    <3>1. l \in Seq(0..255) /\ x \in Seq(0..255)
      BY <1>1
    <3> QED
      BY <3>1, Concatenated
  <2> QED
    BY <1>1, <2>1
<1> QED
  BY <1>2, <1>3 DEF l

(* The first byte after a length.                                          *)
LEMMA PrefixedHead ==
  ASSUME NEW x \in Seq(0..255), Len(x) # 0
  PROVE  Layout!Prefixed(x)[5] = x[1]
<1>1. 1 \in 1..Len(x) /\ 4 + 1 = 5
  OBVIOUS
<1>2. Layout!Prefixed(x)[4 + 1] = x[1]
  BY <1>1, PrefixedBytes
<1> QED
  BY <1>1, <1>2

(* What follows its own length tells itself from others.                   *)
LEMMA PrefixedApart ==
  ASSUME NEW x \in Seq(0..255), NEW y \in Seq(0..255), Len(x) <= MaxU32, Len(y) <= MaxU32,
         Agree(Layout!Prefixed(x), Layout!Prefixed(y))
  PROVE  x = y
<1> DEFINE a == Layout!Prefixed(x)
           b == Layout!Prefixed(y)
<1>1. /\ Len(a) = 4 + Len(x) /\ Len(b) = 4 + Len(y) /\ Len(x) \in Nat /\ Len(y) \in Nat
      /\ \A i \in 1..4 : a[i] = Layout!Le32(Len(x))[i] /\ b[i] = Layout!Le32(Len(y))[i]
      /\ \A i \in 1..Len(x) : a[4+i] = x[i]
      /\ \A i \in 1..Len(y) : b[4+i] = y[i]
  BY PrefixedBytes
<1> HIDE DEF a, b
<1>2. \A i \in 1..4 : Layout!Le32(Len(x))[i] = Layout!Le32(Len(y))[i]
  <2>1. \A i \in 1..4 : i \in 1..Len(a) /\ i <= Len(b)
    BY <1>1
  <2>2. Agree(a, b)
    BY DEF a, b
  <2> QED
    BY <1>1, <2>1, <2>2 DEF Agree
<1>3. Layout!Le32(Len(x)) = Layout!Le32(Len(y))
  BY <1>2, SMT DEF Layout!Le32
<1>4. Len(x) = Len(y)
  BY <1>1, <1>3, LittleEndian
<1>5. ASSUME NEW i \in 1..Len(x) PROVE x[i] = y[i]
  <2>1. 4 + i \in 1..Len(a) /\ 4 + i <= Len(b)
    BY <1>1, <1>4
  <2>2. a[4+i] = b[4+i]
    BY <2>1 DEF Agree, a, b
  <2> QED
    BY <1>1, <1>4, <2>2
<1> QED
  BY <1>4, <1>5

-----------------------------------------------------------------------------
(* The structs under the ABI hash.                                         *)

(* Names and types as bytes.                                               *)
LEMMA NamesAndTypes ==
  ASSUME Layout!LayoutAssumption
  PROVE  /\ \A x \in Layout!Identifiers :
              x \in Seq(0..255) /\ Len(x) \in 1..255 /\ \A i \in 1..Len(x) : x[i] \in 36..122
         /\ \A x \in Sigs : x \in Seq(0..255) /\ Len(x) \in Nat \ {0} /\ x[1] \in 1..16
<1>1. ASSUME NEW x \in Layout!Identifiers
      PROVE  x \in Seq(0..255) /\ Len(x) \in 1..255 /\ \A i \in 1..Len(x) : x[i] \in 36..122
  <2>1. x \in Seq(36..122) /\ Len(x) \in 1..255
    BY DEF Layout!Identifiers, Layout!LayoutAssumption
  <2>2. x \in Seq(0..255)
    BY <2>1, WiderSeq
  <2>3. \A i \in 1..Len(x) : x[i] \in 36..122
    BY <2>1, ElementsOfSeq
  <2> QED
    BY <2>1, <2>2, <2>3
<1>2. ASSUME NEW x \in Sigs
      PROVE  x \in Seq(0..255) /\ Len(x) \in Nat \ {0} /\ x[1] \in 1..16
  BY DEF Layout!LayoutAssumption
<1> QED
  BY <1>1, <1>2

(* A part is a field or the head of a variant.                             *)
LEMMA PartShapes ==
  ASSUME NEW p \in Layout!Part
  PROVE  /\ p.name \in Layout!Identifiers
         /\ Layout!IsField(p) =>
              /\ p.sig \in Sigs /\ p = Layout!Field(p.name, p.sig)
              /\ Layout!PartBytes(p) = Layout!Prefixed(p.name) \o Layout!Prefixed(p.sig)
         /\ ~Layout!IsField(p) =>
              p = Layout!Variant(p.name) /\ Layout!PartBytes(p) = Layout!Prefixed(p.name)
<1>1. CASE p \in {Layout!Field(n, sig) : n \in Layout!Identifiers, sig \in Sigs}
  <2>1. PICK n \in Layout!Identifiers, sig \in Sigs : p = [name |-> n, sig |-> sig]
    BY <1>1 DEF Layout!Field
  <2>2. Layout!IsField(p) /\ p.name = n /\ p.sig = sig
    BY <2>1 DEF Layout!IsField
  <2> QED
    BY <2>1, <2>2 DEF Layout!Field, Layout!PartBytes
<1>2. CASE p \in {Layout!Variant(n) : n \in Layout!Identifiers}
  <2>1. PICK n \in Layout!Identifiers : p = [name |-> n]
    BY <1>2 DEF Layout!Variant
  <2>2. ~Layout!IsField(p) /\ p.name = n
    BY <2>1 DEF Layout!IsField
  <2> QED
    BY <2>1, <2>2 DEF Layout!Variant, Layout!PartBytes
<1> QED
  BY <1>1, <1>2 DEF Layout!Part

(* A part begins with the length and the letters of its name; a field goes *)
(* on with those of its type.                                              *)
LEMMA PartAt ==
  ASSUME Layout!LayoutAssumption, NEW p \in Layout!Part
  PROVE  /\ Layout!PartBytes(p) \in Seq(0..255) /\ Len(p.name) \in 1..255
         /\ \A i \in 1..(4 + Len(p.name)) : Layout!PartBytes(p)[i] = Layout!Prefixed(p.name)[i]
         /\ Layout!IsField(p) =>
              /\ Len(Layout!PartBytes(p)) = 4 + Len(p.name) + 4 + Len(p.sig)
              /\ Len(p.sig) \in Nat \ {0}
              /\ \A i \in 1..(4 + Len(p.sig)) :
                    Layout!PartBytes(p)[4 + Len(p.name) + i] = Layout!Prefixed(p.sig)[i]
         /\ ~Layout!IsField(p) => Len(Layout!PartBytes(p)) = 4 + Len(p.name)
<1> DEFINE a == Layout!Prefixed(p.name)
           b == Layout!Prefixed(p.sig)
<1>1. p.name \in Seq(0..255) /\ Len(p.name) \in 1..255
  BY PartShapes, NamesAndTypes
<1>2. a \in Seq(0..255) /\ Len(a) = 4 + Len(p.name)
  BY <1>1, PrefixedBytes
<1>3. CASE Layout!IsField(p)
  <2>1. p.sig \in Seq(0..255) /\ Len(p.sig) \in Nat \ {0}
    BY <1>3, PartShapes, NamesAndTypes
  <2>2. b \in Seq(0..255) /\ Len(b) = 4 + Len(p.sig)
    BY <2>1, PrefixedBytes
  <2>3. Layout!PartBytes(p) = a \o b
    BY <1>3, PartShapes
  <2> HIDE DEF a, b
  <2>4. /\ a \o b \in Seq(0..255) /\ Len(a \o b) = Len(a) + Len(b)
        /\ \A i \in 1..Len(a) : (a \o b)[i] = a[i]
        /\ \A i \in 1..Len(b) : (a \o b)[Len(a) + i] = b[i]
    <3>1. a \in Seq(0..255) /\ b \in Seq(0..255)
      BY <1>2, <2>2
    <3> QED
      BY <3>1, Concatenated
  <2>5. Len(a \o b) = 4 + Len(p.name) + 4 + Len(p.sig)
    <3> DEFINE x == Len(p.name)
               y == Len(p.sig)
    <3>1. x \in Nat /\ y \in Nat /\ Len(a \o b) = (4 + x) + (4 + y)
      BY <1>1, <1>2, <2>1, <2>2, <2>4
    <3> HIDE DEF x, y
    <3>2. Len(a \o b) = 4 + x + 4 + y
      BY <3>1
    <3> QED
      BY <3>2 DEF x, y
  <2>6. /\ \A i \in 1..(4 + Len(p.name)) : (a \o b)[i] = a[i]
        /\ \A i \in 1..(4 + Len(p.sig)) : (a \o b)[4 + Len(p.name) + i] = b[i]
    BY <1>2, <2>2, <2>4
  <2> QED
    BY <1>1, <1>3, <2>1, <2>3, <2>4, <2>5, <2>6 DEF a, b
<1>4. CASE ~Layout!IsField(p)
  BY <1>1, <1>2, <1>4, PartShapes
<1> QED
  BY <1>3, <1>4

(* A sequence is determined by its length and its elements.               *)
LEMMA SameElements ==
  ASSUME NEW T, NEW x \in Seq(T), NEW y \in Seq(T), Len(x) = Len(y),
         \A k \in 1..Len(x) : x[k] = y[k]
  PROVE  x = y
<1>1. x = [k \in 1..Len(x) |-> x[k]]
  OBVIOUS
<1>2. y = [k \in 1..Len(y) |-> y[k]]
  OBVIOUS
<1> QED
  BY <1>1, <1>2

(* The bytes of parts, one after the other.                                *)
PartWords(ps) == [k \in DOMAIN ps |-> Layout!PartBytes(ps[k])]
PartStream(ps) == Layout!FlattenSeq(PartWords(ps))

(* They are words, one for each part and none empty.                      *)
LEMMA PartWordsType ==
  ASSUME Layout!LayoutAssumption, NEW ps \in Seq(Layout!Part)
  PROVE  /\ PartWords(ps) \in Seq(Seq(0..255)) /\ Len(PartWords(ps)) = Len(ps)
         /\ \A k \in 1..Len(ps) :
              /\ ps[k] \in Layout!Part /\ PartWords(ps)[k] = Layout!PartBytes(ps[k])
              /\ Len(PartWords(ps)[k]) # 0
<1>1. \A k \in 1..Len(ps) : ps[k] \in Layout!Part
  BY ElementsOfSeq
<1>2. ASSUME NEW k \in 1..Len(ps)
      PROVE  Layout!PartBytes(ps[k]) \in Seq(0..255) /\ Len(Layout!PartBytes(ps[k])) # 0
  <2>1. ps[k] \in Layout!Part
    BY <1>1
  <2> DEFINE b == Layout!PartBytes(ps[k])
             x == Len(ps[k].name)
             y == Len(ps[k].sig)
  <2>2. b \in Seq(0..255) /\ x \in 1..255
    BY <2>1, PartAt
  <2>3. CASE Layout!IsField(ps[k])
    <3>1. Len(b) = 4 + x + 4 + y /\ y \in Nat
      BY <2>1, <2>3, PartAt
    <3> HIDE DEF x, y, b
    <3>2. Len(b) # 0
      BY <2>2, <3>1
    <3> QED
      BY <2>2, <3>2 DEF b
  <2>4. CASE ~Layout!IsField(ps[k])
    <3>1. Len(b) = 4 + x
      BY <2>1, <2>4, PartAt
    <3> HIDE DEF x, b
    <3>2. Len(b) # 0
      BY <2>2, <3>1
    <3> QED
      BY <2>2, <3>2 DEF b
  <2> QED
    BY <2>3, <2>4
<1>3. PartWords(ps) = [k \in 1..Len(ps) |-> Layout!PartBytes(ps[k])] /\ Len(ps) \in Nat
  BY DEF PartWords
<1>4. /\ PartWords(ps) \in Seq(Seq(0..255)) /\ Len(PartWords(ps)) = Len(ps)
  <2> DEFINE n == Len(ps)
             F(k) == Layout!PartBytes(ps[k])
  <2>1. \A k \in 1..n : F(k) \in Seq(0..255)
    BY <1>2
  <2>2. n \in Nat
    OBVIOUS
  <2> HIDE DEF n, F
  <2>3. [k \in 1..n |-> F(k)] \in Seq(Seq(0..255)) /\ Len([k \in 1..n |-> F(k)]) = n
    BY <2>1, <2>2
  <2> QED
    BY <1>3, <2>3 DEF n, F
<1> QED
  BY <1>1, <1>2, <1>3, <1>4

(* A part lies in the stream from f to g: its name, then, of a field, its  *)
(* type.                                                                   *)
PartLies(part, f, g, v) ==
    /\ f \in Nat /\ g \in Nat /\ g <= Len(v) /\ Len(part.name) \in 1..255
    /\ \A i \in 1..(4 + Len(part.name)) : v[f + i] = Layout!Prefixed(part.name)[i]
    /\ Layout!IsField(part) =>
         /\ g = f + 4 + Len(part.name) + 4 + Len(part.sig) /\ Len(part.sig) \in Nat \ {0}
         /\ \A i \in 1..(4 + Len(part.sig)) :
               v[f + 4 + Len(part.name) + i] = Layout!Prefixed(part.sig)[i]
    /\ ~Layout!IsField(part) => g = f + 4 + Len(part.name)

(* The parts lie one after the other.                                      *)
LEMMA PartInStream ==
  ASSUME Layout!LayoutAssumption, NEW ps \in Seq(Layout!Part), NEW v, NEW e,
         Joined(PartWords(ps), e, v), NEW k \in 1..Len(ps)
  PROVE  PartLies(ps[k], e[k-1], e[k], v)
<1> DEFINE b == Layout!PartBytes(ps[k])
           f == e[k-1]
           x == Len(ps[k].name)
           y == Len(ps[k].sig)
<1>1. ps[k] \in Layout!Part /\ PartWords(ps)[k] = b /\ k \in 1..Len(PartWords(ps))
  BY PartWordsType
<1>2. /\ f \in Nat /\ e[k] = f + Len(b) /\ e[k] <= Len(v)
      /\ \A i \in 1..Len(b) : v[f + i] = b[i]
  BY <1>1 DEF Joined
<1>3. /\ x \in 1..255 /\ \A i \in 1..(4 + x) : b[i] = Layout!Prefixed(ps[k].name)[i]
  BY <1>1, PartAt
<1>4. CASE Layout!IsField(ps[k])
  <2>1. /\ Len(b) = 4 + x + 4 + y /\ y \in Nat \ {0}
        /\ \A i \in 1..(4 + y) : b[4 + x + i] = Layout!Prefixed(ps[k].sig)[i]
    BY <1>1, <1>4, PartAt
  <2> HIDE DEF b, f, x, y
  <2>2. /\ \A i \in 1..(4 + x) : i \in 1..Len(b)
        /\ \A i \in 1..(4 + y) : 4 + x + i \in 1..Len(b) /\ f + (4 + x + i) = f + 4 + x + i
        /\ e[k] = f + 4 + x + 4 + y /\ e[k] \in Nat
    <3> DEFINE l == Len(b)
               g == e[k]
    <3>1. f \in Nat /\ g = f + l /\ x \in 1..255 /\ l = 4 + x + 4 + y /\ y \in Nat
      BY <1>2, <1>3, <2>1
    <3> HIDE DEF g, l
    <3>2. /\ \A i \in 1..(4 + x) : i \in 1..l
          /\ \A i \in 1..(4 + y) : 4 + x + i \in 1..l /\ f + (4 + x + i) = f + 4 + x + i
          /\ g = f + 4 + x + 4 + y /\ g \in Nat
      BY <3>1
    <3> QED
      BY <3>2 DEF g, l
  <2>3. /\ \A i \in 1..(4 + x) : v[f + i] = Layout!Prefixed(ps[k].name)[i]
        /\ \A i \in 1..(4 + y) : v[f + 4 + x + i] = Layout!Prefixed(ps[k].sig)[i]
    <3>1. ASSUME NEW i \in 1..(4 + y) PROVE v[f + 4 + x + i] = Layout!Prefixed(ps[k].sig)[i]
      <4>1. v[f + (4 + x + i)] = b[4 + x + i]
        BY <1>2, <2>2
      <4> QED
        BY <2>1, <2>2, <4>1
    <3> QED
      BY <1>2, <1>3, <2>2, <3>1
  <2> QED
    BY <1>2, <1>3, <1>4, <2>1, <2>2, <2>3 DEF f, x, y, PartLies
<1>5. CASE ~Layout!IsField(ps[k])
  <2>1. Len(b) = 4 + x
    BY <1>1, <1>5, PartAt
  <2> HIDE DEF b, f, x
  <2>2. e[k] = f + 4 + x /\ e[k] \in Nat /\ \A i \in 1..(4 + x) : i \in 1..Len(b)
    BY <1>2, <1>3, <2>1
  <2>3. \A i \in 1..(4 + x) : v[f + i] = Layout!Prefixed(ps[k].name)[i]
    BY <1>2, <1>3, <2>2
  <2> QED
    BY <1>2, <1>3, <1>5, <2>2, <2>3 DEF f, x, PartLies
<1> QED
  BY <1>4, <1>5

(* After the head of a variant the stream ends or a name follows; after    *)
(* the name of a field its type follows.                                   *)
LEMMA AfterName ==
  ASSUME Layout!LayoutAssumption, NEW ps \in Seq(Layout!Part), NEW v, NEW e,
         Joined(PartWords(ps), e, v), NEW k \in 1..Len(ps), NEW f \in Nat,
         f = e[k-1] + 4 + Len(ps[k].name)
  PROVE  /\ Layout!IsField(ps[k]) => f + 5 <= Len(v) /\ v[f+5] \in 1..16
         /\ ~Layout!IsField(ps[k]) => f = Len(v) \/ v[f+5] \in 36..122
<1>1. ps[k] \in Layout!Part
  BY PartWordsType
<1>4. PartLies(ps[k], e[k-1], e[k], v)
  BY PartInStream
<1>2. CASE Layout!IsField(ps[k])
  <2> DEFINE y == Len(ps[k].sig)
             s == ps[k].sig
  <2> DEFINE z == e[k-1]
             x == Len(ps[k].name)
  <2>0. /\ e[k] = z + 4 + x + 4 + y /\ e[k] <= Len(v) /\ y \in Nat \ {0} /\ e[k] \in Nat
        /\ \A i \in 1..(4 + y) : v[z + 4 + x + i] = Layout!Prefixed(s)[i]
    BY <1>2, <1>4 DEF PartLies
  <2>1. /\ e[k] = f + 4 + y /\ e[k] <= Len(v) /\ y \in Nat \ {0} /\ e[k] \in Nat
        /\ \A i \in 1..(4 + y) : v[f + i] = Layout!Prefixed(s)[i]
    <3>1. f = z + 4 + x
      OBVIOUS
    <3> HIDE DEF s, z, x, y
    <3> QED
      BY <2>0, <3>1
  <2>2. s \in Seq(0..255) /\ s[1] \in 1..16
    BY <1>1, <1>2, PartShapes, NamesAndTypes
  <2>3. Len(v) \in Nat
    BY PartWordsType, Flattened DEF Joined
  <2>4. Layout!Prefixed(s)[5] = s[1]
    <3>1. Len(s) # 0
      BY <2>1
    <3> HIDE DEF s
    <3> QED
      BY <2>2, <3>1, PrefixedHead
  <2> HIDE DEF y, s
  <2>5. f + 5 <= Len(v) /\ 5 \in 1..(4 + y)
    BY <2>1, <2>3
  <2>6. v[f + 5] = s[1]
    BY <2>1, <2>4, <2>5
  <2> QED
    BY <1>2, <2>2, <2>5, <2>6
<1>3. CASE ~Layout!IsField(ps[k])
  <2>1. e[k] = f
    BY <1>3, <1>4 DEF PartLies
  <2>2. CASE k = Len(ps)
    BY <1>3, <2>1, <2>2, PartWordsType DEF Joined
  <2>3. CASE k # Len(ps)
    <3>1. k + 1 \in 1..Len(ps) /\ (k + 1) - 1 = k
      BY <2>3
    <3> DEFINE x == ps[k+1].name
    <3>2. x \in Seq(0..255) /\ Len(x) \in 1..255 /\ x[1] \in 36..122 /\ Len(x) # 0
      <4>1. ps[k+1] \in Layout!Part
        BY <3>1, PartWordsType
      <4>2. x \in Layout!Identifiers
        BY <4>1, PartShapes
      <4>3. x \in Seq(0..255) /\ Len(x) \in 1..255 /\ \A i \in 1..Len(x) : x[i] \in 36..122
        BY <4>2, NamesAndTypes
      <4> DEFINE l == Len(x)
      <4>4. 1 \in 1..l /\ l # 0
        <5>1. l \in 1..255
          BY <4>3
        <5> HIDE DEF l
        <5> QED
          BY <5>1
      <4> HIDE DEF x
      <4> QED
        BY <4>3, <4>4
    <3>3. \A i \in 1..(4 + Len(x)) : v[f + i] = Layout!Prefixed(x)[i]
      <4>1. PartLies(ps[k+1], e[(k+1)-1], e[k+1], v)
        BY <3>1, PartInStream
      <4>2. PartLies(ps[k+1], f, e[k+1], v)
        BY <2>1, <3>1, <4>1
      <4> HIDE DEF x
      <4> QED
        BY <4>2 DEF PartLies, x
    <3>4. Layout!Prefixed(x)[5] = x[1]
      <4> HIDE DEF x
      <4> QED
        BY <3>2, PrefixedHead
    <3>5. v[f + 5] = Layout!Prefixed(x)[5]
      <4> DEFINE l == Len(x)
      <4>1. 5 \in 1..(4 + l)
        <5>1. l \in 1..255
          BY <3>2
        <5> HIDE DEF l
        <5> QED
          BY <5>1
      <4> HIDE DEF x
      <4> QED
        BY <3>3, <4>1
    <3> HIDE DEF x
    <3> QED
      BY <1>3, <3>2, <3>4, <3>5
  <2> QED
    BY <2>2, <2>3
<1> QED
  BY <1>2, <1>3

(* Parts can be told apart in their stream, although a field begins like   *)
(* the head of a variant.                                                  *)
LEMMA SameParts ==
  ASSUME Layout!LayoutAssumption, NEW p \in Seq(Layout!Part), NEW q \in Seq(Layout!Part),
         PartStream(p) = PartStream(q), Len(PartStream(p)) <= MaxU32
  PROVE  p = q
<1> DEFINE v == PartStream(p)
<1>1. /\ PartWords(p) \in Seq(Seq(0..255)) /\ PartWords(q) \in Seq(Seq(0..255))
      /\ Len(PartWords(p)) = Len(p) /\ Len(PartWords(q)) = Len(q)
      /\ \A k \in 1..Len(p) : Len(PartWords(p)[k]) # 0
      /\ \A k \in 1..Len(q) : Len(PartWords(q)[k]) # 0
  BY PartWordsType
<1>2. v \in Seq(0..255) /\ Len(v) \in Nat /\ Len(v) <= MaxU32
  BY <1>1, Flattened DEF PartStream
<1>3. PICK d : Joined(PartWords(p), d, v)
  BY <1>1, Flattened DEF PartStream
<1>4. PICK e : Joined(PartWords(q), e, v)
  BY <1>1, Flattened DEF PartStream
<1> HIDE DEF v
<1> DEFINE G == {k \in Nat : k <= Len(p) /\ k <= Len(q) =>
                     d[k] = e[k] /\ \A j \in 1..k : p[j] = q[j]}
<1>5. 0 \in G
  BY <1>3, <1>4 DEF Joined
<1>6. ASSUME NEW k \in Nat, k \in G PROVE k + 1 \in G
  <2> SUFFICES ASSUME k + 1 <= Len(p), k + 1 <= Len(q)
               PROVE  d[k+1] = e[k+1] /\ \A j \in 1..(k+1) : p[j] = q[j]
    OBVIOUS
  <2>1. d[k] = e[k] /\ \A j \in 1..k : p[j] = q[j]
    BY <1>6
  <2>2. k + 1 \in 1..Len(p) /\ k + 1 \in 1..Len(q) /\ (k + 1) - 1 = k
    OBVIOUS
  <2> DEFINE a == p[k+1]
             b == q[k+1]
             z == d[k]
             g == d[k+1]
             h == e[k+1]
             m == a.name
             n == b.name
  <2>3. a \in Layout!Part /\ b \in Layout!Part
    BY <2>2, PartWordsType
  <2>4. /\ m \in Seq(0..255) /\ Len(m) \in 1..255 /\ n \in Seq(0..255) /\ Len(n) \in 1..255
    BY <2>3, PartShapes, NamesAndTypes
  <2>12. ASSUME NEW x \in Nat, NEW l \in 1..255 PROVE x + 4 + l \in Nat
    OBVIOUS
  <2>5. /\ z \in Nat /\ g \in Nat /\ g <= Len(v)
        /\ \A i \in 1..(4 + Len(m)) : v[z + i] = Layout!Prefixed(m)[i]
        /\ Layout!IsField(a) =>
             /\ g = z + 4 + Len(m) + 4 + Len(a.sig) /\ Len(a.sig) \in Nat \ {0}
             /\ \A i \in 1..(4 + Len(a.sig)) : v[z + 4 + Len(m) + i] = Layout!Prefixed(a.sig)[i]
        /\ ~Layout!IsField(a) => g = z + 4 + Len(m)
    <3>1. PartLies(p[k+1], d[(k+1)-1], d[k+1], v)
      BY <1>3, <2>2, PartInStream
    <3>2. PartLies(a, z, g, v)
      BY <2>2, <3>1
    <3> HIDE DEF a, z, g
    <3> QED
      BY <3>2 DEF PartLies
  <2>6. /\ h \in Nat /\ h <= Len(v)
        /\ \A i \in 1..(4 + Len(n)) : v[z + i] = Layout!Prefixed(n)[i]
        /\ Layout!IsField(b) =>
             /\ h = z + 4 + Len(n) + 4 + Len(b.sig) /\ Len(b.sig) \in Nat \ {0}
             /\ \A i \in 1..(4 + Len(b.sig)) : v[z + 4 + Len(n) + i] = Layout!Prefixed(b.sig)[i]
        /\ ~Layout!IsField(b) => h = z + 4 + Len(n)
    <3>1. PartLies(q[k+1], e[(k+1)-1], e[k+1], v)
      BY <1>4, <2>2, PartInStream
    <3>2. PartLies(b, z, h, v)
      BY <2>1, <2>2, <3>1
    <3> HIDE DEF b, z, h
    <3> QED
      BY <3>2 DEF PartLies
  <2>7. m = n
    <3> HIDE DEF m, n, z
    <3>1. Len(m) <= MaxU32 /\ Len(n) <= MaxU32
      <4>1. \A i \in 1..255 : i <= MaxU32
        BY ShortLengths
      <4> QED
        BY <2>4, <4>1
    <3>2. Agree(Layout!Prefixed(m), Layout!Prefixed(n))
      <4>1. Len(Layout!Prefixed(m)) = 4 + Len(m) /\ Len(Layout!Prefixed(n)) = 4 + Len(n)
        BY <2>4, PrefixedBytes
      <4>2. ASSUME NEW i \in 1..(4 + Len(m)), i <= 4 + Len(n)
            PROVE  Layout!Prefixed(m)[i] = Layout!Prefixed(n)[i]
        <5>1. i \in 1..(4 + Len(n))
          BY <4>2, <2>4
        <5> QED
          BY <2>5, <2>6, <5>1
      <4> QED
        BY <4>1, <4>2 DEF Agree
    <3> QED
      BY <2>4, <3>1, <3>2, PrefixedApart
  <2>8. ASSUME NEW f \in Nat, f = z + 4 + Len(m) PROVE Layout!IsField(a) <=> Layout!IsField(b)
    <3>1. /\ Layout!IsField(a) => f + 5 <= Len(v) /\ v[f+5] \in 1..16
          /\ ~Layout!IsField(a) => f = Len(v) \/ v[f+5] \in 36..122
      BY <1>3, <2>2, <2>8, AfterName
    <3>2. /\ Layout!IsField(b) => f + 5 <= Len(v) /\ v[f+5] \in 1..16
          /\ ~Layout!IsField(b) => f = Len(v) \/ v[f+5] \in 36..122
      <4>1. f = e[(k+1)-1] + 4 + Len(q[k+1].name)
        BY <2>1, <2>2, <2>7, <2>8
      <4> QED
        BY <1>4, <2>2, <4>1, AfterName
    <3> DEFINE l == Len(v)
               c == v[f+5]
    <3>3. l \in Nat
      BY <1>2
    <3> HIDE DEF a, b, l, c
    <3>4. ~(f + 5 <= l /\ c \in 1..16 /\ (f = l \/ c \in 36..122))
      <4>1. f \in Nat
        BY <2>8
      <4>2. ASSUME f + 5 <= l PROVE f # l
        BY <3>3, <4>1, <4>2
      <4>3. ASSUME c \in 1..16 PROVE c \notin 36..122
        BY <4>3
      <4> QED
        BY <4>2, <4>3
    <3> QED
      BY <3>1, <3>2, <3>4 DEF l, c
  <2>9. Layout!IsField(a) <=> Layout!IsField(b)
    <3>1. z + 4 + Len(m) \in Nat
      BY <2>4, <2>5, <2>12
    <3> QED
      BY <2>8, <3>1
  <2>10. CASE ~Layout!IsField(a)
    <3>1. a = b
      BY <2>3, <2>7, <2>9, <2>10, PartShapes
    <3>2. g = h
      BY <2>5, <2>6, <2>7, <2>9, <2>10
    <3> QED
      BY <2>1, <2>2, <3>1, <3>2
  <2>11. CASE Layout!IsField(a)
    <3> DEFINE s == a.sig
               t == b.sig
               f == z + 4 + Len(m)
    <3>1. s \in Seq(0..255) /\ t \in Seq(0..255)
      BY <2>3, <2>9, <2>11, PartShapes, NamesAndTypes
    <3>2. /\ g = f + 4 + Len(s) /\ \A i \in 1..(4 + Len(s)) : v[f + i] = Layout!Prefixed(s)[i]
          /\ h = f + 4 + Len(t) /\ \A i \in 1..(4 + Len(t)) : v[f + i] = Layout!Prefixed(t)[i]
      BY <2>5, <2>6, <2>7, <2>9, <2>11
    <3>3. f \in Nat
      BY <2>4, <2>5, <2>12
    <3>4. s = t
      <4> HIDE DEF s, t, f, g, h
      <4>1. Len(s) \in Nat /\ Len(t) \in Nat /\ Len(s) <= Len(v) /\ Len(t) <= Len(v)
        <5> DEFINE i == Len(s)
                   j == Len(t)
                   l == Len(v)
        <5>1. /\ i \in Nat /\ j \in Nat /\ l \in Nat /\ f \in Nat /\ g <= l /\ h <= l
              /\ g = f + 4 + i /\ h = f + 4 + j
          <6>1. i \in Nat /\ j \in Nat
            BY <3>1
          <6> HIDE DEF i, j, l
          <6> QED
            BY <1>2, <2>5, <2>6, <3>2, <3>3, <6>1 DEF i, j, l
        <5> HIDE DEF i, j, l
        <5>2. i <= l /\ j <= l
          BY <5>1
        <5> QED
          BY <5>1, <5>2 DEF i, j, l
      <4> DEFINE N == MaxU32
      <4>2. N \in Nat
        BY ShortLengths
      <4> HIDE DEF N
      <4>3. Len(s) <= N /\ Len(t) <= N
        <5>1. Len(v) <= N /\ Len(v) \in Nat
          BY <1>2 DEF N
        <5> QED
          BY <4>1, <4>2, <5>1
      <4>4. Agree(Layout!Prefixed(s), Layout!Prefixed(t))
        <5>1. Len(Layout!Prefixed(s)) = 4 + Len(s) /\ Len(Layout!Prefixed(t)) = 4 + Len(t)
          BY <3>1, PrefixedBytes
        <5>2. ASSUME NEW i \in 1..(4 + Len(s)), i <= 4 + Len(t)
              PROVE  Layout!Prefixed(s)[i] = Layout!Prefixed(t)[i]
          <6>1. i \in 1..(4 + Len(t))
            BY <4>1, <5>2
          <6> QED
            BY <3>2, <6>1
        <5> QED
          BY <5>1, <5>2 DEF Agree
      <4> QED
        BY <3>1, <4>3, <4>4, PrefixedApart DEF N
    <3>5. a = b
      BY <2>3, <2>7, <2>9, <2>11, <3>4, PartShapes
    <3>6. g = h
      BY <3>2, <3>4
    <3> QED
      BY <2>1, <2>2, <3>5, <3>6
  <2> QED
    BY <2>10, <2>11
<1>7. \A k \in Nat : k <= Len(p) /\ k <= Len(q) => d[k] = e[k] /\ \A j \in 1..k : p[j] = q[j]
  <2>1. Nat \subseteq G
    <3> HIDE DEF G
    <3> QED
      BY <1>5, <1>6, NatSetInduction
  <2> QED
    BY <2>1
<1>8. Len(p) = Len(q)
  <2> DEFINE us == PartWords(p)
             ws == PartWords(q)
  <2>1. /\ Len(us) \in Nat /\ Len(ws) \in Nat
        /\ \A k \in 1..Len(us) : Len(us[k]) \in Nat \ {0}
        /\ \A k \in 1..Len(ws) : Len(ws[k]) \in Nat \ {0}
        /\ \A k \in Nat : k <= Len(us) /\ k <= Len(ws) => d[k] = e[k]
    BY <1>1, <1>7
  <2>2. Joined(us, d, v) /\ Joined(ws, e, v)
    BY <1>3, <1>4
  <2> HIDE DEF us, ws
  <2>3. Len(us) = Len(ws)
    BY <1>2, <2>1, <2>2, SameCount
  <2> QED
    BY <1>1, <2>3 DEF us, ws
<1>9. /\ Len(p) \in Nat /\ p = [j \in 1..Len(p) |-> p[j]] /\ q = [j \in 1..Len(q) |-> q[j]]
  OBVIOUS
<1>10. \A j \in 1..Len(p) : p[j] = q[j]
  BY <1>7, <1>8, <1>9
<1> QED
  BY <1>8, <1>9, <1>10

(* No part, no bytes; otherwise the name that comes first is short, so its *)
(* length leaves three zeros before a letter.                              *)
LEMMA StreamHead ==
  ASSUME Layout!LayoutAssumption, NEW ps \in Seq(Layout!Part)
  PROVE  /\ PartStream(ps) \in Seq(0..255)
         /\ ps = << >> => PartStream(ps) = << >>
         /\ ps # << >> =>
              /\ Len(PartStream(ps)) >= 5 /\ PartStream(ps)[4] = 0 /\ PartStream(ps)[5] \in 36..122
<1>1. PartWords(ps) \in Seq(Seq(0..255)) /\ Len(PartWords(ps)) = Len(ps)
  BY PartWordsType
<1>2. PartStream(ps) \in Seq(0..255)
  BY <1>1, Flattened DEF PartStream
<1>3. ASSUME ps = << >> PROVE PartStream(ps) = << >>
  <2>1. Len(PartWords(ps)) = 0 /\ PartWords(ps) = << >>
    BY <1>1, <1>3
  <2> QED
    BY <2>1 DEF PartStream, Layout!FlattenSeq
<1>4. ASSUME ps # << >>
      PROVE  Len(PartStream(ps)) >= 5 /\ PartStream(ps)[4] = 0 /\ PartStream(ps)[5] \in 36..122
  <2> DEFINE v == PartStream(ps)
             x == ps[1].name
  <2>1. PICK e : Joined(PartWords(ps), e, v)
    BY <1>1, Flattened DEF PartStream
  <2>2. 1 \in 1..Len(ps) /\ 1 - 1 = 0
    BY <1>4
  <2>3. x \in Seq(0..255) /\ Len(x) \in 1..255 /\ \A i \in 1..Len(x) : x[i] \in 36..122
    <3>1. ps[1] \in Layout!Part
      BY <2>2, PartWordsType
    <3>2. x \in Layout!Identifiers
      BY <3>1, PartShapes
    <3> QED
      BY <3>2, NamesAndTypes
  <2>4. /\ e[1] <= Len(v) /\ e[1] \in Nat /\ e[0] = 0
        /\ \A i \in 1..(4 + Len(x)) : v[e[0] + i] = Layout!Prefixed(x)[i]
    <3>1. /\ e[1] <= Len(v) /\ e[1] \in Nat
          /\ \A i \in 1..(4 + Len(x)) : v[e[1-1] + i] = Layout!Prefixed(x)[i]
      <4>1. PartLies(ps[1], e[1-1], e[1], v)
        BY <2>1, <2>2, PartInStream
      <4> QED
        BY <4>1 DEF PartLies
    <3> QED
      BY <2>1, <2>2, <3>1 DEF Joined
  <2>5. e[1] = Len(PartWords(ps)[1])
    BY <1>1, <2>1, <2>2 DEF Joined
  <2>6. Len(PartWords(ps)[1]) >= 4 + Len(x)
    <3> DEFINE y == Len(ps[1].sig)
               n == Len(x)
               l == Len(PartWords(ps)[1])
    <3>1. ps[1] \in Layout!Part /\ PartWords(ps)[1] = Layout!PartBytes(ps[1])
      BY <2>2, PartWordsType
    <3>2. l = 4 + n \/ (l = 4 + n + 4 + y /\ y \in Nat)
      BY <3>1, PartAt
    <3>3. n \in Nat
      BY <2>3
    <3> HIDE DEF y, n, l
    <3>4. l >= 4 + n
      BY <3>2, <3>3
    <3> QED
      BY <3>4 DEF n, l
  <2> HIDE DEF v, x
  <2> DEFINE n == Len(x)
             l == Len(v)
             z == e[1]
  <2>7. n \in 1..255 /\ l \in Nat /\ z \in Nat /\ z <= l /\ z >= 4 + n
    BY <1>2, <2>3, <2>4, <2>5, <2>6 DEF v
  <2> HIDE DEF n, l, z
  <2>8. l >= 5 /\ 4 \in 1..(4 + n) /\ 5 \in 1..(4 + n) /\ 1 \in 1..n /\ n # 0
    BY <2>7
  <2>9. v[4] = Layout!Prefixed(x)[4] /\ v[5] = Layout!Prefixed(x)[5]
    <3>1. v[0 + 4] = Layout!Prefixed(x)[4] /\ v[0 + 5] = Layout!Prefixed(x)[5]
      BY <2>4, <2>8 DEF n
    <3> QED
      BY <3>1
  <2>10. Layout!Prefixed(x)[5] \in 36..122
    BY <2>3, <2>8, PrefixedHead DEF n
  <2>11. Layout!Prefixed(x)[4] = 0
    <3>1. Layout!Prefixed(x)[4] = Layout!Le32(n)[4]
      BY <2>3, PrefixedBytes DEF n
    <3>2. (n \div 16777216) % 256 = 0
      BY <2>7, SMT
    <3> QED
      BY <3>1, <3>2, SMT DEF Layout!Le32
  <2> QED
    BY <2>8, <2>9, <2>10, <2>11 DEF v, l
<1> QED
  BY <1>2, <1>3, <1>4

(* The structs of a module; a native one has no parts.                     *)
Structs ==
    {s \in [name : Layout!Identifiers, abilities : Abilities, kind : Layout!Kinds, parts : Seq(Layout!Part)] :
        s.kind = "Native" => s.parts = << >>}

(* The bytes of a struct's fields by its kind.                             *)
LEMMA FieldsByKind ==
  ASSUME Layout!LayoutAssumption, NEW s \in Structs
  PROVE  /\ Layout!FieldBytes(s) \in Seq(0..255) /\ s.parts \in Seq(Layout!Part)
         /\ s.kind = "Native" => Layout!FieldBytes(s) = <<255>> /\ s.parts = << >>
         /\ s.kind = "Declared" => Layout!FieldBytes(s) = PartStream(s.parts)
         /\ s.kind = "DeclaredVariants" => Layout!FieldBytes(s) = <<254>> \o PartStream(s.parts)
         /\ s.kind \in {"Native", "Declared", "DeclaredVariants"}
<1>1. s.parts \in Seq(Layout!Part) /\ s.kind \in {"Native", "Declared", "DeclaredVariants"}
  BY DEF Structs, Layout!Kinds
<1>2. PartStream(s.parts) \in Seq(0..255)
  BY <1>1, StreamHead
<1>3. CASE s.kind = "Native"
  <2>1. s.parts = << >>
    BY <1>3 DEF Structs
  <2>2. Layout!FieldBytes(s) = <<255>>
    BY <1>3 DEF Layout!FieldBytes
  <2> QED
    BY <1>1, <1>3, <2>1, <2>2
<1>4. CASE s.kind = "Declared"
  <2>1. Layout!FieldBytes(s) = PartStream(s.parts)
    BY <1>4 DEF Layout!FieldBytes, PartStream, PartWords
  <2> QED
    BY <1>1, <1>2, <1>4, <2>1
<1>5. CASE s.kind = "DeclaredVariants"
  <2>1. Layout!FieldBytes(s) = <<254>> \o PartStream(s.parts)
    BY <1>5 DEF Layout!FieldBytes, PartStream, PartWords
  <2>2. <<254>> \in Seq(0..255)
    OBVIOUS
  <2>3. <<254>> \o PartStream(s.parts) \in Seq(0..255)
    BY <1>2, <2>2, Concatenated
  <2> QED
    BY <1>1, <1>5, <2>1, <2>3
<1> QED
  BY <1>1, <1>3, <1>4, <1>5

(* Concatenations after heads of one length determine their tails.         *)
LEMMA SameTail ==
  ASSUME NEW S, NEW g \in Seq(S), NEW h \in Seq(S), NEW a \in Seq(S), NEW b \in Seq(S)
  PROVE  Len(g) = Len(h) /\ g \o a = h \o b => a = b
<1>1. /\ Len(g \o a) = Len(g) + Len(a) /\ Len(g) \in Nat /\ Len(a) \in Nat
      /\ \A i \in 1..Len(a) : (g \o a)[Len(g) + i] = a[i]
  BY Concatenated
<1>2. /\ Len(h \o b) = Len(h) + Len(b) /\ Len(b) \in Nat
      /\ \A i \in 1..Len(b) : (h \o b)[Len(h) + i] = b[i]
  BY Concatenated
<1> SUFFICES ASSUME Len(g) = Len(h), g \o a = h \o b PROVE a = b
  OBVIOUS
<1>3. Len(a) = Len(b)
  BY <1>1, <1>2
<1>4. \A i \in 1..Len(a) : a[i] = b[i]
  BY <1>1, <1>2, <1>3
<1>5. a = [i \in 1..Len(a) |-> a[i]] /\ b = [i \in 1..Len(b) |-> b[i]]
  OBVIOUS
<1> QED
  BY <1>3, <1>4, <1>5

(* The bytes of a struct's fields determine its kind and its parts.        *)
LEMMA SameFields ==
  ASSUME Layout!LayoutAssumption, NEW s \in Structs, NEW t \in Structs,
         Layout!FieldBytes(s) = Layout!FieldBytes(t), Len(Layout!FieldBytes(s)) <= MaxU32
  PROVE  s.kind = t.kind /\ s.parts = t.parts
<1> DEFINE v == Layout!FieldBytes(s)
<1>1. v \in Seq(0..255) /\ Len(v) \in Nat
  BY FieldsByKind
<1>2. ASSUME NEW x \in Structs, Layout!FieldBytes(x) = v
      PROVE  /\ x.kind = "Native" => Len(v) = 1 /\ v[1] = 255
             /\ x.kind = "Declared" => Len(v) = 0 \/ (Len(v) >= 5 /\ v[5] \in 36..122)
             /\ x.kind = "DeclaredVariants" => v[1] = 254 /\ (Len(v) = 1 \/ v[5] = 0)
  <2> DEFINE w == PartStream(x.parts)
  <2>1. x.parts \in Seq(Layout!Part) /\ x.kind \in {"Native", "Declared", "DeclaredVariants"}
    BY FieldsByKind
  <2>2. /\ w \in Seq(0..255)
        /\ w = << >> \/ (Len(w) >= 5 /\ w[4] = 0 /\ w[5] \in 36..122)
    BY <2>1, StreamHead
  <2> HIDE DEF w
  <2>3. CASE x.kind = "Native"
    BY <1>2, <2>3, FieldsByKind
  <2>4. CASE x.kind = "Declared"
    <3>1. v = w
      BY <1>2, <2>4, FieldsByKind DEF w
    <3> HIDE DEF v
    <3> QED
      BY <2>2, <2>4, <3>1
  <2>5. CASE x.kind = "DeclaredVariants"
    <3>1. v = <<254>> \o w
      BY <1>2, <2>5, FieldsByKind DEF w
    <3> DEFINE h == <<254>>
    <3>2. h \in Seq(0..255) /\ Len(h) = 1 /\ h[1] = 254
      OBVIOUS
    <3>3. v = h \o w
      BY <3>1
    <3> HIDE DEF v, h
    <3>4. /\ Len(v) = 1 + Len(w) /\ \A i \in 1..1 : v[i] = h[i]
          /\ \A i \in 1..Len(w) : v[1 + i] = w[i]
      <4>1. /\ Len(h \o w) = Len(h) + Len(w)
            /\ \A i \in 1..Len(h) : (h \o w)[i] = h[i]
            /\ \A i \in 1..Len(w) : (h \o w)[Len(h) + i] = w[i]
        <5>1. h \in Seq(0..255) /\ w \in Seq(0..255)
          BY <2>2, <3>2
        <5> QED
          BY <5>1, Concatenated
      <4> QED
        BY <3>2, <3>3, <4>1
    <3>5. v[1] = 254
      BY <3>2, <3>4
    <3>6. CASE w = << >>
      BY <2>5, <3>4, <3>5, <3>6
    <3>7. CASE Len(w) >= 5 /\ w[4] = 0
      <4>1. 4 \in 1..Len(w) /\ 1 + 4 = 5
        BY <2>2, <3>7
      <4>2. v[1 + 4] = w[4]
        BY <3>4, <4>1
      <4> QED
        BY <2>5, <3>5, <3>7, <4>1, <4>2
    <3> QED
      BY <2>2, <3>6, <3>7
  <2> QED
    BY <2>1, <2>3, <2>4, <2>5
<1>3. /\ s.kind \in {"Native", "Declared", "DeclaredVariants"}
      /\ t.kind \in {"Native", "Declared", "DeclaredVariants"}
      /\ s.parts \in Seq(Layout!Part) /\ t.parts \in Seq(Layout!Part)
  BY FieldsByKind
<1>4. s.kind = t.kind
  <2>1. /\ s.kind = "Native" => Len(v) = 1 /\ v[1] = 255
        /\ s.kind = "Declared" => Len(v) = 0 \/ (Len(v) >= 5 /\ v[5] \in 36..122)
        /\ s.kind = "DeclaredVariants" => v[1] = 254 /\ (Len(v) = 1 \/ v[5] = 0)
    BY <1>2
  <2>2. /\ t.kind = "Native" => Len(v) = 1 /\ v[1] = 255
        /\ t.kind = "Declared" => Len(v) = 0 \/ (Len(v) >= 5 /\ v[5] \in 36..122)
        /\ t.kind = "DeclaredVariants" => v[1] = 254 /\ (Len(v) = 1 \/ v[5] = 0)
    BY <1>2
  <2>3. \A s1 \in {s, t} : s1.kind = "DeclaredVariants" => Len(v) # 0
    <3>1. ASSUME NEW x \in {s, t}, x.kind = "DeclaredVariants" PROVE Len(v) # 0
      <4>1. v = <<254>> \o PartStream(x.parts)
        BY <3>1, FieldsByKind
      <4>2. PartStream(x.parts) \in Seq(0..255) /\ <<254>> \in Seq(0..255) /\ Len(<<254>>) = 1
        BY <1>3, <3>1, StreamHead
      <4>3. Len(v) = 1 + Len(PartStream(x.parts))
        BY <4>1, <4>2
      <4> QED
        BY <4>2, <4>3
    <3> QED
      BY <3>1
  <2> DEFINE a == v[1]
             b == v[5]
             l == Len(v)
             j == s.kind
             k == t.kind
  <2>4. /\ l \in Nat /\ j \in {"Native", "Declared", "DeclaredVariants"}
        /\ k \in {"Native", "Declared", "DeclaredVariants"}
        /\ j = "Native" => l = 1 /\ a = 255
        /\ j = "Declared" => l = 0 \/ (l >= 5 /\ b \in 36..122)
        /\ j = "DeclaredVariants" => a = 254 /\ (l = 1 \/ b = 0) /\ l # 0
        /\ k = "Native" => l = 1 /\ a = 255
        /\ k = "Declared" => l = 0 \/ (l >= 5 /\ b \in 36..122)
        /\ k = "DeclaredVariants" => a = 254 /\ (l = 1 \/ b = 0) /\ l # 0
    BY <1>1, <1>3, <2>1, <2>2, <2>3
  <2> HIDE DEF a, b, l, j, k
  <2>5. j = k
    <3> DEFINE N == "Native"
               D == "Declared"
               V == "DeclaredVariants"
    <3>1. ~(j = N /\ k = D) /\ ~(k = N /\ j = D)
      BY <2>4
    <3>2. ~(j = N /\ k = V) /\ ~(k = N /\ j = V)
      BY <2>4
    <3>3. ~(j = D /\ k = V) /\ ~(k = D /\ j = V)
      <4>1. b \in 36..122 => b # 0
        OBVIOUS
      <4>2. l >= 5 => l # 1
        BY <2>4
      <4> QED
        BY <2>4, <4>1, <4>2
    <3>4. j \in {N, D, V} /\ k \in {N, D, V}
      BY <2>4
    <3> HIDE DEF N, D, V
    <3> QED
      BY <3>1, <3>2, <3>3, <3>4
  <2> QED
    BY <2>5 DEF j, k
<1>5. CASE s.kind = "Native"
  BY <1>4, <1>5, FieldsByKind
<1>6. CASE s.kind = "Declared"
  BY <1>3, <1>4, <1>6, FieldsByKind, SameParts
<1>7. CASE s.kind = "DeclaredVariants"
  <2> DEFINE a == PartStream(s.parts)
             b == PartStream(t.parts)
             h == <<254>>
  <2>1. a \in Seq(0..255) /\ b \in Seq(0..255) /\ h \in Seq(0..255) /\ Len(h) = 1
    BY <1>3, StreamHead
  <2>2. v = h \o a /\ v = h \o b
    BY <1>4, <1>7, FieldsByKind
  <2> HIDE DEF a, b, h
  <2>3. a = b
    BY <2>1, <2>2, SameTail
  <2>4. Len(v) = 1 + Len(a)
    <3>1. Len(h \o a) = Len(h) + Len(a)
      BY <2>1, Concatenated
    <3> QED
      BY <2>1, <2>2, <3>1
  <2>5. Len(a) <= MaxU32
    BY <1>1, <2>1, <2>4, ShortLengths
  <2> QED
    BY <1>3, <1>4, <2>3, <2>5, SameParts DEF a, b
<1> QED
  BY <1>3, <1>4, <1>5, <1>6, <1>7

(* The bytes of a struct: its name, which has no length of its own, a byte *)
(* that is no letter, and the fields.                                      *)
LEMMA StructAt ==
  ASSUME Layout!LayoutAssumption, NEW s \in Structs
  PROVE  /\ Layout!StructBytes(s) \in Seq(0..255) /\ Len(s.name) \in 1..255
         /\ Len(Layout!StructBytes(s)) = Len(s.name) + 1 + (4 + Len(Layout!FieldBytes(s)))
         /\ \A i \in 1..Len(s.name) :
              Layout!StructBytes(s)[i] = s.name[i] /\ s.name[i] \in 36..122
         /\ Layout!StructBytes(s)[Len(s.name) + 1] = s.abilities /\ s.abilities \in 0..15
         /\ \A i \in 1..(4 + Len(Layout!FieldBytes(s))) :
              Layout!StructBytes(s)[Len(s.name) + 1 + i] = Layout!Prefixed(Layout!FieldBytes(s))[i]
<1> DEFINE x == s.name
           a == <<s.abilities>>
           f == Layout!FieldBytes(s)
           p == Layout!Prefixed(f)
           B == 0..255
<1>1. x \in Seq(B) /\ Len(x) \in 1..255 /\ \A i \in 1..Len(x) : x[i] \in 36..122
  <2>1. x \in Layout!Identifiers
    BY DEF Structs
  <2> QED
    BY <2>1, NamesAndTypes
<1>2. s.abilities \in 0..15
  BY DEF Structs, Layout!LayoutAssumption
<1>3. a \in Seq(B) /\ Len(a) = 1 /\ a[1] = s.abilities
  BY <1>2
<1>4. f \in Seq(B) /\ p \in Seq(B) /\ Len(p) = 4 + Len(f) /\ Len(f) \in Nat
  BY FieldsByKind, PrefixedBytes
<1>5. Layout!StructBytes(s) = (x \o a) \o p
  BY DEF Layout!StructBytes
<1> HIDE DEF x, a, f, p, B
<1>6. /\ x \o a \in Seq(B) /\ Len(x \o a) = Len(x) + 1 /\ Len(x) \in Nat
      /\ \A i \in 1..Len(x) : (x \o a)[i] = x[i]
      /\ (x \o a)[Len(x) + 1] = s.abilities
  <2>1. /\ x \o a \in Seq(B) /\ Len(x \o a) = Len(x) + Len(a)
        /\ \A i \in 1..Len(x) : (x \o a)[i] = x[i]
        /\ \A i \in 1..Len(a) : (x \o a)[Len(x) + i] = a[i]
    <3>1. x \in Seq(B) /\ a \in Seq(B)
      BY <1>1, <1>3
    <3> QED
      BY <3>1, Concatenated
  <2> QED
    BY <1>1, <1>3, <2>1
<1>7. /\ (x \o a) \o p \in Seq(B) /\ Len((x \o a) \o p) = Len(x) + 1 + (4 + Len(f))
      /\ \A i \in 1..(Len(x) + 1) : ((x \o a) \o p)[i] = (x \o a)[i]
      /\ \A i \in 1..(4 + Len(f)) : ((x \o a) \o p)[Len(x) + 1 + i] = p[i]
  <2> DEFINE y == x \o a
  <2>1. y \in Seq(B) /\ Len(y) = Len(x) + 1
    BY <1>6
  <2> HIDE DEF y
  <2>2. /\ y \o p \in Seq(B) /\ Len(y \o p) = Len(y) + Len(p)
        /\ \A i \in 1..Len(y) : (y \o p)[i] = y[i]
        /\ \A i \in 1..Len(p) : (y \o p)[Len(y) + i] = p[i]
    <3>1. y \in Seq(B) /\ p \in Seq(B)
      BY <1>4, <2>1
    <3> QED
      BY <3>1, Concatenated
  <2>3. /\ y \o p \in Seq(B) /\ Len(y \o p) = Len(x) + 1 + (4 + Len(f))
        /\ \A i \in 1..(Len(x) + 1) : (y \o p)[i] = y[i]
        /\ \A i \in 1..(4 + Len(f)) : (y \o p)[Len(x) + 1 + i] = p[i]
    BY <1>4, <2>1, <2>2
  <2> QED
    BY <2>3 DEF y
<1>8. /\ \A i \in 1..Len(x) : i \in 1..(Len(x) + 1)
      /\ Len(x) + 1 \in 1..(Len(x) + 1)
  BY <1>6
<1>9. /\ \A i \in 1..Len(x) : ((x \o a) \o p)[i] = x[i]
      /\ ((x \o a) \o p)[Len(x) + 1] = s.abilities
  BY <1>6, <1>7, <1>8
<1> QED
  BY <1>1, <1>2, <1>5, <1>7, <1>9 DEF x, f, p, B

(* A struct whose fields' length fits in its four bytes.                   *)
Fits(s) == Len(Layout!FieldBytes(s)) <= MaxU32

(* No struct's bytes begin another's.                                      *)
LEMMA SameStruct ==
  ASSUME Layout!LayoutAssumption, NEW s \in Structs, NEW t \in Structs, Fits(s), Fits(t),
         Agree(Layout!StructBytes(s), Layout!StructBytes(t))
  PROVE  s = t
<1> DEFINE a == Layout!StructBytes(s)
           b == Layout!StructBytes(t)
           x == s.name
           y == t.name
           f == Layout!FieldBytes(s)
           g == Layout!FieldBytes(t)
           n == Len(x)
           m == Len(y)
           i == Len(f)
           j == Len(g)
<1>1. /\ n \in 1..255 /\ m \in 1..255 /\ i \in Nat /\ j \in Nat
      /\ Len(a) = n + 1 + (4 + i) /\ Len(b) = m + 1 + (4 + j)
  <2>1. f \in Seq(0..255) /\ g \in Seq(0..255)
    BY FieldsByKind
  <2>2. i \in Nat /\ j \in Nat
    BY <2>1
  <2>3. n \in 1..255 /\ Len(a) = n + 1 + (4 + i)
    BY StructAt
  <2>4. m \in 1..255 /\ Len(b) = m + 1 + (4 + j)
    BY StructAt
  <2> QED
    BY <2>2, <2>3, <2>4
<1>2. /\ \A k \in 1..n : a[k] = x[k] /\ x[k] \in 36..122
      /\ a[n + 1] = s.abilities /\ s.abilities \in 0..15
      /\ \A k \in 1..(4 + i) : a[n + 1 + k] = Layout!Prefixed(f)[k]
  BY StructAt
<1>3. /\ \A k \in 1..m : b[k] = y[k] /\ y[k] \in 36..122
      /\ b[m + 1] = t.abilities /\ t.abilities \in 0..15
      /\ \A k \in 1..(4 + j) : b[m + 1 + k] = Layout!Prefixed(g)[k]
  BY StructAt
<1>4. \A k \in Nat \ {0} : k <= Len(a) /\ k <= Len(b) => a[k] = b[k]
  <2>1. Len(a) \in Nat /\ Len(b) \in Nat
    BY StructAt
  <2> QED
    BY <2>1 DEF Agree
<1>5. x \in Seq(0..255) /\ y \in Seq(0..255) /\ f \in Seq(0..255) /\ g \in Seq(0..255)
  BY FieldsByKind, NamesAndTypes DEF Structs
<1>6. \A k \in 36..122 : k \notin 0..15
  OBVIOUS
<1> HIDE DEF a, b, n, m, i, j
<1>7. ~(n < m)
  <2> SUFFICES ASSUME n < m PROVE FALSE
    OBVIOUS
  <2>1. n + 1 \in 1..m /\ n + 1 \in Nat \ {0} /\ n + 1 <= Len(a) /\ n + 1 <= Len(b)
    BY <1>1
  <2>2. a[n + 1] = b[n + 1]
    BY <1>4, <2>1
  <2>3. b[n + 1] \in 36..122
    BY <1>3, <2>1
  <2>4. a[n + 1] \in 0..15
    BY <1>2
  <2> QED
    BY <1>6, <2>2, <2>3, <2>4
<1>8. ~(m < n)
  <2> SUFFICES ASSUME m < n PROVE FALSE
    OBVIOUS
  <2>1. m + 1 \in 1..n /\ m + 1 \in Nat \ {0} /\ m + 1 <= Len(a) /\ m + 1 <= Len(b)
    BY <1>1
  <2>2. a[m + 1] = b[m + 1]
    BY <1>4, <2>1
  <2>3. a[m + 1] \in 36..122
    BY <1>2, <2>1
  <2>4. b[m + 1] \in 0..15
    BY <1>3
  <2> QED
    BY <1>6, <2>2, <2>3, <2>4
<1>9. n = m
  BY <1>1, <1>7, <1>8
<1>10. x = y
  <2>1. \A k \in 1..n : k \in Nat \ {0} /\ k <= Len(a) /\ k <= Len(b)
    BY <1>1, <1>9
  <2>2. \A k \in 1..n : x[k] = y[k]
    BY <1>2, <1>3, <1>4, <1>9, <2>1
  <2> HIDE DEF x, y
  <2> QED
    BY <1>5, <1>9, <2>2, SameElements DEF n, m
<1>11. s.abilities = t.abilities
  <2>1. n + 1 \in Nat \ {0} /\ n + 1 <= Len(a) /\ n + 1 <= Len(b)
    BY <1>1, <1>9
  <2> QED
    BY <1>2, <1>3, <1>4, <1>9, <2>1
<1>12. f = g
  <2>1. Len(Layout!Prefixed(f)) = 4 + i /\ Len(Layout!Prefixed(g)) = 4 + j
    BY <1>5, PrefixedBytes DEF i, j
  <2>2. \A k \in 1..(4 + i) : k <= 4 + j => Layout!Prefixed(f)[k] = Layout!Prefixed(g)[k]
    <3> HIDE DEF f, g
    <3> SUFFICES ASSUME NEW k \in 1..(4 + i), k <= 4 + j
                 PROVE  Layout!Prefixed(f)[k] = Layout!Prefixed(g)[k]
      OBVIOUS
    <3>1. /\ k \in 1..(4 + j) /\ n + 1 + k \in Nat \ {0}
          /\ n + 1 + k <= Len(a) /\ n + 1 + k <= Len(b)
      BY <1>1, <1>9
    <3> QED
      BY <1>2, <1>3, <1>4, <1>9, <3>1
  <2>3. Agree(Layout!Prefixed(f), Layout!Prefixed(g))
    BY <2>1, <2>2 DEF Agree
  <2>4. Len(f) <= MaxU32 /\ Len(g) <= MaxU32
    BY DEF Fits
  <2> HIDE DEF f, g
  <2> QED
    BY <1>5, <2>3, <2>4, PrefixedApart
<1>13. s.kind = t.kind /\ s.parts = t.parts
  BY <1>12, SameFields DEF Fits
<1>14. /\ s = [name |-> s.name, abilities |-> s.abilities, kind |-> s.kind, parts |-> s.parts]
       /\ t = [name |-> t.name, abilities |-> t.abilities, kind |-> t.kind, parts |-> t.parts]
  BY DEF Structs
<1> QED
  BY <1>10, <1>11, <1>13, <1>14

(* The stream of structs determines them.                                  *)
LEMMA SameModule ==
  ASSUME Layout!LayoutAssumption, NEW m \in Seq(Structs), NEW n \in Seq(Structs),
         \A k \in 1..Len(m) : Fits(m[k]), \A k \in 1..Len(n) : Fits(n[k]),
         Layout!StructsStream(m) = Layout!StructsStream(n)
  PROVE  m = n
<1> DEFINE Words(ss) == [k \in DOMAIN ss |-> Layout!StructBytes(ss[k])]
           B == 0..255
           C == {Layout!StructBytes(s) : s \in {s \in Structs : Fits(s)}}
<1>1. C \subseteq Seq(B)
  BY StructAt
<1>2. PrefixCode(C)
  <2>1. ASSUME NEW s \in Structs PROVE Len(Layout!StructBytes(s)) \in Nat \ {0}
    <3> DEFINE i == Len(s.name)
               f == Layout!FieldBytes(s)
               j == Len(f)
               l == Len(Layout!StructBytes(s))
    <3>1. f \in Seq(0..255)
      BY FieldsByKind
    <3>2. i \in 1..255 /\ j \in Nat /\ l = i + 1 + (4 + j)
      <4>1. j \in Nat
        BY <3>1
      <4>2. i \in 1..255 /\ l = i + 1 + (4 + j)
        BY StructAt
      <4> QED
        BY <4>1, <4>2
    <3> HIDE DEF i, j, l
    <3>3. l \in Nat \ {0}
      BY <3>2
    <3> QED
      BY <3>3 DEF l
  <2>2. ASSUME NEW s \in Structs, NEW t \in Structs, Fits(s), Fits(t),
               Agree(Layout!StructBytes(s), Layout!StructBytes(t))
        PROVE  Layout!StructBytes(s) = Layout!StructBytes(t)
    BY <2>2, SameStruct
  <2> QED
    BY <2>1, <2>2 DEF PrefixCode
<1>3. ASSUME NEW ss \in Seq(Structs), \A k \in 1..Len(ss) : Fits(ss[k])
      PROVE  /\ Words(ss) \in Seq(C) /\ Len(Words(ss)) = Len(ss)
             /\ \A k \in 1..Len(ss) : ss[k] \in Structs /\ Words(ss)[k] = Layout!StructBytes(ss[k])
  <2> DEFINE l == Len(ss)
             F(k) == Layout!StructBytes(ss[k])
  <2>1. l \in Nat /\ DOMAIN ss = 1..l /\ \A k \in 1..l : ss[k] \in Structs
    BY ElementsOfSeq
  <2>2. \A k \in 1..l : F(k) \in C
    BY <1>3, <2>1
  <2>3. Words(ss) = [k \in 1..l |-> F(k)]
    BY <2>1
  <2> HIDE DEF C, l, F
  <2>4. /\ [k \in 1..l |-> F(k)] \in Seq(C) /\ Len([k \in 1..l |-> F(k)]) = l
        /\ \A k \in 1..l : [i \in 1..l |-> F(i)][k] = F(k)
    BY <2>1, <2>2
  <2> HIDE DEF Words
  <2> QED
    BY <2>1, <2>3, <2>4 DEF l, F
<1> HIDE DEF C, B
<1>4. /\ Words(m) \in Seq(C) /\ Len(Words(m)) = Len(m)
      /\ Words(n) \in Seq(C) /\ Len(Words(n)) = Len(n)
  BY <1>3
<1>5. Layout!FlattenSeq(Words(m)) = Layout!FlattenSeq(Words(n))
  <2> DEFINE g == Layout!Le32(Len(m))
             h == Layout!Le32(Len(n))
             a == Layout!FlattenSeq(Words(m))
             b == Layout!FlattenSeq(Words(n))
  <2>1. g \in Seq(B) /\ h \in Seq(B) /\ Len(g) = Len(h)
    <3>1. Len(m) \in Nat /\ Len(n) \in Nat
      OBVIOUS
    <3> QED
      BY <3>1, Le32Bytes DEF B
  <2>2. a \in Seq(B) /\ b \in Seq(B)
    <3>1. Words(m) \in Seq(Seq(B)) /\ Words(n) \in Seq(Seq(B))
      BY <1>1, <1>4, WiderSeq
    <3> HIDE DEF Words
    <3> QED
      BY <3>1, Flattened
  <2>3. g \o a = h \o b
    BY DEF Layout!StructsStream
  <2> HIDE DEF g, h, a, b
  <2>4. a = b
    BY <2>1, <2>2, <2>3, SameTail
  <2> QED
    BY <2>4 DEF a, b
<1>6. Words(m) = Words(n)
  <2> HIDE DEF Words
  <2> QED
    BY <1>1, <1>2, <1>4, <1>5, Decoded
<1>7. Len(m) = Len(n)
  BY <1>4, <1>6
<1>8. ASSUME NEW k \in 1..Len(m) PROVE m[k] = n[k]
  <2>1. /\ m[k] \in Structs /\ Words(m)[k] = Layout!StructBytes(m[k])
        /\ n[k] \in Structs /\ Words(n)[k] = Layout!StructBytes(n[k])
    BY <1>3, <1>7
  <2> HIDE DEF Words
  <2>2. Layout!StructBytes(m[k]) = Layout!StructBytes(n[k])
    BY <1>6, <2>1
  <2>3. Agree(Layout!StructBytes(m[k]), Layout!StructBytes(n[k]))
    BY <2>2 DEF Agree
  <2>4. Fits(m[k]) /\ Fits(n[k])
    BY <1>7
  <2> QED
    BY <2>1, <2>3, <2>4, SameStruct
<1>9. m = [k \in 1..Len(m) |-> m[k]] /\ n = [k \in 1..Len(n) |-> n[k]]
  OBVIOUS
<1> QED
  BY <1>7, <1>8, <1>9

(* An edit makes a module of structs from a module of structs.             *)
LEMMA EditKeeps ==
  ASSUME Layout!LayoutAssumption, NEW m \in Seq(Structs), NEW n \in Layout!Edit(m)
  PROVE  n \in Seq(Structs)
<1>1. ASSUME NEW x \in Layout!Identifiers, NEW a \in Abilities, NEW kind \in Layout!Kinds,
             n = Layout!WithStruct(m, x, a, kind)
      PROVE  n \in Seq(Structs)
  <2> DEFINE ps == IF kind = "DeclaredVariants" THEN <<Layout!Variant(Idents[1])>> ELSE << >>
             s == [name |-> x, abilities |-> a, kind |-> kind, parts |-> ps]
  <2>1. ps \in Seq(Layout!Part)
    <3>1. Idents[1] \in Layout!Identifiers
      <4>1. Idents \in Seq(Seq(36..122)) /\ DOMAIN Idents # {}
        BY DEF Layout!Identifiers, Layout!LayoutAssumption
      <4>2. 1 \in DOMAIN Idents
        BY <4>1
      <4> QED
        BY <4>2 DEF Layout!Identifiers
    <3>2. Layout!Variant(Idents[1]) \in Layout!Part
      BY <3>1 DEF Layout!Part
    <3> QED
      BY <3>2
  <2>2. kind = "Native" => ps = << >>
    OBVIOUS
  <2>3. n = Append(m, s)
    BY <1>1 DEF Layout!WithStruct
  <2> HIDE DEF ps
  <2>4. s \in Structs
    BY <2>1, <2>2 DEF Structs
  <2> HIDE DEF s
  <2> QED
    BY <2>3, <2>4
<1>2. ASSUME NEW part \in Layout!Part, Layout!MayAddPart(m, part), n = Layout!WithPart(m, part)
      PROVE  n \in Seq(Structs)
  <2> DEFINE l == Len(m)
             s == [m[l] EXCEPT !.parts = Append(@, part)]
  <2>1. m # << >> /\ m[l].kind # "Native"
    BY <1>2 DEF Layout!MayAddPart, Layout!Last
  <2>2. l \in 1..Len(m) /\ m[l] \in Structs
    BY <2>1
  <2>3. s \in Structs
    <3> DEFINE o == m[l]
               ps == Append(o.parts, part)
    <3>1. /\ o \in [name : Layout!Identifiers, abilities : Abilities, kind : Layout!Kinds,
                     parts : Seq(Layout!Part)]
          /\ o.kind # "Native"
      BY <2>1, <2>2 DEF Structs
    <3>2. s = [o EXCEPT !.parts = ps]
      OBVIOUS
    <3> HIDE DEF o, l, s
    <3>3. ps \in Seq(Layout!Part)
      BY <3>1
    <3> HIDE DEF ps
    <3>4. /\ s \in [name : Layout!Identifiers, abilities : Abilities, kind : Layout!Kinds,
                     parts : Seq(Layout!Part)]
          /\ s.kind # "Native"
      BY <3>1, <3>2, <3>3
    <3> QED
      BY <3>4 DEF Structs
  <2>4. n = [m EXCEPT ![l] = s]
    BY <1>2 DEF Layout!WithPart
  <2> HIDE DEF l, s
  <2> QED
    BY <2>2, <2>3, <2>4
<1> QED
  BY <1>1, <1>2 DEF Layout!Edit

(* Both versions of the module are modules of structs.                     *)
LayoutInv == oldStructs \in Seq(Structs) /\ newStructs \in Seq(Structs)

(* They stay so under every edit of either version.                       *)
LEMMA LayoutInvariance ==
  ASSUME Layout!LayoutAssumption PROVE Layout!Spec => []LayoutInv
<1>1. Layout!Init => LayoutInv
  BY DEF Layout!Init, LayoutInv
<1>2. LayoutInv /\ [Layout!Next]_(Layout!vars) => LayoutInv'
  BY EditKeeps DEF LayoutInv, Layout!Next, Layout!vars
<1> QED
  BY <1>1, <1>2, PTL DEF Layout!Spec

(* The lengths of both versions' fields fit in their four bytes.           *)
ModulesFit ==
    /\ \A k \in 1..Len(oldStructs) : Fits(oldStructs[k])
    /\ \A k \in 1..Len(newStructs) : Fits(newStructs[k])

(* The bytes under the ABI hash determine the structs of a module.         *)
LEMMA LayoutDecoded ==
  ASSUME Layout!LayoutAssumption PROVE Layout!Spec => [](ModulesFit => Layout!LayoutDetermined)
<1>1. LayoutInv => (ModulesFit => Layout!LayoutDetermined)
  BY SameModule DEF LayoutInv, ModulesFit, Layout!LayoutDetermined
<1> QED
  BY <1>1, LayoutInvariance, PTL

-----------------------------------------------------------------------------
(* The signatures under the ABI hash.                                      *)

(* What as_u8 in abi.rs can give.                                          *)
Byte == 0..255

(* Lists of what a set holds are lists of what a larger set holds.         *)
LEMMA MoreLists ==
  ASSUME NEW S, NEW T, S \subseteq T PROVE Encoding!Lists(S) \subseteq Encoding!Lists(T)
<1> SUFFICES ASSUME NEW s \in Encoding!Lists(S) PROVE s \in Encoding!Lists(T)
  OBVIOUS
<1>1. PICK m \in 0..MaxArgs : s \in [1..m -> S]
  BY DEF Encoding!Lists, Encoding!BoundedSeq, Encoding!SeqOf
<1>2. s \in [1..m -> T]
  BY <1>1
<1> QED
  BY <1>2 DEF Encoding!Lists, Encoding!BoundedSeq, Encoding!SeqOf

(* The types that hold those of a set are among those that hold the ones   *)
(* of a larger set.                                                        *)
LEMMA MoreTypes ==
  ASSUME NEW S, NEW T, S \subseteq T PROVE Encoding!TypesOver(S) \subseteq Encoding!TypesOver(T)
<1> DEFINE L == Encoding!Lists(S)
           M == Encoding!Lists(T)
<1>1. L \subseteq M
  BY MoreLists
<1> HIDE DEF L, M
<1>2. {Encoding!InstTok(i, as) : i \in Indices, as \in L \ {<< >>}}
        \subseteq {Encoding!InstTok(i, as) : i \in Indices, as \in M \ {<< >>}}
  BY <1>1
<1>3. {Encoding!FunctionTok(ps, rs, ab) : ps \in L, rs \in L, ab \in Abilities}
        \subseteq {Encoding!FunctionTok(ps, rs, ab) : ps \in M, rs \in M, ab \in Abilities}
  BY <1>1
<1>4. /\ {Encoding!VectorTok(t) : t \in S} \subseteq {Encoding!VectorTok(t) : t \in T}
      /\ {Encoding!RefTok(t) : t \in S} \subseteq {Encoding!RefTok(t) : t \in T}
      /\ {Encoding!MutRefTok(t) : t \in S} \subseteq {Encoding!MutRefTok(t) : t \in T}
  OBVIOUS
<1> QED
  BY <1>2, <1>3, <1>4 DEF Encoding!TypesOver, L, M

(* The types by their nesting, as their definition says: there is such a   *)
(* function for every depth.                                               *)
LEMMA TypesLevels ==
  ASSUME MaxNesting \in Nat
  PROVE  \A n \in 0..MaxNesting :
            Encoding!Types[n] =
              Encoding!TypesOver(IF n = 0 THEN {} ELSE Elements \cap Encoding!Types[n-1])
<1> DEFINE At(g, n) == Encoding!TypesOver(IF n = 0 THEN {} ELSE Elements \cap g[n-1])
           Is(g, m) == g = [n \in 0..m |-> At(g, n)]
           Good == {m \in Nat : \E g : Is(g, m)}
<1>1. 0 \in Good
  <2> DEFINE g == [n \in 0..0 |-> Encoding!TypesOver({})]
  <2>1. \A n \in 0..0 : At(g, n) = Encoding!TypesOver({})
    OBVIOUS
  <2>2. Is(g, 0)
    BY <2>1
  <2> HIDE DEF Is
  <2> QED
    BY <2>2
<1>2. ASSUME NEW m \in Nat, m \in Good PROVE m + 1 \in Good
  <2>1. PICK g : Is(g, m)
    BY <1>2
  <2> DEFINE h == [n \in 0..(m+1) |-> At(g, n)]
  <2>2. \A n \in 0..m : g[n] = At(g, n)
    BY <2>1
  <2>3. \A n \in 0..m : h[n] = g[n]
    <3>1. \A n \in 0..m : n \in 0..(m+1)
      OBVIOUS
    <3> HIDE DEF At
    <3>2. \A n \in 0..(m+1) : h[n] = At(g, n)
      OBVIOUS
    <3> HIDE DEF h
    <3> QED
      BY <2>2, <3>1, <3>2
  <2>4. ASSUME NEW n \in 0..(m+1) PROVE h[n] = At(h, n)
    <3>1. h[n] = At(g, n)
      OBVIOUS
    <3> HIDE DEF h
    <3>2. n # 0 => h[n-1] = g[n-1]
      <4>1. n # 0 => n - 1 \in 0..m
        OBVIOUS
      <4> QED
        BY <2>3, <4>1
    <3> QED
      BY <3>1, <3>2
  <2>5. Is(h, m + 1)
    BY <2>4
  <2> HIDE DEF Is
  <2> QED
    BY <2>5
<1>3. Nat \subseteq Good
  <2> HIDE DEF Good
  <2> QED
    BY <1>1, <1>2, NatSetInduction
<1>4. \E g : Is(g, MaxNesting)
  BY <1>3
<1> DEFINE f == CHOOSE g : Is(g, MaxNesting)
<1>5. Is(f, MaxNesting)
  <2> HIDE DEF Is
  <2> QED
    BY <1>4
<1>6. Encoding!Types = f
  BY DEF Encoding!Types
<1> HIDE DEF f
<1>7. \A n \in 0..MaxNesting : f[n] = At(f, n)
  BY <1>5
<1> QED
  BY <1>6, <1>7

(* What a type of a level holds is in the level below.                     *)
Held(n) == IF n = 0 THEN {} ELSE Elements \cap Encoding!Types[n-1]

(* What may be inside a type may be inside a type that is nested deeper,   *)
(* so the types of a level are among those of the next.                    *)
LEMMA LevelsGrow ==
  ASSUME MaxNesting \in Nat
  PROVE  \A n \in Nat : n + 1 <= MaxNesting =>
            /\ Held(n) \subseteq Held(n+1)
            /\ Encoding!Types[n] \subseteq Encoding!Types[n+1]
<1> DEFINE G == {n \in Nat : n + 1 <= MaxNesting =>
                    /\ Held(n) \subseteq Held(n+1)
                    /\ Encoding!Types[n] \subseteq Encoding!Types[n+1]}
<1>1. \A n \in 0..MaxNesting : Encoding!Types[n] = Encoding!TypesOver(Held(n))
  BY TypesLevels DEF Held
<1>2. 0 \in G
  <2> SUFFICES ASSUME 1 <= MaxNesting
               PROVE  Held(0) \subseteq Held(1) /\ Encoding!Types[0] \subseteq Encoding!Types[1]
    OBVIOUS
  <2>1. Held(0) \subseteq Held(1)
    BY DEF Held
  <2>2. Encoding!Types[0] = Encoding!TypesOver(Held(0)) /\ Encoding!Types[1] = Encoding!TypesOver(Held(1))
    BY <1>1
  <2> QED
    BY <2>1, <2>2, MoreTypes
<1>3. ASSUME NEW n \in Nat, n \in G PROVE n + 1 \in G
  <2> SUFFICES ASSUME (n + 1) + 1 <= MaxNesting
               PROVE  /\ Held(n+1) \subseteq Held((n+1)+1)
                      /\ Encoding!Types[n+1] \subseteq Encoding!Types[(n+1)+1]
    OBVIOUS
  <2>1. /\ n + 1 <= MaxNesting /\ n + 1 \in 0..MaxNesting /\ (n + 1) + 1 \in 0..MaxNesting
        /\ n + 1 # 0 /\ (n + 1) + 1 # 0 /\ ((n + 1) + 1) - 1 = n + 1 /\ (n + 1) - 1 = n
    OBVIOUS
  <2>2. Encoding!Types[n] \subseteq Encoding!Types[n+1]
    BY <1>3, <2>1
  <2>3. Held(n+1) \subseteq Held((n+1)+1)
    BY <2>1, <2>2 DEF Held
  <2>4. /\ Encoding!Types[n+1] = Encoding!TypesOver(Held(n+1))
        /\ Encoding!Types[(n+1)+1] = Encoding!TypesOver(Held((n+1)+1))
    BY <1>1, <2>1
  <2> QED
    BY <2>3, <2>4, MoreTypes
<1>4. Nat \subseteq G
  <2> HIDE DEF G
  <2> QED
    BY <1>2, <1>3, NatSetInduction
<1> QED
  BY <1>4

(* Lists inside a type are sequences, and their length fits in one byte.   *)
LEMMA ListsAreShort ==
  ASSUME MaxArgs \in 0..255, NEW S, NEW ts \in Encoding!Lists(S)
  PROVE  ts \in Seq(S) /\ Len(ts) \in Byte
<1>1. PICK m \in 0..MaxArgs : ts \in [1..m -> S]
  BY DEF Encoding!Lists, Encoding!BoundedSeq, Encoding!SeqOf
<1>2. m \in Nat /\ m \in Byte
  BY <1>1 DEF Byte
<1>3. ts \in Seq(S) /\ Len(ts) = m
  BY <1>1, <1>2
<1> QED
  BY <1>2, <1>3

(* The shapes of the types that hold none but those of a set.              *)
Flat(t) == t.tag \in 1..9 /\ t = [tag |-> t.tag]
Holder(t, S) ==
    /\ t.tag \in {10, 13, 14} /\ t.inner \in S
    /\ t = [tag |-> t.tag, inner |-> t.inner]
Index(t) ==
    /\ t.tag \in {11, 15} /\ t.idx \in Encoding!U16
    /\ t = [tag |-> t.tag, idx |-> t.idx]
Instantiation(t, S) ==
    /\ t.tag = 12 /\ t.idx \in Encoding!U16 /\ t.args \in Seq(S) /\ Len(t.args) \in Byte
    /\ t = [tag |-> 12, idx |-> t.idx, args |-> t.args]
FunctionType(t, S) ==
    /\ t.tag = 16 /\ t.abilities \in Byte
    /\ t.params \in Seq(S) /\ Len(t.params) \in Byte
    /\ t.ret \in Seq(S) /\ Len(t.ret) \in Byte
    /\ t = [tag |-> 16, params |-> t.params, ret |-> t.ret, abilities |-> t.abilities]

(* Every type has one of these shapes.                                     *)
LEMMA TokenShapes ==
  ASSUME Encoding!AbiEncodingAssumption, NEW S, NEW t \in Encoding!TypesOver(S)
  PROVE  Flat(t) \/ Holder(t, S) \/ Index(t) \/ Instantiation(t, S) \/ FunctionType(t, S)
<1>1. /\ SimpleTags \subseteq 1..9 /\ Abilities \subseteq 0..15 /\ Indices \subseteq Encoding!U16
      /\ Parameters \subseteq Encoding!U16 /\ MaxArgs \in 0..255
  BY DEF Encoding!AbiEncodingAssumption
<1>2. CASE \E tag \in SimpleTags : t = Encoding!SimpleTok(tag)
  <2>1. PICK tag \in SimpleTags : t = Encoding!SimpleTok(tag)
    BY <1>2
  <2>2. t = [tag |-> tag] /\ tag \in 1..9
    BY <1>1, <2>1 DEF Encoding!SimpleTok
  <2> QED
    BY <2>2 DEF Flat
<1>3. CASE \E i \in Indices : t = Encoding!StructTok(i)
  <2>1. PICK i \in Indices : t = Encoding!StructTok(i)
    BY <1>3
  <2>2. t = [tag |-> 11, idx |-> i] /\ i \in Encoding!U16
    BY <1>1, <2>1 DEF Encoding!StructTok
  <2> QED
    BY <2>2 DEF Index
<1>4. CASE \E i \in Parameters : t = Encoding!ParamTok(i)
  <2>1. PICK i \in Parameters : t = Encoding!ParamTok(i)
    BY <1>4
  <2>2. t = [tag |-> 15, idx |-> i] /\ i \in Encoding!U16
    BY <1>1, <2>1 DEF Encoding!ParamTok
  <2> QED
    BY <2>2 DEF Index
<1>5. CASE \E u \in S : t \in {Encoding!VectorTok(u), Encoding!RefTok(u), Encoding!MutRefTok(u)}
  <2>1. PICK u \in S : t \in {Encoding!VectorTok(u), Encoding!RefTok(u), Encoding!MutRefTok(u)}
    BY <1>5
  <2>2. PICK n \in {10, 13, 14} : t = [tag |-> n, inner |-> u]
    BY <2>1 DEF Encoding!VectorTok, Encoding!RefTok, Encoding!MutRefTok
  <2> QED
    BY <2>2 DEF Holder
<1>6. CASE \E i \in Indices, as \in Encoding!Lists(S) : t = Encoding!InstTok(i, as)
  <2>1. PICK i \in Indices, as \in Encoding!Lists(S) : t = Encoding!InstTok(i, as)
    BY <1>6
  <2>2. t = [tag |-> 12, idx |-> i, args |-> as] /\ i \in Encoding!U16
    BY <1>1, <2>1 DEF Encoding!InstTok
  <2>3. as \in Seq(S) /\ Len(as) \in Byte
    BY <1>1, ListsAreShort
  <2> QED
    BY <2>2, <2>3 DEF Instantiation
<1>7. CASE \E ps \in Encoding!Lists(S), rs \in Encoding!Lists(S), ab \in Abilities :
             t = Encoding!FunctionTok(ps, rs, ab)
  <2>1. PICK ps \in Encoding!Lists(S), rs \in Encoding!Lists(S), ab \in Abilities :
             t = Encoding!FunctionTok(ps, rs, ab)
    BY <1>7
  <2>2. t = [tag |-> 16, params |-> ps, ret |-> rs, abilities |-> ab] /\ ab \in Byte
    BY <1>1, <2>1 DEF Encoding!FunctionTok, Byte
  <2>3. /\ ps \in Seq(S) /\ Len(ps) \in Byte
        /\ rs \in Seq(S) /\ Len(rs) \in Byte
    BY <1>1, ListsAreShort
  <2> QED
    BY <2>2, <2>3 DEF FunctionType
<1> QED
  BY <1>2, <1>3, <1>4, <1>5, <1>6, <1>7 DEF Encoding!TypesOver

(* What is written of a type depends on what is written of the types in it.*)
LEMMA SameWritten ==
  ASSUME Encoding!AbiEncodingAssumption, NEW S, NEW f, NEW g, \A u \in S : f[u] = g[u],
         NEW t \in Encoding!TypesOver(S)
  PROVE  Encoding!TokenBytes(f, t) = Encoding!TokenBytes(g, t)
<1>1. ASSUME NEW ts \in Seq(S) PROVE Encoding!EncodeAll(f, ts) = Encoding!EncodeAll(g, ts)
  <2>1. \A k \in DOMAIN ts : f[ts[k]] = g[ts[k]]
    OBVIOUS
  <2>2. [k \in DOMAIN ts |-> f[ts[k]]] = [k \in DOMAIN ts |-> g[ts[k]]]
    BY <2>1
  <2> QED
    BY <2>2 DEF Encoding!EncodeAll
<1>2. CASE Flat(t)
  BY <1>2 DEF Flat, Encoding!TokenBytes
<1>3. CASE Holder(t, S)
  BY <1>3 DEF Holder, Encoding!TokenBytes
<1>4. CASE Index(t)
  BY <1>4 DEF Index, Encoding!TokenBytes
<1>5. CASE Instantiation(t, S)
  <2>1. t.tag = 12 /\ Encoding!EncodeAll(f, t.args) = Encoding!EncodeAll(g, t.args)
    BY <1>1, <1>5 DEF Instantiation
  <2> QED
    BY <2>1 DEF Encoding!TokenBytes
<1>6. CASE FunctionType(t, S)
  <2>1. /\ t.tag = 16 /\ Encoding!EncodeAll(f, t.params) = Encoding!EncodeAll(g, t.params)
        /\ Encoding!EncodeAll(f, t.ret) = Encoding!EncodeAll(g, t.ret)
    BY <1>1, <1>6 DEF FunctionType
  <2> QED
    BY <2>1 DEF Encoding!TokenBytes
<1> QED
  BY <1>2, <1>3, <1>4, <1>5, <1>6, TokenShapes

(* encode_token, as its definition says: there is such a function for      *)
(* types of every depth.                                                   *)
LEMMA TokensWritten ==
  ASSUME Encoding!AbiEncodingAssumption
  PROVE  \A t \in Encoding!Token :
            Encoding!EncodeToken[t] = Encoding!TokenBytes(Encoding!EncodeToken, t)
<1> DEFINE T(n) == Encoding!Types[n]
           Is(g, n) == g = [t \in T(n) |-> Encoding!TokenBytes(g, t)]
           Good == {n \in Nat : n <= MaxNesting => \E g : Is(g, n)}
<1>1. /\ MaxNesting \in Nat
      /\ \A n \in 0..MaxNesting : T(n) = Encoding!TypesOver(Held(n))
  BY TypesLevels DEF Held, Encoding!AbiEncodingAssumption
<1>2. 0 \in Good
  <2> DEFINE g == [t \in T(0) |-> Encoding!TokenBytes(<< >>, t)]
  <2>1. \A u \in Held(0) : g[u] = << >>[u]
    BY DEF Held
  <2>2. T(0) = Encoding!TypesOver(Held(0))
    BY <1>1
  <2>3. \A t \in T(0) : Encoding!TokenBytes(g, t) = Encoding!TokenBytes(<< >>, t)
    <3> HIDE DEF g
    <3> QED
      BY <2>1, <2>2, SameWritten
  <2> HIDE DEF T
  <2>4. Is(g, 0)
    BY <2>3
  <2> HIDE DEF Is
  <2> QED
    BY <2>4
<1>3. ASSUME NEW n \in Nat, n \in Good PROVE n + 1 \in Good
  <2> SUFFICES ASSUME n + 1 <= MaxNesting PROVE \E g : Is(g, n + 1)
    <3> HIDE DEF Is
    <3> QED
      OBVIOUS
  <2>1. n <= MaxNesting /\ n + 1 \in 0..MaxNesting /\ n + 1 # 0 /\ (n + 1) - 1 = n
    BY <1>1
  <2>2. PICK g : Is(g, n)
    BY <1>3, <2>1
  <2> DEFINE h == [t \in T(n+1) |-> Encoding!TokenBytes(g, t)]
  <2>3. T(n) \subseteq T(n+1) /\ Held(n+1) \subseteq T(n)
    BY <1>1, <2>1, LevelsGrow DEF Held
  <2>4. T(n+1) = Encoding!TypesOver(Held(n+1))
    BY <1>1, <2>1
  <2> HIDE DEF T
  <2>5. \A u \in Held(n+1) : g[u] = h[u]
    <3>1. ASSUME NEW u \in Held(n+1) PROVE g[u] = h[u]
      <4>1. u \in T(n) /\ u \in T(n+1)
        BY <2>3
      <4>2. g[u] = Encoding!TokenBytes(g, u)
        BY <2>2, <4>1
      <4>3. h[u] = Encoding!TokenBytes(g, u)
        BY <4>1
      <4> QED
        BY <4>2, <4>3
    <3> QED
      BY <3>1
  <2>6. \A t \in T(n+1) : Encoding!TokenBytes(g, t) = Encoding!TokenBytes(h, t)
    <3> HIDE DEF h
    <3> QED
      BY <2>4, <2>5, SameWritten
  <2>7. h = [t \in T(n+1) |-> Encoding!TokenBytes(h, t)]
    BY <2>6
  <2>8. Is(h, n + 1)
    BY <2>7
  <2> HIDE DEF Is
  <2> QED
    BY <2>8
<1>4. Nat \subseteq Good
  <2> HIDE DEF Good
  <2> QED
    BY <1>2, <1>3, NatSetInduction
<1>5. \E g : Is(g, MaxNesting)
  BY <1>1, <1>4
<1> DEFINE f == CHOOSE g : Is(g, MaxNesting)
<1>6. Is(f, MaxNesting)
  <2> HIDE DEF Is
  <2> QED
    BY <1>5
<1>7. Encoding!EncodeToken = f
  BY DEF Encoding!EncodeToken, Encoding!Token
<1> HIDE DEF f
<1>8. \A t \in T(MaxNesting) : f[t] = Encoding!TokenBytes(f, t)
  BY <1>6
<1> QED
  BY <1>7, <1>8 DEF Encoding!Token

(* What is written before and what after can be compared one by one.       *)
LEMMA AgreeParts ==
  ASSUME NEW B, NEW a \in Seq(B), NEW b \in Seq(B), NEW c \in Seq(B), NEW d \in Seq(B),
         Agree(a \o b, c \o d)
  PROVE  Agree(a, c) /\ (Len(a) = Len(c) => a = c /\ Agree(b, d))
<1> DEFINE v == a \o b
           w == c \o d
<1>1. /\ Len(v) = Len(a) + Len(b) /\ Len(a) \in Nat /\ Len(b) \in Nat
      /\ \A i \in 1..Len(a) : v[i] = a[i]
      /\ \A i \in 1..Len(b) : v[Len(a) + i] = b[i]
  BY Concatenated
<1>2. /\ Len(w) = Len(c) + Len(d) /\ Len(c) \in Nat /\ Len(d) \in Nat
      /\ \A i \in 1..Len(c) : w[i] = c[i]
      /\ \A i \in 1..Len(d) : w[Len(c) + i] = d[i]
  BY Concatenated
<1>3. \A i \in 1..Len(v) : i <= Len(w) => v[i] = w[i]
  BY DEF Agree
<1> HIDE DEF v, w
<1>4. \A i \in 1..Len(a) : i <= Len(c) => a[i] = c[i]
  <2> SUFFICES ASSUME NEW i \in 1..Len(a), i <= Len(c) PROVE a[i] = c[i]
    OBVIOUS
  <2>1. i \in 1..Len(v) /\ i <= Len(w) /\ i \in 1..Len(c)
    BY <1>1, <1>2
  <2> QED
    BY <1>1, <1>2, <1>3, <2>1
<1>5. ASSUME Len(a) = Len(c) PROVE a = c /\ Agree(b, d)
  <2>1. a = c
    BY <1>4, <1>5, SameElements
  <2>2. ASSUME NEW i \in 1..Len(b), i <= Len(d) PROVE b[i] = d[i]
    <3>1. Len(a) + i \in 1..Len(v) /\ Len(a) + i <= Len(w) /\ i \in 1..Len(d)
      BY <1>1, <1>2, <1>5, <2>2
    <3>2. v[Len(a) + i] = w[Len(a) + i]
      BY <1>3, <3>1
    <3> QED
      BY <1>1, <1>2, <1>5, <3>1, <3>2
  <2> QED
    BY <2>1, <2>2 DEF Agree
<1> QED
  BY <1>4, <1>5 DEF Agree

(* The types of a set are written in bytes, and none begins another.       *)
TokenCode(S) ==
    /\ \A t \in S : Encoding!EncodeToken[t] \in Seq(Byte) /\ Len(Encoding!EncodeToken[t]) # 0
    /\ \A t, u \in S : Agree(Encoding!EncodeToken[t], Encoding!EncodeToken[u]) => t = u

Written(ts) == Encoding!EncodeAll(Encoding!EncodeToken, ts)

(* So lists of them can be told apart where one knows their length, or     *)
(* where nothing follows.                                                  *)
LEMMA ListsTold ==
  ASSUME NEW S, TokenCode(S), NEW ts \in Seq(S), NEW us \in Seq(S)
  PROVE  /\ Written(ts) \in Seq(Byte)
         /\ \/ Written(ts) = Written(us)
            \/ Len(ts) = Len(us) /\ Agree(Written(ts), Written(us))
            => ts = us
<1> DEFINE F(t) == Encoding!EncodeToken[t]
           C == {F(t) : t \in S}
           Words(xs) == [k \in 1..Len(xs) |-> F(xs[k])]
<1>1. \A t \in S : F(t) \in Seq(Byte) /\ Len(F(t)) # 0
  BY DEF TokenCode
<1>2. \A t, u \in S : Agree(F(t), F(u)) => t = u
  BY DEF TokenCode
<1> HIDE DEF F
<1>3. C \subseteq Seq(Byte) /\ PrefixCode(C)
  BY <1>1, <1>2 DEF PrefixCode
<1>4. ASSUME NEW xs \in Seq(S)
      PROVE  /\ Written(xs) = Layout!FlattenSeq(Words(xs))
             /\ Words(xs) \in Seq(C) /\ Len(Words(xs)) = Len(xs)
             /\ \A k \in 1..Len(xs) : xs[k] \in S /\ Words(xs)[k] = F(xs[k])
  <2>1. \A k \in 1..Len(xs) : xs[k] \in S
    OBVIOUS
  <2>2. DOMAIN xs = 1..Len(xs) /\ Len(xs) \in Nat
    OBVIOUS
  <2>3. Written(xs) = Layout!FlattenSeq(Words(xs))
    BY <2>2 DEF Written, Encoding!EncodeAll, Encoding!FlattenSeq, Layout!FlattenSeq, F
  <2>4. \A k \in 1..Len(xs) : F(xs[k]) \in C
    BY <2>1
  <2> HIDE DEF C
  <2>5. Words(xs) \in Seq(C) /\ Len(Words(xs)) = Len(xs)
    BY <2>2, <2>4
  <2> QED
    BY <2>1, <2>3, <2>5
<1> HIDE DEF Words
<1>5. Written(ts) \in Seq(Byte)
  <2>1. Words(ts) \in Seq(Seq(Byte))
    <3>1. Words(ts) \in Seq(C)
      BY <1>4
    <3> HIDE DEF C
    <3> QED
      BY <1>3, <3>1, WiderSeq
  <2> QED
    BY <1>4, <2>1, Flattened
<1>6. ASSUME \/ Written(ts) = Written(us)
             \/ Len(ts) = Len(us) /\ Agree(Written(ts), Written(us))
      PROVE  ts = us
  <2>1. /\ Written(ts) = Layout!FlattenSeq(Words(ts)) /\ Words(ts) \in Seq(C)
        /\ Len(Words(ts)) = Len(ts)
        /\ Written(us) = Layout!FlattenSeq(Words(us)) /\ Words(us) \in Seq(C)
        /\ Len(Words(us)) = Len(us)
    BY <1>4
  <2>2. Words(ts) = Words(us)
    <3>1. \/ Layout!FlattenSeq(Words(ts)) = Layout!FlattenSeq(Words(us))
          \/ /\ Len(Words(ts)) = Len(Words(us))
             /\ Agree(Layout!FlattenSeq(Words(ts)), Layout!FlattenSeq(Words(us)))
      BY <1>6, <2>1
    <3> HIDE DEF C
    <3> QED
      BY <1>3, <2>1, <3>1, Decoded
  <2>3. Len(ts) = Len(us)
    BY <2>1, <2>2
  <2>4. ASSUME NEW k \in 1..Len(ts) PROVE ts[k] = us[k]
    <3>1. /\ ts[k] \in S /\ Words(ts)[k] = F(ts[k])
          /\ us[k] \in S /\ Words(us)[k] = F(us[k])
      BY <1>4, <2>3
    <3>2. F(ts[k]) = F(us[k])
      BY <2>2, <3>1
    <3>3. Agree(F(ts[k]), F(us[k]))
      BY <3>2 DEF Agree
    <3> QED
      BY <1>2, <3>1, <3>3
  <2> QED
    BY <2>3, <2>4, SameElements
<1> QED
  BY <1>5, <1>6

(* The same where something else follows.                                  *)
LEMMA ListsApart ==
  ASSUME NEW S, TokenCode(S), NEW ts \in Seq(S), NEW us \in Seq(S), Len(ts) = Len(us),
         NEW p \in Seq(Byte), NEW q \in Seq(Byte), Agree(Written(ts) \o p, Written(us) \o q)
  PROVE  ts = us /\ Agree(p, q)
<1>1. Written(ts) \in Seq(Byte) /\ Written(us) \in Seq(Byte)
  BY ListsTold
<1>2. Agree(Written(ts), Written(us))
  BY <1>1, AgreeParts
<1>3. ts = us
  BY <1>2, ListsTold
<1>4. Agree(p, q)
  BY <1>1, <1>3, AgreeParts
<1> QED
  BY <1>3, <1>4

(* The tags of lists are bytes.                                            *)
LEMMA SmallBytes == 12 \in Byte /\ 16 \in Byte
BY DEF Byte

(* A cast to a byte keeps a byte.                                          *)
LEMMA OneByte == \A x \in Byte : x % 256 = x
BY SMT DEF Byte

(* The length of a list, as its byte.                                      *)
LEMMA CountWritten ==
  ASSUME NEW ts, Len(ts) \in Byte PROVE Encoding!Count(ts) = <<Len(ts)>>
<1> DEFINE n == Len(ts)
<1>1. Encoding!Count(ts) = <<n % 256>>
  BY DEF Encoding!Count, Encoding!AsU8
<1> HIDE DEF n
<1>2. n % 256 = n
  <2>1. n \in Byte
    BY DEF n
  <2> QED
    BY <2>1, OneByte
<1> QED
  BY <1>1, <1>2 DEF n

(* Concatenations regrouped.                                               *)
ThreeJoined(a, b, c) == (a \o b) \o c = a \o (b \o c)
FourJoined(a, b, c, d) == a \o b \o c \o d = a \o (b \o (c \o d))
SixJoined(a, b, c, d, e, f) == a \o b \o c \o d \o e \o f = a \o (b \o (c \o (d \o (e \o f))))

LEMMA Associative ==
  ASSUME NEW S, NEW a \in Seq(S), NEW b \in Seq(S), NEW c \in Seq(S) PROVE ThreeJoined(a, b, c)
BY ConcatAssociative DEF ThreeJoined

(* The same for four and for six parts.                                    *)
LEMMA Regrouped ==
  ASSUME NEW S, NEW a \in Seq(S), NEW b \in Seq(S), NEW c \in Seq(S), NEW d \in Seq(S),
         NEW e \in Seq(S), NEW f \in Seq(S)
  PROVE  FourJoined(a, b, c, d) /\ SixJoined(a, b, c, d, e, f)
<1> DEFINE x == a \o b
           y == e \o f
           z == d \o y
           u == x \o c
           v == u \o d
<1>1. x \in Seq(S) /\ y \in Seq(S) /\ c \o d \in Seq(S)
  BY Concatenated
<1>2. z \in Seq(S) /\ u \in Seq(S)
  <2> HIDE DEF x, y
  <2> QED
    BY <1>1, Concatenated
<1>3. c \o z \in Seq(S) /\ v \in Seq(S)
  <2> HIDE DEF z, u
  <2> QED
    BY <1>2, Concatenated
<1> HIDE DEF x, y, z, u, v
<1>4. /\ ThreeJoined(v, e, f) /\ ThreeJoined(u, d, y) /\ ThreeJoined(x, c, z)
      /\ ThreeJoined(a, b, c \o z)
  BY <1>1, <1>2, <1>3, Associative
<1>5. ThreeJoined(x, c, d) /\ ThreeJoined(a, b, c \o d)
  BY <1>1, Associative
<1>6. FourJoined(a, b, c, d)
  BY <1>5 DEF ThreeJoined, FourJoined, x
<1>7. SixJoined(a, b, c, d, e, f)
  BY <1>4 DEF ThreeJoined, SixJoined, x, y, z, u, v
<1> QED
  BY <1>6, <1>7

(* An index of 16 bits can be read back from its bytes.                    *)
LEMMA Le16Apart ==
  /\ \A m \in Encoding!U16 : m % 256 \in Byte /\ (m \div 256) % 256 \in Byte
  /\ \A m, n \in Encoding!U16 :
        m % 256 = n % 256 /\ (m \div 256) % 256 = (n \div 256) % 256 => m = n
<1> DEFINE Low(m) == m % 256
           High(m) == m \div 256
           Cut(m) == High(m) % 256
<1>1. ASSUME NEW m \in Encoding!U16
      PROVE  /\ Low(m) \in Byte /\ High(m) \in Byte /\ Cut(m) = High(m)
             /\ m = 256 * High(m) + Low(m)
  <2> DEFINE q == m \div 256
             r == m % 256
  <2>1. m \in Nat /\ m < 256 * 256
    BY SMT DEF Encoding!U16
  <2>2. q \in Nat /\ r \in Byte /\ m = 256 * q + r
    BY <2>1, Digit256, SMT DEF Byte
  <2> HIDE DEF q, r
  <2>3. q \in Byte
    BY <2>1, <2>2, SMT DEF Byte
  <2>4. q % 256 = q
    BY <2>3, OneByte
  <2> QED
    BY <2>2, <2>3, <2>4 DEF q, r
<1> HIDE DEF Low, High, Cut
<1>2. \A m \in Encoding!U16 : Low(m) \in Byte /\ Cut(m) \in Byte
  BY <1>1
<1>3. ASSUME NEW m \in Encoding!U16, NEW n \in Encoding!U16, Low(m) = Low(n), Cut(m) = Cut(n)
      PROVE  m = n
  <2>1. High(m) = High(n) /\ m = 256 * High(m) + Low(m) /\ n = 256 * High(n) + Low(n)
    BY <1>1, <1>3
  <2> QED
    BY <1>3, <2>1
<1>4. \A m, n \in Encoding!U16 : Low(m) = Low(n) /\ Cut(m) = Cut(n) => m = n
  BY <1>3
<1> QED
  BY <1>2, <1>4 DEF Low, High, Cut

(* What is written of a type whose inner types are written in bytes, shape *)
(* by shape.                                                               *)
LEMMA HolderWritten ==
  ASSUME NEW S, TokenCode(S), NEW t, Holder(t, S)
  PROVE  /\ Encoding!TokenBytes(Encoding!EncodeToken, t) = <<t.tag>> \o Encoding!EncodeToken[t.inner]
         /\ <<t.tag>> \in Seq(Byte) /\ Len(<<t.tag>>) = 1
         /\ Encoding!EncodeToken[t.inner] \in Seq(Byte)
<1>1. t.tag \in {10, 13, 14} /\ t.inner \in S
  BY DEF Holder
<1>2. Encoding!TokenBytes(Encoding!EncodeToken, t) = <<t.tag>> \o Encoding!EncodeToken[t.inner]
  BY <1>1 DEF Encoding!TokenBytes
<1>3. Encoding!EncodeToken[t.inner] \in Seq(Byte)
  BY <1>1 DEF TokenCode
<1>4. <<t.tag>> \in Seq(Byte) /\ Len(<<t.tag>>) = 1
  BY <1>1 DEF Byte
<1> QED
  BY <1>2, <1>3, <1>4

(* A struct or a type parameter is its tag and its index.                  *)
LEMMA IndexWritten ==
  ASSUME NEW t, Index(t), NEW e
  PROVE  /\ Encoding!TokenBytes(e, t) = <<t.tag>> \o <<t.idx % 256, (t.idx \div 256) % 256>>
         /\ <<t.tag>> \in Seq(Byte) /\ Len(<<t.tag>>) = 1
         /\ <<t.idx % 256, (t.idx \div 256) % 256>> \in Seq(Byte)
<1> DEFINE a == t.idx % 256
           b == (t.idx \div 256) % 256
<1>1. t.tag \in {11, 15} /\ t.idx \in Encoding!U16
  BY DEF Index
<1>2. a \in Byte /\ b \in Byte
  BY <1>1, Le16Apart
<1>3. Encoding!TokenBytes(e, t) = <<t.tag>> \o <<a, b>>
  BY <1>1 DEF Encoding!TokenBytes, Encoding!Le16
<1> HIDE DEF a, b
<1>4. <<a, b>> \in Seq(Byte)
  BY <1>2
<1>5. <<t.tag>> \in Seq(Byte) /\ Len(<<t.tag>>) = 1
  BY <1>1 DEF Byte
<1> QED
  BY <1>3, <1>4, <1>5 DEF a, b

(* An instantiation is its tag, its index, the count of its arguments and  *)
(* the arguments.                                                          *)
LEMMA InstWritten ==
  ASSUME NEW S, TokenCode(S), NEW t, Instantiation(t, S)
  PROVE  /\ Encoding!TokenBytes(Encoding!EncodeToken, t) =
              <<12>> \o (<<t.idx % 256, (t.idx \div 256) % 256>> \o
                          (<<Len(t.args)>> \o Written(t.args)))
         /\ <<12>> \in Seq(Byte) /\ Len(<<12>>) = 1
         /\ <<t.idx % 256, (t.idx \div 256) % 256>> \in Seq(Byte)
         /\ <<Len(t.args)>> \in Seq(Byte) /\ Written(t.args) \in Seq(Byte)
<1> DEFINE a == t.idx % 256
           b == (t.idx \div 256) % 256
           n == Len(t.args)
           w == Written(t.args)
<1>1. t.tag = 12 /\ t.idx \in Encoding!U16 /\ t.args \in Seq(S) /\ n \in Byte
  BY DEF Instantiation
<1>2. a \in Byte /\ b \in Byte
  BY <1>1, Le16Apart
<1>3. w \in Seq(Byte)
  BY <1>1, ListsTold
<1>4. Encoding!Count(t.args) = <<n>>
  BY <1>1, CountWritten
<1>5. Encoding!TokenBytes(Encoding!EncodeToken, t) = <<12>> \o <<a, b>> \o <<n>> \o w
  BY <1>1, <1>4 DEF Encoding!TokenBytes, Encoding!Le16, Written
<1> HIDE DEF a, b, n, w
<1> DEFINE h == <<12>>
           k == <<a, b>>
           y == <<n>>
<1>6. h \in Seq(Byte) /\ Len(h) = 1 /\ k \in Seq(Byte) /\ y \in Seq(Byte)
  BY <1>1, <1>2, SmallBytes
<1> HIDE DEF h, k, y
<1>7. h \o k \o y \o w = h \o (k \o (y \o w))
  <2>1. h \in Seq(Byte) /\ k \in Seq(Byte) /\ y \in Seq(Byte) /\ w \in Seq(Byte)
    BY <1>3, <1>6
  <2>2. FourJoined(h, k, y, w)
    BY <2>1, Regrouped
  <2> QED
    BY <2>2 DEF FourJoined
<1> QED
  BY <1>3, <1>5, <1>6, <1>7 DEF a, b, n, w, h, k, y

(* A function type is its tag, both counts, both lists and the abilities.  *)
LEMMA FunctionWritten ==
  ASSUME NEW S, TokenCode(S), NEW t, FunctionType(t, S)
  PROVE  /\ Encoding!TokenBytes(Encoding!EncodeToken, t) =
              <<16>> \o (<<Len(t.params)>> \o (Written(t.params) \o
                (<<Len(t.ret)>> \o (Written(t.ret) \o <<t.abilities>>))))
         /\ <<16>> \in Seq(Byte) /\ Len(<<16>>) = 1
         /\ Written(t.params) \in Seq(Byte) /\ Written(t.ret) \in Seq(Byte)
         /\ <<Len(t.params)>> \in Seq(Byte) /\ <<Len(t.ret)>> \in Seq(Byte)
         /\ <<t.abilities>> \in Seq(Byte)
<1> DEFINE m == Len(t.params)
           n == Len(t.ret)
           x == t.abilities
           v == Written(t.params)
           w == Written(t.ret)
<1>1. t.tag = 16 /\ x \in Byte /\ t.params \in Seq(S) /\ m \in Byte /\ t.ret \in Seq(S) /\ n \in Byte
  BY DEF FunctionType
<1>2. v \in Seq(Byte) /\ w \in Seq(Byte)
  BY <1>1, ListsTold
<1>3. Encoding!Count(t.params) = <<m>> /\ Encoding!Count(t.ret) = <<n>>
  BY <1>1, CountWritten
<1>4. Encoding!TokenBytes(Encoding!EncodeToken, t) = <<16>> \o <<m>> \o v \o <<n>> \o w \o <<x>>
  BY <1>1, <1>3 DEF Encoding!TokenBytes, Written
<1> HIDE DEF m, n, x, v, w
<1> DEFINE h == <<16>>
           k == <<m>>
           l == <<n>>
           y == <<x>>
<1>5. h \in Seq(Byte) /\ Len(h) = 1 /\ k \in Seq(Byte) /\ l \in Seq(Byte) /\ y \in Seq(Byte)
  BY <1>1, SmallBytes
<1> HIDE DEF h, k, l, y
<1>6. h \o k \o v \o l \o w \o y = h \o (k \o (v \o (l \o (w \o y))))
  <2>1. /\ h \in Seq(Byte) /\ k \in Seq(Byte) /\ v \in Seq(Byte) /\ l \in Seq(Byte)
        /\ w \in Seq(Byte) /\ y \in Seq(Byte)
    BY <1>2, <1>5
  <2>2. SixJoined(h, k, v, l, w, y)
    BY <2>1, Regrouped
  <2> QED
    BY <2>2 DEF SixJoined
<1> QED
  BY <1>2, <1>4, <1>5, <1>6 DEF m, n, x, v, w, h, k, l, y

(* The first byte of a type is its tag.                                    *)
LEMMA HeadWritten ==
  ASSUME NEW B, NEW x, NEW h, Len(h) = 1, h \in Seq(B), NEW r \in Seq(B), x = h \o r
  PROVE  x \in Seq(B) /\ Len(x) \in Nat \ {0} /\ x[1] = h[1]
<1>1. /\ h \o r \in Seq(B) /\ Len(h \o r) = Len(h) + Len(r) /\ Len(r) \in Nat
      /\ \A i \in 1..Len(h) : (h \o r)[i] = h[i]
  BY Concatenated
<1>2. 1 \in 1..Len(h)
  OBVIOUS
<1> QED
  BY <1>1, <1>2

(* So every type of a level is written as a sequence of bytes that begins  *)
(* with its tag.                                                           *)
LEMMA TagWritten ==
  ASSUME Encoding!AbiEncodingAssumption, NEW S, TokenCode(S), NEW t \in Encoding!TypesOver(S),
         NEW x, x = Encoding!TokenBytes(Encoding!EncodeToken, t)
  PROVE  x \in Seq(Byte) /\ Len(x) \in Nat \ {0} /\ x[1] = t.tag
<1>1. CASE Flat(t)
  <2>1. x = <<t.tag>> /\ t.tag \in 1..9
    BY <1>1 DEF Flat, Encoding!TokenBytes
  <2>2. t.tag \in Byte
    BY <2>1 DEF Byte
  <2> QED
    BY <2>1, <2>2
<1>2. CASE Holder(t, S)
  <2> DEFINE h == <<t.tag>>
             r == Encoding!EncodeToken[t.inner]
  <2>1. h \in Seq(Byte) /\ r \in Seq(Byte) /\ Len(h) = 1 /\ x = h \o r /\ h[1] = t.tag
    BY <1>2, HolderWritten
  <2> HIDE DEF h, r
  <2>2. x \in Seq(Byte) /\ Len(x) \in Nat \ {0} /\ x[1] = h[1]
    BY <2>1, HeadWritten
  <2> QED
    BY <2>1, <2>2
<1>3. CASE Index(t)
  <2> DEFINE h == <<t.tag>>
             r == <<t.idx % 256, (t.idx \div 256) % 256>>
  <2>1. h \in Seq(Byte) /\ r \in Seq(Byte) /\ Len(h) = 1 /\ x = h \o r /\ h[1] = t.tag
    BY <1>3, IndexWritten
  <2> HIDE DEF h, r
  <2>2. x \in Seq(Byte) /\ Len(x) \in Nat \ {0} /\ x[1] = h[1]
    BY <2>1, HeadWritten
  <2> QED
    BY <2>1, <2>2
<1>4. CASE Instantiation(t, S)
  <2> DEFINE h == <<12>>
             i == <<t.idx % 256, (t.idx \div 256) % 256>>
             n == <<Len(t.args)>>
             w == Written(t.args)
             r == i \o (n \o w)
  <2>1. /\ h \in Seq(Byte) /\ i \in Seq(Byte) /\ n \in Seq(Byte) /\ w \in Seq(Byte) /\ Len(h) = 1
        /\ x = h \o r /\ h[1] = 12 /\ t.tag = 12
    BY <1>4, InstWritten DEF Instantiation
  <2> HIDE DEF h, i, n, w
  <2>2. r \in Seq(Byte)
    <3>1. n \o w \in Seq(Byte)
      BY <2>1, Concatenated
    <3> QED
      BY <2>1, <3>1, Concatenated
  <2> HIDE DEF r
  <2>3. x \in Seq(Byte) /\ Len(x) \in Nat \ {0} /\ x[1] = h[1]
    BY <2>1, <2>2, HeadWritten
  <2> QED
    BY <2>1, <2>3
<1>5. CASE FunctionType(t, S)
  <2> DEFINE h == <<16>>
             m == <<Len(t.params)>>
             v == Written(t.params)
             n == <<Len(t.ret)>>
             w == Written(t.ret)
             y == <<t.abilities>>
             r == m \o (v \o (n \o (w \o y)))
  <2>1. /\ h \in Seq(Byte) /\ m \in Seq(Byte) /\ v \in Seq(Byte) /\ n \in Seq(Byte) /\ w \in Seq(Byte)
        /\ y \in Seq(Byte) /\ Len(h) = 1 /\ x = h \o r /\ h[1] = 16 /\ t.tag = 16
    BY <1>5, FunctionWritten DEF FunctionType
  <2> HIDE DEF h, m, v, n, w, y
  <2>2. r \in Seq(Byte)
    <3>1. w \o y \in Seq(Byte)
      BY <2>1, Concatenated
    <3>2. n \o (w \o y) \in Seq(Byte)
      BY <2>1, <3>1, Concatenated
    <3>3. v \o (n \o (w \o y)) \in Seq(Byte)
      BY <2>1, <3>2, Concatenated
    <3> QED
      BY <2>1, <3>3, Concatenated
  <2> HIDE DEF r
  <2>3. x \in Seq(Byte) /\ Len(x) \in Nat \ {0} /\ x[1] = h[1]
    BY <2>1, <2>2, HeadWritten
  <2> QED
    BY <2>1, <2>3
<1> QED
  BY <1>1, <1>2, <1>3, <1>4, <1>5, TokenShapes

(* Types of the same shape can be told apart.                              *)
LEMMA HoldersApart ==
  ASSUME NEW S, TokenCode(S), NEW t, NEW u, Holder(t, S), Holder(u, S), t.tag = u.tag,
         Agree(Encoding!TokenBytes(Encoding!EncodeToken, t),
               Encoding!TokenBytes(Encoding!EncodeToken, u))
  PROVE  t = u
<1> DEFINE g == <<t.tag>>
           h == <<u.tag>>
           x == Encoding!EncodeToken[t.inner]
           y == Encoding!EncodeToken[u.inner]
<1>1. g \in Seq(Byte) /\ h \in Seq(Byte) /\ x \in Seq(Byte) /\ y \in Seq(Byte) /\ Agree(g \o x, h \o y)
  <2> DEFINE v == Encoding!TokenBytes(Encoding!EncodeToken, t)
             w == Encoding!TokenBytes(Encoding!EncodeToken, u)
  <2>1. v = g \o x /\ g \in Seq(Byte) /\ x \in Seq(Byte)
    BY HolderWritten
  <2>2. w = h \o y /\ h \in Seq(Byte) /\ y \in Seq(Byte)
    BY HolderWritten
  <2>3. Agree(v, w)
    OBVIOUS
  <2> HIDE DEF v, w, g, h, x, y
  <2> QED
    BY <2>1, <2>2, <2>3
<1>2. Len(g) = Len(h)
  OBVIOUS
<1> HIDE DEF g, h, x, y
<1>3. Agree(x, y)
  BY <1>1, <1>2, AgreeParts
<1>4. t.inner = u.inner
  BY <1>3 DEF TokenCode, Holder, x, y
<1> QED
  BY <1>4 DEF Holder

(* Two tags with indices can be told apart where anything follows.         *)
LEMMA IndicesApart ==
  ASSUME NEW t, NEW u, t.idx \in Encoding!U16, u.idx \in Encoding!U16,
         Agree(<<t.idx % 256, (t.idx \div 256) % 256>>, <<u.idx % 256, (u.idx \div 256) % 256>>)
  PROVE  t.idx = u.idx
<1> DEFINE a == t.idx % 256
           b == (t.idx \div 256) % 256
           c == u.idx % 256
           d == (u.idx \div 256) % 256
<1> HIDE DEF a, b, c, d
<1>1. Agree(<<a, b>>, <<c, d>>)
  BY DEF a, b, c, d
<1>2. a = c /\ b = d
  BY <1>1 DEF Agree
<1> QED
  BY <1>2, Le16Apart DEF a, b, c, d

(* Structs, and type parameters, can be told apart.                        *)
LEMMA IndexedApart ==
  ASSUME NEW t, NEW u, Index(t), Index(u), t.tag = u.tag,
         Agree(Encoding!TokenBytes(Encoding!EncodeToken, t),
               Encoding!TokenBytes(Encoding!EncodeToken, u))
  PROVE  t = u
<1> DEFINE g == <<t.tag>>
           h == <<u.tag>>
           x == <<t.idx % 256, (t.idx \div 256) % 256>>
           y == <<u.idx % 256, (u.idx \div 256) % 256>>
<1>1. g \in Seq(Byte) /\ h \in Seq(Byte) /\ x \in Seq(Byte) /\ y \in Seq(Byte) /\ Agree(g \o x, h \o y)
  <2> DEFINE v == Encoding!TokenBytes(Encoding!EncodeToken, t)
             w == Encoding!TokenBytes(Encoding!EncodeToken, u)
  <2>1. v = g \o x /\ g \in Seq(Byte) /\ x \in Seq(Byte)
    BY IndexWritten
  <2>2. w = h \o y /\ h \in Seq(Byte) /\ y \in Seq(Byte)
    BY IndexWritten
  <2>3. Agree(v, w)
    OBVIOUS
  <2> HIDE DEF v, w, g, h, x, y
  <2> QED
    BY <2>1, <2>2, <2>3
<1>2. Len(g) = Len(h)
  OBVIOUS
<1> HIDE DEF g, h, x, y
<1>3. Agree(x, y)
  BY <1>1, <1>2, AgreeParts
<1>4. t.idx = u.idx
  BY <1>3, IndicesApart DEF Index, x, y
<1> QED
  BY <1>4 DEF Index

(* Instantiations can be told apart.                                       *)
LEMMA InstantiationsApart ==
  ASSUME NEW S, TokenCode(S), NEW t, NEW u, Instantiation(t, S), Instantiation(u, S),
         Agree(Encoding!TokenBytes(Encoding!EncodeToken, t),
               Encoding!TokenBytes(Encoding!EncodeToken, u))
  PROVE  t = u
<1> DEFINE v == Encoding!TokenBytes(Encoding!EncodeToken, t)
           w == Encoding!TokenBytes(Encoding!EncodeToken, u)
           h == <<12>>
           i == <<t.idx % 256, (t.idx \div 256) % 256>>
           j == <<u.idx % 256, (u.idx \div 256) % 256>>
           m == <<Len(t.args)>>
           n == <<Len(u.args)>>
           x == Written(t.args)
           y == Written(u.args)
<1>1. /\ v = h \o (i \o (m \o x)) /\ h \in Seq(Byte) /\ i \in Seq(Byte) /\ m \in Seq(Byte)
      /\ x \in Seq(Byte)
  BY InstWritten
<1>2. /\ w = h \o (j \o (n \o y)) /\ j \in Seq(Byte) /\ n \in Seq(Byte) /\ y \in Seq(Byte)
  BY InstWritten
<1>3. Agree(v, w) /\ Len(i) = Len(j) /\ Len(m) = Len(n)
  OBVIOUS
<1> HIDE DEF v, w, h, i, j, m, n, x, y
<1>4. m \o x \in Seq(Byte) /\ n \o y \in Seq(Byte)
  BY <1>1, <1>2, Concatenated
<1>5. i \o (m \o x) \in Seq(Byte) /\ j \o (n \o y) \in Seq(Byte)
  BY <1>1, <1>2, <1>4, Concatenated
<1>6. Agree(i \o (m \o x), j \o (n \o y))
  <2>1. Agree(h \o (i \o (m \o x)), h \o (j \o (n \o y)))
    BY <1>1, <1>2, <1>3
  <2> QED
    BY <1>1, <1>5, <2>1, AgreeParts
<1>7. Agree(i, j) /\ Agree(m \o x, n \o y)
  <2>1. Agree(i, j)
    BY <1>1, <1>2, <1>4, <1>6, AgreeParts
  <2>2. Agree(m \o x, n \o y)
    BY <1>1, <1>2, <1>3, <1>4, <1>6, AgreeParts
  <2> QED
    BY <2>1, <2>2
<1>8. m = n /\ Agree(x, y)
  BY <1>1, <1>2, <1>3, <1>7, AgreeParts
<1>9. t.idx = u.idx
  BY <1>7, IndicesApart DEF Instantiation, i, j
<1>10. t.args = u.args
  <2>1. Len(t.args) = Len(u.args)
    BY <1>8 DEF m, n
  <2> QED
    BY <1>8, <2>1, ListsTold DEF Instantiation, x, y
<1> QED
  BY <1>9, <1>10 DEF Instantiation

(* Function types can be told apart.                                       *)
LEMMA FunctionsApart ==
  ASSUME NEW S, TokenCode(S), NEW t, NEW u, FunctionType(t, S), FunctionType(u, S),
         Agree(Encoding!TokenBytes(Encoding!EncodeToken, t),
               Encoding!TokenBytes(Encoding!EncodeToken, u))
  PROVE  t = u
<1> DEFINE v == Encoding!TokenBytes(Encoding!EncodeToken, t)
           w == Encoding!TokenBytes(Encoding!EncodeToken, u)
           h == <<16>>
           i == <<Len(t.params)>>
           j == <<Len(u.params)>>
           m == <<Len(t.ret)>>
           n == <<Len(u.ret)>>
           x == <<t.abilities>>
           y == <<u.abilities>>
           p == Written(t.params)
           q == Written(u.params)
           r == Written(t.ret)
           s == Written(u.ret)
<1>1. /\ v = h \o (i \o (p \o (m \o (r \o x))))
      /\ h \in Seq(Byte) /\ i \in Seq(Byte) /\ m \in Seq(Byte) /\ x \in Seq(Byte)
      /\ p \in Seq(Byte) /\ r \in Seq(Byte)
  BY FunctionWritten
<1>2. /\ w = h \o (j \o (q \o (n \o (s \o y))))
      /\ j \in Seq(Byte) /\ n \in Seq(Byte) /\ y \in Seq(Byte)
      /\ q \in Seq(Byte) /\ s \in Seq(Byte)
  BY FunctionWritten
<1>3. Agree(v, w) /\ Len(i) = Len(j) /\ Len(m) = Len(n)
  OBVIOUS
<1> HIDE DEF v, w, h, i, j, m, n, x, y, p, q, r, s
<1>4. r \o x \in Seq(Byte) /\ s \o y \in Seq(Byte)
  BY <1>1, <1>2, Concatenated
<1>5. m \o (r \o x) \in Seq(Byte) /\ n \o (s \o y) \in Seq(Byte)
  BY <1>1, <1>2, <1>4, Concatenated
<1>6. p \o (m \o (r \o x)) \in Seq(Byte) /\ q \o (n \o (s \o y)) \in Seq(Byte)
  BY <1>1, <1>2, <1>5, Concatenated
<1>7. i \o (p \o (m \o (r \o x))) \in Seq(Byte) /\ j \o (q \o (n \o (s \o y))) \in Seq(Byte)
  BY <1>1, <1>2, <1>6, Concatenated
<1>8. Agree(i \o (p \o (m \o (r \o x))), j \o (q \o (n \o (s \o y))))
  <2>1. Agree(h \o (i \o (p \o (m \o (r \o x)))), h \o (j \o (q \o (n \o (s \o y)))))
    BY <1>1, <1>2, <1>3
  <2> QED
    BY <1>1, <1>7, <2>1, AgreeParts
<1>9. i = j /\ Agree(p \o (m \o (r \o x)), q \o (n \o (s \o y)))
  <2> DEFINE a == p \o (m \o (r \o x))
             b == q \o (n \o (s \o y))
  <2>1. a \in Seq(Byte) /\ b \in Seq(Byte) /\ Agree(i \o a, j \o b)
    BY <1>6, <1>8
  <2> HIDE DEF a, b
  <2>2. i = j
    BY <1>1, <1>2, <1>3, <2>1, AgreeParts
  <2>3. Agree(a, b)
    BY <1>1, <1>2, <1>3, <2>1, AgreeParts
  <2> QED
    BY <2>2, <2>3 DEF a, b
<1>10. t.params = u.params /\ Agree(m \o (r \o x), n \o (s \o y))
  <2>1. Len(t.params) = Len(u.params) /\ t.params \in Seq(S) /\ u.params \in Seq(S)
    BY <1>9 DEF i, j, FunctionType
  <2>2. Agree(Written(t.params) \o (m \o (r \o x)), Written(u.params) \o (n \o (s \o y)))
    BY <1>9 DEF p, q
  <2> QED
    BY <1>5, <2>1, <2>2, ListsApart
<1>11. m = n /\ Agree(r \o x, s \o y)
  BY <1>1, <1>2, <1>3, <1>4, <1>10, AgreeParts
<1>12. t.ret = u.ret /\ Agree(x, y)
  <2>1. Len(t.ret) = Len(u.ret) /\ t.ret \in Seq(S) /\ u.ret \in Seq(S)
    BY <1>11 DEF m, n, FunctionType
  <2>2. Agree(Written(t.ret) \o x, Written(u.ret) \o y)
    BY <1>11 DEF r, s
  <2> QED
    BY <1>1, <1>2, <2>1, <2>2, ListsApart
<1>13. t.abilities = u.abilities
  <2>1. Agree(<<t.abilities>>, <<u.abilities>>)
    BY <1>12 DEF x, y
  <2> QED
    BY <2>1 DEF Agree
<1> QED
  BY <1>10, <1>12, <1>13 DEF FunctionType

(* What can be told apart can be told apart inside another type.           *)
LEMMA TypesApart ==
  ASSUME Encoding!AbiEncodingAssumption, NEW S, TokenCode(S),
         \A t \in Encoding!TypesOver(S) :
            Encoding!EncodeToken[t] = Encoding!TokenBytes(Encoding!EncodeToken, t)
  PROVE  TokenCode(Encoding!TypesOver(S))
<1> DEFINE E(t) == Encoding!EncodeToken[t]
<1>1. ASSUME NEW t \in Encoding!TypesOver(S)
      PROVE  E(t) \in Seq(Byte) /\ Len(E(t)) \in Nat \ {0} /\ E(t)[1] = t.tag
  BY TagWritten
<1>2. ASSUME NEW t \in Encoding!TypesOver(S), NEW u \in Encoding!TypesOver(S), Agree(E(t), E(u))
      PROVE  t = u
  <2>1. t.tag = u.tag
    <3>1. /\ Len(E(t)) \in Nat \ {0} /\ E(t)[1] = t.tag
          /\ Len(E(u)) \in Nat \ {0} /\ E(u)[1] = u.tag
      BY <1>1
    <3> HIDE DEF E
    <3>2. 1 \in 1..Len(E(t)) /\ 1 <= Len(E(u))
      BY <3>1
    <3> QED
      BY <1>2, <3>1, <3>2 DEF Agree
  <2>2. Agree(Encoding!TokenBytes(Encoding!EncodeToken, t),
              Encoding!TokenBytes(Encoding!EncodeToken, u))
    BY <1>2
  <2>3. CASE Flat(t) /\ Flat(u)
    BY <2>1, <2>3 DEF Flat
  <2>4. CASE Holder(t, S) /\ Holder(u, S)
    BY <2>1, <2>2, <2>4, HoldersApart
  <2>5. CASE Index(t) /\ Index(u)
    BY <2>1, <2>2, <2>5, IndexedApart
  <2>6. CASE Instantiation(t, S) /\ Instantiation(u, S)
    BY <2>2, <2>6, InstantiationsApart
  <2>7. CASE FunctionType(t, S) /\ FunctionType(u, S)
    BY <2>2, <2>7, FunctionsApart
  <2>8. \/ Flat(t) /\ Flat(u)
        \/ Holder(t, S) /\ Holder(u, S)
        \/ Index(t) /\ Index(u)
        \/ Instantiation(t, S) /\ Instantiation(u, S)
        \/ FunctionType(t, S) /\ FunctionType(u, S)
    <3>1. /\ Flat(t) \/ Holder(t, S) \/ Index(t) \/ Instantiation(t, S) \/ FunctionType(t, S)
          /\ Flat(u) \/ Holder(u, S) \/ Index(u) \/ Instantiation(u, S) \/ FunctionType(u, S)
      BY TokenShapes
    <3>2. ASSUME NEW a
          PROVE  /\ Flat(a) => a.tag \in 1..9
                 /\ Holder(a, S) => a.tag \in {10, 13, 14}
                 /\ Index(a) => a.tag \in {11, 15}
                 /\ Instantiation(a, S) => a.tag = 12
                 /\ FunctionType(a, S) => a.tag = 16
      BY DEF Flat, Holder, Index, Instantiation, FunctionType
    <3> QED
      BY <2>1, <3>1, <3>2
  <2> QED
    BY <2>3, <2>4, <2>5, <2>6, <2>7, <2>8
<1> QED
  BY <1>1, <1>2 DEF TokenCode

(* So types of every depth can be told apart.                              *)
LEMMA TokensApart ==
  ASSUME Encoding!AbiEncodingAssumption PROVE TokenCode(Encoding!Token)
<1> DEFINE G == {n \in Nat : n <= MaxNesting => TokenCode(Encoding!Types[n])}
<1>1. /\ MaxNesting \in Nat
      /\ \A n \in 0..MaxNesting : Encoding!Types[n] = Encoding!TypesOver(Held(n))
  BY TypesLevels DEF Held, Encoding!AbiEncodingAssumption
<1>2. \A n \in Nat : n <= MaxNesting => Encoding!Types[n] \subseteq Encoding!Token
  <2> DEFINE H == {n \in Nat : n <= MaxNesting =>
                      Encoding!Types[MaxNesting - n] \subseteq Encoding!Token}
  <2>1. 0 \in H
    BY <1>1 DEF Encoding!Token
  <2>2. ASSUME NEW n \in Nat, n \in H PROVE n + 1 \in H
    <3> SUFFICES ASSUME n + 1 <= MaxNesting
                 PROVE  Encoding!Types[MaxNesting - (n + 1)] \subseteq Encoding!Token
      OBVIOUS
    <3> DEFINE m == MaxNesting - (n + 1)
    <3>1. m \in Nat /\ m + 1 = MaxNesting - n /\ m + 1 <= MaxNesting /\ n <= MaxNesting
      BY <1>1
    <3>2. Encoding!Types[m] \subseteq Encoding!Types[m+1]
      <4> HIDE DEF m
      <4> QED
        BY <1>1, <3>1, LevelsGrow
    <3>3. Encoding!Types[m+1] \subseteq Encoding!Token
      BY <2>2, <3>1
    <3> QED
      BY <3>2, <3>3
  <2>3. Nat \subseteq H
    <3> HIDE DEF H
    <3> QED
      BY <2>1, <2>2, NatSetInduction
  <2>4. ASSUME NEW n \in Nat, n <= MaxNesting PROVE Encoding!Types[n] \subseteq Encoding!Token
    <3>1. MaxNesting - n \in Nat /\ MaxNesting - n <= MaxNesting /\ MaxNesting - (MaxNesting - n) = n
      BY <1>1, <2>4
    <3>2. MaxNesting - n \in H
      BY <2>3, <3>1
    <3> QED
      BY <3>1, <3>2
  <2> QED
    BY <2>4
<1>3. ASSUME NEW n \in Nat, n <= MaxNesting, TokenCode(Held(n)) PROVE TokenCode(Encoding!Types[n])
  <2>1. Encoding!Types[n] = Encoding!TypesOver(Held(n))
    BY <1>1, <1>3
  <2>2. \A t \in Encoding!TypesOver(Held(n)) :
           Encoding!EncodeToken[t] = Encoding!TokenBytes(Encoding!EncodeToken, t)
    BY <1>2, <1>3, <2>1, TokensWritten
  <2> QED
    BY <1>3, <2>1, <2>2, TypesApart
<1>4. 0 \in G
  <2>1. TokenCode(Held(0))
    BY DEF TokenCode, Held
  <2> QED
    BY <1>3, <2>1
<1>5. ASSUME NEW n \in Nat, n \in G PROVE n + 1 \in G
  <2> SUFFICES ASSUME n + 1 <= MaxNesting PROVE TokenCode(Encoding!Types[n+1])
    OBVIOUS
  <2>1. n <= MaxNesting /\ n + 1 \in Nat /\ n + 1 # 0 /\ (n + 1) - 1 = n
    BY <1>1
  <2>2. TokenCode(Encoding!Types[n]) /\ Held(n+1) \subseteq Encoding!Types[n]
    BY <1>5, <2>1 DEF Held
  <2>3. TokenCode(Held(n+1))
    BY <2>2 DEF TokenCode
  <2> QED
    BY <1>3, <2>1, <2>3
<1>6. Nat \subseteq G
  <2> HIDE DEF G
  <2> QED
    BY <1>4, <1>5, NatSetInduction
<1> QED
  BY <1>1, <1>6 DEF Encoding!Token

(* The signatures of a function.                                           *)
Signature == [params : Seq(Encoding!Token), ret : Seq(Encoding!Token)]
SignatureFits(f) ==
    /\ Len(Encoding!SignatureTokensToBytes(f.params)) <= MaxU32
    /\ Len(Encoding!SignatureTokensToBytes(f.ret)) <= MaxU32

(* Signatures that fit and are written with the same bytes are the same.   *)
LEMMA SameSignature ==
  ASSUME Encoding!AbiEncodingAssumption, NEW f \in Signature, NEW g \in Signature,
         SignatureFits(f), SignatureFits(g), Encoding!FunctionEntry(f) = Encoding!FunctionEntry(g)
  PROVE  f.params = g.params /\ f.ret = g.ret
<1> DEFINE a == Written(f.params)
           b == Written(f.ret)
           c == Written(g.params)
           d == Written(g.ret)
           P(x) == Layout!Prefixed(x)
<1>1. /\ f.params \in Seq(Encoding!Token) /\ f.ret \in Seq(Encoding!Token)
      /\ g.params \in Seq(Encoding!Token) /\ g.ret \in Seq(Encoding!Token)
  BY DEF Signature
<1>2. TokenCode(Encoding!Token)
  BY TokensApart
<1>3. /\ a \in Seq(0..255) /\ b \in Seq(0..255) /\ c \in Seq(0..255) /\ d \in Seq(0..255)
  BY <1>1, <1>2, ListsTold DEF Byte
<1>4. Len(a) <= MaxU32 /\ Len(b) <= MaxU32 /\ Len(c) <= MaxU32 /\ Len(d) <= MaxU32
  BY DEF SignatureFits, Encoding!SignatureTokensToBytes, Written
<1>5. P(a) \o P(b) = P(c) \o P(d)
  <2>1. \A x : Encoding!Prefixed(x) = P(x)
    BY DEF Encoding!Prefixed, Layout!Prefixed, Encoding!Le32, Layout!Le32
  <2> HIDE DEF P
  <2> QED
    BY <2>1 DEF Encoding!FunctionEntry, Encoding!SignatureTokensToBytes, Written
<1> HIDE DEF a, b, c, d
<1>6. P(a) \in Seq(Byte) /\ P(b) \in Seq(Byte) /\ P(c) \in Seq(Byte) /\ P(d) \in Seq(Byte)
  BY <1>3, PrefixedBytes DEF Byte
<1> HIDE DEF P
<1>7. Agree(P(a) \o P(b), P(c) \o P(d))
  BY <1>5 DEF Agree
<1>8. a = c
  <2>1. Agree(P(a), P(c))
    BY <1>6, <1>7, AgreeParts
  <2> QED
    BY <1>3, <1>4, <2>1, PrefixedApart DEF P
<1>9. b = d
  <2>1. Agree(P(b), P(d))
    BY <1>6, <1>7, <1>8, AgreeParts
  <2> QED
    BY <1>3, <1>4, <2>1, PrefixedApart DEF P
<1>10. f.params = g.params
  BY <1>1, <1>2, <1>8, ListsTold DEF a, c
<1>11. f.ret = g.ret
  BY <1>1, <1>2, <1>9, ListsTold DEF b, d
<1> QED
  BY <1>10, <1>11

(* Both versions of the function have signatures, under every edit.        *)
EncodingInv == oldSig \in Signature /\ newSig \in Signature

(* No edit of a function leaves the signatures.                            *)
LEMMA EncodingInvariance == Encoding!Spec => []EncodingInv
<1>1. Encoding!Init => EncodingInv
  BY DEF Encoding!Init, Encoding!NoTypes, EncodingInv, Signature
<1>2. ASSUME NEW f \in Signature, NEW g \in Encoding!Edit(f) PROVE g \in Signature
  <2>1. PICK t \in Encoding!Token : g \in Encoding!WithType(f, t)
    BY DEF Encoding!Edit
  <2>2. /\ f = [params |-> f.params, ret |-> f.ret]
        /\ f.params \in Seq(Encoding!Token) /\ f.ret \in Seq(Encoding!Token)
    BY DEF Signature
  <2>3. \/ g = [params |-> Append(f.params, t), ret |-> f.ret]
        \/ g = [params |-> f.params, ret |-> Append(f.ret, t)]
    BY <2>1, <2>2 DEF Encoding!WithType
  <2>4. Append(f.params, t) \in Seq(Encoding!Token) /\ Append(f.ret, t) \in Seq(Encoding!Token)
    BY <2>2
  <2> DEFINE ps == Append(f.params, t)
             rs == Append(f.ret, t)
             p == f.params
             r == f.ret
  <2>5. /\ g = [params |-> ps, ret |-> r] \/ g = [params |-> p, ret |-> rs]
        /\ ps \in Seq(Encoding!Token) /\ rs \in Seq(Encoding!Token)
        /\ p \in Seq(Encoding!Token) /\ r \in Seq(Encoding!Token)
    BY <2>2, <2>3, <2>4
  <2> HIDE DEF ps, rs, p, r
  <2> QED
    BY <2>5 DEF Signature
<1>3. EncodingInv /\ [Encoding!Next]_(Encoding!vars) => EncodingInv'
  BY <1>2 DEF EncodingInv, Encoding!Next, Encoding!vars
<1> QED
  BY <1>1, <1>3, PTL DEF Encoding!Spec

(* The lengths of both versions' signatures fit in their four bytes.       *)
SignaturesFit == SignatureFits(oldSig) /\ SignatureFits(newSig)

(* The bytes under the ABI hash determine the types of a function.         *)
LEMMA EncodingDecoded ==
  ASSUME Encoding!AbiEncodingAssumption
  PROVE  Encoding!Spec => [](SignaturesFit => Encoding!BytesDetermineTokens)
<1>1. EncodingInv => (SignaturesFit => Encoding!BytesDetermineTokens)
  BY SameSignature DEF EncodingInv, SignaturesFit, Encoding!BytesDetermineTokens
<1> QED
  BY <1>1, EncodingInvariance, PTL

-----------------------------------------------------------------------------
(* The parts side by side.                                                 *)

(* Each part runs as it does alone: a step of another leaves it as it is.  *)
LEMMA PartsRun ==
  Spec => Plan!Spec /\ Address!Spec /\ Strings!Spec /\ Encoding!Spec /\ Layout!Spec /\ Calls!Spec
<1>1. Init => /\ Plan!Init /\ Address!Init /\ Strings!Init
              /\ Encoding!Init /\ Layout!Init /\ Calls!Init
  BY DEF Init
<1>2. ASSUME [Next]_vars
      PROVE  /\ [Plan!Next]_(Plan!vars) /\ [Address!Next]_(Address!vars)
             /\ [Strings!Next]_(Strings!vars) /\ [Encoding!Next]_(Encoding!vars)
             /\ [Layout!Next]_(Layout!vars) /\ [Calls!Next]_(Calls!vars)
  <2> USE DEF planVars, addressVars, stringVars, encodingVars, layoutVars, callVars,
              Plan!vars, Address!vars, Strings!vars, Encoding!vars, Layout!vars, Calls!vars
  <2>1. CASE PlanStep
    BY <2>1 DEF PlanStep
  <2>2. CASE AddressStep
    BY <2>2 DEF AddressStep
  <2>3. CASE StringStep
    BY <2>3 DEF StringStep
  <2>4. CASE CallStep
    BY <2>4 DEF CallStep
  <2>5. CASE EncodingStep
    BY <2>5 DEF EncodingStep
  <2>6. CASE LayoutStep
    BY <2>6 DEF LayoutStep
  <2>7. CASE UNCHANGED vars
    BY <2>7 DEF vars
  <2> QED
    BY <1>2, <2>1, <2>2, <2>3, <2>4, <2>5, <2>6, <2>7 DEF Next
<1> QED
  BY <1>1, <1>2, PTL DEF Spec, Plan!Spec, Address!Spec, Strings!Spec, Encoding!Spec, Layout!Spec, Calls!Spec

(* The assumptions of the parts.                                           *)
LEMMA PartAssumptions ==
  /\ Plan!BuildPlanAssumption /\ Address!AddressAssumption /\ Strings!MaxLenAssumption
  /\ Encoding!AbiEncodingAssumption /\ Layout!LayoutAssumption /\ "none" \notin Modules
BY LibraryAssumptions DEF Calls!DepthAssumption

(* While code runs the reentrancy checker's counters are what the call     *)
(* stack says, so exit_function never raises an "Unbalanced ..." error:    *)
(* for any modules and any depth of calls.                                 *)
THEOREM CallsAreCounted == Spec => []CountersMatchStack
<1>1. Calls!CountersMatchStack => CountersMatchStack
  BY DEF CountersMatchStack
<1> QED
  BY <1>1, PartsRun, PartAssumptions, CallCounters, PTL

(* While a frame holds the module lock a module on the stack is called     *)
(* again from its own frames only (enter_function): that leaves its own    *)
(* closures, and what another module's native, called there, dispatches    *)
(* back.  For any modules and any depth of calls.                          *)
THEOREM LockedReentryIsFromItself == Spec => []ReenteredOnlyFromItself
<1>1. Calls!ReenteredOnlyFromItself => ReenteredOnlyFromItself
  BY DEF ReenteredOnlyFromItself
<1> QED
  BY <1>1, PartsRun, PartAssumptions, CallLocks, PTL

(* check_resource_access lets the running function at its module's         *)
(* resources just when every call from the module's lowest frame up stayed *)
(* in the module and none went through a closure.                          *)
THEOREM AccessIsExclusive == Spec => []AccessIffNotReentered
<1>1. Calls!AccessIffNotReentered => AccessIffNotReentered
  BY DEF AccessIffNotReentered
<1> QED
  BY <1>1, PartsRun, PartAssumptions, CallAccess, PTL

(* Every function of std::string leaves whole characters, in strings of    *)
(* any length.                                                             *)
THEOREM StringsHoldCharacters == Spec => []StringsAreUtf8
<1>1. Strings!StringsAreUtf8 => StringsAreUtf8
  BY DEF StringsAreUtf8
<1> QED
  BY <1>1, PartsRun, PartAssumptions, StringCharacters, PTL

(* index_of by windows of bytes answers as a search by characters.         *)
THEOREM IndexOfFinds == Spec => []FoundLikeFind
<1>1. Strings!FoundLikeFind => FoundLikeFind
  BY DEF FoundLikeFind
<1> QED
  BY <1>1, PartsRun, PartAssumptions, StringSearch, PTL

(* AccountAddress::from_hex fails just where it should and gives the       *)
(* number written, and Display's text parses back: for addresses of any    *)
(* width and texts of any length.                                          *)
THEOREM AddressesParseExactly == Spec => []ParsesExactly
<1>1. Address!ParsesExactly => ParsesExactly
  BY DEF ParsesExactly
<1> QED
  BY <1>1, PartsRun, PartAssumptions, AddressParsing, PTL

(* Every named address and the upgrade policy are compiled, and listed, as *)
(* the developer wrote them, for any Move.toml, its keys repeated or not,  *)
(* and any command line; only a name its table gives an address twice      *)
(* keeps the last of them whatever the command line says                   *)
(* (inspect_move_toml, merged_named_addresses).                            *)
THEOREM PackagesAreCompiledAsWritten == Spec => []CompiledAsWritten
<1>1. Plan!CompiledAsWritten => CompiledAsWritten
  BY DEF CompiledAsWritten
<1> QED
  BY <1>1, PartsRun, PartAssumptions, PlanCompiled, PTL

(* Different structs give different bytes under the ABI hash, although     *)
(* neither fields nor variants are counted (compute_module_abi_hash): for  *)
(* any names, types and number of structs, as long as the casts to u32     *)
(* truncate no length.                                                     *)
THEOREM StructsAreDetermined == Spec => [](ModulesFit => LayoutDetermined)
<1>1. (ModulesFit => Layout!LayoutDetermined) => (ModulesFit => LayoutDetermined)
  BY DEF LayoutDetermined
<1> QED
  BY <1>1, PartsRun, PartAssumptions, LayoutDecoded, PTL

(* Different signatures give different bytes under the ABI hash, although  *)
(* tokens have no separator and lists within a type are counted by one     *)
(* byte (encode_token, signature_tokens_to_bytes): for types of any depth  *)
(* and lists of any length the deserializer lets pass, as long as the      *)
(* casts to u32 truncate no length.                                        *)
THEOREM SignaturesAreDetermined == Spec => [](SignaturesFit => BytesDetermineTokens)
<1>1. (SignaturesFit => Encoding!BytesDetermineTokens) => (SignaturesFit => BytesDetermineTokens)
  BY DEF BytesDetermineTokens
<1> QED
  BY <1>1, PartsRun, PartAssumptions, EncodingDecoded, PTL
=============================================================================
