-------------------------- MODULE ReentrancyChecker --------------------------
(***************************************************************************)
(* The reentrancy checker of the vendored VM (reentrancy_checker.rs) over  *)
(* the interpreter's call stack: enter_function and exit_function at every *)
(* call and return, and check_resource_access at every access to a         *)
(* resource.                                                               *)
(*                                                                         *)
(* A frame is the module of its function, the way it was called, and       *)
(* whether the function carries the module-lock attribute.  A function     *)
(* accesses resources of its own module only.  A native function has no    *)
(* frame: what it dispatches to is called from the frame that called it.   *)
(***************************************************************************)
EXTENDS Naturals, Sequences, FiniteSets

CONSTANTS Modules, MaxDepth      \* MaxDepth: bound on the call stack

DepthAssumption == MaxDepth \in Nat \ {0} /\ "none" \notin Modules

CallType == {"Regular", "NativeDynamicDispatch", "ClosureDynamicDispatch"}
Function == [module : Modules, locks : BOOLEAN]

VARIABLES
    stack,       \* the interpreter's frames, the current one last
    active,      \* active_modules, 0 for a module that has no entry
    lockCount,   \* module_lock_count
    status       \* "start", "run", "returned", or the error that ended it

vars == <<stack, active, lockCount, status>>

Init ==
    /\ stack = <<>>
    /\ active = [m \in Modules |-> 0]
    /\ lockCount = 0
    /\ status = "start"

FrameOf(f, call) == [module |-> f.module, locks |-> f.locks, call |-> call]
Depth == Len(stack)
Top == stack[Depth]

\* Whether entering or leaving a frame touches module_lock_count.
Locking(frame) == frame.call = "NativeDynamicDispatch" \/ frame.locks

\* Mutant: the lock of the function being entered does not yet count.
LockedOnEntryLate(frame) == lockCount > 0

\* module_lock_count as enter_function tests it, after enter_module_lock.
LockedOnEntry(frame) == lockCount > 0 \/ Locking(frame)

\* Whether enter_function counts the callee's module: a call from another
\* module, the top-level entry included, or a closure's.
Enters(caller, frame) ==
    caller # frame.module \/ frame.call = "ClosureDynamicDispatch"

\* enter_function and, when it succeeds, the new frame.  A cross-module call
\* into an active module fails under a module lock.
EnterFunction(caller, frame) ==
    /\ lockCount' = IF Locking(frame) THEN lockCount + 1 ELSE lockCount
    /\ IF caller # frame.module /\ active[frame.module] > 0 /\ LockedOnEntry(frame)
       THEN status' = "RUNTIME_DISPATCH_ERROR" /\ UNCHANGED <<stack, active>>
       ELSE /\ active' = IF Enters(caller, frame)
                         THEN [active EXCEPT ![frame.module] = @ + 1] ELSE active
            /\ stack' = Append(stack, frame)
            /\ status' = "run"

\* execute_main: the entry function, which has no caller.
ExecuteMain(f) ==
    /\ status = "start"
    /\ EnterFunction("none", FrameOf(f, "Regular"))

\* set_new_call_frame.  A native dispatch into the module of the native is
\* refused before it; one back into the module that called the native is not,
\* and to enter_function it is a call within that module.
Call(f, call) ==
    /\ status = "run" /\ Depth < MaxDepth
    /\ call = "NativeDynamicDispatch" => \E native \in Modules : f.module # native
    /\ EnterFunction(Top.module, FrameOf(f, call))

\* exit_function: whether the frame's exit releases a lock.
Releases(frame) == Locking(frame)

\* Mutant: the return of a closure called within its module is not counted.
LeavesCrossOnly(caller, frame) == caller # frame.module

\* exit_function: whether the frame's exit uncounts its module.
Leaves(caller, frame) ==
    caller # frame.module \/ frame.call = "ClosureDynamicDispatch"

\* exit_function, with both of its internal errors.
ExitFunction(caller, frame) ==
    IF Leaves(caller, frame) /\ active[frame.module] = 0
    THEN status' = "Unbalanced reentrancy stack operation" /\ UNCHANGED <<active, lockCount>>
    ELSE /\ active' = IF Leaves(caller, frame)
                      THEN [active EXCEPT ![frame.module] = @ - 1] ELSE active
         /\ IF Releases(frame) /\ lockCount = 0
            THEN status' = "Unbalanced module lock counter" /\ UNCHANGED lockCount
            ELSE /\ lockCount' = IF Releases(frame) THEN lockCount - 1 ELSE lockCount
                 /\ UNCHANGED status

\* Ret with a caller on the stack.
Return ==
    /\ status = "run" /\ Depth > 1
    /\ ExitFunction(stack[Depth - 1].module, Top)
    /\ stack' = SubSeq(stack, 1, Depth - 1)

\* Ret from the entry function: the checker is dropped as it is.
ReturnFromMain ==
    /\ status = "run" /\ Depth = 1
    /\ status' = "returned"
    /\ UNCHANGED <<stack, active, lockCount>>

\* Mutant: one activation too many is let through.
MayAccessTwice(m) == active[m] <= 2

\* check_resource_access on a resource of module m.
MayAccess(m) == active[m] <= 1

\* An access that is refused ends the transaction; one that is not changes
\* nothing here.
AccessRefused ==
    /\ status = "run"
    /\ ~MayAccess(Top.module)
    /\ status' = "RUNTIME_DISPATCH_ERROR"
    /\ UNCHANGED <<stack, active, lockCount>>

Next ==
    \/ \E f \in Function : ExecuteMain(f)
    \/ \E f \in Function, call \in CallType : Call(f, call)
    \/ Return
    \/ ReturnFromMain
    \/ AccessRefused

Spec == Init /\ [][Next]_vars

-----------------------------------------------------------------------------
(* Properties.                                                             *)

\* The frames that entered a module, and those that hold a module lock.
EntersAt(k) == k = 1 \/ Enters(stack[k-1].module, stack[k])
Entered(m) == {k \in 1..Depth : stack[k].module = m /\ EntersAt(k)}
LockingFrames == {k \in 1..Depth : Locking(stack[k])}

\* While code runs, the checker's two counters say what the stack says: how
\* often each module has been entered and not left, and how many frames hold
\* a module lock.  So neither of exit_function's "Unbalanced ..." errors is
\* ever raised, although it repeats by hand the conditions of enter_function.
CountersMatchStack ==
    /\ status \in {"start", "run", "returned", "RUNTIME_DISPATCH_ERROR"}
    /\ status = "run" =>
        /\ \A m \in Modules : active[m] = Cardinality(Entered(m))
        /\ lockCount = Cardinality(LockingFrames)

\* The current function may access its module's resources exactly when, from
\* the module's lowest frame up, every call stayed inside it and none went
\* through a closure (the resource lock, reentrancy_checker.rs:7).  A dispatch
\* by another module's native, called there, back into the module is no reason
\* to refuse: no frame tells it from a call within the module.
AccessIffNotReentered ==
    status = "run" =>
        (MayAccess(Top.module) <=>
            \A j \in 1..Depth : stack[j].module = Top.module =>
                \A k \in (j+1)..Depth :
                    /\ stack[k].module = Top.module
                    /\ stack[k].call # "ClosureDynamicDispatch")

\* While a module lock is held, a module that is on the stack is called again
\* from its own frames only: from the locking frame, or the module's earlier
\* frame above it, up to the call, every frame is the module's.  This is what
\* is left of "reentrancy via any kind of function call is disallowed" (the
\* module lock, reentrancy_checker.rs:12): a module's own closure, and another
\* module's native that dispatches back, do re-enter it under the lock.
ReenteredOnlyFromItself ==
    status = "run" =>
        \A l \in LockingFrames : \A k \in l..Depth : \A j \in 1..(k-1) :
            stack[j].module = stack[k].module =>
                \A i \in l..k : j < i => stack[i-1].module = stack[k].module

=============================================================================
