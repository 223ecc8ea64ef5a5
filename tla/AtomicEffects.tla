--------------------------- MODULE AtomicEffects ---------------------------
(***************************************************************************)
(* What executing a transaction promises: it works on a copy of the state, *)
(* one slot at a time.  Whether it ends kept or discarded is visible: one  *)
(* that is kept holds all of its changes and events for installation, one  *)
(* that is discarded none of them.                                         *)
(***************************************************************************)
EXTENDS Sequences

CONSTANTS
    Slot,      \* where content can be
    Event      \* what a transaction can emit

VARIABLES
    stage,     \* "idle", "running", "kept" or "discarded"
    state,     \* slot |-> content
    working,   \* the transaction's copy of state
    emitted    \* the events it has emitted

effectVars == <<stage, state, working, emitted>>

EffectsInit ==
    /\ stage = "idle" /\ working = state /\ emitted = <<>>
    /\ DOMAIN state = Slot

Start ==
    /\ stage = "idle" /\ stage' = "running"
    /\ UNCHANGED <<state, working, emitted>>

Change(s) ==
    /\ stage = "running"
    /\ DOMAIN working' = Slot
    /\ \A x \in Slot \ {s} : working'[x] = working[x]
    /\ UNCHANGED <<stage, state, emitted>>

Emit ==
    /\ stage = "running"
    /\ \E e \in Event : emitted' = Append(emitted, e)
    /\ UNCHANGED <<stage, state, working>>

Keep ==
    /\ stage = "running" /\ stage' = "kept"
    /\ UNCHANGED <<state, working, emitted>>

Discard ==
    /\ stage \in {"idle", "running"} /\ stage' = "discarded"
    /\ working' = state /\ emitted' = <<>>
    /\ UNCHANGED state

Install ==
    /\ stage = "kept" /\ stage' = "idle"
    /\ state' = working /\ working' = working /\ emitted' = <<>>

Forget ==
    /\ stage \in {"kept", "discarded"} /\ stage' = "idle"
    /\ working' = state /\ emitted' = <<>>
    /\ UNCHANGED state

EffectsNext ==
    \/ Start \/ Emit \/ Keep \/ Discard \/ Install \/ Forget
    \/ \E s \in Slot : Change(s)

EffectsSpec == EffectsInit /\ [][EffectsNext]_effectVars
=============================================================================
