---------------------------- MODULE EventStreams ----------------------------
(***************************************************************************)
(* The event streams of std::event and std::guid, as transactions of the   *)
(* runtime build them.  A transaction works on its own copy of the handles *)
(* and generators and collects events in the NexusEventStore; when it      *)
(* succeeds, its output carries the changes and the events together, and   *)
(* the node keeps or drops the output as a whole.                          *)
(***************************************************************************)
EXTENDS Naturals, Sequences

CONSTANTS
    Address,    \* accounts that create event handles
    Slot,       \* places a handle can be stored in
    MaxU64,     \* the largest u64: an addition past it aborts
    None        \* no handle, no generator

ASSUME EventStreamsAssumption == MaxU64 \in Nat

(* The id of a stream: its creator and the creation number.                *)
GUID == Address \X (0..MaxU64)

EventHandle == [guid : GUID, counter : 0..MaxU64]

ASSUME NoneAssumption == None \notin EventHandle /\ None \notin 0..MaxU64

VARIABLES
    generator,  \* account |-> counter of its guid::Generator, or None
    handles,    \* slot |-> EventHandle or None
    stream,     \* guid |-> sequence numbers of the events the node kept
    phase,      \* "idle", "running", "done"
    sender,     \* the running transaction's signer
    work        \* what the running or finished transaction made of the above

vars == <<generator, handles, stream, phase, sender, work>>

Stored == [generator |-> generator, handles |-> handles, stream |-> stream]

Init ==
    /\ generator = [a \in Address |-> None]
    /\ handles = [s \in Slot |-> None]
    /\ stream = [g \in GUID |-> <<>>]
    /\ phase = "idle" /\ sender = None /\ work = Stored

Begin(a) ==
    /\ phase = "idle" /\ phase' = "running" /\ sender' = a
    /\ UNCHANGED <<generator, handles, stream, work>>

Running == phase = "running" /\ UNCHANGED <<generator, handles, stream, phase, sender>>

-----------------------------------------------------------------------------
(* get_next_creation_num; the generator is created on first use.           *)
NextCreationNum(a) == IF work.generator[a] = None THEN 0 ELSE work.generator[a]

(* Mutant: the generator is created and not advanced.                      *)
GeneratorAfterStill(a) == NextCreationNum(a)

GeneratorAfter(a) == NextCreationNum(a) + 1

(* publish_generator, and gen_create_capability where there is none.       *)
PublishGenerator ==
    /\ Running
    /\ work.generator[sender] = None
    /\ work' = [work EXCEPT !.generator[sender] = 0]

(* create_with_capability: an id of any account that has a generator.      *)
CreateGuid(a) ==
    /\ Running
    /\ work.generator[a] # None /\ GeneratorAfter(a) <= MaxU64
    /\ work' = [work EXCEPT !.generator[a] = GeneratorAfter(a)]

(* new_event_handle, stored in a slot that is free.                        *)
NewEventHandle(s) ==
    /\ Running
    /\ GeneratorAfter(sender) <= MaxU64 /\ work.handles[s] = None
    /\ work' = [work EXCEPT
                  !.generator[sender] = GeneratorAfter(sender),
                  !.handles[s] = [guid |-> <<sender, NextCreationNum(sender)>>, counter |-> 0]]

(* Mutant: the counter is taken from the handle and not advanced.          *)
CounterAfterStill(h) == h.counter

CounterAfter(h) == h.counter + 1

(* Mutant: the addition is not checked against the width of the counter.   *)
EmitEventUnchecked(s) ==
    /\ Running
    /\ work.handles[s] # None
    /\ LET h == work.handles[s] IN
         work' = [work EXCEPT !.handles[s].counter = CounterAfter(h),
                              !.stream[h.guid] = Append(@, h.counter)]

(* emit_event: the event goes to the store under the counter's value, then *)
(* the counter is advanced.                                                *)
EmitEvent(s) ==
    /\ Running
    /\ work.handles[s] # None /\ CounterAfter(work.handles[s]) <= MaxU64
    /\ LET h == work.handles[s] IN
         work' = [work EXCEPT !.handles[s].counter = CounterAfter(h),
                              !.stream[h.guid] = Append(@, h.counter)]

(* A handle has store: it can be moved to another place.                   *)
MoveHandle(from, to) ==
    /\ Running
    /\ work.handles[from] # None /\ work.handles[to] = None
    /\ work' = [work EXCEPT !.handles[to] = work.handles[from], !.handles[from] = None]

(* destroy_handle: the guid goes with the handle.                          *)
DestroyHandle(s) ==
    /\ Running
    /\ work.handles[s] # None
    /\ work' = [work EXCEPT !.handles[s] = None]

Finished == phase = "running" /\ phase' = "done" /\ sender' = None

Succeed ==
    /\ Finished
    /\ UNCHANGED <<generator, handles, stream, work>>

(* Mutant: the events of a failed transaction stay in its output.          *)
FailedWorkWithEvents == [Stored EXCEPT !.stream = work.stream]

FailedWork == Stored

(* An abort, an addition past MaxU64 included, and the end of the gas.     *)
Fail ==
    /\ Finished
    /\ work' = FailedWork
    /\ UNCHANGED <<generator, handles, stream>>

(* The node applies the write set and keeps the events.                    *)
Apply ==
    /\ phase = "done" /\ phase' = "idle"
    /\ generator' = work.generator /\ handles' = work.handles /\ stream' = work.stream
    /\ UNCHANGED <<sender, work>>

Drop ==
    /\ phase = "done" /\ phase' = "idle"
    /\ work' = Stored
    /\ UNCHANGED <<generator, handles, stream, sender>>

Next ==
    \/ PublishGenerator \/ Succeed \/ Fail \/ Apply \/ Drop
    \/ \E a \in Address : Begin(a) \/ CreateGuid(a)
    \/ \E s \in Slot :
         \/ NewEventHandle(s) \/ EmitEvent(s) \/ DestroyHandle(s)
         \/ \E t \in Slot : MoveHandle(s, t)

Spec == Init /\ [][Next]_vars

-----------------------------------------------------------------------------
State ==
    [generator : [Address -> {None} \cup 0..MaxU64],
     handles : [Slot -> {None} \cup EventHandle],
     stream : [GUID -> Seq(0..MaxU64)]]

(* Generators, handles and streams hold values of their kinds.             *)
TypeOK ==
    /\ Stored \in State
    /\ phase \in {"idle", "running", "done"}
    /\ sender \in (IF phase = "running" THEN Address ELSE {None})
    /\ work \in State

(* A handle proves how many events its stream has: its counter is their    *)
(* number, whatever was emitted by transactions that failed or were        *)
(* dropped and wherever the handle has been moved.                         *)
CountsEvents(st) ==
    \A s \in Slot : st.handles[s] # None =>
      st.handles[s].counter = Len(st.stream[st.handles[s].guid])

HandlesCountEvents == CountsEvents(Stored) /\ CountsEvents(work)

(* The events of a stream are numbered from zero without gap or repetition.*)
Consecutive(st) ==
    \A g \in GUID : \A i \in DOMAIN st.stream[g] : st.stream[g][i] = i - 1

StreamsConsecutive == Consecutive(Stored) /\ Consecutive(work)

(* No two handles have one guid, and neither a handle nor an event has a   *)
(* guid that its creator's generator is still to give out.                 *)
Issued(st, g) == st.generator[g[1]] # None /\ g[2] < st.generator[g[1]]

Unique(st) ==
    /\ \A s, t \in Slot :
         st.handles[s] # None /\ st.handles[t] # None /\ s # t =>
           st.handles[s].guid # st.handles[t].guid
    /\ \A s \in Slot : st.handles[s] # None => Issued(st, st.handles[s].guid)
    /\ \A g \in GUID : st.stream[g] # <<>> => Issued(st, g)

GuidsUnique == Unique(Stored) /\ Unique(work)
=============================================================================
