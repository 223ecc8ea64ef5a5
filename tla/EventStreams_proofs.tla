------------------------- MODULE EventStreams_proofs -------------------------
(***************************************************************************)
(* Proofs about EventStreams.  What is stored and what a transaction works *)
(* on are two values of one kind, and the same invariant is kept of both:  *)
(* the steps of a transaction keep it of the work, the ends exchange the   *)
(* two.                                                                    *)
(***************************************************************************)
EXTENDS EventStreams, SequenceTheorems, TLAPS

(* What holds of the stored state and of a transaction's work alike.       *)
Sound(st) == st \in State /\ CountsEvents(st) /\ Consecutive(st) /\ Unique(st)

IInv ==
    /\ phase \in {"idle", "running", "done"}
    /\ sender \in (IF phase = "running" THEN Address ELSE {None})
    /\ Sound(Stored) /\ Sound(work)

(* IInv is the conjunction of the four invariants.                         *)
LEMMA IInvIs == IInv <=> TypeOK /\ HandlesCountEvents /\ StreamsConsecutive /\ GuidsUnique
BY DEF IInv, Sound, TypeOK, HandlesCountEvents, StreamsConsecutive, GuidsUnique

(* The parts of a sound state, each of its kind.                           *)
LEMMA Parts ==
    ASSUME NEW st, Sound(st)
    PROVE  /\ st = [generator |-> st.generator, handles |-> st.handles, stream |-> st.stream]
           /\ st.generator \in [Address -> {None} \cup 0..MaxU64]
           /\ st.handles \in [Slot -> {None} \cup EventHandle]
           /\ st.stream \in [GUID -> Seq(0..MaxU64)]
BY DEF Sound, State

(* Updating one field of the record of the three.                          *)
LEMMA FieldUpdates ==
    ASSUME NEW st, st = [generator |-> st.generator, handles |-> st.handles, stream |-> st.stream],
           NEW x, NEW y
    PROVE  /\ [st EXCEPT !.generator[x] = y] =
                [generator |-> [st.generator EXCEPT ![x] = y], handles |-> st.handles,
                 stream |-> st.stream]
           /\ [st EXCEPT !.handles[x] = y] =
                [generator |-> st.generator, handles |-> [st.handles EXCEPT ![x] = y],
                 stream |-> st.stream]
           /\ [st EXCEPT !.handles[x].counter = y] =
                [generator |-> st.generator,
                 handles |-> [st.handles EXCEPT ![x] = [st.handles[x] EXCEPT !.counter = y]],
                 stream |-> st.stream]
OBVIOUS

-----------------------------------------------------------------------------
(* A handle's guid, counter and stream are what their names say.           *)
LEMMA HandleFacts ==
    ASSUME NEW st, Sound(st), NEW s \in Slot, st.handles[s] # None
    PROVE  /\ st.handles[s] \in EventHandle
           /\ st.handles[s].guid \in GUID /\ st.handles[s].counter \in 0..MaxU64
           /\ st.handles[s].counter = Len(st.stream[st.handles[s].guid])
BY DEF Sound, State, EventHandle, CountsEvents

(* Publishing a generator that was not there issues nothing.               *)
LEMMA PublishGeneratorSound ==
    ASSUME IInv, PublishGenerator
    PROVE  Sound(work')
<1> DEFINE a == sender
<1>1. Sound(work) /\ a \in Address /\ work.generator[a] = None
  BY DEF IInv, PublishGenerator, Running
<1>2. /\ work'.generator = [work.generator EXCEPT ![a] = 0]
      /\ work'.handles = work.handles /\ work'.stream = work.stream
      /\ work' \in State
  <2>1. work' = [work EXCEPT !.generator[a] = 0]
    BY DEF PublishGenerator
  <2>2. work' = [generator |-> [work.generator EXCEPT ![a] = 0],
                 handles |-> work.handles, stream |-> work.stream]
    BY <2>1, <1>1, Parts
  <2>3. [work.generator EXCEPT ![a] = 0] \in [Address -> {None} \cup 0..MaxU64]
    BY <1>1, Parts, EventStreamsAssumption
  <2> QED BY <2>2, <2>3, <1>1, Parts DEF State
<1>3. CountsEvents(work') /\ Consecutive(work')
  BY <1>1, <1>2 DEF Sound, CountsEvents, Consecutive
<1>4. ASSUME NEW g \in GUID, Issued(work, g) PROVE Issued(work', g)
  BY <1>1, <1>2, <1>4, Parts DEF Issued, GUID
<1>5. Unique(work')
  BY <1>1, <1>2, <1>4, HandleFacts DEF Sound, Unique
<1> QED BY <1>2, <1>3, <1>5 DEF Sound

(* Advancing a generator keeps what was issued.                            *)
LEMMA AdvanceKeepsIssued ==
    ASSUME Sound(work), NEW a \in Address, NEW g \in GUID, Issued(work, g),
           GeneratorAfter(a) <= MaxU64,
           work'.generator = [work.generator EXCEPT ![a] = GeneratorAfter(a)]
    PROVE  Issued(work', g)
<1>1. /\ work.generator \in [Address -> {None} \cup 0..MaxU64]
      /\ g[1] \in Address /\ g[2] \in 0..MaxU64
  BY Parts DEF GUID
<1>2. CASE g[1] = a
  <2>1. work.generator[a] \in 0..MaxU64 /\ g[2] < work.generator[a]
    BY <1>1, <1>2 DEF Issued
  <2>2. work'.generator[a] = work.generator[a] + 1
    BY <1>1, <2>1, NoneAssumption DEF GeneratorAfter, NextCreationNum
  <2>3. work'.generator[a] # None
    <3>1. work.generator[a] + 1 \in 0..MaxU64
      BY <2>1, <1>1, NoneAssumption, EventStreamsAssumption DEF GeneratorAfter, NextCreationNum
    <3> QED BY <3>1, <2>2, NoneAssumption
  <2> QED BY <1>1, <1>2, <2>1, <2>2, <2>3, EventStreamsAssumption DEF Issued
<1>3. CASE g[1] # a
  BY <1>1, <1>3 DEF Issued
<1> QED BY <1>2, <1>3

(* The generator after advancing holds a number.                           *)
LEMMA AdvanceTyped ==
    ASSUME Sound(work), NEW a \in Address, GeneratorAfter(a) <= MaxU64
    PROVE  /\ NextCreationNum(a) \in 0..MaxU64
           /\ GeneratorAfter(a) \in 0..MaxU64 /\ GeneratorAfter(a) # None
           /\ GeneratorAfter(a) = NextCreationNum(a) + 1
           /\ [work.generator EXCEPT ![a] = GeneratorAfter(a)]
                \in [Address -> {None} \cup 0..MaxU64]
<1>1. work.generator \in [Address -> {None} \cup 0..MaxU64]
  BY Parts
<1>2. NextCreationNum(a) \in 0..MaxU64
  BY <1>1, EventStreamsAssumption DEF NextCreationNum
<1>3. GeneratorAfter(a) \in 0..MaxU64
  BY <1>2, EventStreamsAssumption DEF GeneratorAfter
<1> QED BY <1>1, <1>2, <1>3, NoneAssumption DEF GeneratorAfter

(* Creating an id touches neither handles nor streams.                     *)
LEMMA CreateGuidSound ==
    ASSUME IInv, NEW a \in Address, CreateGuid(a)
    PROVE  Sound(work')
<1>1. Sound(work) /\ GeneratorAfter(a) <= MaxU64
  BY DEF IInv, CreateGuid
<1>2. /\ work'.generator = [work.generator EXCEPT ![a] = GeneratorAfter(a)]
      /\ work'.handles = work.handles /\ work'.stream = work.stream
      /\ work' \in State
  <2>1. work' = [work EXCEPT !.generator[a] = GeneratorAfter(a)]
    BY DEF CreateGuid
  <2>2. work' = [generator |-> [work.generator EXCEPT ![a] = GeneratorAfter(a)],
                 handles |-> work.handles, stream |-> work.stream]
    BY <2>1, <1>1, Parts
  <2> QED BY <2>2, <1>1, AdvanceTyped, Parts DEF State
<1>3. CountsEvents(work') /\ Consecutive(work')
  BY <1>1, <1>2 DEF Sound, CountsEvents, Consecutive
<1>4. Unique(work')
  BY <1>1, <1>2, AdvanceKeepsIssued, HandleFacts DEF Sound, Unique
<1> QED BY <1>2, <1>3, <1>4 DEF Sound

(* A new handle has the next guid of its creator, which nothing has.       *)
LEMMA NewEventHandleSound ==
    ASSUME IInv, NEW s \in Slot, NewEventHandle(s)
    PROVE  Sound(work')
<1> DEFINE a == sender
           g == <<a, NextCreationNum(a)>>
           h == [guid |-> g, counter |-> 0]
<1>1. /\ Sound(work) /\ a \in Address
      /\ GeneratorAfter(a) <= MaxU64 /\ work.handles[s] = None
  BY DEF IInv, NewEventHandle, Running
<1>2. g \in GUID /\ h \in EventHandle /\ h # None
  BY <1>1, AdvanceTyped, EventStreamsAssumption, NoneAssumption DEF GUID, EventHandle
<1>3. /\ work'.generator = [work.generator EXCEPT ![a] = GeneratorAfter(a)]
      /\ work'.handles = [work.handles EXCEPT ![s] = h]
      /\ work'.stream = work.stream
      /\ work' \in State
  <2> DEFINE advanced == [work EXCEPT !.generator[a] = GeneratorAfter(a)]
  <2>1. work' = [advanced EXCEPT !.handles[s] = h]
    BY DEF NewEventHandle
  <2>4. advanced = [generator |-> [work.generator EXCEPT ![a] = GeneratorAfter(a)],
                    handles |-> work.handles, stream |-> work.stream]
    BY <1>1, Parts, FieldUpdates
  <2> HIDE DEF advanced
  <2>2. work' = [generator |-> [work.generator EXCEPT ![a] = GeneratorAfter(a)],
                 handles |-> [work.handles EXCEPT ![s] = h], stream |-> work.stream]
    BY <2>1, <2>4
  <2>3. [work.handles EXCEPT ![s] = h] \in [Slot -> {None} \cup EventHandle]
    BY <1>1, <1>2, Parts
  <2> QED BY <2>2, <2>3, <1>1, AdvanceTyped, Parts DEF State
<1>4. work.handles \in [Slot -> {None} \cup EventHandle]
  BY <1>1, Parts
<1>5. ~Issued(work, g)
  BY <1>1, AdvanceTyped DEF Issued, NextCreationNum
<1>6. work.stream[g] = <<>>
  BY <1>1, <1>2, <1>5 DEF Sound, Unique
<1>7. Issued(work', g)
  BY <1>1, <1>3, AdvanceTyped, Parts DEF Issued
<1>8. CountsEvents(work')
  <2> SUFFICES ASSUME NEW t \in Slot, work'.handles[t] # None
               PROVE  work'.handles[t].counter = Len(work'.stream[work'.handles[t].guid])
    BY DEF CountsEvents
  <2>1. CASE t = s
    BY <2>1, <1>3, <1>4, <1>6
  <2>2. CASE t # s
    BY <2>2, <1>1, <1>3, <1>4 DEF Sound, CountsEvents
  <2> QED BY <2>1, <2>2
<1>9. Consecutive(work')
  BY <1>1, <1>3 DEF Sound, Consecutive
<1>10. Unique(work')
  <2>1. ASSUME NEW t \in Slot, work'.handles[t] # None, t # s
        PROVE  /\ work'.handles[t] = work.handles[t] /\ work.handles[t] # None
               /\ work'.handles[t].guid # g /\ Issued(work', work'.handles[t].guid)
    <3>1. work'.handles[t] = work.handles[t]
      BY <2>1, <1>3, <1>4
    <3>2. Issued(work, work.handles[t].guid)
      BY <3>1, <2>1, <1>1 DEF Sound, Unique
    <3>3. work.handles[t].guid \in GUID
      BY <3>1, <2>1, <1>1, HandleFacts
    <3> QED BY <3>1, <3>2, <3>3, <2>1, <1>1, <1>3, <1>5, AdvanceKeepsIssued
  <2>2. work'.handles[s] = h
    BY <1>3, <1>4
  <2>3. \A t, u \in Slot :
          work'.handles[t] # None /\ work'.handles[u] # None /\ t # u =>
            work'.handles[t].guid # work'.handles[u].guid
    BY <2>1, <2>2, <1>1 DEF Sound, Unique
  <2>4. \A t \in Slot : work'.handles[t] # None => Issued(work', work'.handles[t].guid)
    BY <2>1, <2>2, <1>7
  <2>5. \A x \in GUID : work'.stream[x] # <<>> => Issued(work', x)
    BY <1>1, <1>3, AdvanceKeepsIssued DEF Sound, Unique
  <2> QED BY <2>3, <2>4, <2>5 DEF Unique
<1> QED BY <1>3, <1>8, <1>9, <1>10 DEF Sound

(* What appending to a sequence of n elements yields.                      *)
LEMMA AppendFacts ==
    ASSUME NEW S, NEW q \in Seq(S), NEW e \in S, NEW n, n = Len(q)
    PROVE  /\ Append(q, e) \in Seq(S) /\ Append(q, e) # <<>>
           /\ Len(Append(q, e)) = n + 1
           /\ \A i \in DOMAIN Append(q, e) :
                Append(q, e)[i] = IF i = n + 1 THEN e ELSE q[i]
           /\ DOMAIN Append(q, e) = 1..(n + 1)
<1>1. n \in Nat
  BY LenProperties
<1> QED BY <1>1, AppendProperties

(* An event is numbered with the length of its stream so far.              *)
LEMMA EmitEventSound ==
    ASSUME IInv, NEW s \in Slot, EmitEvent(s)
    PROVE  Sound(work')
<1> DEFINE h == work.handles[s]
           k == [h EXCEPT !.counter = CounterAfter(h)]
<1>1. Sound(work) /\ h # None /\ CounterAfter(h) <= MaxU64
  BY DEF IInv, EmitEvent
<1>2. /\ h \in EventHandle /\ h.guid \in GUID /\ h.counter \in 0..MaxU64
      /\ h.counter = Len(work.stream[h.guid])
  BY <1>1, HandleFacts
<1>3. /\ k \in EventHandle /\ k # None
      /\ k.guid = h.guid /\ k.counter = h.counter + 1
  BY <1>1, <1>2, EventStreamsAssumption, NoneAssumption DEF EventHandle, CounterAfter
<1>4. /\ work.handles \in [Slot -> {None} \cup EventHandle]
      /\ work.stream \in [GUID -> Seq(0..MaxU64)]
  BY <1>1, Parts
<1> DEFINE longer == Append(work.stream[h.guid], h.counter)
<1>5. /\ longer \in Seq(0..MaxU64) /\ longer # <<>>
      /\ Len(longer) = h.counter + 1
      /\ \A i \in DOMAIN longer :
           longer[i] = IF i = h.counter + 1 THEN h.counter ELSE work.stream[h.guid][i]
      /\ DOMAIN longer = 1..(h.counter + 1)
  BY <1>2, <1>4, AppendFacts
<1>6. /\ work'.generator = work.generator
      /\ work'.handles = [work.handles EXCEPT ![s] = k]
      /\ work'.stream = [work.stream EXCEPT ![h.guid] = longer]
      /\ work' \in State
  <2> DEFINE counted == [work EXCEPT !.handles[s].counter = CounterAfter(h)]
  <2>1. work' = [counted EXCEPT !.stream[h.guid] = Append(@, h.counter)]
    BY DEF EmitEvent
  <2>4. counted = [generator |-> work.generator,
                   handles |-> [work.handles EXCEPT ![s] = k], stream |-> work.stream]
    <3> DEFINE c == CounterAfter(h)
    <3>1. work = [generator |-> work.generator, handles |-> work.handles, stream |-> work.stream]
      BY <1>1, Parts
    <3>2. counted = [work EXCEPT !.handles[s].counter = c]
      OBVIOUS
    <3> HIDE DEF c, counted
    <3>3. counted = [generator |-> work.generator,
                     handles |-> [work.handles EXCEPT ![s] = [work.handles[s] EXCEPT !.counter = c]],
                     stream |-> work.stream]
      BY <3>1, <3>2, FieldUpdates
    <3> QED BY <3>3 DEF c
  <2> HIDE DEF counted
  <2>2. work' = [generator |-> work.generator,
                 handles |-> [work.handles EXCEPT ![s] = k],
                 stream |-> [work.stream EXCEPT ![h.guid] = longer]]
    BY <2>1, <2>4
  <2>3. /\ [work.handles EXCEPT ![s] = k] \in [Slot -> {None} \cup EventHandle]
        /\ [work.stream EXCEPT ![h.guid] = longer] \in [GUID -> Seq(0..MaxU64)]
    BY <1>2, <1>3, <1>4, <1>5
  <2> QED BY <2>2, <2>3, <1>1, Parts DEF State
<1>7. CountsEvents(work')
  <2> SUFFICES ASSUME NEW t \in Slot, work'.handles[t] # None
               PROVE  work'.handles[t].counter = Len(work'.stream[work'.handles[t].guid])
    BY DEF CountsEvents
  <2>1. CASE t = s
    BY <2>1, <1>2, <1>3, <1>4, <1>5, <1>6
  <2>2. CASE t # s
    <3>1. work'.handles[t] = work.handles[t] /\ work.handles[t].guid # h.guid
      BY <2>2, <1>1, <1>4, <1>6 DEF Sound, Unique
    <3>2. work'.stream[work.handles[t].guid] = work.stream[work.handles[t].guid]
      BY <3>1, <1>1, <1>4, <1>6, HandleFacts
    <3> QED BY <3>1, <3>2, <1>1 DEF Sound, CountsEvents
  <2> QED BY <2>1, <2>2
<1>8. Consecutive(work')
  <2> SUFFICES ASSUME NEW g \in GUID, NEW i \in DOMAIN work'.stream[g]
               PROVE  work'.stream[g][i] = i - 1
    BY DEF Consecutive
  <2>1. CASE g = h.guid
    <3>1. work'.stream[g] = longer
      BY <2>1, <1>4, <1>6
    <3>2. DOMAIN work.stream[g] = 1..h.counter
      BY <2>1, <1>2, <1>4
    <3>5. i \in DOMAIN longer
      BY <3>1
    <3> HIDE DEF longer
    <3>3. CASE i = h.counter + 1
      BY <3>1, <3>3, <3>5, <1>2, <1>5
    <3>4. CASE i # h.counter + 1
      <4>1. i \in 1..h.counter
        BY <3>4, <3>5, <1>2, <1>5
      <4> QED BY <4>1, <3>1, <3>2, <3>4, <3>5, <2>1, <1>1, <1>5 DEF Sound, Consecutive
    <3> QED BY <3>3, <3>4
  <2>2. CASE g # h.guid
    BY <2>2, <1>1, <1>4, <1>6 DEF Sound, Consecutive
  <2> QED BY <2>1, <2>2
<1>9. Unique(work')
  <2>1. \A t \in Slot : work'.handles[t] # None =>
          work.handles[t] # None /\ work'.handles[t].guid = work.handles[t].guid
    BY <1>1, <1>3, <1>4, <1>6
  <2>2. \A g : Issued(work, g) => Issued(work', g)
    BY <1>6 DEF Issued
  <2>3. \A t, u \in Slot :
          work'.handles[t] # None /\ work'.handles[u] # None /\ t # u =>
            work'.handles[t].guid # work'.handles[u].guid
    BY <2>1, <1>1 DEF Sound, Unique
  <2>4. \A t \in Slot : work'.handles[t] # None => Issued(work', work'.handles[t].guid)
    BY <2>1, <2>2, <1>1 DEF Sound, Unique
  <2>5. Issued(work', h.guid)
    BY <2>2, <1>1 DEF Sound, Unique
  <2>6. \A g \in GUID : work'.stream[g] # <<>> => Issued(work', g)
    BY <2>2, <2>5, <1>1, <1>4, <1>6 DEF Sound, Unique
  <2> QED BY <2>3, <2>4, <2>6 DEF Unique
<1> QED BY <1>6, <1>7, <1>8, <1>9 DEF Sound

(* Moving or destroying handles adds none, and no stream changes.          *)
LEMMA HandlesOnlyMove ==
    ASSUME Sound(work), work'.generator = work.generator, work'.stream = work.stream,
           work' \in State,
           NEW origin \in [Slot -> Slot],
           \A t \in Slot : work'.handles[t] # None =>
             work'.handles[t] = work.handles[origin[t]],
           \A t, u \in Slot : work'.handles[t] # None /\ work'.handles[u] # None
             /\ t # u => origin[t] # origin[u]
    PROVE  Sound(work')
<1>1. CountsEvents(work') /\ Consecutive(work')
  BY DEF Sound, CountsEvents, Consecutive
<1>2. \A g : Issued(work, g) => Issued(work', g)
  BY DEF Issued
<1>3. Unique(work')
  BY <1>2 DEF Sound, Unique
<1> QED BY <1>1, <1>3 DEF Sound

(* A handle moved to a free place is still the only one of its guid.       *)
LEMMA MoveHandleSound ==
    ASSUME IInv, NEW from \in Slot, NEW to \in Slot, MoveHandle(from, to)
    PROVE  Sound(work')
<1>1. Sound(work) /\ work.handles[from] # None /\ work.handles[to] = None
  BY DEF IInv, MoveHandle
<1> DEFINE hs == [[work.handles EXCEPT ![to] = work.handles[from]] EXCEPT ![from] = None]
           origin == [t \in Slot |-> IF t = to THEN from ELSE t]
<1>2. work.handles \in [Slot -> {None} \cup EventHandle]
  BY <1>1, Parts
<1>3. /\ work'.generator = work.generator /\ work'.stream = work.stream
      /\ work'.handles = hs /\ work' \in State
  <2> DEFINE placed == [work EXCEPT !.handles[to] = work.handles[from]]
  <2>1. work' = [placed EXCEPT !.handles[from] = None]
    BY DEF MoveHandle
  <2>4. placed = [generator |-> work.generator,
                  handles |-> [work.handles EXCEPT ![to] = work.handles[from]],
                  stream |-> work.stream]
    BY <1>1, Parts, FieldUpdates
  <2> HIDE DEF placed
  <2>2. work' = [generator |-> work.generator, handles |-> hs, stream |-> work.stream]
    BY <2>1, <2>4
  <2>3. hs \in [Slot -> {None} \cup EventHandle]
    BY <1>2
  <2> QED BY <2>2, <2>3, <1>1, Parts DEF State
<1>4. \A t \in Slot : work'.handles[t] # None =>
        t # from /\ work'.handles[t] = work.handles[origin[t]]
  BY <1>1, <1>2, <1>3
<1>5. origin \in [Slot -> Slot]
  OBVIOUS
<1>6. \A t, u \in Slot : work'.handles[t] # None /\ work'.handles[u] # None
        /\ t # u => origin[t] # origin[u]
  BY <1>4
<1> HIDE DEF origin
<1> QED BY <1>1, <1>3, <1>4, <1>5, <1>6, HandlesOnlyMove

(* Destroying a handle leaves the other handles and the streams sound.     *)
LEMMA DestroyHandleSound ==
    ASSUME IInv, NEW s \in Slot, DestroyHandle(s)
    PROVE  Sound(work')
<1>1. Sound(work)
  BY DEF IInv
<1> DEFINE hs == [work.handles EXCEPT ![s] = None]
           origin == [t \in Slot |-> t]
<1>2. work.handles \in [Slot -> {None} \cup EventHandle]
  BY <1>1, Parts
<1>3. /\ work'.generator = work.generator /\ work'.stream = work.stream
      /\ work'.handles = hs /\ work' \in State
  <2>1. work' = [work EXCEPT !.handles[s] = None]
    BY DEF DestroyHandle
  <2>2. work' = [generator |-> work.generator, handles |-> hs, stream |-> work.stream]
    BY <2>1, <1>1, Parts
  <2>3. hs \in [Slot -> {None} \cup EventHandle]
    BY <1>2
  <2> QED BY <2>2, <2>3, <1>1, Parts DEF State
<1>4. \A t \in Slot : work'.handles[t] # None => work'.handles[t] = work.handles[origin[t]]
  BY <1>2, <1>3
<1>5. /\ origin \in [Slot -> Slot]
      /\ \A t, u \in Slot : work'.handles[t] # None /\ work'.handles[u] # None
           /\ t # u => origin[t] # origin[u]
  OBVIOUS
<1> HIDE DEF origin
<1> QED BY <1>1, <1>3, <1>4, <1>5, HandlesOnlyMove

-----------------------------------------------------------------------------
(* Nothing is issued, handled or emitted at the start.                     *)
LEMMA InitIInv == Init => IInv
<1> SUFFICES ASSUME Init PROVE IInv
  OBVIOUS
<1>1. Stored \in State
  BY DEF Init, Stored, State
<1>2. \A s \in Slot : Stored.handles[s] = None
  BY DEF Init, Stored
<1>3. \A g \in GUID : Stored.stream[g] = <<>>
  BY DEF Init, Stored
<1>4. CountsEvents(Stored) /\ Unique(Stored)
  BY <1>2, <1>3 DEF CountsEvents, Unique
<1>5. Consecutive(Stored)
  BY <1>3 DEF Consecutive
<1> QED BY <1>1, <1>4, <1>5 DEF Init, IInv, Sound

(* Every step of the transaction keeps its work sound; the ends exchange   *)
(* what is stored and what was worked on.                                  *)
LEMMA StepIInv == IInv /\ [Next]_vars => IInv'
<1> SUFFICES ASSUME IInv, [Next]_vars PROVE IInv'
  OBVIOUS
<1>1. ASSUME Sound(work'), Running PROVE IInv'
  BY <1>1 DEF IInv, Running, Stored
<1>2. CASE PublishGenerator
  BY <1>1, <1>2, PublishGeneratorSound DEF PublishGenerator
<1>3. ASSUME NEW a \in Address, CreateGuid(a) PROVE IInv'
  BY <1>1, <1>3, CreateGuidSound DEF CreateGuid
<1>4. ASSUME NEW s \in Slot, NewEventHandle(s) PROVE IInv'
  BY <1>1, <1>4, NewEventHandleSound DEF NewEventHandle
<1>5. ASSUME NEW s \in Slot, EmitEvent(s) PROVE IInv'
  BY <1>1, <1>5, EmitEventSound DEF EmitEvent
<1>6. ASSUME NEW s \in Slot, DestroyHandle(s) PROVE IInv'
  BY <1>1, <1>6, DestroyHandleSound DEF DestroyHandle
<1>7. ASSUME NEW s \in Slot, NEW t \in Slot, MoveHandle(s, t) PROVE IInv'
  BY <1>1, <1>7, MoveHandleSound DEF MoveHandle
<1>8. ASSUME NEW a \in Address, Begin(a) PROVE IInv'
  BY <1>8 DEF Begin, IInv, Stored
<1>9. CASE Succeed \/ Fail
  BY <1>9 DEF Succeed, Fail, Finished, FailedWork, IInv, Stored
<1>10. CASE Apply
  <2>1. work = [generator |-> work.generator, handles |-> work.handles, stream |-> work.stream]
    BY Parts DEF IInv
  <2>2. Stored' = work
    BY <2>1, <1>10 DEF Apply, Stored
  <2> QED BY <2>2, <1>10 DEF Apply, IInv
<1>11. CASE Drop
  BY <1>11 DEF Drop, IInv, Stored
<1>12. CASE UNCHANGED vars
  BY <1>12 DEF vars, IInv, Stored
<1> QED BY <1>2, <1>3, <1>4, <1>5, <1>6, <1>7, <1>8, <1>9, <1>10, <1>11, <1>12 DEF Next

(* The invariant holds in every reachable state, for any accounts, slots   *)
(* and width of the counters.                                              *)
THEOREM Invariance == Spec => []IInv
BY InitIInv, StepIInv, PTL DEF Spec

(* Generators, handles and streams of a transaction and of the store hold  *)
(* values of their kinds: no counter of std::guid or std::event overflows. *)
THEOREM TypeCorrect == Spec => []TypeOK
BY Invariance, IInvIs, PTL

(* An EventHandle's counter is the number of events in its stream.         *)
THEOREM HandlesProveCounts == Spec => []HandlesCountEvents
BY Invariance, IInvIs, PTL

(* The events kept of a stream are numbered from zero without gap.         *)
THEOREM StreamsStayConsecutive == Spec => []StreamsConsecutive
BY Invariance, IInvIs, PTL

(* std::guid never gives out one guid twice.                               *)
THEOREM GuidsStayUnique == Spec => []GuidsUnique
BY Invariance, IInvIs, PTL
=============================================================================
