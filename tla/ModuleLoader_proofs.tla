------------------------ MODULE ModuleLoader_proofs ------------------------
(***************************************************************************)
(* Theorems about ModuleLoader for every set of threads, modules and       *)
(* module bytes, every size of the shared cache and any number of          *)
(* publishes.                                                              *)
(***************************************************************************)
EXTENDS ModuleLoader, FiniteSetTheorems, SequenceTheorems, WellFoundedInduction, TLAPS

View == [Ids -> Blobs \cup {None}]
Statuses == {"idle", "fetching", "ok", "absent", "other name", "verification error",
             "cyclic dependency", "linker error", "link error"}
FrameType == [id : Ids, todo : SUBSET Ids, local : {"new", "unseen", "done"}]

(* Types of the state.                                                     *)
TypeInv ==
    /\ store \in View
    /\ view \in [Threads -> View]
    /\ verified \in [Threads -> SUBSET Ids]
    /\ visited \in [Threads -> SUBSET Ids]
    /\ stack \in [Threads -> Seq(FrameType)]
    /\ status \in [Threads -> Statuses]

(* Whatever thread put a hash into the shared cache had run the verifier.  *)
SoundBlobs == {b \in Blobs : b.sound}
HashesAreSound == verifiedHashes \in Seq(SoundBlobs)

(* A frame past Step 1 holds the module asked for, sound, and each of its  *)
(* dependencies is still to visit, verified, or the frame above.           *)
FrameDone(v, V, s, i) ==
    /\ v[s[i].id].name = s[i].id /\ v[s[i].id].sound
    /\ \A d \in v[s[i].id].deps :
         d \in s[i].todo \/ d \in V \/ (i < Len(s) /\ s[i+1].id = d)

(* The frames s of a fetch over view v, with V verified and W visited:     *)
(* their modules are there, not verified yet, all different, each a        *)
(* dependency of the one below; all but the innermost are past Step 1; and *)
(* what has been visited is verified or still in progress.                 *)
Frames(v, V, W, s) ==
    /\ \A i \in 1..Len(s) :
         /\ v[s[i].id] # None /\ s[i].id \notin V /\ s[i].id \in W
         /\ s[i].local = "unseen" => v[s[i].id].name = s[i].id
         /\ s[i].local = "done" => FrameDone(v, V, s, i) /\ s[i].todo \subseteq v[s[i].id].deps
         /\ i < Len(s) => s[i].local = "done" /\ s[i+1].id \in v[s[i].id].deps
    /\ \A i, j \in 1..Len(s) : s[i].id = s[j].id => i = j
    /\ \A x \in W : x \in V \/ \E i \in 1..Len(s) : s[i].id = x

(* Verified code is sound, linked, complete, and on no cycle; a fetch      *)
(* refused for a cycle met one.                                            *)
ClosedIn(v, V) ==
    \A id \in V :
        /\ v[id] # None /\ v[id].name = id /\ v[id].sound
        /\ Links(v[id], v)
        /\ v[id].deps \subseteq V
CyclesIn(v, V, st) ==
    /\ \A id \in V : id \notin ReachedFrom(v, id)
    /\ st = "cyclic dependency" => \E id \in Ids : id \in ReachedFrom(v, id)

(* A thread: its view, what it verified and visited, its frames, and how   *)
(* its last fetch ended.                                                   *)
ThreadOK(v, V, W, s, st) ==
    /\ st = "fetching" <=> s # <<>>
    /\ s = <<>> => W = {}
    /\ Frames(v, V, W, s)
    /\ ClosedIn(v, V)
    /\ CyclesIn(v, V, st)

IInv ==
    /\ TypeInv
    /\ HashesAreSound
    /\ \A t \in Threads :
         ThreadOK(view[t], verified[t], visited[t], stack[t], status[t])

-----------------------------------------------------------------------------
(* Sequences of frames.                                                    *)

(* The frames of a recursion are frames, of module ids.                    *)
LEMMA FrameFields ==
  ASSUME NEW s \in Seq(FrameType)
  PROVE  /\ Len(s) \in Nat
         /\ \A i \in 1..Len(s) : s[i] \in FrameType /\ s[i].id \in Ids /\ s[i].todo \subseteq Ids
<1>1. Len(s) \in Nat /\ \A i \in 1..Len(s) : s[i] \in FrameType
  OBVIOUS
<1>2. \A f \in FrameType : f.id \in Ids /\ f.todo \subseteq Ids
  BY DEF FrameType
<1> QED
  BY <1>1, <1>2

(* The frames below the innermost one.                                     *)
LEMMA FrontFrames ==
  ASSUME NEW s \in Seq(FrameType), s # <<>>
  PROVE  /\ Front(s) \in Seq(FrameType) /\ Len(Front(s)) = Len(s) - 1
         /\ \A i \in 1..(Len(s) - 1) : Front(s)[i] = s[i]
         /\ Len(s) \in Nat /\ Len(s) > 0
         /\ Last(s) = s[Len(s)] /\ Last(s) \in FrameType
<1>1. Len(s) \in Nat /\ Len(s) > 0 /\ s[Len(s)] \in FrameType
  OBVIOUS
<1>2. /\ Front(s) \in Seq(FrameType) /\ Len(Front(s)) = Len(s) - 1
      /\ \A i \in 1..(Len(s) - 1) : Front(s)[i] = s[i]
  <2> DEFINE n == Len(s) - 1
  <2>1. n \in Nat /\ \A i \in 1..n : s[i] \in FrameType /\ (1 + i) - 1 = i
    BY <1>1
  <2> HIDE DEF n
  <2>2. /\ SubSeq(s, 1, n) \in Seq(FrameType) /\ Len(SubSeq(s, 1, n)) = n
        /\ \A i \in 1..n : SubSeq(s, 1, n)[i] = s[i]
    BY <2>1
  <2> QED
    BY <2>2 DEF Front, n
<1> QED
  BY <1>1, <1>2 DEF Last

(* The innermost frame replaced.                                           *)
LEMMA ReplacedTop ==
  ASSUME NEW s \in Seq(FrameType), s # <<>>, NEW f \in FrameType
  PROVE  /\ Front(s) \o <<f>> \in Seq(FrameType)
         /\ Len(Front(s) \o <<f>>) = Len(s)
         /\ Front(s) \o <<f>> # <<>>
         /\ (Front(s) \o <<f>>)[Len(s)] = f
         /\ \A i \in 1..(Len(s) - 1) : (Front(s) \o <<f>>)[i] = s[i]
<1> DEFINE r == Front(s)
<1>1. /\ r \in Seq(FrameType) /\ Len(r) = Len(s) - 1 /\ Len(s) \in Nat /\ Len(s) > 0
      /\ \A i \in 1..(Len(s) - 1) : r[i] = s[i]
  BY FrontFrames
<1> HIDE DEF r
<1>2. /\ r \o <<f>> \in Seq(FrameType) /\ Len(r \o <<f>>) = Len(r) + 1
      /\ (r \o <<f>>)[Len(r) + 1] = f
      /\ \A i \in 1..Len(r) : (r \o <<f>>)[i] = r[i]
  BY <1>1
<1>3. r \o <<f>> # <<>> /\ Len(r) + 1 = Len(s)
  BY <1>1, <1>2
<1> QED
  BY <1>1, <1>2, <1>3 DEF r

(* A frame pushed.                                                         *)
LEMMA PushedTop ==
  ASSUME NEW s \in Seq(FrameType), NEW f \in FrameType
  PROVE  /\ s \o <<f>> \in Seq(FrameType)
         /\ Len(s \o <<f>>) = Len(s) + 1
         /\ s \o <<f>> # <<>>
         /\ (s \o <<f>>)[Len(s) + 1] = f
         /\ \A i \in 1..Len(s) : (s \o <<f>>)[i] = s[i]
  OBVIOUS

(* The frame a visit starts with.                                          *)
LEMMA NewFrame ==
  ASSUME NEW id \in Ids
  PROVE  /\ Frame(id) \in FrameType
         /\ Frame(id).id = id /\ Frame(id).local = "new"
  BY DEF Frame, FrameType

-----------------------------------------------------------------------------
(* What a fetch does to its frames.                                        *)

(* No recursion, nothing to say.                                           *)
LEMMA NoFrames ==
  ASSUME NEW v, NEW V
  PROVE  Frames(v, V, {}, <<>>)
  BY DEF Frames

(* A fetch that finds its module starts with one frame.                    *)
LEMMA FirstFrame ==
  ASSUME NEW v, NEW V, NEW id \in Ids, v[id] # None, id \notin V
  PROVE  /\ Frames(v, V, {id}, <<Frame(id)>>)
         /\ <<Frame(id)>> \in Seq(FrameType) /\ <<Frame(id)>> # <<>>
<1> DEFINE s == <<Frame(id)>>
<1>1. s \in Seq(FrameType) /\ Len(s) = 1 /\ s[1] = Frame(id)
  BY NewFrame
<1>2. s # <<>> /\ 1..Len(s) = {1}
  BY <1>1
<1> HIDE DEF s
<1>3. Frames(v, V, {id}, s)
  BY <1>1, <1>2, NewFrame DEF Frames
<1> QED
  BY <1>1, <1>2, <1>3 DEF s

(* Step 1 moves on.                                                        *)
LEMMA TopMoves ==
  ASSUME NEW v, NEW V, NEW W, NEW s \in Seq(FrameType), s # <<>>, Frames(v, V, W, s),
         NEW f \in FrameType, f.id = Last(s).id,
         f.local = "unseen" => v[f.id].name = f.id,
         f.local = "done" =>
            /\ v[f.id].name = f.id /\ v[f.id].sound
            /\ \A d \in v[f.id].deps : d \in f.todo \/ d \in V
            /\ f.todo \subseteq v[f.id].deps
  PROVE  Frames(v, V, W, Front(s) \o <<f>>)
<1> DEFINE r == Front(s) \o <<f>>
           n == Len(s)
<1>1. /\ Len(r) = n /\ n \in Nat /\ n > 0 /\ r[n] = f /\ s[n].id = f.id
      /\ \A i \in 1..n : i # n => i \in 1..(n-1)
      /\ \A i \in 1..(n-1) : r[i] = s[i] /\ i \in 1..n /\ i < n /\ i + 1 \in 1..n
  BY ReplacedTop, FrontFrames
<1> HIDE DEF r, n
<1>2. \A i \in 1..n : r[i].id = s[i].id
  BY <1>1
<1>3. ASSUME NEW i \in 1..n
      PROVE  /\ v[r[i].id] # None /\ r[i].id \notin V /\ r[i].id \in W
             /\ r[i].local = "unseen" => v[r[i].id].name = r[i].id
             /\ r[i].local = "done" => FrameDone(v, V, r, i) /\ r[i].todo \subseteq v[r[i].id].deps
             /\ i < n => r[i].local = "done" /\ r[i+1].id \in v[r[i].id].deps
  <2>1. v[r[i].id] # None /\ r[i].id \notin V /\ r[i].id \in W
    BY <1>2 DEF Frames, n
  <2>2. CASE i = n
    <3>1. ~(i < n)
      BY <1>1, <2>2
    <3> QED
      BY <1>1, <2>1, <2>2, <3>1 DEF FrameDone
  <2>3. CASE i # n
    <3>1. r[i] = s[i] /\ i < n /\ i + 1 \in 1..n
      BY <1>1, <2>3
    <3>2. r[i+1].id = s[i+1].id
      BY <1>2, <3>1
    <3>3. /\ s[i].local = "done" /\ s[i+1].id \in v[s[i].id].deps
          /\ FrameDone(v, V, s, i) /\ s[i].todo \subseteq v[s[i].id].deps
      BY <3>1 DEF Frames, n
    <3>4. FrameDone(v, V, r, i)
      BY <1>1, <3>1, <3>2, <3>3 DEF FrameDone, n
    <3> QED
      BY <2>1, <3>1, <3>2, <3>3, <3>4
  <2> QED
    BY <2>2, <2>3
<1>4. \A i, j \in 1..n : r[i].id = r[j].id => i = j
  BY <1>2 DEF Frames, n
<1>5. \A x \in W : x \in V \/ \E i \in 1..n : r[i].id = x
  BY <1>2 DEF Frames, n
<1>6. Frames(v, V, W, r)
  BY <1>1, <1>3, <1>4, <1>5 DEF Frames
<1> QED
  BY <1>6 DEF r

(* A dependency gets a frame of its own.                                   *)
LEMMA TopVisits ==
  ASSUME NEW v, NEW V, NEW W, NEW s \in Seq(FrameType), s # <<>>, Frames(v, V, W, s),
         NEW d \in Ids, Last(s).local = "done", d \in Last(s).todo,
         v[d] # None, d \notin V, d \notin W,
         NEW f \in FrameType, f = [Last(s) EXCEPT !.todo = @ \ {d}]
  PROVE  /\ Frames(v, V, W \cup {d}, (Front(s) \o <<f>>) \o <<Frame(d)>>)
         /\ (Front(s) \o <<f>>) \o <<Frame(d)>> \in Seq(FrameType)
         /\ (Front(s) \o <<f>>) \o <<Frame(d)>> # <<>>
<1> DEFINE q == Front(s) \o <<f>>
           r == q \o <<Frame(d)>>
           n == Len(s)
<1>1. /\ q \in Seq(FrameType) /\ Len(q) = n /\ n \in Nat /\ n > 0
      /\ q[n] = f /\ Last(s) = s[n] /\ s[n] \in FrameType
      /\ \A i \in 1..(n-1) : q[i] = s[i]
  BY ReplacedTop, FrontFrames
<1>2. /\ f.id = s[n].id /\ f.local = "done" /\ f.todo = s[n].todo \ {d}
      /\ d \in s[n].todo /\ s[n].local = "done"
  BY <1>1 DEF FrameType
<1>3. Frame(d) \in FrameType /\ Frame(d).id = d /\ Frame(d).local = "new"
  BY NewFrame
<1> HIDE DEF q
<1>4. /\ r \in Seq(FrameType) /\ Len(r) = n + 1 /\ r # <<>>
      /\ r[n+1] = Frame(d)
      /\ \A i \in 1..n : r[i] = q[i]
  <2>1. /\ r \in Seq(FrameType) /\ Len(r) = Len(q) + 1 /\ r # <<>>
        /\ r[Len(q) + 1] = Frame(d)
        /\ \A i \in 1..Len(q) : r[i] = q[i]
    BY <1>1, <1>3, PushedTop
  <2> QED
    BY <1>1, <2>1
<1> HIDE DEF r
<1>5. /\ \A i \in 1..(n+1) : i \in 1..(n-1) \/ i = n \/ i = n + 1
      /\ \A i \in 1..(n-1) : i \in 1..n /\ i < n /\ i < n + 1 /\ i # n /\ i + 1 \in 1..n
      /\ n \in 1..n /\ n < n + 1 /\ ~(n < n) /\ ~(n + 1 < n + 1) /\ n # n + 1
      /\ \A i \in 1..n : i \in 1..(n+1) /\ i # n + 1 /\ (i = n \/ i \in 1..(n-1))
      /\ n + 1 \in 1..(n+1)
  BY <1>1
<1> HIDE DEF n
<1>6. /\ r[n] = f
      /\ \A i \in 1..(n-1) : r[i] = s[i]
      /\ \A i \in 1..n : r[i].id = s[i].id
  BY <1>1, <1>2, <1>4, <1>5
<1>7. /\ \A i \in 1..n :
           /\ v[s[i].id] # None /\ s[i].id \notin V /\ s[i].id \in W
           /\ s[i].local = "done" => FrameDone(v, V, s, i) /\ s[i].todo \subseteq v[s[i].id].deps
           /\ i < n => s[i].local = "done" /\ s[i+1].id \in v[s[i].id].deps
      /\ \A i, j \in 1..n : s[i].id = s[j].id => i = j
      /\ \A x \in W : x \in V \/ \E i \in 1..n : s[i].id = x
  BY DEF Frames, n
<1>8. ASSUME NEW i \in 1..(n+1)
      PROVE  /\ v[r[i].id] # None /\ r[i].id \notin V /\ r[i].id \in W \cup {d}
             /\ r[i].local = "unseen" => v[r[i].id].name = r[i].id
             /\ r[i].local = "done" => FrameDone(v, V, r, i) /\ r[i].todo \subseteq v[r[i].id].deps
             /\ i < n + 1 => r[i].local = "done" /\ r[i+1].id \in v[r[i].id].deps
  <2>1. CASE i = n + 1
    BY <1>3, <1>4, <1>5, <2>1
  <2>2. CASE i = n
    <3>1. /\ v[s[n].id].name = s[n].id /\ v[s[n].id].sound
          /\ \A x \in v[s[n].id].deps : x \in s[n].todo \/ x \in V
          /\ s[n].todo \subseteq v[s[n].id].deps
      BY <1>2, <1>5, <1>7 DEF FrameDone, n
    <3>2. FrameDone(v, V, r, n)
      BY <1>2, <1>3, <1>4, <1>5, <1>6, <3>1 DEF FrameDone
    <3>3. r[n].local = "done" /\ r[n].id = s[n].id /\ r[n].todo \subseteq v[r[n].id].deps
          /\ r[n+1].id \in v[r[n].id].deps
      BY <1>2, <1>3, <1>4, <1>6, <3>1
    <3> QED
      BY <1>5, <1>7, <2>2, <3>2, <3>3
  <2>3. CASE i \in 1..(n-1)
    <3>1. r[i] = s[i] /\ i < n /\ i \in 1..n /\ r[i+1].id = s[i+1].id
      BY <1>5, <1>6, <2>3
    <3>2. /\ s[i].local = "done" /\ s[i+1].id \in v[s[i].id].deps
          /\ FrameDone(v, V, s, i) /\ s[i].todo \subseteq v[s[i].id].deps
      BY <1>7, <3>1
    <3>3. FrameDone(v, V, r, i)
      BY <1>4, <1>5, <2>3, <3>1, <3>2 DEF FrameDone
    <3> QED
      BY <1>7, <3>1, <3>2, <3>3
  <2> QED
    BY <1>5, <2>1, <2>2, <2>3
<1>9. \A i, j \in 1..(n+1) : r[i].id = r[j].id => i = j
  <2>1. \A i \in 1..(n+1) : i \in 1..n \/ i = n + 1
    BY <1>5
  <2>2. \A i \in 1..n : r[i].id # d
    BY <1>6, <1>7
  <2>3. r[n+1].id = d
    BY <1>3, <1>4
  <2>4. \A i, j \in 1..n : r[i].id = r[j].id => i = j
    BY <1>6, <1>7
  <2> QED
    BY <2>1, <2>2, <2>3, <2>4
<1>10. ASSUME NEW x \in W \cup {d} PROVE x \in V \/ \E i \in 1..(n+1) : r[i].id = x
  <2>1. CASE x = d
    BY <1>3, <1>4, <1>5, <2>1
  <2>2. CASE x \in W
    BY <1>5, <1>6, <1>7, <2>2
  <2> QED
    BY <2>1, <2>2
<1>11. Frames(v, V, W \cup {d}, r)
  BY <1>4, <1>8, <1>9, <1>10 DEF Frames
<1> QED
  BY <1>4, <1>11 DEF r, q

(* The innermost module is verified, and its frame returns.                *)
LEMMA TopReturns ==
  ASSUME NEW v, NEW V, NEW W, NEW s \in Seq(FrameType), s # <<>>, Frames(v, V, W, s)
  PROVE  Frames(v, V \cup {Last(s).id}, W, Front(s))
<1> DEFINE r == Front(s)
           n == Len(s)
           U == V \cup {Last(s).id}
<1>1. /\ Len(r) = n - 1 /\ n \in Nat /\ n > 0 /\ Last(s) = s[n]
      /\ \A i \in 1..(n-1) : r[i] = s[i]
  BY FrontFrames
<1> HIDE DEF r
<1>2. /\ \A i \in 1..(n-1) : i \in 1..n /\ i < n /\ i # n
                              /\ (i + 1 = n \/ (i + 1 \in 1..(n-1) /\ i < n - 1))
      /\ \A i \in 1..n : i = n \/ i \in 1..(n-1)
      /\ n \in 1..n /\ \A i \in 1..(n-1) : i < n - 1 => i + 1 \in 1..(n-1)
  BY <1>1
<1>3. /\ \A i \in 1..n :
           /\ v[s[i].id] # None /\ s[i].id \notin V /\ s[i].id \in W
           /\ s[i].local = "unseen" => v[s[i].id].name = s[i].id
           /\ s[i].local = "done" => FrameDone(v, V, s, i) /\ s[i].todo \subseteq v[s[i].id].deps
           /\ i < n => s[i].local = "done" /\ s[i+1].id \in v[s[i].id].deps
      /\ \A i, j \in 1..n : s[i].id = s[j].id => i = j
      /\ \A x \in W : x \in V \/ \E i \in 1..n : s[i].id = x
  BY DEF Frames
<1> HIDE DEF n
<1>4. ASSUME NEW i \in 1..(n-1)
      PROVE  /\ v[r[i].id] # None /\ r[i].id \notin U /\ r[i].id \in W
             /\ r[i].local = "unseen" => v[r[i].id].name = r[i].id
             /\ r[i].local = "done" => FrameDone(v, U, r, i) /\ r[i].todo \subseteq v[r[i].id].deps
             /\ i < n - 1 => r[i].local = "done" /\ r[i+1].id \in v[r[i].id].deps
  <2>1. r[i] = s[i] /\ i \in 1..n /\ i < n /\ i # n
    BY <1>1, <1>2
  <2>2. s[i].id # s[n].id
    BY <1>2, <1>3, <2>1
  <2>3. /\ s[i].local = "done" /\ s[i+1].id \in v[s[i].id].deps
        /\ FrameDone(v, V, s, i) /\ s[i].todo \subseteq v[s[i].id].deps
    BY <1>3, <2>1
  <2>4. i + 1 = n \/ (r[i+1] = s[i+1] /\ i < n - 1)
    BY <1>1, <1>2
  <2>5. FrameDone(v, U, r, i)
    BY <1>1, <2>1, <2>3, <2>4 DEF FrameDone
  <2>6. i < n - 1 => r[i+1] = s[i+1]
    BY <1>1, <1>2
  <2> QED
    BY <1>1, <1>3, <2>1, <2>2, <2>3, <2>5, <2>6
<1>5. ASSUME NEW i \in 1..(n-1), NEW j \in 1..(n-1), r[i].id = r[j].id PROVE i = j
  <2>1. i \in 1..n /\ j \in 1..n /\ s[i].id = s[j].id
    BY <1>1, <1>2, <1>5
  <2> QED
    BY <1>3, <2>1
<1>6. ASSUME NEW x \in W PROVE x \in U \/ \E i \in 1..(n-1) : r[i].id = x
  BY <1>1, <1>2, <1>3
<1> HIDE DEF U
<1>7. Frames(v, U, W, r)
  BY <1>1, <1>4, <1>5, <1>6 DEF Frames
<1> QED
  BY <1>7 DEF r, U

-----------------------------------------------------------------------------
(* The modules reached from a module, for any number of modules.           *)

(* Induction over the natural numbers, for a set.                          *)
LEMMA NatSetInduction ==
  ASSUME NEW S, 0 \in S, \A n \in Nat : n \in S => n + 1 \in S
  PROVE  Nat \subseteq S
<1> DEFINE T == Nat \ S
<1> SUFFICES ASSUME T # {} PROVE FALSE
  OBVIOUS
<1>1. PICK x \in T : \A y \in T : ~(<<y, x>> \in OpToRel(<, Nat))
  BY NatLessThanWellFounded, WFMin
<1>2. x - 1 \in Nat /\ x - 1 \in T
  OBVIOUS
<1>3. <<x - 1, x>> \in OpToRel(<, Nat)
  BY <1>2 DEF OpToRel
<1> QED
  BY <1>1, <1>2, <1>3

(* There are finitely many module ids.                                     *)
LEMMA SizeOfIds ==
  /\ IsFiniteSet(Ids) /\ Cardinality(Ids) \in Nat
  BY LoaderAssumption, FS_CardinalityType

(* The steps of ReachedFrom's recursion.                                   *)
LEMMA ReachSteps ==
  ASSUME NEW v, NEW id
  PROVE  \E R : /\ ReachedFrom(v, id) = R[Cardinality(Ids)]
                /\ R[0] = DependenciesIn(v, {id})
                /\ \A n \in Nat : n + 1 <= Cardinality(Ids) =>
                     R[n+1] = R[n] \cup DependenciesIn(v, R[n])
<1> DEFINE N == Cardinality(Ids)
           Part(g, n) == IF n = 0 THEN DependenciesIn(v, {id})
                         ELSE g[n-1] \cup DependenciesIn(v, g[n-1])
           Is(g, k) == g = [n \in 0..k |-> Part(g, n)]
           Exists(k) == \E g : Is(g, k)
<1>0. N \in Nat
  BY SizeOfIds
<1>1. Exists(0)
  <2> DEFINE g == [n \in 0..0 |-> DependenciesIn(v, {id})]
  <2>1. Is(g, 0)
    OBVIOUS
  <2> HIDE DEF Is
  <2> QED
    BY <2>1
<1>2. ASSUME NEW k \in Nat, Exists(k) PROVE Exists(k + 1)
  <2>1. PICK g : Is(g, k)
    <3> HIDE DEF Is
    <3> QED
      BY <1>2
  <2> DEFINE h == [n \in 0..(k+1) |-> IF n = k + 1 THEN g[k] \cup DependenciesIn(v, g[k]) ELSE g[n]]
  <2>2. ASSUME NEW n \in 0..(k+1) PROVE h[n] = Part(h, n)
    <3>1. CASE n = k + 1
      <4>1. n # 0 /\ n - 1 = k /\ k \in 0..(k+1) /\ k # k + 1
        BY <3>1
      <4>2. h[n] = g[k] \cup DependenciesIn(v, g[k]) /\ h[n-1] = g[k]
        BY <3>1, <4>1
      <4> QED
        BY <4>1, <4>2
    <3>2. CASE n # k + 1
      <4>1. n \in 0..k /\ (n # 0 => n - 1 \in 0..k /\ n - 1 \in 0..(k+1) /\ n - 1 # k + 1)
        BY <3>2
      <4>2. h[n] = g[n] /\ (n # 0 => h[n-1] = g[n-1])
        BY <3>2, <4>1
      <4>3. g[n] = Part(g, n)
        BY <2>1, <4>1
      <4> QED
        BY <4>2, <4>3
    <3> QED
      BY <3>1, <3>2
  <2>3. Is(h, k + 1)
    <3>1. h = [n \in 0..(k+1) |-> h[n]]
      OBVIOUS
    <3> HIDE DEF h
    <3> QED
      BY <3>1, <2>2
  <2> HIDE DEF Is
  <2> QED
    BY <2>3
<1>3. Exists(N)
  <2> HIDE DEF Exists
  <2> DEFINE S == {k \in Nat : Exists(k)}
  <2>1. 0 \in S /\ \A k \in Nat : k \in S => k + 1 \in S
    BY <1>1, <1>2
  <2>2. Nat \subseteq S
    <3> HIDE DEF S
    <3> QED
      BY <2>1, NatSetInduction
  <2> QED
    BY <1>0, <2>2
<1> DEFINE R == CHOOSE g : Is(g, N)
<1>4. Is(R, N)
  <2> HIDE DEF Is
  <2> QED
    BY <1>3
<1>5. ReachedFrom(v, id) = R[N]
  BY DEF ReachedFrom
<1> HIDE DEF R
<1>6. R[0] = DependenciesIn(v, {id})
  BY <1>0, <1>4
<1>7. ASSUME NEW n \in Nat, n + 1 <= N PROVE R[n+1] = R[n] \cup DependenciesIn(v, R[n])
  <2>1. n + 1 \in 0..N /\ n + 1 # 0 /\ (n + 1) - 1 = n
    BY <1>0, <1>7
  <2>2. R[n+1] = Part(R, n + 1)
    BY <1>4, <2>1
  <2> QED
    BY <2>1, <2>2
<1> QED
  BY <1>5, <1>6, <1>7

(* A set that is closed under dependencies is not left.                    *)
LEMMA ReachStays ==
  ASSUME NEW v, NEW id, NEW V, DependenciesIn(v, {id}) \subseteq V, DependenciesIn(v, V) \subseteq V
  PROVE  ReachedFrom(v, id) \subseteq V
<1> DEFINE N == Cardinality(Ids)
<1>0. N \in Nat
  BY SizeOfIds
<1>1. PICK R : /\ ReachedFrom(v, id) = R[N]
               /\ R[0] = DependenciesIn(v, {id})
               /\ \A n \in Nat : n + 1 <= N => R[n+1] = R[n] \cup DependenciesIn(v, R[n])
  BY ReachSteps
<1> HIDE DEF N
<1> DEFINE Stays(n) == n > N \/ R[n] \subseteq V
<1>2. Stays(0)
  BY <1>1
<1>3. ASSUME NEW n \in Nat, Stays(n) PROVE Stays(n + 1)
  <2>1. CASE n + 1 > N
    BY <2>1
  <2>2. CASE n + 1 <= N
    <3>1. R[n] \subseteq V
      BY <1>0, <1>3, <2>2
    <3>2. DependenciesIn(v, R[n]) \subseteq DependenciesIn(v, V)
      BY <3>1 DEF DependenciesIn
    <3>3. R[n+1] = R[n] \cup DependenciesIn(v, R[n])
      BY <1>1, <2>2
    <3> QED
      BY <3>1, <3>2, <3>3
  <2> QED
    BY <1>0, <2>1, <2>2
<1>4. Stays(N)
  <2> HIDE DEF Stays
  <2> DEFINE S == {n \in Nat : Stays(n)}
  <2>1. 0 \in S /\ \A n \in Nat : n \in S => n + 1 \in S
    BY <1>2, <1>3
  <2>2. Nat \subseteq S
    <3> HIDE DEF S
    <3> QED
      BY <2>1, NatSetInduction
  <2> QED
    BY <1>0, <2>2
<1> QED
  BY <1>0, <1>1, <1>4

(* What a path of dependencies, no longer than there are modules, leads to *)
(* is reached.                                                             *)
LEMMA ReachPath ==
  ASSUME NEW v, NEW m \in 0..Cardinality(Ids), NEW p,
         \A k \in 0..m : v[p[k]] # None /\ p[k+1] \in v[p[k]].deps
  PROVE  p[m+1] \in ReachedFrom(v, p[0])
<1> DEFINE N == Cardinality(Ids)
<1>0. N \in Nat /\ m \in Nat /\ m <= N
  BY SizeOfIds
<1>1. PICK R : /\ ReachedFrom(v, p[0]) = R[N]
               /\ R[0] = DependenciesIn(v, {p[0]})
               /\ \A n \in Nat : n + 1 <= N => R[n+1] = R[n] \cup DependenciesIn(v, R[n])
  BY ReachSteps
<1> HIDE DEF N
<1> DEFINE On(n) == \/ n > N
                    \/ (n <= m => p[n+1] \in R[n]) /\ (n > m => p[m+1] \in R[n])
<1>2. \A S, x : x \in S /\ v[x] # None => v[x].deps \subseteq DependenciesIn(v, S)
  BY DEF DependenciesIn
<1>3. On(0)
  <2>1. p[0] \in {p[0]} /\ v[p[0]] # None /\ p[0+1] \in v[p[0]].deps
    BY <1>0
  <2> QED
    BY <1>0, <1>1, <1>2, <2>1
<1>4. ASSUME NEW n \in Nat, On(n) PROVE On(n + 1)
  <2>1. CASE n + 1 > N
    BY <2>1
  <2>2. CASE n + 1 <= N
    <3>1. R[n+1] = R[n] \cup DependenciesIn(v, R[n])
      BY <1>1, <2>2
    <3>2. (n <= m => p[n+1] \in R[n]) /\ (n > m => p[m+1] \in R[n])
      BY <1>0, <1>4, <2>2
    <3>3. CASE n + 1 <= m
      <4>1. n + 1 \in 0..m /\ n <= m /\ ~(n + 1 > m)
        BY <1>0, <3>3
      <4>2. v[p[n+1]] # None /\ p[(n+1)+1] \in v[p[n+1]].deps
        BY <4>1
      <4>3. p[(n+1)+1] \in DependenciesIn(v, R[n])
        BY <1>2, <3>2, <4>1, <4>2
      <4> QED
        BY <3>1, <4>1, <4>3
    <3>4. CASE n = m
      BY <1>0, <3>1, <3>2, <3>4
    <3>5. CASE n > m
      BY <1>0, <3>1, <3>2, <3>5
    <3> QED
      BY <1>0, <3>3, <3>4, <3>5
  <2> QED
    BY <1>0, <2>1, <2>2
<1>5. On(N)
  <2> HIDE DEF On
  <2> DEFINE S == {n \in Nat : On(n)}
  <2>1. 0 \in S /\ \A n \in Nat : n \in S => n + 1 \in S
    BY <1>3, <1>4
  <2>2. Nat \subseteq S
    <3> HIDE DEF S
    <3> QED
      BY <2>1, NatSetInduction
  <2> QED
    BY <1>0, <2>2
<1> QED
  BY <1>0, <1>1, <1>5

(* A dependency met again that is still in progress closes a cycle.        *)
LEMMA FramesCycle ==
  ASSUME NEW v, NEW V, NEW W, NEW s \in Seq(FrameType), s # <<>>, Frames(v, V, W, s),
         NEW d \in W, d \notin V, v[Last(s).id] # None, d \in v[Last(s).id].deps
  PROVE  d \in ReachedFrom(v, d) /\ d \in Ids
<1> DEFINE n == Len(s)
<1>1. n \in Nat /\ n > 0 /\ Last(s) = s[n] /\ \A i \in 1..n : s[i].id \in Ids
  BY FrontFrames, FrameFields
<1>2. PICK i \in 1..n : s[i].id = d
  BY DEF Frames
<1>3. n <= Cardinality(Ids)
  <2> DEFINE f == [k \in 1..n |-> s[k].id]
  <2>1. f \in Injection(1..n, Ids)
    <3>1. f \in [1..n -> Ids]
      BY <1>1
    <3>2. \A a, b \in 1..n : f[a] = f[b] => a = b
      BY DEF Frames
    <3> QED
      BY <3>1, <3>2 DEF Injection, IsInjective
  <2>2. Cardinality(1..n) = n
    BY <1>1, FS_Interval
  <2>3. Cardinality(1..n) <= Cardinality(Ids)
    <3> HIDE DEF f
    <3> QED
      BY <2>1, SizeOfIds, FS_Injection
  <2> QED
    BY <2>2, <2>3
<1>4. \A k \in 1..n :
        /\ v[s[k].id] # None
        /\ k < n => s[k+1].id \in v[s[k].id].deps
  BY DEF Frames
<1> HIDE DEF n
<1> DEFINE m == n - i
           p == [k \in 0..(m+1) |-> IF k = m + 1 THEN d ELSE s[i+k].id]
<1>5. m \in 0..Cardinality(Ids) /\ m \in Nat
  BY <1>1, <1>3, SizeOfIds
<1>6. ASSUME NEW k \in 0..m PROVE v[p[k]] # None /\ p[k+1] \in v[p[k]].deps
  <2>1. /\ k # m + 1 /\ k \in 0..(m+1) /\ k + 1 \in 0..(m+1) /\ i + k \in 1..n
        /\ i + (k + 1) = (i + k) + 1
        /\ k + 1 = m + 1 => i + k = n
        /\ k + 1 # m + 1 => i + k < n
    <3>1. k \in Nat /\ k <= m /\ i \in Nat /\ 1 <= i /\ i <= n /\ n \in Nat /\ m = n - i
      BY <1>1, <1>5
    <3> HIDE DEF p, m
    <3> QED
      BY <1>5, <3>1
  <2>2. p[k] = s[i+k].id
    BY <2>1
  <2>3. CASE k + 1 = m + 1
    <3>1. p[k+1] = d /\ s[i+k] = s[n]
      BY <2>1, <2>3
    <3> QED
      BY <1>1, <2>2, <3>1
  <2>4. CASE k + 1 # m + 1
    <3>1. p[k+1] = s[(i+k)+1].id
      BY <2>1, <2>4
    <3>2. s[(i+k)+1].id \in v[s[i+k].id].deps /\ v[s[i+k].id] # None
      BY <1>4, <2>1, <2>4
    <3> QED
      BY <2>2, <3>1, <3>2
  <2> QED
    BY <2>3, <2>4
<1>7. p[0] = d /\ p[m+1] = d
  <2>1. 0 \in 0..(m+1) /\ m + 1 \in 0..(m+1) /\ 0 # m + 1 /\ i + 0 = i
    BY <1>1, <1>5
  <2> QED
    BY <1>2, <2>1
<1>8. p[m+1] \in ReachedFrom(v, p[0])
  <2> HIDE DEF p, m
  <2> QED
    BY <1>5, <1>6, ReachPath
<1> QED
  BY <1>1, <1>2, <1>7, <1>8

-----------------------------------------------------------------------------
(* The shared cache.                                                       *)

(* A nonempty set of natural numbers has a least element.                  *)
LEMMA LeastNatural ==
  ASSUME NEW S, S \subseteq Nat, S # {}
  PROVE  \E x \in S : \A y \in S : x <= y
<1>1. PICK x \in S : \A y \in S : ~(<<y, x>> \in OpToRel(<, Nat))
  BY NatLessThanWellFounded, WFMin
<1>2. \A y \in S : x <= y
  <2> SUFFICES ASSUME NEW y \in S PROVE x <= y
    OBVIOUS
  <2>1. x \in Nat /\ y \in Nat /\ ~(y < x)
    BY <1>1 DEF OpToRel
  <2> QED
    BY <2>1
<1> QED
  BY <1>2

(* put adds the hash and no other.                                         *)
LEMMA PutHash ==
  ASSUME NEW T, NEW b \in T, verifiedHashes \in Seq(T)
  PROVE  Put(b) \in Seq(T)
<1> DEFINE h == verifiedHashes
           rest == RemoveFirst(h, b)
<1>1. rest \in Seq(T)
  <2>1. CASE \E i \in 1..Len(h) : h[i] = b
    <3> DEFINE I == {i \in 1..Len(h) : h[i] = b}
               k == Min(I)
    <3>1. I \subseteq Nat /\ I # {}
      BY <2>1
    <3>2. \E x \in I : \A y \in I : x <= y
      <4> HIDE DEF I
      <4> QED
        BY <3>1, LeastNatural
    <3>3. k \in I
      <4> HIDE DEF I
      <4> QED
        BY <3>2 DEF Min
    <3>4. k \in 1..Len(h) /\ Len(h) \in Nat
      BY <3>3
    <3>5. rest = SubSeq(h, 1, k - 1) \o SubSeq(h, k + 1, Len(h))
      BY <2>1, <3>1 DEF RemoveFirst, RemoveAt, SelectInSeq
    <3> HIDE DEF k
    <3>6. SubSeq(h, 1, k - 1) \in Seq(T) /\ SubSeq(h, k + 1, Len(h)) \in Seq(T)
      BY <3>4
    <3> QED
      BY <3>5, <3>6, ConcatProperties
  <2>2. CASE ~(\E i \in 1..Len(h) : h[i] = b)
    BY <2>2 DEF RemoveFirst
  <2> QED
    BY <2>1, <2>2
<1> HIDE DEF rest
<1>2. Len(rest) = CacheSize => Tail(rest) \in Seq(T)
  BY <1>1, LoaderAssumption
<1>3. Append(IF Len(rest) = CacheSize THEN Tail(rest) ELSE rest, b) \in Seq(T)
  BY <1>1, <1>2
<1> QED
  BY <1>3 DEF Put, rest

-----------------------------------------------------------------------------
(* The steps.                                                              *)

(* A step of a thread leaves the others as they are.                       *)
LEMMA OneThread ==
  ASSUME IInv, NEW t \in Threads, store' \in View, HashesAreSound',
         NEW v \in View, NEW V \in SUBSET Ids, NEW W \in SUBSET Ids,
         NEW s \in Seq(FrameType), NEW st \in Statuses, ThreadOK(v, V, W, s, st),
         view' = [view EXCEPT ![t] = v], verified' = [verified EXCEPT ![t] = V],
         visited' = [visited EXCEPT ![t] = W], stack' = [stack EXCEPT ![t] = s],
         status' = [status EXCEPT ![t] = st]
  PROVE  IInv'
<1>1. TypeInv'
  BY DEF IInv, TypeInv
<1>2. ASSUME NEW u \in Threads
      PROVE  ThreadOK(view'[u], verified'[u], visited'[u], stack'[u], status'[u])
  <2>1. CASE u = t
    BY <2>1 DEF IInv, TypeInv
  <2>2. CASE u # t
    <3>1. /\ view'[u] = view[u] /\ verified'[u] = verified[u] /\ visited'[u] = visited[u]
          /\ stack'[u] = stack[u] /\ status'[u] = status[u]
      BY <2>2 DEF IInv, TypeInv
    <3> QED
      BY <3>1 DEF IInv
  <2> QED
    BY <2>1, <2>2
<1> QED
  BY <1>1, <1>2 DEF IInv

(* What is not assigned keeps its value.                                   *)
LEMMA SameValue ==
  ASSUME NEW S, NEW f \in [Threads -> S], NEW t \in Threads
  PROVE  f = [f EXCEPT ![t] = f[t]]
  OBVIOUS

(* What the invariant says of one thread.                                  *)
LEMMA ThreadTypes ==
  ASSUME IInv, NEW t \in Threads
  PROVE  /\ store \in View
         /\ view[t] \in View /\ verified[t] \in SUBSET Ids /\ visited[t] \in SUBSET Ids
         /\ stack[t] \in Seq(FrameType) /\ status[t] \in Statuses
         /\ ThreadOK(view[t], verified[t], visited[t], stack[t], status[t])
         /\ view = [view EXCEPT ![t] = view[t]]
         /\ verified = [verified EXCEPT ![t] = verified[t]]
         /\ visited = [visited EXCEPT ![t] = visited[t]]
         /\ stack = [stack EXCEPT ![t] = stack[t]]
         /\ status = [status EXCEPT ![t] = status[t]]
  BY SameValue DEF IInv, TypeInv

(* A transaction starts on the present state with an empty cache.          *)
LEMMA BeginKeeps ==
  ASSUME IInv, NEW t \in Threads, BeginTransaction(t)
  PROVE  IInv'
<1>1. stack[t] = <<>> /\ visited[t] = {}
  BY ThreadTypes DEF BeginTransaction, ThreadOK
<1>2. ThreadOK(store, {}, {}, <<>>, "idle")
  BY NoFrames DEF ThreadOK, ClosedIn, CyclesIn
<1>3. HashesAreSound'
  BY DEF IInv, HashesAreSound, BeginTransaction
<1>4. /\ store \in View /\ store' = store /\ <<>> \in Seq(FrameType)
      /\ {} \in SUBSET Ids /\ "idle" \in Statuses
      /\ view' = [view EXCEPT ![t] = store]
      /\ verified' = [verified EXCEPT ![t] = {}]
      /\ visited' = [visited EXCEPT ![t] = {}]
      /\ stack' = [stack EXCEPT ![t] = <<>>]
      /\ status' = [status EXCEPT ![t] = "idle"]
  BY <1>1, ThreadTypes DEF BeginTransaction, Statuses
<1> QED
  BY <1>2, <1>3, <1>4, OneThread

(* A fetch that ends without having verified more.                         *)
LEMMA EndKeeps ==
  ASSUME NEW v, NEW V, NEW W, NEW s, NEW st, ThreadOK(v, V, W, s, st),
         NEW e, e # "fetching", e # "cyclic dependency"
  PROVE  ThreadOK(v, V, {}, <<>>, e)
  BY NoFrames DEF ThreadOK, CyclesIn

(* fetch_verified_module answers from the cache, fails, or starts to       *)
(* visit.                                                                  *)
LEMMA FetchKeeps ==
  ASSUME IInv, NEW t \in Threads, NEW id \in Ids, Fetch(t, id)
  PROVE  IInv'
<1> DEFINE v == view[t]
           V == verified[t]
<1>1. /\ stack[t] = <<>> /\ visited[t] = {}
      /\ v \in View /\ V \in SUBSET Ids /\ <<>> \in Seq(FrameType) /\ store' \in View
      /\ view' = [view EXCEPT ![t] = v]
      /\ verified' = [verified EXCEPT ![t] = V]
      /\ ThreadOK(v, V, {}, <<>>, status[t])
  BY ThreadTypes DEF Fetch, ThreadOK
<1>2. HashesAreSound'
  BY DEF IInv, HashesAreSound, Fetch
<1>3. ASSUME NEW e \in {"absent", "ok"}, status' = [status EXCEPT ![t] = e],
             UNCHANGED <<visited, stack>>
      PROVE  IInv'
  <2>1. ThreadOK(v, V, {}, <<>>, e)
    BY <1>1, EndKeeps
  <2>2. /\ visited' = [visited EXCEPT ![t] = {}]
        /\ stack' = [stack EXCEPT ![t] = <<>>]
    BY <1>1, <1>3, ThreadTypes
  <2>3. e \in Statuses /\ {} \in SUBSET Ids
    BY DEF Statuses
  <2> HIDE DEF v, V
  <2> QED
    BY <1>1, <1>2, <1>3, <2>1, <2>2, <2>3, OneThread
<1>4. ASSUME Cached(t, id) = "deserialized",
             visited' = [visited EXCEPT ![t] = {id}],
             stack' = [stack EXCEPT ![t] = <<Frame(id)>>],
             status' = [status EXCEPT ![t] = "fetching"]
      PROVE  IInv'
  <2>1. v[id] # None /\ id \notin V
    BY <1>4, LoaderAssumption DEF Cached
  <2>2. /\ Frames(v, V, {id}, <<Frame(id)>>)
        /\ <<Frame(id)>> \in Seq(FrameType) /\ <<Frame(id)>> # <<>>
    BY <2>1, FirstFrame
  <2>3. ThreadOK(v, V, {id}, <<Frame(id)>>, "fetching")
    BY <1>1, <2>2 DEF ThreadOK, CyclesIn
  <2>4. {id} \in SUBSET Ids /\ "fetching" \in Statuses
    BY DEF Statuses
  <2> HIDE DEF v, V
  <2> QED
    BY <1>1, <1>2, <1>4, <2>2, <2>3, <2>4, OneThread
<1>5. \/ Cached(t, id) = None \/ Cached(t, id) = "verified" \/ Cached(t, id) = "deserialized"
  BY DEF Cached
<1> QED
  BY <1>3, <1>4, <1>5, LoaderAssumption DEF Fetch

(* The innermost frame of a fetch in progress.                             *)
LEMMA Innermost ==
  ASSUME IInv, NEW t \in Threads, status[t] = "fetching"
  PROVE  /\ stack[t] # <<>> /\ Current(t) = Last(stack[t]) /\ Current(t) \in FrameType
         /\ Current(t).id \in Ids /\ Current(t).todo \subseteq Ids
         /\ Current(t).id \notin verified[t]
         /\ Code(t) = view[t][Current(t).id] /\ Code(t) # None
         /\ Code(t) \in Blobs /\ Code(t).deps \subseteq Ids
         /\ Current(t).local = "unseen" => Code(t).name = Current(t).id
         /\ Current(t).local = "done" =>
              /\ Code(t).name = Current(t).id /\ Code(t).sound
              /\ \A d \in Code(t).deps : d \in Current(t).todo \/ d \in verified[t]
              /\ Current(t).todo \subseteq Code(t).deps
<1> DEFINE s == stack[t]
           n == Len(s)
<1>1. /\ s \in Seq(FrameType) /\ s # <<>> /\ Frames(view[t], verified[t], visited[t], s)
      /\ view[t] \in View
  BY ThreadTypes DEF ThreadOK
<1>2. n \in 1..n /\ Last(s) = s[n] /\ s[n] \in FrameType /\ ~(n < n)
  BY <1>1, FrontFrames
<1>3. s[n].id \in Ids /\ s[n].todo \subseteq Ids
  BY <1>2 DEF FrameType
<1>4. Current(t) = s[n] /\ Code(t) = view[t][s[n].id]
  BY <1>2 DEF Current, Code
<1>5. /\ view[t][s[n].id] # None /\ s[n].id \notin verified[t]
      /\ s[n].local = "unseen" => view[t][s[n].id].name = s[n].id
      /\ s[n].local = "done" => FrameDone(view[t], verified[t], s, n)
                                /\ s[n].todo \subseteq view[t][s[n].id].deps
  BY <1>1, <1>2 DEF Frames
<1>6. view[t][s[n].id] \in Blobs
  BY <1>1, <1>3, <1>5 DEF View
<1>7. view[t][s[n].id].deps \subseteq Ids
  BY <1>6, LoaderAssumption DEF Blob
<1>8. s[n].local = "done" =>
        /\ view[t][s[n].id].name = s[n].id /\ view[t][s[n].id].sound
        /\ \A d \in view[t][s[n].id].deps : d \in s[n].todo \/ d \in verified[t]
  BY <1>2, <1>5 DEF FrameDone
<1> HIDE DEF n
<1> QED
  BY <1>1, <1>2, <1>3, <1>4, <1>5, <1>6, <1>7, <1>8

(* No frames are a sequence of frames.                                     *)
LEMMA NoStack == <<>> \in Seq(FrameType) /\ {} \in SUBSET Ids
  OBVIOUS

(* A fetch that fails.                                                     *)
LEMMA FailKeeps ==
  ASSUME IInv, NEW t \in Threads, NEW e \in Statuses, e # "fetching", FetchFails(t, e),
         e = "cyclic dependency" => \E id \in Ids : id \in ReachedFrom(view[t], id),
         UNCHANGED <<store, view, verified>>, HashesAreSound'
  PROVE  IInv'
<1> DEFINE v == view[t]
           V == verified[t]
<1>1. /\ v \in View /\ V \in SUBSET Ids /\ <<>> \in Seq(FrameType) /\ store' \in View
      /\ view' = [view EXCEPT ![t] = v]
      /\ verified' = [verified EXCEPT ![t] = V]
      /\ ThreadOK(v, V, visited[t], stack[t], status[t])
      /\ {} \in SUBSET Ids
  <2>1. <<>> \in Seq(FrameType) /\ {} \in SUBSET Ids
    BY NoStack
  <2>2. /\ store \in View /\ v \in View /\ V \in SUBSET Ids
        /\ view = [view EXCEPT ![t] = v] /\ verified = [verified EXCEPT ![t] = V]
        /\ ThreadOK(v, V, visited[t], stack[t], status[t])
    BY ThreadTypes
  <2>3. store' = store /\ view' = view /\ verified' = verified
    OBVIOUS
  <2> HIDE DEF v, V
  <2> QED
    BY <2>1, <2>2, <2>3
<1>2. ThreadOK(v, V, {}, <<>>, e)
  BY <1>1, NoFrames DEF ThreadOK, CyclesIn
<1>3. /\ visited' = [visited EXCEPT ![t] = {}]
      /\ stack' = [stack EXCEPT ![t] = <<>>]
      /\ status' = [status EXCEPT ![t] = e]
  BY DEF FetchFails
<1> HIDE DEF v, V
<1> QED
  BY <1>1, <1>2, <1>3, OneThread

(* A step that moves the frames of a thread and changes nothing else.      *)
LEMMA FramesMove ==
  ASSUME IInv, NEW t \in Threads, NEW s \in Seq(FrameType),
         ThreadOK(view[t], verified[t], visited[t], s, status[t]),
         stack' = [stack EXCEPT ![t] = s],
         UNCHANGED <<store, view, verified, visited, status>>, HashesAreSound'
  PROVE  IInv'
<1>1. TypeInv'
  BY DEF IInv, TypeInv
<1>2. ASSUME NEW u \in Threads
      PROVE  ThreadOK(view'[u], verified'[u], visited'[u], stack'[u], status'[u])
  <2>1. stack'[u] = IF u = t THEN s ELSE stack[u]
    BY DEF IInv, TypeInv
  <2>2. CASE u = t
    BY <2>1, <2>2
  <2>3. CASE u # t
    BY <2>1, <2>3 DEF IInv
  <2> QED
    BY <2>2, <2>3
<1> QED
  BY <1>1, <1>2 DEF IInv

(* A step of the innermost frame.                                          *)
LEMMA MoveKeeps ==
  ASSUME IInv, NEW t \in Threads, status[t] = "fetching",
         NEW f \in FrameType, f.id = Current(t).id,
         f.local = "unseen" => Code(t).name = f.id,
         f.local = "done" =>
            /\ Code(t).name = f.id /\ Code(t).sound
            /\ \A d \in Code(t).deps : d \in f.todo \/ d \in verified[t]
            /\ f.todo \subseteq Code(t).deps,
         stack' = [stack EXCEPT ![t] = Front(stack[t]) \o <<f>>],
         UNCHANGED <<store, view, verified, visited, status>>, HashesAreSound'
  PROVE  IInv'
<1> DEFINE v == view[t]
           V == verified[t]
           W == visited[t]
           s == Front(stack[t]) \o <<f>>
<1>1. /\ v \in View /\ V \in SUBSET Ids /\ W \in SUBSET Ids /\ store' \in View
      /\ view' = [view EXCEPT ![t] = v]
      /\ verified' = [verified EXCEPT ![t] = V]
      /\ visited' = [visited EXCEPT ![t] = W]
      /\ status' = [status EXCEPT ![t] = "fetching"]
      /\ ThreadOK(v, V, W, stack[t], "fetching")
      /\ stack[t] \in Seq(FrameType) /\ stack[t] # <<>>
      /\ "fetching" \in Statuses
  BY ThreadTypes DEF ThreadOK, Statuses
<1>2. s \in Seq(FrameType) /\ s # <<>>
  BY <1>1, ReplacedTop
<1>3. f.id = Last(stack[t]).id /\ Code(t) = v[f.id]
  BY DEF Current, Code
<1>4. Frames(v, V, W, stack[t])
  BY <1>1 DEF ThreadOK
<1>5. Frames(v, V, W, s)
  <2> HIDE DEF v, V, W
  <2>1. /\ f.local = "unseen" => v[f.id].name = f.id
        /\ f.local = "done" =>
            /\ v[f.id].name = f.id /\ v[f.id].sound
            /\ \A d \in v[f.id].deps : d \in f.todo \/ d \in V
            /\ f.todo \subseteq v[f.id].deps
    BY <1>3 DEF V
  <2> QED
    BY <1>1, <1>3, <1>4, <2>1, TopMoves
<1>6. ThreadOK(v, V, W, s, "fetching")
  BY <1>1, <1>2, <1>5 DEF ThreadOK
<1>7. stack' = [stack EXCEPT ![t] = s]
  OBVIOUS
<1>8. ThreadOK(view[t], verified[t], visited[t], s, status[t])
  BY <1>6
<1> HIDE DEF v, V, W, s
<1> QED
  BY <1>2, <1>7, <1>8, FramesMove

(* A frame whose local verification is done has its dependencies to visit. *)
LEMMA UpdatedFrame ==
  ASSUME NEW c \in FrameType, NEW D \in SUBSET Ids
  PROVE  LET f == [c EXCEPT !.local = "done", !.todo = D]
         IN  f \in FrameType /\ f.id = c.id /\ f.local = "done" /\ f.todo = D
  BY DEF FrameType

(* The innermost frame, past Step 1.                                       *)
LEMMA PastStep1 ==
  ASSUME IInv, NEW t \in Threads, status[t] = "fetching",
         Code(t).name = Current(t).id, Code(t).sound,
         stack' = [stack EXCEPT ![t] = LocallyVerified(t)],
         UNCHANGED <<store, view, verified, visited, status>>, HashesAreSound'
  PROVE  IInv'
<1> DEFINE f == [Current(t) EXCEPT !.local = "done", !.todo = Code(t).deps]
<1>1. f \in FrameType /\ f.id = Current(t).id /\ f.local = "done" /\ f.todo = Code(t).deps
  <2>1. Current(t) \in FrameType /\ Code(t).deps \in SUBSET Ids
    BY Innermost
  <2> QED
    BY <2>1, UpdatedFrame
<1>2. stack' = [stack EXCEPT ![t] = Front(stack[t]) \o <<f>>]
  BY DEF LocallyVerified
<1> HIDE DEF f
<1> QED
  BY <1>1, <1>2, MoveKeeps

(* The lookup of the hash: a hit is trusted because every hash in the      *)
(* cache is of sound code.                                                 *)
LEMMA LookUpKeeps ==
  ASSUME IInv, NEW t \in Threads, LookUpHash(t)
  PROVE  IInv'
<1>1. /\ status[t] = "fetching" /\ UNCHANGED <<store, view, verified>>
      /\ HashesAreSound'
  BY DEF LookUpHash, IInv, HashesAreSound
<1>2. CASE Code(t).name # Current(t).id
  <2>1. FetchFails(t, "other name")
    BY <1>2 DEF LookUpHash
  <2> QED
    BY <1>1, <2>1, FailKeeps DEF Statuses
<1>3. CASE Code(t).name = Current(t).id /\ Seen(Code(t))
  <2>1. stack' = [stack EXCEPT ![t] = LocallyVerified(t)] /\ UNCHANGED <<status, visited>>
    BY <1>3 DEF LookUpHash
  <2>2. Code(t).sound
    BY <1>3 DEF IInv, HashesAreSound, SoundBlobs, Seen, Contains
  <2> QED
    BY <1>1, <1>3, <2>1, <2>2, PastStep1
<1>4. CASE Code(t).name = Current(t).id /\ ~Seen(Code(t))
  <2> DEFINE f == [Current(t) EXCEPT !.local = "unseen"]
  <2>1. stack' = [stack EXCEPT ![t] = WithLocal(t, "unseen")] /\ UNCHANGED <<status, visited>>
    BY <1>4 DEF LookUpHash
  <2>2. f \in FrameType /\ f.id = Current(t).id /\ f.local = "unseen"
    BY <1>1, Innermost DEF FrameType
  <2>3. stack' = [stack EXCEPT ![t] = Front(stack[t]) \o <<f>>]
    BY <2>1 DEF WithLocal
  <2> HIDE DEF f
  <2> QED
    BY <1>1, <1>4, <2>1, <2>2, <2>3, MoveKeeps
<1> QED
  BY <1>2, <1>3, <1>4

(* The local verifier ran: only sound code has its hash put into the       *)
(* cache.                                                                  *)
LEMMA VerifierKeeps ==
  ASSUME IInv, NEW t \in Threads, RunVerifier(t)
  PROVE  IInv'
<1>1. /\ status[t] = "fetching" /\ Current(t).local = "unseen"
      /\ UNCHANGED <<store, view, verified>>
  BY DEF RunVerifier
<1>2. CASE Code(t).sound
  <2>1. /\ verifiedHashes' = Put(Code(t))
        /\ stack' = [stack EXCEPT ![t] = LocallyVerified(t)] /\ UNCHANGED <<status, visited>>
    BY <1>2 DEF RunVerifier
  <2>2. Code(t) \in SoundBlobs /\ Code(t).name = Current(t).id
    BY <1>1, <1>2, Innermost DEF SoundBlobs
  <2>3. HashesAreSound'
    BY <2>1, <2>2, PutHash DEF IInv, HashesAreSound
  <2> QED
    BY <1>1, <1>2, <2>1, <2>2, <2>3, PastStep1
<1>3. CASE ~Code(t).sound
  <2>1. FetchFails(t, "verification error") /\ HashesAreSound'
    BY <1>3 DEF RunVerifier, IInv, HashesAreSound
  <2> QED
    BY <1>1, <2>1, FailKeeps DEF Statuses
<1> QED
  BY <1>2, <1>3

(* A dependency is visited: verified before, a cycle, missing, or a new    *)
(* frame.                                                                  *)
LEMMA VisitKeeps ==
  ASSUME IInv, NEW t \in Threads, NEW d \in Ids, VisitDependency(t, d)
  PROVE  IInv'
<1> DEFINE v == view[t]
           V == verified[t]
           W == visited[t]
           f == [Current(t) EXCEPT !.todo = @ \ {d}]
<1>1. /\ status[t] = "fetching" /\ Current(t).local = "done" /\ d \in Current(t).todo
      /\ UNCHANGED <<store, view, verified>> /\ HashesAreSound'
  BY DEF VisitDependency, IInv, HashesAreSound
<1>2. /\ stack[t] # <<>> /\ Current(t) = Last(stack[t]) /\ Current(t) \in FrameType
      /\ Code(t) = v[Current(t).id] /\ Code(t) # None
      /\ Code(t).name = Current(t).id /\ Code(t).sound
      /\ \A x \in Code(t).deps : x \in Current(t).todo \/ x \in V
      /\ Current(t).todo \subseteq Code(t).deps
  BY <1>1, Innermost
<1>3. /\ f \in FrameType /\ f.id = Current(t).id /\ f.local = "done"
      /\ f.todo = Current(t).todo \ {d}
  BY <1>1, <1>2 DEF FrameType
<1>4. Rest(t, d) = Front(stack[t]) \o <<f>>
  BY DEF Rest
<1>5. /\ v \in View /\ V \in SUBSET Ids /\ W \in SUBSET Ids /\ store' \in View
      /\ view' = [view EXCEPT ![t] = v]
      /\ verified' = [verified EXCEPT ![t] = V]
      /\ ThreadOK(v, V, W, stack[t], "fetching")
      /\ stack[t] \in Seq(FrameType)
      /\ Frames(v, V, W, stack[t])
  BY <1>1, ThreadTypes DEF ThreadOK
<1>6. /\ DependencyDone(t, d) => d \in V
      /\ ~DependencyDone(t, d) /\ Cached(t, d) # None => v[d] # None /\ d \notin V
  BY LoaderAssumption DEF DependencyDone, Cached
<1>7. CASE /\ DependencyDone(t, d)
           /\ stack' = [stack EXCEPT ![t] = Rest(t, d)]
           /\ UNCHANGED <<status, visited>>
  <2>1. \A x \in Code(t).deps : x \in f.todo \/ x \in V
    BY <1>2, <1>3, <1>6, <1>7
  <2>2. f.todo \subseteq Code(t).deps
    BY <1>2, <1>3
  <2>3. stack' = [stack EXCEPT ![t] = Front(stack[t]) \o <<f>>]
    BY <1>4, <1>7
  <2> HIDE DEF f
  <2> QED
    BY <1>1, <1>2, <1>3, <1>7, <2>1, <2>2, <2>3, MoveKeeps
<1>8. CASE /\ ~DependencyDone(t, d) /\ Cached(t, d) # None /\ d \notin visited[t]
           /\ stack' = [stack EXCEPT ![t] = Rest(t, d) \o <<Frame(d)>>]
           /\ visited' = [visited EXCEPT ![t] = @ \cup {d}]
           /\ UNCHANGED status
  <2> DEFINE s == (Front(stack[t]) \o <<f>>) \o <<Frame(d)>>
  <2>1. Frames(v, V, W \cup {d}, s) /\ s \in Seq(FrameType) /\ s # <<>>
    <3>1. v[d] # None /\ d \notin V /\ d \notin W
      BY <1>6, <1>8
    <3>2. f = [Last(stack[t]) EXCEPT !.todo = @ \ {d}]
      BY <1>2
    <3>3. Last(stack[t]).local = "done" /\ d \in Last(stack[t]).todo
      BY <1>1, <1>2
    <3>4. stack[t] # <<>> /\ stack[t] \in Seq(FrameType) /\ f \in FrameType
      BY <1>2, <1>3, <1>5
    <3>5. Frames(v, V, W, stack[t])
      BY <1>5
    <3> HIDE DEF v, V, W, f
    <3> QED
      BY <3>1, <3>2, <3>3, <3>4, <3>5, TopVisits, Zenon
  <2>2. ThreadOK(v, V, W \cup {d}, s, "fetching")
    BY <1>5, <2>1 DEF ThreadOK
  <2>3. /\ stack' = [stack EXCEPT ![t] = s]
        /\ visited' = [visited EXCEPT ![t] = W \cup {d}]
        /\ status' = [status EXCEPT ![t] = "fetching"]
        /\ W \cup {d} \in SUBSET Ids /\ "fetching" \in Statuses
    BY <1>1, <1>4, <1>5, <1>8, ThreadTypes DEF Statuses
  <2> HIDE DEF v, V, W, s
  <2> QED
    BY <1>1, <1>5, <2>1, <2>2, <2>3, OneThread
<1>9. CASE /\ ~DependencyDone(t, d) /\ Cached(t, d) # None /\ d \in visited[t]
           /\ FetchFails(t, "cyclic dependency")
  <2>1. d \in ReachedFrom(v, d) /\ d \in Ids
    <3>1. d \notin V /\ d \in W
      BY <1>6, <1>9
    <3>2. v[Last(stack[t]).id] # None /\ d \in v[Last(stack[t]).id].deps
      BY <1>1, <1>2
    <3> HIDE DEF v, V, W
    <3> QED
      BY <1>2, <1>5, <3>1, <3>2, FramesCycle
  <2> QED
    BY <1>1, <1>9, <2>1, FailKeeps DEF Statuses
<1>10. CASE Cached(t, d) = None /\ FetchFails(t, "linker error")
  BY <1>1, <1>10, FailKeeps DEF Statuses
<1> QED
  BY <1>7, <1>8, <1>9, <1>10 DEF VisitDependency

(* The module whose frame returns joins the verified ones.                 *)
LEMMA VerifiedMore ==
  ASSUME NEW v, NEW V, NEW id, NEW st, ClosedIn(v, V), CyclesIn(v, V, "fetching"),
         id \notin V, v[id] # None, v[id].name = id, v[id].sound, Links(v[id], v),
         v[id].deps \subseteq V, st # "cyclic dependency"
  PROVE  ClosedIn(v, V \cup {id}) /\ CyclesIn(v, V \cup {id}, st)
<1>1. ClosedIn(v, V \cup {id})
  BY DEF ClosedIn
<1>2. DependenciesIn(v, V) \subseteq V
  <2> SUFFICES ASSUME NEW d \in DependenciesIn(v, V) PROVE d \in V
    OBVIOUS
  <2>1. PICK x \in V : d \in IF v[x] = None THEN {} ELSE v[x].deps
    BY DEF DependenciesIn
  <2>2. v[x].deps \subseteq V /\ d \in v[x].deps
    BY <2>1 DEF ClosedIn
  <2> QED
    BY <2>2
<1>3. DependenciesIn(v, {id}) \subseteq V
  BY DEF DependenciesIn
<1>4. ReachedFrom(v, id) \subseteq V
  BY <1>2, <1>3, ReachStays
<1> QED
  BY <1>1, <1>4 DEF CyclesIn

(* The top frame's dependencies are all verified: the dependency pass, and *)
(* insert_verified_module.                                                 *)
LEMMA FinishKeeps ==
  ASSUME IInv, NEW t \in Threads, Finish(t)
  PROVE  IInv'
<1> DEFINE v == view[t]
           V == verified[t]
           W == visited[t]
           id == Current(t).id
           s == Front(stack[t])
<1>1. /\ status[t] = "fetching" /\ Current(t).local = "done" /\ Current(t).todo = {}
      /\ UNCHANGED <<store, view>> /\ HashesAreSound'
  BY DEF Finish, IInv, HashesAreSound
<1>2. /\ stack[t] # <<>> /\ Current(t) = Last(stack[t]) /\ id \in Ids /\ id \notin V
      /\ Code(t) = v[id] /\ v[id] # None /\ v[id].name = id /\ v[id].sound
      /\ v[id].deps \subseteq V
  BY <1>1, Innermost
<1>3. /\ v \in View /\ V \in SUBSET Ids /\ W \in SUBSET Ids /\ store' \in View
      /\ view' = [view EXCEPT ![t] = v]
      /\ ThreadOK(v, V, W, stack[t], "fetching")
      /\ stack[t] \in Seq(FrameType)
      /\ Frames(v, V, W, stack[t])
  BY <1>1, ThreadTypes DEF ThreadOK
<1>4. CASE Links(Code(t), view[t])
  <2>1. /\ verified' = [verified EXCEPT ![t] = V \cup {id}]
        /\ stack' = [stack EXCEPT ![t] = s]
        /\ IF Len(stack[t]) > 1 THEN UNCHANGED <<status, visited>>
           ELSE /\ status' = [status EXCEPT ![t] = "ok"]
                /\ visited' = [visited EXCEPT ![t] = {}]
    BY <1>4 DEF Finish
  <2>2. ASSUME NEW st, st # "cyclic dependency"
        PROVE  ClosedIn(v, V \cup {id}) /\ CyclesIn(v, V \cup {id}, st)
    <3>1. ClosedIn(v, V) /\ CyclesIn(v, V, "fetching") /\ Links(v[id], v)
      BY <1>2, <1>3, <1>4 DEF ThreadOK
    <3> HIDE DEF v, V, id
    <3> QED
      BY <1>2, <2>2, <3>1, VerifiedMore
  <2>3. /\ s \in Seq(FrameType) /\ Len(s) = Len(stack[t]) - 1
        /\ Len(stack[t]) \in Nat /\ Len(stack[t]) > 0
        /\ V \cup {id} \in SUBSET Ids /\ {} \in SUBSET Ids
    BY <1>2, <1>3, FrontFrames
  <2>4. Frames(v, V \cup {id}, W, s)
    <3> HIDE DEF v, V, W
    <3> QED
      BY <1>2, <1>3, TopReturns
  <2>5. CASE Len(stack[t]) > 1
    <3>1. s # <<>>
      <4> HIDE DEF s
      <4> QED
        BY <2>3, <2>5
    <3>2. ThreadOK(v, V \cup {id}, W, s, "fetching")
      <4>1. "fetching" # "cyclic dependency"
        OBVIOUS
      <4>2. ClosedIn(v, V \cup {id}) /\ CyclesIn(v, V \cup {id}, "fetching")
        BY <2>2, <4>1
      <4> HIDE DEF v, V, W, s, id
      <4> QED
        BY <2>4, <3>1, <4>2 DEF ThreadOK
    <3>3. /\ visited' = [visited EXCEPT ![t] = W]
          /\ status' = [status EXCEPT ![t] = "fetching"]
          /\ "fetching" \in Statuses
      BY <1>1, <2>1, <2>5, ThreadTypes DEF Statuses
    <3> HIDE DEF v, V, W, s, id
    <3> QED
      BY <1>1, <1>3, <2>1, <2>3, <3>2, <3>3, OneThread
  <2>6. CASE ~(Len(stack[t]) > 1)
    <3>1. s = <<>>
      <4> HIDE DEF s
      <4> QED
        BY <2>3, <2>6
    <3>2. ThreadOK(v, V \cup {id}, {}, <<>>, "ok")
      <4>1. "ok" # "cyclic dependency" /\ "ok" # "fetching"
        OBVIOUS
      <4>2. ClosedIn(v, V \cup {id}) /\ CyclesIn(v, V \cup {id}, "ok")
        BY <2>2, <4>1
      <4> HIDE DEF v, V, W, s, id
      <4> QED
        BY <4>1, <4>2, NoFrames DEF ThreadOK
    <3>3. /\ visited' = [visited EXCEPT ![t] = {}]
          /\ status' = [status EXCEPT ![t] = "ok"]
          /\ stack' = [stack EXCEPT ![t] = <<>>] /\ <<>> \in Seq(FrameType)
          /\ "ok" \in Statuses
      BY <2>1, <2>6, <3>1 DEF Statuses
    <3> HIDE DEF v, V, W, s, id
    <3> QED
      BY <1>1, <1>3, <2>1, <2>3, <3>2, <3>3, OneThread
  <2> QED
    BY <2>5, <2>6
<1>5. CASE ~Links(Code(t), view[t])
  <2>1. FetchFails(t, "link error") /\ UNCHANGED verified
    BY <1>5 DEF Finish
  <2> QED
    BY <1>1, <2>1, FailKeeps DEF Statuses
<1> QED
  BY <1>4, <1>5

(* A publish changes no transaction's view.                                *)
LEMMA PublishKeeps ==
  ASSUME IInv, NEW id \in Ids, NEW b \in Blobs, Publish(id, b)
  PROVE  IInv'
<1>1. /\ store' = [store EXCEPT ![id] = b]
      /\ UNCHANGED <<verifiedHashes, view, verified, visited, stack, status>>
  BY DEF Publish, fetchVars
<1>2. store' \in View
  BY <1>1 DEF IInv, TypeInv, View
<1> QED
  BY <1>1, <1>2 DEF IInv, TypeInv, HashesAreSound

(* The invariant holds before any transaction.                             *)
LEMMA InitInv == Init => IInv
<1> SUFFICES ASSUME Init PROVE IInv
  OBVIOUS
<1>1. store \in View
  BY LoaderAssumption DEF Init, View
<1>2. TypeInv
  BY <1>1 DEF Init, TypeInv, Statuses
<1>3. HashesAreSound
  BY DEF Init, HashesAreSound
<1>4. ASSUME NEW t \in Threads
      PROVE  ThreadOK(view[t], verified[t], visited[t], stack[t], status[t])
  <2>1. verified[t] = {} /\ visited[t] = {} /\ stack[t] = <<>> /\ status[t] = "idle"
    BY DEF Init
  <2> QED
    BY <2>1, NoFrames DEF ThreadOK, ClosedIn, CyclesIn
<1> QED
  BY <1>2, <1>3, <1>4 DEF IInv

(* Every step of every thread, and of the node, keeps it.                  *)
LEMMA NextInv == IInv /\ [Next]_vars => IInv'
<1> SUFFICES ASSUME IInv, [Next]_vars PROVE IInv'
  OBVIOUS
<1>1. ASSUME NEW t \in Threads, Step(t) PROVE IInv'
  BY <1>1, LookUpKeeps, VerifierKeeps, VisitKeeps, FinishKeeps DEF Step
<1>2. CASE UNCHANGED vars
  BY <1>2 DEF vars, IInv, TypeInv, HashesAreSound
<1> QED
  BY <1>1, <1>2, PublishKeeps, BeginKeeps, FetchKeeps DEF Next

-----------------------------------------------------------------------------
(* The theorems.                                                           *)

(* The inductive invariant.                                                *)
THEOREM Invariance == Spec => []IInv
  BY InitInv, NextInv, PTL DEF Spec

(* What fetch_verified_module gives a transaction is sound, linked and     *)
(* complete in the state the transaction sees, whatever other threads load *)
(* and publish and whatever the shared cache holds or has dropped.         *)
THEOREM LoadedCodeIsVerified == Spec => []VerifiedIsClosed
<1>1. IInv => VerifiedIsClosed
  BY DEF IInv, ThreadOK, ClosedIn, VerifiedIsClosed
<1> QED
  BY <1>1, Invariance, PTL

(* Verified code is on no dependency cycle, and a fetch is refused for a   *)
(* cycle only when the state has one.                                      *)
THEOREM CyclesAreRefused == Spec => []CyclesExactlyRefused
<1>1. IInv => CyclesExactlyRefused
  BY DEF IInv, ThreadOK, CyclesIn, CyclesExactlyRefused
<1> QED
  BY <1>1, Invariance, PTL
=============================================================================
