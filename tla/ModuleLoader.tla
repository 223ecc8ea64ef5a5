---------------------------- MODULE ModuleLoader ----------------------------
(***************************************************************************)
(* Loading code: fetch_verified_module of the vendored module storage over *)
(* the published modules.  RealMoveVm makes a module storage, with an      *)
(* empty module cache, over the state view of every transaction; all       *)
(* threads share VERIFIED_MODULES_V2, an LRU cache of the hashes of        *)
(* modules that passed local verification.  The node applies publishes     *)
(* between and during the transactions.                                    *)
(*                                                                         *)
(* A module is the record of what loading looks at: its name and           *)
(* dependencies, whether it passes the bytecode verifier, the interface it *)
(* has and the one it expects of its dependencies.  Its hash is the        *)
(* record.  store[id] is what fetch_module_bytes answers for id, which, by *)
(* the fallback to the legacy key, may be a module of another name.        *)
(***************************************************************************)
EXTENDS Naturals, Sequences, FiniteSets, SequencesExt

CONSTANTS
    Threads, Ids,
    Blobs,           \* module bytes that may be published
    None,
    Stores,          \* bound: what the node may start with
    CacheSize,       \* VERIFIED_CACHE_SIZE
    MaxPublishes     \* bound on publishes while transactions run

Blob == [name : Ids, deps : SUBSET Ids, sound : BOOLEAN, has : Nat, expects : Nat]

ASSUME LoaderAssumption ==
    /\ IsFiniteSet(Ids) /\ Blobs \subseteq Blob /\ None \notin Blobs
    /\ Stores \subseteq [Ids -> Blobs \cup {None}]
    /\ None \notin {"verified", "deserialized"}
    /\ CacheSize \in Nat \ {0} /\ MaxPublishes \in Nat

VARIABLES
    store,       \* published modules
    verifiedHashes,  \* VERIFIED_MODULES_V2, the hash put last at the end
    publishes,
    view,        \* state view of each thread's transaction
    verified,    \* its module cache: the modules whose entry is verified
    visited,     \* visited of the fetch in progress
    stack,       \* the frames of visit_dependencies_and_verify, innermost last
    status       \* how the last fetch of the thread ended, or "fetching"

vars == <<store, verifiedHashes, publishes, view, verified, visited, stack, status>>
fetchVars == <<view, verified, visited, stack, status>>

\* A frame: the module, the dependencies still to visit, and how far local
\* verification (Step 1) is.
Frame(id) == [id |-> id, todo |-> {}, local |-> "new"]

Init ==
    /\ store \in Stores
    /\ verifiedHashes = <<>>
    /\ publishes = 0
    /\ view = [t \in Threads |-> store]
    /\ verified = [t \in Threads |-> {}]
    /\ visited = [t \in Threads |-> {}]
    /\ stack = [t \in Threads |-> <<>>]
    /\ status = [t \in Threads |-> "idle"]

\* The node applies an output that publishes b.
Publish(id, b) ==
    /\ publishes < MaxPublishes /\ b # store[id]
    /\ store' = [store EXCEPT ![id] = b]
    /\ publishes' = publishes + 1
    /\ UNCHANGED <<verifiedHashes, fetchVars>>

\* A new transaction: as_unsync_module_storage over the current state.
BeginTransaction(t) ==
    /\ status[t] # "fetching"
    /\ view' = [view EXCEPT ![t] = store]
    /\ verified' = [verified EXCEPT ![t] = {}]
    /\ status' = [status EXCEPT ![t] = "idle"]
    /\ UNCHANGED <<store, verifiedHashes, publishes, visited, stack>>

\* get_module_or_build_with: the entry, built from the view when there is none.
\* The view does not change, so an entry that is not verified holds what the
\* view holds.
Cached(t, id) ==
    IF view[t][id] = None THEN None
    ELSE IF id \in verified[t] THEN "verified" ELSE "deserialized"

\* fetch_verified_module: no module, a verified one, or the start of a visit.
Fetch(t, id) ==
    /\ status[t] # "fetching"
    /\ CASE Cached(t, id) = None ->
              status' = [status EXCEPT ![t] = "absent"] /\ UNCHANGED <<visited, stack>>
         [] Cached(t, id) = "verified" ->
              status' = [status EXCEPT ![t] = "ok"] /\ UNCHANGED <<visited, stack>>
         [] Cached(t, id) = "deserialized" ->
              /\ visited' = [visited EXCEPT ![t] = {id}]
              /\ stack' = [stack EXCEPT ![t] = <<Frame(id)>>]
              /\ status' = [status EXCEPT ![t] = "fetching"]
    /\ UNCHANGED <<store, verifiedHashes, publishes, view, verified>>

Current(t) == Last(stack[t])
Code(t) == view[t][Current(t).id]

\* An error ends the fetch; what was verified before it stays in the cache.
FetchFails(t, error) ==
    /\ status' = [status EXCEPT ![t] = error]
    /\ stack' = [stack EXCEPT ![t] = <<>>]
    /\ visited' = [visited EXCEPT ![t] = {}]

\* contains, and put: the hash becomes the last one, and at the limit the first
\* one goes.
Seen(hash) == Contains(verifiedHashes, hash)
Put(hash) ==
    LET rest == RemoveFirst(verifiedHashes, hash) IN
    Append(IF Len(rest) = CacheSize THEN Tail(rest) ELSE rest, hash)

\* The current frame, with Step 1 at the given point.
WithLocal(t, point) == Front(stack[t]) \o <<[Current(t) EXCEPT !.local = point]>>
LocallyVerified(t) ==
    Front(stack[t]) \o <<[Current(t) EXCEPT !.local = "done", !.todo = Code(t).deps]>>

\* Mutant: a hash that has been seen makes up for the name as well.
LookUpHashFirst(t) ==
    /\ status[t] = "fetching" /\ Current(t).local = "new"
    /\ CASE Seen(Code(t)) ->
              stack' = [stack EXCEPT ![t] = LocallyVerified(t)] /\ UNCHANGED <<status, visited>>
         [] ~Seen(Code(t)) /\ Code(t).name # Current(t).id -> FetchFails(t, "other name")
         [] ~Seen(Code(t)) /\ Code(t).name = Current(t).id ->
              stack' = [stack EXCEPT ![t] = WithLocal(t, "unseen")] /\ UNCHANGED <<status, visited>>
    /\ UNCHANGED <<store, verifiedHashes, publishes, view, verified>>

\* Step 1: the name must be the one asked for, and a hash that has been seen
\* makes build_locally_verified_module skip the verifier.
LookUpHash(t) ==
    /\ status[t] = "fetching" /\ Current(t).local = "new"
    /\ CASE Code(t).name # Current(t).id -> FetchFails(t, "other name")
         [] Code(t).name = Current(t).id /\ Seen(Code(t)) ->
              stack' = [stack EXCEPT ![t] = LocallyVerified(t)] /\ UNCHANGED <<status, visited>>
         [] Code(t).name = Current(t).id /\ ~Seen(Code(t)) ->
              stack' = [stack EXCEPT ![t] = WithLocal(t, "unseen")] /\ UNCHANGED <<status, visited>>
    /\ UNCHANGED <<store, verifiedHashes, publishes, view, verified>>

\* Mutant: the hash is put into the shared cache whatever the verifier says.
RunVerifierEarly(t) ==
    /\ status[t] = "fetching" /\ Current(t).local = "unseen"
    /\ verifiedHashes' = Put(Code(t))
    /\ IF Code(t).sound
       THEN stack' = [stack EXCEPT ![t] = LocallyVerified(t)] /\ UNCHANGED <<status, visited>>
       ELSE FetchFails(t, "verification error")
    /\ UNCHANGED <<store, publishes, view, verified>>

\* The verifier, outside the cache's lock: other threads may put the same hash,
\* or push it out, between the lookup and the put.
RunVerifier(t) ==
    /\ status[t] = "fetching" /\ Current(t).local = "unseen"
    /\ IF Code(t).sound
       THEN /\ verifiedHashes' = Put(Code(t))
            /\ stack' = [stack EXCEPT ![t] = LocallyVerified(t)]
            /\ UNCHANGED <<status, visited>>
       ELSE FetchFails(t, "verification error") /\ UNCHANGED verifiedHashes
    /\ UNCHANGED <<store, publishes, view, verified>>

\* Mutant: whether it has been visited is asked first.
DependencyDoneUnvisited(t, d) == Cached(t, d) = "verified" /\ d \notin visited[t]

\* A dependency that needs no visit.
DependencyDone(t, d) == Cached(t, d) = "verified"

\* Mutant: the iterator stays where it is.
RestStuck(t, d) == stack[t]

\* The frames, with d behind the current one.
Rest(t, d) == Front(stack[t]) \o <<[Current(t) EXCEPT !.todo = @ \ {d}]>>

\* Step 2, one dependency: missing, verified, to be visited, or a cycle.
VisitDependency(t, d) ==
    /\ status[t] = "fetching" /\ Current(t).local = "done" /\ d \in Current(t).todo
    /\ \/ /\ DependencyDone(t, d)
          /\ stack' = [stack EXCEPT ![t] = Rest(t, d)]
          /\ UNCHANGED <<status, visited>>
       \/ /\ ~DependencyDone(t, d) /\ Cached(t, d) # None /\ d \notin visited[t]
          /\ stack' = [stack EXCEPT ![t] = Rest(t, d) \o <<Frame(d)>>]
          /\ visited' = [visited EXCEPT ![t] = @ \cup {d}]
          /\ UNCHANGED status
       \/ /\ ~DependencyDone(t, d) /\ Cached(t, d) # None /\ d \in visited[t]
          /\ FetchFails(t, "cyclic dependency")
       \/ /\ Cached(t, d) = None
          /\ FetchFails(t, "linker error")
    /\ UNCHANGED <<store, verifiedHashes, publishes, view, verified>>

\* build_verified_module: dependencies::verify_module.
Links(b, v) == \A d \in b.deps : v[d] # None /\ v[d].has = b.expects

\* The last step: the dependency pass, insert_verified_module, and the return.
Finish(t) ==
    /\ status[t] = "fetching" /\ Current(t).local = "done" /\ Current(t).todo = {}
    /\ IF Links(Code(t), view[t])
       THEN /\ verified' = [verified EXCEPT ![t] = @ \cup {Current(t).id}]
            /\ stack' = [stack EXCEPT ![t] = Front(@)]
            /\ IF Len(stack[t]) > 1 THEN UNCHANGED <<status, visited>>
               ELSE /\ status' = [status EXCEPT ![t] = "ok"]
                    /\ visited' = [visited EXCEPT ![t] = {}]
       ELSE FetchFails(t, "link error") /\ UNCHANGED verified
    /\ UNCHANGED <<store, verifiedHashes, publishes, view>>

Step(t) ==
    \/ LookUpHash(t)
    \/ RunVerifier(t)
    \/ \E d \in Ids : VisitDependency(t, d)
    \/ Finish(t)

Next ==
    \/ \E id \in Ids, b \in Blobs : Publish(id, b)
    \/ \E t \in Threads : BeginTransaction(t) \/ Step(t) \/ \E id \in Ids : Fetch(t, id)

Spec == Init /\ [][Next]_vars

\* A thread that loads keeps running.
FairSpec == Spec /\ \A t \in Threads : WF_vars(Step(t))

-----------------------------------------------------------------------------
(* Properties.                                                             *)

\* Code that a transaction runs is sound, linked and complete in the state the
\* transaction sees: a verified module is the one asked for and passes the
\* verifier, and each of its dependencies is there, has the interface it
\* expects and is verified too.  That another thread has seen the same bytes,
\* under another name or with other dependencies, or that an upgrade has been
\* applied meanwhile, changes nothing.
VerifiedIsClosed ==
    \A t \in Threads : \A id \in verified[t] :
        /\ view[t][id] # None /\ view[t][id].name = id /\ view[t][id].sound
        /\ Links(view[t][id], view[t])
        /\ view[t][id].deps \subseteq verified[t]

\* Dependencies of the modules in S, and the modules reached from id.
DependenciesIn(v, S) == UNION {IF v[x] = None THEN {} ELSE v[x].deps : x \in S}
ReachedFrom(v, id) ==
    LET R[n \in 0..Cardinality(Ids)] ==
            IF n = 0 THEN DependenciesIn(v, {id}) ELSE R[n-1] \cup DependenciesIn(v, R[n-1])
    IN R[Cardinality(Ids)]

\* Verified code is never part of a dependency cycle, and a fetch is refused
\* for a cyclic dependency only if the state has a cycle: a module visited
\* twice, as in a diamond, is not taken for one.
CyclesExactlyRefused ==
    \A t \in Threads :
        /\ \A id \in verified[t] : id \notin ReachedFrom(view[t], id)
        /\ status[t] = "cyclic dependency" => \E id \in Ids : id \in ReachedFrom(view[t], id)

\* Every fetch ends, cyclic dependencies or not.
FetchEnds == \A t \in Threads : status[t] = "fetching" ~> status[t] # "fetching"

=============================================================================
