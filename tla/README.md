# Verification of nexus-move

TLA+ specifications of the Move smart-contract subsystem in this repository, the
TLC configurations that check them on small instances, and TLAPS proofs of their
main properties for every instance. Paths are relative to the repository root;
`vm_backend.rs`, `session.rs` and the like without a directory are in
`crates/nexus-move-runtime/src/`.

    tlc -config MCMovePublish.cfg MCMovePublish.tla     check a run
    tlapm MovePublish_proofs.tla                        check proofs

`PROJECT.json` lists the runs with their properties, the source lines behind
each definition, the mutants (each property is shown to fail when a definition
of the code is changed in a plausible wrong way), the findings and the hazards.

## 1. The system

A node hands requests to a `MoveVm` together with a `NexusStateView` of its
committed state. The VM keeps nothing between calls: it reads through the view,
decides, and returns a `VmOutput` (status, gas, write set, events). The node
later applies the output to its state, or does not. All long-lived state is
therefore in the node's key-value store, and every check the VM makes is made
on the state as it was when the request ran.

| Part | State | Operations | What makes it correct |
|---|---|---|---|
| Publishing, `RealMoveVm::publish_modules` | per account the keys `code`, `code_hash`, `package_metadata` and `code::<name>` | deserialize, upgrade policy, ABI hash, dependencies, verify, write | policies cannot be evaded, keys describe one module, an upgrade keeps callers linking |
| Execution, `execute_function`, `execute_script`, `query_view` | data cache, gas meter, event store, all for one request | load, borrow, move, write resources; emit; end in success, abort or error | all-or-nothing effects, no lost write, gas bounded and billed |
| Session library, `ExecuteSession` | meter, gas summary, overlay | charge, read, write, remove, commit, abort | two gas accounts agree, what the session stores is paid for, all or nothing is committed |
| Planning backend, `PlanningMoveVm` | contracts at derived addresses | verify structure, derive address, plan writes | contracts are permanent and describe one bundle |
| `std::event`, `std::guid`, `NexusEventStore` | guid generators, event handles, events | create, emit, move, destroy | a handle counts the events of its stream, ids are unique |
| `NexusStateView`, `MemState` | the store | lookups with fallback to the legacy key; apply | reads and writes go to the same keys |
| ABI hash, `abi.rs` | none | encode signatures and structs, hash | different interfaces have different streams, equal ones the same |
| Module storage and loader (vendored) | a module cache per request, one cache of verified hashes per process | fetch, verify locally, visit dependencies, link | only code that is verified and complete in the request's own view runs; cycles are refused, loads end |
| Package build and compile backends, `crates/nexus-move-package` | an artifact directory, `Move.toml`, sources | plan, compile, write files; load and verify them | artifacts belong to one build, made as written and against the right framework; a dead build blocks none after it |
| Reentrancy checker (vendored) | bag of active modules, module lock | enter, exit, check access | balanced; resources locked under reentrancy, modules entered from others under the lock |
| `std::string` and its natives | none | make, append, insert, cut, search | strings stay UTF-8 |
| `AccountAddress`, `crates/nexus-move-types` | none | parse, print | parsing is exact and undoes printing |

How the parts interact: publishing and execution share the store and the loader's
lookups; publishing stores the metadata the package crate defines; execution runs
the natives, of which `write_to_event_store` fills the event store that
`emit_event` relies on. A call loads code through the module storage, and the
interpreter drives the reentrancy checker at every call and return; the package
crate makes the modules and the metadata that publishing stores. The runtime
itself starts no threads and sends no messages; several may run it at once, and
then they share the cache of verified hashes. Builds are processes that share a
directory and nothing that keeps them apart. The hard behaviours:

* **stale views**: outputs of different accounts are computed on one state and
  applied on another, in any order, or lost;
* **last writer wins**: the modules of a bundle share account-wide keys;
* **histories**: accounts written by versions without per-module keys or
  metadata, and long sequences of legal upgrades;
* **lazy caching**: a resource's status flag must stay true through any
  sequence of loads, moves and writes;
* **gas ending anywhere**: between a load and its operation, in a refused charge
  that one account counts and the other does not;
* **widths**: saturating gas, counters that abort at `u64::MAX`;
* **shared caches**: a hash verified by one thread, in one state, skips the
  verifier in another, for a module that may have been upgraded since;
* **nesting**: enter and exit of the reentrancy checker decide separately what to
  count, over any mix of calls, closures and native dispatch;
* **files**: a build is a sequence of truncations and writes that can stop
  anywhere, and start over what an earlier or another build has left;
* **encodings without counts**: what the ABI hash joins must come apart again.

## 2. Modules

| Module | Role |
|---|---|
| `CodeStore` | keys, lookups, ABI hash, linking: operators on a store of published code |
| `CodeRegistry` | abstract: accounts are free, open or sealed; a step rewrites one that is not sealed |
| `MovePublish` | publishing and the node's commits; implements `CodeRegistry` |
| `PlanPublish` | the planning backend; implements `CodeRegistry` with contracts that are sealed when deployed |
| `AtomicEffects` | abstract: a transaction on a private copy of the state, that ends kept, with all of its changes and events, or discarded, with none |
| `MoveExecute` | calls, scripts and queries through the data cache; implements `AtomicEffects` |
| `ExecuteSession` | the session library; implements `AtomicEffects` |
| `EventStreams` | event handles and guids in transactions |
| `AbiBytes` | casts, little-endian numbers and length prefixes in the stream of the ABI hash |
| `AbiEncoding` | the bytes the ABI hash makes of function signatures, for two versions of a function |
| `AbiLayout` | the bytes it makes of structs and enums, for two versions of a module |
| `ModuleLoader` | loading code in several threads while modules are published |
| `ReentrancyChecker` | the checker over the interpreter's call stack |
| `PackageBuild` | builds and loads in one package directory, with crashes |
| `BuildPlan` | from `Move.toml` and the command line to named addresses and policy |
| `Utf8Strings` | `std::string` over its natives |
| `AccountAddress` | parsing and printing of addresses |
| `Library` | the six sequential modules above side by side, one of them moving in each behaviour |
| other `MC*` | constants for TLC |
| `*_proofs` | theorems |

### MovePublish

`store` is the node's state, `out[a]` the output of account `a` that has not been
disposed of. `PublishRefused` and `PublishAccepted` are the two ends of
`publish_modules`: the loop returns at the first module that fails, with nothing
written, or writes all of the bundle. `ModuleStatus` makes the checks in the
loop's order (deserialization, policy and ABI of the account, sender, local
verification, dependencies) on the view and never against earlier modules of the
bundle, as the code does. `WriteAt` is the net effect of the inserts: each
module's own key, and the account keys from the last module. `ApplyOutput` is
`MemState::apply_output`; `DropOutput` is a node that never commits.

A module is a record of what the checks look at: home address, name, public
declarations, uses of other modules, whether it deserializes and verifies. A
hash is represented by what is hashed. A declaration has a part the ABI hash
covers (`item`, `tokens`) and one it does not (`bound`: the constraints on type
parameters, and which struct a handle index stands for). Gas of publishing is left out: it decides nothing in this backend.

Initial states include accounts an earlier version wrote: legacy code key, no
per-module key, metadata absent or without ABI hash.

### MoveExecute

One request at a time runs on a fixed view. `cache[s]` is the slot's
`GlobalValue` (`Absent` is the code's `None`), `Unloaded` a slot not yet looked
at. The four resource instructions are `Access` (load, charge for the load,
charge for the operation) followed by their own effect; `AccessFails` holds their
errors in order, gas ending between the two charges included. `refs` are the slots
with a live mutable reference, through which `WriteRef` marks a slot dirty.
`InstructionFails` is every other way the interpreter ends. `Return` turns the
cache into a write set; `EffectsFail` is the error path of that conversion.
`NothingRuns` is the early returns that never create a meter. In the refinement a
request ends kept when its status is success and it is no query (`Ending`), and
discarded otherwise: the output of a failed call or script and that of a query
hold no write and no event, a successful one loses none of either.

The costs of instructions are five constants instead of the table, and the
estimate has a base, an input part and a part per write. `CacheAgrees` and the
refinement do not depend on which values they have; `GasBilled` is about their
sums.

### ExecuteSession

`New`, the three charges, `ReadResource`, `WriteResource`, `Commit`, `Abort` are
the methods of `session.rs`. The session's fields are public, and `SetDirect`,
`Remove` and `ChargeMeter` are the methods of its resource store and its meter
called past it: `set` and `remove` ask neither the kind nor the meter, and the
meter's `charge` is not in the summary. So a read-only session can store, and
what is set directly is not paid for; the history `direct` tells such slots from
those that `write_resource` put, and `beside` is what was charged past the
summary. Assignments to the public fields themselves (another `kind`, `schedule`,
`gas_summary`, a new meter or store) are not modelled.
`gas_summary` counts every attempted charge, `consumed` only the accepted ones.

### EventStreams

`work` is the running transaction's copy of handles, generators and streams.
`EmitEvent` is the whole of `emit_event`: the event goes out under the old value
of the counter, which is then advanced; at the largest value the addition aborts,
which is a `Fail`. Handles have `store`, so they can be moved between slots and
destroyed. That transactions are atomic is what `MoveExecute` shows; here it is
the rule by which outputs are kept or dropped.

### PlanPublish

`Planned` is `publish_verified_modules`: `HasModule`, the gas check (an estimate
equal to the limit is refused, limit 0 admits everything) and the four writes of
a contract, which `Contract` holds together. A bundle that does not verify is an
error and leaves nothing. Calls and scripts answer `Unsupported`.

### AbiEncoding and AbiLayout

The two halves of `compute_module_abi_hash`, as the bytes that go into the hash.
`Types[n]` are the types nested at most `n` deep. `TokenBytes` is one call of
`encode_token`, tag by tag, with the little-endian indices and the lengths cast to
`u8`; `EncodeToken` ties its recursive calls, and `FunctionEntry` puts each
signature behind its length (`Prefixed` of `AbiBytes`). `StructBytes` is the name, the abilities and the length
of `field_bytes`, with the markers of native structs and of enums. Each module
holds two versions, `old` and `new`, that grow independently, so that every pair
within the bounds is compared. A struct in a signature is an index into its
module's handle table; the encoding says nothing of what stands there, which is
why `CodeStore` counts the struct among what the hash leaves out.

### ModuleLoader

`store` is what `fetch_module_bytes` answers, per module id, and by the fallback to the
legacy key the answer may have another `name`. Every thread runs transactions: `BeginTransaction` makes a
module storage with an empty cache over the present state (`verified` are its
modules whose entry has become verified), `Fetch` is
`fetch_verified_module`, and `stack` holds the frames of the recursion
`visit_dependencies_and_verify`. A frame passes `LookUpHash` (the name check, and
the lookup in `VERIFIED_MODULES_V2`), `RunVerifier` when the hash was not there
(outside the cache's lock, so that other threads act in between),
`VisitDependency` for each dependency in any order, and `Finish` (the dependency
pass and `insert_verified_module`). `FetchFails` is every error; the cache keeps
what was verified before it. `verifiedHashes` is the LRU order, `CacheSize` its
limit. A module's hash is the module.

### ReentrancyChecker

`stack` is the call stack; a frame has its module, its call type and whether its
function carries the module lock. `EnterFunction` and `ExitFunction` are the two
functions of the checker, with the early return under the lock, which leaves the
lock counted, and the two "Unbalanced" errors. The interpreter refuses a native
dispatch into the module of the native itself (`interpreter.rs:953`). A native has no
frame, so a native of one module, called from another, may dispatch back into the
caller's module, which the checker takes for a call within it: `Call` lets it
through. (No native of this repository dispatches.) A
function touches only resources of its own module, so `AccessRefused` asks about
the module on top. The entry function returns without `exit_function`.

### PackageBuild

`disk` is the directory's files. `fs::write` is two steps: `OpenFile`, which
truncates, and `WriteFile`. A `build` job writes the framework files that
`NeedsWrite`, compiles, and writes bytecode, metadata and manifest; a `verify` job is the
precompiled backend under the verified backend, which lists the directory and
then reads file by file. Two writers can have one file open: what is written over a longer content keeps
its tail (`WithTail`), and neither the compiler nor the verifier looks past the
end of a module (`Deserialized`, `Verifies`). `Fail` is an I/O error or the death
of the process, at any step; nothing is undone. `EditSource`, `EditToml` and
`InstallTool` are the developer. What a file holds is what it was made from: the
source version, the address, the framework. The order of directory entries and
of the writes within a stage is left open. The set of framework files is the same
in every version of the tool. `undisturbed` is history: the loads since whose
beginning nothing has been building.

### BuildPlan

`ReadLine` is one turn of `inspect_move_toml`'s loop, `ParseAssignment` one
argument of the command line, `StartMerge` the default for `std`,
`MergeOverride` one turn of `merged_named_addresses`, `LastAddress` the map the
compiler makes of the list. TOML allows no table and no key twice, but the parser
does not look, so lines may repeat either. Lines that the parser skips are left
out, and so is the package name.

### Utf8Strings

`s` and `r` are the bytes of two strings a transaction holds; the actions are the
functions of `string.move` with their assertions, over the four natives. A byte
is a character of its own, the first of two or three, or a continuation.

### AccountAddress

`Inputs` is every text of up to `MaxDigits` characters with or without a prefix;
`FromHex` is `from_hex` with its three errors in the code's order, for an address
of `Width` bytes.

## 3. Runs

| Run | Checks | Distinct states |
|---|---|---|
| `publish` | `TypeOK`, `RecordAgrees`, `InstalledChecked`, `OutputsStayValid`, `LockedForever`, `AbiFrozen`, `SoleModuleKeepsLinking`, `ImplementsRegistry` | 65 040 |
| `publish_bundle_overwrite` | violated: `CallersKeepLinking` with bundles of two | |
| `publish_type_parameters` | violated: `CallersKeepLinking` with a change the hash leaves out | |
| `publish_missing` | violated: `DependenciesExist` | |
| `execute` | `CacheAgrees`, `GasBilled`, `DeletesExist`, `ImplementsAtomicEffects`, and `Terminates` under fairness | 51 040 |
| `session` | `SummaryMatchesMeter`, `WritesArePaid`, `ImplementsAtomicEffects` | 740 493 |
| `event_streams` | `TypeOK`, `HandlesCountEvents`, `StreamsConsecutive`, `GuidsUnique` | 500 877 |
| `plan_publish` | `ContractsDescribeBundles`, `ContractsPermanent`, `ImplementsRegistry` | 6 561 |
| `module_loader` | `VerifiedIsClosed`, `CyclesExactlyRefused`, and `FetchEnds` under fairness | 251 391 |
| `package_build` | `ArtifactIsThePackage`, `BuiltAgainstOwnFramework`, `LoadedAsBuilt`, and `BuildsRecover` under fairness | 772 440 |
| `package_framework` | violated: `BuiltAgainstOwnFramework` where two frameworks have one size | |
| `library` | `BuildPlan`: `CompiledAsWritten`; `AccountAddress`: `ParsesExactly`; `Utf8Strings`: `StringsAreUtf8`, `FoundLikeFind`; `AbiEncoding`: `BytesDetermineTokens`; `AbiLayout`: `LayoutDetermined`; `ReentrancyChecker`: `CountersMatchStack`, `AccessIffNotReentered`, `ReenteredOnlyFromItself` | 2 463 990 |

### What the violations show

* **A missing dependency can be accepted.** `get_module_by_name` falls back to the
  legacy key `code`, which every publish also writes, so any name at an account
  with code appears to exist. A dependency on an account without code is refused,
  as the unit test expects.
* **A bundle's last module speaks for the account.** Only its ABI hash is kept,
  and the hash holds no module name. An upgrade of another module that has the
  last one's surface passes the `Compatible` check and breaks the callers of the
  module it replaces; an upgrade of that other module that changes nothing is
  refused with code 22.
* **The ABI hash does not cover type parameters**, although its comment says so: a
  stronger constraint passes as compatible and the caller no longer links. In the
  same way a struct type is hashed by its index in the module's handle table, so
  that another struct at the same index has the same hash. The encoding itself is
  sound: no two token sequences, and no two lists of structs, have one stream,
  although nothing is counted (`library`).
* **A framework file is current if its size is.** Two versions of the tool whose
  framework files have one length compile against whichever was there first.

Limits of the code that the models reproduce or take for granted, and a reader
should know:

* publishing checks that dependencies exist and not what they depend on, so
  upgrades of two accounts can close a dependency cycle, which the loader then
  refuses;
* under a module lock a module that is on the stack can be entered again, in two
  ways: by a closure dispatched from a frame of the module itself, and by a native
  of another module that dispatches back to the module that called it.
  `reentrancy_checker.rs:12` says that under the lock "reentrancy via any kind of
  function call is disallowed"; what holds is `ReenteredOnlyFromItself`. The
  second way is not seen by the resource lock either (`AccessIffNotReentered`);
* a name that `Move.toml` gives an address twice keeps the last of them: an
  assignment on the command line replaces the first entry, the compiler reads the
  last, and the override is lost (`CompiledAsWritten` says exactly when);
* `ResourceStore::set` on a session's public `resources` stores without paying
  and in a read-only session too;
* the artifact directory is only added to, so a removed module's `.mv` file stays
  and is packaged by the precompiled backend; a load while a build runs can mix
  modules of two builds, each of which verifies; the files are named without the
  module's address, so `ArtifactIsThePackage` and `LoadedAsBuilt` are about modules of different names
  (`FileOf`); nothing keeps two builds of one directory apart, so in the runs one process
  builds at a time.

What holds of loading: whatever another thread has put into or pushed out of the
shared cache, and whatever is published meanwhile, a verified module was verified
against the state its transaction sees. Of building: one process at a time, a
build that succeeds has repaired what any dead one left, and a load after it finds
its modules.

What holds of publishing despite this: under no order of commits is a locked account changed, a
policy check or an ABI comparison outdated when its output is applied, or an
account left with keys of two modules. Where an account has an ABI hash and
holds one module, and the hash tells surfaces apart, an upgrade never breaks an
installed caller (`SoleModuleKeepsLinking`).

### Bounds and why they are enough

* Publishing: two accounts and the framework, two names, `MaxModules` = 2. Two
  accounts are needed for a caller and its dependency, two names and two modules
  for one module of a bundle to overwrite another's record; the properties relate
  at most two modules at a time. The module universes (`Blob...` in
  `MCMovePublish`) hold, for each check, a module that fails it and only it.
* Execution: two slots, two values, one event payload, at most two events
  (`MaxEvents`), every charge 1 and limits 0, 4, 8 and 9 = `MaxU64`. Limit 4 runs
  out within a short transaction, 8 admits a slot's whole life (load, move out,
  move in, write, release), 9 is where sums saturate, 0 refuses the first charge.
* Sessions: resources of one and two bytes, `MaxU64` = 3, limits 1 to 3, so that
  each category, their total and the meter all reach their ends, in sessions of
  every kind, with sets, removals and charges past the session at any point.
* Events: counters up to `MaxU64` = 2, so that the third event of a handle and the
  third guid of an account abort; two slots, so that handles can be moved.
* Planning: bundles up to three modules of at most three bytes against limits of
  2, 2 and 3, two bundles that store the same bytes, one bundle per structural
  error, gas limits that refuse and admit.

* Loading: two threads and three modules that form a diamond with one of them
  missing, unsound, of another interface or closing a cycle; one publish
  (`MaxPublishes`), so that the threads' views differ, at any id and of any module,
  so that names differ as with the legacy key; a hash cache of one entry, so that
  every put evicts. The node starts with the diamond or without its last module
  (`SomeStores`).
* Reentrancy: three modules and a stack of five frames: an activation, a detour
  over two other modules, a reentry and a call inside it, with the lock taken at
  any of them, and native dispatch to any module, the caller's included.
* Building: two modules, a `Broken` source, two frameworks of different length and
  a given one, one edit or upgrade and one fault (`MaxEdits`, `MaxFaults`): a build
  dies over the files of an earlier one, made against another framework, and a
  third succeeds. One process builds, another loads.
* Plans: names `std` and another, four lines of `Move.toml` and two assignments:
  enough for both tables in use or for one key given twice, against an override
  given twice.
* Encodings: signatures of up to two types, over two types without content
  (`SimpleTags`) and one type parameter (`Parameters`), one level of nesting
  (`MaxNesting`) over the types in `Elements`, lists of at most one type inside a
  type (`MaxArgs`), a handle index whose bytes are tags; names that are prefixes of one another, so that a boundary
  can shift; up to two structs with three fields or variants.
* Strings of up to four bytes hold a three-byte character with a neighbour;
  addresses of two bytes are read from up to six characters, one past full length
  and more.

The bounds of each run are in its `.cfg` and its `MC` module.
Deadlock is checked where the system goes on: a node can always receive another
request, a package be built again. It is not checked (`CHECK_DEADLOCK FALSE`) in
`library`, whose parts follow one execution, or the making of one input, to its
end.

### Fairness

`FairSpec` asks weak fairness of `Execution`, the interpreter's loop: as long as a
transaction runs, the interpreter takes its next step. It does not ask that a
program ends. `Terminates` then says gas ends every transaction. It excepts the
limit `u64::MAX`, where `saturating_add` stops the meter at the limit and no
charge is refused: there a looping program does run for ever. Whether an account's
output is ever applied is the node's affair and nothing is assumed of it.

In `ModuleLoader`, weak fairness of each thread's `Step` says that a thread inside
`fetch_verified_module`, which waits for nobody, keeps running; fetches and publishes are not required. In
`PackageBuild`, a process that runs keeps running, and one that builds is run
again; faults and edits are bounded, so they stop. `BuildsRecover` then says that
a package left alone in a buildable state is built again and again, although
dead builds left truncated files.

## 4. Assumptions about the node

The repository holds no node. What the models take from how the code is used:

* an account (for `PlanPublish`, a sender) has at most one output in flight, as a
  node executes the transactions of an account in sequence. Two outputs computed
  for one account from one view would overwrite each other in the code as well.
  `MoveExecute`, `ExecuteSession` and `EventStreams` ask more: one transaction
  at a time on the whole of the state they model, its output applied or dropped before the next
  begins;
* a request executes on a view that does not change while it runs;
* a write set is applied as a whole. `MemState::apply_output`, the in-memory state
  of the tests in `vm_backend.rs`, is the model of that;
* hashes do not collide.

## 5. Proofs

`tlapm` proves every obligation. Each theorem holds for all values of the
constants that satisfy the named assumptions: any accounts, module names and
bytes, any length of bundle, slots, costs, limits and widths, any number of
threads and processes, any dependency graph, texts of any length.

| Theorem | Property |
|---|---|
| `MovePublish_proofs`: `TypeCorrect`, `RecordsAgree`, `InstalledStayChecked`, `OutputsValid` | the four invariants of `publish` |
| `LockedAccountsKeep`, `AbiStaysFrozen`, `SoleModulesKeepLinking` | the action properties of `publish` |
| `PublishingImplementsRegistry` | the refinement to `CodeRegistry` |
| `MoveExecute_proofs`: `TypeCorrect`, `CacheStaysTrue`, `GasWithinLimit`, `DeletesFindResources` | the invariants of `execute`, and its types |
| `ExecutionImplementsAtomicEffects` | the refinement to `AtomicEffects` |
| `ExecuteSession_proofs`: `TypeCorrect`, `SummaryFollowsMeter`, `SessionsPay` | the invariants of `session`, and its types |
| `SessionImplementsAtomicEffects` | the refinement to `AtomicEffects` |
| `EventStreams_proofs`: `TypeCorrect`, `HandlesProveCounts`, `StreamsStayConsecutive`, `GuidsStayUnique` | the invariants of `event_streams` |
| `PlanPublish_proofs`: `ContractsAreBundles`, `ContractsStay`, `PlanningImplementsRegistry` | the invariant, the action property and the refinement of `plan_publish` |
| `ModuleLoader_proofs`: `LoadedCodeIsVerified`, `CyclesAreRefused` | the invariants of `module_loader` |
| `PackageBuild_proofs`: `LoadInvariance` | what a load holds that no build disturbs, for any number of builders |
| `ArtifactsArePackages`, `OwnFrameworkIsUsed`, `LoadsFindTheBuild` | the invariants of `package_build`, for one builder |
| `Library_proofs`: `CallsAreCounted`, `LockedReentryIsFromItself`, `AccessIsExclusive` | the properties of `ReentrancyChecker` |
| `StringsHoldCharacters`, `IndexOfFinds` | the properties of `Utf8Strings` |
| `AddressesParseExactly` | `ParsesExactly` of `AccountAddress` |
| `PackagesAreCompiledAsWritten` | `CompiledAsWritten` of `BuildPlan` |
| `StructsAreDetermined` | `LayoutDetermined` of `AbiLayout`, where the lengths of fields fit in a `u32` (`ModulesFit`) |
| `SignaturesAreDetermined` | `BytesDetermineTokens` of `AbiEncoding`, where the lengths of signatures do (`SignaturesFit`) |

**Publishing.** `RecordAgrees` is about the store, but the store is changed by
outputs decided on older stores, so it is not inductive alone. `OutputsStayValid`
says of every output in flight that it fits the store of *now*; applying it then
keeps the record, and for the output of another account it is kept because an
account's policy, ABI hash and code can only move in one direction: code is never
removed, an account is never unlocked, a hash once set stays. `IInv` is the
conjunction of the four. The action properties and the refinement follow from
`OutputsStayValid` at the step that applies an output. For
`SoleModulesKeepLinking` it gives that the bundle is of one module, whose hash is
the stored one; `RecordAgrees` says that hash is of the module replaced
(`SoleModule`), and equal hashes mean equal declarations, on which linking
depends (`CommitKeepsLinking`).

**Execution.** `IInv` adds to the invariants what an idle or finished transaction
has cleared (`Quiet`). The lemma on one slot (`SlotStep`) carries all resource
instructions. For the refinement the copy of the state is `Working`: the cached
resource of a loaded slot, the stored one of any other. A load leaves it alone,
an instruction changes it at one slot, and `CacheAgrees` makes the write set
reproduce it.

**Sessions.** `ChargeKeeps` shows that charging keeps meter and total in step:
saturation commutes with the sum of the three categories. The refinement is that
of execution with the overlay in place of the cache. `SessionsPay` needs the sum
of bytes over the written slots: `BytesAreSums` shows, by induction on finite
sets, that the model's recursive sum is additive, so one write changes it by the
bytes of one slot (`PutBytes`). Only the slots that `write_resource` put are
counted (`Recorded`): a direct set or a removal takes a slot out of the sum and
leaves the meter where it is. `PaidInv` adds that the overlay is finite and
that its bytes, not only those of the output, are covered by the meter.

**Events.** The stored state and the transaction's copy satisfy the same
predicate (`Sound`), since either can become the other. `GuidsUnique` must be
carried along with `HandlesCountEvents`: a handle's counter counts its stream only
because no other handle writes to it.

**Planning.** What an output deploys was free on the view it was computed on. It
is free still when the output is applied (`OutputsDeployFresh`), because the
address of a contract is derived from its sender, and a sender has one output in
flight. With that no commit meets a contract that exists.

**Loading.** `IInv` says of each thread how the frames of its recursion belong
together (`Frames`): each frame's module is a dependency of the one below and no
two are of one module; visited modules are verified or on the stack; a frame that
has looked at its dependencies has all but `todo` and the one above it verified. It
says of the shared cache only that its hashes are of sound code
(`HashesAreSound`), which no eviction or race can spoil and which does not
depend on a state. So a hit stands for the local verifier, and for nothing else.
A verified module's dependencies were verified before it, so nothing reached from
it can be it; a visited module that is not verified is on the stack, and the
frames from it to the top, with the dependency met, close a cycle. `ReachedFrom`
follows dependencies by a recursive function as often as there are module ids;
that this reaches everything on a path is proved by counting (`ReachSteps` and
the lemmas after it).

**Building.** What holds with any number of builders (`IInv`, `LoadInv`) is what
each process holds in each stage, and that a load during which nothing builds has
read the files as they are and missed none. The rest is about what is on disk when a
build has returned, and needs `OneBuilder`: nothing in the code keeps two builds
of one directory apart (the hazard at `build.rs:109`). `BuilderInv` follows the
one builder file by file: what is no longer in `todo` is on disk as it should be,
what earlier builds left notwithstanding, and no file has a tail, because no one
else has it open. `ArtifactsArePackages` also needs
`NamesDiffer` (files are named without the module's address);
`LoadsFindTheBuild` puts it together with `LoadInv`: what the build left is what
the load has read. `OwnFrameworkIsUsed` needs `SizesTell` (`needs_write` compares lengths): the run
`package_framework` violates it without. The constants of `package_build` satisfy
all three.

**Reentrancy.** `CallInv` says that a module's counter is the number of its frames
that entered it and the lock's that of the frames that hold it, both as
cardinalities of sets of positions in the stack. Pushing and popping a frame change each set by one
position (`PushedCounts`, `PoppedStack`), the enter and the exit conditions agree on which,
and the frames of one module that did not enter lie directly on one that did.
Under the lock a call from another module into one that is counted fails, so a
module's frames above the locking one follow each other without a gap
(`LockedReentryIsFromItself`).
Hypothesis: `"none"` is no module (`DepthAssumption`).

**Strings.** A cut at character boundaries and a concatenation keep UTF-8
(`Utf8Cut`, `Utf8Concat`). A window of bytes that equals a UTF-8 string begins and
ends at boundaries (`FindsCharacters`): a continuation byte is the first of no
string.

**Addresses.** `ValueOf` is unfolded digit by digit (`ValueSteps`); by induction
over positions leading zeros add nothing (`LeadingZeros`) and pairs of hex digits
have the value of the bytes made of them (`PairsOfDigits`). An odd text gets its
0, a short one its zero bytes, without changing the number.

**Plans.** Both the code's lists and the rule in the property take the last
assignment, the code by appending and replacing in place, the rule by looking
at the whole file. `AppendedAddress`, `PutAddress`, `AppendedValue` and
`AppendedTable` say what one more line or override does to either, so that
`PlanInv` relates them at every point of the loops. The replacement takes the
first entry of a name (`find`) and the compiler the last, which is one and the
same unless the table in use gives the name an address twice (`WrittenTwice`); for such a name
the override leaves the last entry as it was.

**ABI bytes.** Both theorems say that a stream without separators has one reading.
Two streams *agree* (`Agree`) if they are equal where both have bytes, that is, if one may be the
beginning of the other. In a prefix code only equal words agree, and
then equal streams of words consist of the same words, by induction over the words
read. What remains is to show that the words form such a code.

* *Structs.* A field and the head of a variant both begin with a name behind its
  length; after the name comes the length of an encoded type, for a field, or the
  next name, for a variant. They are told apart because a name and an encoded type
  never begin with the same byte (`LayoutAssumption`: letters against tags up to
  16). The fields of a struct and the marker 254 of an enum are told apart by
  the fifth byte: the first letter of a field's name, or, behind the marker, the
  high byte of the length of a variant's name, which is 0 for names of at most
  255 bytes. A struct's name has no length: it ends at the abilities, a byte that
  is no letter.
* *Signatures.* `EncodeToken` is a recursive function on nested types; that such a
  function exists is proved level by level (`TokensWritten`). The first byte is the
  tag (`TagWritten`), each tag has one shape (`TokenShapes`), and of each shape the
  heads have a fixed width, so the types inside begin at the same byte. Counts of
  one byte lose nothing, since no list of more than 255 types passes the
  deserializer (`ListsAreShort`, from `AbiEncodingAssumption`). So if the types of
  one level form a prefix code those of the next do (`TypesApart`), hence all
  (`TokensApart`).

`ModulesFit` and `SignaturesFit` say that the casts to `u32` of the code drop
nothing; a module of four gigabytes does not reach the hash. The theorems are about
the bytes, not about the digest.

Recursion and induction: the models' recursive functions and sums are reasoned
about by induction over the naturals and over finite sets, derived from
well-foundedness for a *set* of numbers (`NatSetInduction`, `FiniteSetInduction`)
in place of the library's theorems over predicates.

Only proved: `TypeOK` of `MoveExecute` and of `ExecuteSession`, and the
inductive invariants.

Only model-checked:

* `Terminates`, `FetchEnds` and `BuildsRecover`: liveness under fairness is out of
  the prover's reach;
* `CallersKeepLinking` and `DependenciesExist`, which are violated.

## 6. Not modelled, and the plan

Built so far, in order: publishing with its registry; execution with atomic
effects; sessions; event streams; the planning backend; the ABI hash's
encodings; the loader and its caches; the reentrancy checker; package builds and
plans; strings; addresses.

Next:

* `PublishThenExecute`: composition of publishing and execution over one store,
  where a call reads code another account is upgrading.

Left out for good: the compiler, the model and the bytecode verifier's own passes
(third-party, sequential, not changed here); the meaning of the bytecode
instructions over locals and the stack; what the hashing, BCS, signer and type-name
natives compute; BCS and JSON encodings; the bootstrap backend, which runs a
program of another repository; re-export modules; the generated interface files
and examples. Balances are stored and read but no modelled operation decides on
them.
