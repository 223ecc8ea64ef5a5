---------------------------- MODULE PackageBuild ----------------------------
(***************************************************************************)
(* nexus-move-package on one package directory: build_package (build.rs),  *)
(* the native, precompiled and verified backends and orchestrate_build.    *)
(* Several processes run it, a developer edits Move.toml and sources/, and *)
(* new versions of the tool, with another embedded framework, are          *)
(* installed.  A process may die, or a write may fail, at any point.       *)
(*                                                                         *)
(* The directory is the variable disk: build/framework/*.mv,               *)
(* nexus-artifact/bytecode/*.mv, package-metadata.bcs and manifest.json.   *)
(* fs::write creates (and so truncates) the file and then writes it: two   *)
(* steps, with the file Torn, of length 0, in between.  Over what another  *)
(* process has written meanwhile the bytes keep the tail of a longer file, *)
(* which neither the compiler nor the verifier looks at.                   *)
(***************************************************************************)
EXTENDS Naturals

CONSTANTS
    Procs,           \* processes that call the package API
    Jobs,            \* the jobs of each: "build", "verify"
    Modules,         \* modules the sources may define
    FwFiles,         \* build/framework/<name>.mv, one per FRAMEWORK_MODULES entry
    MvFiles,         \* nexus-artifact/bytecode/<name>.mv
    FileOf,          \* the .mv file of each module: by name, without its address
    Metadata, Manifest,          \* package-metadata.bcs and manifest.json
    Absent, Torn,                \* a file that is not there, or is truncated
    Broken,                      \* a source that does not compile
    Policies, Addrs, NoAddr,     \* upgrade policies; values of a named address
    MaxSource,                   \* bound: versions of one source file
    FwVersions, SizeOf,          \* embedded frameworks, and the length of a file of each
    Given,                       \* a framework passed as framework_bytecode_dir
    MaxEdits, MaxFaults          \* bounds: edits and upgrades; crashes and I/O errors

Outputs == {Metadata, Manifest}
Files == FwFiles \cup MvFiles \cup Outputs
JobNames == {"build", "verify"}

ASSUME FileAssumption ==
    /\ Metadata # Manifest
    /\ FwFiles \cap MvFiles = {}
    /\ Outputs \cap (FwFiles \cup MvFiles) = {}
    /\ FileOf \in [Modules -> MvFiles]
    /\ FwFiles # {}

ASSUME JobAssumption == Jobs \in [Procs -> SUBSET JobNames]

ASSUME VersionAssumption ==
    /\ FwVersions \subseteq Nat
    /\ SizeOf \in [FwVersions -> Nat \ {0}]
    /\ MaxSource \in Nat \ {0}
    /\ MaxEdits \in Nat
    /\ MaxFaults \in Nat

VARIABLES
    sources,     \* sources/: version of each module's source, Absent or Broken
    toml,        \* Move.toml: upgrade policy and named address, or Absent
    tool,        \* version of the installed tool (its embedded framework)
    disk,        \* contents of the files this code writes
    pc,          \* where each process is
    job,         \* what it runs
    env,         \* what it holds from its start: plan and embedded framework
    todo,        \* what it still has to write or read in its stage
    open,        \* the item whose file it has truncated and not yet written
    pkg,         \* CompiledPackage.modules
    edits, faults,
    undisturbed  \* history: processes since whose last load began nothing was building

vars == <<sources, toml, tool, disk, pc, job, env, todo, open, pkg, edits, faults, undisturbed>>
world == <<sources, toml, tool, edits>>
procVars == <<pc, job, env, todo, open, pkg>>

-----------------------------------------------------------------------------
(* Contents.  A module's bytes depend on its source, on the named address  *)
(* and on the framework it was compiled against.                           *)

FwFile(v) == [fw |-> v]
FwContents == {FwFile(v) : v \in FwVersions}
Images == [mod : Modules, src : 1..MaxSource, addr : Addrs, fw : FwVersions \cup {Given}]
CompiledModules == [name : MvFiles, bytes : Images]

\* A file that begins with what was written last and ends with a tail of what
\* was longer; only of framework files is the length told.
WithTail(c, n) == [head |-> c, len |-> n]
FwTails == [head : FwContents, len : {SizeOf[v] : v \in FwVersions}]
ModuleTails == [head : Images, len : {"longer"}]

\* An item to write is a framework file, a CompiledModule, or an output file.
FileFor(x) == IF x \in FwFiles \cup Outputs THEN x ELSE x.name

\* build_package_metadata and build_artifact_manifest; the hashes of the
\* modules are modelled by the modules themselves.
MetadataOf(p, plan) == [policy |-> plan.policy, addr |-> plan.addr, modules |-> p]
ManifestOf(p, plan) == [policy |-> plan.policy, hashes |-> p]

BytesFor(b, x) ==
    IF x \in FwFiles THEN FwFile(env[b].fw)
    ELSE IF x = Metadata THEN MetadataOf(pkg[b], env[b])
    ELSE IF x = Manifest THEN ManifestOf(pkg[b], env[b])
    ELSE x.bytes

\* The length fs::metadata reports; a truncated file has length 0.
FileLen(c) == IF c = Torn THEN 0 ELSE IF c \in FwContents THEN SizeOf[c.fw] ELSE c.len

\* Mutant: a framework file that is there is taken for current.
NeedsWriteIfMissing(b, f) == disk[f] = Absent

\* Mutant: an empty file counts as written.
NeedsWriteUnlessEmpty(b, f) ==
    disk[f] = Absent \/ FileLen(disk[f]) \notin {0, SizeOf[env[b].fw]}

\* needs_write of write_embedded_framework: missing, or of another length.
NeedsWrite(b, f) == disk[f] = Absent \/ FileLen(disk[f]) # SizeOf[env[b].fw]

ASSUME TokenAssumption ==
    /\ Absent # Torn
    /\ Absent \notin FwFiles \cup Outputs \cup CompiledModules
    /\ Absent \notin FwContents \cup Images \cup FwTails \cup ModuleTails
    /\ Torn \notin FwContents \cup Images \cup FwVersions \cup {Given}
    /\ CompiledModules \cap (FwFiles \cup Outputs) = {}
    /\ Absent \notin 1..MaxSource \cup {Broken} /\ Broken \notin 1..MaxSource

-----------------------------------------------------------------------------
Init ==
    /\ sources \in [Modules -> {1, Absent}]
    /\ toml \in [policy : Policies, addr : Addrs]
    /\ tool \in FwVersions
    /\ disk = [f \in Files |-> Absent]
    /\ pc = [b \in Procs |-> "idle"]
    /\ job = [b \in Procs |-> "verify"]
    /\ env = [b \in Procs |-> [policy |-> toml.policy, addr |-> toml.addr, fw |-> tool]]
    /\ todo = [b \in Procs |-> {}]
    /\ open = [b \in Procs |-> Absent]
    /\ pkg = [b \in Procs |-> {}]
    /\ edits = 0 /\ faults = 0 /\ undisturbed = {}

AtRest(b) == pc[b] \in {"idle", "ok", "err"}

\* The plan: Move.toml's settings, the command line's address before its own.
PlanFor(cli) == [policy |-> toml.policy,
                 addr   |-> IF cli = NoAddr THEN toml.addr ELSE cli,
                 fw     |-> tool]

\* Move.toml is read; without it every job ends at once (PackageDirMissing).
Begin(b, j, plan, stage, items) ==
    /\ AtRest(b)
    /\ j \in Jobs[b]
    /\ job' = [job EXCEPT ![b] = j]
    /\ pkg' = [pkg EXCEPT ![b] = {}]
    /\ IF toml = Absent
       THEN /\ pc' = [pc EXCEPT ![b] = "err"]
            /\ todo' = [todo EXCEPT ![b] = {}]
            /\ UNCHANGED env
       ELSE /\ pc' = [pc EXCEPT ![b] = stage]
            /\ todo' = [todo EXCEPT ![b] = items]
            /\ env' = [env EXCEPT ![b] = plan]
    /\ UNCHANGED <<world, disk, open, faults>>

\* build_package with framework_bytecode_dir None: the embedded framework first.
StartBuild(b, cli) ==
    Begin(b, "build", PlanFor(cli), "framework", FwFiles) /\ undisturbed' = {}

\* build_package with a directory of framework bytecode.
StartBuildGiven(b, cli) ==
    Begin(b, "build", PlanFor(cli), "given", {}) /\ undisturbed' = {}

\* orchestrate_build over PrecompiledBackend under VerifiedCompileBackend: the
\* .mv files the directory lists.  Nothing of the plan decides what is read.
StartLoad(b) ==
    /\ Begin(b, "verify", env[b], "load", {f \in MvFiles : disk[f] # Absent})
    /\ undisturbed' = IF \A d \in Procs : job[d] = "build" => AtRest(d)
                        THEN undisturbed \cup {b} ELSE undisturbed \ {b}

Writing(b) == pc[b] \in {"framework", "bytecode", "metadata", "manifest"}

\* fs::write, first half: File::create truncates.  A framework file that is
\* there with the right length is left as it is.
OpenFile(b, x) ==
    /\ Writing(b) /\ open[b] = Absent /\ x \in todo[b]
    /\ IF pc[b] = "framework" /\ ~NeedsWrite(b, x)
       THEN todo' = [todo EXCEPT ![b] = @ \ {x}] /\ UNCHANGED <<disk, open>>
       ELSE /\ disk' = [disk EXCEPT ![FileFor(x)] = Torn]
            /\ open' = [open EXCEPT ![b] = x]
            /\ UNCHANGED todo
    /\ UNCHANGED <<world, pc, job, env, pkg, faults, undisturbed>>

\* fs::write, second half: write_all from offset 0, over whatever is there by now.
Overlay(f, old, new) ==
    IF f \in FwFiles
      THEN {IF FileLen(old) > FileLen(new) THEN WithTail(new, FileLen(old)) ELSE new}
      ELSE IF old = Torn THEN {new}
      ELSE IF old \in {new, WithTail(new, "longer")} THEN {old}
      ELSE {new, WithTail(new, "longer")}

WriteFile(b) ==
    /\ Writing(b) /\ open[b] # Absent
    /\ LET f == FileFor(open[b]) IN
         \E c \in Overlay(f, disk[f], BytesFor(b, open[b])) : disk' = [disk EXCEPT ![f] = c]
    /\ todo' = [todo EXCEPT ![b] = @ \ {open[b]}]
    /\ open' = [open EXCEPT ![b] = Absent]
    /\ UNCHANGED <<world, pc, job, env, pkg, faults, undisturbed>>

\* move-compiler-v2 with the framework directory as bytecode dependency: it
\* reads every file there, and fails on one that does not deserialize.
CompilesWith(v) ==
    /\ \A m \in Modules : sources[m] # Broken
    /\ v \in FwVersions \cup {Given}

\* The deserializer stops at the end of the module: a tail is not looked at.
Deserialized(c) == IF c \in FwContents THEN c.fw ELSE IF c \in FwTails THEN c.head.fw ELSE Torn

FrameworkSeen(b) ==
    IF pc[b] = "given" THEN {Given} ELSE {Deserialized(disk[f]) : f \in FwFiles}

CompiledFor(b, v) ==
    {[name |-> FileOf[m],
      bytes |-> [mod |-> m, src |-> sources[m], addr |-> env[b].addr, fw |-> v]] :
        m \in {n \in Modules : sources[n] # Absent}}

\* NativeCompileBackend::compile and the rest of orchestrate_build: an error of
\* the compiler, or NoModulesProduced, ends the build.
Compile(b) ==
    /\ pc[b] \in {"framework", "given"} /\ todo[b] = {} /\ open[b] = Absent
    /\ \/ /\ \E v \in FrameworkSeen(b) :
                /\ CompilesWith(v)
                /\ \A w \in FrameworkSeen(b) : CompilesWith(w)
                /\ CompiledFor(b, v) # {}
                /\ pkg' = [pkg EXCEPT ![b] = CompiledFor(b, v)]
                /\ todo' = [todo EXCEPT ![b] = CompiledFor(b, v)]
          /\ pc' = [pc EXCEPT ![b] = "bytecode"]
       \/ /\ \/ \E w \in FrameworkSeen(b) : ~CompilesWith(w)
             \/ \A m \in Modules : sources[m] = Absent
          /\ pc' = [pc EXCEPT ![b] = "err"]
          /\ UNCHANGED <<pkg, todo>>
    /\ UNCHANGED <<world, disk, job, env, open, faults, undisturbed>>

\* Mutant: the manifest follows the bytecode; the metadata of an earlier build stays.
AfterStageNoMetadata(b) ==
    /\ pc[b] \in {"bytecode", "manifest"} /\ todo[b] = {} /\ open[b] = Absent
    /\ pc' = [pc EXCEPT ![b] = IF @ = "bytecode" THEN "manifest" ELSE "ok"]
    /\ todo' = [todo EXCEPT ![b] = IF pc[b] = "bytecode" THEN {Manifest} ELSE {}]
    /\ UNCHANGED <<world, disk, job, env, open, pkg, faults, undisturbed>>

\* The bytecode is on disk: metadata next, then the manifest, then Ok.
AfterStage(b) ==
    /\ pc[b] \in {"bytecode", "metadata", "manifest"} /\ todo[b] = {} /\ open[b] = Absent
    /\ pc' = [pc EXCEPT ![b] = CASE @ = "bytecode" -> "metadata"
                                 [] @ = "metadata" -> "manifest"
                                 [] @ = "manifest" -> "ok"]
    /\ todo' = [todo EXCEPT ![b] = CASE pc[b] = "bytecode" -> {Metadata}
                                     [] pc[b] = "metadata" -> {Manifest}
                                     [] pc[b] = "manifest" -> {}]
    /\ UNCHANGED <<world, disk, job, env, open, pkg, faults, undisturbed>>

\* PrecompiledBackend reads the listed files one by one, whatever they hold.
ReadModule(b, f) ==
    /\ pc[b] = "load" /\ f \in todo[b]
    /\ pkg' = [pkg EXCEPT ![b] = @ \cup {[name |-> f, bytes |-> disk[f]]}]
    /\ todo' = [todo EXCEPT ![b] = @ \ {f}]
    /\ UNCHANGED <<world, disk, pc, job, env, open, faults, undisturbed>>

\* compile_verified: every module deserializes and passes the verifier, which
\* a module with a tail of other bytes does like the module alone.
Verifies(b) == \A c \in pkg[b] : c.bytes # Torn

\* Mutant: a load ends with the first module it has read.
EndLoadEarly(b) ==
    /\ pc[b] = "load" /\ (todo[b] = {} \/ pkg[b] # {})
    /\ IF pkg[b] # {} /\ Verifies(b)
       THEN pc' = [pc EXCEPT ![b] = "ok"] /\ UNCHANGED pkg
       ELSE pc' = [pc EXCEPT ![b] = "err"] /\ pkg' = [pkg EXCEPT ![b] = {}]
    /\ todo' = [todo EXCEPT ![b] = {}]
    /\ UNCHANGED <<world, disk, job, env, open, faults, undisturbed>>

\* The end of the load: a missing or empty directory is an error, and so is a
\* module that does not deserialize.
EndLoad(b) ==
    /\ pc[b] = "load" /\ todo[b] = {}
    /\ IF pkg[b] # {} /\ Verifies(b)
       THEN pc' = [pc EXCEPT ![b] = "ok"] /\ UNCHANGED pkg
       ELSE pc' = [pc EXCEPT ![b] = "err"] /\ pkg' = [pkg EXCEPT ![b] = {}]
    /\ UNCHANGED <<world, disk, job, env, todo, open, faults, undisturbed>>

\* The process dies, or a create or write fails and the function returns Err:
\* what is on disk stays as it is.
Fail(b) ==
    /\ ~AtRest(b) /\ faults < MaxFaults
    /\ \E end \in {"idle", "err"} : pc' = [pc EXCEPT ![b] = end]
    /\ todo' = [todo EXCEPT ![b] = {}]
    /\ open' = [open EXCEPT ![b] = Absent]
    /\ pkg' = [pkg EXCEPT ![b] = {}]
    /\ faults' = faults + 1
    /\ UNCHANGED <<world, disk, job, env, undisturbed>>

-----------------------------------------------------------------------------
(* The developer.                                                          *)

EditSource(m, s) ==
    /\ edits < MaxEdits /\ s # sources[m]
    /\ sources' = [sources EXCEPT ![m] = s]
    /\ edits' = edits + 1
    /\ UNCHANGED <<toml, tool, disk, procVars, faults, undisturbed>>

EditToml(t) ==
    /\ edits < MaxEdits /\ t # toml
    /\ toml' = t
    /\ edits' = edits + 1
    /\ UNCHANGED <<sources, tool, disk, procVars, faults, undisturbed>>

InstallTool(v) ==
    /\ edits < MaxEdits /\ v # tool
    /\ tool' = v
    /\ edits' = edits + 1
    /\ UNCHANGED <<sources, toml, disk, procVars, faults, undisturbed>>

Start(b) ==
    \/ \E cli \in Addrs \cup {NoAddr} : StartBuild(b, cli) \/ StartBuildGiven(b, cli)
    \/ StartLoad(b)

Step(b) ==
    \/ \E x \in todo[b] : OpenFile(b, x)
    \/ WriteFile(b)
    \/ Compile(b)
    \/ AfterStage(b)
    \/ \E f \in todo[b] : ReadModule(b, f)
    \/ EndLoad(b)

Developer ==
    \/ \E m \in Modules, s \in 1..MaxSource \cup {Absent, Broken} : EditSource(m, s)
    \/ \E t \in [policy : Policies, addr : Addrs] \cup {Absent} : EditToml(t)
    \/ \E v \in FwVersions : InstallTool(v)

Next ==
    \/ \E b \in Procs : Start(b) \/ Step(b) \/ Fail(b)
    \/ Developer

Spec == Init /\ [][Next]_vars

\* A process that runs keeps running, and a process that builds is run again.
FairSpec == Spec /\ \A b \in Procs : WF_vars(Step(b))
                                     /\ ("build" \in Jobs[b] => WF_vars(Start(b)))

-----------------------------------------------------------------------------
(* Properties.                                                             *)

\* A package returned by build_package (build.rs:51) is what the directory
\* holds: every module's bytecode, the metadata and the manifest are those of
\* this build, whatever an earlier build that died or failed left there and
\* whatever the developer has edited since.
ArtifactIsThePackage ==
    \A b \in Procs : pc[b] = "ok" /\ job[b] = "build" =>
        /\ \A c \in pkg[b] : disk[c.name] = c.bytes
        /\ disk[Metadata] = MetadataOf(pkg[b], env[b])
        /\ disk[Manifest] = ManifestOf(pkg[b], env[b])

\* Without a directory of its own, a build compiles against the framework
\* embedded in the tool that runs it (build.rs:50), not one that an earlier
\* version of the tool, or a build that died, left in build/framework.
BuiltAgainstOwnFramework ==
    \A b \in Procs : job[b] = "build" =>
        \A c \in pkg[b] : c.bytes.fw \in {env[b].fw, Given}

\* A package the verified backend (verified_backend.rs:52) returns of what a
\* build left, nothing having been built since, holds the modules of that
\* build as they were built, whatever builds failed or died before and whatever
\* is edited since; what else it holds is in files that build did not write.
\* A load during a build can mix modules of two builds.
LoadedAsBuilt ==
    \A b, d \in Procs :
        /\ pc[b] = "ok" /\ job[b] = "verify" /\ b \in undisturbed
        /\ pc[d] = "ok" /\ job[d] = "build"
        => /\ pkg[d] \subseteq pkg[b]
           /\ \A c \in pkg[b] \ pkg[d] : \A x \in pkg[d] : x.name # c.name

\* The sources and Move.toml are in order.
Buildable == /\ toml # Absent
             /\ \A m \in Modules : sources[m] # Broken
             /\ \E m \in Modules : sources[m] # Absent

\* No file that a dead or failed build left behind keeps later builds from
\* succeeding: once the developer leaves a buildable package alone and nothing
\* fails any more, building again succeeds, again and again.
BuildsRecover ==
    <>[]Buildable =>
        \A b \in Procs : "build" \in Jobs[b] => []<>(pc[b] = "ok" /\ job[b] = "build")

=============================================================================
