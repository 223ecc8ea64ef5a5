------------------------ MODULE PackageBuild_proofs ------------------------
(***************************************************************************)
(* Theorems about PackageBuild for every set of processes, modules, files  *)
(* and framework versions, and any number of edits and faults.             *)
(***************************************************************************)
EXTENDS PackageBuild, TLAPS

Stages == {"idle", "ok", "err", "framework", "given", "bytecode", "metadata", "manifest", "load"}
Plans == [policy : Policies, addr : Addrs, fw : FwVersions]
Items == FwFiles \cup MvFiles \cup Outputs \cup CompiledModules
Loaded == [name : MvFiles, bytes : Images \cup ModuleTails \cup {Torn}]
MetadataContents == [policy : Policies, addr : Addrs, modules : SUBSET Loaded]
ManifestContents == [policy : Policies, hashes : SUBSET Loaded]
OutputContents == MetadataContents \cup ManifestContents
OutputTails == [head : OutputContents, len : {"longer"}]
Contents == FwContents \cup FwTails \cup Images \cup ModuleTails
              \cup OutputContents \cup OutputTails \cup {Absent, Torn}

(* Types of the state; a framework file or a module's file holds what was  *)
(* written there, with a tail or without, nothing, or is torn.             *)
TypeInv ==
    /\ sources \in [Modules -> 1..MaxSource \cup {Absent, Broken}]
    /\ toml \in [policy : Policies, addr : Addrs] \cup {Absent}
    /\ tool \in FwVersions
    /\ disk \in [Files -> Contents]
    /\ \A f \in FwFiles : disk[f] \in FwContents \cup FwTails \cup {Absent, Torn}
    /\ \A f \in MvFiles : disk[f] \in Images \cup ModuleTails \cup {Absent, Torn}
    /\ pc \in [Procs -> Stages]
    /\ job \in [Procs -> JobNames]
    /\ env \in [Procs -> Plans]
    /\ todo \in [Procs -> SUBSET Items]
    /\ open \in [Procs -> Items \cup {Absent}]
    /\ pkg \in [Procs -> SUBSET Loaded]

(* What a process holds in each stage p: what it still has to do (td), the *)
(* file it is writing (o), and its package (k).                            *)
StageOK(p, j, td, o, k) ==
    /\ p \in {"framework", "given", "bytecode", "metadata", "manifest"} => j = "build"
    /\ p = "load" => j = "verify"
    /\ p \in {"idle", "err", "given", "framework"} => k = {}
    /\ p \in {"idle", "err", "ok", "given"} => td = {}
    /\ p \in {"idle", "err", "ok", "given", "load"} => o = Absent
    /\ p = "framework" => td \subseteq FwFiles
    /\ p = "bytecode" => td \subseteq k
    /\ p = "metadata" => td \subseteq {Metadata}
    /\ p = "manifest" => td \subseteq {Manifest}
    /\ p = "load" => td \subseteq MvFiles
    /\ o # Absent => o \in td
    /\ j = "build" => k \subseteq CompiledModules

StageInv ==
    \A b \in Procs :
        /\ StageOK(pc[b], job[b], todo[b], open[b], pkg[b])
        /\ job[b] = "build" => "build" \in Jobs[b]
        /\ pc[b] = "load" => \A f \in todo[b] : disk[f] # Absent
        /\ open[b] \in FwFiles => disk[open[b]] # Absent

IInv == TypeInv /\ StageInv

-----------------------------------------------------------------------------
(* Files and their contents.                                               *)

(* Which file an item is written to.                                       *)
LEMMA ItemFiles ==
  /\ \A x \in FwFiles : FileFor(x) = x /\ FileFor(x) \in Files
  /\ FileFor(Metadata) = Metadata /\ FileFor(Manifest) = Manifest
  /\ Metadata \in Files /\ Manifest \in Files
  /\ \A c \in CompiledModules :
       /\ FileFor(c) = c.name /\ c.name \in MvFiles /\ c.name \in Files
       /\ c.bytes \in Images /\ c \in Loaded /\ c \notin FwFiles \cup Outputs
  /\ Metadata \notin MvFiles /\ Manifest \notin MvFiles
  /\ Metadata \notin FwFiles /\ Manifest \notin FwFiles /\ Metadata # Manifest
  /\ \A x \in FwFiles : x \notin MvFiles
<1>1. \A c \in CompiledModules :
       /\ FileFor(c) = c.name /\ c.name \in MvFiles /\ c.name \in Files
       /\ c.bytes \in Images /\ c \notin FwFiles \cup Outputs
  BY TokenAssumption DEF FileFor, CompiledModules, Files
<1>2. \A c \in CompiledModules : c \in Loaded
  BY DEF CompiledModules, Loaded
<1>3. /\ \A x \in FwFiles : FileFor(x) = x /\ FileFor(x) \in Files
      /\ FileFor(Metadata) = Metadata /\ FileFor(Manifest) = Manifest
      /\ Metadata \in Files /\ Manifest \in Files
  BY DEF FileFor, Files, Outputs
<1>4. /\ Metadata \notin MvFiles /\ Manifest \notin MvFiles
      /\ Metadata \notin FwFiles /\ Manifest \notin FwFiles /\ Metadata # Manifest
      /\ \A x \in FwFiles : x \notin MvFiles
  BY FileAssumption DEF Outputs
<1> QED
  BY <1>1, <1>2, <1>3, <1>4

(* Neither a written file nor a torn one is absent.                        *)
LEMMA Present ==
  /\ Torn # Absent /\ \A c \in FwContents \cup Images : c # Absent /\ c # Torn
  /\ \A c \in FwTails \cup ModuleTails : c # Absent
  /\ \A x \in FwFiles \cup Outputs \cup CompiledModules : x # Absent
  BY TokenAssumption

-----------------------------------------------------------------------------
(* A step of one process.                                                  *)

(* A process moves and writes no file.                                     *)
LEMMA OneProcess ==
  ASSUME IInv, NEW b \in Procs,
         NEW p \in Stages, NEW j \in JobNames, NEW e \in Plans, NEW td \in SUBSET Items,
         NEW k \in SUBSET Loaded,
         pc' = [pc EXCEPT ![b] = p], job' = [job EXCEPT ![b] = j],
         env' = [env EXCEPT ![b] = e], todo' = [todo EXCEPT ![b] = td],
         open' = [open EXCEPT ![b] = Absent], pkg' = [pkg EXCEPT ![b] = k],
         UNCHANGED <<sources, toml, tool, disk>>,
         StageOK(p, j, td, Absent, k), j = "build" => "build" \in Jobs[b],
         p = "load" => \A f \in td : disk[f] # Absent
  PROVE  IInv'
<1>1. TypeInv'
  BY DEF IInv, TypeInv
<1>2. ASSUME NEW a \in Procs
      PROVE  /\ StageOK(pc'[a], job'[a], todo'[a], open'[a], pkg'[a])
             /\ job'[a] = "build" => "build" \in Jobs[a]
             /\ pc'[a] = "load" => \A f \in todo'[a] : disk'[f] # Absent
             /\ open'[a] \in FwFiles => disk'[open'[a]] # Absent
  <2>1. CASE a = b
    <3>1. pc'[a] = p /\ job'[a] = j /\ todo'[a] = td /\ open'[a] = Absent /\ pkg'[a] = k
      BY <2>1 DEF IInv, TypeInv
    <3> QED
      BY <2>1, <3>1, Present
  <2>2. CASE a # b
    <3>1. /\ pc'[a] = pc[a] /\ job'[a] = job[a] /\ todo'[a] = todo[a]
          /\ open'[a] = open[a] /\ pkg'[a] = pkg[a]
      BY <2>2 DEF IInv, TypeInv
    <3> QED
      BY <3>1 DEF IInv, StageInv
  <2> QED
    BY <2>1, <2>2
<1> QED
  BY <1>1, <1>2 DEF IInv, StageInv

(* What the invariant says of one process.                                 *)
LEMMA ProcessTypes ==
  ASSUME IInv, NEW b \in Procs
  PROVE  /\ pc[b] \in Stages /\ job[b] \in JobNames /\ env[b] \in Plans
         /\ todo[b] \in SUBSET Items /\ open[b] \in Items \cup {Absent}
         /\ pkg[b] \in SUBSET Loaded
         /\ StageOK(pc[b], job[b], todo[b], open[b], pkg[b])
         /\ job[b] = "build" => "build" \in Jobs[b]
         /\ pc = [pc EXCEPT ![b] = pc[b]] /\ job = [job EXCEPT ![b] = job[b]]
         /\ env = [env EXCEPT ![b] = env[b]] /\ todo = [todo EXCEPT ![b] = todo[b]]
         /\ open = [open EXCEPT ![b] = open[b]] /\ pkg = [pkg EXCEPT ![b] = pkg[b]]
<1>1. /\ pc[b] \in Stages /\ job[b] \in JobNames /\ env[b] \in Plans
      /\ todo[b] \in SUBSET Items /\ open[b] \in Items \cup {Absent}
      /\ pkg[b] \in SUBSET Loaded
  BY DEF IInv, TypeInv
<1>2. /\ StageOK(pc[b], job[b], todo[b], open[b], pkg[b])
      /\ job[b] = "build" => "build" \in Jobs[b]
  BY DEF IInv, StageInv
<1>3. /\ pc = [pc EXCEPT ![b] = pc[b]] /\ job = [job EXCEPT ![b] = job[b]]
      /\ env = [env EXCEPT ![b] = env[b]] /\ todo = [todo EXCEPT ![b] = todo[b]]
      /\ open = [open EXCEPT ![b] = open[b]] /\ pkg = [pkg EXCEPT ![b] = pkg[b]]
  BY DEF IInv, TypeInv
<1> QED
  BY <1>1, <1>2, <1>3

(* A job begins with what its stage demands.                               *)
LEMMA BeginKeeps ==
  ASSUME IInv, NEW b \in Procs, NEW j \in JobNames, NEW plan,
         toml # Absent => plan \in Plans,
         NEW stage \in Stages, NEW items \in SUBSET Items,
         Begin(b, j, plan, stage, items),
         StageOK(stage, j, items, Absent, {}),
         stage = "load" => \A f \in items : disk[f] # Absent
  PROVE  IInv'
<1>1. /\ open[b] = Absent /\ j \in Jobs[b]
      /\ job' = [job EXCEPT ![b] = j] /\ pkg' = [pkg EXCEPT ![b] = {}]
      /\ open' = [open EXCEPT ![b] = Absent]
      /\ UNCHANGED <<sources, toml, tool, disk>>
      /\ {} \in SUBSET Loaded /\ {} \in SUBSET Items /\ Absent \in Items \cup {Absent}
  BY ProcessTypes DEF Begin, AtRest, StageOK, world
<1>2. CASE toml = Absent
  <2>1. /\ pc' = [pc EXCEPT ![b] = "err"] /\ todo' = [todo EXCEPT ![b] = {}]
        /\ env' = [env EXCEPT ![b] = env[b]] /\ env[b] \in Plans
        /\ "err" \in Stages
    BY <1>2, ProcessTypes DEF Begin, Stages
  <2>2. StageOK("err", j, {}, Absent, {})
    BY DEF StageOK
  <2> QED
    BY <1>1, <2>1, <2>2, OneProcess
<1>3. CASE toml # Absent
  <2>1. /\ pc' = [pc EXCEPT ![b] = stage] /\ todo' = [todo EXCEPT ![b] = items]
        /\ env' = [env EXCEPT ![b] = plan] /\ plan \in Plans
    BY <1>3 DEF Begin
  <2> QED
    BY <1>1, <2>1, OneProcess
<1> QED
  BY <1>2, <1>3

(* A process takes up a build or a load.                                   *)
LEMMA StartKeeps ==
  ASSUME IInv, NEW b \in Procs, Start(b)
  PROVE  IInv'
<1>1. \A cli \in Addrs \cup {NoAddr} : toml # Absent => PlanFor(cli) \in Plans
  BY DEF PlanFor, Plans, IInv, TypeInv
<1>2. ASSUME NEW cli \in Addrs \cup {NoAddr}, StartBuild(b, cli) PROVE IInv'
  <2>1. StageOK("framework", "build", FwFiles, Absent, {})
    BY DEF StageOK
  <2>2. "framework" \in Stages /\ "build" \in JobNames /\ FwFiles \in SUBSET Items
    BY DEF Stages, JobNames, Items
  <2> QED
    BY <1>1, <1>2, <2>1, <2>2, BeginKeeps DEF StartBuild
<1>3. ASSUME NEW cli \in Addrs \cup {NoAddr}, StartBuildGiven(b, cli) PROVE IInv'
  <2>1. StageOK("given", "build", {}, Absent, {})
    BY DEF StageOK
  <2>2. "given" \in Stages /\ "build" \in JobNames /\ {} \in SUBSET Items
    BY DEF Stages, JobNames
  <2> QED
    BY <1>1, <1>3, <2>1, <2>2, BeginKeeps DEF StartBuildGiven
<1>4. CASE StartLoad(b)
  <2> DEFINE listed == {f \in MvFiles : disk[f] # Absent}
  <2>1. StageOK("load", "verify", listed, Absent, {})
    BY DEF StageOK
  <2>2. /\ "load" \in Stages /\ "verify" \in JobNames /\ listed \in SUBSET Items
        /\ \A f \in listed : disk[f] # Absent
    BY DEF Stages, JobNames, Items
  <2>3. Begin(b, "verify", env[b], "load", listed) /\ env[b] \in Plans
    BY <1>4, ProcessTypes DEF StartLoad
  <2> HIDE DEF listed
  <2> QED
    BY <2>1, <2>2, <2>3, BeginKeeps
<1> QED
  BY <1>2, <1>3, <1>4 DEF Start

(* What a process writes goes to the right kind of file.                   *)
LEMMA WrittenItem ==
  ASSUME IInv, NEW b \in Procs, Writing(b), NEW x \in todo[b]
  PROVE  /\ x # Absent /\ x \in Items /\ FileFor(x) \in Files
         /\ BytesFor(b, x) \in Contents /\ Torn \in Contents
         /\ FileFor(x) \in FwFiles => BytesFor(b, x) \in FwContents
         /\ FileFor(x) \in MvFiles => BytesFor(b, x) \in Images
         /\ FileFor(x) \in Outputs => BytesFor(b, x) \in OutputContents
         /\ pc[b] = "framework" => x \in FwFiles /\ BytesFor(b, x) = FwFile(env[b].fw)
         /\ pc[b] = "bytecode" => x \in pkg[b] /\ x \in CompiledModules
                                  /\ BytesFor(b, x) = x.bytes
         /\ pc[b] = "metadata" => x = Metadata /\ BytesFor(b, x) = MetadataOf(pkg[b], env[b])
         /\ pc[b] = "manifest" => x = Manifest /\ BytesFor(b, x) = ManifestOf(pkg[b], env[b])
<1>1. /\ StageOK(pc[b], job[b], todo[b], open[b], pkg[b])
      /\ env[b] \in Plans /\ pkg[b] \in SUBSET Loaded /\ x \in Items
  BY ProcessTypes
<1>2. Torn \in Contents /\ FwContents \subseteq Contents /\ Images \subseteq Contents
  BY DEF Contents
<1>7. \A f \in FwFiles \cup MvFiles : f \notin Outputs
  BY FileAssumption DEF Outputs
<1>3. CASE pc[b] = "framework"
  <2>1. x \in FwFiles
    BY <1>1, <1>3 DEF StageOK
  <2>2. BytesFor(b, x) = FwFile(env[b].fw) /\ BytesFor(b, x) \in FwContents
    BY <1>1, <2>1 DEF BytesFor, FwContents, Plans
  <2> QED
    BY <1>1, <1>2, <1>3, <1>7, <2>1, <2>2, ItemFiles, Present
<1>4. CASE pc[b] = "bytecode"
  <2>1. x \in pkg[b] /\ x \in CompiledModules
    BY <1>1, <1>4 DEF StageOK
  <2>2. BytesFor(b, x) = x.bytes /\ x.bytes \in Images
    BY <2>1, ItemFiles DEF BytesFor, Outputs
  <2> QED
    BY <1>1, <1>2, <1>4, <1>7, <2>1, <2>2, ItemFiles, Present
<1>5. CASE pc[b] = "metadata"
  <2>1. x = Metadata
    BY <1>1, <1>5 DEF StageOK
  <2>2. BytesFor(b, x) = MetadataOf(pkg[b], env[b])
    BY <2>1, ItemFiles DEF BytesFor
  <2>3. MetadataOf(pkg[b], env[b]) \in OutputContents /\ OutputContents \subseteq Contents
    BY <1>1 DEF MetadataOf, Contents, OutputContents, MetadataContents, Plans
  <2> QED
    BY <1>1, <1>2, <1>5, <2>1, <2>2, <2>3, ItemFiles, Present DEF Outputs
<1>6. CASE pc[b] = "manifest"
  <2>1. x = Manifest
    BY <1>1, <1>6 DEF StageOK
  <2>2. BytesFor(b, x) = ManifestOf(pkg[b], env[b])
    BY <2>1, ItemFiles DEF BytesFor
  <2>3. ManifestOf(pkg[b], env[b]) \in OutputContents /\ OutputContents \subseteq Contents
    BY <1>1 DEF ManifestOf, Contents, OutputContents, ManifestContents, Plans
  <2> QED
    BY <1>1, <1>2, <1>6, <2>1, <2>2, <2>3, ItemFiles, Present DEF Outputs
<1> QED
  BY <1>3, <1>4, <1>5, <1>6 DEF Writing

(* A process writes a file, and goes on with it.                           *)
LEMMA OneWrite ==
  ASSUME IInv, NEW b \in Procs, NEW f \in Files, NEW c \in Contents,
         f \in FwFiles => c \in FwContents \cup FwTails \cup {Torn},
         f \in MvFiles => c \in Images \cup ModuleTails \cup {Torn},
         NEW td \in SUBSET Items, NEW o \in Items \cup {Absent},
         disk' = [disk EXCEPT ![f] = c],
         todo' = [todo EXCEPT ![b] = td], open' = [open EXCEPT ![b] = o],
         UNCHANGED <<sources, toml, tool, pc, job, env, pkg>>,
         Writing(b), StageOK(pc[b], job[b], td, o, pkg[b]), o # Absent => f = FileFor(o)
  PROVE  IInv'
<1>0. FwFiles \subseteq Files /\ MvFiles \subseteq Files
  BY DEF Files
<1>1. TypeInv'
  <2>1. disk' \in [Files -> Contents]
    BY DEF IInv, TypeInv
  <2>2. \A g \in FwFiles : disk'[g] \in FwContents \cup FwTails \cup {Absent, Torn}
    BY <1>0 DEF IInv, TypeInv
  <2>3. \A g \in MvFiles : disk'[g] \in Images \cup ModuleTails \cup {Absent, Torn}
    BY <1>0 DEF IInv, TypeInv
  <2>4. todo' \in [Procs -> SUBSET Items] /\ open' \in [Procs -> Items \cup {Absent}]
    BY DEF IInv, TypeInv
  <2> QED
    BY <2>1, <2>2, <2>3, <2>4 DEF IInv, TypeInv
<1>2. \A g \in FwFiles \cup MvFiles : disk[g] # Absent => disk'[g] # Absent
  BY <1>0, Present DEF IInv, TypeInv
<1>3. ASSUME NEW a \in Procs
      PROVE  /\ StageOK(pc'[a], job'[a], todo'[a], open'[a], pkg'[a])
             /\ job'[a] = "build" => "build" \in Jobs[a]
             /\ pc'[a] = "load" => \A g \in todo'[a] : disk'[g] # Absent
             /\ open'[a] \in FwFiles => disk'[open'[a]] # Absent
  <2>1. CASE a = b
    <3>1. todo'[a] = td /\ open'[a] = o /\ pc'[a] = pc[b]
      BY <2>1 DEF IInv, TypeInv
    <3>2. pc[b] # "load"
      BY DEF Writing
    <3>3. o \in FwFiles => disk'[o] # Absent
      <4> SUFFICES ASSUME o \in FwFiles PROVE disk'[o] # Absent
        OBVIOUS
      <4>1. o = f
        BY ItemFiles, Present
      <4> QED
        BY <1>0, <4>1, Present DEF IInv, TypeInv
    <3> QED
      BY <2>1, <3>1, <3>2, <3>3, ProcessTypes
  <2>2. CASE a # b
    <3>1. todo'[a] = todo[a] /\ open'[a] = open[a]
      BY <2>2 DEF IInv, TypeInv
    <3>2. /\ pc[a] = "load" => todo[a] \subseteq MvFiles /\ \A g \in todo[a] : disk[g] # Absent
          /\ open[a] \in FwFiles => disk[open[a]] # Absent
      BY DEF IInv, StageInv, StageOK
    <3> QED
      BY <1>2, <3>1, <3>2, ProcessTypes
  <2> QED
    BY <2>1, <2>2
<1> QED
  BY <1>1, <1>3 DEF IInv, StageInv

(* fs::write opens and truncates its file.                                 *)
LEMMA OpenKeeps ==
  ASSUME IInv, NEW b \in Procs, NEW x \in todo[b], OpenFile(b, x)
  PROVE  IInv'
<1>1. /\ Writing(b) /\ open[b] = Absent
      /\ UNCHANGED <<sources, toml, tool, pc, job, env, pkg>>
  BY DEF OpenFile, world
<1>2. StageOK(pc[b], job[b], todo[b], open[b], pkg[b]) /\ todo[b] \in SUBSET Items
  BY ProcessTypes
<1>3. CASE pc[b] = "framework" /\ ~NeedsWrite(b, x)
  <2> DEFINE td == todo[b] \ {x}
  <2>1. /\ todo' = [todo EXCEPT ![b] = td] /\ UNCHANGED <<disk, open>>
    BY <1>3 DEF OpenFile
  <2>2. td \in SUBSET Items /\ StageOK(pc[b], job[b], td, Absent, pkg[b])
    BY <1>1, <1>2 DEF StageOK
  <2>3. pc[b] # "load"
    BY <1>3
  <2> HIDE DEF td
  <2> DEFINE p == pc[b]
             j == job[b]
             e == env[b]
             k == pkg[b]
  <2>4. /\ Absent \in Items \cup {Absent} /\ open' = [open EXCEPT ![b] = Absent]
        /\ pc' = [pc EXCEPT ![b] = p] /\ job' = [job EXCEPT ![b] = j]
        /\ env' = [env EXCEPT ![b] = e] /\ pkg' = [pkg EXCEPT ![b] = k]
        /\ UNCHANGED <<sources, toml, tool, disk>>
    BY <1>1, <2>1, ProcessTypes
  <2>5. /\ p \in Stages /\ j \in JobNames /\ e \in Plans
        /\ k \in SUBSET Loaded /\ (j = "build" => "build" \in Jobs[b])
    BY ProcessTypes
  <2>6. StageOK(p, j, td, Absent, k) /\ (p = "load" => \A f \in td : disk[f] # Absent)
    BY <2>2, <2>3
  <2> HIDE DEF p, j, e, k
  <2> QED
    BY <2>1, <2>2, <2>4, <2>5, <2>6, OneProcess
<1>4. CASE ~(pc[b] = "framework" /\ ~NeedsWrite(b, x))
  <2>1. /\ disk' = [disk EXCEPT ![FileFor(x)] = Torn]
        /\ open' = [open EXCEPT ![b] = x]
        /\ todo' = [todo EXCEPT ![b] = todo[b]]
    BY <1>4, ProcessTypes DEF OpenFile
  <2>2. StageOK(pc[b], job[b], todo[b], x, pkg[b])
    BY <1>1, <1>2 DEF StageOK, Writing
  <2>3. FileFor(x) \in Files /\ Torn \in Contents /\ x \in Items
    BY <1>1, WrittenItem
  <2> QED
    BY <1>1, <1>2, <2>1, <2>2, <2>3, OneWrite
<1> QED
  BY <1>3, <1>4

(* A whole framework file has the length of its version.                   *)
LEMMA FrameworkLength ==
  ASSUME NEW d \in FwContents
  PROVE  /\ d.fw \in FwVersions /\ FileLen(d) = SizeOf[d.fw]
         /\ FileLen(d) \in Nat /\ ~(FileLen(Torn) > FileLen(d))
<1>1. PICK v \in FwVersions : d = FwFile(v)
  BY DEF FwContents
<1>2. d.fw = v /\ d # Torn
  BY <1>1, Present DEF FwFile
<1>3. SizeOf[v] \in Nat
  BY VersionAssumption
<1> QED
  BY <1>2, <1>3 DEF FileLen

(* What is over what another process wrote is of the file's kind.          *)
LEMMA OverlayKinds ==
  ASSUME IInv, NEW f \in Files, NEW new, NEW c \in Overlay(f, disk[f], new),
         f \in FwFiles => new \in FwContents /\ disk[f] # Absent,
         f \in MvFiles => new \in Images,
         f \in Outputs => new \in OutputContents
  PROVE  /\ f \in FwFiles => c \in FwContents \cup FwTails
         /\ f \in MvFiles => c \in Images \cup ModuleTails
         /\ c \in Contents
<1>1. CASE f \in FwFiles
  <2>1. disk[f] \in FwContents \cup FwTails \cup {Torn} /\ new \in FwContents
    BY <1>1 DEF IInv, TypeInv
  <2>2. \A d \in FwContents : SizeOf[d.fw] \in {SizeOf[v] : v \in FwVersions}
    BY DEF FwContents, FwFile
  <2>3. /\ FileLen(disk[f]) \in {SizeOf[v] : v \in FwVersions} \cup {0}
        /\ FileLen(new) = SizeOf[new.fw] /\ FileLen(new) \in Nat
    <3>1. FileLen(disk[f]) \in {SizeOf[v] : v \in FwVersions} \cup {0}
      BY <2>1, <2>2 DEF FileLen, FwTails
    <3>2. new # Torn /\ new.fw \in FwVersions
      BY <2>1, Present DEF FwContents, FwFile
    <3> QED
      BY <2>1, <3>1, <3>2, VersionAssumption DEF FileLen
  <2>4. FileLen(disk[f]) > FileLen(new) => WithTail(new, FileLen(disk[f])) \in FwTails
    BY <2>1, <2>3 DEF WithTail, FwTails
  <2>5. c \in FwContents \cup FwTails
    BY <1>1, <2>1, <2>4 DEF Overlay
  <2>6. f \notin MvFiles
    BY <1>1, FileAssumption
  <2> QED
    BY <2>5, <2>6 DEF Contents
<1>2. CASE f \in MvFiles
  <2>1. f \notin FwFiles /\ new \in Images
    BY <1>2, FileAssumption
  <2>2. WithTail(new, "longer") \in ModuleTails
    BY <2>1 DEF WithTail, ModuleTails
  <2>3. c \in {new, WithTail(new, "longer")}
    BY <2>1 DEF Overlay
  <2> QED
    BY <2>1, <2>2, <2>3 DEF Contents
<1>3. CASE f \in Outputs
  <2>1. f \notin FwFiles /\ f \notin MvFiles /\ new \in OutputContents
    BY <1>3, FileAssumption
  <2>2. WithTail(new, "longer") \in OutputTails
    BY <2>1 DEF WithTail, OutputTails
  <2>3. c \in {new, WithTail(new, "longer")}
    BY <2>1 DEF Overlay
  <2> QED
    BY <2>1, <2>2, <2>3 DEF Contents
<1> QED
  BY <1>1, <1>2, <1>3 DEF Files

(* fs::write writes what the stage makes.                                  *)
LEMMA WriteKeeps ==
  ASSUME IInv, NEW b \in Procs, WriteFile(b)
  PROVE  IInv'
<1> DEFINE x == open[b]
           td == todo[b] \ {x}
<1>1. /\ Writing(b) /\ x # Absent
      /\ UNCHANGED <<sources, toml, tool, pc, job, env, pkg>>
      /\ todo' = [todo EXCEPT ![b] = td]
      /\ open' = [open EXCEPT ![b] = Absent]
  BY DEF WriteFile, world
<1>2. PICK c \in Overlay(FileFor(x), disk[FileFor(x)], BytesFor(b, x)) :
        disk' = [disk EXCEPT ![FileFor(x)] = c]
  BY DEF WriteFile
<1>3. StageOK(pc[b], job[b], todo[b], x, pkg[b]) /\ todo[b] \in SUBSET Items
  BY ProcessTypes
<1>4. x \in todo[b]
  BY <1>1, <1>3 DEF StageOK
<1>5. /\ FileFor(x) \in Files /\ c \in Contents
      /\ FileFor(x) \in FwFiles => c \in FwContents \cup FwTails
      /\ FileFor(x) \in MvFiles => c \in Images \cup ModuleTails
  <2>0. ASSUME FileFor(x) \in FwFiles PROVE disk[FileFor(x)] # Absent
    <3>1. pc[b] = "framework"
      BY <1>1, <1>4, <2>0, WrittenItem, ItemFiles DEF Writing
    <3>2. x \in FwFiles /\ FileFor(x) = x
      BY <1>1, <1>4, <3>1, WrittenItem, ItemFiles
    <3> QED
      BY <3>2 DEF IInv, StageInv
  <2>1. /\ FileFor(x) \in Files
        /\ FileFor(x) \in FwFiles => BytesFor(b, x) \in FwContents /\ disk[FileFor(x)] # Absent
        /\ FileFor(x) \in MvFiles => BytesFor(b, x) \in Images
        /\ FileFor(x) \in Outputs => BytesFor(b, x) \in OutputContents
    BY <1>1, <1>4, <2>0, WrittenItem
  <2> QED
    BY <1>2, <2>1, OverlayKinds
<1>6. /\ td \in SUBSET Items /\ Absent \in Items \cup {Absent}
      /\ StageOK(pc[b], job[b], td, Absent, pkg[b])
  BY <1>3 DEF StageOK
<1> HIDE DEF x, td
<1> QED
  BY <1>1, <1>2, <1>5, <1>6, OneWrite

(* What the compiler makes are modules.                                    *)
LEMMA CompiledType ==
  ASSUME IInv, NEW b \in Procs, NEW v \in FwVersions \cup {Given}, CompilesWith(v)
  PROVE  CompiledFor(b, v) \subseteq CompiledModules
<1> SUFFICES ASSUME NEW m \in Modules, sources[m] # Absent
             PROVE  [name |-> FileOf[m],
                     bytes |-> [mod |-> m, src |-> sources[m], addr |-> env[b].addr, fw |-> v]]
                      \in CompiledModules
  BY DEF CompiledFor
<1>1. sources[m] \in 1..MaxSource
  BY DEF CompilesWith, IInv, TypeInv
<1>2. env[b].addr \in Addrs
  BY ProcessTypes DEF Plans
<1>3. FileOf[m] \in MvFiles
  BY FileAssumption
<1> QED
  BY <1>1, <1>2, <1>3 DEF CompiledModules, Images

(* The compiler runs, or refuses.                                          *)
LEMMA CompileKeeps ==
  ASSUME IInv, NEW b \in Procs, Compile(b)
  PROVE  IInv'
<1> DEFINE j == job[b]
           e == env[b]
<1>1. /\ pc[b] \in {"framework", "given"} /\ todo[b] = {} /\ open[b] = Absent
      /\ UNCHANGED <<sources, toml, tool, disk, job, env, open>>
      /\ open' = [open EXCEPT ![b] = Absent]
  BY ProcessTypes DEF Compile, world
<1>2. StageOK(pc[b], j, {}, Absent, pkg[b]) /\ j = "build" /\ pkg[b] = {}
  BY <1>1, ProcessTypes DEF StageOK
<1>3. /\ j \in JobNames /\ e \in Plans /\ "build" \in Jobs[b]
      /\ job' = [job EXCEPT ![b] = j] /\ env' = [env EXCEPT ![b] = e]
      /\ Absent \in Items \cup {Absent} /\ "bytecode" \in Stages /\ "err" \in Stages
      /\ {} \in SUBSET Items /\ {} \in SUBSET Loaded
      /\ open' = [open EXCEPT ![b] = Absent] /\ UNCHANGED <<sources, toml, tool, disk>>
  BY <1>1, <1>2, ProcessTypes DEF Stages
<1> HIDE DEF j, e
<1>4. ASSUME NEW v \in FrameworkSeen(b), CompilesWith(v),
             pkg' = [pkg EXCEPT ![b] = CompiledFor(b, v)],
             todo' = [todo EXCEPT ![b] = CompiledFor(b, v)],
             pc' = [pc EXCEPT ![b] = "bytecode"]
      PROVE  IInv'
  <2> DEFINE k == CompiledFor(b, v)
  <2>1. k \subseteq CompiledModules
    BY <1>4, CompiledType DEF CompilesWith
  <2>2. k \in SUBSET Items /\ k \in SUBSET Loaded
    BY <2>1, ItemFiles DEF Items
  <2>3. StageOK("bytecode", j, k, Absent, k)
    BY <1>2, <2>1 DEF StageOK
  <2>4. pkg' = [pkg EXCEPT ![b] = k] /\ todo' = [todo EXCEPT ![b] = k]
    BY <1>4
  <2> HIDE DEF k
  <2> QED
    BY <1>3, <1>4, <2>2, <2>3, <2>4, OneProcess
<1>5. ASSUME pc' = [pc EXCEPT ![b] = "err"], UNCHANGED <<pkg, todo>> PROVE IInv'
  <2>1. pkg' = [pkg EXCEPT ![b] = {}] /\ todo' = [todo EXCEPT ![b] = {}]
    BY <1>1, <1>2, <1>5, ProcessTypes
  <2>2. StageOK("err", j, {}, Absent, {})
    BY DEF StageOK
  <2> QED
    BY <1>3, <1>5, <2>1, <2>2, OneProcess
<1> QED
  BY <1>4, <1>5 DEF Compile

(* All files of a stage are written: the next one begins.                  *)
LEMMA AfterStageKeeps ==
  ASSUME IInv, NEW b \in Procs, AfterStage(b)
  PROVE  IInv'
<1> DEFINE j == job[b]
           e == env[b]
           k == pkg[b]
<1>1. /\ pc[b] \in {"bytecode", "metadata", "manifest"} /\ todo[b] = {} /\ open[b] = Absent
      /\ StageOK(pc[b], j, {}, Absent, k)
  BY ProcessTypes DEF AfterStage
<1>2. k \subseteq CompiledModules /\ j = "build"
  BY <1>1 DEF StageOK
<1>3. /\ j \in JobNames /\ e \in Plans /\ "build" \in Jobs[b] /\ k \in SUBSET Loaded
      /\ job' = [job EXCEPT ![b] = j] /\ env' = [env EXCEPT ![b] = e]
      /\ pkg' = [pkg EXCEPT ![b] = k] /\ open' = [open EXCEPT ![b] = Absent]
      /\ UNCHANGED <<sources, toml, tool, disk>> /\ Absent \in Items \cup {Absent}
  BY <1>1, <1>2, ProcessTypes DEF AfterStage, world
<1>4. /\ {"metadata", "manifest", "ok"} \subseteq Stages
      /\ {Metadata} \in SUBSET Items /\ {Manifest} \in SUBSET Items /\ {} \in SUBSET Items
  BY DEF Stages, Items, Outputs
<1> HIDE DEF j, e, k
<1>5. CASE pc[b] = "bytecode"
  <2>1. pc' = [pc EXCEPT ![b] = "metadata"] /\ todo' = [todo EXCEPT ![b] = {Metadata}]
    BY <1>5 DEF AfterStage
  <2>2. StageOK("metadata", j, {Metadata}, Absent, k)
    BY <1>2 DEF StageOK
  <2> QED
    BY <1>3, <1>4, <2>1, <2>2, OneProcess
<1>6. CASE pc[b] = "metadata"
  <2>1. pc' = [pc EXCEPT ![b] = "manifest"] /\ todo' = [todo EXCEPT ![b] = {Manifest}]
    BY <1>6 DEF AfterStage
  <2>2. StageOK("manifest", j, {Manifest}, Absent, k)
    BY <1>2 DEF StageOK
  <2> QED
    BY <1>3, <1>4, <2>1, <2>2, OneProcess
<1>7. CASE pc[b] = "manifest"
  <2>1. pc' = [pc EXCEPT ![b] = "ok"] /\ todo' = [todo EXCEPT ![b] = {}]
    BY <1>7 DEF AfterStage
  <2>2. StageOK("ok", j, {}, Absent, k)
    BY <1>2 DEF StageOK
  <2> QED
    BY <1>3, <1>4, <2>1, <2>2, OneProcess
<1> QED
  BY <1>1, <1>5, <1>6, <1>7

(* The loader reads one of the files it has listed.                        *)
LEMMA ReadKeeps ==
  ASSUME IInv, NEW b \in Procs, NEW f \in todo[b], ReadModule(b, f)
  PROVE  IInv'
<1> DEFINE j == job[b]
           e == env[b]
           k == pkg[b] \cup {[name |-> f, bytes |-> disk[f]]}
           td == todo[b] \ {f}
<1>1. pc[b] = "load" /\ StageOK("load", j, todo[b], open[b], pkg[b])
  BY ProcessTypes DEF ReadModule
<1>2. open[b] = Absent /\ j = "verify" /\ todo[b] \subseteq MvFiles
  BY <1>1 DEF StageOK
<1>3. \A g \in todo[b] : disk[g] # Absent
  BY <1>1 DEF IInv, StageInv
<1>4. disk[f] \in Images \cup ModuleTails \cup {Torn}
  BY <1>2, <1>3 DEF IInv, TypeInv
<1>5. [name |-> f, bytes |-> disk[f]] \in Loaded
  BY <1>2, <1>4 DEF Loaded
<1>6. /\ j \in JobNames /\ e \in Plans /\ k \in SUBSET Loaded /\ td \in SUBSET Items
      /\ (j = "build" => "build" \in Jobs[b])
      /\ job' = [job EXCEPT ![b] = j] /\ env' = [env EXCEPT ![b] = e]
      /\ pkg' = [pkg EXCEPT ![b] = k] /\ open' = [open EXCEPT ![b] = Absent]
      /\ todo' = [todo EXCEPT ![b] = td] /\ pc' = [pc EXCEPT ![b] = "load"]
      /\ UNCHANGED <<sources, toml, tool, disk>> /\ Absent \in Items \cup {Absent}
      /\ "load" \in Stages
  BY <1>1, <1>2, <1>5, ProcessTypes DEF ReadModule, world, Stages
<1>7. StageOK("load", j, td, Absent, k) /\ \A g \in td : disk[g] # Absent
  BY <1>2, <1>3 DEF StageOK
<1> HIDE DEF j, e, k, td
<1> QED
  BY <1>6, <1>7, OneProcess

(* All are read: the verified backend returns them, or an error.           *)
LEMMA EndLoadKeeps ==
  ASSUME IInv, NEW b \in Procs, EndLoad(b)
  PROVE  IInv'
<1> DEFINE j == job[b]
           e == env[b]
           k == pkg[b]
<1>1. /\ pc[b] = "load" /\ todo[b] = {} /\ open[b] = Absent /\ k \in SUBSET Loaded
      /\ j = "verify"
  BY ProcessTypes DEF EndLoad, StageOK
<1>2. /\ j \in JobNames /\ e \in Plans /\ (j = "build" => "build" \in Jobs[b])
      /\ job' = [job EXCEPT ![b] = j] /\ env' = [env EXCEPT ![b] = e]
      /\ open' = [open EXCEPT ![b] = Absent] /\ todo' = [todo EXCEPT ![b] = {}]
      /\ UNCHANGED <<sources, toml, tool, disk>> /\ Absent \in Items \cup {Absent}
      /\ {} \in SUBSET Items /\ {} \in SUBSET Loaded /\ "ok" \in Stages /\ "err" \in Stages
  BY <1>1, ProcessTypes DEF EndLoad, world, Stages
<1>3. CASE k # {} /\ Verifies(b)
  <2>1. pc' = [pc EXCEPT ![b] = "ok"] /\ pkg' = [pkg EXCEPT ![b] = k]
    BY <1>3, ProcessTypes DEF EndLoad
  <2>2. StageOK("ok", j, {}, Absent, k)
    BY <1>1 DEF StageOK
  <2> HIDE DEF j, e, k
  <2> QED
    BY <1>1, <1>2, <2>1, <2>2, OneProcess
<1>4. CASE ~(k # {} /\ Verifies(b))
  <2>1. pc' = [pc EXCEPT ![b] = "err"] /\ pkg' = [pkg EXCEPT ![b] = {}]
    BY <1>4 DEF EndLoad
  <2>2. StageOK("err", j, {}, Absent, {})
    BY DEF StageOK
  <2> HIDE DEF j, e, k
  <2> QED
    BY <1>2, <2>1, <2>2, OneProcess
<1> QED
  BY <1>3, <1>4

(* A process fails or dies, leaving the files as they are.                 *)
LEMMA FailKeeps ==
  ASSUME IInv, NEW b \in Procs, Fail(b)
  PROVE  IInv'
<1> DEFINE j == job[b]
           e == env[b]
<1>1. PICK end \in {"idle", "err"} : pc' = [pc EXCEPT ![b] = end]
  BY DEF Fail
<1>2. /\ j \in JobNames /\ e \in Plans /\ (j = "build" => "build" \in Jobs[b])
      /\ job' = [job EXCEPT ![b] = j] /\ env' = [env EXCEPT ![b] = e]
      /\ open' = [open EXCEPT ![b] = Absent] /\ todo' = [todo EXCEPT ![b] = {}]
      /\ pkg' = [pkg EXCEPT ![b] = {}]
      /\ UNCHANGED <<sources, toml, tool, disk>> /\ Absent \in Items \cup {Absent}
      /\ {} \in SUBSET Items /\ {} \in SUBSET Loaded /\ end \in Stages /\ end # "load"
  BY ProcessTypes DEF Fail, world, Stages
<1>3. StageOK(end, j, {}, Absent, {})
  BY DEF StageOK
<1> HIDE DEF j, e
<1> QED
  BY <1>1, <1>2, <1>3, OneProcess

(* The developer edits, or installs another tool.                          *)
LEMMA DeveloperKeeps ==
  ASSUME IInv, Developer
  PROVE  IInv'
<1>1. UNCHANGED <<disk, pc, job, env, todo, open, pkg>>
  BY DEF Developer, EditSource, EditToml, InstallTool, procVars
<1>2. /\ sources' \in [Modules -> 1..MaxSource \cup {Absent, Broken}]
      /\ toml' \in [policy : Policies, addr : Addrs] \cup {Absent}
      /\ tool' \in FwVersions
  <2>1. ASSUME NEW m \in Modules, NEW s \in 1..MaxSource \cup {Absent, Broken}, EditSource(m, s)
        PROVE  /\ sources' \in [Modules -> 1..MaxSource \cup {Absent, Broken}]
               /\ toml' = toml /\ tool' = tool
    BY <2>1 DEF EditSource, IInv, TypeInv
  <2>2. ASSUME NEW v \in [policy : Policies, addr : Addrs] \cup {Absent}, EditToml(v)
        PROVE  toml' = v /\ sources' = sources /\ tool' = tool
    BY <2>2 DEF EditToml
  <2>3. ASSUME NEW v \in FwVersions, InstallTool(v)
        PROVE  tool' = v /\ sources' = sources /\ toml' = toml
    BY <2>3 DEF InstallTool
  <2>4. /\ sources \in [Modules -> 1..MaxSource \cup {Absent, Broken}]
        /\ toml \in [policy : Policies, addr : Addrs] \cup {Absent}
        /\ tool \in FwVersions
    BY DEF IInv, TypeInv
  <2> QED
    BY <2>1, <2>2, <2>3, <2>4 DEF Developer
<1>3. TypeInv'
  BY <1>1, <1>2 DEF IInv, TypeInv
<1>4. StageInv'
  BY <1>1 DEF IInv, StageInv
<1> QED
  BY <1>3, <1>4 DEF IInv

(* The invariant holds of the directories there can be at first.           *)
LEMMA InitInv == Init => IInv
<1> SUFFICES ASSUME Init PROVE IInv
  OBVIOUS
<1>1. 1 \in 1..MaxSource
  BY VersionAssumption
<1>2. /\ sources \in [Modules -> 1..MaxSource \cup {Absent, Broken}]
      /\ toml \in [policy : Policies, addr : Addrs]
      /\ tool \in FwVersions
  BY <1>1 DEF Init
<1>3. /\ disk \in [Files -> Contents]
      /\ \A f \in FwFiles : disk[f] \in FwContents \cup FwTails \cup {Absent, Torn}
      /\ \A f \in MvFiles : disk[f] \in Images \cup ModuleTails \cup {Absent, Torn}
  BY DEF Init, Files, Contents
<1>4. /\ pc \in [Procs -> Stages] /\ job \in [Procs -> JobNames]
      /\ todo \in [Procs -> SUBSET Items] /\ open \in [Procs -> Items \cup {Absent}]
      /\ pkg \in [Procs -> SUBSET Loaded]
  BY DEF Init, Stages, JobNames
<1>5. env \in [Procs -> Plans]
  BY <1>2 DEF Init, Plans
<1>6. ASSUME NEW b \in Procs
      PROVE  /\ StageOK(pc[b], job[b], todo[b], open[b], pkg[b])
             /\ job[b] = "build" => "build" \in Jobs[b]
             /\ pc[b] = "load" => \A f \in todo[b] : disk[f] # Absent
             /\ open[b] \in FwFiles => disk[open[b]] # Absent
  BY Present DEF Init, StageOK
<1> QED
  BY <1>2, <1>3, <1>4, <1>5, <1>6 DEF IInv, TypeInv, StageInv

(* Every step of every process, and of the developer, keeps it.            *)
LEMMA NextInv == IInv /\ [Next]_vars => IInv'
<1> SUFFICES ASSUME IInv, [Next]_vars PROVE IInv'
  OBVIOUS
<1>1. ASSUME NEW b \in Procs, Step(b) PROVE IInv'
  BY <1>1, OpenKeeps, WriteKeeps, CompileKeeps, AfterStageKeeps, ReadKeeps, EndLoadKeeps
     DEF Step
<1>2. CASE UNCHANGED vars
  BY <1>2 DEF vars, IInv, TypeInv, StageInv
<1> QED
  BY <1>1, <1>2, StartKeeps, FailKeeps, DeveloperKeeps DEF Next

(* Types and stages.                                                       *)
THEOREM Invariance == Spec => []IInv
  BY InitInv, NextInv, PTL DEF Spec

-----------------------------------------------------------------------------
(* One process builds at a time.                                           *)

OneBuilder ==
    \A a, b \in Procs : "build" \in Jobs[a] /\ "build" \in Jobs[b] => a = b

(* Modules of one package have different names; the length of a framework  *)
(* file tells the version of the framework.                                *)
NamesDiffer == \A m, n \in Modules : FileOf[m] = FileOf[n] => m = n
SizesTell == \A v, w \in FwVersions : SizeOf[v] = SizeOf[w] => v = w

(* What the builder has written is on disk.                                *)
ArtifactSoFar(p, e, td, k, d) ==
    /\ \A c, c2 \in k : c.name = c2.name => c = c2
    /\ \A c \in k : c \notin td => d[c.name] = c.bytes
    /\ p \in {"manifest", "ok"} \/ (p = "metadata" /\ Metadata \notin td) =>
         d[Metadata] = MetadataOf(k, e)
    /\ p = "ok" \/ (p = "manifest" /\ Manifest \notin td) =>
         d[Manifest] = ManifestOf(k, e)

(* The framework files it has passed are its own, and so is the framework  *)
(* its modules were compiled against.                                      *)
FrameworkSoFar(p, e, td, k, d) ==
    /\ p = "framework" => \A f \in FwFiles : f \notin td => d[f] = FwFile(e.fw)
    /\ \A c \in k : c.bytes.fw \in {e.fw, Given}

(* The file it is writing is the one it truncated.                         *)
BuilderOK(p, e, td, o, k, d) ==
    /\ o # Absent => d[FileFor(o)] = Torn
    /\ NamesDiffer => ArtifactSoFar(p, e, td, k, d)
    /\ SizesTell => FrameworkSoFar(p, e, td, k, d)

(* No framework file ends with a tail of what another process wrote.       *)
NoTails == \A f \in FwFiles : disk[f] \in FwContents \cup {Absent, Torn}

BuilderInv ==
    /\ NoTails
    /\ \A b \in Procs : job[b] = "build" =>
          BuilderOK(pc[b], env[b], todo[b], open[b], pkg[b], disk)

(* A process leaves the others alone.                                      *)
LEMMA OthersStay ==
  ASSUME IInv, NEW b \in Procs, Start(b) \/ Step(b) \/ Fail(b), NEW a \in Procs, a # b
  PROVE  /\ pc'[a] = pc[a] /\ job'[a] = job[a] /\ env'[a] = env[a]
         /\ todo'[a] = todo[a] /\ open'[a] = open[a] /\ pkg'[a] = pkg[a]
<1> DEFINE Same == /\ pc'[a] = pc[a] /\ job'[a] = job[a] /\ env'[a] = env[a]
                   /\ todo'[a] = todo[a] /\ open'[a] = open[a] /\ pkg'[a] = pkg[a]
<1>0. /\ pc \in [Procs -> Stages] /\ job \in [Procs -> JobNames]
      /\ env \in [Procs -> Plans] /\ todo \in [Procs -> SUBSET Items]
      /\ open \in [Procs -> Items \cup {Absent}] /\ pkg \in [Procs -> SUBSET Loaded]
  BY DEF IInv, TypeInv
<1>1. ASSUME NEW j, NEW plan, NEW stage, NEW items, Begin(b, j, plan, stage, items)
      PROVE  Same
  BY <1>0, <1>1 DEF Begin
<1>2. CASE Start(b)
  BY <1>1, <1>2 DEF Start, StartBuild, StartBuildGiven, StartLoad
<1>3. ASSUME NEW x, OpenFile(b, x) PROVE Same
  BY <1>0, <1>3 DEF OpenFile
<1>4. CASE WriteFile(b)
  BY <1>0, <1>4 DEF WriteFile
<1>5. CASE Compile(b)
  BY <1>0, <1>5 DEF Compile
<1>6. CASE AfterStage(b)
  BY <1>0, <1>6 DEF AfterStage
<1>7. ASSUME NEW f, ReadModule(b, f) PROVE Same
  BY <1>0, <1>7 DEF ReadModule
<1>8. CASE EndLoad(b)
  BY <1>0, <1>8 DEF EndLoad
<1>9. CASE Fail(b)
  BY <1>0, <1>9 DEF Fail
<1> QED
  BY <1>2, <1>3, <1>4, <1>5, <1>6, <1>7, <1>8, <1>9 DEF Step

(* So only its own part of the invariant is at stake, also when it writes. *)
LEMMA BuilderMoves ==
  ASSUME IInv, BuilderInv, OneBuilder, NEW b \in Procs, Start(b) \/ Step(b) \/ Fail(b),
         disk' = disk \/ (job[b] = "build" /\ NoTails'),
         job'[b] = "build" => BuilderOK(pc'[b], env'[b], todo'[b], open'[b], pkg'[b], disk')
  PROVE  BuilderInv'
<1>0. NoTails'
  BY DEF BuilderInv, NoTails
<1> SUFFICES ASSUME NEW a \in Procs, job'[a] = "build"
             PROVE  BuilderOK(pc'[a], env'[a], todo'[a], open'[a], pkg'[a], disk')
  BY <1>0 DEF BuilderInv
<1>1. CASE a = b
  BY <1>1
<1>2. CASE a # b
  <2>1. /\ pc'[a] = pc[a] /\ job'[a] = job[a] /\ env'[a] = env[a]
        /\ todo'[a] = todo[a] /\ open'[a] = open[a] /\ pkg'[a] = pkg[a]
    BY <1>2, OthersStay
  <2>2. job[b] # "build"
    BY <1>2, <2>1, ProcessTypes DEF OneBuilder
  <2> QED
    BY <2>1, <2>2 DEF BuilderInv
<1> QED
  BY <1>1, <1>2

(* A process that has begun, or stopped.                                   *)
LEMMA NothingDone ==
  ASSUME NEW p, NEW e, NEW td, NEW d, p \in {"idle", "err", "given"} \/ (p = "framework" /\ td = FwFiles)
  PROVE  BuilderOK(p, e, td, Absent, {}, d)
  BY DEF BuilderOK, ArtifactSoFar, FrameworkSoFar

(* The one builder begins with nothing done.                               *)
LEMMA StartBuilds ==
  ASSUME IInv, BuilderInv, OneBuilder, NEW b \in Procs, Start(b)
  PROVE  BuilderInv'
<1>0. /\ pc \in [Procs -> Stages] /\ job \in [Procs -> JobNames]
      /\ todo \in [Procs -> SUBSET Items]
      /\ open \in [Procs -> Items \cup {Absent}] /\ pkg \in [Procs -> SUBSET Loaded]
  BY DEF IInv, TypeInv
<1>1. ASSUME NEW j, NEW plan, NEW stage, NEW items, Begin(b, j, plan, stage, items)
      PROVE  /\ disk' = disk /\ job'[b] = j /\ pkg'[b] = {} /\ open'[b] = Absent
             /\ (pc'[b] = "err" \/ (pc'[b] = stage /\ todo'[b] = items))
  <2>1. open[b] = Absent
    BY <1>1, ProcessTypes DEF Begin, AtRest, StageOK
  <2> QED
    BY <1>0, <1>1, <2>1 DEF Begin
<1>2. ASSUME NEW cli, StartBuild(b, cli)
      PROVE  disk' = disk /\ BuilderOK(pc'[b], env'[b], todo'[b], open'[b], pkg'[b], disk')
  <2>1. Begin(b, "build", PlanFor(cli), "framework", FwFiles)
    BY <1>2 DEF StartBuild
  <2>2. /\ disk' = disk /\ pkg'[b] = {} /\ open'[b] = Absent
        /\ (pc'[b] = "err" \/ (pc'[b] = "framework" /\ todo'[b] = FwFiles))
    BY <1>1, <2>1
  <2> QED
    BY <2>2, NothingDone
<1>3. ASSUME NEW cli, StartBuildGiven(b, cli)
      PROVE  disk' = disk /\ BuilderOK(pc'[b], env'[b], todo'[b], open'[b], pkg'[b], disk')
  <2>1. Begin(b, "build", PlanFor(cli), "given", {})
    BY <1>3 DEF StartBuildGiven
  <2>2. /\ disk' = disk /\ pkg'[b] = {} /\ open'[b] = Absent
        /\ (pc'[b] = "err" \/ pc'[b] = "given")
    BY <1>1, <2>1
  <2> QED
    BY <2>2, NothingDone
<1>4. ASSUME StartLoad(b) PROVE disk' = disk /\ job'[b] = "verify"
  BY <1>1, <1>4 DEF StartLoad
<1> QED
  BY <1>2, <1>3, <1>4, BuilderMoves DEF Start

(* The file an item goes to is no file that has been passed or written.    *)
LEMMA OwnFile ==
  ASSUME IInv, NEW b \in Procs, Writing(b), NEW x \in todo[b]
  PROVE  /\ pc[b] = "framework" =>
              \A f \in FwFiles : f \notin todo[b] \ {x} => f \notin todo[b] \/ f = FileFor(x)
         /\ \A f \in FwFiles : f \notin todo[b] => (pc[b] = "framework" => f # FileFor(x))
         /\ \A c \in pkg[b] : c \notin todo[b] =>
              ((\A c1, c2 \in pkg[b] : c1.name = c2.name => c1 = c2) => c.name # FileFor(x))
         /\ \A c \in pkg[b] : c.name \in Files /\ c.name \in MvFiles
         /\ pc[b] # "metadata" => Metadata # FileFor(x)
         /\ pc[b] # "manifest" => Manifest # FileFor(x)
<1>1. /\ pc[b] = "framework" => x \in FwFiles
      /\ pc[b] = "bytecode" => x \in pkg[b] /\ x \in CompiledModules
      /\ pc[b] = "metadata" => x = Metadata
      /\ pc[b] = "manifest" => x = Manifest
  BY WrittenItem
<1>2. pkg[b] \subseteq CompiledModules
  BY ProcessTypes DEF Writing, StageOK
<1>3. \A c \in pkg[b] : c.name \in Files /\ c.name \in MvFiles /\ FileFor(c) = c.name
  BY <1>2, ItemFiles
<1>4. CASE pc[b] = "framework"
  <2>1. FileFor(x) = x /\ x \notin MvFiles /\ x # Metadata /\ x # Manifest
    BY <1>1, <1>4, ItemFiles
  <2> QED
    BY <1>3, <1>4, <2>1
<1>5. CASE pc[b] = "bytecode"
  <2>1. FileFor(x) = x.name /\ x.name \in MvFiles /\ Metadata \notin MvFiles /\ Manifest \notin MvFiles
    BY <1>1, <1>5, ItemFiles
  <2> QED
    BY <1>1, <1>3, <1>5, <2>1
<1>6. CASE pc[b] = "metadata"
  <2>1. FileFor(x) = Metadata /\ Metadata \notin MvFiles /\ Metadata # Manifest
    BY <1>1, <1>6, ItemFiles
  <2> QED
    BY <1>3, <1>6, <2>1
<1>7. CASE pc[b] = "manifest"
  <2>1. FileFor(x) = Manifest /\ Manifest \notin MvFiles /\ Metadata # Manifest
    BY <1>1, <1>7, ItemFiles
  <2> QED
    BY <1>3, <1>7, <2>1
<1> QED
  BY <1>4, <1>5, <1>6, <1>7 DEF Writing

(* A process that writes files is the builder.                             *)
LEMMA WritersBuild ==
  ASSUME IInv, BuilderInv, NEW b \in Procs, Writing(b)
  PROVE  /\ job[b] = "build" /\ pc[b] \notin {"ok", "load"}
         /\ BuilderOK(pc[b], env[b], todo[b], open[b], pkg[b], disk)
<1>1. job[b] = "build" /\ pc[b] \notin {"ok", "load"}
  BY ProcessTypes DEF Writing, StageOK
<1> QED
  BY <1>1 DEF BuilderInv

(* Opening a file of a stage leaves the files of what is done.             *)
LEMMA OpenBuilds ==
  ASSUME IInv, BuilderInv, OneBuilder, NEW b \in Procs, NEW x \in todo[b], OpenFile(b, x)
  PROVE  BuilderInv'
<1> DEFINE p == pc[b]
           e == env[b]
           td == todo[b]
           k == pkg[b]
<1>1. /\ Writing(b) /\ open[b] = Absent /\ pc'[b] = p /\ env'[b] = e /\ pkg'[b] = k
      /\ job' = job
  BY DEF OpenFile
<1>2. /\ job[b] = "build" /\ p \notin {"ok", "load"}
      /\ BuilderOK(p, e, td, Absent, k, disk)
  BY <1>1, WritersBuild
<1>3. CASE p = "framework" /\ ~NeedsWrite(b, x)
  <2>1. todo'[b] = td \ {x} /\ open'[b] = Absent /\ disk' = disk
    BY <1>1, <1>3 DEF OpenFile, IInv, TypeInv
  <2>2. k = {} /\ x \in FwFiles /\ e.fw \in FwVersions
    BY <1>1, <1>3, ProcessTypes, WrittenItem DEF StageOK, Plans
  <2>3. ASSUME SizesTell PROVE disk[x] = FwFile(e.fw)
    <3>1. disk[x] \in FwContents \cup {Absent, Torn}
      BY <2>2 DEF BuilderInv, NoTails
    <3>2. disk[x] # Absent /\ FileLen(disk[x]) = SizeOf[e.fw]
      BY <1>3 DEF NeedsWrite
    <3>3. SizeOf[e.fw] # 0
      BY <2>2, VersionAssumption
    <3>4. disk[x] # Torn
      BY <3>2, <3>3 DEF FileLen
    <3>5. PICK v \in FwVersions : disk[x] = FwFile(v)
      BY <3>1, <3>2, <3>4 DEF FwContents
    <3>6. disk[x].fw = v /\ disk[x] \in FwContents
      BY <3>5 DEF FwFile, FwContents
    <3>7. SizeOf[v] = SizeOf[e.fw]
      BY <3>2, <3>4, <3>6 DEF FileLen
    <3> QED
      BY <2>2, <2>3, <3>5, <3>7 DEF SizesTell
  <2>4. SizesTell => FrameworkSoFar(p, e, td \ {x}, k, disk)
    BY <1>2, <2>2, <2>3 DEF BuilderOK, FrameworkSoFar
  <2>5. BuilderOK(p, e, td \ {x}, Absent, k, disk)
    BY <1>3, <2>2, <2>4 DEF BuilderOK, ArtifactSoFar
  <2> QED
    BY <1>1, <1>2, <2>1, <2>5, BuilderMoves DEF Step
<1>4. CASE ~(p = "framework" /\ ~NeedsWrite(b, x))
  <2>1. /\ todo'[b] = td /\ open'[b] = x
        /\ disk' = [disk EXCEPT ![FileFor(x)] = Torn]
    BY <1>1, <1>4 DEF OpenFile, IInv, TypeInv
  <2>2. FileFor(x) \in Files /\ disk \in [Files -> Contents]
    BY <1>1, WrittenItem DEF IInv, TypeInv
  <2>3. disk'[FileFor(x)] = Torn /\ \A f \in Files : f # FileFor(x) => disk'[f] = disk[f]
    BY <2>1, <2>2
  <2>4. /\ \A f \in FwFiles : f \notin td => (p = "framework" => f # FileFor(x))
        /\ \A c \in k : c \notin td =>
              ((\A c1, c2 \in k : c1.name = c2.name => c1 = c2) => c.name # FileFor(x))
        /\ \A c \in k : c.name \in Files
        /\ p # "metadata" => Metadata # FileFor(x)
        /\ p # "manifest" => Manifest # FileFor(x)
        /\ p = "metadata" => Metadata \in td
        /\ p = "manifest" => Manifest \in td
    BY <1>1, OwnFile, WrittenItem
  <2>5. Metadata \in Files /\ Manifest \in Files /\ FwFiles \subseteq Files
    BY ItemFiles DEF Files
  <2>6. NamesDiffer => ArtifactSoFar(p, e, td, k, disk')
    <3> SUFFICES ASSUME NamesDiffer PROVE ArtifactSoFar(p, e, td, k, disk')
      OBVIOUS
    <3>1. ArtifactSoFar(p, e, td, k, disk)
      BY <1>2 DEF BuilderOK
    <3>2. \A c \in k : c \notin td => disk'[c.name] = c.bytes
      BY <2>3, <2>4, <3>1 DEF ArtifactSoFar
    <3>3. p = "manifest" => disk'[Metadata] = MetadataOf(k, e)
      BY <2>3, <2>4, <2>5, <3>1 DEF ArtifactSoFar
    <3> QED
      BY <1>2, <2>4, <3>1, <3>2, <3>3 DEF ArtifactSoFar
  <2>7. SizesTell => FrameworkSoFar(p, e, td, k, disk')
    BY <1>2, <2>3, <2>4, <2>5 DEF BuilderOK, FrameworkSoFar
  <2>8. BuilderOK(p, e, td, x, k, disk')
    BY <2>3, <2>6, <2>7 DEF BuilderOK
  <2>9. NoTails'
    BY <2>3, <2>5 DEF BuilderInv, NoTails
  <2> QED
    BY <1>1, <1>2, <2>1, <2>8, <2>9, BuilderMoves DEF Step
<1> QED
  BY <1>3, <1>4

(* Writing a file completes it and leaves the others.                      *)
LEMMA WriteBuilds ==
  ASSUME IInv, BuilderInv, OneBuilder, NEW b \in Procs, WriteFile(b)
  PROVE  BuilderInv'
<1> DEFINE p == pc[b]
           e == env[b]
           td == todo[b]
           k == pkg[b]
           x == open[b]
           c == BytesFor(b, x)
<1>1. /\ Writing(b) /\ x # Absent /\ pc'[b] = p /\ env'[b] = e /\ pkg'[b] = k
      /\ job' = job /\ todo'[b] = td \ {x} /\ open'[b] = Absent
  BY DEF WriteFile, IInv, TypeInv
<1>2. /\ job[b] = "build" /\ p \notin {"ok", "load"}
      /\ BuilderOK(p, e, td, x, k, disk)
  BY <1>1, WritersBuild
<1>3. x \in td
  BY <1>1, ProcessTypes DEF StageOK
<1>4. disk' = [disk EXCEPT ![FileFor(x)] = c] /\ (FileFor(x) \in FwFiles => c \in FwContents)
  <2>1. disk[FileFor(x)] = Torn /\ (FileFor(x) \in FwFiles => c \in FwContents)
    BY <1>1, <1>2, <1>3, WrittenItem DEF BuilderOK
  <2>2. \A d \in FwContents : FileLen(d) \in Nat /\ ~(FileLen(Torn) > FileLen(d))
    BY FrameworkLength
  <2>3. Overlay(FileFor(x), disk[FileFor(x)], c) = {c}
    BY <2>1, <2>2 DEF Overlay
  <2> QED
    BY <2>1, <2>3 DEF WriteFile
<1>5. /\ FileFor(x) \in Files /\ disk \in [Files -> Contents]
      /\ p = "framework" => x \in FwFiles /\ c = FwFile(e.fw)
      /\ p = "bytecode" => x \in k /\ x \in CompiledModules /\ c = x.bytes
      /\ p = "metadata" => x = Metadata /\ c = MetadataOf(k, e)
      /\ p = "manifest" => x = Manifest /\ c = ManifestOf(k, e)
  BY <1>1, <1>3, WrittenItem DEF IInv, TypeInv
<1>6. disk'[FileFor(x)] = c /\ \A f \in Files : f # FileFor(x) => disk'[f] = disk[f]
  BY <1>4, <1>5
<1>7. /\ \A f \in FwFiles : f \notin td => (p = "framework" => f # FileFor(x))
      /\ \A d \in k : d \notin td =>
            ((\A c1, c2 \in k : c1.name = c2.name => c1 = c2) => d.name # FileFor(x))
      /\ \A d \in k : d.name \in Files
      /\ p # "metadata" => Metadata # FileFor(x)
      /\ p # "manifest" => Manifest # FileFor(x)
  BY <1>1, <1>3, OwnFile
<1>8. /\ Metadata \in Files /\ Manifest \in Files /\ FwFiles \subseteq Files
      /\ FileFor(Metadata) = Metadata /\ FileFor(Manifest) = Manifest
      /\ \A f \in FwFiles : FileFor(f) = f
      /\ \A d \in CompiledModules : FileFor(d) = d.name
      /\ \A d \in CompiledModules : d \notin FwFiles \cup Outputs
  BY ItemFiles DEF Files
<1>9. k \subseteq CompiledModules /\ (p = "framework" => k = {})
  BY <1>1, ProcessTypes DEF Writing, StageOK
<1> HIDE DEF p, e, td, k, x, c
<1>10. NamesDiffer => ArtifactSoFar(p, e, td \ {x}, k, disk')
  <2> SUFFICES ASSUME NamesDiffer PROVE ArtifactSoFar(p, e, td \ {x}, k, disk')
    OBVIOUS
  <2>1. ArtifactSoFar(p, e, td, k, disk)
    BY <1>2 DEF BuilderOK
  <2>2. ASSUME NEW d \in k, d \notin td \ {x} PROVE disk'[d.name] = d.bytes
    <3>1. CASE d = x
      <4>1. p = "bytecode"
        BY <1>1, <1>5, <1>8, <1>9, <3>1 DEF Writing, p, Outputs
      <4> QED
        BY <1>5, <1>6, <1>8, <3>1, <4>1
    <3>2. CASE d # x
      <4>1. d \notin td /\ d.name # FileFor(x) /\ d.name \in Files
        BY <1>7, <2>1, <2>2, <3>2 DEF ArtifactSoFar
      <4> QED
        BY <1>6, <2>1, <4>1 DEF ArtifactSoFar
    <3> QED
      BY <3>1, <3>2
  <2>3. p = "manifest" => disk'[Metadata] = MetadataOf(k, e)
    BY <1>6, <1>7, <1>8, <2>1 DEF ArtifactSoFar
  <2>4. p = "metadata" => disk'[Metadata] = MetadataOf(k, e)
    BY <1>5, <1>6, <1>8
  <2>5. p = "manifest" => disk'[Manifest] = ManifestOf(k, e)
    BY <1>5, <1>6, <1>8
  <2> QED
    BY <1>2, <2>1, <2>2, <2>3, <2>4, <2>5 DEF ArtifactSoFar
<1>11. SizesTell => FrameworkSoFar(p, e, td \ {x}, k, disk')
  BY <1>2, <1>5, <1>6, <1>7, <1>8 DEF BuilderOK, FrameworkSoFar
<1>12. BuilderOK(p, e, td \ {x}, Absent, k, disk')
  BY <1>10, <1>11 DEF BuilderOK
<1>13. NoTails'
  BY <1>4, <1>6, <1>8 DEF BuilderInv, NoTails
<1> QED
  BY <1>1, <1>2, <1>12, <1>13, BuilderMoves DEF Step

(* The compiler reads the framework the builder has just put in place, and *)
(* names every module after its source.                                    *)
LEMMA CompiledBy ==
  ASSUME IInv, BuilderInv, NEW b \in Procs, Compile(b), NEW v \in FrameworkSeen(b)
  PROVE  /\ SizesTell => v \in {env[b].fw, Given}
         /\ \A c \in CompiledFor(b, v) : c.bytes.fw = v
         /\ NamesDiffer => \A c, c2 \in CompiledFor(b, v) : c.name = c2.name => c = c2
<1>1. job[b] = "build" /\ todo[b] = {} /\ pc[b] \in {"framework", "given"}
  BY ProcessTypes DEF Compile, StageOK
<1>2. ASSUME SizesTell PROVE v \in {env[b].fw, Given}
  <2>1. CASE pc[b] = "given"
    BY <2>1 DEF FrameworkSeen
  <2>2. CASE pc[b] = "framework"
    <3>1. \A f \in FwFiles : disk[f] = FwFile(env[b].fw)
      BY <1>1, <1>2, <2>2 DEF BuilderInv, BuilderOK, FrameworkSoFar
    <3>2. FwFile(env[b].fw) \in FwContents
      BY ProcessTypes DEF FwContents, Plans
    <3>3. PICK f \in FwFiles : v = Deserialized(disk[f])
      BY <2>2 DEF FrameworkSeen
    <3>4. v = FwFile(env[b].fw).fw
      BY <3>1, <3>2, <3>3 DEF Deserialized
    <3> QED
      BY <3>4 DEF FwFile
  <2> QED
    BY <1>1, <2>1, <2>2
<1>3. \A c \in CompiledFor(b, v) : c.bytes.fw = v
  BY DEF CompiledFor
<1>4. ASSUME NamesDiffer, NEW c \in CompiledFor(b, v), NEW c2 \in CompiledFor(b, v),
             c.name = c2.name
      PROVE  c = c2
  <2> DEFINE Of(m) == [name |-> FileOf[m],
                       bytes |-> [mod |-> m, src |-> sources[m], addr |-> env[b].addr, fw |-> v]]
  <2>1. PICK m \in Modules : c = Of(m)
    BY DEF CompiledFor
  <2>2. PICK n \in Modules : c2 = Of(n)
    BY DEF CompiledFor
  <2>3. FileOf[m] = FileOf[n]
    BY <1>4, <2>1, <2>2
  <2>4. m = n
    BY <1>4, <2>3 DEF NamesDiffer
  <2> QED
    BY <2>1, <2>2, <2>4
<1> QED
  BY <1>2, <1>3, <1>4

(* The compiler reads the framework files the builder has just passed.     *)
LEMMA CompileBuilds ==
  ASSUME IInv, BuilderInv, OneBuilder, NEW b \in Procs, Compile(b)
  PROVE  BuilderInv'
<1>1. disk' = disk /\ env'[b] = env[b] /\ open'[b] = Absent /\ pkg[b] = {}
  BY ProcessTypes DEF Compile, StageOK
<1>2. ASSUME NEW v \in FrameworkSeen(b),
             pkg' = [pkg EXCEPT ![b] = CompiledFor(b, v)],
             todo' = [todo EXCEPT ![b] = CompiledFor(b, v)],
             pc' = [pc EXCEPT ![b] = "bytecode"]
      PROVE  BuilderOK(pc'[b], env'[b], todo'[b], open'[b], pkg'[b], disk')
  <2> DEFINE k == CompiledFor(b, v)
             e == env[b]
  <2>1. pc'[b] = "bytecode" /\ todo'[b] = k /\ pkg'[b] = k
    BY <1>2 DEF IInv, TypeInv
  <2>2. /\ SizesTell => v \in {e.fw, Given}
        /\ \A c \in k : c.bytes.fw = v
        /\ NamesDiffer => \A c, c2 \in k : c.name = c2.name => c = c2
    BY <1>2, CompiledBy
  <2> HIDE DEF k, e
  <2>3. BuilderOK("bytecode", e, k, Absent, k, disk)
    BY <2>2 DEF BuilderOK, ArtifactSoFar, FrameworkSoFar
  <2> QED
    BY <1>1, <2>1, <2>3 DEF e
<1>3. ASSUME pc' = [pc EXCEPT ![b] = "err"], UNCHANGED <<pkg, todo>>
      PROVE  BuilderOK(pc'[b], env'[b], todo'[b], open'[b], pkg'[b], disk')
  <2>1. pc'[b] = "err" /\ pkg'[b] = {}
    BY <1>1, <1>3 DEF IInv, TypeInv
  <2> QED
    BY <1>1, <2>1, NothingDone
<1>4. BuilderOK(pc'[b], env'[b], todo'[b], open'[b], pkg'[b], disk')
  BY <1>2, <1>3 DEF Compile
<1> QED
  BY <1>1, <1>4, BuilderMoves DEF Step

(* A stage with no file left to write is on disk.                          *)
LEMMA AfterStageBuilds ==
  ASSUME IInv, BuilderInv, OneBuilder, NEW b \in Procs, AfterStage(b)
  PROVE  BuilderInv'
<1> DEFINE p == pc[b]
           e == env[b]
           k == pkg[b]
<1>1. /\ p \in {"bytecode", "metadata", "manifest"} /\ todo[b] = {} /\ open[b] = Absent
      /\ disk' = disk /\ env'[b] = e /\ pkg'[b] = k /\ open'[b] = Absent
  BY DEF AfterStage
<1>2. BuilderOK(p, e, {}, Absent, k, disk)
  BY <1>1, WritersBuild DEF Writing
<1>3. /\ p = "bytecode" => pc'[b] = "metadata" /\ todo'[b] = {Metadata}
      /\ p = "metadata" => pc'[b] = "manifest" /\ todo'[b] = {Manifest}
      /\ p = "manifest" => pc'[b] = "ok" /\ todo'[b] = {}
  BY DEF AfterStage, IInv, TypeInv
<1> HIDE DEF p, e, k
<1>4. /\ p = "bytecode" => BuilderOK("metadata", e, {Metadata}, Absent, k, disk)
      /\ p = "metadata" => BuilderOK("manifest", e, {Manifest}, Absent, k, disk)
      /\ p = "manifest" => BuilderOK("ok", e, {}, Absent, k, disk)
  BY <1>2 DEF BuilderOK, ArtifactSoFar, FrameworkSoFar
<1>5. BuilderOK(pc'[b], env'[b], todo'[b], open'[b], pkg'[b], disk')
  BY <1>1, <1>3, <1>4
<1> QED
  BY <1>1, <1>5, BuilderMoves DEF Step

(* A load writes no file.                                                  *)
LEMMA LoadBuilds ==
  ASSUME IInv, BuilderInv, OneBuilder, NEW b \in Procs,
         (\E f \in todo[b] : ReadModule(b, f)) \/ EndLoad(b)
  PROVE  BuilderInv'
<1>1. pc[b] = "load" /\ disk' = disk /\ job' = job
  BY DEF ReadModule, EndLoad
<1>2. job'[b] # "build"
  BY <1>1, ProcessTypes DEF StageOK
<1> QED
  BY <1>1, <1>2, BuilderMoves DEF Step

(* A failed build claims nothing.                                          *)
LEMMA FailBuilds ==
  ASSUME IInv, BuilderInv, OneBuilder, NEW b \in Procs, Fail(b)
  PROVE  BuilderInv'
<1>1. /\ disk' = disk /\ pc'[b] \in {"idle", "err"} /\ open'[b] = Absent /\ pkg'[b] = {}
  BY DEF Fail, IInv, TypeInv
<1> QED
  BY <1>1, NothingDone, BuilderMoves

(* One builder keeps its word at every step of every process.              *)
LEMMA NextBuilds ==
  ASSUME OneBuilder
  PROVE  IInv /\ BuilderInv /\ [Next]_vars => BuilderInv'
<1> SUFFICES ASSUME IInv, BuilderInv, [Next]_vars PROVE BuilderInv'
  OBVIOUS
<1>1. ASSUME NEW b \in Procs, Step(b) PROVE BuilderInv'
  BY <1>1, OpenBuilds, WriteBuilds, CompileBuilds, AfterStageBuilds, LoadBuilds DEF Step
<1>2. CASE Developer
  <2>1. UNCHANGED <<disk, pc, job, env, todo, open, pkg>>
    BY <1>2 DEF Developer, EditSource, EditToml, InstallTool, procVars
  <2> QED
    BY <2>1 DEF BuilderInv, NoTails
<1>3. CASE UNCHANGED vars
  BY <1>3 DEF vars, BuilderInv, NoTails
<1> QED
  BY <1>1, <1>2, <1>3, StartBuilds, FailBuilds DEF Next

(* No build has begun.                                                     *)
LEMMA InitBuilds == Init => BuilderInv
<1>1. FwFiles \subseteq Files
  BY DEF Files
<1> QED
  BY <1>1 DEF Init, BuilderInv, NoTails

(* What one builder at a time has put on disk, at every point of the build.*)
THEOREM BuilderInvariance ==
  ASSUME OneBuilder
  PROVE  Spec => []BuilderInv
<1>1. IInv /\ BuilderInv /\ [Next]_vars => BuilderInv'
  BY NextBuilds
<1> QED
  BY <1>1, InitBuilds, Invariance, PTL DEF Spec

(* While one process at a time builds a directory, and the modules of a    *)
(* package have different names, a package build_package returns is what   *)
(* the directory holds, whatever a dead or failed build left there.        *)
THEOREM ArtifactsArePackages ==
  ASSUME OneBuilder, NamesDiffer
  PROVE  Spec => []ArtifactIsThePackage
<1>1. IInv /\ BuilderInv => ArtifactIsThePackage
  BY DEF IInv, StageInv, StageOK, BuilderInv, BuilderOK, ArtifactSoFar, ArtifactIsThePackage
<1> QED
  BY <1>1, Invariance, BuilderInvariance, PTL

(* While one process at a time builds a directory, and two frameworks of   *)
(* the same length are the same, a build compiles against the framework    *)
(* of the tool that runs it, whatever another version left on disk.        *)
THEOREM OwnFrameworkIsUsed ==
  ASSUME OneBuilder, SizesTell
  PROVE  Spec => []BuiltAgainstOwnFramework
<1>1. BuilderInv => BuiltAgainstOwnFramework
  BY DEF BuilderInv, BuilderOK, FrameworkSoFar, BuiltAgainstOwnFramework
<1> QED
  BY <1>1, BuilderInvariance, PTL

-----------------------------------------------------------------------------
(* What a load finds, of any number of builders.                           *)

BuildersRest == \A d \in Procs : job[d] = "build" => AtRest(d)

LoadsUndisturbed(b) == job[b] = "verify" /\ pc[b] \in {"load", "ok"} /\ b \in undisturbed

(* A load with no build since it began holds, as they are on disk, the     *)
(* files it has read, and has read or still has to read every file there.  *)
LoadInv ==
    \A b \in Procs : LoadsUndisturbed(b) =>
        /\ BuildersRest
        /\ \A c \in pkg[b] : c.bytes = disk[c.name]
        /\ \A f \in MvFiles : disk[f] # Absent =>
              (pc[b] = "load" /\ f \in todo[b]) \/ [name |-> f, bytes |-> disk[f]] \in pkg[b]

(* A step that changes no file, and after which every builder rests that   *)
(* rested before, keeps what the invariant says of the processes that do   *)
(* not move.                                                               *)
LEMMA LoadersStay ==
  ASSUME IInv, LoadInv, NEW b \in Procs, Start(b) \/ Step(b) \/ Fail(b),
         disk' = disk, undisturbed' \subseteq undisturbed \cup {b},
         job'[b] = "build" => AtRest(b)', NEW a \in Procs, a # b, LoadsUndisturbed(a)'
  PROVE  /\ BuildersRest'
         /\ \A c \in pkg'[a] : c.bytes = disk'[c.name]
         /\ \A f \in MvFiles : disk'[f] # Absent =>
               (pc'[a] = "load" /\ f \in todo'[a]) \/ [name |-> f, bytes |-> disk'[f]] \in pkg'[a]
<1>1. \A d \in Procs : d # b => pc'[d] = pc[d] /\ job'[d] = job[d]
                                /\ todo'[d] = todo[d] /\ pkg'[d] = pkg[d]
  BY OthersStay
<1>2. LoadsUndisturbed(a)
  BY <1>1 DEF LoadsUndisturbed
<1>3. BuildersRest'
  BY <1>1, <1>2 DEF LoadInv, BuildersRest, AtRest
<1> QED
  BY <1>1, <1>2, <1>3 DEF LoadInv

(* A process that builds moves: no load is undisturbed.                    *)
LEMMA BuildDisturbs ==
  ASSUME IInv, LoadInv, NEW b \in Procs, Step(b), job[b] = "build", ~AtRest(b),
         undisturbed' = undisturbed, job' = job
  PROVE  LoadInv'
<1> SUFFICES ASSUME NEW a \in Procs, LoadsUndisturbed(a)' PROVE FALSE
  BY DEF LoadInv
<1>1. a # b
  BY DEF LoadsUndisturbed
<1>2. LoadsUndisturbed(a)
  BY <1>1, OthersStay DEF LoadsUndisturbed
<1> QED
  BY <1>2 DEF LoadInv, BuildersRest

(* A job begins: a build disturbs every load, a load lists every file.     *)
LEMMA StartLoads ==
  ASSUME IInv, LoadInv, NEW b \in Procs, Start(b)
  PROVE  LoadInv'
<1>1. CASE undisturbed' = {}
  BY <1>1 DEF LoadInv, LoadsUndisturbed
<1>2. CASE StartLoad(b)
  <2> DEFINE listed == {f \in MvFiles : disk[f] # Absent}
  <2>1. /\ pc \in [Procs -> Stages] /\ job \in [Procs -> JobNames]
        /\ todo \in [Procs -> SUBSET Items] /\ pkg \in [Procs -> SUBSET Loaded]
    BY DEF IInv, TypeInv
  <2>2. /\ disk' = disk /\ job'[b] = "verify" /\ pkg'[b] = {}
        /\ pc'[b] = "err" \/ (todo'[b] = listed /\ pc'[b] = "load")
    BY <1>2, <2>1 DEF StartLoad, Begin
  <2>3. /\ undisturbed' \subseteq undisturbed \cup {b}
        /\ b \in undisturbed' => BuildersRest
    BY <1>2 DEF StartLoad, BuildersRest
  <2>4. ASSUME LoadsUndisturbed(b)'
        PROVE  /\ BuildersRest'
               /\ \A c \in pkg'[b] : c.bytes = disk'[c.name]
               /\ \A f \in MvFiles : disk'[f] # Absent => pc'[b] = "load" /\ f \in todo'[b]
    <3>1. b \in undisturbed' /\ pc'[b] = "load" /\ todo'[b] = listed
      BY <2>2, <2>4 DEF LoadsUndisturbed
    <3>2. \A d \in Procs : d # b => pc'[d] = pc[d] /\ job'[d] = job[d]
      BY OthersStay
    <3>3. BuildersRest'
      BY <2>2, <2>3, <3>1, <3>2 DEF BuildersRest, AtRest
    <3> QED
      BY <2>2, <3>1, <3>3
  <2>5. \A a \in Procs : a # b /\ LoadsUndisturbed(a)' =>
          /\ BuildersRest'
          /\ \A c \in pkg'[a] : c.bytes = disk'[c.name]
          /\ \A f \in MvFiles : disk'[f] # Absent =>
                (pc'[a] = "load" /\ f \in todo'[a]) \/ [name |-> f, bytes |-> disk'[f]] \in pkg'[a]
    BY <2>2, <2>3, LoadersStay
  <2> QED
    BY <2>4, <2>5 DEF LoadInv
<1> QED
  BY <1>1, <1>2 DEF Start, StartBuild, StartBuildGiven

(* A load reads a file as it is on disk.                                   *)
LEMMA ReadLoads ==
  ASSUME IInv, LoadInv, NEW b \in Procs, NEW f \in todo[b], ReadModule(b, f)
  PROVE  LoadInv'
<1>1. /\ pc[b] = "load" /\ job[b] = "verify" /\ pc' = pc /\ job' = job /\ disk' = disk
      /\ undisturbed' = undisturbed /\ Step(b) /\ todo[b] \subseteq MvFiles
      /\ pkg'[b] = pkg[b] \cup {[name |-> f, bytes |-> disk[f]]}
      /\ todo'[b] = todo[b] \ {f}
  BY ProcessTypes DEF ReadModule, Step, StageOK, IInv, TypeInv
<1>2. ASSUME LoadsUndisturbed(b)'
      PROVE  /\ BuildersRest'
             /\ \A c \in pkg'[b] : c.bytes = disk'[c.name]
             /\ \A g \in MvFiles : disk'[g] # Absent =>
                   g \in todo'[b] \/ [name |-> g, bytes |-> disk'[g]] \in pkg'[b]
  <2>1. LoadsUndisturbed(b)
    BY <1>1, <1>2 DEF LoadsUndisturbed
  <2>2. BuildersRest'
    BY <1>1, <2>1 DEF LoadInv, BuildersRest, AtRest
  <2> QED
    BY <1>1, <2>1, <2>2 DEF LoadInv
<1>3. job'[b] # "build"
  BY <1>1
<1> QED
  BY <1>1, <1>2, <1>3, LoadersStay DEF LoadInv

(* It ends with nothing left to read.                                      *)
LEMMA EndLoads ==
  ASSUME IInv, LoadInv, NEW b \in Procs, EndLoad(b)
  PROVE  LoadInv'
<1>1. /\ pc[b] = "load" /\ todo[b] = {} /\ job[b] = "verify" /\ job' = job /\ disk' = disk
      /\ undisturbed' = undisturbed /\ Step(b) /\ todo' = todo
      /\ pc'[b] = "err" \/ (pc'[b] = "ok" /\ pkg'[b] = pkg[b])
  BY ProcessTypes DEF EndLoad, Step, StageOK, IInv, TypeInv
<1>2. ASSUME LoadsUndisturbed(b)'
      PROVE  /\ BuildersRest'
             /\ \A c \in pkg'[b] : c.bytes = disk'[c.name]
             /\ \A g \in MvFiles : disk'[g] # Absent => [name |-> g, bytes |-> disk'[g]] \in pkg'[b]
  <2>1. LoadsUndisturbed(b) /\ pkg'[b] = pkg[b]
    BY <1>1, <1>2 DEF LoadsUndisturbed
  <2>2. \A d \in Procs : d # b => pc'[d] = pc[d]
    BY <1>1, OthersStay
  <2>3. BuildersRest'
    BY <1>1, <2>1, <2>2 DEF LoadInv, BuildersRest, AtRest
  <2> QED
    BY <1>1, <2>1, <2>3 DEF LoadInv
<1>3. job'[b] # "build"
  BY <1>1
<1> QED
  BY <1>1, <1>2, <1>3, LoadersStay DEF LoadInv

(* A process that fails or dies leaves the files as they are.              *)
LEMMA FailLoads ==
  ASSUME IInv, LoadInv, NEW b \in Procs, Fail(b)
  PROVE  LoadInv'
<1>1. pc'[b] \in {"idle", "err"} /\ disk' = disk /\ undisturbed' = undisturbed
  BY DEF Fail, IInv, TypeInv
<1>2. ~LoadsUndisturbed(b)' /\ AtRest(b)'
  BY <1>1 DEF LoadsUndisturbed, AtRest
<1> QED
  BY <1>1, <1>2, LoadersStay DEF LoadInv

(* Every step keeps it.                                                    *)
LEMMA NextLoads == IInv /\ LoadInv /\ [Next]_vars => LoadInv'
<1> SUFFICES ASSUME IInv, LoadInv, [Next]_vars PROVE LoadInv'
  OBVIOUS
<1>1. ASSUME NEW b \in Procs, Step(b) PROVE LoadInv'
  <2>1. CASE (\E f \in todo[b] : ReadModule(b, f)) \/ EndLoad(b)
    BY <2>1, ReadLoads, EndLoads
  <2>2. CASE (\E x \in todo[b] : OpenFile(b, x)) \/ WriteFile(b) \/ Compile(b) \/ AfterStage(b)
    <3>1. /\ pc[b] \in {"framework", "given", "bytecode", "metadata", "manifest"}
          /\ job' = job /\ undisturbed' = undisturbed
      BY <2>2 DEF OpenFile, WriteFile, Compile, AfterStage, Writing
    <3>2. job[b] = "build" /\ ~AtRest(b)
      BY <3>1, ProcessTypes DEF StageOK, AtRest
    <3> QED
      BY <1>1, <3>1, <3>2, BuildDisturbs
  <2> QED
    BY <1>1, <2>1, <2>2 DEF Step
<1>2. CASE Developer \/ UNCHANGED vars
  <2>1. UNCHANGED <<disk, pc, job, todo, pkg, undisturbed>>
    BY <1>2 DEF Developer, EditSource, EditToml, InstallTool, procVars, vars
  <2> QED
    BY <2>1 DEF LoadInv, LoadsUndisturbed, BuildersRest, AtRest
<1> QED
  BY <1>1, <1>2, StartLoads, FailLoads DEF Next

(* What loads hold, however many processes build.                          *)
THEOREM LoadInvariance == Spec => []LoadInv
<1>1. Init => LoadInv
  BY DEF Init, LoadInv, LoadsUndisturbed
<1> QED
  BY <1>1, NextLoads, Invariance, PTL DEF Spec

(* While one process at a time builds a directory, and the modules of a    *)
(* package have different names, a load with no build since it began       *)
(* returns the modules of the build that succeeded before, as they were    *)
(* built, and no other module of the same name.                            *)
THEOREM LoadsFindTheBuild ==
  ASSUME OneBuilder, NamesDiffer
  PROVE  Spec => []LoadedAsBuilt
<1>1. ASSUME IInv, BuilderInv, LoadInv, NEW b \in Procs, NEW d \in Procs,
             pc[b] = "ok", job[b] = "verify", b \in undisturbed, pc[d] = "ok", job[d] = "build"
      PROVE  /\ pkg[d] \subseteq pkg[b]
             /\ \A c \in pkg[b] \ pkg[d] : \A x \in pkg[d] : x.name # c.name
  <2>1. /\ \A c \in pkg[b] : c.bytes = disk[c.name]
        /\ \A f \in MvFiles : disk[f] # Absent => [name |-> f, bytes |-> disk[f]] \in pkg[b]
    BY <1>1 DEF LoadInv, LoadsUndisturbed
  <2>2. todo[d] = {} /\ pkg[d] \subseteq CompiledModules /\ pkg[b] \subseteq Loaded
    BY <1>1, ProcessTypes DEF StageOK
  <2>3. \A x \in pkg[d] : disk[x.name] = x.bytes
    BY <1>1, <2>2 DEF BuilderInv, BuilderOK, ArtifactSoFar
  <2>4. ASSUME NEW x \in pkg[d] PROVE x \in pkg[b]
    <3>1. x.name \in MvFiles /\ disk[x.name] # Absent
      BY <2>2, <2>3, ItemFiles, Present
    <3>2. x = [name |-> x.name, bytes |-> disk[x.name]]
      BY <2>2, <2>3 DEF CompiledModules
    <3> QED
      BY <2>1, <3>1, <3>2
  <2>5. ASSUME NEW c \in pkg[b], NEW x \in pkg[d], x.name = c.name PROVE c = x
    <3>1. c.bytes = x.bytes
      BY <2>1, <2>3, <2>5
    <3>2. c \in Loaded /\ x \in Loaded
      BY <2>2, ItemFiles
    <3> QED
      BY <2>5, <3>1, <3>2 DEF Loaded
  <2> QED
    BY <2>4, <2>5
<1>2. IInv /\ BuilderInv /\ LoadInv => LoadedAsBuilt
  BY <1>1 DEF LoadedAsBuilt
<1> QED
  BY <1>2, Invariance, BuilderInvariance, LoadInvariance, PTL

=============================================================================
