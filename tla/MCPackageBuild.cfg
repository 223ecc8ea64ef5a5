SPECIFICATION FairSpec
CONSTANTS
    builder = builder
    loader = loader
    m1 = m1
    m2 = m2
    m1mv = m1mv
    m2mv = m2mv
    Procs = {builder, loader}
    Jobs <- OneWriter
    Modules = {m1, m2}
    FwFiles = {vector}
    MvFiles = {m1mv, m2mv}
    FileOf <- OwnFiles
    Metadata = Metadata
    Manifest = Manifest
    Absent = Absent
    Torn = Torn
    Broken = Broken
    Policies = {immutable}
    Addrs = {a1}
    NoAddr = NoAddr
    MaxSource = 1
    FwVersions <- Versions
    SizeOf <- SizesDiffer
    Given = Given
    MaxEdits = 1
    MaxFaults = 1
INVARIANTS
    ArtifactIsThePackage
    BuiltAgainstOwnFramework
    LoadedAsBuilt
PROPERTY BuildsRecover
