SPECIFICATION Spec
CONSTANTS
    builder = builder
    loader = loader
    m1 = m1
    m2 = m2
    m1mv = m1mv
    m2mv = m2mv
    Procs = {builder}
    Jobs <- OnlyBuilder
    Modules = {m1, m2}
    FwFiles = {vector}
    MvFiles = {m1mv, m2mv}
    FileOf <- OwnFiles
    Metadata = Metadata
    Manifest = Manifest
    Absent = Absent
    Torn = Torn
    Broken = Broken
    Policies = {immutable, compatible}
    Addrs = {a1}
    NoAddr = NoAddr
    MaxSource = 2
    FwVersions <- Versions
    SizeOf <- SizesAgree
    Given = Given
    MaxEdits = 2
    MaxFaults = 1
INVARIANT
    BuiltAgainstOwnFramework
