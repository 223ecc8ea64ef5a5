CONSTANTS
    alice = alice
    bob = bob
    framework = framework
    None = None
    Address <- MCAddress
    Name <- Names
    Framework = framework
    EmbeddedModule <- Embedded
    Blob <- BlobAll
    LegacyBlob <- LegacyAll
    MaxModules = 2
SPECIFICATION Spec
INVARIANTS TypeOK RecordAgrees InstalledChecked OutputsStayValid
PROPERTIES LockedForever AbiFrozen SoleModuleKeepsLinking ImplementsRegistry
