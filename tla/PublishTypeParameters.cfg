CONSTANTS
    alice = alice
    bob = bob
    framework = framework
    None = None
    Address <- MCAddress
    Name <- Names
    Framework = framework
    EmbeddedModule <- Embedded
    Blob <- BlobNarrow
    LegacyBlob <- NoLegacy
    MaxModules = 1
SPECIFICATION Spec
PROPERTY CallersKeepLinking
