CONSTANTS
    alice = alice
    bob = bob
    framework = framework
    None = None
    Address <- MCAddress
    Name <- Names
    Framework = framework
    EmbeddedModule <- Embedded
    Blob <- BlobFaithful
    LegacyBlob <- NoLegacy
    MaxModules = 2
SPECIFICATION Spec
PROPERTY CallersKeepLinking
