CONSTANTS
    alice = alice
    bob = bob
    x = x
    y = y
    None = None
    Address <- MCAddress
    Byte <- MCByte
    Bundle <- MCBundle
    GasLimit <- MCGasLimit
    MaxModuleCount = 2
    MaxModuleSize = 2
    MaxTotalSize = 3
    PublishBase = 1
    PublishPerByte = 1
    UnsupportedGas = 2
    MaxU64 = 5
SPECIFICATION Spec
INVARIANTS ContractsDescribeBundles
PROPERTIES ContractsPermanent ImplementsRegistry
