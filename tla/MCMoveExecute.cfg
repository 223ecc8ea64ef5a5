CONSTANTS
    s1 = s1
    s2 = s2
    v1 = v1
    v2 = v2
    e1 = e1
    None = None
    Slot <- MCSlot
    Value <- MCValue
    Event <- MCEvent
    GasLimit <- MCGasLimit
    MaxU64 = 9
    LoadCost = 1
    GlobalOpCost = 1
    RefOpCost = 1
    InstructionCost = 1
    NativeCost = 1
    CallBase = 2
    InputCost = 1
    WriteCost = 2
    MaxEvents = 2
SPECIFICATION FairSpec
INVARIANTS CacheAgrees GasBilled DeletesExist
PROPERTIES ImplementsAtomicEffects Terminates
