CONSTANTS
    s1 = s1
    s2 = s2
    short = short
    long = long
    None = None
    Slot <- MCSlot
    Value <- MCValue
    Size <- MCSize
    Amount <- MCAmount
    GasLimit <- MCGasLimit
    MaxU64 = 3
    ReadPerByte = 1
    WritePerByte = 1
SPECIFICATION Spec
INVARIANTS SummaryMatchesMeter WritesArePaid
PROPERTY ImplementsAtomicEffects
