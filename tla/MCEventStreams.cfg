CONSTANTS
    alice = alice
    bob = bob
    s1 = s1
    s2 = s2
    None = None
    Address <- MCAddress
    Slot <- MCSlot
    MaxU64 = 2
SPECIFICATION Spec
INVARIANTS TypeOK HandlesCountEvents StreamsConsecutive GuidsUnique
