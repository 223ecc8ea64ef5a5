CONSTANTS
    Names = {"std", "counter"}
    Std = "std"
    Addrs = {"0x1", "0xcafe"}
    StdAddr = "0x1"
    Bad = "bad"
    None = "none"
    PolicyValues = {"governance"}
    MaxLines = 4
    MaxCli = 2
    Width = 2
    Digits = {0, 1, 15}
    MaxDigits = 6
    MaxLen = 4
    SimpleTags = {1, 5}
    Indices = {257}
    Parameters = {0}
    MaxNesting = 1
    MaxArgs = 1
    MaxTypes = 2
    Elements <- OneElement
    Idents <- Letters
    Sigs <- BoolAndVector
    Abilities = {4}
    MaxStructs = 2
    MaxParts = 3
    Modules = {"account", "coin", "market"}
    MaxDepth = 5
SPECIFICATION Spec
INVARIANTS
    CompiledAsWritten
    ParsesExactly
    StringsAreUtf8
    FoundLikeFind
    BytesDetermineTokens
    LayoutDetermined
    CountersMatchStack
    AccessIffNotReentered
    ReenteredOnlyFromItself
CHECK_DEADLOCK FALSE
