------------------------------- MODULE Library -------------------------------
(***************************************************************************)
(* The sequential parts of the libraries: addresses, strings, the build    *)
(* plan, the bytes under the ABI hash and the reentrancy checker.  They    *)
(* share no state and never call each other, so they are taken side by     *)
(* side: focus is the part that moves.                                     *)
(***************************************************************************)
EXTENDS Integers, Sequences

CONSTANTS
    \* BuildPlan
    Names, Std, Addrs, StdAddr, Bad, None, PolicyValues, MaxLines, MaxCli,
    \* AccountAddress
    Width, Digits, MaxDigits,
    \* Utf8Strings
    MaxLen,
    \* AbiEncoding
    SimpleTags, Indices, Parameters, Elements, MaxNesting, MaxArgs, MaxTypes,
    \* AbiLayout (and AbiEncoding: Abilities)
    Idents, Sigs, Abilities, MaxStructs, MaxParts,
    \* ReentrancyChecker
    Modules, MaxDepth

VARIABLES
    focus,
    lines, section, policy, addresses, devAddresses, cli, options, merged, next, phase,
    input, outcome,
    text, other, found, aborted,
    oldSig, newSig,
    oldStructs, newStructs,
    stack, active, lockCount, status

planVars == <<lines, section, policy, addresses, devAddresses, cli, options, merged, next, phase>>
addressVars == <<input, outcome>>
stringVars == <<text, other, found, aborted>>
encodingVars == <<oldSig, newSig>>
layoutVars == <<oldStructs, newStructs>>
callVars == <<stack, active, lockCount, status>>

vars == <<focus, planVars, addressVars, stringVars, encodingVars, layoutVars, callVars>>

Plan == INSTANCE BuildPlan
Address == INSTANCE AccountAddress
Strings == INSTANCE Utf8Strings WITH s <- text, r <- other, status <- aborted
Encoding == INSTANCE AbiEncoding WITH old <- oldSig, new <- newSig
Layout == INSTANCE AbiLayout WITH Names <- Idents, old <- oldStructs, new <- newStructs
Calls == INSTANCE ReentrancyChecker

ASSUME LibraryAssumptions ==
    /\ Plan!BuildPlanAssumption /\ Address!AddressAssumption /\ Strings!MaxLenAssumption
    /\ Encoding!AbiEncodingAssumption /\ Layout!LayoutAssumption /\ Calls!DepthAssumption

-----------------------------------------------------------------------------
Parts == {"plan", "address", "strings", "encoding", "layout", "calls"}

Init ==
    /\ focus \in Parts
    /\ Plan!Init /\ Address!Init /\ Strings!Init /\ Encoding!Init /\ Layout!Init /\ Calls!Init
    /\ focus # "address" => input = [prefix |-> TRUE, chars |-> <<>>]

PlanStep ==
    /\ focus = "plan" /\ Plan!Next
    /\ UNCHANGED <<focus, addressVars, stringVars, encodingVars, layoutVars, callVars>>
AddressStep ==
    /\ focus = "address" /\ Address!Next
    /\ UNCHANGED <<focus, planVars, stringVars, encodingVars, layoutVars, callVars>>
StringStep ==
    /\ focus = "strings" /\ Strings!Next
    /\ UNCHANGED <<focus, planVars, addressVars, encodingVars, layoutVars, callVars>>
EncodingStep ==
    /\ focus = "encoding" /\ Encoding!Next
    /\ UNCHANGED <<focus, planVars, addressVars, stringVars, layoutVars, callVars>>
LayoutStep ==
    /\ focus = "layout" /\ Layout!Next
    /\ UNCHANGED <<focus, planVars, addressVars, stringVars, encodingVars, callVars>>
CallStep ==
    /\ focus = "calls" /\ Calls!Next
    /\ UNCHANGED <<focus, planVars, addressVars, stringVars, encodingVars, layoutVars>>

Next == PlanStep \/ AddressStep \/ StringStep \/ EncodingStep \/ LayoutStep \/ CallStep
Spec == Init /\ [][Next]_vars

-----------------------------------------------------------------------------
(* The properties of the parts.                                            *)

\* Every named address and the policy are compiled, and listed in the package
\* metadata, as the developer wrote them, except that a command line does not
\* override a name its table gives an address twice
\* (merged_named_addresses, inspect_move_toml).
CompiledAsWritten == focus = "plan" => Plan!CompiledAsWritten

\* AccountAddress::from_hex gives the number written, or the right error, and
\* what Display prints of an address parses back to it.
ParsesExactly == focus = "address" => Address!ParsesExactly

\* No operation of std::string leaves part of a character.
StringsAreUtf8 == Strings!StringsAreUtf8

\* index_of by bytes answers as a search by characters.
FoundLikeFind == Strings!FoundLikeFind

\* encode_token keeps different signatures apart.
BytesDetermineTokens == focus = "encoding" => Encoding!BytesDetermineTokens

\* compute_module_abi_hash keeps different structs apart.
LayoutDetermined == focus = "layout" => Layout!LayoutDetermined

\* The counters of the reentrancy checker are those of the call stack, and
\* exit_function's "Unbalanced ..." errors are never raised.
CountersMatchStack == Calls!CountersMatchStack

\* check_resource_access refuses exactly under reentrancy.
AccessIffNotReentered == Calls!AccessIffNotReentered

\* Under a module lock a module is entered again from its own frames only.
ReenteredOnlyFromItself == Calls!ReenteredOnlyFromItself

=============================================================================
