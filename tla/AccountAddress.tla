---------------------------- MODULE AccountAddress ----------------------------
(***************************************************************************)
(* nexus_move_types::AccountAddress: from_hex_literal, from_hex and        *)
(* decode_hex, and the Display that BuildOptions and the compiler's        *)
(* address mapping print addresses with.  An address has Width bytes (32   *)
(* in the code); a character is the value of a hex digit, or NotHex.       *)
(***************************************************************************)
EXTENDS Integers, Sequences

CONSTANTS
    Width,           \* bytes of an address
    Digits,          \* hex digits that inputs are made of
    MaxDigits        \* bound on the characters after the prefix

AddressAssumption ==
    /\ Width \in Nat \ {0} /\ MaxDigits \in Nat
    /\ Digits \subseteq 0..15 /\ 0 \in Digits

NotHex == 16
Inputs == [prefix : BOOLEAN, chars : UNION {[1..n -> Digits \cup {NotHex}] : n \in 0..MaxDigits}]

VARIABLES
    input,       \* the text; prefix says whether 0x or 0X comes first
    outcome      \* the Result, or Unread

vars == <<input, outcome>>

Ok(a) == [kind |-> "Ok", address |-> a]
Err(e) == [kind |-> e]
Unread == [kind |-> "none"]
InvalidHex(at) == [kind |-> "InvalidHex", index |-> at]

\* An odd number of digits gets a 0 in front.
Normalized(chars) == IF Len(chars) % 2 = 0 THEN chars ELSE <<0>> \o chars

\* decode_hex of digits that are all digits; the first that is not, from 0.
Decoded(ds) == [k \in 1..(Len(ds) \div 2) |-> 16 * ds[2*k - 1] + ds[2*k]]
BadAt(ds) == {k - 1 : k \in {j \in DOMAIN ds : ds[j] = NotHex}}

\* Mutant: the bytes are copied to the front of the address.
PaddedRight(bytes) == [k \in 1..Width |-> IF k <= Len(bytes) THEN bytes[k] ELSE 0]

\* The bytes, right-aligned.
Padded(bytes) ==
    LET start == Width - Len(bytes) IN
    [k \in 1..Width |-> IF k <= start THEN 0 ELSE bytes[k - start]]

\* from_hex
FromHex(chars) ==
    LET ds == Normalized(chars) IN
    IF chars = <<>> THEN Err("Empty")
    ELSE IF BadAt(ds) # {} THEN InvalidHex(CHOOSE i \in BadAt(ds) : \A j \in BadAt(ds) : i <= j)
    ELSE IF Len(Decoded(ds)) > Width THEN Err("TooLong")
    ELSE Ok(Padded(Decoded(ds)))

\* from_hex_literal: one prefix is stripped if there is one.  The x of a
\* second prefix is no hex digit.
FromHexLiteral(in) == FromHex(in.chars)

\* Display: 0x and two digits for every byte.
Display(a) ==
    [prefix |-> TRUE,
     chars  |-> [k \in 1..(2 * Width) |->
                    IF k % 2 = 1 THEN a[(k + 1) \div 2] \div 16 ELSE a[k \div 2] % 16]]

Init == input \in Inputs /\ outcome = Unread

Parse ==
    /\ outcome = Unread
    /\ outcome' = FromHexLiteral(input)
    /\ UNCHANGED input

Next == Parse
Spec == Init /\ [][Next]_vars

-----------------------------------------------------------------------------
(* Properties.                                                             *)

\* The number a sequence of digits denotes in a base.
ValueOf(ds, base) ==
    LET V[k \in 0..Len(ds)] == IF k = 0 THEN 0 ELSE V[k-1] * base + ds[k]
    IN V[Len(ds)]

\* Parsing is exact: it fails just on no digits, on a character that is no
\* digit and on more than Width bytes of digits, and otherwise the address is
\* the number written, for odd and even numbers of digits and at full length.
\* What Display prints of it, and the command line of the bootstrap backend and
\* the compiler's address mapping carry, parses back to the same address.
ParsesExactly ==
    outcome # Unread =>
        LET chars == input.chars
            allHex == \A k \in DOMAIN chars : chars[k] # NotHex
        IN /\ outcome.kind = "Empty" <=> chars = <<>>
           /\ outcome.kind = "InvalidHex" <=> ~allHex
           /\ outcome.kind = "TooLong" <=> allHex /\ Len(chars) > 2 * Width
           /\ outcome.kind = "Ok" =>
                /\ ValueOf(outcome.address, 256) = ValueOf(chars, 16)
                /\ FromHexLiteral(Display(outcome.address)) = outcome

=============================================================================
