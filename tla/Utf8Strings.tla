----------------------------- MODULE Utf8Strings -----------------------------
(***************************************************************************)
(* std::string (stdlib/audit_sources/string.move) over its four natives    *)
(* (nexus-move-stdlib lib.rs): a transaction makes Strings from bytes,     *)
(* appends, inserts, cuts and searches.                                    *)
(*                                                                         *)
(* A byte is what UTF-8 makes of it: a character of its own, the first of  *)
(* two or of three bytes, or a continuation.                               *)
(***************************************************************************)
EXTENDS Naturals, Sequences, FiniteSets

CONSTANT MaxLen          \* bound on the bytes of one string

MaxLenAssumption == MaxLen \in Nat

\* x and y are two characters of one byte.
Byte == {"x", "y", "lead2", "lead3", "cont"}
Bytes == UNION {[1..n -> Byte] : n \in 0..MaxLen}

\* Bytes that follow a byte within its character.
TailLen(b) == CASE b = "lead2" -> 1 [] b = "lead3" -> 2 [] OTHER -> 0

VARIABLES
    s, r,        \* the bytes of two Strings
    found,       \* what index_of(s, r) returned, NotAsked once s or r has changed
    status       \* "run", or the code the transaction aborted with

NotAsked == MaxLen + 1
vars == <<s, r, found, status>>

\* str::from_utf8(b).is_ok(): continuations are exactly where a first byte
\* calls for them.
Utf8(b) ==
    \A k \in 1..Len(b) :
        /\ b[k] = "cont" <=> \/ k > 1 /\ b[k-1] \in {"lead2", "lead3"}
                             \/ k > 2 /\ b[k-2] = "lead3"
        /\ k + TailLen(b[k]) <= Len(b)

\* internal_check_utf8
InternalCheckUtf8(b) == Utf8(b)

\* Mutant: any index within the string is taken for a boundary.
IsCharBoundaryAny(b, i) == i <= Len(b)

\* internal_is_char_boundary
InternalIsCharBoundary(b, i) ==
    Utf8(b) /\ (i = 0 \/ i = Len(b) \/ (i < Len(b) /\ b[i+1] # "cont"))

\* internal_sub_string where it does not return its error
InternalSubString(b, i, j) == SubSeq(b, i + 1, j)

\* The positions at which the window of p's length equals p.
Windows(b, p) == {i \in 0..Len(b) : i + Len(p) <= Len(b) /\ SubSeq(b, i + 1, i + Len(p)) = p}
First(S) == CHOOSE i \in S : \A j \in S : i <= j

\* Mutant: the search passes over the last window.
IndexOfShort(b, p) ==
    IF p = <<>> THEN 0
    ELSE IF Windows(b, p) \ {Len(b) - Len(p)} = {} THEN Len(b)
    ELSE First(Windows(b, p) \ {Len(b) - Len(p)})

\* internal_index_of, byte by byte
InternalIndexOf(b, p) ==
    IF p = <<>> THEN 0
    ELSE IF Windows(b, p) = {} THEN Len(b) ELSE First(Windows(b, p))

-----------------------------------------------------------------------------
Init == s = <<>> /\ r = <<>> /\ found = NotAsked /\ status = "run"

Abort(code) == status' = code /\ UNCHANGED <<s, r, found>>

\* utf8(bytes)
MakeUtf8(b) ==
    /\ status = "run"
    /\ IF InternalCheckUtf8(b) THEN s' = b /\ found' = NotAsked /\ UNCHANGED <<r, status>>
       ELSE Abort("EINVALID_UTF8")

\* try_utf8(bytes): none leaves the caller without a new String.
TryUtf8(b) ==
    /\ status = "run"
    /\ InternalCheckUtf8(b)
    /\ r' = b /\ found' = NotAsked
    /\ UNCHANGED <<s, status>>

\* append(&mut s, r)
AppendString ==
    /\ status = "run" /\ Len(s) + Len(r) <= MaxLen
    /\ s' = s \o r /\ found' = NotAsked
    /\ UNCHANGED <<r, status>>

\* append_utf8(&mut s, bytes)
AppendUtf8(b) ==
    /\ status = "run" /\ Len(s) + Len(b) <= MaxLen
    /\ IF InternalCheckUtf8(b) THEN s' = s \o b /\ found' = NotAsked /\ UNCHANGED <<r, status>>
       ELSE Abort("EINVALID_UTF8")

\* The assertion of sub_string.
CanCut(b, i, j) ==
    /\ j <= Len(b) /\ i <= j
    /\ InternalIsCharBoundary(b, i) /\ InternalIsCharBoundary(b, j)

\* insert(&mut s, at, r): its own assertion, and those of its two sub_strings.
Insert(at) ==
    /\ status = "run" /\ Len(s) + Len(r) <= MaxLen
    /\ IF /\ at <= Len(s) /\ InternalIsCharBoundary(s, at)
          /\ CanCut(s, 0, at) /\ CanCut(s, at, Len(s))
       THEN /\ s' = InternalSubString(s, 0, at) \o r \o InternalSubString(s, at, Len(s))
            /\ found' = NotAsked /\ UNCHANGED <<r, status>>
       ELSE Abort("EINVALID_INDEX")

\* r = sub_string(&s, i, j)
CutString(i, j) ==
    /\ status = "run"
    /\ IF CanCut(s, i, j)
       THEN r' = InternalSubString(s, i, j) /\ found' = NotAsked /\ UNCHANGED <<s, status>>
       ELSE Abort("EINVALID_INDEX")

\* index_of(&s, &r)
IndexOf ==
    /\ status = "run"
    /\ found' = InternalIndexOf(s, r)
    /\ UNCHANGED <<s, r, status>>

Next ==
    \/ \E b \in Bytes : MakeUtf8(b) \/ TryUtf8(b) \/ AppendUtf8(b)
    \/ AppendString
    \/ \E at \in 0..(MaxLen + 1) : Insert(at)
    \/ \E i, j \in 0..(MaxLen + 1) : CutString(i, j)
    \/ IndexOf

Spec == Init /\ [][Next]_vars

-----------------------------------------------------------------------------
(* Properties.                                                             *)

\* "A String holds a sequence of bytes which is guaranteed to be in utf8
\* format" (string.move:12): whatever is appended, inserted and cut at byte
\* indices, no character is ever split and no piece of one left over.
StringsAreUtf8 == Utf8(s) /\ Utf8(r)

\* index_of searches bytes and promises str::find's answer (lib.rs:407): the
\* first place where the characters of r stand in s, or the length of s; never
\* the inside of a character, so the result can be passed to sub_string.
FoundLikeFind ==
    found # NotAsked =>
        LET Boundary(i) == i \in 0..Len(s) /\ (i = Len(s) \/ s[i+1] # "cont")
            Places == {i \in 0..Len(s) : /\ Boundary(i) /\ Boundary(i + Len(r))
                                         /\ \A k \in 1..Len(r) : s[i+k] = r[k]}
        IN /\ IF Places = {} THEN found = Len(s)
              ELSE found \in Places /\ \A q \in Places : found <= q
           /\ Boundary(found)

=============================================================================
