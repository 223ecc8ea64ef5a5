------------------------------ MODULE AbiLayout ------------------------------
(***************************************************************************)
(* How the ABI hash sees a module's structs (nexus-move-runtime abi.rs,    *)
(* second half of compute_module_abi_hash): a stream of bytes in which     *)
(* neither the fields of a struct nor the variants of an enum nor the      *)
(* fields of a variant are counted, and struct names have no length.  Two  *)
(* versions of a module are compared.                                      *)
(*                                                                         *)
(* A struct is a record of its name, its abilities and its parts in order: *)
(* a part is a field, or the head of a variant whose fields follow.        *)
(***************************************************************************)
EXTENDS AbiBytes, SequencesExt

CONSTANTS
    Names,           \* identifiers: sequences of letters, in sorting order
    Sigs,            \* encoded field types: the first byte is a tag of encode_token
    Abilities,
    MaxStructs, MaxParts     \* bounds: structs of a module, parts of all of them

\* Letters, digits, _ and $ on one side, the tags of encode_token on the other.
\* No longer name passes the deserializer (IDENTIFIER_SIZE_MAX is 255).
LayoutAssumption ==
    /\ Names \in Seq(Seq(36..122)) /\ \A k \in DOMAIN Names : Len(Names[k]) \in 1..255
    /\ Sigs \subseteq Seq(0..255) /\ \A sig \in Sigs : sig # <<>> /\ sig[1] \in 1..16
    /\ Abilities \subseteq 0..15
    /\ MaxStructs \in Nat /\ MaxParts \in Nat

Kinds == {"Native", "Declared", "DeclaredVariants"}
Field(n, sig) == [name |-> n, sig |-> sig]
Variant(n) == [name |-> n]
IsField(part) == "sig" \in DOMAIN part

VARIABLES old, new       \* the structs of two versions of a module, sorted by name
vars == <<old, new>>

-----------------------------------------------------------------------------
\* Mutant: of a variant only its fields are encoded.
PartBytesFieldsOnly(part) ==
    IF IsField(part) THEN Prefixed(part.name) \o Prefixed(part.sig) ELSE <<>>

\* A field, or the name of a variant.
PartBytes(part) ==
    IF IsField(part) THEN Prefixed(part.name) \o Prefixed(part.sig) ELSE Prefixed(part.name)

\* field_bytes, with the markers of native structs and of variants.
FieldBytes(s) ==
    LET parts == FlattenSeq([k \in DOMAIN s.parts |-> PartBytes(s.parts[k])]) IN
    CASE s.kind = "Native"           -> <<255>>
      [] s.kind = "Declared"         -> parts
      [] s.kind = "DeclaredVariants" -> <<254>> \o parts

\* The bytes of the structs in the hashed stream.
StructBytes(s) == s.name \o <<s.abilities>> \o Prefixed(FieldBytes(s))
StructsStream(module) ==
    Le32(Len(module)) \o FlattenSeq([k \in DOMAIN module |-> StructBytes(module[k])])

-----------------------------------------------------------------------------
Init == old = <<>> /\ new = <<>>

Rank(n) == CHOOSE k \in DOMAIN Names : Names[k] = n
Identifiers == {Names[k] : k \in DOMAIN Names}
Parts(module) == FoldLeft(LAMBDA n, s : n + Len(s.parts), 0, module)

\* One more struct; an enum has a variant from the start.
WithStruct(module, n, ab, kind) ==
    Append(module, [name |-> n, abilities |-> ab, kind |-> kind,
                    parts |-> IF kind = "DeclaredVariants" THEN <<Variant(Names[1])>> ELSE <<>>])
MayAddStruct(module, n) ==
    /\ Len(module) < MaxStructs
    /\ module # <<>> => Rank(Last(module).name) < Rank(n)

\* One more part of the last struct: no two variants of a name, and no two
\* fields of a name in a struct or a variant.
WithPart(module, part) == [module EXCEPT ![Len(module)].parts = Append(@, part)]
MayAddPart(module, part) ==
    /\ module # <<>> /\ Parts(module) < MaxParts
    /\ LET s == Last(module)
           heads == {k \in DOMAIN s.parts : ~IsField(s.parts[k])}
           start == IF heads = {} THEN 0 ELSE CHOOSE k \in heads : \A j \in heads : j <= k
       IN /\ s.kind # "Native"
          /\ s.kind = "Declared" => IsField(part)
          /\ IF IsField(part)
             THEN \A k \in (start + 1)..Len(s.parts) : s.parts[k].name # part.name
             ELSE \A k \in heads : s.parts[k].name # part.name

Part == {Field(n, sig) : n \in Identifiers, sig \in Sigs} \cup {Variant(n) : n \in Identifiers}
Edit(module) ==
    {WithStruct(module, n, ab, kind) :
        n \in {i \in Identifiers : MayAddStruct(module, i)}, ab \in Abilities, kind \in Kinds}
    \cup {WithPart(module, part) : part \in {p \in Part : MayAddPart(module, p)}}

Next ==
    \/ old' \in Edit(old) /\ UNCHANGED new
    \/ new' \in Edit(new) /\ UNCHANGED old

Spec == Init /\ [][Next]_vars

-----------------------------------------------------------------------------
(* Properties.                                                             *)

\* "Struct definitions with their abilities and field layouts" (abi.rs:20):
\* although nothing is counted, two modules with the same stream have the same
\* structs, with the same fields in the same variants.  What makes it so is
\* that a name and an encoded type never begin with the same byte.
LayoutDetermined == StructsStream(old) = StructsStream(new) => old = new

=============================================================================
