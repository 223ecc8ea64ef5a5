----------------------------- MODULE AbiEncoding -----------------------------
(***************************************************************************)
(* How the ABI hash sees a function's types (nexus-move-runtime abi.rs):   *)
(* encode_token over signature tokens, concatenated per signature, and the *)
(* entry of a function in the hashed stream.  Two versions of one public   *)
(* function are compared, as an upgrade under Compatible compares them.    *)
(*                                                                         *)
(* A struct type in a signature is an index into its own module's table of *)
(* struct handles; which struct that is, the encoding does not say.        *)
(* Parameter and return types are added step by step.                      *)
(***************************************************************************)
EXTENDS AbiBytes, SequencesExt

CONSTANTS
    SimpleTags,      \* tags of the types without content: bool, u8, ..., signer
    Indices,         \* struct handle indices that appear in signatures
    Parameters,      \* indices of type parameters that appear in signatures
    Abilities,       \* abilities of function types
    Elements,        \* bound: types that may appear inside other types
    MaxNesting,      \* bound: how deep types are nested
    MaxArgs,         \* types in a list inside a type
    MaxTypes         \* bound: types of a signature

\* No longer list passes the deserializer (SIGNATURE_SIZE_MAX and
\* TYPE_PARAMETER_COUNT_MAX are 255).
AbiEncodingAssumption ==
    /\ SimpleTags \subseteq 1..9 /\ Abilities \subseteq 0..15
    /\ Indices \subseteq U16 /\ Parameters \subseteq U16
    /\ MaxArgs \in 0..255 /\ MaxNesting \in Nat /\ MaxTypes \in Nat

SimpleTok(tag) == [tag |-> tag]
StructTok(i) == [tag |-> 11, idx |-> i]
VectorTok(t) == [tag |-> 10, inner |-> t]
InstTok(i, args) == [tag |-> 12, idx |-> i, args |-> args]
RefTok(t) == [tag |-> 13, inner |-> t]
MutRefTok(t) == [tag |-> 14, inner |-> t]
ParamTok(i) == [tag |-> 15, idx |-> i]
FunctionTok(params, ret, ab) == [tag |-> 16, params |-> params, ret |-> ret, abilities |-> ab]

\* The types that hold none but inner ones, and the types by their nesting.
Lists(inner) == BoundedSeq(inner, MaxArgs)
TypesOver(inner) ==
    {SimpleTok(tag) : tag \in SimpleTags}
    \cup {StructTok(i) : i \in Indices} \cup {ParamTok(i) : i \in Parameters}
    \cup {VectorTok(t) : t \in inner} \cup {RefTok(t) : t \in inner}
    \cup {MutRefTok(t) : t \in inner}
    \cup {InstTok(i, args) : i \in Indices, args \in Lists(inner) \ {<<>>}}
    \cup {FunctionTok(ps, rs, ab) : ps \in Lists(inner), rs \in Lists(inner), ab \in Abilities}
Types[n \in 0..MaxNesting] == TypesOver(IF n = 0 THEN {} ELSE Elements \cap Types[n-1])
Token == Types[MaxNesting]

VARIABLES old, new       \* the signatures of two versions of the function
vars == <<old, new>>

-----------------------------------------------------------------------------
\* Mutant: lists within a token are encoded without their counts.
NoCount(ts) == <<>>

\* The length of a list within a token.
Count(ts) == <<AsU8(Len(ts))>>

\* encode_token, where encode is what its recursive calls write.
EncodeAll(encode, ts) == FlattenSeq([k \in DOMAIN ts |-> encode[ts[k]]])
TokenBytes(encode, t) ==
    CASE t.tag \in 1..9        -> <<t.tag>>
      [] t.tag \in {10, 13, 14} -> <<t.tag>> \o encode[t.inner]
      [] t.tag \in {11, 15}    -> <<t.tag>> \o Le16(t.idx)
      [] t.tag = 12            -> <<12>> \o Le16(t.idx) \o Count(t.args) \o EncodeAll(encode, t.args)
      [] t.tag = 16            -> <<16>> \o Count(t.params) \o EncodeAll(encode, t.params)
                                         \o Count(t.ret) \o EncodeAll(encode, t.ret)
                                         \o <<t.abilities>>
EncodeToken[t \in Token] == TokenBytes(EncodeToken, t)

\* signature_tokens_to_bytes: no count, the tokens one after the other.
SignatureTokensToBytes(ts) == EncodeAll(EncodeToken, ts)

\* The part of a function's entry that its types determine.
FunctionEntry(f) ==
    Prefixed(SignatureTokensToBytes(f.params)) \o Prefixed(SignatureTokensToBytes(f.ret))

-----------------------------------------------------------------------------
NoTypes == [params |-> <<>>, ret |-> <<>>]
Init == old = NoTypes /\ new = NoTypes

WithType(f, t) == {[f EXCEPT !.params = Append(@, t)], [f EXCEPT !.ret = Append(@, t)]}
Edit(f) == {g \in UNION {WithType(f, t) : t \in Token} : Len(g.params) + Len(g.ret) <= MaxTypes}

Next ==
    \/ old' \in Edit(old) /\ UNCHANGED new
    \/ new' \in Edit(new) /\ UNCHANGED old

Spec == Init /\ [][Next]_vars

-----------------------------------------------------------------------------
(* Properties.                                                             *)

\* The bytes determine the signature's tokens: tokens are concatenated without
\* a separator, and lists within a token are marked by a count of one byte
\* only, yet no two signatures run together into the same stream
\* (signature_tokens_to_bytes, encode_token).
BytesDetermineTokens ==
    FunctionEntry(old) = FunctionEntry(new) => old.params = new.params /\ old.ret = new.ret

=============================================================================
