------------------------------- MODULE AbiBytes -------------------------------
(***************************************************************************)
(* Numbers and lengths in the stream of the ABI hash (abi.rs): casts that  *)
(* drop high bits, and little-endian bytes.                                *)
(***************************************************************************)
EXTENDS Naturals, Sequences

\* The values of a u16.
U16 == 0..65535

\* as u8
AsU8(n) == n % 256

\* to_le_bytes of a u16, and of a length cast to u32.
Le16(n) == <<n % 256, (n \div 256) % 256>>
Le32(n) == <<n % 256, (n \div 256) % 256, (n \div 65536) % 256, (n \div 16777216) % 256>>

\* Bytes behind their length.
Prefixed(bytes) == Le32(Len(bytes)) \o bytes

=============================================================================
