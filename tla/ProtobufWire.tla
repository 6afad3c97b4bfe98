---------------------------- MODULE ProtobufWire ----------------------------
(***************************************************************************)
(* The bytes of protobuf-c: how tags and 32-bit varints are measured,      *)
(* written and read.  The measuring functions go by thresholds, the        *)
(* writing ones by loops, so that they can disagree.  Values of TLC's      *)
(* integers only: the 64-bit types, which repeat this with more bytes, and *)
(* the upper half of the unsigned 32-bit ones are left out.                *)
(***************************************************************************)
EXTENDS Integers, SequencesExt

WireType == [varint |-> 0, fixed64 |-> 1, len |-> 2, fixed32 |-> 5]

\* get_tag_size, uint32_size, int32_size.
TagSize(number) ==
  CASE number < 2^4 -> 1
    [] number \in 2^4  .. 2^11 - 1 -> 2
    [] number \in 2^11 .. 2^18 - 1 -> 3
    [] number \in 2^18 .. 2^25 - 1 -> 4
    [] number >= 2^25 -> 5

Uint32Size(v) ==
  CASE v < 2^7 -> 1
    [] v \in 2^7  .. 2^14 - 1 -> 2
    [] v \in 2^14 .. 2^21 - 1 -> 3
    [] v \in 2^21 .. 2^28 - 1 -> 4
    [] v >= 2^28 -> 5

Int32Size(v) == IF v < 0 THEN 10 ELSE Uint32Size(v)

-----------------------------------------------------------------------------
\* uint32_pack, int32_pack and tag_pack, the wire type put into the first byte.
RECURSIVE Uint32Pack(_)
Uint32Pack(v) ==
  IF v < 128 THEN <<v>> ELSE <<(v % 128) + 128>> \o Uint32Pack(v \div 128)

Int32Pack(v) ==
  IF v >= 0 THEN Uint32Pack(v)
  ELSE [i \in 1 .. 4 |-> ((v \div 128^(i - 1)) % 128) + 128]
         \o <<((v \div 2^28) % 16) + 240, 255, 255, 255, 255, 1>>

TagPack(id, wire) ==
  LET bytes == Uint32Pack(id * 8) IN [bytes EXCEPT ![1] = @ + WireType[wire]]

-----------------------------------------------------------------------------
\* How many bytes the varint at the head has, 0 if it has more than max.
VarintLen(bytes, max) ==
  LET ends == {i \in DOMAIN bytes : i <= max /\ bytes[i] < 128}
  IN  IF ends = {} THEN 0 ELSE Min(ends)

\* The first n bytes as a varint: parse_uint32, whose fifth byte keeps 4 bits.
Digits(bytes, n) ==
  FoldLeft(LAMBDA sum, i : sum + (bytes[i] % 128) * 128^(i - 1), 0,
           [i \in 1 .. IF n < 4 THEN n ELSE 4 |-> i])
ParseInt32(bytes, n) ==
  LET top == IF n < 5 THEN 0 ELSE bytes[5] % 16
  IN  Digits(bytes, n) + (IF top < 8 THEN top ELSE top - 16) * 2^28

\* parse_tag_and_wiretype: the bytes used, 0 for a tag that is not valid.
ParseTag(bytes) ==
  LET used == IF bytes[1] < 8 THEN 0 ELSE VarintLen(bytes, 5)
      low  == (bytes[1] % 128) \div 8
      high == FoldLeft(LAMBDA sum, i : sum + (bytes[i] % 128) * 2^(4 + 7 * (i - 2)), 0,
                       [i \in 1 .. used - 1 |-> i + 1])
      known == {w \in DOMAIN WireType : WireType[w] = bytes[1] % 8}
  IN  IF used = 0 \/ known = {} THEN [used |-> 0]
      ELSE [used |-> used, tag |-> low + high, wire |-> CHOOSE w \in known : TRUE]

\* The bytes of a member behind its tag, and of its length prefix; 0 if they
\* are not all there (scan_length_prefixed_data and the switch of unpack).
PrefixLen(bytes) == VarintLen(bytes, 5)
DataLen(wire, bytes) ==
  LET whole(n) == IF n > Len(bytes) THEN 0 ELSE n
      prefix   == PrefixLen(bytes)
  IN  CASE wire = "varint"  -> VarintLen(bytes, 10)
        [] wire = "fixed64" -> whole(8)
        [] wire = "fixed32" -> whole(4)
        [] wire = "len"     -> IF prefix = 0 THEN 0 ELSE whole(prefix + ParseInt32(bytes, prefix))

\* The values of a packed field, up to one that breaks off.
RECURSIVE Values(_)
Values(bytes) ==
  LET n == VarintLen(bytes, 10)
  IN  IF n = 0 THEN <<>>
      ELSE <<ParseInt32(bytes, n)>> \o Values(SubSeq(bytes, n + 1, Len(bytes)))
=============================================================================
