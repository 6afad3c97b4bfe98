--------------------------- MODULE FlatbufferBytes ---------------------------
(***************************************************************************)
(* Numbers in the protocol encoding of flatbuffers                         *)
(* (flatcc/include/flatcc/flatcc_types.h and flatcc_endian.h): uoffset_t   *)
(* and soffset_t of four bytes, voffset_t of two, utype_t of one, little   *)
(* endian, wrapping at their width.  A byte has Radix values instead of    *)
(* 256, so that every uoffset_t is a number TLC can hold.                  *)
(***************************************************************************)
EXTENDS Integers, Sequences

CONSTANT Radix       \* values of a byte

ASSUME RadixAssumption == Radix \in Nat \ {0, 1}

field_size == 4      \* sizeof(uoffset_t)
voffset_size == 2    \* sizeof(voffset_t)
utype_size == 1      \* sizeof(utype_t)

VOFFSET_MAX == Radix * Radix - 1
UOFFSET_MAX == Radix * Radix * Radix * Radix - 1

uoffset(x) == x % (UOFFSET_MAX + 1)
voffset(x) == x % (VOFFSET_MAX + 1)
\* The soffset_t with the bits of the uoffset_t u.
soffset(u) == IF 2 * u > UOFFSET_MAX THEN u - UOFFSET_MAX - 1 ELSE u

\* The bytes of x as a number of n bytes, and the number a string of bytes is.
write(x, n) == [i \in 1 .. n |-> (x \div Radix^(i - 1)) % Radix]
read(bytes) ==
    LET n == Len(bytes)
        value[i \in 0 .. n] ==
            IF i = 0 THEN 0 ELSE bytes[n - i + 1] + Radix * value[i - 1]
    IN  value[n]

write_uoffset(x) == write(uoffset(x), field_size)
write_voffset(x) == write(voffset(x), voffset_size)

\* n zero bytes.
_pad(n) == [i \in 1 .. n |-> 0]

\* alignup_uoffset: x rounded up to a multiple of align.
alignup(x, align) == ((x + align - 1) \div align) * align

-----------------------------------------------------------------------------
(* A buffer is part of a piece of memory: the first of buf.bytes lies at an *)
(* address aligned for everything, and the buffer starts buf.at behind it.  *)

OutOfBounds == Radix      \* a byte outside the memory has no value

ByteAt(buf, at) == IF buf.at + at + 1 \in DOMAIN buf.bytes
                   THEN buf.bytes[buf.at + at + 1] ELSE OutOfBounds
BytesAt(buf, at, n) == [i \in 1 .. n |-> ByteAt(buf, at + i - 1)]

read_uoffset(buf, at) == uoffset(read(BytesAt(buf, at, field_size)))
read_voffset(buf, at) == voffset(read(BytesAt(buf, at, voffset_size)))
=============================================================================
