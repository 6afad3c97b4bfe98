---------------------------- MODULE ProtobufPack ----------------------------
(***************************************************************************)
(* protobuf_c_message_get_packed_size, protobuf_c_message_pack and         *)
(* protobuf_c_message_pack_to_buffer: the caller allocates as many bytes   *)
(* as the first one counts, the second one writes without a bound, and the *)
(* third one, which cannot go back in its buffer, relies on the counts for *)
(* the length prefixes.  And the scan of such bytes into members.          *)
(***************************************************************************)
EXTENDS ProtobufMessage, ProtobufWire

Total(numbers) == FoldLeft(LAMBDA sum, n : sum + n, 0, numbers)
Packed(f)    == f.label = "packed"

\* The elements of a repeated field, and the unknown fields.
Elements(heap, m, f) ==
  [i \in 1 .. m.q[Slot(f)] |-> heap[m.val[Slot(f)]].items[i]]
UnknownFields(heap, m) ==
  [i \in 1 .. m.nUnknown |-> heap[m.unknown].items[i]]

\* Whether a field that is not repeated is written at all.
Present(f, m) ==
  CASE f.label = "required"   -> TRUE
    [] IsOneof(f)             -> /\ m.q[Slot(f)] = f.id
                                 /\ f.kind \in {"message", "string"} => m.val[Slot(f)] # NULL
    [] f.label # "required" /\ ~IsOneof(f) ->
         IF Quantified(f) THEN m.q[Slot(f)] # 0 ELSE m.val[Slot(f)] # NULL

DataOf(heap, v) == IF v = NULL THEN <<>> ELSE heap[v].data

-----------------------------------------------------------------------------
\* What get_packed_size counts.
RECURSIVE PackedSize(_, _)

PrefixedSize(n) == Uint32Size(n) + n

ValueSize(heap, f, v) ==
  CASE f.kind = "scalar"              -> Int32Size(v)
    [] f.kind \in {"string", "bytes"} -> PrefixedSize(Len(DataOf(heap, v)))
    [] f.kind = "message" -> PrefixedSize(IF v = NULL THEN 0 ELSE PackedSize(heap, v))

RepeatedSize(heap, f, elements) ==
  LET n     == Len(elements)
      sizes == Total([i \in 1 .. n |-> ValueSize(heap, f, elements[i])])
  IN  CASE n = 0               -> 0
        [] n > 0 /\ Packed(f)  -> TagSize(f.id) + PrefixedSize(sizes)
        [] n > 0 /\ ~Packed(f) -> TagSize(f.id) * n + sizes

UnknownSize(heap, u) == TagSize(u.tag) + Len(DataOf(heap, u.data))

PackedSize(heap, b) ==
  LET m == heap[b]
      FieldSize(f) ==
        CASE Repeated(f)                    -> RepeatedSize(heap, f, Elements(heap, m, f))
          [] ~Repeated(f) /\ Present(f, m)  -> TagSize(f.id) + ValueSize(heap, f, m.val[Slot(f)])
          [] ~Repeated(f) /\ ~Present(f, m) -> 0
      fields == Descriptor[m.type]
  IN  Total([i \in DOMAIN fields |-> FieldSize(fields[i])])
        + Total([i \in 1 .. m.nUnknown |-> UnknownSize(heap, UnknownFields(heap, m)[i])])

-----------------------------------------------------------------------------
\* Seeded variant: the payload is not moved when its length needs a byte more
\* than was left for it.
PackedPayloadInPlace(f, values) ==
  LET payload == Flatten([i \in DOMAIN values |-> Int32Pack(values[i])])
      prefix  == Uint32Pack(Len(payload))
      room    == Uint32Size(Len(values))
  IN  TagPack(f.id, "len")
        \o [i \in 1 .. room + Len(payload) |->
              IF i \in DOMAIN prefix THEN prefix[i] ELSE payload[i - room]]

\* A packed field.  Room is left for the length as if every value took one
\* byte; if the length needs another one, the payload is moved by one byte.
PackedPayload(f, values) ==
  LET payload == Flatten([i \in DOMAIN values |-> Int32Pack(values[i])])
      prefix  == Uint32Pack(Len(payload))
      guess   == Uint32Size(Len(values))
      room    == IF Uint32Size(Len(payload)) # guess THEN guess + 1 ELSE guess
  IN  TagPack(f.id, "len")
        \o [i \in 1 .. room + Len(payload) |->
              IF i \in DOMAIN prefix THEN prefix[i] ELSE payload[i - room]]

\* The same appended to a buffer: the length is counted beforehand.
PayloadLength(values) == Total([i \in DOMAIN values |-> Int32Size(values[i])])
PayloadToBuffer(f, values) ==
  TagPack(f.id, "len") \o Uint32Pack(PayloadLength(values))
    \o Flatten([i \in DOMAIN values |-> Int32Pack(values[i])])

\* What pack writes, or pack_to_buffer appends.
RECURSIVE PackAs(_, _, _)

Prefixed(bytes) == Uint32Pack(Len(bytes)) \o bytes

\* An embedded message: pack leaves one byte for its length and moves it when
\* that is not enough, pack_to_buffer trusts the size that is counted for it.
PrefixedMessage(heap, v)   == Prefixed(PackAs(heap, v, FALSE))
MessageToBuffer(heap, v)   == Uint32Pack(PackedSize(heap, v)) \o PackAs(heap, v, TRUE)
PackMessage(heap, v, toBuffer) ==
  CASE v = NULL              -> <<0>>
    [] v # NULL /\ ~toBuffer -> PrefixedMessage(heap, v)
    [] v # NULL /\ toBuffer  -> MessageToBuffer(heap, v)

PackValue(heap, f, v, toBuffer) ==
  CASE f.kind = "scalar"              -> TagPack(f.id, "varint") \o Int32Pack(v)
    [] f.kind \in {"string", "bytes"} -> TagPack(f.id, "len") \o Prefixed(DataOf(heap, v))
    [] f.kind = "message" -> TagPack(f.id, "len") \o PackMessage(heap, v, toBuffer)

PackRepeated(heap, f, elements, toBuffer) ==
  CASE elements = <<>>              -> <<>>
    [] elements # <<>> /\ Packed(f) ->
         IF toBuffer THEN PayloadToBuffer(f, elements) ELSE PackedPayload(f, elements)
    [] elements # <<>> /\ ~Packed(f) ->
         Flatten([i \in DOMAIN elements |-> PackValue(heap, f, elements[i], toBuffer)])

PackUnknown(heap, u) == TagPack(u.tag, u.wire) \o DataOf(heap, u.data)

PackAs(heap, b, toBuffer) ==
  LET m == heap[b]
      PackField(f) ==
        CASE Repeated(f)                    ->
               PackRepeated(heap, f, Elements(heap, m, f), toBuffer)
          [] ~Repeated(f) /\ Present(f, m)  -> PackValue(heap, f, m.val[Slot(f)], toBuffer)
          [] ~Repeated(f) /\ ~Present(f, m) -> <<>>
      fields == Descriptor[m.type]
  IN  Flatten([i \in DOMAIN fields |-> PackField(fields[i])])
        \o Flatten([i \in 1 .. m.nUnknown |-> PackUnknown(heap, UnknownFields(heap, m)[i])])

Pack(heap, b)         == PackAs(heap, b, FALSE)
PackToBuffer(heap, b) == PackAs(heap, b, TRUE)

-----------------------------------------------------------------------------
\* The members that the scan of unpack cuts bytes into, one it rejects last.
Rejected == [tag |-> 1, wire |-> "bad", data |-> <<>>, sub |-> <<>>]

RECURSIVE Scanned(_, _)
Scanned(type, bytes) ==
  LET head    == ParseTag(bytes)
      rest    == SubSeq(bytes, head.used + 1, Len(bytes))
      n       == DataLen(head.wire, rest)
      raw     == SubSeq(rest, 1, n)
      content == SubSeq(raw, PrefixLen(raw) + 1, n)
      f       == FieldOf(type, head.tag)
      Member(data, sub) == [tag |-> head.tag, wire |-> head.wire, data |-> data, sub |-> sub]
      member  ==
        CASE ~HasField(type, head.tag)    -> Member(raw, <<>>)
          [] HasField(type, head.tag) /\ head.wire = "varint" ->
               Member(<<ParseInt32(raw, n)>>, <<>>)
          [] HasField(type, head.tag) /\ head.wire = "len" ->
               CASE Packable(f)         -> Member(Values(content), <<>>)
                 [] f.kind = "message"  -> Member(<<>>, Scanned(f.sub, content))
                 [] f.kind \in {"string", "bytes"} -> Member(content, <<>>)
          [] OTHER -> Member(<<>>, <<>>)
  IN  IF bytes = <<>> THEN <<>>
      ELSE IF head.used = 0 THEN <<Rejected>>
      ELSE IF n = 0 THEN <<Rejected>>
      ELSE <<member>> \o Scanned(type, SubSeq(rest, n + 1, Len(rest)))
=============================================================================
