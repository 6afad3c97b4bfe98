-------------------------- MODULE ProtobufMessage --------------------------
(***************************************************************************)
(* Messages of protobuf-c: their descriptors, how a message lies in        *)
(* allocated blocks, how two of them are merged, and what serialised data  *)
(* means.  Serialised data is a sequence of members, as the scan of        *)
(* protobuf_c_message_unpack cuts it: a tag, a wire type ("bad" if the     *)
(* scan rejects the member) and either values or the members of an         *)
(* embedded message.  Fields have no default values.                       *)
(***************************************************************************)
EXTENDS Integers, SequencesExt

CONSTANTS
  Descriptor,     \* of each message type: the sequence of its fields
  SlabCapacity    \* members that the slabs of unpack can take together

\* No block, an empty field; not a field of a oneof.
NULL   == 0
Absent == "absent"

\* Among the values of a packed field, the varint that the data breaks off in:
\* a number that no instance uses as a value.
Cut == -2147483647

Fields(type) == ToSet(Descriptor[type])
HasField(type, tag) == \E f \in Fields(type) : f.id = tag
FieldOf(type, tag)  == CHOOSE f \in Fields(type) : f.id = tag

\* Where a field is stored: the fields of a oneof share their place.
IsOneof(f)  == f.oneof # Absent
Slot(f)     == IF IsOneof(f) THEN f.oneof ELSE ToString(f.id)
Slots(type) == {Slot(f) : f \in Fields(type)}

Repeated(f) == f.label \in {"repeated", "packed"}
Packable(f) == f.kind = "scalar"

\* The fields with a quantifier: a count, a has_ flag or a oneof's case.
Quantified(f) ==
  \/ Repeated(f) \/ IsOneof(f)
  \/ f.label = "optional" /\ f.kind \in {"scalar", "bytes"}

-----------------------------------------------------------------------------
\* Blocks.  A heap maps the blocks that are allocated to what they hold; a
\* message has a quantifier and a value or a block for each slot.
NewMessage(type) ==
  [is |-> "message", type |-> type,
   q |-> [s \in Slots(type) |-> 0], val |-> [s \in Slots(type) |-> NULL],
   unknown |-> NULL, nUnknown |-> 0]
NewArray(n)    == [is |-> "array", items |-> [i \in 1 .. n |-> NULL]]
NewBytes(data) == [is |-> "bytes", data |-> data]
NewScratch     == [is |-> "scratch"]

Fresh(heap) == CHOOSE b \in 1 .. Cardinality(DOMAIN heap) + 1 : b \notin DOMAIN heap
Without(heap, blocks) == [b \in DOMAIN heap \ blocks |-> heap[b]]
With(heap, b, block)  == [x \in DOMAIN heap \cup {b} |-> IF x = b THEN block ELSE heap[x]]

Flatten(seqs)   == FoldLeft(LAMBDA done, s : done \o s, <<>>, seqs)
NonNull(blocks) == SelectSeq(blocks, LAMBDA b : b # NULL)

\* The blocks that protobuf_c_message_free_unpacked frees, in order.  One that
\* is not allocated any more is freed like any other.
RECURSIVE FreeUnpacked(_, _)
FreeUnpacked(heap, b) ==
  LET m == heap[b]
      FreeOne(f, v) ==
        CASE f.kind = "scalar"              -> <<>>
          [] f.kind \in {"string", "bytes"} -> NonNull(<<v>>)
          [] f.kind = "message"             -> FreeUnpacked(heap, v)
      FreeArray(f, arr) ==
        IF arr \notin DOMAIN heap THEN NonNull(<<arr>>)
        ELSE Append(Flatten([i \in 1 .. m.q[Slot(f)] |-> FreeOne(f, heap[arr].items[i])]), arr)
      FreeField(f) ==
        CASE IsOneof(f) /\ m.q[Slot(f)] # f.id -> <<>>
          [] Repeated(f)                       -> FreeArray(f, m.val[Slot(f)])
          [] OTHER                             -> FreeOne(f, m.val[Slot(f)])
      FreeUnknown ==
        IF m.unknown = NULL THEN <<>>
        ELSE NonNull([i \in 1 .. m.nUnknown |-> heap[m.unknown].items[i].data]) \o <<m.unknown>>
  IN  IF b \notin DOMAIN heap THEN NonNull(<<b>>)
      ELSE Flatten([i \in DOMAIN Descriptor[m.type] |-> FreeField(Descriptor[m.type][i])])
             \o FreeUnknown \o <<b>>

-----------------------------------------------------------------------------
\* merge_messages: what the earlier message e sets goes to the later one l.

\* Seeded variant: the earlier message keeps its pointer.
MovedTwice(h, e, l, s) ==
  [h EXCEPT ![l].q[s] = h[e].q[s], ![l].val[s] = h[e].val[s]]

\* The contents of slot s handed over without a copy.
Moved(h, e, l, s) ==
  [h EXCEPT ![l].q[s] = h[e].q[s], ![l].val[s] = h[e].val[s],
            ![e].q[s] = 0,         ![e].val[s] = NULL]

\* Seeded variant: the later elements come first.
JoinedBackwards(h, e, l, s) ==
  LET Items(m) == SubSeq(h[h[m].val[s]].items, 1, h[m].q[s])
      freed    == Without(h, {h[e].val[s], h[l].val[s]})
      array    == [is |-> "array", items |-> Items(l) \o Items(e)]
  IN  [With(freed, Fresh(freed), array) EXCEPT
         ![l].q[s] = @ + h[e].q[s], ![l].val[s] = Fresh(freed),
         ![e].q[s] = 0,             ![e].val[s] = NULL]

\* The two arrays of a repeated field copied into a new one.
Joined(h, e, l, s) ==
  LET Items(m) == SubSeq(h[h[m].val[s]].items, 1, h[m].q[s])
      freed    == Without(h, {h[e].val[s], h[l].val[s]})
      array    == [is |-> "array", items |-> Items(e) \o Items(l)]
  IN  [With(freed, Fresh(freed), array) EXCEPT
         ![l].q[s] = @ + h[e].q[s], ![l].val[s] = Fresh(freed),
         ![e].q[s] = 0,             ![e].val[s] = NULL]

\* Whether a field other than an embedded message that both set is handed over.
NeedToMerge(f, early, late) ==
  IF f.kind = "scalar" THEN early.q[Slot(f)] # 0 /\ late.q[Slot(f)] = 0
  ELSE early.val[Slot(f)] # NULL /\ late.val[Slot(f)] = NULL

\* What merging the fields from the n-th on can come to: "ok", "denied" when an
\* allocation fails, "oneof" when no field is found for a oneof's case.
RECURSIVE Merge(_, _, _, _)
Merge(h, e, l, n) ==
  LET type == h[l].type
      f == Descriptor[type][n]
      s == Slot(f)
      g == IF IsOneof(f) THEN FieldOf(type, h[e].q[s]) ELSE f
      next(heap) == Merge(heap, e, l, n + 1)
  IN  CASE n > Len(Descriptor[type]) -> {[heap |-> h, result |-> "ok"]}
        [] n <= Len(Descriptor[type]) ->
             CASE Repeated(f) ->
                    IF h[e].q[s] = 0 THEN next(h)
                    ELSE IF h[l].q[s] = 0 THEN next(Moved(h, e, l, s))
                    ELSE {[heap |-> h, result |-> "denied"]} \cup next(Joined(h, e, l, s))
               [] f.label = "required" \/ (IsOneof(f) /\ h[l].q[s] # 0) -> next(h)
               [] IsOneof(f) /\ h[l].q[s] = 0 /\ ~HasField(type, h[e].q[s]) ->
                    {[heap |-> h, result |-> "oneof"]}
               [] OTHER ->
                    IF g.kind = "message" /\ h[e].val[s] # NULL /\ h[l].val[s] # NULL
                    THEN UNION {IF o.result = "ok" THEN next(o.heap) ELSE {o} :
                                  o \in Merge(h, h[e].val[s], h[l].val[s], 1)}
                    ELSE next(IF NeedToMerge(g, h[e], h[l]) THEN Moved(h, e, l, s) ELSE h)

-----------------------------------------------------------------------------
\* protobuf_c_message_check: nothing that is counted or required is missing.
RECURSIVE Check(_, _)
Check(heap, b) ==
  LET m == heap[b]
      CheckOne(f, v) ==
        CASE f.kind = "message" -> Check(heap, v)
          [] f.kind = "string"  -> v # NULL
          [] OTHER              -> TRUE
      CheckField(f) ==
        LET v == m.val[Slot(f)]
            n == m.q[Slot(f)]
        IN  CASE IsOneof(f) /\ n # f.id    -> TRUE
              [] Repeated(f)               ->
                   n > 0 => v # NULL /\ \A i \in 1 .. n : CheckOne(f, heap[v].items[i])
              [] f.label = "required"      -> CheckOne(f, v)
              [] f.label = "optional" /\ (IsOneof(f) => n = f.id) ->
                   f.kind = "message" /\ v # NULL => Check(heap, v)
  IN  b # NULL /\ \A f \in Fields(m.type) : CheckField(f)

-----------------------------------------------------------------------------
\* What a message in the heap says: of each field that is set, its value.
RECURSIVE Content(_, _)
Content(heap, b) ==
  LET m == heap[b]
      One(f, v) ==
        CASE f.kind = "scalar"  -> v
          [] f.kind = "message" -> Content(heap, v)
          [] OTHER              -> IF v = NULL THEN <<>> ELSE heap[v].data
      IsSet(f) ==
        CASE IsOneof(f)             -> m.q[Slot(f)] = f.id
          [] f.label = "required"   -> TRUE
          [] ~IsOneof(f) /\ f.label # "required" ->
               IF Quantified(f) THEN m.q[Slot(f)] # 0 ELSE m.val[Slot(f)] # NULL
      Value(f) ==
        IF Repeated(f)
        THEN [i \in 1 .. m.q[Slot(f)] |-> One(f, heap[m.val[Slot(f)]].items[i])]
        ELSE One(f, m.val[Slot(f)])
  IN  [id \in {f.id : f \in {g \in Fields(m.type) : IsSet(g)}} |-> Value(FieldOf(m.type, id))]

\* The members of fields that the descriptor does not know, which are kept as
\* they are; the data of such a member are its raw bytes.
Unknown(type, members) == SelectSeq(members, LAMBDA s : ~HasField(type, s.tag))

UnknownOf(heap, b) ==
  [i \in 1 .. heap[b].nUnknown |->
     LET u == heap[heap[b].unknown].items[i]
     IN  [tag |-> u.tag, wire |-> u.wire, data |-> heap[u.data].data, sub |-> <<>>]]
=============================================================================
