--------------------------- MODULE ProtobufUnpack ---------------------------
(***************************************************************************)
(* protobuf_c_message_unpack, one allocation at a time: the data is        *)
(* scanned into slabs, arrays are allocated for the repeated fields, and   *)
(* then each member is parsed, an embedded message by a call of unpack.    *)
(* Every allocation may fail; what was allocated by then must be freed.    *)
(***************************************************************************)
EXTENDS ProtobufMeaning, ProtobufPack

CONSTANTS
  Top,          \* the type that is unpacked
  Inputs,       \* serialised data to unpack it from
  FirstSlab,    \* members in the slab on the stack
  MaxSlab,      \* slabs that can be allocated, each twice as large
  BitmapFields  \* fields for which the bitmap on the stack suffices

VARIABLES
  input,     \* the data
  stack,     \* the calls of unpack that have not returned
  ret,       \* what the last one returned
  heap,
  denied,    \* an allocation has failed
  wrongFree, \* a block was freed that was not allocated
  overrun    \* an element was stored behind its array

vars == <<input, stack, ret, heap, denied, wrongFree, overrun>>

Power2[n \in Nat] == IF n = 0 THEN 1 ELSE 2 * Power2[n - 1]

ASSUME ProtobufUnpackAssumption ==
  SlabCapacity = FirstSlab * (Power2[MaxSlab + 1] - 1)

Call(type, data) ==
  [type |-> type, rem |-> data, phase |-> "enter", msg |-> NULL, bitmap |-> NULL,
   slabs |-> <<>>, inSlab |-> 0, scanned |-> <<>>, seen |-> {}, n |-> 1]

Init ==
  /\ input \in Inputs
  /\ stack = <<Call(Top, input)>>
  /\ ret = NULL /\ heap = [b \in {} |-> NULL]
  /\ denied = FALSE /\ wrongFree = FALSE /\ overrun = FALSE

-----------------------------------------------------------------------------
\* The call that is running, its message and the fields of that.
frame == Last(stack)
msg   == heap[frame.msg]
desc  == Descriptor[frame.type]
At(phase) == stack # <<>> /\ frame.phase = phase

Go(changed)  == stack' = Append(Front(stack), changed)
Goto(phase, n) == [frame EXCEPT !.phase = phase, !.n = n]
Return(b)    == stack' = Front(stack) /\ ret' = b

SetMsg(h, m)      == With(h, frame.msg, m)

\* The blocks are freed one after the other; the heap was h before.
Frees(h, blocks) ==
  wrongFree' = (wrongFree \/ ~IsInjective(blocks) \/ ~(ToSet(blocks) \subseteq DOMAIN h))

Free(h, blocks) == heap' = Without(h, ToSet(blocks)) /\ Frees(h, blocks)

\* The slabs and the bitmap, which every return frees.
Scratch == NonNull(frame.slabs \o <<frame.bitmap>>)

\* error_cleanup_during_scan, and error_cleanup.
ScanError(h) ==
  /\ Free(h, <<frame.msg>> \o Scratch)
  /\ Return(NULL)

\* What was freed since the last step is given: h still has it.
CleanupAfter(freed, h) ==
  /\ Free(h, freed \o FreeUnpacked(h, frame.msg) \o Scratch)
  /\ Return(NULL)

Cleanup(h) == CleanupAfter(<<>>, h)

Keep == UNCHANGED <<ret, wrongFree>>

-----------------------------------------------------------------------------
\* The message is allocated, the bitmap too if it has many fields.
Enter ==
  /\ At("enter")
  /\ LET b == Fresh(heap)
         h == With(heap, b, NewMessage(frame.type))
         large == Len(desc) > BitmapFields
     IN  \/ /\ denied' = TRUE
            /\ Return(NULL)
            /\ UNCHANGED <<heap, wrongFree>>
         \/ /\ large
            /\ denied' = TRUE
            /\ Free(h, <<b>>)
            /\ Return(NULL)
         \/ /\ heap' = IF large THEN With(h, Fresh(h), NewScratch) ELSE h
            /\ Go([Goto("scan", 1) EXCEPT !.msg = b, !.bitmap = IF large THEN Fresh(h) ELSE NULL])
            /\ UNCHANGED denied /\ Keep
  /\ UNCHANGED <<input, overrun>>

\* How many elements a member adds to a repeated field.
Adds(f, s) ==
  IF s.wire = "len" /\ Packable(f) THEN Len(SelectSeq(s.data, LAMBDA v : v # Cut)) ELSE 1

WithCount(s) ==
  IF HasField(frame.type, s.tag) /\ Repeated(FieldOf(frame.type, s.tag))
  THEN LET f == FieldOf(frame.type, s.tag)
       IN  SetMsg(heap, [msg EXCEPT !.q[Slot(f)] = @ + Adds(f, s)])
  ELSE heap

SlabFull == frame.inSlab = FirstSlab * Power2[Len(frame.slabs)]

\* One turn of the scan.
Scan ==
  /\ At("scan") /\ frame.rem # <<>>
  /\ LET s    == Head(frame.rem)
         next == [frame EXCEPT !.rem = Tail(@), !.scanned = Append(@, s),
                               !.seen = @ \cup {s.tag}, !.inSlab = @ + 1]
     IN  \/ /\ s.wire = "bad" \/ (SlabFull /\ Len(frame.slabs) = MaxSlab)
            /\ ScanError(heap)
            /\ UNCHANGED denied
         \/ /\ s.wire # "bad" /\ SlabFull /\ Len(frame.slabs) < MaxSlab
            /\ \/ /\ denied' = TRUE
                  /\ ScanError(heap)
               \/ /\ heap' = With(WithCount(s), Fresh(heap), NewScratch)
                  /\ Go([next EXCEPT !.slabs = Append(@, Fresh(heap)), !.inSlab = 1])
                  /\ UNCHANGED denied /\ Keep
         \/ /\ s.wire # "bad" /\ ~SlabFull
            /\ heap' = WithCount(s)
            /\ Go(next)
            /\ UNCHANGED denied /\ Keep
  /\ UNCHANGED <<input, overrun>>

ScanEnds ==
  /\ At("scan") /\ frame.rem = <<>>
  /\ Go(Goto("arrays", 1))
  /\ UNCHANGED <<input, heap, denied, overrun>> /\ Keep

\* CLEAR_REMAINING_N_PTRS, and the count of field number n itself.
ClearFrom(n) ==
  LET cleared == {Slot(desc[i]) : i \in {j \in n .. Len(desc) : Repeated(desc[j])}}
  IN  SetMsg(heap, [msg EXCEPT !.q = [s \in DOMAIN @ |-> IF s \in cleared THEN 0 ELSE @[s]]])

\* Seeded variant: the count is not reset before the elements are parsed.
ArrayInPlace(b, f) ==
  With(SetMsg(heap, [msg EXCEPT !.val[Slot(f)] = b]), b, NewArray(msg.q[Slot(f)]))

\* The array b for a repeated field; its count starts again from 0.
ArrayOf(b, f) ==
  With(SetMsg(heap, [msg EXCEPT !.q[Slot(f)] = 0, !.val[Slot(f)] = b]),
       b, NewArray(msg.q[Slot(f)]))

\* The arrays of the repeated fields, and the check of the required ones.
Arrays ==
  /\ At("arrays") /\ frame.n <= Len(desc)
  /\ LET f     == desc[frame.n]
         array == Repeated(f) /\ msg.q[Slot(f)] # 0
         next  == [frame EXCEPT !.n = @ + 1]
     IN  \/ /\ array
            /\ \/ /\ denied' = TRUE
                  /\ Cleanup(ClearFrom(frame.n))
               \/ /\ heap' = ArrayOf(Fresh(heap), f)
                  /\ Go(next)
                  /\ UNCHANGED denied /\ Keep
         \/ /\ f.label = "required" /\ f.id \notin frame.seen
            /\ Cleanup(ClearFrom(frame.n))
            /\ UNCHANGED denied
         \/ /\ ~array
            /\ f.label = "required" => f.id \in frame.seen
            /\ Go(next)
            /\ UNCHANGED <<heap, denied>> /\ Keep
  /\ UNCHANGED <<input, overrun>>

\* The array of unknown fields.
UnknownArray ==
  /\ At("arrays") /\ frame.n > Len(desc)
  /\ LET n == Len(Unknown(frame.type, frame.scanned))
     IN  \/ /\ n # 0
            /\ denied' = TRUE
            /\ Cleanup(heap)
         \/ /\ heap' = IF n = 0 THEN heap
                       ELSE With(SetMsg(heap, [msg EXCEPT !.unknown = Fresh(heap)]),
                                 Fresh(heap), NewArray(n))
            /\ Go(Goto("parse", 1))
            /\ UNCHANGED denied /\ Keep
  /\ UNCHANGED <<input, overrun>>

-----------------------------------------------------------------------------
\* Parsing.  The member that is parsed and its field.
member == frame.scanned[frame.n]
field  == FieldOf(frame.type, member.tag)
AtMember == At("parse") /\ frame.n <= Len(frame.scanned)

Continue == Go([frame EXCEPT !.n = @ + 1])

\* A member of an unknown field is copied.
ParseUnknown ==
  /\ AtMember /\ ~HasField(frame.type, member.tag)
  /\ LET b == Fresh(heap)
         Counted(data) ==
           [SetMsg(heap, [msg EXCEPT !.nUnknown = @ + 1]) EXCEPT
              ![msg.unknown].items[msg.nUnknown + 1] =
                [tag |-> member.tag, wire |-> member.wire, data |-> data]]
     IN  \/ /\ denied' = TRUE
            /\ Cleanup(Counted(NULL))
         \/ /\ heap' = With(Counted(b), b, NewBytes(member.data))
            /\ Continue
            /\ UNCHANGED denied /\ Keep
  /\ UNCHANGED <<input, overrun>>

\* What the fields of a oneof have stored is freed before one is parsed.
OldOneof ==
  IF ~IsOneof(field) \/ msg.q[Slot(field)] = 0 THEN <<>>
  ELSE LET old == FieldOf(frame.type, msg.q[Slot(field)])
           v   == msg.val[Slot(field)]
       IN  CASE old.kind = "scalar"              -> <<>>
             [] old.kind \in {"string", "bytes"} -> NonNull(<<v>>)
             [] old.kind = "message"             -> FreeUnpacked(heap, v)

\* What a string or bytes field has stored is freed before the new value.
OldValue ==
  IF Repeated(field) \/ IsOneof(field) \/ field.kind \notin {"string", "bytes"} THEN OldOneof
  ELSE NonNull(<<msg.val[Slot(field)]>>)

Emptied(h) == IF Repeated(field) THEN h ELSE SetMsg(h, [h[frame.msg] EXCEPT !.val[Slot(field)] = NULL])

\* v in the field, or behind the elements of its array; the quantifier counts it.
\* An element that does not fit is not in the heap.
Fits == msg.q[Slot(field)] < Len(heap[msg.val[Slot(field)]].items)
Put(h, v) ==
  IF ~Repeated(field) THEN SetMsg(h, [h[frame.msg] EXCEPT !.val[Slot(field)] = v])
  ELSE IF Fits THEN [h EXCEPT ![msg.val[Slot(field)]].items[msg.q[Slot(field)] + 1] = v]
  ELSE h
Count(h) ==
  LET s == Slot(field)
  IN  SetMsg(h, [h[frame.msg] EXCEPT
                   !.q[s] = CASE Repeated(field)                   -> @ + 1
                              [] IsOneof(field)                    -> member.tag
                              [] ~Repeated(field) /\ ~IsOneof(field) ->
                                   IF Quantified(field) THEN 1 ELSE @])
Overruns == overrun' = (overrun \/ (Repeated(field) /\ ~Fits))

Known    == AtMember /\ HasField(frame.type, member.tag)
IsPacked == Repeated(field) /\ Packable(field) /\ member.wire = "len"
WireOf   == IF field.kind = "scalar" THEN "varint" ELSE "len"

\* The wire type is not the one of the field.
ParseMismatch ==
  /\ Known /\ ~IsPacked /\ member.wire # WireOf
  /\ CleanupAfter(OldOneof, IF IsOneof(field) THEN Emptied(heap) ELSE heap)
  /\ UNCHANGED <<input, denied, overrun>>

ParseScalar ==
  /\ Known /\ field.kind = "scalar" /\ member.wire = "varint"
  /\ LET h == Count(Put(Emptied(heap), member.data[1]))
     IN  heap' = Without(h, ToSet(OldOneof)) /\ Frees(heap, OldOneof)
  /\ Overruns
  /\ Continue
  /\ UNCHANGED <<input, ret, denied>>

\* A string or bytes; for bytes without content nothing is allocated.
ParseString ==
  /\ Known /\ field.kind \in {"string", "bytes"} /\ member.wire = "len"
  /\ LET empty == field.kind = "bytes" /\ member.data = <<>>
         h     == Without(Emptied(heap), ToSet(OldValue))
         b     == IF empty THEN NULL ELSE Fresh(h)
     IN  \/ /\ ~empty
            /\ denied' = TRUE
            /\ CleanupAfter(OldValue, Emptied(heap))
            /\ UNCHANGED overrun
         \/ /\ heap' = IF empty THEN Count(Put(h, NULL))
                       ELSE With(Count(Put(h, b)), b, NewBytes(member.data))
            /\ Frees(heap, OldValue)
            /\ Overruns
            /\ Continue
            /\ UNCHANGED <<ret, denied>>
  /\ UNCHANGED input

\* Packed values are stored one by one until the data ends or breaks off.
ParsePacked ==
  /\ Known /\ IsPacked
  /\ LET s      == Slot(field)
         array  == msg.val[s]
         cut    == Cut \in ToSet(member.data)
         stored == IF cut THEN Front(member.data) ELSE member.data
         cap    == IF array = NULL THEN 0 ELSE Len(heap[array].items)
         values == [i \in 1 .. cap |->
                      IF i - msg.q[s] \in DOMAIN stored THEN stored[i - msg.q[s]]
                      ELSE heap[array].items[i]]
     IN  /\ overrun' = (overrun \/ msg.q[s] + Len(stored) > cap)
         /\ \/ cut /\ Cleanup(heap)
            \/ /\ ~cut
               /\ heap' = IF array = NULL THEN heap
                          ELSE SetMsg([heap EXCEPT ![array].items = values],
                                      [msg EXCEPT !.q[s] = @ + Len(stored)])
               /\ Continue /\ Keep
  /\ UNCHANGED <<input, denied>>

\* An embedded message: unpack is called for it.
CallSub ==
  /\ Known /\ field.kind = "message" /\ member.wire = "len"
  /\ stack' = Append(Append(Front(stack), Goto("sub", frame.n)), Call(field.sub, member.sub))
  /\ heap' = IF IsOneof(field) THEN Without(Emptied(heap), ToSet(OldOneof)) ELSE heap
  /\ Frees(heap, OldOneof)
  /\ UNCHANGED <<input, ret, denied, overrun>>

\* It has returned: the message goes into the field, and what was there before
\* is merged into it and freed.
ReturnSub ==
  /\ At("sub")
  /\ LET old  == IF Repeated(field) THEN NULL ELSE msg.val[Slot(field)]
         into == Goto("parse", frame.n + 1)
     IN  \/ /\ ret = NULL
            /\ CleanupAfter(FreeUnpacked(heap, old), Emptied(heap))
            /\ UNCHANGED denied
         \/ /\ ret # NULL
            /\ \E o \in IF old = NULL THEN {[heap |-> heap, result |-> "ok"]}
                       ELSE Merge(heap, old, ret, 1) :
                 LET gone == FreeUnpacked(o.heap, old)
                     h    == Put(o.heap, ret)
                 IN  \/ /\ o.result = "ok"
                        /\ heap' = Without(Count(h), ToSet(gone)) /\ Frees(o.heap, gone)
                        /\ Go(into)
                        /\ UNCHANGED <<ret, denied>>
                     \/ /\ o.result # "ok"
                        /\ denied' = (denied \/ o.result = "denied")
                        /\ CleanupAfter(gone, h)
  /\ overrun' = (overrun \/ (ret # NULL /\ Repeated(field) /\ ~Fits))
  /\ UNCHANGED input

\* The last member is parsed.
Finish ==
  /\ At("parse") /\ frame.n > Len(frame.scanned)
  /\ Free(heap, Scratch)
  /\ Return(frame.msg)
  /\ UNCHANGED <<input, denied, overrun>>

Next ==
  \/ Enter \/ Scan \/ ScanEnds \/ Arrays \/ UnknownArray
  \/ ParseUnknown \/ ParseMismatch \/ ParseScalar \/ ParseString \/ ParsePacked
  \/ CallSub \/ ReturnSub \/ Finish

Spec == Init /\ [][Next]_vars

-----------------------------------------------------------------------------
Done == stack = <<>>

(* Whatever allocation fails and wherever the data turns out to be bad, all  *)
(* that unpack has allocated is freed when it returns NULL, and freeing the  *)
(* message frees the rest when it does not: no block is lost, freed twice or *)
(* owned by two messages (protobuf_c_message_unpack, merge_messages,         *)
(* protobuf_c_message_free_unpacked).                                        *)
LedgerBalances ==
  /\ ~wrongFree
  /\ Done => LET owned == FreeUnpacked(heap, ret)
             IN  IsInjective(owned) /\ ToSet(owned) = DOMAIN heap

(* What the scan counts for a repeated field is what parsing stores, packed  *)
(* values and single ones mixed: no element is stored behind its array       *)
(* (count_packed_elements, parse_repeated_member, parse_packed_repeated_     *)
(* member).                                                                  *)
ArraysFit == ~overrun

(* A message that unpack returns says what the data means, fields given      *)
(* several times and embedded messages given in pieces included, and keeps   *)
(* the unknown fields in order.  Data is only refused for want of memory,    *)
(* because it is malformed, or for the oneof that merge_messages cannot      *)
(* merge (protobuf-c.c:2158 says embedded messages are merged).  What it      *)
(* returns passes protobuf_c_message_check.                                  *)
ResultIsMeaning ==
  Done =>
    \/ /\ ret # NULL
       /\ WellFormed(Top, input)
       /\ Check(heap, ret)
       /\ Content(heap, ret) = Meaning(Top, input)
       /\ UnknownOf(heap, ret) = Unknown(Top, input)
    \/ ret = NULL /\ (denied \/ ~WellFormed(Top, input) \/ UnsetTwice(Top, input))

(* A message that was unpacked can be packed again: as many bytes are        *)
(* written as were counted before for the buffer, the scan cuts them into    *)
(* members that mean the same, and the unknown fields are among them; what   *)
(* is appended to a buffer is the same (protobuf_c_message_get_packed_size,  *)
(* protobuf_c_message_pack, protobuf_c_message_pack_to_buffer).              *)
PackInverts ==
  Done /\ ret # NULL =>
    LET bytes   == Pack(heap, ret)
        members == Scanned(Top, bytes)
    IN  /\ Len(bytes) = PackedSize(heap, ret)
        /\ PackToBuffer(heap, ret) = bytes
        /\ \A s \in ToSet(members) : s.wire # "bad"
        /\ Meaning(Top, members) = Content(heap, ret)
        /\ Unknown(Top, members) = UnknownOf(heap, ret)
=============================================================================
