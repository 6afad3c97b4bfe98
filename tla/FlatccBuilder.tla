---------------------------- MODULE FlatccBuilder ----------------------------
(***************************************************************************)
(* flatcc's builder (flatcc/src/runtime/builder.c) on its default emitter. *)
(* Objects under construction lie on a stack of bytes (ds); when one ends  *)
(* it is emitted to the front of the buffer, vtables to the back, and its  *)
(* address, the ref, is returned.  struct flatcc_builder is a record B;    *)
(* each C function is an operator that returns the B it leaves, or         *)
(* [B, ref] where a ref of 0 means failure.                                *)
(*                                                                         *)
(* The stacks vs and pl are large enough and realloc of ds does not fail;  *)
(* malloc of emitter pages may.  The hash table of the vtable cache is     *)
(* one chain, as if all vtables collided.  B.sent is a history of what     *)
(* was handed to the emitter: bytes, the first of them at address start.   *)
(***************************************************************************)
EXTENDS FlatccEmitter, FlatbufferBytes, SequencesExt

CONSTANTS DsChunk,          \* first size of the stack of bytes, 256 in the code
          Fields            \* entries of the stacks vs and pl

ASSUME StackAssumption == DsChunk \in Nat \ {0} /\ Fields \in Nat

table_limit == VOFFSET_MAX - field_size + 1
data_limit == UOFFSET_MAX - field_size + 1
union_size == 8             \* sizeof(flatcc_builder_union_ref_t)

Greater(a, b) == IF a > b THEN a ELSE b
Lesser(a, b) == IF a < b THEN a ELSE b
level(B) == Len(B.frame)
frame(B) == B.frame[level(B)]

\* flatcc_builder_init, with an allocator that has memory pages.
flatcc_builder_init(memory) ==
    [ds_mem |-> <<>>, ds |-> 0, ds_first |-> 0, ds_offset |-> 0, ds_limit |-> 0,
     vs_mem |-> [i \in 0 .. Fields |-> 0], vs |-> 0, id_end |-> 0,
     pl_mem |-> [i \in 0 .. Fields |-> 0], pl |-> 0,
     frame |-> <<>>, align |-> 0, min_align |-> 0, block_align |-> 0,
     emit_start |-> 0, emit_end |-> 0, buffer_mark |-> 0,
     nest_count |-> 0, nest_id |-> 0, with_size |-> FALSE, identifier |-> _pad(4),
     vb |-> <<>>, vd |-> <<>>, vd_room |-> 2, chain |-> <<>>,
     vb_flush_limit |-> 0, disable_vt_clustering |-> FALSE,
     E |-> flatcc_emitter_init(memory),
     sent |-> [start |-> 0, bytes |-> <<>>]]

set_min_align(B, align) == [B EXCEPT !.min_align = Greater(@, align)]

\* A call that failed returns at once; one that emitted an object leaves its frame.
Result(B, ref) == [B |-> B, ref |-> ref]

-----------------------------------------------------------------------------
(* The stack of bytes *)

\* flatcc_builder_default_alloc: the size is doubled until it will do, and
\* new bytes are zero.
Size[i \in Nat] == IF i = 0 THEN DsChunk ELSE 2 * Size[i - 1]
Doubled(request) ==
    Size[CHOOSE i \in 0 .. request : /\ Size[i] >= request
                                     /\ \A j \in 0 .. i - 1 : Size[j] < request]
default_alloc(mem, request) ==
    LET n == Doubled(request)
    IN  IF request <= Len(mem) /\ Len(mem) \div 2 >= n THEN mem
        ELSE mem \o _pad(n - Len(mem))

refresh_ds(B, type_limit) ==
    [B EXCEPT !.ds = B.ds_first,
              !.ds_limit = Lesser(Len(B.ds_mem) - B.ds_first, type_limit),
              !.frame[level(B)].type_limit = type_limit]

reserve_ds(B, need, limit) ==
    refresh_ds([B EXCEPT !.ds_mem = default_alloc(@, B.ds_first + need)], limit)

\* Bytes of the current object, and writing some of them.
Peek(B, at, n) == [i \in 1 .. n |-> B.ds_mem[B.ds + at + i]]
Poke(B, at, data) ==
    [B EXCEPT !.ds_mem = [i \in DOMAIN @ |-> IF i - (B.ds + at) \in DOMAIN data
                                             THEN data[i - (B.ds + at)] ELSE @[i]]]

push_ds(B, size) ==
    LET offset == B.ds_offset + size
    IN  IF offset >= B.ds_limit
        THEN reserve_ds([B EXCEPT !.ds_offset = offset], offset + 1, data_limit)
        ELSE [B EXCEPT !.ds_offset = offset]
push_ds_copy(B, data) == Poke(push_ds(B, Len(data)), B.ds_offset, data)
unpush_ds(B, size) ==
    Poke([B EXCEPT !.ds_offset = @ - size], B.ds_offset - size, _pad(size))

\* A field at offset gets its vtable entry.
NoteField(B, id, offset) ==
    [B EXCEPT !.vs_mem[B.vs + id] = voffset(offset + field_size),
              !.id_end = Greater(@, id + 1)]
push_ds_field(B, size, align, id) ==
    LET offset == alignup(B.ds_offset, align)
        end == offset + size
    IN  NoteField([IF end >= B.ds_limit THEN reserve_ds(B, end + 1, table_limit) ELSE B
                      EXCEPT !.ds_offset = end], id, offset)
push_ds_offset_field(B, id) ==
    LET offset == alignup(B.ds_offset, field_size)
        end == offset + field_size
    IN  [NoteField(IF end > B.ds_limit THEN reserve_ds(B, end, table_limit) ELSE B,
                   id, offset)
            EXCEPT !.ds_offset = end, !.pl_mem[B.pl] = offset, !.pl = @ + 1]

enter_frame(B, align, type, container) ==
    [B EXCEPT !.frame = Append(@, [type |-> type, align |-> B.align,
                                   ds_first |-> B.ds_first,
                                   ds_offset |-> B.ds_offset,
                                   type_limit |-> data_limit, c |-> container]),
              !.align = align,
              !.ds_first = alignup(B.ds_first + B.ds_offset, 8),
              !.ds_offset = 0]

\* Seeded variant: the bytes of the frame are left as they are.
ExitDirty(B) ==
    LET f == frame(B)
    IN  [set_min_align(refresh_ds([B EXCEPT !.ds_offset = f.ds_offset,
                                             !.ds_first = f.ds_first],
                                  f.type_limit), B.align)
            EXCEPT !.align = f.align, !.frame = Front(@)]

exit_frame(B) ==
    LET f == frame(B)
    IN  [set_min_align(refresh_ds([Poke(B, 0, _pad(B.ds_offset))
                                      EXCEPT !.ds_offset = f.ds_offset,
                                             !.ds_first = f.ds_first],
                                  f.type_limit), B.align)
            EXCEPT !.align = f.align, !.frame = Front(@)]

\* The object of the current frame was emitted: its frame is left.
Ended(r) == IF r.ref = 0 THEN r ELSE Result(exit_frame(r.B), r.ref)

-----------------------------------------------------------------------------
(* Emission *)

front_pad(B, size, align) == (B.emit_start - size) % align
back_pad(B, align) == B.emit_end % align

\* What becomes of B when the emitter took data at the address ref, or not.
InFront(B, e, data, ref) ==
    IF e.ok
    THEN Result([B EXCEPT !.E = e.E, !.emit_start = ref,
                          !.sent = [start |-> ref, bytes |-> data \o @.bytes]], ref)
    ELSE Result([B EXCEPT !.E = e.E], 0)
\* References to the back are one more than the address, which may be 0.
Behind(B, e, data, ref) ==
    Result([B EXCEPT !.E = e.E, !.emit_end = ref + Len(data),
                     !.sent.bytes = IF e.ok THEN @ \o data ELSE @],
           IF e.ok THEN ref + 1 ELSE 0)

emit_front(B, pieces) ==
    LET data == Gathered(pieces)
        ref == B.emit_start - Len(data)
    IN  InFront(B, flatcc_emitter(B.E, pieces, ref), data, ref)
emit_back(B, pieces) ==
    Behind(B, flatcc_emitter(B.E, pieces, B.emit_end), Gathered(pieces), B.emit_end)

\* The end of a buffer that is not nested is padded to a multiple of its block.
align_to_block(B, block_align, is_nested) ==
    LET pad == back_pad(B, block_align)
    IN  IF is_nested \/ pad = 0 THEN Result(B, 1) ELSE emit_back(B, <<_pad(pad)>>)

-----------------------------------------------------------------------------
(* Buffers *)

is_top_buffer(B) == B.nest_id = 0

\* flatcc_builder_create_buffer: the header of a buffer whose root is object_ref,
\* of a buffer that was aligned to its block and one that was not.
WithHeader(a, identifier, object_ref, align, is_nested, with_size) ==
    LET C == a.B
        id == IF identifier = _pad(4) THEN <<>> ELSE identifier
        sized == is_nested \/ with_size
        pad == front_pad(C, field_size + Len(id)
                                + (IF with_size THEN field_size ELSE 0), align)
        base == C.emit_start - (field_size + Len(id) + pad)
        end == IF is_nested THEN C.buffer_mark ELSE C.emit_end
    IN  IF a.ref = 0 THEN a
        ELSE emit_front(set_min_align(C, align),
                        <<IF sized THEN write_uoffset(end - base) ELSE <<>>,
                          write_uoffset(object_ref - base), id, _pad(pad)>>)

create_buffer(B, identifier, block_align, object_ref, align, is_nested, with_size) ==
    LET block == IF block_align # 0 THEN block_align
                 ELSE IF B.block_align # 0 THEN B.block_align ELSE 1
    IN  WithHeader(align_to_block(B, block, is_nested), identifier, object_ref,
                   Greater(Greater(align, field_size), block), is_nested, with_size)

start_buffer(B, identifier, block_align, with_size) ==
    [enter_frame(B, B.min_align, "buffer",
                 [block_align |-> B.block_align, with_size |-> B.with_size,
                  mark |-> B.buffer_mark, nest_id |-> B.nest_id,
                  identifier |-> B.identifier])
        EXCEPT !.min_align = 1, !.block_align = block_align,
               !.with_size = with_size, !.buffer_mark = B.emit_start,
               !.nest_id = B.nest_count, !.nest_count = @ + 1,
               !.identifier = identifier]

\* The parent's buffer is the current one again, unless r failed.
Outside(r, c) ==
    Ended(Result([r.B EXCEPT !.buffer_mark = c.mark, !.nest_id = c.nest_id,
                             !.identifier = c.identifier,
                             !.with_size = c.with_size], r.ref))
end_buffer(B, root) ==
    LET align == Greater(B.min_align, B.block_align)
    IN  Outside(create_buffer([B EXCEPT !.min_align = align], B.identifier,
                              B.block_align, root, align, ~is_top_buffer(B),
                              B.with_size), frame(B).c)

create_struct(B, data, align) ==
    emit_front(set_min_align(B, align), <<data, _pad(front_pad(B, Len(data), align))>>)

start_struct(B, size, align) ==
    push_ds(refresh_ds(enter_frame(B, align, "struct", <<>>), data_limit), size)
end_struct(B) == Ended(create_struct(B, Peek(B, 0, B.ds_offset), B.align))

\* Seeded variant: the header is aligned, and not the first element.
VectorAlignsHeader(B, data, count, align) ==
    LET al == Greater(align, field_size)
    IN  emit_front(set_min_align(B, al),
                   <<write_uoffset(count), data,
                     _pad(front_pad(B, Len(data) + field_size, al))>>)

create_vector(B, data, count, align) ==
    LET al == Greater(align, field_size)
    IN  emit_front(set_min_align(B, al),
                   <<write_uoffset(count), data, _pad(front_pad(B, Len(data), al))>>)

\* A frame whose elements have elem_size bytes; how many fit is checked.
start_elements(B, type, elem_size, align) ==
    refresh_ds(enter_frame(B, align, type, [elem_size |-> elem_size, count |-> 0]),
               data_limit)
start_vector(B, elem_size, align) ==
    start_elements(B, "vector", elem_size, Greater(align, field_size))
start_offset_vector(B) == start_elements(B, "offset_vector", field_size, field_size)
start_union_vector(B) == start_elements(B, "union_vector", union_size, field_size)
start_string(B) == start_elements(B, "string", 1, 1)

vector_count_add(B, count) == [B EXCEPT !.frame[level(B)].c.count = @ + count]
\* append and push of all of them: count elements with these bytes.
append_vector(B, data, count) == push_ds_copy(vector_count_add(B, count), data)
truncate_vector(B, count) ==
    unpush_ds(vector_count_add(B, -count), frame(B).c.elem_size * count)

end_vector(B) ==
    Ended(create_vector(B, Peek(B, 0, frame(B).c.count * frame(B).c.elem_size),
                        frame(B).c.count, B.align))

\* _create_offset_vector_direct: refs become offsets from their own place.
create_offset_vector_direct(B, refs) ==
    LET size == Len(refs) * field_size
        pad == front_pad(B, size, field_size)
        base == B.emit_start - (field_size + size + pad)
        Offset(i) == IF refs[i] = 0 THEN 0 ELSE refs[i] - base - i * field_size
    IN  emit_front(set_min_align(B, field_size),
                   <<write_uoffset(Len(refs)),
                     Gathered([i \in DOMAIN refs |-> write_uoffset(Offset(i))]),
                     _pad(pad)>>)

\* The refs that lie on the stack from the offset at.
RefsAt(B, at, step, count) ==
    [i \in 1 .. count |-> soffset(read(Peek(B, at + (i - 1) * step, field_size)))]
end_offset_vector(B) ==
    Ended(create_offset_vector_direct(B, RefsAt(B, 0, field_size, frame(B).c.count)))

\* A union_ref_t: the type, three bytes of padding, the ref.
union_ref(type, ref) == <<type>> \o _pad(field_size - utype_size) \o write_uoffset(ref)

\* The values are emitted first, then the types; both refs are returned, and
\* the frame is left also when one fails.
UnionsEnded(v, t) == [B |-> exit_frame(t.B), value |-> v.ref, type |-> t.ref]
EmitTypes(v, types) ==
    UnionsEnded(v, IF v.ref = 0 THEN v
                   ELSE create_vector(v.B, types, Len(types), utype_size))
EmitUnions(B, count) ==
    EmitTypes(create_offset_vector_direct(B, RefsAt(B, field_size, union_size, count)),
              [i \in 1 .. count |-> Peek(B, (i - 1) * union_size, utype_size)[1]])
end_union_vector(B) ==
    EmitUnions(push_ds(B, frame(B).c.count * (utype_size + field_size)), frame(B).c.count)

create_string(B, s) ==
    LET pad == front_pad(B, Len(s) + 1, field_size) + 1
    IN  emit_front(B, <<write_uoffset(Len(s)), s, _pad(pad)>>)
end_string(B) == Ended(create_string(B, Peek(B, 0, B.ds_offset)))

-----------------------------------------------------------------------------
(* Vtables *)

\* Only the top buffer can be extended at its end.  The ref is one more than
\* the address either way.
create_vtable(B, vt) ==
    LET data == Gathered([i \in DOMAIN vt |-> write_voffset(vt[i])])
        Tagged(f) == IF f.ref = 0 THEN f ELSE Result(f.B, f.ref + 1)
    IN  IF is_top_buffer(B) /\ ~B.disable_vt_clustering THEN emit_back(B, <<data>>)
        ELSE Tagged(emit_front(B, <<data>>))

flatcc_builder_flush_vtable_cache(B) ==
    [B EXCEPT !.chain = <<>>, !.vd = <<>>, !.vb = <<>>]

\* Descriptor d describes vt: its entries are in the cache at d.vb_start.
Describes(B, d, vt) ==
    /\ d.vb_start + Len(vt) <= Len(B.vb)
    /\ SubSeq(B.vb, d.vb_start + 1, d.vb_start + Len(vt)) = vt

\* The last descriptor gets a place for its vtable in the cache, or the cache
\* is flushed.
CacheEntries(B, vt) ==
    IF /\ B.vb_flush_limit # 0
       /\ B.vb_flush_limit < voffset_size * (Len(B.vb) + Len(vt))
    THEN flatcc_builder_flush_vtable_cache(B)
    ELSE [B EXCEPT !.vd[Len(B.vd)].vb_start = Len(B.vb), !.vb = @ \o vt]

\* The entry 0 of the array is not used.
moved(B) == Len(B.vd) + 2 > B.vd_room
\* What a place in the cache may read as in an array that was freed.
Junk(B) == IF moved(B) THEN 0 .. Len(B.vb) ELSE {0}


\* alloc_vd: the array of descriptors doubles when it is full, and moves.
alloc_vd(B) ==
    [B EXCEPT !.vd = Append(@, [nest_id |-> B.nest_id, vt_ref |-> 0, vb_start |-> 0]),
              !.vd_room = IF moved(B) THEN 2 * @ ELSE @,
              !.chain = <<Len(B.vd) + 1>> \o @]

\* The new vtable v is emitted: it lends the cached copy at starts, or gets one.
Cached(v, vt, starts) ==
    LET n == Len(v.B.vd)
        D == [v.B EXCEPT !.vd[n].vt_ref = v.ref]
    IN  IF v.ref = 0 THEN v
        ELSE Result(IF starts = <<>> THEN CacheEntries(D, vt)
                    ELSE [D EXCEPT !.vd[n].vb_start = starts[1]], v.ref)

\* A vtable emitted in this buffer before is used again.  One of another
\* buffer lends its cached copy, but its descriptor is read in the array of
\* descriptors that the new one may have moved: it then reads junk.
create_cached_vtable(B, vt, junk) ==
    LET known == SelectSeq(B.chain, LAMBDA i : Describes(B, B.vd[i], vt))
        here == SelectSeq(known, LAMBDA i : B.vd[i].nest_id = B.nest_id)
        starts == IF known = <<>> THEN <<>>
                  ELSE IF moved(B) THEN <<junk>>
                  ELSE <<B.vd[Last(known)].vb_start>>
    IN  IF here # <<>>
        THEN Result([B EXCEPT !.chain = <<here[1]>> \o
                        SelectSeq(@, LAMBDA i : i # here[1])], B.vd[here[1]].vt_ref)
        ELSE Cached(create_vtable(alloc_vd(B), vt), vt, starts)

-----------------------------------------------------------------------------
(* Tables *)

\* Seeded variant: the entries of the parent are not skipped.
ReserveOverParent(B) ==
    [B EXCEPT !.vs = frame(B).c.vs_end + 2, !.pl = frame(B).c.pl_end]

\* reserve_fields: vs moves past the header, pl back to the first offset.
flatcc_builder_reserve_table(B) ==
    [B EXCEPT !.vs = frame(B).c.vs_end + frame(B).c.id_end + 2,
              !.pl = frame(B).c.pl_end]

start_table(B) ==
    LET C == enter_frame(B, field_size, "table",
                         [vs_end |-> B.vs, pl_end |-> B.pl, id_end |-> B.id_end])
    IN  refresh_ds([flatcc_builder_reserve_table(C) EXCEPT !.id_end = 0], table_limit)

IsSet(B, id) == B.vs_mem[B.vs + id] # 0

table_add_copy(B, id, data, align) ==
    LET C == [B EXCEPT !.align = Greater(@, align)]
        Copied(D) == Result(Poke(D, D.ds_offset - Len(data), data), 1)
    IN  IF IsSet(B, id) THEN Result(C, 0)
        ELSE Copied(push_ds_field(C, Len(data), align, id))

table_add_offset(B, id, ref) ==
    LET Written(C) == Result(Poke(C, C.ds_offset - field_size, write_uoffset(ref)), 1)
    IN  IF IsSet(B, id) THEN Result(B, 0) ELSE Written(push_ds_offset_field(B, id))

\* The value first, unless it is null, then its type.
table_add_union(B, id, type, ref) ==
    LET AddType(v) == IF (type = 0 /\ ref # 0) \/ v.ref = 0 THEN Result(v.B, 0)
                      ELSE table_add_copy(v.B, id - 1, <<type>>, utype_size)
    IN  AddType(IF ref = 0 THEN Result(B, 1) ELSE table_add_offset(B, id, ref))

table_add_union_vector(B, id, type, value) ==
    LET AddValue(t) == IF t.ref = 0 THEN t ELSE table_add_offset(t.B, id, value)
    IN  IF type = 0 \/ value = 0 THEN Result(B, IF type = value THEN 1 ELSE 0)
        ELSE AddValue(table_add_offset(B, id - 1, type))

\* data with other bytes behind each of the offsets.
Overlaid(data, offsets, bytes) ==
    LET At(i) == {at \in Range(offsets) : i - at \in DOMAIN bytes[at]}
    IN  [i \in DOMAIN data |->
            IF At(i) = {} THEN data[i]
            ELSE LET at == CHOOSE at \in At(i) : TRUE IN bytes[at][i - at]]
RefAt(data, at) == read(SubSeq(data, at + 1, at + field_size))

\* Seeded variant: every offset counts from the first field of the table.
PatchedFromTable(data, offsets, base) ==
    Overlaid(data, offsets, [at \in Range(offsets) |->
                write_uoffset(RefAt(data, at) - base - field_size)])

\* The ref at each logged offset becomes an offset from its own place, in a
\* table that is emitted at base.
Patched(data, offsets, base) ==
    Overlaid(data, offsets, [at \in Range(offsets) |->
                write_uoffset(RefAt(data, at) - base - at - field_size)])

create_table(B, data, align, offsets, vt_ref) ==
    LET al == Greater(align, field_size)
        pad == front_pad(B, Len(data), al)
        base == B.emit_start - (pad + Len(data) + field_size)
    IN  emit_front(set_min_align(B, al),
                   <<write_uoffset(base - (vt_ref - 1)), Patched(data, offsets, base),
                     _pad(pad)>>)

\* The table is emitted after its vtable, and its part of vs is zero again.
EmitTable(C, c, vt_ref) ==
    create_table([C EXCEPT !.vs_mem = [i \in DOMAIN @ |->
                     IF i \in C.vs - 2 .. C.vs + C.id_end - 1 THEN 0 ELSE @[i]]],
                 Peek(C, 0, C.ds_offset), C.align,
                 [i \in 1 .. C.pl - c.pl_end |-> C.pl_mem[c.pl_end + i - 1]], vt_ref)
TableEnded(t, c) ==
    Ended(Result([t.B EXCEPT !.id_end = c.id_end, !.vs = c.vs_end, !.pl = c.pl_end],
                 t.ref))
end_table(B, junk) ==
    LET header == <<voffset_size * (B.id_end + 2), voffset(B.ds_offset + field_size)>>
        vt == header \o [i \in 1 .. B.id_end |-> B.vs_mem[B.vs + i - 1]]
        After(v) == IF v.ref = 0 THEN v
                    ELSE TableEnded(EmitTable(v.B, frame(B).c, v.ref), frame(B).c)
    IN  After(create_cached_vtable(B, vt, junk))

-----------------------------------------------------------------------------
(* A builder that is used again, and its result *)

\* flatcc_builder_custom_reset; ds_first, align, block_align, buffer_mark and
\* id_end stay as they are.
flatcc_builder_custom_reset(B, set_defaults) ==
    [B EXCEPT !.ds_mem = _pad(Len(B.ds_mem)),
              !.vs_mem = [i \in DOMAIN @ |-> 0], !.pl_mem = [i \in DOMAIN @ |-> 0],
              !.vb = <<>>, !.vd = <<>>, !.chain = <<>>,
              !.min_align = 0, !.emit_start = 0, !.emit_end = 0, !.frame = <<>>,
              !.ds_offset = 0, !.ds_limit = 0, !.nest_count = 0, !.nest_id = 0,
              !.ds = 0, !.pl = 0, !.vs = 0,
              !.vb_flush_limit = IF set_defaults THEN 0 ELSE @,
              !.disable_vt_clustering = IF set_defaults THEN FALSE ELSE @,
              !.E = flatcc_emitter_reset(@),
              !.sent = [start |-> 0, bytes |-> <<>>]]

flatcc_builder_clear(B) ==
    [flatcc_builder_init(B.E.memory) EXCEPT !.E = flatcc_emitter_clear(B.E)]

flatcc_builder_get_buffer_size(B) == B.emit_end - B.emit_start

flatcc_builder_finalize_buffer(B) ==
    flatcc_emitter_copy_buffer(B.E, flatcc_builder_get_buffer_size(B))
=============================================================================
