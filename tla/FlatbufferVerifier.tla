------------------------- MODULE FlatbufferVerifier -------------------------
(***************************************************************************)
(* flatcc's verifier (flatcc/src/runtime/verifier.c).  Each operator is    *)
(* TRUE when the C function returns flatcc_verify_ok.  A generated         *)
(* verifier calls one of these functions per member of a table; here the   *)
(* members are those of the document Doc.  No member is required, and a    *)
(* nested buffer is verified without its identifier, as generated          *)
(* verifiers do.                                                           *)
(***************************************************************************)
EXTENDS FlatbufferBytes, FlatbufferDocument

CONSTANT FLATCC_VERIFIER_MAX_LEVELS

COUNT_MAX(size) == UOFFSET_MAX \div size

\* `k > base` rather than `k >= base` is to avoid null offsets.
check_header(end, base, offset) ==
    LET k == uoffset(base + offset)
    IN  k > base /\ uoffset(k + field_size) <= end /\ k % field_size = 0

check_aligned_header(end, base, offset, align) ==
    LET k == uoffset(base + offset)
        first == uoffset(k + field_size)
    IN  k > base /\ first <= end /\ first % field_size = 0 /\ first % align = 0

verify_struct(end, base, offset, size, align) ==
    LET at == uoffset(base + offset)
    IN  /\ offset # 0 /\ at <= end
        /\ uoffset(at + size) >= at /\ uoffset(at + size) <= end
        /\ at % align = 0

verify_string(buf, end, base, offset) ==
    LET at == uoffset(base + offset)
        n == read_uoffset(buf, at)
    IN  /\ check_header(end, base, offset)
        /\ end - (at + field_size) > n
        /\ ByteAt(buf, at + field_size + n) = 0

verify_vector(buf, end, base, offset, elem_size, align) ==
    LET at == uoffset(base + offset)
        n == read_uoffset(buf, at)
    IN  /\ check_aligned_header(end, base, offset, align)
        /\ n <= COUNT_MAX(elem_size)
        /\ end - (at + field_size) >= n * elem_size

\* The addresses of the elements of a vector of offsets.
LOCAL Slots(buf, base, offset) ==
    LET at == uoffset(base + offset)
    IN  {at + i * field_size : i \in 1 .. read_uoffset(buf, at)}

verify_string_vector(buf, end, base, offset) ==
    /\ verify_vector(buf, end, base, offset, field_size, field_size)
    /\ \A p \in Slots(buf, base, offset) :
          verify_string(buf, end, p, read_uoffset(buf, p))

-----------------------------------------------------------------------------
(* Fields of a table *)

\* The table verifier descriptor; the reads come before some of the checks
\* of verify_table, but nothing is done with them when a check fails.
td(buf, end, base, offset, ttl) ==
    LET table == uoffset(base + offset)
        vbase == uoffset(table - read_uoffset(buf, table))
    IN  [buf |-> buf, end |-> end, ttl |-> ttl - 1, table |-> table,
         vtable |-> vbase, vsize |-> read_voffset(buf, vbase),
         tsize |-> read_voffset(buf, vbase + voffset_size)]

read_vt_entry(t, id) ==
    LET vo == voffset((id + 2) * voffset_size)
    IN  IF vo >= t.vsize THEN 0 ELSE read_voffset(t.buf, t.vtable + vo)

\* The alignment of a field is that of its address, also in a nested buffer.
verify_field(t, id, size, align) ==
    LET vte == read_vt_entry(t, id)
    IN  vte # 0 => /\ vte + size <= t.tsize
                   /\ (vte + t.table + t.buf.at) % align = 0

\* get_offset_field: a field that is there is in the table and aligned.
OffsetFieldOk(t, id) ==
    LET vte == read_vt_entry(t, id)
    IN  vte + field_size <= t.tsize /\ (vte + t.table) % field_size = 0

\* check_field: the address of the offset, when there is one.
LOCAL Offset(t, id) == t.table + read_vt_entry(t, id)
LOCAL Present(t, id) == read_vt_entry(t, id) # 0
LOCAL Deref(t, id) == read_uoffset(t.buf, Offset(t, id))

flatcc_verify_string_field(t, id) ==
    Present(t, id) => /\ OffsetFieldOk(t, id)
                      /\ verify_string(t.buf, t.end, Offset(t, id), Deref(t, id))

flatcc_verify_vector_field(t, id, elem_size, align) ==
    Present(t, id) => /\ OffsetFieldOk(t, id)
                      /\ verify_vector(t.buf, t.end, Offset(t, id), Deref(t, id),
                                       elem_size, align)

flatcc_verify_string_vector_field(t, id) ==
    Present(t, id) => /\ OffsetFieldOk(t, id)
                      /\ verify_string_vector(t.buf, t.end, Offset(t, id), Deref(t, id))

\* The size of the smallest buffer leaves room for an identifier.
flatcc_verify_buffer_header(buf, bufsiz) ==
    /\ buf.at % field_size = 0
    /\ bufsiz <= UOFFSET_MAX - 8
    /\ bufsiz >= 2 * field_size

-----------------------------------------------------------------------------
(* Tables, unions and nested buffers *)

RECURSIVE verify_table(_, _, _, _, _, _)
RECURSIVE VerifyMember(_, _)

\* verify_table with the table verifier of object o.
verify_table(buf, end, base, offset, ttl, o) ==
    LET t == td(buf, end, base, offset, ttl)
    IN  /\ t.ttl # 0
        /\ check_header(end, base, offset)
        /\ soffset(t.vtable) >= 0 /\ t.vtable % voffset_size = 0
        /\ t.vtable + voffset_size <= end
        /\ t.vtable + t.vsize <= end /\ t.vsize % voffset_size = 0
        /\ t.vsize >= 2 * voffset_size
        /\ end - t.table >= t.tsize
        /\ \A i \in DOMAIN Doc[o].fields : VerifyMember(t, Doc[o].fields[i])

flatcc_verify_table_field(t, id, o) ==
    Present(t, id) => /\ OffsetFieldOk(t, id)
                      /\ verify_table(t.buf, t.end, Offset(t, id), Deref(t, id), t.ttl, o)

\* A vector of tables; the document says which table each element is.
verify_table_vector(buf, end, base, offset, ttl, objects) ==
    LET at == uoffset(base + offset)
    IN  /\ ttl > 0
        /\ verify_vector(buf, end, base, offset, field_size, field_size)
        /\ read_uoffset(buf, at) = Len(objects)
        /\ \A i \in DOMAIN objects :
              LET p == at + i * field_size
              IN  verify_table(buf, end, p, read_uoffset(buf, p), ttl - 1, objects[i])
flatcc_verify_table_vector_field(t, id, objects) ==
    Present(t, id) => /\ OffsetFieldOk(t, id)
                      /\ verify_table_vector(t.buf, t.end, Offset(t, id), Deref(t, id),
                                             t.ttl, objects)

\* flatcc_union_verifier_f: a member of a union by its kind.
VerifyUnionMember(buf, end, base, offset, ttl, o) ==
    CASE Doc[o].kind = "table" -> verify_table(buf, end, base, offset, ttl, o)
      [] Doc[o].kind = "string" -> verify_string(buf, end, base, offset)
      [] Doc[o].kind = "struct" ->
            verify_struct(end, base, offset, Len(Doc[o].data), Doc[o].align)

flatcc_verify_union_field(t, id, o) ==
    LET type == ByteAt(t.buf, t.table + read_vt_entry(t, id - 1))
    IN  IF ~Present(t, id - 1) THEN ~Present(t, id)
        ELSE /\ verify_field(t, id - 1, utype_size, utype_size)
             /\ type = 0 => ~Present(t, id)
             /\ (type # 0 /\ Present(t, id)) =>
                   /\ OffsetFieldOk(t, id)
                   /\ VerifyUnionMember(t.buf, t.end, Offset(t, id), Deref(t, id), t.ttl, o)

verify_union_vector(buf, end, base, offset, count, types, ttl, elems) ==
    LET at == uoffset(base + offset)
    IN  /\ ttl > 0
        /\ verify_vector(buf, end, base, offset, field_size, field_size)
        /\ read_uoffset(buf, at) = count /\ count = Len(elems)
        /\ \A i \in DOMAIN elems :
              LET p == at + i * field_size
                  elem == read_uoffset(buf, p)
                  type == ByteAt(buf, types + i - 1)
              IN  /\ (elem = 0) = (type = 0)
                  /\ elem # 0 => VerifyUnionMember(buf, end, p, elem, ttl - 1, elems[i].to)

flatcc_verify_union_vector_field(t, id, elems) ==
    LET types == Offset(t, id - 1) + Deref(t, id - 1)
    IN  /\ flatcc_verify_vector_field(t, id - 1, utype_size, utype_size)
        /\ (Present(t, id - 1) /\ Present(t, id)) =>
              /\ OffsetFieldOk(t, id)
              /\ verify_union_vector(t.buf, t.end, Offset(t, id), Deref(t, id),
                                     read_uoffset(t.buf, types), types + field_size,
                                     t.ttl, elems)

\* The generated verifier passes the alignment of the ubyte elements, 1, and
\* it arrives as the size of an element.
flatcc_verify_table_as_nested_root(t, id, o) ==
    LET vector == Offset(t, id) + Deref(t, id)
        bufsiz == read_uoffset(t.buf, vector)
        buf == [t.buf EXCEPT !.at = @ + vector + field_size]
    IN  /\ flatcc_verify_vector_field(t, id, 1, 1)
        /\ Present(t, id) =>
              /\ flatcc_verify_buffer_header(buf, bufsiz)
              /\ verify_table(buf, bufsiz, 0, read_uoffset(buf, 0), t.ttl, o)

\* The call a generated table verifier makes for one member.
VerifyMember(t, f) ==
    CASE f.kind = "inline" -> verify_field(t, f.id, Len(f.data), f.align)
      [] f.kind = "union" -> flatcc_verify_union_field(t, f.id, f.to)
      [] f.kind = "union_vector" -> flatcc_verify_union_vector_field(t, f.id, Doc[f.to].elems)
      [] f.kind = "offset" ->
            LET o == Doc[f.to]
            IN  CASE o.kind = "string" -> flatcc_verify_string_field(t, f.id)
                  [] o.kind = "vector" ->
                        flatcc_verify_vector_field(t, f.id, Len(o.elems[1]), o.align)
                  [] o.kind = "table" -> flatcc_verify_table_field(t, f.id, f.to)
                  [] o.kind = "buffer" ->
                        flatcc_verify_table_as_nested_root(t, f.id, o.root)
                  [] o.kind = "offsets" ->
                        IF Doc[o.to[1]].kind = "string"
                        THEN flatcc_verify_string_vector_field(t, f.id)
                        ELSE flatcc_verify_table_vector_field(t, f.id, o.to)

flatcc_verify_table_as_root(buf, bufsiz, o) ==
    /\ flatcc_verify_buffer_header(buf, bufsiz)
    /\ verify_table(buf, bufsiz, 0, read_uoffset(buf, 0), FLATCC_VERIFIER_MAX_LEVELS, o)
=============================================================================
