-------------------------- MODULE FlatbufferReader --------------------------
(***************************************************************************)
(* The accessors flatcc generates to read a finished buffer in place       *)
(* (flatcc/include/flatcc/reflection/flatbuffers_common_reader.h), and     *)
(* what it means that they read the document Doc: ReadsAs(buf, at, o) is   *)
(* TRUE when the accessors, applied to the object at that address, return  *)
(* the content of object o and of everything o refers to.                  *)
(***************************************************************************)
EXTENDS FlatbufferVerifier
LOCAL INSTANCE SequencesExt

CONSTANT FLATBUFFERS_ID_MAX      \* the largest field id that is read

\* The entry of a field in the vtable of table t, 0 when it is not there.
__flatbuffers_read_vt(buf, t, id) ==
    LET vt == t - soffset(read_uoffset(buf, t))
    IN  IF read_voffset(buf, vt) >= voffset_size * (id + 3)
        THEN read_voffset(buf, vt + voffset_size * (id + 2)) ELSE 0

\* The addresses of what an offset field and what an element of a vector of
\* offsets refer to.
__flatbuffers_offset_field(buf, t, id) ==
    LET elem == t + __flatbuffers_read_vt(buf, t, id)
    IN  elem + read_uoffset(buf, elem)
__flatbuffers_offset_vec_at(buf, vec, i) ==
    LET elem == vec + field_size * i
    IN  elem + read_uoffset(buf, elem)

__flatbuffers_union_type_field(buf, t, id) ==
    LET vte == __flatbuffers_read_vt(buf, t, id)
    IN  IF vte = 0 THEN 0 ELSE ByteAt(buf, t + vte)

\* A nested buffer is the content of a vector of bytes.
__flatbuffers_nested_buffer_as_root(buf, vector) ==
    [buf EXCEPT !.at = @ + vector + field_size]
__flatbuffers_read_root(buf) == read_uoffset(buf, 0)

-----------------------------------------------------------------------------
(* Comparison with the document *)

\* The n bytes at this address are data.
LOCAL HasBytes(buf, at, data) == BytesAt(buf, at, Len(data)) = data

\* The ids under which a field of o is found.
FieldIds(o) ==
    UNION {IF f.kind \in {"union", "union_vector"} THEN {f.id - 1, f.id} ELSE {f.id} :
              f \in {Doc[o].fields[i] : i \in DOMAIN Doc[o].fields}}

RECURSIVE ReadsAs(_, _, _)

\* The field f of the table at t.
FieldReadsAs(buf, t, f) ==
    LET to == __flatbuffers_offset_field(buf, t, f.id)
    IN  CASE f.kind = "inline" ->
               HasBytes(buf, t + __flatbuffers_read_vt(buf, t, f.id), f.data)
          [] f.kind = "offset" -> ReadsAs(buf, to, f.to)
          [] f.kind = "union" ->
               /\ __flatbuffers_union_type_field(buf, t, f.id - 1) = f.type
               /\ ReadsAs(buf, to, f.to)
          [] f.kind = "union_vector" ->
               LET elems == Doc[f.to].elems
                   types == __flatbuffers_offset_field(buf, t, f.id - 1)
               IN  /\ read_uoffset(buf, types) = Len(elems)
                   /\ read_uoffset(buf, to) = Len(elems)
                   /\ \A i \in DOMAIN elems :
                        /\ ByteAt(buf, types + field_size + i - 1) = elems[i].type
                        /\ elems[i].type # 0 =>
                             ReadsAs(buf, __flatbuffers_offset_vec_at(buf, to + field_size,
                                                                      i - 1),
                                     elems[i].to)

ReadsAs(buf, at, o) ==
    LET d == Doc[o]
    IN  CASE d.kind = "table" ->
               \A id \in 0 .. FLATBUFFERS_ID_MAX :
                  /\ (__flatbuffers_read_vt(buf, at, id) # 0) = (id \in FieldIds(o))
                  /\ \A i \in DOMAIN d.fields :
                        d.fields[i].id = id => FieldReadsAs(buf, at, d.fields[i])
          [] d.kind = "string" ->
               /\ read_uoffset(buf, at) = Len(d.data)
               /\ HasBytes(buf, at + field_size, Append(d.data, 0))
          [] d.kind = "vector" ->
               /\ read_uoffset(buf, at) = Len(d.elems)
               /\ HasBytes(buf, at + field_size, FlattenSeq(d.elems))
          [] d.kind = "offsets" ->
               /\ read_uoffset(buf, at) = Len(d.to)
               /\ \A i \in DOMAIN d.to :
                     ReadsAs(buf, __flatbuffers_offset_vec_at(buf, at + field_size, i - 1),
                             d.to[i])
          [] d.kind = "struct" -> HasBytes(buf, at, d.data)
          [] d.kind = "buffer" ->
               LET nested == __flatbuffers_nested_buffer_as_root(buf, at)
               IN  ReadsAs(nested, __flatbuffers_read_root(nested), d.root)

\* The finished buffer buf reads as the document whose root table is o.
RootReadsAs(buf, o) == ReadsAs(buf, __flatbuffers_read_root(buf), o)
=============================================================================
