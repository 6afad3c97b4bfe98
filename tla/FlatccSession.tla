---------------------------- MODULE FlatccSession ----------------------------
(***************************************************************************)
(* A client of flatcc's builder that builds documents of Doc, one after    *)
(* the other, with one builder.  It starts, fills and ends the objects of  *)
(* the document in any order the interface allows: a child before its      *)
(* parent or while the parent is open, nested buffers in between; it may   *)
(* give up at any point and reset or clear the builder, as it must after a *)
(* failure, and build again.  A top buffer is in the buffer None.          *)
(***************************************************************************)
EXTENDS FlatccBuilder, FlatbufferDocument

CONSTANTS Builds,        \* how many documents the client starts
          Later,         \* the documents built after the first one
          EarlyAlign,    \* alignment of objects created before their buffer starts
          PageLimits,    \* how many pages malloc may have
          FlushLimits,   \* values of vb_flush_limit
          None

\* malloc cannot give more pages than there are.
ASSUME LimitAssumption == PageLimits \subseteq 0 .. Cardinality(Pages)

VARIABLES B,        \* the builder
          top,      \* the document: its top buffer
          refs,     \* the refs of the objects that are finished
          open,     \* the objects being built, innermost last, and their parts so far
          phase,    \* "building", "done", "failed"
          built,    \* documents started
          out       \* the finished buffer

vars == <<B, top, refs, open, phase, built, out>>

Objects == DOMAIN Doc
\* The objects of each buffer; those of none are the top buffers.
Members == [b \in Objects \cup {None} |-> {o \in Objects : Doc[o].in = b}]
\* Every object is in a buffer of the document or a top buffer, and top buffers
\* are what is built.
ASSUME MembersAssumption ==
    /\ \A o \in Objects : Doc[o].in \in Objects \cup {None}
    /\ Later \subseteq Members[None]

\* The buffer the innermost open object belongs to or is.
Innermost == open[Len(open)]
CurrentBuffer ==
    IF open = <<>> THEN None
    ELSE IF Doc[Innermost.o].kind = "buffer" THEN Innermost.o ELSE Doc[Innermost.o].in

\* A union vector has two refs, of its types and of its values.
Unfinished == [o \in Objects |-> <<>>]
IsReady(o) == refs[o] # <<>>
Ref(o) == refs[o][1]

Init == /\ \E m \in PageLimits, f \in FlushLimits, d \in BOOLEAN :
              B = [flatcc_builder_init(m) EXCEPT !.vb_flush_limit = f,
                                                 !.disable_vt_clustering = d]
        /\ top \in Members[None]
        /\ refs = Unfinished /\ open = <<>> /\ phase = "building"
        /\ built = 1 /\ out = NULL

-----------------------------------------------------------------------------
(* Which objects may come next *)

\* What the parts of an object refer to.
Referred(o) ==
    LET d == Doc[o]
    IN  CASE d.kind = "table" -> {d.fields[i].to : i \in {j \in DOMAIN d.fields :
                                                            d.fields[j].kind # "inline"}}
          [] d.kind = "offsets" -> Range(d.to)
          [] d.kind = "unions" -> {d.elems[i].to : i \in DOMAIN d.elems}
          [] d.kind = "buffer" -> {d.root}
          [] OTHER -> {}

\* Inside a buffer or a table any object of the buffer, inside a vector what
\* the vector refers to, and before the top buffer starts an object of it.
MayBuild(o) ==
    /\ ~IsReady(o)
    /\ \A i \in DOMAIN open : open[i].o # o
    /\ IF open # <<>>
       THEN Doc[Innermost.o].kind \in {"buffer", "table"} \/ o \in Referred(Innermost.o)
       ELSE /\ o = top \/ Doc[o].kind \in {"string", "vector", "struct"}
            /\ Doc[o].kind \in {"vector", "struct"} => Doc[o].align <= EarlyAlign

\* The objects that may be built next.
Buildable ==
    IF phase # "building" THEN {}
    ELSE IF open # <<>> THEN {o \in Members[CurrentBuffer] : MayBuild(o)}
    ELSE IF IsReady(top) THEN {}
    ELSE {o \in {top} \cup Members[top] : MayBuild(o)}

\* The call r for the object o succeeded, or everything stops.
Finished(r, o) ==
    /\ B' = r.B
    /\ IF r.ref = 0 THEN phase' = "failed" /\ UNCHANGED refs
       ELSE refs' = [refs EXCEPT ![o] = <<r.ref>>] /\ UNCHANGED phase
    /\ UNCHANGED <<top, built, out>>

-----------------------------------------------------------------------------
(* Objects made by one call *)

Create(o) ==
    LET d == Doc[o]
    IN  /\ d.by = "create"
        /\ \/ d.kind = "string" /\ Finished(create_string(B, d.data), o)
           \/ d.kind = "struct" /\ Finished(create_struct(B, d.data, d.align), o)
           \/ /\ d.kind = "vector"
              /\ Finished(create_vector(B, FlattenSeq(d.elems), Len(d.elems), d.align), o)
        /\ UNCHANGED open

-----------------------------------------------------------------------------
(* Objects that are started, filled and ended *)

Started(o) ==
    LET d == Doc[o]
    IN  CASE d.kind = "buffer" -> start_buffer(B, _pad(4), d.block_align, FALSE)
          [] d.kind = "table" -> start_table(B)
          [] d.kind = "string" -> start_string(B)
          [] d.kind = "vector" -> start_vector(B, Len(d.elems[1]), d.align)
          [] d.kind = "offsets" -> start_offset_vector(B)
          [] d.kind = "unions" -> start_union_vector(B)
          [] d.kind = "struct" -> Poke(start_struct(B, Len(d.data), d.align), 0, d.data)

Start(o) ==
    /\ Doc[o].by = "start"
    /\ B' = Started(o)
    /\ open' = Append(open, [o |-> o, parts |-> {}])
    /\ UNCHANGED <<top, refs, phase, built, out>>

\* The parts of an object that are added one by one.
Parts(o) ==
    LET d == Doc[o]
    IN  CASE d.kind = "table" -> DOMAIN d.fields
          [] d.kind = "offsets" -> DOMAIN d.to
          [] d.kind \in {"vector", "unions"} -> DOMAIN d.elems
          [] d.kind = "string" -> {1}
          [] OTHER -> {}

\* The parts that may be added next: the elements of a vector in their order,
\* the fields of a table in any.
NextParts ==
    IF phase # "building" \/ open = <<>> THEN {}
    ELSE LET left == Parts(Innermost.o) \ Innermost.parts
         IN  IF Doc[Innermost.o].kind = "table" THEN left
             ELSE {p \in left : \A q \in left : p <= q}

\* The call r that adds part p succeeded, or everything stops.
Added(r, p) ==
    /\ B' = r.B
    /\ phase' = IF r.ref = 0 THEN "failed" ELSE phase
    /\ open' = [open EXCEPT ![Len(open)].parts = @ \cup {p}]
    /\ UNCHANGED <<top, refs, built, out>>

AddField(p) ==
    LET f == Doc[Innermost.o].fields[p]
    IN  /\ Doc[Innermost.o].kind = "table"
        /\ \/ f.kind = "inline" /\ Added(table_add_copy(B, f.id, f.data, f.align), p)
           \/ /\ f.kind = "offset" /\ IsReady(f.to)
              /\ Added(table_add_offset(B, f.id, Ref(f.to)), p)
           \/ /\ f.kind = "union" /\ IsReady(f.to)
              /\ Added(table_add_union(B, f.id, f.type, Ref(f.to)), p)
           \/ /\ f.kind = "union_vector" /\ IsReady(f.to)
              /\ Added(table_add_union_vector(B, f.id, refs[f.to][1],
                                              refs[f.to][2]), p)

\* The bytes of an element on the stack.
Element(o, p) ==
    LET d == Doc[o]
    IN  CASE d.kind = "string" -> d.data
          [] d.kind = "vector" -> d.elems[p]
          [] d.kind = "offsets" -> write_uoffset(Ref(d.to[p]))
          [] d.kind = "unions" ->
                union_ref(d.elems[p].type,
                          IF d.elems[p].type = 0 THEN 0 ELSE Ref(d.elems[p].to))
ElementReady(o, p) ==
    CASE Doc[o].kind = "offsets" -> IsReady(Doc[o].to[p])
      [] Doc[o].kind = "unions" ->
            Doc[o].elems[p].type = 0 \/ IsReady(Doc[o].elems[p].to)
      [] OTHER -> TRUE

\* An element is appended, perhaps once too often and then taken back.
Push(p) ==
    LET o == Innermost.o
        n == IF Doc[o].kind = "string" THEN Len(Doc[o].data) ELSE 1
        Appended(C) == append_vector(C, Element(o, p), n)
    IN  /\ Doc[o].kind \in {"string", "vector", "offsets", "unions"}
        /\ ElementReady(o, p)
        /\ \E again \in BOOLEAN :
              Added(Result(IF again THEN truncate_vector(Appended(Appended(B)), n)
                           ELSE Appended(B), 1), p)

\* end_union_vector returns two refs.
UnionsFinished(u, o) ==
    /\ B' = u.B
    /\ IF u.type = 0 THEN phase' = "failed" /\ UNCHANGED refs
       ELSE refs' = [refs EXCEPT ![o] = <<u.type, u.value>>] /\ UNCHANGED phase
    /\ UNCHANGED <<top, built, out>>

End ==
    LET o == Innermost.o
        kind == Doc[o].kind
    IN  /\ open # <<>> /\ phase = "building"
        /\ Innermost.parts = Parts(o)
        /\ \/ kind = "buffer" /\ IsReady(Doc[o].root)
              /\ Finished(end_buffer(B, Ref(Doc[o].root)), o)
           \/ kind = "table"
              /\ \E junk \in Junk(B) : Finished(end_table(B, junk), o)
           \/ kind = "string" /\ Finished(end_string(B), o)
           \/ kind = "vector" /\ Finished(end_vector(B), o)
           \/ kind = "offsets" /\ Finished(end_offset_vector(B), o)
           \/ kind = "struct" /\ Finished(end_struct(B), o)
           \/ kind = "unions" /\ UnionsFinished(end_union_vector(B), o)
        /\ open' = Front(open)

-----------------------------------------------------------------------------
(* The finished buffer, and the next one *)

Finalize ==
    /\ phase = "building" /\ open = <<>> /\ IsReady(top)
    /\ phase' = "done"
    /\ out' = flatcc_builder_finalize_buffer(B)
    /\ UNCHANGED <<B, top, refs, open, built>>

\* The next document, after a buffer, a failure, or in the middle of one.
Again(C) ==
    /\ built < Builds
    /\ B' = C
    /\ top' \in Later
    /\ refs' = Unfinished /\ open' = <<>> /\ phase' = "building"
    /\ built' = built + 1 /\ out' = NULL

Reset == \E set_defaults \in BOOLEAN : Again(flatcc_builder_custom_reset(B, set_defaults))
Clear == Again(flatcc_builder_clear(B))

Next == \/ \E o \in Buildable : Create(o) \/ Start(o)
        \/ \E p \in NextParts : AddField(p) \/ Push(p)
        \/ End \/ Finalize \/ Reset \/ Clear

Spec == Init /\ [][Next]_vars

-----------------------------------------------------------------------------
(* Properties *)

\* The emitter is the deque its interface speaks of: its pages are on one
\* ring, counted, and hold in consecutive pieces what it was handed, at the
\* addresses the builder gave (emitter.c:45-185, builder.c:640-699).
EmitterHoldsDeque ==
    /\ RingIsWhole(B.E)
    /\ (phase # "failed" /\ B.sent.bytes # <<>>) =>
          /\ StretchesMeet(B.E)
          /\ flatcc_builder_finalize_buffer(B) = B.sent.bytes
          /\ FirstAddress(B.E) = B.sent.start /\ B.sent.start = B.emit_start

\* Where the object of frame l has its bytes and its vtable on the stacks.
BytesOf(l) == IF l = Len(open) THEN B.ds_first ELSE B.frame[l + 1].ds_first
EntriesOf(l) ==
    LET inner == {k \in l + 1 .. Len(open) : Doc[open[k].o].kind = "table"}
    IN  IF inner = {} THEN B.vs ELSE B.frame[CHOOSE k \in inner : \A m \in inner : k <= m].c.vs_end

\* The fields of every open table are on the stacks as they were added,
\* whatever was started, ended and taken back inside it since.
OpenFieldsKept ==
    phase = "building" =>
       \A l \in DOMAIN open : Doc[open[l].o].kind = "table" =>
          \A p \in open[l].parts :
             LET f == Doc[open[l].o].fields[p]
                 vte == B.vs_mem[EntriesOf(l) + f.id]
                 at == BytesOf(l) + vte - field_size
                 data == IF f.kind = "inline" THEN f.data
                         ELSE write_uoffset(Last(refs[f.to]))
             IN  vte # 0 /\ SubSeq(B.ds_mem, at + 1, at + Len(data)) = data

\* Above the open objects the stacks are zero, which is what padding and
\* absent fields are made of.
ZeroAbove ==
    phase = "building" =>
       /\ \A i \in B.ds_first + B.ds_offset + 1 .. Len(B.ds_mem) : B.ds_mem[i] = 0
       /\ \A i \in DOMAIN B.vs_mem : i >= B.vs + B.id_end => B.vs_mem[i] = 0

\* The vtable that was emitted for a descriptor.
VtableOf(d) ==
    LET vt == [bytes |-> B.sent.bytes, at |-> d.vt_ref - 1 - B.sent.start]
    IN  [i \in 1 .. read_voffset(vt, 0) \div voffset_size |->
            read_voffset(vt, (i - 1) * voffset_size)]

=============================================================================
