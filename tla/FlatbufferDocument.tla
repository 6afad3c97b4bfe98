------------------------- MODULE FlatbufferDocument -------------------------
(***************************************************************************)
(* What a program wants to have in a flatbuffer: a function Doc from names *)
(* of objects to records:                                                  *)
(*   table    fields: a sequence of [id, kind, ...] where a field is       *)
(*            "inline" (data, align), "offset" (to), "union" (type, to) or *)
(*            "union_vector" (to)                                          *)
(*   string   data                vector   elems, align                    *)
(*   offsets  to                  unions   elems: type and to              *)
(*   struct   data, align         buffer   root, block_align               *)
(* Each names the buffer it belongs to (in), and whether it is created by  *)
(* one call or started and ended (by).                                     *)
(***************************************************************************)
EXTENDS Integers, Sequences

CONSTANT Doc

Kinds == {"table", "string", "vector", "offsets", "unions", "struct", "buffer"}
IsSeq(s) == s = [i \in 1 .. Len(s) |-> s[i]] /\ Len(s) \in Nat

\* The data of an object are bytes in sequence, alignments are positive, the
\* elements of a vector have one size, and the type of a union is the field
\* before it.
IsObject(d) ==
    /\ d.kind \in Kinds
    /\ d.kind \in {"string", "struct"} => IsSeq(d.data)
    /\ d.kind \in {"vector", "struct"} => d.align \in Nat \ {0}
    /\ d.kind = "vector" => /\ IsSeq(d.elems) /\ d.elems # <<>>
                            /\ \A i \in DOMAIN d.elems : /\ IsSeq(d.elems[i])
                                                          /\ Len(d.elems[i]) = Len(d.elems[1])
    /\ d.kind = "buffer" => d.block_align \in Nat
    /\ d.kind = "table" => \A i \in DOMAIN d.fields :
          /\ d.fields[i].id \in Nat
          /\ d.fields[i].kind \in {"union", "union_vector"} => d.fields[i].id # 0
          /\ d.fields[i].kind = "inline" => d.fields[i].align \in Nat \ {0}
                                            /\ IsSeq(d.fields[i].data)
DocAssumption == \A o \in DOMAIN Doc : IsObject(Doc[o])
ASSUME DocAssumption

\* Fields refer to objects of the document, those that are union vectors to
\* vectors of unions and the others not.
ReferenceAssumption ==
    \A o \in DOMAIN Doc : Doc[o].kind = "table" =>
       \A i \in DOMAIN Doc[o].fields :
          LET f == Doc[o].fields[i]
          IN  f.kind # "inline" => /\ f.to \in DOMAIN Doc
                                   /\ f.kind = "union_vector" <=> Doc[f.to].kind = "unions"
ASSUME ReferenceAssumption
=============================================================================
