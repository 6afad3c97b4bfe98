--------------------------- MODULE FlatccReadback ---------------------------
(***************************************************************************)
(* The finished buffers of FlatccSession, given to the verifier and to the *)
(* accessors of their reader.                                              *)
(***************************************************************************)
EXTENDS FlatccSession, FlatbufferReader

\* What was built is accepted by the verifier of its schema.
VerifierAccepts ==
    phase = "done" => /\ out # NULL
                      /\ flatcc_verify_table_as_root([bytes |-> out, at |-> 0], Len(out),
                                                     Doc[top].root)

\* What was built reads back as the document.
ReadsBack ==
    phase = "done" => out # NULL /\ RootReadsAs([bytes |-> out, at |-> 0], Doc[top].root)
=============================================================================
