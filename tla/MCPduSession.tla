---------------------------- MODULE MCPduSession ----------------------------
(* PduSession with message lengths; the .cfg files give the other values.   *)
EXTENDS PduSession

\* The longest message fills a send buffer but for the byte SizeCheck keeps.
MCPayloadLength ==
  [type \in PduTypes |->
     CASE type = "PDU_SOMETHING_WITH_UINTS" -> 0
       [] type = "PDU_SOMETHING_MORE" -> 1
       [] type = "PDU_EVEN_MORE" -> 2]

\* The same with messages of at most one byte.
MCShortLength ==
  [type \in PduTypes |-> IF type = "PDU_EVEN_MORE" THEN 1 ELSE 0]
=============================================================================
