----------------------------- MODULE MCAddrInfo -----------------------------
(* AddrInfo with the calls and lists of the runs: node and service given or *)
(* not, up to two elements of hints, and answers of one to three elements.  *)
EXTENDS AddrInfo

SeqsOf(lengths) == UNION {[1 .. n -> BOOLEAN] : n \in lengths}

MCCalls == [node : BOOLEAN, service : BOOLEAN, hints : SeqsOf(0 .. 2)]
MCLists == SeqsOf(1 .. 3)
=============================================================================
