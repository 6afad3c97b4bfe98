--------------------------- MODULE MCKSocketClass ---------------------------
(***************************************************************************)
(* A small instance of KSocketClass: a client, a server and what it        *)
(* accepts, with fewer descriptors than objects.                            *)
(***************************************************************************)
EXTENDS KSocketClass

CONSTANTS client, server, accepted, fd1, fd2

MCClients     == {client}
MCServers     == {server}
MCDescriptors == {fd1, fd2}
MCValues      == {1, 2}
MCWidths      == {1, 2}
MCRecvSizes   == {2}

\* Descriptors are only compared.
DescriptorSymmetry == Permutations(MCDescriptors)
=============================================================================
