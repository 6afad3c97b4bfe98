----------------------------- MODULE MCKsocket -----------------------------
(* Ksocket with sets of model values; the .cfg files give the constants.   *)
EXTENDS Ksocket, TLC

\* Threads, blocks and WSK sockets are interchangeable: sound for the safety
\* runs, which declare all of them symmetric.
Symmetry == Permutations(Threads) \cup Permutations(Sockets)
              \cup Permutations(WskSockets)
=============================================================================
