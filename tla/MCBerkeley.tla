----------------------------- MODULE MCBerkeley ----------------------------
(* Berkeley with sets of model values; the .cfg files give the constants.  *)
EXTENDS Berkeley, TLC

\* Threads and KSOCKETs are interchangeable.
Symmetry == Permutations(Threads) \cup Permutations(Handles)
=============================================================================
