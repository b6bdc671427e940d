--------------------------- MODULE MCNamedObjects ---------------------------
(***************************************************************************)
(* Instances of NamedObjects.                                              *)
(***************************************************************************)
EXTENDS NamedObjects, TLC

\* Processes are alike, and so are the names.
Symmetry == Permutations(Procs) \cup Permutations(Names)
=============================================================================
