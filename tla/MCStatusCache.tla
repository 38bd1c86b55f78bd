--------------------------- MODULE MCStatusCache ---------------------------
(* Instances of StatusCache for TLC.                                        *)
EXTENDS StatusCache, TLC

\* Processes are interchangeable, and so are readers.
Symmetry ==
  {p @@ r : p \in Permutations(Processes), r \in Permutations(Readers)}
=============================================================================
