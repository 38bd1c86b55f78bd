------------------------------- MODULE MCChat -------------------------------
(* Instances of Chat for TLC.                                               *)
EXTENDS Chat, TLC

\* Clients are interchangeable, and so are messages.
Symmetry == {p @@ r : p \in Permutations(Sockets), r \in Permutations(Messages)}
=============================================================================
