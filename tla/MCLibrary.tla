----------------------------- MODULE MCLibrary -----------------------------
(* Instances of Library for TLC.                                            *)
EXTENDS Library, TLC

\* Accounts, addresses and videos are interchangeable.
Symmetry == {p @@ r @@ e : p \in Permutations(Users), r \in Permutations(Videos),
                           e \in Permutations(Emails)}
=============================================================================
