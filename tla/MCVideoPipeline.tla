-------------------------- MODULE MCVideoPipeline --------------------------
(* Instances of VideoPipeline for TLC.                                      *)
EXTENDS VideoPipeline, TLC

\* Processes are interchangeable, and so are requests.
Symmetry ==
  {p @@ r : p \in Permutations(Workers), r \in Permutations(Requests)}
=============================================================================
