-------------------------------- MODULE MCPosts --------------------------------
(* Two users, one of whom has a community, and two overlapping requests. *)
EXTENDS PostViews

Symmetry == Permutations(Requests)
===============================================================================
