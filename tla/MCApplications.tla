---------------------------- MODULE MCApplications ----------------------------
(* Two requests of two browsers, an ordinary user and an administrator. *)
EXTENDS Applications, TLC

Symmetry == Permutations(Clients) \cup Permutations(Temps) \cup Permutations(Calls)
===============================================================================
