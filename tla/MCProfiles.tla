------------------------------ MODULE MCProfiles ------------------------------
(* One user, two overlapping requests, faults and crashes. *)
EXTENDS Profiles, TLC

Symmetry == Permutations(Users) \cup Permutations(Names) \cup Permutations(Files)
              \cup Permutations(Requests)
===============================================================================
