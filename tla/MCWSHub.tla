------------------------------- MODULE MCWSHub --------------------------------
(* Instances of WSHub for TLC. *)
EXTENDS WSHub, TLC

(* Connections, senders and users only differ by their names. *)
Symmetry == Permutations(Clients) \cup Permutations(Senders) \cup Permutations(Users)

===============================================================================
