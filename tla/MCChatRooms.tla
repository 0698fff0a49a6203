----------------------------- MODULE MCChatRooms ------------------------------
(* Instances of ChatRooms for TLC. *)
EXTENDS ChatRooms, TLC

(* Requests and users only differ by their names. *)
Symmetry == Permutations(Requests) \cup Permutations(Accounts)

===============================================================================
