---------------------------- MODULE MCChatMessages ----------------------------
(* An instance of ChatMessages and ChatViews for TLC. *)
EXTENDS ChatViews, TLC

CONSTANTS u1, u2, u3, c1, none

(* One chat of two users; u3 is a stranger and the chat "none" is not      *)
(* there.                                                                  *)
OneChat == [c \in {c1, none} |-> IF c = c1 THEN {u1, u2} ELSE {}]

(* A pack with one sticker, and an empty one. *)
OnePack == <<<<"known">>, <<>>>>

(* Calls only differ by their names. *)
Symmetry == Permutations(Calls)

===============================================================================
