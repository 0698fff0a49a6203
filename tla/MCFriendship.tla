----------------------------- MODULE MCFriendship -----------------------------
(* Instances of Friendship for TLC. *)
EXTENDS FriendViews

(* asked is a history variable that no guard reads; a run that checks no   *)
(* property about it need not tell states apart by it.                     *)
NoHistory == <<rows, req>>

===============================================================================
