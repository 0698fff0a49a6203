-------------------------------- MODULE UserIds -------------------------------
(***************************************************************************)
(* The ids of users, which the chat rooms and the hub of WebSocket         *)
(* connections share.                                                      *)
(***************************************************************************)

CONSTANTS
    Users,      \* the ids that may occur
    NoUser      \* the id of nobody

ASSUME NoUserAssumption == NoUser \notin Users

===============================================================================
