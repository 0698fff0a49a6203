------------------------------ MODULE MCAccounts ------------------------------
(* Two requests of any browsers overlap; model values for TLC. *)
EXTENDS Accounts
===============================================================================
