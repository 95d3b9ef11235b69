------------------------------ MODULE MCAccounts ------------------------------
(* Two accounts of two slots, a new name, and three characters. *)
EXTENDS Accounts
=============================================================================
