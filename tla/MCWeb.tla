------------------------------- MODULE MCWeb -------------------------------
(***************************************************************************)
(* WebClient for TLC: an employee and an administrator, who has every page *)
(* a manager has, take turns in one tab, on the pages that show the clock. *)
(***************************************************************************)
EXTENDS WebClient

CONSTANTS eli, ada

TwoRoles == (eli :> "EMPLOYEE") @@ (ada :> "ADMIN")
=============================================================================
