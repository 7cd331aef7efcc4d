------------------------------ MODULE Accounts ------------------------------
(* What the models of accounts/ share: the users.                          *)

CONSTANTS Users, NoUser

ASSUME NoUserAssumption == NoUser \notin Users
=============================================================================
