------------------------------ MODULE MCConsole ------------------------------
(***************************************************************************)
(* Console for two users, one of whom has two devices.                     *)
(***************************************************************************)
EXTENDS Console, TLC

CONSTANTS u1, u2, d1, d2, d3

MCOwner == (d1 :> u1) @@ (d2 :> u1) @@ (d3 :> u2)
===============================================================================
