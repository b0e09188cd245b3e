------------------------------ MODULE MCAccess ------------------------------
(***************************************************************************)
(* An instance of Access for TLC.  Requests, devices, tokens and challenges*)
(* are interchangeable; users are not, one of them is the administrator.   *)
(***************************************************************************)
EXTENDS Access, TLC

Interchangeable ==
    Permutations(Request) \cup Permutations(Device) \cup Permutations(Jti)
=============================================================================
