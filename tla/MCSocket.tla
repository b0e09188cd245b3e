------------------------------- MODULE MCSocket -------------------------------
(***************************************************************************)
(* Socket for a few sign-ins and frames.                                   *)
(***************************************************************************)
EXTENDS Socket
===============================================================================
