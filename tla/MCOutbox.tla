------------------------------- MODULE MCOutbox -------------------------------
(***************************************************************************)
(* Outbox for one client and two contacts.                                 *)
(***************************************************************************)
EXTENDS Outbox
===============================================================================
