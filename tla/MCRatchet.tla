----------------------------- MODULE MCRatchet -----------------------------
(***************************************************************************)
(* Instances of RatchetPair for TLC.                                       *)
(***************************************************************************)
EXTENDS RatchetPair

\* "use `conversation_id.as_bytes()`" (ratchet.rs:253): one id for both ends.
SharedLabel == [p \in Party |-> "conversation"]
=============================================================================
