--------------------------- MODULE MCConversation ---------------------------
(***************************************************************************)
(* Instances of Conversation for TLC.                                      *)
(***************************************************************************)
EXTENDS Conversation, TLC

\* "use `conversation_id.as_bytes()`" (ratchet.rs:253): one id for both ends.
\* The client does not do so; under its own ClientLabel no message would be
\* opened, and what happens around a decryption could not be looked at.
SharedLabel == [p \in Party |-> "conversation"]

\* A slot is only a place for an operation.
Interchangeable == Permutations(Slot)
=============================================================================
