----------------------------- MODULE MCRouter -----------------------------
(***************************************************************************)
(* Instances of Router for TLC: device A sends to device B, which has two  *)
(* connection slots so that an old and a new connection of B overlap.      *)
(***************************************************************************)
EXTENDS Router, TLC

CONSTANTS A, B,          \* devices
          a1, b1, b2,    \* connection slots of A and of B
          n1             \* the instance

MCOwner == (a1 :> A) @@ (b1 :> B) @@ (b2 :> B)

\* Everything on one instance.
OneHost == [c \in Conn |-> n1]

MCFrom == [m \in Msg |-> A]
MCTo == [m \in Msg |-> B]

\* B's slots are alike when they are on the same instance, and so are the
\* messages.
MCSymmetry == Permutations(Msg) \cup Permutations({b1, b2})
=============================================================================
