----------------------------- MODULE MCPrekeys -----------------------------
(***************************************************************************)
(* An instance of Prekeys for TLC.  Everything with a name is interchange- *)
(* able; the order of registration is in the sequence of devices.          *)
(***************************************************************************)
EXTENDS Prekeys, TLC

Interchangeable ==
    Permutations(Device) \cup Permutations(Key) \cup
    Permutations(Job) \cup Permutations(Requester)
=============================================================================
