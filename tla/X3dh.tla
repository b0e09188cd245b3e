-------------------------------- MODULE X3dh --------------------------------
(***************************************************************************)
(* The X3DH computation of crates/crypto_core/src/lib.rs and the two Tauri *)
(* commands around it.  A key pair is named by its secret; a public key is *)
(* that name and the curve its bytes are a point of.  libsodium's scalar   *)
(* multiplication takes the bytes of a Montgomery point; given those of an *)
(* Edwards point it computes something, which the owner of the other       *)
(* secret cannot compute.                                                  *)
(***************************************************************************)

BoxPk(sk) == [form |-> "montgomery", of |-> sk]
SignPk(sk) == [form |-> "edwards", of |-> sk]

\* ed25519_pk_to_curve25519; ed25519_sk_to_curve25519 keeps the name.
Converted(pk) == BoxPk(pk.of)

\* do_dh: commutes for Montgomery points, and only for them.
DoDh(sk, pk) ==
    [of |-> {sk, pk.of}, only |-> IF pk.form = "montgomery" THEN {} ELSE {sk}]

\* The one-time pre-key is an Option in the code, a set of at most one here.
\* HKDF is taken as injective, so the secret is what goes into it, in order.
X3dhSender(aik, aek, bikPk, bspkPk, bopkPks) ==
    [dh1 |-> DoDh(aik, bspkPk),
     dh2 |-> DoDh(aek, bikPk),
     dh3 |-> DoDh(aek, bspkPk),
     dh4 |-> { DoDh(aek, pk) : pk \in bopkPks }]

X3dhReceiver(bik, bspk, bopks, aikPk, aekPk) ==
    [dh1 |-> DoDh(bspk, aikPk),
     dh2 |-> DoDh(bik, aekPk),
     dh3 |-> DoDh(bspk, aekPk),
     dh4 |-> { DoDh(sk, aekPk) : sk \in bopks }]

\* alice_x3dh: the ephemeral pair is generated for signing; its secret is
\* converted, its public key is taken over byte for byte.
AliceX3dh(aik, aek, bundle) ==
    [secret |-> X3dhSender(aik, aek, Converted(bundle.ik), bundle.spk, bundle.opk),
     ephemeral |-> SignPk(aek)]

\* bob_x3dh: the identity key is converted, the ephemeral key is not.
BobX3dh(bik, bspk, bopks, aikPk, ephemeral) ==
    X3dhReceiver(bik, bspk, bopks, Converted(aikPk), ephemeral)
=============================================================================
