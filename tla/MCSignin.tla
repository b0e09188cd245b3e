------------------------------- MODULE MCSignin -------------------------------
(***************************************************************************)
(* Signin on one machine with an administrator and one more user.          *)
(***************************************************************************)
EXTENDS Signin
===============================================================================
