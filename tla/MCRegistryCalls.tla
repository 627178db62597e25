-------------------------- MODULE MCRegistryCalls --------------------------
(***************************************************************************)
(* A small instance of RegistryCalls for TLC.  There is no symmetry in it, *)
(* because LockIsGranted is a liveness property.                           *)
(***************************************************************************)
EXTENDS RegistryCalls, TLC

CONSTANTS p1, p2, email, sms

\* The provider of the other channel never gets past its own Validate.
OneEach == p1 :> email @@ p2 :> sms
=============================================================================
