---------------------------- MODULE MCRetrySend ----------------------------
(***************************************************************************)
(* Small instances of RetrySend for TLC.                                   *)
(***************************************************************************)
EXTENDS RetrySend, TLC

CONSTANTS c1, c2, p1, p2, email

\* Two providers contend for one channel.
TwoProviders == (p1 :> email) @@ (p2 :> email)

\* One wrapper retries, the other one is configured not to try at all.
OneRetries   == (c1 :> 2) @@ (c2 :> -1)

ThreeRetries == c1 :> 3
=============================================================================
