----------------------------- MODULE MCHttpSend -----------------------------
(***************************************************************************)
(* Small instances of HttpSend for TLC.                                    *)
(***************************************************************************)
EXTENDS HttpSend

CONSTANT k1

\* One message comes with a key, another without.
OneKey == {k1, Nil}
=============================================================================
