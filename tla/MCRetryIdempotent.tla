------------------------- MODULE MCRetryIdempotent -------------------------
(***************************************************************************)
(* Small instances of RetryIdempotent for TLC.                             *)
(***************************************************************************)
EXTENDS RetryIdempotent, TLC

SomeSymbols == {"idem:", ":", "s", "k"}
OneChannel  == {<<"s">>}
OneKey      == {<<"k">>}

\* Calls and results are interchangeable as in MCIdempotentSend.  No
\* result is OK there, so nothing distinguishes one.
Symmetry == Permutations(Calls) \cup Permutations(Results)
=============================================================================
