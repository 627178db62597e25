-------------------------- MODULE MCIdempotentSend --------------------------
(***************************************************************************)
(* Small instances of IdempotentSend for TLC.                              *)
(***************************************************************************)
EXTENDS IdempotentSend, TLC

SomeSymbols == {"idem:", ":", "s", "m", "k"}

\* One channel begins like the other, and a key as the rest of that one.
OneChannel  == {<<"s">>}
TwoChannels == {<<"s">>, <<"s", "m">>}
OneKey      == {<<"k">>}
TwoKeys     == {<<"k">>, <<"m", "k">>}

\* Bound: every call has the message whose key begins with the rest of the
\* longer channel, or one other: on that channel, with that key, or neither.  A
\* message without a key never meets the store and is left to the other runs.
TwoMessages(common) ==
  \E other \in {m \in Message : m.key # NoKey} :
    \A c \in Calls : msg[c] \in {common, other}

InitTwoMessages == Init /\ TwoMessages([channel |-> <<"s">>, key |-> <<"m", "k">>])

TwoMessagesSpec == InitTwoMessages /\ [][Next]_vars

\* Calls and results are interchangeable: nothing orders or names them.
Symmetry == Permutations(Calls) \cup Permutations(Results)
=============================================================================
