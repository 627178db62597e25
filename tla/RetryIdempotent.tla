-------------------------- MODULE RetryIdempotent --------------------------
(***************************************************************************)
(* A retry wrapper (retry.go) around an idempotent provider                *)
(* (idempotency.go): every attempt of the loop is a call of                *)
(* IdempotentProvider.Send and carries the same message, so it meets what  *)
(* the attempts before it left in the store, and what other callers do.    *)
(*                                                                         *)
(* The attempts are the calls of IdempotentSend; this module says which of *)
(* them belong to one loop and when the next one may begin.  A call that   *)
(* goes through no wrapper is a loop of one.  An attempt need not be       *)
(* followed: the budget may be used up, the error's reason not be listed,  *)
(* or the context be done while the loop waits.                            *)
(***************************************************************************)
EXTENDS IdempotentSend

CONSTANTS
  Okay,        \* the results whose OK is set
  maxAttempts  \* how many attempts a loop may make

ASSUME RetryAssumption == Okay \subseteq Results /\ maxAttempts \in Nat

VARIABLES
  loop,   \* the first attempt of the loop a call belongs to
  number  \* which attempt of its loop it is

loops == <<loop, number>>
retryVars == <<vars, loops>>

SameLoop(c, d) == loop[c] = loop[d]
Precedes(c, d) == SameLoop(c, d) /\ number[d] = number[c] + 1

\* The loop passes one message to every attempt.
Loops ==
  /\ loop \in [Calls -> Calls]
  /\ number \in [Calls -> 1..maxAttempts]
  /\ \A c \in Calls :
       /\ number[c] = 1 <=> loop[c] = c
       /\ number[c] > 1 => \E d \in Calls : Precedes(d, c)
       /\ msg[c] = msg[loop[c]]
  /\ \A c, d \in Calls : SameLoop(c, d) /\ number[c] = number[d] => c = d

RetryInit == Init /\ Loops

\* What an attempt answered is worth another one: an error, which is retryable
\* unless it has a reason that is not listed, or a result that is not OK.
\* ErrSendInFlight and the errors of a store have no reason.  Two nils panic.
Retryable(c) ==
  \/ outcome[c].err # "none"
  \/ outcome[c].result \notin Okay \cup {Nil}

MayBegin(c) ==
  \A d \in Calls : Precedes(d, c) => pc[d] = "done" /\ Retryable(d)

Begins(c)    == pc[c] = "idle" /\ pc'[c] # "idle"
InLoop(c)    == \E d \in Calls \ {c} : SameLoop(c, d)

\* Inside a loop it is the loop that asks again, with an attempt of its own.
RetryNext ==
  /\ Next
  /\ \A c \in Calls : /\ Begins(c) => MayBegin(c)
                      /\ InLoop(c) => ~AsksAgain(c)
  /\ UNCHANGED loops

RetrySpec == RetryInit /\ [][RetryNext]_retryVars

-----------------------------------------------------------------------------
(* Properties.                                                             *)

\* README.md, "What is and is not reported": a send that fails without a result
\* abandons its claim, so a retry is not blocked.  An attempt that is refused
\* was never refused because of an earlier attempt of its own loop, unless the
\* store lost the last write of that attempt.
RetryIsNotItsOwnObstacle ==
  [][\A c \in Calls : Refused(c) =>
       LET holder == entries[K(c)].token
       IN  SameLoop(holder, c) => Unreliable /\ holder \in lost]_retryVars

\* The provider failed and gave a result with its error, as those of this
\* package always do.
FailedWithResult(c) ==
  /\ pc[c] = "done" /\ Keyed(c) /\ CanReserve
  /\ outcome[c].err = "provider" /\ outcome[c].result # Nil

\* Such a failure is an outcome like any other: for a TTL from the claim on, the
\* retries of its loop, which it provokes, do not reach the provider.  They can
\* neither send the message twice nor get it sent after all.
FailureIsNotResent ==
  [][\A c, d \in Calls :
       (/\ SameLoop(c, d) /\ number[c] < number[d]
        /\ FailedWithResult(c) /\ Reaches(d)) => now >= at[c] + TTL]_retryVars
=============================================================================
