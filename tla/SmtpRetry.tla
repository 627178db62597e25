----------------------------- MODULE SmtpRetry -----------------------------
(***************************************************************************)
(* A retry wrapper (retry.go) around the SMTP provider: attempts of one    *)
(* mail, each over a connection of its own, and all on the caller's        *)
(* context.  The servers of earlier attempts are not through with the mail *)
(* only because Send is.                                                   *)
(***************************************************************************)
EXTENDS SmtpSession

CONSTANT MaxRetries

ASSUME MaxRetriesAssumption == MaxRetries \in Nat

VARIABLE past  \* the attempts that were given up: the server, and why

retryVars == <<vars, past>>

RetryInit == Init /\ past = <<>>

\* Mutant: a send that failed is worth another one.
IsRetryableSendFailed == answer \in {"timeout", "failed"}

\* The default RetryableReasons.  The reason of every failure but a timeout is
\* send_failed, which is not among them, and that of a refusal is neither.
IsRetryable == answer = "timeout"

\* If the loop has not seen the end of the context, which its select may miss,
\* it calls Send again, which starts from scratch.
Again ==
  /\ pc = "done" /\ IsRetryable
  /\ Len(past) < MaxRetries
  /\ past' = Append(past, [server |-> server, ctx |-> ctx, failure |-> failure])
  /\ pc' = "start"
  /\ todo' = Script(config)
  /\ conn' = "none" /\ timer' = "none" /\ watch' = "none"
  /\ secure' = FALSE
  /\ server' = "nothing"
  /\ failure' = Nil /\ answer' = Nil
  /\ UNCHANGED <<config, ctx>>

\* The server of an attempt that was given up decides at last.
DecidesLate ==
  /\ \E i \in DOMAIN past, verdict \in {"accepted", "refused"} :
       /\ past[i].server = "has_it"
       /\ past' = [past EXCEPT ![i].server = verdict]
  /\ UNCHANGED vars

RetryNext ==
  \/ Next /\ UNCHANGED past
  \/ Again
  \/ DecidesLate

RetrySpec == RetryInit /\ [][RetryNext]_retryVars /\ Fairness

-----------------------------------------------------------------------------
(* Properties.                                                             *)

\* The retry loop over Send: the mail of an attempt that was given up is taken
\* charge of, now or later, by a server, and another attempt gets to the point
\* where a server has it again.  That happens only if it was the network that
\* timed out.  A QUIT that fails for another reason, a refusal, a cancellation
\* or the deadline of the context never send a mail twice.
TwiceOnlyAfterTimeout ==
  \A i \in DOMAIN past :
    (/\ past[i].server \in {"has_it", "accepted"}
     /\ \/ server # "nothing"
        \/ \E j \in DOMAIN past : j > i /\ past[j].server # "nothing")
    => past[i].failure = "timeout" /\ past[i].ctx = "live"
=============================================================================
