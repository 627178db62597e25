----------------------------- MODULE RetrySend -----------------------------
(***************************************************************************)
(* RetryProvider.Send and RetrySender.Send (retry.go) over the Registry.   *)
(*                                                                         *)
(* The two loops are the same; what differs is whom an attempt calls.  A   *)
(* RetryProvider wraps one provider and calls it every time.  A            *)
(* RetrySender wraps a Sender, here the Registry, which looks the          *)
(* channel's provider up anew at each attempt while administrators         *)
(* register, replace and remove providers.                                 *)
(*                                                                         *)
(* A provider may answer with any combination of result and error, which   *)
(* is what the Provider interface allows.                                  *)
(***************************************************************************)
EXTENDS Integers

CONSTANTS
  Calls, Channels, Providers, Nil,
  ChannelOf, Valid,   \* of the providers, see Registry
  MaxRetries,         \* RetryConfig.MaxRetries of the wrapper each call goes
                      \* through; nothing rejects a negative one
  RetryDelay, MaxRetryDelay, BackoffMultiplier,
  RetryableReasons

ASSUME ConstantsAssumption ==
  /\ ChannelOf \in [Providers -> Channels]
  /\ Valid \subseteq Providers
  /\ Nil \notin Providers
  /\ MaxRetries \in [Calls -> Int]

\* The code multiplies in float64.  Whole numbers below 2^53 stand for it.
ASSUME DelaysAssumption ==
  RetryDelay \in Nat /\ MaxRetryDelay \in Nat /\ BackoffMultiplier \in Nat

VARIABLES
  providers,  \* the registry
  via,        \* "sender" for RetrySender, "provider" for RetryProvider
  channel,    \* the channel a RetrySender was asked to send on
  pc,         \* where each call is in the loop
  target,     \* the provider an attempt calls
  attempt,    \* the loop's counter
  delay,      \* the last delay waited for
  answer,     \* lastResult and lastErr, in the end what Send returned
  cancelled,  \* the context is done
  seen,       \* history: who was registered for the channel in this attempt
  verdict     \* history: the first answer that leaves nothing to retry

vars == <<providers, via, channel, pc, target, attempt, delay, answer,
          cancelled, seen, verdict>>

Reg == INSTANCE Registry

\* Errors by what IsRetryable sees of them: none, one without a reason, or a
\* ProviderError with its reason.
Reasons == {"provider_down", "invalid_destination", "not_registered"}
Errors  == {"none", "untyped"} \cup Reasons
Results == {"ok", "failed", Nil}
Pair(r, e) == [result |-> r, err |-> e]
NoAnswer   == Pair(Nil, "none")

\* No answer is mistaken for nil.
ASSUME NilAssumption == Nil \notin [result: Results, err: Errors]

Init ==
  /\ Reg!InitRegistry
  /\ via \in [Calls -> {"sender", "provider"}]
  /\ channel \in [Calls -> Channels]
  /\ target \in [Calls -> Providers \cup {Nil}]
  /\ \A c \in Calls : target[c] = Nil <=> via[c] = "sender"
  /\ pc = [c \in Calls |-> "starting"]
  /\ attempt = [c \in Calls |-> 0]
  /\ delay = [c \in Calls |-> 0]
  /\ answer = [c \in Calls |-> NoAnswer]
  /\ cancelled = [c \in Calls |-> FALSE]
  /\ seen = [c \in Calls |-> {}]
  /\ verdict = [c \in Calls |-> Nil]

-----------------------------------------------------------------------------
(* The configuration.                                                      *)

\* Mutant: every error is retried.
IsRetryableAlways(e) == e # "none"

IsRetryable(e) == e = "untyped" \/ e \in RetryableReasons

\* Mutant: the product wraps around in an integer that is too narrow for it.
CalculateDelayWraps(a) == (RetryDelay * (a + 1) * BackoffMultiplier) % 8

CalculateDelay(a) ==
  LET d == RetryDelay * (a + 1) * BackoffMultiplier
  IN  IF d > MaxRetryDelay THEN MaxRetryDelay ELSE d

\* Mutant: the first attempt is counted as a retry.
maxAttemptsShort(c) == MaxRetries[c]

\* Mutant: one retry too many.
maxAttemptsLong(c) == MaxRetries[c] + 2

maxAttempts(c) == MaxRetries[c] + 1

-----------------------------------------------------------------------------
(* The loop.                                                               *)

Goto(c, from, to) == pc[c] = from /\ pc' = [pc EXCEPT ![c] = to]
Return(c, p)      == answer' = [answer EXCEPT ![c] = p]

\* Where an attempt begins: the Sender has to find its provider first.
FirstStep(c) == IF via[c] = "sender" THEN "resolving" ELSE "calling"

\* History: who is registered when the attempt begins, and later while it lasts.
Attempting(c) == pc[c] \in {"resolving", "calling", "sending"}
Watch(c) == seen' = [seen EXCEPT ![c] = {Reg!Get(channel[c])}]

Start(c) ==
  /\ maxAttempts(c) > 0
  /\ Goto(c, "starting", FirstStep(c))
  /\ Watch(c)
  /\ UNCHANGED <<providers, via, channel, target, attempt, delay, answer, cancelled, verdict>>

\* A negative MaxRetries makes no attempt and returns two nils.
StartWithoutAttempts(c) ==
  /\ maxAttempts(c) <= 0
  /\ Goto(c, "starting", "done")
  /\ UNCHANGED <<providers, via, channel, target, attempt, delay, answer, cancelled, seen, verdict>>

\* Mutant: the provider of the first attempt is kept.
LookupOnce(c) == IF attempt[c] > 0 /\ target[c] # Nil THEN target[c] ELSE Reg!Get(channel[c])

Lookup(c) == Reg!Get(channel[c])

\* Registry.Send: Get under the lock, the provider's Send after it.
Resolve(c) ==
  /\ Lookup(c) # Nil
  /\ Goto(c, "resolving", "calling")
  /\ target' = [target EXCEPT ![c] = Lookup(c)]
  /\ UNCHANGED <<providers, via, channel, attempt, delay, answer, cancelled, seen, verdict>>

CallProvider(c) ==
  /\ Goto(c, "calling", "sending")
  /\ UNCHANGED <<providers, via, channel, target, attempt, delay, answer, cancelled, seen, verdict>>

Succeeded(p) == p.err = "none" /\ p.result = "ok"
Fatal(p)     == p.err # "none" /\ ~IsRetryable(p.err)

\* A result without an error that is not OK is retried like an error.
NextStep(c, p) ==
  IF Succeeded(p) \/ Fatal(p) \/ attempt[c] + 1 >= maxAttempts(c) THEN "done" ELSE "waiting"

\* History: a success, or a reason the configuration does not list.
Conclusive(p) == Succeeded(p) \/ p.err \in Reasons \ RetryableReasons
Conclude(c, p) ==
  verdict' = [verdict EXCEPT ![c] = IF @ = Nil /\ Conclusive(p) THEN p ELSE @]

\* Mutant: a retry is not counted.
HandleAnswerUncounted(c, from, p) ==
  /\ Goto(c, from, NextStep(c, p))
  /\ Return(c, p)
  /\ delay' = [delay EXCEPT ![c] = IF NextStep(c, p) = "waiting"
                                   THEN CalculateDelay(attempt[c]) ELSE @]
  /\ Conclude(c, p)
  /\ UNCHANGED attempt

\* What an attempt answered is remembered, returned or retried.
HandleAnswer(c, from, p) ==
  /\ Goto(c, from, NextStep(c, p))
  /\ Return(c, p)
  /\ attempt' = [attempt EXCEPT ![c] = @ + 1]
  /\ delay' = [delay EXCEPT ![c] = IF NextStep(c, p) = "waiting"
                                   THEN CalculateDelay(attempt[c]) ELSE @]
  /\ Conclude(c, p)

NotRegistered(c) ==
  /\ Lookup(c) = Nil
  /\ HandleAnswer(c, "resolving", Pair(Nil, "not_registered"))
  /\ UNCHANGED <<providers, via, channel, target, cancelled, seen>>

ProviderAnswers(c) ==
  \E r \in Results, e \in Errors :
    /\ r # Nil \/ e # "none"
    /\ HandleAnswer(c, "sending", Pair(r, e))
    /\ UNCHANGED <<providers, via, channel, target, cancelled, seen>>

\* Two nils: `result.OK` dereferences the nil result.
ProviderAnswersNil(c) ==
  /\ Goto(c, "sending", "panicked")
  /\ UNCHANGED <<providers, via, channel, target, attempt, delay, answer, cancelled, seen, verdict>>

\* When the timer and the context are both ready, select may take either.
TimerFires(c) ==
  /\ Goto(c, "waiting", FirstStep(c))
  /\ Watch(c)
  /\ UNCHANGED <<providers, via, channel, target, attempt, delay, answer, cancelled, verdict>>

\* The answer of the last attempt is dropped for the context's error.
ContextDone(c) ==
  /\ cancelled[c]
  /\ Goto(c, "waiting", "done")
  /\ Return(c, Pair(Nil, "context"))
  /\ UNCHANGED <<providers, via, channel, target, attempt, delay, cancelled, seen, verdict>>

-----------------------------------------------------------------------------
(* The environment.                                                        *)

Cancel(c) ==
  /\ ~cancelled[c] /\ pc[c] \notin {"done", "panicked"}
  /\ cancelled' = [cancelled EXCEPT ![c] = TRUE]
  /\ UNCHANGED <<providers, via, channel, pc, target, attempt, delay, answer, seen, verdict>>

Administer ==
  /\ \/ \E p \in Providers : Reg!Register(p)
     \/ \E ch \in Channels : Reg!Unregister(ch)
     \/ Reg!Clear
  /\ seen' = [c \in Calls |-> IF Attempting(c) THEN seen[c] \cup {providers'[channel[c]]}
                                             ELSE seen[c]]
  /\ UNCHANGED <<via, channel, pc, target, attempt, delay, answer, cancelled, verdict>>

Progress(c) ==
  \/ Start(c) \/ StartWithoutAttempts(c)
  \/ Resolve(c) \/ NotRegistered(c) \/ CallProvider(c)
  \/ ProviderAnswers(c) \/ ProviderAnswersNil(c)
  \/ TimerFires(c) \/ ContextDone(c)

Next ==
  \/ \E c \in Calls : Progress(c) \/ Cancel(c)
  \/ Administer

Spec == Init /\ [][Next]_vars

\* Goroutines run, timers fire, and a provider's Send returns: the HTTP client
\* and the SMTP connection have their own time limits.
FairSpec == Spec /\ \A c \in Calls : WF_vars(Progress(c))

-----------------------------------------------------------------------------
(* Properties.                                                             *)

Ended == {"done", "panicked"}

\* Every variable has its type, and the loop counts within its budget.
TypeOK ==
  /\ Reg!Registered
  /\ via \in [Calls -> {"sender", "provider"}]
  /\ channel \in [Calls -> Channels]
  /\ target \in [Calls -> Providers \cup {Nil}]
  /\ pc \in [Calls -> {"starting", "resolving", "calling", "sending", "waiting"} \cup Ended]
  /\ attempt \in [Calls -> Nat]
  /\ \A c \in Calls : attempt[c] = 0 \/ attempt[c] <= MaxRetries[c] + 1
  /\ delay \in [Calls -> 0..MaxRetryDelay]
  /\ answer \in [Calls -> [result: Results, err: Errors \cup {"context"}]]
  /\ cancelled \in [Calls -> BOOLEAN]
  /\ seen \in [Calls -> SUBSET (Providers \cup {Nil})]
  /\ verdict \in [Calls -> [result: Results, err: Errors] \cup {Nil}]

\* A message that was accepted is not sent again, one that was rejected for
\* good is not tried again, and in both cases that very answer is returned,
\* even if the context is cancelled meanwhile.
VerdictStands ==
  \A c \in Calls : verdict[c] # Nil => pc[c] = "done" /\ answer[c] = verdict[c]

\* Send gives up on a failure that is worth retrying only when the context is
\* done or the first attempt and all MaxRetries retries were made.
NeverGivesUpEarly ==
  \A c \in Calls :
    pc[c] = "done" =>
      \/ verdict[c] # Nil
      \/ cancelled[c] /\ answer[c] = Pair(Nil, "context")
      \/ attempt[c] = MaxRetries[c] + 1
      \/ MaxRetries[c] < 0 /\ answer[c] = NoAnswer

\* A RetrySender calls only a provider that was in charge of its channel at
\* some time during this attempt: a provider that was replaced while the loop
\* slept gets no further message.
FreshProvider ==
  \A c \in Calls :
    (via[c] = "sender" /\ pc[c] \in {"calling", "sending"}) => target[c] \in seen[c]

\* From one wait to the next the delay does not shrink.
BackoffNeverShrinks == [][\A c \in Calls : delay'[c] >= delay[c]]_vars

\* Send returns (or panics), whatever the providers answer and whatever
\* happens in the registry.
Terminates == \A c \in Calls : <>(pc[c] \in Ended)

\* The comment in IdempotentProvider.Send: a nil result without an error is
\* an outcome "the Provider interface permits".  RetryProvider panics on it.
NilOutcomeIsPermitted == \A c \in Calls : pc[c] # "panicked"

\* The comment on BackoffMultiplier and the README: exponential backoff.  Each
\* delay is the last one times the multiplier, up to the maximum.
BackoffIsExponential ==
  [][\A c \in Calls :
       (delay[c] > 0 /\ delay'[c] # delay[c]) =>
         \/ delay'[c] = delay[c] * BackoffMultiplier
         \/ delay'[c] = MaxRetryDelay]_vars

-----------------------------------------------------------------------------
(* The inductive invariant behind the safety properties.                   *)

\* An attempt is only under way while the budget lasts.
WithinBudget ==
  \A c \in Calls :
    /\ pc[c] = "starting" => attempt[c] = 0 /\ answer[c] = NoAnswer
    /\ pc[c] \in {"resolving", "calling", "sending", "waiting"} => attempt[c] <= MaxRetries[c]

\* Whoever Get would return now has been noted in this attempt's history.
RegistryIsSeen ==
  \A c \in Calls : pc[c] = "resolving" => Reg!Get(channel[c]) \in seen[c]

\* The last delay is no longer than the next one would be.
DelayIsBehind == \A c \in Calls : delay[c] <= CalculateDelay(attempt[c])

IInv ==
  /\ TypeOK
  /\ VerdictStands
  /\ NeverGivesUpEarly
  /\ FreshProvider
  /\ WithinBudget
  /\ RegistryIsSeen
  /\ DelayIsBehind
=============================================================================
