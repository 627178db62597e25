--------------------------- MODULE IdempotentSend ---------------------------
(***************************************************************************)
(* IdempotentProvider.Send (idempotency.go): concurrent calls that carry   *)
(* idempotency keys, one store between them, and a provider that answers   *)
(* as it likes, panics included.                                           *)
(*                                                                         *)
(* A call is one goroutine inside Send; a caller that retries is another   *)
(* call.  The steps of a call are those that other goroutines can observe: *)
(* reading the clock, the critical section of Reserve or Get, the start    *)
(* and the end of the provider call, and the critical section that records *)
(* or releases.  In between, other calls run, the clock advances, entries  *)
(* expire and are swept, and the caller's context dies.                    *)
(*                                                                         *)
(* CanReserve selects the path: TRUE for a store that implements Reserver, *)
(* FALSE for the check-then-act of sendUnreserved.  Unreliable lets the    *)
(* store lose writes and replies, which MemoryIdempotencyStore never does  *)
(* and a store shared over a network does.                                 *)
(***************************************************************************)
EXTENDS Integers, Sequences

CONSTANTS
  Calls, Results, Nil,
  Symbols,     \* what the names of channels and idempotency keys consist of
  Channels, IdKeys,
  ConfigTTL,   \* IdempotencyConfig.TTL
  DefaultTTL,  \* what NewIdempotentProvider puts in place of a zero TTL
  CanReserve,  \* the store implements Reserver
  Unreliable,  \* the store may lose a write or a reply
  MaxTime      \* bound: the clock stops here

ASSUME ConstantsAssumption ==
  /\ ConfigTTL \in Int /\ DefaultTTL \in Int
  /\ CanReserve \in BOOLEAN /\ Unreliable \in BOOLEAN
  /\ MaxTime \in Nat
  /\ Nil \notin Calls /\ Nil \notin Results

\* Channels and keys are texts.  The empty key is none.  No channel is another
\* one with a colon after it and more, which is true of those in channel.go:
\* they have no colon.
ASSUME TextsAssumption ==
  /\ ":" \in Symbols /\ "idem:" \in Symbols
  /\ Channels \subseteq Seq(Symbols) /\ IdKeys \subseteq Seq(Symbols) \ {<<>>}
  /\ \A channel, other \in Channels :
       (/\ Len(channel) < Len(other)
        /\ \A i \in 1..Len(channel) : channel[i] = other[i]) => other[Len(channel) + 1] # ":"

VARIABLES
  entries, now,  \* the store
  pc,            \* where each call is
  msg,           \* what each call sends: the channel of its provider, its key
  at,            \* the clock as Reserve read it before locking; history where
                 \* there is no Reserve: when Get was asked
  outcome,       \* the (result, error) pair of the provider, then of Send
  cancelled,     \* the caller's context is dead
  produced,      \* history: the pairs the provider produced for a message, each
                 \* with the call that it answered
  settled,       \* history: until when the outcome recorded last answers for
                 \* a key, and whether a nil outcome was set on top of it
  lost           \* history: calls whose claim the store lost track of

store == <<entries, now>>
vars  == <<entries, now, pc, msg, at, outcome, cancelled, produced, settled, lost>>

-----------------------------------------------------------------------------
\* NewIdempotentProvider replaces a zero TTL only; a negative one stays.
TTL == IF ConfigTTL = 0 THEN DefaultTTL ELSE ConfigTTL

\* Mutant: nothing shows where the channel ends.
buildCacheKeyNoColon(channel, key) == <<"idem:">> \o channel \o key

buildCacheKey(channel, key) == <<"idem:">> \o channel \o <<":">> \o key

CacheKeys == {buildCacheKey(channel, key) : channel \in Channels, key \in IdKeys}

Store == INSTANCE MemoryStore WITH Keys <- CacheKeys

\* Neither an entry nor a Reserve that waits is mistaken for nil.
ASSUME NilAssumption == Nil \notin Store!Entry /\ Nil \notin [key: CacheKeys, at: Int]

NoKey   == <<>>
Message == [channel: Channels, key: IdKeys \cup {NoKey}]
Keyed(c) == msg[c].key # NoKey
K(c)     == buildCacheKey(msg[c].channel, msg[c].key)

\* Mutant: the caller's own context is used.
cleanupContextOfCaller(c) == {cancelled[c]}

\* Whether the context that finishes a reservation can be dead.  It is detached
\* from the caller's; only its own timeout, on a store that stalls, ends it.
cleanupContext(c) == IF Unreliable THEN BOOLEAN ELSE {FALSE}

\* sendUnreserved has no such context: Set runs on the caller's.
writeContext(c) == IF CanReserve THEN cleanupContext(c) ELSE {FALSE, cancelled[c]}

Pair(r, e) == [result |-> r, err |-> e]
Production(c, r, e) == [by |-> c, result |-> r, err |-> e]
Outcomes == [result: Results \cup {Nil}, err: {"none", "provider", "in_flight", "store"}]
Answered == {"none", "provider"}
Productions == [by: Calls, result: Results \cup {Nil}, err: Answered]

Init ==
  /\ Store!InitStore
  /\ now = 0
  /\ pc = [c \in Calls |-> "idle"]
  /\ msg \in [Calls -> Message]
  /\ at = [c \in Calls |-> 0]
  /\ outcome = [c \in Calls |-> Pair(Nil, "none")]
  /\ cancelled = [c \in Calls |-> FALSE]
  /\ produced = [m \in Message |-> {}]
  /\ settled = [k \in CacheKeys |-> [until |-> 0, cleared |-> FALSE]]
  /\ lost = {}

Goto(c, from, to) == pc[c] = from /\ pc' = [pc EXCEPT ![c] = to]
Answer(c, r, e)   == outcome' = [outcome EXCEPT ![c] = Pair(r, e)]
Settle(k, until)  == settled' = [settled EXCEPT ![k] = [until |-> until, cleared |-> FALSE]]
Clear(k)          == settled' = [settled EXCEPT ![k].cleared = TRUE]

-----------------------------------------------------------------------------
(* Before the provider: is this call the one that sends?                   *)

\* A message without a key goes straight to the provider.
SendDirect(c) ==
  /\ ~Keyed(c)
  /\ Goto(c, "idle", "sending")
  /\ UNCHANGED <<store, msg, at, outcome, cancelled, produced, settled, lost>>

\* Reserve draws its token and reads the clock, and then waits for the lock.
BeginReserve(c) ==
  /\ Keyed(c) /\ CanReserve
  /\ Goto(c, "idle", "locking")
  /\ at' = [at EXCEPT ![c] = now]
  /\ UNCHANGED <<store, msg, outcome, cancelled, produced, settled, lost>>

\* Reserve returns a token.  The provider is not called yet.
Granted(c) ==
  /\ Goto(c, "locking", "passed")
  /\ Store!ReserveGrant(K(c), c, at[c], TTL)
  /\ UNCHANGED <<now, msg, at, outcome, cancelled, produced, settled, lost>>

Replayed(c) ==
  /\ Goto(c, "locking", "done")
  /\ \E r \in Results : Store!ReserveReplay(K(c), at[c], r) /\ Answer(c, r, "none")
  /\ UNCHANGED <<now, msg, at, cancelled, produced, settled, lost>>

Refused(c) ==
  /\ Goto(c, "locking", "done")
  /\ Store!ReserveInFlight(K(c), at[c])
  /\ Answer(c, Nil, "in_flight")
  /\ UNCHANGED <<now, msg, at, cancelled, produced, settled, lost>>

\* sendUnreserved asks Get instead, and forgets what it saw.
LookupMisses(c) ==
  /\ Keyed(c) /\ ~CanReserve
  /\ Goto(c, "idle", "passed")
  /\ ~Store!GetFinds(K(c))
  /\ at' = [at EXCEPT ![c] = now]
  /\ UNCHANGED <<store, msg, outcome, cancelled, produced, settled, lost>>

LookupHits(c) ==
  /\ Keyed(c) /\ ~CanReserve
  /\ Goto(c, "idle", "done")
  /\ Store!GetFinds(K(c))
  /\ Answer(c, entries[K(c)].result, "none")
  /\ UNCHANGED <<store, msg, at, cancelled, produced, settled, lost>>

\* No token could be drawn, or the store failed to answer: nothing is sent.
LookupFails(c) ==
  /\ Keyed(c)
  /\ Goto(c, IF CanReserve THEN "locking" ELSE "idle", "done")
  /\ Answer(c, Nil, "store")
  /\ UNCHANGED <<store, msg, at, cancelled, produced, settled, lost>>

\* The store made the claim, but its reply did not arrive.
GrantLost(c) ==
  /\ Unreliable
  /\ Goto(c, "locking", "done")
  /\ Store!ReserveGrant(K(c), c, at[c], TTL)
  /\ Answer(c, Nil, "store")
  /\ lost' = lost \cup {c}
  /\ UNCHANGED <<now, msg, at, cancelled, produced, settled>>

-----------------------------------------------------------------------------
(* The provider call, and what Send does with its outcome.                 *)

\* provider.Send begins.  Between Reserve or Get and here nothing looks at the
\* store again, however long the goroutine was off the processor.
EntersProvider(c) ==
  /\ Goto(c, "passed", "sending")
  /\ UNCHANGED <<store, msg, at, outcome, cancelled, produced, settled, lost>>

\* Mutant: any error gives up the claim, whatever came with it.
AfterSendAbandons(c, r, e) ==
  IF ~Keyed(c) THEN "done" ELSE IF e # "none" THEN "abandoning" ELSE "finalizing"

\* An error without a result leaves nothing to record; everything else is an
\* outcome, even a nil result without an error.
AfterSend(c, r, e) ==
  IF ~Keyed(c) THEN "done"
  ELSE IF e # "none" /\ r = Nil THEN IF CanReserve THEN "abandoning" ELSE "done"
  ELSE IF CanReserve THEN "finalizing" ELSE "setting"

ProviderReturns(c) ==
  \E r \in Results \cup {Nil}, e \in Answered :
    /\ Goto(c, "sending", AfterSend(c, r, e))
    /\ Answer(c, r, e)
    /\ produced' = [produced EXCEPT ![msg[c]] = @ \cup {Production(c, r, e)}]
    /\ UNCHANGED <<store, msg, at, cancelled, settled, lost>>

\* Nothing in Send recovers: the goroutine unwinds past the claim.
ProviderPanics(c) ==
  /\ Goto(c, "sending", "crashed")
  /\ UNCHANGED <<store, msg, at, outcome, cancelled, produced, settled, lost>>

FinalizeRecords(c) ==
  /\ Goto(c, "finalizing", "done")
  /\ outcome[c].result # Nil
  /\ Store!FinalizeRecord(K(c), c, outcome[c].result, TTL)
  /\ Settle(K(c), now + TTL)
  /\ UNCHANGED <<now, msg, at, outcome, cancelled, produced, lost>>

FinalizeReleases(c) ==
  /\ Goto(c, "finalizing", "done")
  /\ outcome[c].result = Nil
  /\ Store!FinalizeRelease(K(c), c)
  /\ UNCHANGED <<now, msg, at, outcome, cancelled, produced, settled, lost>>

\* ErrClaimSuperseded is discarded: Send returns the outcome of its own send.
FinalizeIsSuperseded(c) ==
  /\ Goto(c, "finalizing", "done")
  /\ Store!FinalizeSuperseded(K(c), c)
  /\ UNCHANGED <<now, msg, at, outcome, cancelled, produced, settled, lost>>

Abandons(c) ==
  /\ Goto(c, "abandoning", "done")
  /\ Store!Abandon(K(c), c)
  /\ UNCHANGED <<now, msg, at, outcome, cancelled, produced, settled, lost>>

\* sendUnreserved: a nil result clears whatever is recorded for the key, also
\* what another call recorded meanwhile.
SetsResult(c) ==
  /\ Goto(c, "setting", "done")
  /\ outcome[c].result # Nil
  /\ Store!SetRecord(K(c), outcome[c].result, TTL)
  /\ Settle(K(c), now + TTL)
  /\ UNCHANGED <<now, msg, at, outcome, cancelled, produced, lost>>

SetsNil(c) ==
  /\ Goto(c, "setting", "done")
  /\ outcome[c].result = Nil
  /\ Store!SetNil(K(c))
  /\ Clear(K(c))
  /\ UNCHANGED <<now, msg, at, outcome, cancelled, produced, lost>>

\* The store rejects or loses the last write.  Its error is discarded too.
CleanupFails(c) ==
  /\ pc[c] \in {"finalizing", "abandoning", "setting"}
  /\ TRUE \in writeContext(c)
  /\ pc' = [pc EXCEPT ![c] = "done"]
  /\ lost' = lost \cup {c}
  /\ UNCHANGED <<store, msg, at, outcome, cancelled, produced, settled>>

-----------------------------------------------------------------------------
(* The environment: callers give up or ask again, time passes, and the     *)
(* store is swept.                                                         *)

Cancel(c) ==
  /\ pc[c] \notin {"idle", "done", "crashed"}
  /\ cancelled' = [cancelled EXCEPT ![c] = TRUE]
  /\ UNCHANGED <<store, pc, msg, at, outcome, produced, settled, lost>>

\* A caller answered ErrSendInFlight calls Send again.  The token drawn for the
\* refused call was never handed out, so the new call can go by its identity.
AsksAgain(c) ==
  /\ outcome[c].err = "in_flight"
  /\ Goto(c, "done", "idle")
  /\ cancelled' = [cancelled EXCEPT ![c] = FALSE]
  /\ UNCHANGED <<store, msg, at, outcome, produced, settled, lost>>

Tick ==
  /\ now < MaxTime
  /\ now' = now + 1
  /\ UNCHANGED <<entries, pc, msg, at, outcome, cancelled, produced, settled, lost>>

Sweep ==
  /\ Store!removeExpired
  /\ UNCHANGED <<now, pc, msg, at, outcome, cancelled, produced, settled, lost>>

Looks(c)    == Granted(c) \/ Replayed(c) \/ Refused(c) \/ LookupFails(c) \/ GrantLost(c)
Finishes(c) == \/ FinalizeRecords(c) \/ FinalizeReleases(c) \/ FinalizeIsSuperseded(c)
               \/ Abandons(c) \/ SetsResult(c) \/ SetsNil(c) \/ CleanupFails(c)

Next ==
  \/ \E c \in Calls :
       \/ SendDirect(c) \/ BeginReserve(c) \/ LookupMisses(c) \/ LookupHits(c)
       \/ Looks(c)
       \/ EntersProvider(c) \/ ProviderReturns(c) \/ ProviderPanics(c)
       \/ Finishes(c)
       \/ Cancel(c) \/ AsksAgain(c)
  \/ Tick
  \/ Sweep

Spec == Init /\ [][Next]_vars

\* The clock runs, a goroutine that is waiting for the mutex gets it, and a
\* refused caller asks again.  Nothing is assumed of the sweeper (Close stops
\* it) nor of the provider, which may hang.
FairSpec ==
  /\ Spec
  /\ WF_vars(Tick)
  /\ \A c \in Calls : /\ WF_vars(BeginReserve(c)) /\ WF_vars(Looks(c))
                      /\ WF_vars(Finishes(c)) /\ WF_vars(AsksAgain(c))

-----------------------------------------------------------------------------
(* Properties.                                                             *)

\* The store only holds claims and outcomes, never a recorded nil (the
\* invariant Finalize and Set keep), and every other variable has its type.
TypeOK ==
  /\ Store!Stored
  /\ now \in 0..MaxTime
  /\ pc \in [Calls -> {"idle", "locking", "passed", "sending", "finalizing",
                       "abandoning", "setting", "done", "crashed"}]
  /\ msg \in [Calls -> Message]
  /\ at \in [Calls -> 0..MaxTime]
  /\ outcome \in [Calls -> Outcomes]
  /\ cancelled \in [Calls -> BOOLEAN]
  /\ produced \in [Message -> SUBSET Productions]
  /\ settled \in [CacheKeys -> [until: Int, cleared: BOOLEAN]]
  /\ lost \subseteq Calls

\* A call that holds, or believes it holds, the claim on its key.
Holding(c) ==
  CanReserve /\ Keyed(c) /\ pc[c] \in {"passed", "sending", "finalizing", "abandoning"}

\* Its claim has not run out.
Live(c) == Holding(c) /\ now < at[c] + TTL

\* Send's promise: of the calls with one key, at most one is between Reserve
\* and its Finalize or Abandon with a claim that has not run out.  Late calls
\* of earlier holders and stale clock readings must not break it.
OneLiveSender ==
  \A c, d \in Calls : Live(c) /\ Live(d) /\ K(c) = K(d) => c = d

\* The provider has answered this call, and with a result.
Delivered(c) == \E p \in produced[msg[c]] : p.by = c /\ p.result # Nil

\* What this call sent, or may have sent, has not failed for good.
Sent(c) ==
  /\ CanReserve /\ Keyed(c)
  /\ Holding(c) \/ pc[c] = "crashed" \/ Delivered(c)

\* The steps that let a call with a key through to the provider, and that call
\* the provider.
LetThrough(c) == Keyed(c) /\ pc[c] # "passed" /\ pc'[c] = "passed"
Reaches(c)    == pc[c] = "passed" /\ pc'[c] = "sending"

\* What an idempotency key is for: from the moment a call claims its key, no
\* other call with that key is let through for a whole TTL, unless the send of
\* the first one failed without a result.  Nor does one reach the provider that
\* was let through before, unless it got there only after its own claim ran out.
\* A panic, a cancelled caller, a late Finalize, a sweep and a store that loses
\* writes and replies change nothing about that.
OneSendPerTTL ==
  [][\A c, d \in Calls : (c # d /\ K(c) = K(d) /\ Sent(c)) =>
       /\ LetThrough(d) => now >= at[c] + TTL
       /\ Reaches(d) => now >= at[c] + TTL \/ now >= at[d] + TTL]_vars

\* ErrSendInFlight is never a lie: a call is refused only when another call
\* for the key took its claim less than a TTL before the refused one read the
\* clock, and that call is still sending, died, or lost the store on its way.
RefusedOnlyBySender ==
  [][\A c \in Calls : Refused(c) =>
       \E d \in Calls \ {c} :
         /\ Keyed(d) /\ K(d) = K(c) /\ at[c] < at[d] + TTL
         /\ Holding(d) \/ pc[d] = "crashed" \/ (Unreliable /\ d \in lost)]_vars

\* The first outcome recorded for a key stands until it expires: whatever a
\* late sender, its Abandon or the sweeper does, a retry sees that answer.
OutcomeStands ==
  [][\A k \in CacheKeys :
       (CanReserve /\ entries[k] # Nil /\ entries[k].result # Nil
          /\ now < entries[k].expiresAt) => entries'[k] = entries[k]]_vars

\* The outcome recorded last for a key has expired, or is gone: without Reserve
\* another call with the key can set a nil outcome on top of it.
OutcomeIsOver(k) == now >= settled[k].until \/ (~CanReserve /\ settled[k].cleared)

\* Once an outcome is recorded for a key, neither Reserve nor Get lets a call
\* with that key through before the outcome's TTL has passed.
SettledKeyLetsNoneThrough ==
  [][\A c \in Calls : LetThrough(c) => OutcomeIsOver(K(c))]_vars

\* README.md, "Idempotency": the check-then-act path does not hold under
\* concurrency.  How far it does not: a call that reaches the provider although
\* an outcome of its key stands had asked Get no later than that outcome was
\* recorded.  Whoever asks later sends nothing.
DuplicateLookedEarlier ==
  [][\A c \in Calls : Reaches(c) =>
       OutcomeIsOver(K(c)) \/ at[c] + TTL <= settled[K(c)].until]_vars

\* A call answered without an error got a result the provider produced for
\* this very message: this key on this channel.
ReplayFaithful ==
  \A c \in Calls :
    (Keyed(c) /\ pc[c] = "done" /\ outcome[c].err = "none") =>
      \E p \in produced[msg[c]] : p.result = outcome[c].result

Waiting(c) ==
  /\ Keyed(c)
  /\ pc[c] = "locking" \/ (pc[c] \in {"idle", "done"} /\ outcome[c].err = "in_flight")

\* The entry of the key outlives the clock of the model.
BeyondClock(k) == entries[k] # Nil /\ entries[k].expiresAt > MaxTime

\* A caller that keeps asking is not refused for ever, whatever became of the
\* call that holds the key: a hung or panicked provider, a lost reply, a lost
\* Finalize.  The TTL is what ends those claims.
AskerIsAnswered ==
  \A c \in Calls : Waiting(c) ~> (~Waiting(c) \/ BeyondClock(K(c)))

\* README.md, "Idempotency": a send that outlived its claim is reported with
\* ErrClaimSuperseded.  Send discards it.
SupersededIsReported ==
  [][\A c \in Calls : FinalizeIsSuperseded(c) => outcome'[c].err = "superseded"]_vars

\* The comment in Send: an error that came with a result is recorded "so
\* retries see the same answer".  The result is kept and the error is not.
RetriesSeeTheSameAnswer ==
  \A c \in Calls :
    (Keyed(c) /\ pc[c] = "done" /\ outcome[c].err \in Answered) =>
      \E p \in produced[msg[c]] : Pair(p.result, p.err) = outcome[c]

-----------------------------------------------------------------------------
(* The inductive invariant behind the safety properties.                   *)

\* Which path a call is on follows from where it is.
OnItsPath ==
  \A c \in Calls :
    /\ pc[c] \in {"locking", "finalizing", "abandoning"} => Keyed(c) /\ CanReserve
    /\ pc[c] = "passed" => Keyed(c)
    /\ pc[c] = "setting" => Keyed(c) /\ ~CanReserve

\* Reserve's clock reading may be stale, but never early.
AtIsPast == \A c \in Calls : at[c] <= now

\* While a holder's claim has not run out, the table has it.
LiveClaimIsStored ==
  \A c \in Calls : Live(c) => entries[K(c)] = Store!Claim(c, at[c] + TTL)

\* A claim in the table is that of a call which is still under way, or which
\* died or lost contact with the store before it could end its claim.
Detached(c) == pc[c] = "crashed" \/ (Unreliable /\ c \in lost)
IsClaimOf(k, c) ==
  /\ Keyed(c) /\ K(c) = k
  /\ entries[k].token = c /\ entries[k].expiresAt = at[c] + TTL
ClaimHasOwner ==
  \A k \in CacheKeys : (entries[k] # Nil /\ entries[k].result = Nil) =>
    \E c \in Calls : IsClaimOf(k, c) /\ (Holding(c) \/ Detached(c))

\* A call whose last exchange with the store failed does not ask again: it was
\* answered with a store error, or with what its provider said.
LostIsOver ==
  \A c \in Calls :
    /\ c \in lost => pc[c] = "done" /\ outcome[c].err # "in_flight"
    /\ pc[c] \in {"finalizing", "abandoning", "setting"} => outcome[c].err \in Answered

\* What was settled and is not over is in the table.
SettledIsStored ==
  \A k \in CacheKeys : OutcomeIsOver(k) \/
    /\ entries[k] # Nil /\ entries[k].result # Nil
    /\ entries[k].expiresAt = settled[k].until

\* A call that was let through found nothing that stands now, unless it looked
\* before that was recorded.
PassedLookedEarlier ==
  \A c \in Calls : pc[c] = "passed" =>
    OutcomeIsOver(K(c)) \/ at[c] + TTL <= settled[K(c)].until

\* A call is answered by the provider at most once, and then keeps that answer.
\* What is given up rather than recorded had no result.
AnswerIsItsOwn ==
  \A c \in Calls : \A p \in produced[msg[c]] : p.by = c =>
    /\ pc[c] \in {"finalizing", "abandoning", "setting", "done"}
    /\ outcome[c] = Pair(p.result, p.err)
    /\ pc[c] = "abandoning" => p.result = Nil

\* For a TTL the entry of the key is the claim of what was sent, or an outcome
\* that lasts longer.
SentBlocks ==
  \A c \in Calls : (Sent(c) /\ now < at[c] + TTL) =>
    /\ entries[K(c)] # Nil
    /\ at[c] + TTL <= entries[K(c)].expiresAt
    /\ entries[K(c)].result # Nil \/ entries[K(c)].token = c

IInv ==
  /\ TypeOK
  /\ OnItsPath
  /\ AtIsPast
  /\ LiveClaimIsStored
  /\ ClaimHasOwner
  /\ LostIsOver
  /\ SettledIsStored
  /\ PassedLookedEarlier
  /\ AnswerIsItsOwn
  /\ SentBlocks
=============================================================================
