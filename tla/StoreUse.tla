------------------------------ MODULE StoreUse ------------------------------
(***************************************************************************)
(* What IdempotentProvider.Send (idempotency.go) asks of its store.        *)
(* StoreClients assumes of those who use a store that they reserve once    *)
(* with a token, and finalize or abandon only what they were granted.      *)
(* Here three history variables watch IdempotentSend and tell it in the    *)
(* terms of StoreClients.  They change nothing about what it does.         *)
(***************************************************************************)
EXTENDS IdempotentSend

VARIABLES
  asked,    \* the Reserve that a call has begun: its key and clock
  granted,  \* the pairs <<call, key>> for which Reserve made a claim
  op        \* the last operation of the store that ended, and its answer

use == <<asked, granted, op>>

InitUse ==
  /\ Init
  /\ asked = [c \in Calls |-> Nil]
  /\ granted = {}
  /\ op = Nil

\* A call completes an operation on the entry of its message.
Completes(c, name, answer, o) ==
  o = [name |-> name, call |-> c, key |-> K(c), answer |-> answer]

AskedNow(c)    == [asked EXCEPT ![c] = [key |-> K(c), at |-> at'[c]]]
AskedNoMore(c) == [asked EXCEPT ![c] = Nil]

\* Reserve begins, and ends with one of its three answers.  One that fails has
\* begun and never ends.
Reserves(c, a, g, o) ==
  \/ BeginReserve(c) /\ a = AskedNow(c) /\ g = granted /\ o = op
  \/ /\ Granted(c) \/ GrantLost(c)
     /\ a = AskedNoMore(c) /\ g = granted \cup {<<c, K(c)>>}
     /\ Completes(c, "reserve", "granted", o)
  \/ /\ Replayed(c)
     /\ a = AskedNoMore(c) /\ g = granted
     /\ Completes(c, "reserve", entries[K(c)].result, o)
  \/ /\ Refused(c)
     /\ a = AskedNoMore(c) /\ g = granted
     /\ Completes(c, "reserve", "in_flight", o)

\* All other operations are over at once and hand out no claim.
Operates(c, o) ==
  \/ LookupMisses(c) /\ Completes(c, "get", "missing", o)
  \/ LookupHits(c) /\ Completes(c, "get", entries[K(c)].result, o)
  \/ (FinalizeRecords(c) \/ FinalizeReleases(c)) /\ Completes(c, "finalize", "ok", o)
  \/ FinalizeIsSuperseded(c) /\ Completes(c, "finalize", "superseded", o)
  \/ Abandons(c) /\ Completes(c, "abandon", "ok", o)
  \/ SetsResult(c) /\ Completes(c, "set", "ok", o)
  \/ SetsNil(c) /\ Completes(c, "set_nil", "ok", o)

\* These do not touch the store, or the store does not hear of them.
Elsewhere(c) ==
  \/ SendDirect(c) \/ LookupFails(c)
  \/ EntersProvider(c) \/ ProviderReturns(c) \/ ProviderPanics(c)
  \/ CleanupFails(c) \/ Cancel(c) \/ AsksAgain(c)

\* A step, and the values it gives to the history variables.
Step(a, g, o) ==
  \/ \E c \in Calls :
       \/ Reserves(c, a, g, o)
       \/ Operates(c, o) /\ a = asked /\ g = granted
       \/ Elsewhere(c) /\ a = asked /\ g = granted /\ o = op
  \/ (Tick \/ Sweep) /\ a = asked /\ g = granted /\ o = op

UseNext == Step(asked', granted', op')

UseSpec == InitUse /\ [][UseNext]_<<vars, use>>

-----------------------------------------------------------------------------
(* What makes it a legal client: the inductive invariant.                  *)

Unclaimed(c) == \A k \in CacheKeys : <<c, k>> \notin granted

\* A refused call may begin again, and with the same token: that one was not
\* handed out.
MayAsk(c) == pc[c] = "idle" \/ (pc[c] = "done" /\ outcome[c].err = "in_flight")

Legal(c) ==
  /\ MayAsk(c) => asked[c] = Nil /\ Unclaimed(c)
  /\ pc[c] = "locking" => asked[c] = [key |-> K(c), at |-> at[c]] /\ Unclaimed(c)
  /\ Holding(c) => <<c, K(c)>> \in granted
  /\ pc[c] \in {"finalizing", "abandoning", "setting"} => outcome[c].err # "in_flight"

UseInv ==
  /\ granted \subseteq Calls \X CacheKeys
  /\ asked \in [Calls -> [key: CacheKeys, at: 0..MaxTime] \cup {Nil}]
  /\ \A c \in Calls : Legal(c)
=============================================================================
