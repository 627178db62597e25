---------------------------- MODULE MemoryStore ----------------------------
(***************************************************************************)
(* MemoryIdempotencyStore (idempotency.go): the table of idempotency       *)
(* entries and the operations on it.  Every operation runs under the       *)
(* store's mutex, so each one is an atomic action on `entries`; what the   *)
(* operation returns is the alternative that was taken.                    *)
(*                                                                         *)
(* Reserve is the exception that matters: it reads the clock BEFORE it     *)
(* takes the lock, so its actions receive that earlier reading as `at`.    *)
(* All other operations read the clock, here `now`, under the lock.        *)
(*                                                                         *)
(* The module has no behaviour of its own.  StoreClients drives it with    *)
(* every legal sequence of calls, IdempotentSend with those of the         *)
(* idempotent provider.                                                    *)
(***************************************************************************)
EXTENDS Integers

CONSTANTS
  Keys,     \* cache keys
  Calls,    \* invocations of Reserve, each of which draws one claim token
  Results,  \* send results, opaque to the store
  Nil       \* Go's nil: no entry, no result, the empty token

VARIABLES
  entries,  \* [Keys -> Entry \cup {Nil}], the map under the mutex
  now       \* the clock

\* The 16 random bytes of a token are as good as the identity of the call
\* that drew them: no two calls share one.
newClaimToken(c) == c

Tokens == {newClaimToken(c) : c \in Calls}

\* An entry is either a claim, which has a token and no result yet, or a
\* recorded outcome, which has a result and no token.
Entry == [token: Tokens, result: {Nil},   expiresAt: Int] \cup
         [token: {Nil},  result: Results, expiresAt: Int]

Claim(t, expiry)   == [token |-> t,   result |-> Nil, expiresAt |-> expiry]
Outcome(r, expiry) == [token |-> Nil, result |-> r,   expiresAt |-> expiry]

Stored == entries \in [Keys -> Entry \cup {Nil}]

InitStore == entries = [k \in Keys |-> Nil]

Put(k, e) == entries' = [entries EXCEPT ![k] = e]

-----------------------------------------------------------------------------
(* Reserve, at the clock reading `at`: claim, replay or refuse.            *)

\* Mutant: the entry is looked up without its expiry.
UnexpiredForever(k, at) == entries[k] # Nil

Unexpired(k, at) == entries[k] # Nil /\ at < entries[k].expiresAt

ReserveGrant(k, c, at, ttl) ==
  /\ ~Unexpired(k, at)
  /\ Put(k, Claim(newClaimToken(c), at + ttl))

ReserveReplay(k, at, r) ==
  /\ Unexpired(k, at)
  /\ entries[k].result # Nil
  /\ r = entries[k].result
  /\ UNCHANGED entries

ReserveInFlight(k, at) ==
  /\ Unexpired(k, at)
  /\ entries[k].result = Nil
  /\ UNCHANGED entries

-----------------------------------------------------------------------------
(* Abandon and Finalize, fenced by the token of the claim.                 *)

\* Mutant: any resultless claim is released, whoever holds it.
AbandonsUnfenced(k, t) ==
  t # Nil /\ entries[k] # Nil /\ entries[k].result = Nil

\* Mutant: the claim stays behind.
AbandonsNothing(k, t) == FALSE

Abandons(k, t) ==
  /\ t # Nil
  /\ entries[k] # Nil
  /\ entries[k].result = Nil
  /\ entries[k].token = t

Abandon(k, t) ==
  entries' = [entries EXCEPT ![k] = IF Abandons(k, t) THEN Nil ELSE @]

\* Mutant: only the missing token is refused.
SupersededUnfenced(k, t) == t = Nil

\* Finalize answers ErrClaimSuperseded.  An absent entry supersedes nothing.
Superseded(k, t) ==
  \/ t = Nil
  \/ entries[k] # Nil /\ entries[k].token # t

FinalizeSuperseded(k, t) ==
  /\ Superseded(k, t)
  /\ UNCHANGED entries

\* Mutant: a nil outcome is recorded like any other.
FinalizeReleaseAsOutcome(k, t) ==
  /\ ~Superseded(k, t)
  /\ Put(k, Outcome(Nil, now))

FinalizeRelease(k, t) ==
  /\ ~Superseded(k, t)
  /\ Put(k, Nil)

FinalizeRecord(k, t, r, ttl) ==
  /\ ~Superseded(k, t)
  /\ Put(k, Outcome(r, now + ttl))

-----------------------------------------------------------------------------
(* The IdempotencyStore interface, which carries no token.                 *)

\* Mutant: a fresh outcome is not found.
GetFindsLate(k) ==
  entries[k] # Nil /\ now > entries[k].expiresAt /\ entries[k].result # Nil

GetFinds(k) ==
  /\ entries[k] # Nil
  /\ now <= entries[k].expiresAt
  /\ entries[k].result # Nil

SetRecord(k, r, ttl) == Put(k, Outcome(r, now + ttl))

\* Mutant: a claim is cleared as well.
SetNilUnguarded(k) == Put(k, Nil)

\* Mutant: the nil result is stored, an entry that nobody's token can release.
SetNilRecords(k) == Put(k, Outcome(Nil, now + 1))

\* Set with a nil result clears a completed entry and leaves a claim alone.
SetNil(k) ==
  entries' = [entries EXCEPT ![k] =
                IF @ # Nil /\ @.result # Nil THEN Nil ELSE @]

Delete(k) == Put(k, Nil)

\* Mutant: entries that have not expired yet are swept.
removeYoung ==
  entries' = [k \in Keys |->
                IF entries[k] # Nil /\ now < entries[k].expiresAt
                THEN Nil ELSE entries[k]]

removeExpired ==
  entries' = [k \in Keys |->
                IF entries[k] # Nil /\ now > entries[k].expiresAt
                THEN Nil ELSE entries[k]]
=============================================================================
