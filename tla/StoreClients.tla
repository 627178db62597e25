---------------------------- MODULE StoreClients ----------------------------
(***************************************************************************)
(* MemoryIdempotencyStore under its most general clients.  Any caller may  *)
(* use the whole of the exported interface, at any time and in any order:  *)
(* reserve a key, finalize or abandon a claim it was granted (late, twice, *)
(* after somebody overwrote it), Get, Set, Set(nil), Delete and Close,     *)
(* while the clock runs and the cleanup goroutine sweeps.                  *)
(*                                                                         *)
(* The store implements ClaimRegister, which knows no clock and no tokens. *)
(***************************************************************************)
EXTENDS MemoryStore

CONSTANTS
  TTLs,     \* the TTLs callers ask for; nothing in the store rejects any
  MaxTime   \* bound: the clock stops here

ASSUME TTLsAssumption == TTLs \subseteq Int

ASSUME TimeAssumption == MaxTime \in Nat

\* No value the code can compute is mistaken for nil.
ASSUME NilAssumption ==
  /\ Nil \notin Calls /\ Nil \notin Results /\ Nil \notin Entry
  /\ Nil \notin [key: Keys, at: Int]

VARIABLES
  asked,    \* what a call in Reserve waits for the lock with: key and clock
  granted,  \* the pairs <<call, key>> for which a token was handed out
  op,       \* history: the last operation that ended, and its answer
  closed,   \* Close was called: the channel `done`
  cleaner   \* the cleanup goroutine

vars == <<entries, now, asked, granted, op, closed, cleaner>>

Init ==
  /\ InitStore
  /\ now = 0
  /\ asked = [c \in Calls |-> Nil]
  /\ granted = {}
  /\ op = Nil
  /\ closed = FALSE
  /\ cleaner = "running"

Ends(name, c, k, answer) ==
  op' = [name |-> name, call |-> c, key |-> k, answer |-> answer]

-----------------------------------------------------------------------------
\* A call draws one token, so it reserves once.  The clock is read here, the
\* lock is taken in one of the three actions that follow.
Ask(c, k) ==
  /\ asked[c] = Nil
  /\ \A j \in Keys : <<c, j>> \notin granted
  /\ asked' = [asked EXCEPT ![c] = [key |-> k, at |-> now]]
  /\ UNCHANGED <<entries, now, granted, op, closed, cleaner>>

Grant(c, k, ttl) ==
  /\ asked[c] # Nil /\ asked[c].key = k
  /\ ReserveGrant(k, c, asked[c].at, ttl)
  /\ asked' = [asked EXCEPT ![c] = Nil]
  /\ granted' = granted \cup {<<c, k>>}
  /\ Ends("reserve", c, k, "granted")
  /\ UNCHANGED <<now, closed, cleaner>>

Replay(c, k) ==
  /\ asked[c] # Nil /\ asked[c].key = k
  /\ \E r \in Results : /\ ReserveReplay(k, asked[c].at, r)
                        /\ Ends("reserve", c, k, r)
  /\ asked' = [asked EXCEPT ![c] = Nil]
  /\ UNCHANGED <<now, granted, closed, cleaner>>

Refuse(c, k) ==
  /\ asked[c] # Nil /\ asked[c].key = k
  /\ ReserveInFlight(k, asked[c].at)
  /\ Ends("reserve", c, k, "in_flight")
  /\ asked' = [asked EXCEPT ![c] = Nil]
  /\ UNCHANGED <<now, granted, closed, cleaner>>

-----------------------------------------------------------------------------
HasToken(c, k) == <<c, k>> \in granted

Settle(c, k, ttl) ==
  /\ HasToken(c, k)
  /\ \E r \in Results : FinalizeRecord(k, newClaimToken(c), r, ttl)
  /\ Ends("finalize", c, k, "ok")
  /\ UNCHANGED <<now, asked, granted, closed, cleaner>>

SettleNothing(c, k) ==
  /\ HasToken(c, k)
  /\ FinalizeRelease(k, newClaimToken(c))
  /\ Ends("finalize", c, k, "ok")
  /\ UNCHANGED <<now, asked, granted, closed, cleaner>>

SettleTooLate(c, k) ==
  /\ HasToken(c, k)
  /\ FinalizeSuperseded(k, newClaimToken(c))
  /\ Ends("finalize", c, k, "superseded")
  /\ UNCHANGED <<now, asked, granted, closed, cleaner>>

\* Finalize with the empty token, by a caller that was not granted anything.
SettleUnclaimed(c, k) ==
  /\ FinalizeSuperseded(k, Nil)
  /\ Ends("finalize_tokenless", c, k, "superseded")
  /\ UNCHANGED <<now, asked, granted, closed, cleaner>>

GiveUp(c, k) ==
  /\ HasToken(c, k)
  /\ Abandon(k, newClaimToken(c))
  /\ Ends("abandon", c, k, "ok")
  /\ UNCHANGED <<now, asked, granted, closed, cleaner>>

-----------------------------------------------------------------------------
Find(c, k) ==
  /\ GetFinds(k)
  /\ Ends("get", c, k, entries[k].result)
  /\ UNCHANGED <<entries, now, asked, granted, closed, cleaner>>

Miss(c, k) ==
  /\ ~GetFinds(k)
  /\ Ends("get", c, k, "missing")
  /\ UNCHANGED <<entries, now, asked, granted, closed, cleaner>>

Overwrite(c, k, ttl) ==
  /\ \E r \in Results : SetRecord(k, r, ttl)
  /\ Ends("set", c, k, "ok")
  /\ UNCHANGED <<now, asked, granted, closed, cleaner>>

Clear(c, k) ==
  /\ SetNil(k)
  /\ Ends("set_nil", c, k, "ok")
  /\ UNCHANGED <<now, asked, granted, closed, cleaner>>

Remove(c, k) ==
  /\ Delete(k)
  /\ Ends("delete", c, k, "ok")
  /\ UNCHANGED <<now, asked, granted, closed, cleaner>>

-----------------------------------------------------------------------------
Tick ==
  /\ now < MaxTime
  /\ now' = now + 1
  /\ UNCHANGED <<entries, asked, granted, op, closed, cleaner>>

\* A tick that is ready together with `done` may still win the select.
Sweep ==
  /\ cleaner = "running"
  /\ removeExpired
  /\ UNCHANGED <<now, asked, granted, op, closed, cleaner>>

Close ==
  /\ closed' = TRUE
  /\ UNCHANGED <<entries, now, asked, granted, op, cleaner>>

CleanerStops ==
  /\ cleaner = "running" /\ closed
  /\ cleaner' = "stopped"
  /\ UNCHANGED <<entries, now, asked, granted, op, closed>>

Step(c, k) ==
  \/ Ask(c, k) \/ Replay(c, k) \/ Refuse(c, k)
  \/ SettleNothing(c, k) \/ SettleTooLate(c, k) \/ SettleUnclaimed(c, k)
  \/ GiveUp(c, k)
  \/ Find(c, k) \/ Miss(c, k) \/ Clear(c, k) \/ Remove(c, k)
  \/ \E ttl \in TTLs : Grant(c, k, ttl) \/ Settle(c, k, ttl) \/ Overwrite(c, k, ttl)

Next ==
  \/ \E c \in Calls, k \in Keys : Step(c, k)
  \/ Tick \/ Sweep \/ Close \/ CleanerStops

Spec == Init /\ [][Next]_vars

-----------------------------------------------------------------------------
(* Properties.                                                             *)

\* The table holds claims and outcomes only: no nil result is ever recorded,
\* and no outcome carries a token.
TypeOK ==
  /\ Stored
  /\ now \in 0..MaxTime
  /\ asked \in [Calls -> [key: Keys, at: 0..MaxTime] \cup {Nil}]
  /\ granted \subseteq Calls \X Keys
  /\ closed \in BOOLEAN
  /\ cleaner \in {"running", "stopped"}

\* Every claim in the table can be released: its token is in the hands of the
\* call that was granted this very key.  A claim without one would block the
\* key until its TTL, which is the bug the comments in Set describe.
ClaimsAreOwned ==
  \A k \in Keys :
    (entries[k] # Nil /\ entries[k].result = Nil) => <<entries[k].token, k>> \in granted

\* The clock never shows a waiting Reserve a time that is still to come.
AskedInThePast == \A c \in Calls : asked[c] # Nil => asked[c].at <= now

\* What a client of the interface can tell of an entry.
View(k) ==
  IF entries[k] = Nil THEN [kind |-> "free"]
  ELSE IF entries[k].result = Nil
  THEN [kind |-> "held", by |-> entries[k].token, live |-> now < entries[k].expiresAt]
  ELSE [kind |-> "settled", result |-> entries[k].result, live |-> now < entries[k].expiresAt]

Register == INSTANCE ClaimRegister WITH slot <- [k \in Keys |-> View(k)]

\* Reserve, Finalize, Abandon, Get, Set, Delete and the sweeper answer and act
\* as the abstract claim register does, stale clock readings included.
ImplementsRegister == Register!Spec
=============================================================================
