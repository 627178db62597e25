------------------------- MODULE StoreClientsProofs -------------------------
(***************************************************************************)
(* MemoryIdempotencyStore implements ClaimRegister, for any keys, calls,   *)
(* results and TTLs: every operation of the store, under every legal       *)
(* sequence of calls, is a step of the register or leaves it alone.        *)
(***************************************************************************)
EXTENDS StoreClients, TLAPS

IInv == TypeOK /\ AskedInThePast

LEMMA EntryFields ==
  ASSUME TypeOK, NEW k \in Keys, entries[k] # Nil
  PROVE  /\ entries[k].expiresAt \in Int
         /\ entries[k].result # Nil => entries[k].token = Nil /\ entries[k].result \in Results
         /\ entries[k].result = Nil => entries[k].token \in Calls
<1>1. entries[k] \in Entry
  BY DEF TypeOK, Stored
<1> QED
  BY <1>1, NilAssumption DEF Entry, Tokens, newClaimToken

LEMMA NewEntries ==
  ASSUME NEW e \in Int
  PROVE  /\ \A c \in Calls : Claim(c, e) \in Entry /\ Claim(c, e) # Nil
         /\ \A r \in Results : Outcome(r, e) \in Entry /\ Outcome(r, e) # Nil
BY NilAssumption DEF Claim, Outcome, Entry, Tokens, newClaimToken

LEMMA InvInit == Init => IInv
<1> SUFFICES ASSUME Init PROVE IInv
  OBVIOUS
<1>1. Stored
  BY DEF Init, InitStore, Stored
<1>2. AskedInThePast
  BY DEF Init, AskedInThePast
<1>3. now \in 0..MaxTime
  BY TimeAssumption DEF Init
<1>4. asked \in [Calls -> [key: Keys, at: 0..MaxTime] \cup {Nil}]
  BY DEF Init
<1> QED
  BY <1>1, <1>2, <1>3, <1>4 DEF Init, IInv, TypeOK

LEMMA InvNext == IInv /\ [Next]_vars => IInv'
<1> SUFFICES ASSUME IInv, [Next]_vars PROVE IInv'
  OBVIOUS
<1> USE DEF IInv, TypeOK, AskedInThePast
<1>0. /\ now \in Int /\ MaxTime \in Nat
      /\ \A ttl \in TTLs : ttl \in Int /\ now + ttl \in Int
  BY TimeAssumption, TTLsAssumption
<1>1. ASSUME NEW c \in Calls, NEW k \in Keys, Step(c, k) PROVE IInv'
  <2>1. CASE Ask(c, k)
    BY <1>0, <2>1 DEF Ask, Stored
  <2>2. ASSUME NEW ttl \in TTLs, Grant(c, k, ttl) PROVE IInv'
    <3>1. asked[c] \in [key: Keys, at: 0..MaxTime]
      BY <2>2 DEF Grant
    <3>2. asked[c].at + ttl \in Int
      BY <1>0, <3>1
    <3>3. Claim(newClaimToken(c), asked[c].at + ttl) \in Entry
      BY <3>2, NewEntries DEF newClaimToken
    <3>4. Stored'
      BY <2>2, <3>3 DEF Grant, ReserveGrant, Put, Stored
    <3> QED BY <1>0, <2>2, <3>4 DEF Grant
  <2>3. CASE Replay(c, k) \/ Refuse(c, k)
    BY <1>0, <2>3 DEF Replay, Refuse, ReserveReplay, ReserveInFlight, Stored
  <2>4. ASSUME NEW ttl \in TTLs, Settle(c, k, ttl) \/ Overwrite(c, k, ttl) PROVE IInv'
    <3>1. PICK r \in Results : entries' = [entries EXCEPT ![k] = Outcome(r, now + ttl)]
      BY <2>4 DEF Settle, Overwrite, FinalizeRecord, SetRecord, Put
    <3>2. Stored'
      BY <1>0, <3>1, NewEntries DEF Stored
    <3> QED BY <2>4, <3>2 DEF Settle, Overwrite
  <2>5. CASE SettleNothing(c, k) \/ GiveUp(c, k) \/ Clear(c, k) \/ Remove(c, k)
    <3>1. Stored'
      BY <2>5 DEF SettleNothing, GiveUp, Clear, Remove, FinalizeRelease, Abandon, SetNil,
                  Delete, Put, Stored
    <3> QED BY <2>5, <3>1 DEF SettleNothing, GiveUp, Clear, Remove
  <2>6. CASE SettleTooLate(c, k) \/ SettleUnclaimed(c, k) \/ Find(c, k) \/ Miss(c, k)
    BY <2>6 DEF SettleTooLate, SettleUnclaimed, Find, Miss, FinalizeSuperseded, Stored
  <2> QED BY <1>1, <2>1, <2>2, <2>3, <2>4, <2>5, <2>6 DEF Step
<1>2. CASE Tick
  <2>1. \A c \in Calls : asked[c] # Nil => asked[c].at \in Int /\ asked[c].at <= now
    BY <1>0
  <2> QED BY <1>0, <1>2, <2>1 DEF Tick, Stored
<1>3. CASE Sweep
  BY <1>3 DEF Sweep, removeExpired, Stored
<1>4. CASE Close \/ CleanerStops \/ UNCHANGED vars
  BY <1>4 DEF Close, CleanerStops, vars, Stored
<1> QED
  BY <1>1, <1>2, <1>3, <1>4 DEF Next

\* The table never records a nil outcome, under any legal sequence of calls.
THEOREM TypeCorrect == Spec => []TypeOK
<1>1. IInv => TypeOK
  BY DEF IInv
<1> QED
  BY InvInit, InvNext, <1>1, PTL DEF Spec

-----------------------------------------------------------------------------
(* Claims can be released.                                                 *)

LEMMA OwnedNext == IInv /\ ClaimsAreOwned /\ [Next]_vars => ClaimsAreOwned'
<1> SUFFICES ASSUME IInv, ClaimsAreOwned, [Next]_vars,
                    NEW j \in Keys, entries'[j] # Nil, entries'[j].result = Nil
             PROVE  <<entries'[j].token, j>> \in granted'
  BY DEF ClaimsAreOwned
<1>1. CASE entries'[j] = entries[j] /\ granted \subseteq granted'
  BY <1>1 DEF ClaimsAreOwned
<1>2. ASSUME NEW c \in Calls, NEW k \in Keys, Step(c, k)
      PROVE  <<entries'[j].token, j>> \in granted'
  <2>0. DOMAIN entries = Keys /\ Nil \notin Results
    BY NilAssumption DEF IInv, TypeOK, Stored
  <2>1. ASSUME NEW ttl \in TTLs, Grant(c, k, ttl) PROVE <<entries'[j].token, j>> \in granted'
    <3>1. entries'[k].token = c /\ <<c, k>> \in granted' /\ granted \subseteq granted'
      BY <2>0, <2>1 DEF Grant, ReserveGrant, Put, Claim, newClaimToken
    <3>2. j # k => entries'[j] = entries[j]
      BY <2>0, <2>1 DEF Grant, ReserveGrant, Put
    <3> QED BY <1>1, <3>1, <3>2
  <2>2. ASSUME NEW ttl \in TTLs, Settle(c, k, ttl) \/ Overwrite(c, k, ttl)
        PROVE  entries'[j] = entries[j] /\ granted' = granted
    BY <2>0, <2>2 DEF Settle, Overwrite, FinalizeRecord, SetRecord, Put, Outcome
  <2>3. CASE SettleNothing(c, k) \/ GiveUp(c, k) \/ Clear(c, k) \/ Remove(c, k)
    <3>1. entries'[j] = entries[j] /\ granted' = granted
      BY <2>0, <2>3 DEF SettleNothing, GiveUp, Clear, Remove, FinalizeRelease, Abandon, SetNil,
                        Delete, Put
    <3> QED BY <1>1, <3>1
  <2>4. CASE \/ Ask(c, k) \/ Replay(c, k) \/ Refuse(c, k) \/ SettleTooLate(c, k)
             \/ SettleUnclaimed(c, k) \/ Find(c, k) \/ Miss(c, k)
    BY <1>1, <2>4 DEF Ask, Replay, Refuse, SettleTooLate, SettleUnclaimed, Find, Miss,
                      ReserveReplay, ReserveInFlight, FinalizeSuperseded
  <2> QED BY <1>1, <1>2, <2>1, <2>2, <2>3, <2>4 DEF Step
<1>3. CASE Tick \/ Sweep \/ Close \/ CleanerStops \/ UNCHANGED vars
  <2>1. entries'[j] = entries[j] /\ granted' = granted
    BY <1>3 DEF Tick, Sweep, removeExpired, Close, CleanerStops, vars
  <2> QED BY <1>1, <2>1
<1> QED BY <1>2, <1>3 DEF Next

\* No claim is ever orphaned: the token of every claim in the table was handed
\* to a call that reserved this very key.
THEOREM ClaimsAreOwnedAlways == Spec => []ClaimsAreOwned
<1>1. Init => ClaimsAreOwned
  BY DEF Init, InitStore, ClaimsAreOwned
<1> QED
  BY InvInit, InvNext, OwnedNext, <1>1, PTL DEF Spec

-----------------------------------------------------------------------------
(* Refinement.  The register's slots are the views of the entries.         *)

LEMMA ViewKept ==
  ASSUME NEW k \in Keys, entries'[k] = entries[k], now' = now
  PROVE  View(k)' = View(k)
BY DEF View

LEMMA SlotsKept ==
  ASSUME entries' = entries, now' = now
  PROVE  [k \in Keys |-> View(k)]' = [k \in Keys |-> View(k)]
BY DEF View

LEMMA SlotPlaced ==
  ASSUME TypeOK, NEW k \in Keys, NEW e, NEW s,
         Put(k, e), now' = now, View(k)' = s
  PROVE  Register!Place(k, s)
<1>1. \A j \in Keys : j # k => View(j)' = View(j)
  <2> TAKE j \in Keys
  <2> HAVE j # k
  <2>1. entries'[j] = entries[j]
    BY DEF TypeOK, Stored, Put
  <2> QED BY <2>1, ViewKept
<1> QED
  BY <1>1 DEF Register!Place

\* What the view of an entry says about the entry.
LEMMA ViewOfEntry ==
  ASSUME NEW k \in Keys
  PROVE  /\ entries[k] = Nil => View(k) = Register!Free
         /\ entries[k] # Nil /\ entries[k].result = Nil =>
              View(k) = Register!Held(entries[k].token, now < entries[k].expiresAt)
         /\ entries[k] # Nil /\ entries[k].result # Nil =>
              View(k) = Register!Settled(entries[k].result, now < entries[k].expiresAt)
BY DEF View, Register!Free, Register!Held, Register!Settled

LEMMA SlotIsView ==
  ASSUME NEW k \in Keys
  PROVE  [j \in Keys |-> View(j)][k] = View(k)
OBVIOUS

LEMMA Predicates ==
  ASSUME TypeOK, NEW k \in Keys
  PROVE  /\ Register!IsHeld(k) <=> entries[k] # Nil /\ entries[k].result = Nil
         /\ Register!IsSettled(k) <=> entries[k] # Nil /\ entries[k].result # Nil
         /\ Register!IsLive(k) <=> entries[k] # Nil /\ now < entries[k].expiresAt
         /\ \A c \in Calls : Register!IsHeldBy(k, c) <=>
              entries[k] # Nil /\ entries[k].result = Nil /\ entries[k].token = c
         /\ (View(k) = Register!Free) <=> entries[k] = Nil
         /\ Register!IsSettled(k) => View(k).result = entries[k].result
<1>1. CASE entries[k] = Nil
  BY <1>1 DEF View, Register!IsHeld, Register!IsSettled, Register!IsLive, Register!IsHeldBy,
              Register!Free
<1>2. CASE entries[k] # Nil /\ entries[k].result = Nil
  BY <1>2 DEF View, Register!IsHeld, Register!IsSettled, Register!IsLive, Register!IsHeldBy,
              Register!Free
<1>3. CASE entries[k] # Nil /\ entries[k].result # Nil
  BY <1>3 DEF View, Register!IsHeld, Register!IsSettled, Register!IsLive, Register!IsHeldBy,
              Register!Free
<1> QED BY <1>1, <1>2, <1>3

LEMMA StepRefines ==
  ASSUME IInv, NEW c \in Calls, NEW k \in Keys, Step(c, k)
  PROVE  Register!Step(c, k) \/ UNCHANGED <<[j \in Keys |-> View(j)], granted, op>>
<1> USE DEF IInv, Register!Did, Ends, newClaimToken
<1>0. /\ now \in Int /\ Nil \notin Calls /\ Nil \notin Results
      /\ \A ttl \in TTLs : ttl \in Int /\ now + ttl \in Int
      /\ DOMAIN entries = Keys
  BY TimeAssumption, TTLsAssumption, NilAssumption DEF TypeOK, Stored
<1> DEFINE S == [j \in Keys |-> View(j)]
<1>v. S[k] = View(k)
  OBVIOUS
<1>1. CASE Ask(c, k)
  BY <1>1, SlotsKept DEF Ask
<1>2. ASSUME NEW ttl \in TTLs, Grant(c, k, ttl) PROVE Register!Step(c, k)
  <2>1. asked[c] \in [key: Keys, at: 0..MaxTime] /\ asked[c].at <= now
    BY <1>2 DEF Grant, TypeOK, AskedInThePast
  <2>2. asked[c].at \in Int /\ asked[c].at + ttl \in Int
    BY <1>0, <2>1
  <2>3. ~Register!IsLive(k)
    BY <1>0, <1>2, <2>1, <2>2, Predicates, EntryFields DEF Grant, ReserveGrant, Unexpired
  <2>4. Put(k, Claim(c, asked[c].at + ttl)) /\ now' = now
    BY <1>2 DEF Grant, ReserveGrant
  <2>5. entries'[k] = Claim(c, asked[c].at + ttl) /\ entries'[k] # Nil
    BY <1>0, <2>2, <2>4, NewEntries DEF Put
  <2>6. View(k)' = Register!Held(c, now < asked[c].at + ttl)
    BY <2>4, <2>5 DEF View, Claim, Register!Held
  <2>7. Register!Place(k, Register!Held(c, now < asked[c].at + ttl))
    BY <2>4, <2>6, SlotPlaced
  <2>8. \E l \in BOOLEAN : Register!Place(k, Register!Held(c, l))
    <3> WITNESS (now < asked[c].at + ttl) \in BOOLEAN
    <3> QED BY <2>7
  <2>9. Register!Grant(c, k)
    BY <1>2, <2>3, <2>8 DEF Grant, Register!Grant
  <2> QED BY <2>9 DEF Register!Step
<1>3. CASE Replay(c, k)
  <2>1. Register!IsSettled(k) /\ S[k].result = entries[k].result
    BY <1>3, <1>v, Predicates DEF Replay, ReserveReplay, Unexpired
  <2>2. Register!Replay(c, k)
    BY <1>3, <2>1, SlotsKept DEF Replay, ReserveReplay, Register!Replay
  <2> QED BY <2>2 DEF Register!Step
<1>4. CASE Refuse(c, k)
  <2>1. Register!Refuse(c, k)
    BY <1>4, Predicates, SlotsKept DEF Refuse, ReserveInFlight, Unexpired, Register!Refuse
  <2> QED BY <2>1 DEF Register!Step
<1>5. ASSUME ~Superseded(k, c) PROVE S[k] = Register!Free \/ Register!IsHeldBy(k, c)
  BY <1>0, <1>5, <1>v, Predicates, EntryFields DEF Superseded
<1>6. ASSUME NEW ttl \in TTLs, NEW r \in Results, Put(k, Outcome(r, now + ttl)), now' = now
      PROVE  \E l \in BOOLEAN : Register!Place(k, Register!Settled(r, l))
  <2>1. entries'[k] = Outcome(r, now + ttl) /\ entries'[k] # Nil
    BY <1>0, <1>6, NewEntries DEF Put
  <2>2. View(k)' = Register!Settled(r, now < now + ttl)
    BY <1>0, <1>6, <2>1 DEF View, Outcome, Register!Settled
  <2>3. Register!Place(k, Register!Settled(r, now < now + ttl))
    BY <1>6, <2>2, SlotPlaced
  <2> WITNESS (now < now + ttl) \in BOOLEAN
  <2> QED BY <2>3
<1>7. ASSUME Put(k, Nil), now' = now PROVE Register!Place(k, Register!Free)
  <2>1. View(k)' = Register!Free
    BY <1>0, <1>7 DEF Put, View, Register!Free
  <2> QED BY <1>7, <2>1, SlotPlaced
<1>8. ASSUME NEW ttl \in TTLs, Settle(c, k, ttl) PROVE Register!Step(c, k)
  <2>1. PICK r \in Results : FinalizeRecord(k, c, r, ttl)
    BY <1>8 DEF Settle
  <2>2. Register!Settle(c, k)
    BY <1>5, <1>6, <1>8, <2>1 DEF Settle, HasToken, FinalizeRecord, Register!Settle
  <2> QED BY <2>2 DEF Register!Step
<1>9. CASE SettleNothing(c, k)
  <2>1. Register!SettleNothing(c, k)
    BY <1>5, <1>7, <1>9 DEF SettleNothing, HasToken, FinalizeRelease, Register!SettleNothing
  <2> QED BY <2>1 DEF Register!Step
<1>10. CASE SettleTooLate(c, k)
  <2>1. S[k] # Register!Free /\ ~Register!IsHeldBy(k, c)
    BY <1>0, <1>10, <1>v, Predicates DEF SettleTooLate, FinalizeSuperseded, Superseded
  <2>2. Register!SettleTooLate(c, k)
    BY <1>10, <2>1, SlotsKept DEF SettleTooLate, FinalizeSuperseded, Register!SettleTooLate
  <2> QED BY <2>2 DEF Register!Step
<1>11. CASE SettleUnclaimed(c, k)
  <2>1. Register!SettleUnclaimed(c, k)
    BY <1>11, SlotsKept DEF SettleUnclaimed, FinalizeSuperseded, Register!SettleUnclaimed
  <2> QED BY <2>1 DEF Register!Step
<1>12. CASE GiveUp(c, k)
  <2>1. Abandons(k, c) <=> Register!IsHeldBy(k, c)
    BY <1>0, Predicates DEF Abandons
  <2>2. CASE Abandons(k, c)
    <3>1. Put(k, Nil)
      BY <1>12, <2>2 DEF GiveUp, Abandon, Put
    <3>2. Register!Abandon(c, k)
      BY <1>7, <1>12, <2>1, <2>2, <3>1 DEF GiveUp, HasToken, Register!Abandon
    <3> QED BY <3>2 DEF Register!Step
  <2>3. CASE ~Abandons(k, c)
    <3>1. entries' = entries
      BY <1>0, <1>12, <2>3 DEF GiveUp, Abandon, TypeOK, Stored
    <3>2. Register!Abandon(c, k)
      BY <1>12, <2>1, <2>3, <3>1, SlotsKept DEF GiveUp, HasToken, Register!Abandon
    <3> QED BY <3>2 DEF Register!Step
  <2> QED BY <2>2, <2>3
<1>13. CASE Find(c, k)
  <2>1. Register!IsSettled(k) /\ S[k].result = entries[k].result
    BY <1>13, <1>v, Predicates DEF Find, GetFinds
  <2>2. Register!Find(c, k)
    BY <1>13, <2>1, SlotsKept DEF Find, Register!Find
  <2> QED BY <2>2 DEF Register!Step
<1>14. CASE Miss(c, k)
  <2>1. ~(Register!IsSettled(k) /\ Register!IsLive(k))
    BY <1>0, <1>14, Predicates, EntryFields DEF Miss, GetFinds
  <2>2. Register!Miss(c, k)
    BY <1>14, <2>1, SlotsKept DEF Miss, Register!Miss
  <2> QED BY <2>2 DEF Register!Step
<1>15. ASSUME NEW ttl \in TTLs, Overwrite(c, k, ttl) PROVE Register!Step(c, k)
  <2>1. PICK r \in Results : SetRecord(k, r, ttl)
    BY <1>15 DEF Overwrite
  <2>2. Register!Overwrite(c, k)
    BY <1>6, <1>15, <2>1 DEF Overwrite, SetRecord, Register!Overwrite
  <2> QED BY <2>2 DEF Register!Step
<1>16. CASE Clear(c, k)
  <2>1. CASE entries[k] # Nil /\ entries[k].result # Nil
    <3>1. Put(k, Nil)
      BY <1>16, <2>1 DEF Clear, SetNil, Put
    <3>2. Register!Clear(c, k)
      BY <1>7, <1>16, <2>1, <3>1, Predicates DEF Clear, Register!Clear
    <3> QED BY <3>2 DEF Register!Step
  <2>2. CASE ~(entries[k] # Nil /\ entries[k].result # Nil)
    <3>1. entries' = entries
      BY <1>0, <1>16, <2>2 DEF Clear, SetNil, TypeOK, Stored
    <3>2. Register!Clear(c, k)
      BY <1>16, <2>2, <3>1, Predicates, SlotsKept DEF Clear, Register!Clear
    <3> QED BY <3>2 DEF Register!Step
  <2> QED BY <2>1, <2>2
<1>17. CASE Remove(c, k)
  <2>1. Register!Delete(c, k)
    BY <1>7, <1>17 DEF Remove, Delete, Register!Delete
  <2> QED BY <2>1 DEF Register!Step
<1> QED
  BY <1>1, <1>2, <1>3, <1>4, <1>8, <1>9, <1>10, <1>11, <1>12, <1>13, <1>14, <1>15, <1>16, <1>17
  DEF Step

LEMMA ViewIsSlot == TypeOK => \A k \in Keys : View(k) \in Register!Slot
<1> SUFFICES ASSUME TypeOK, NEW k \in Keys PROVE View(k) \in Register!Slot
  OBVIOUS
<1>1. CASE entries[k] = Nil
  BY <1>1 DEF View, Register!Slot
<1>2. CASE entries[k] # Nil /\ entries[k].result = Nil
  <2>1. entries[k].token \in Calls
    BY <1>2, EntryFields
  <2>2. (now < entries[k].expiresAt) \in BOOLEAN
    OBVIOUS
  <2> DEFINE l == now < entries[k].expiresAt
  <2>3. View(k) = [kind |-> "held", by |-> entries[k].token, live |-> l]
    BY <1>2 DEF View
  <2> HIDE DEF l
  <2> QED BY <2>1, <2>2, <2>3 DEF Register!Slot, l
<1>3. CASE entries[k] # Nil /\ entries[k].result # Nil
  <2>1. entries[k].result \in Results
    BY <1>3, EntryFields
  <2> DEFINE l == now < entries[k].expiresAt
  <2>3. View(k) = [kind |-> "settled", result |-> entries[k].result, live |-> l]
    BY <1>3 DEF View
  <2>4. l \in BOOLEAN
    OBVIOUS
  <2> HIDE DEF l
  <2> QED BY <2>1, <2>3, <2>4 DEF Register!Slot
<1> QED BY <1>1, <1>2, <1>3

\* The clock and the sweeper only let slots lapse.
LEMMA TimeRefines ==
  ASSUME IInv, IInv', Tick \/ Sweep
  PROVE  Register!Lapse
<1> DEFINE S == [j \in Keys |-> View(j)]
<1>1. S' \in [Keys -> Register!Slot]
  <2>1. TypeOK' => (\A k \in Keys : View(k) \in Register!Slot)'
    BY ViewIsSlot, PTL
  <2> QED BY <2>1 DEF IInv
<1>2. ASSUME NEW k \in Keys
      PROVE  \/ S'[k] = S[k]
             \/ Register!IsLive(k) /\ S'[k] = Register!Lapsed(S[k])
             \/ ~Register!IsLive(k) /\ S'[k] = Register!Free
  <2>0. S[k] = View(k) /\ S'[k] = View(k)'
    OBVIOUS
  <2>1. now \in Int /\ now' \in Int
    BY TimeAssumption DEF IInv, TypeOK
  <2>2. CASE Sweep
    <3>1. CASE entries'[k] = entries[k]
      BY <2>0, <2>2, <3>1, ViewKept DEF Sweep
    <3>2. CASE entries'[k] # entries[k]
      <4>1. entries'[k] = Nil /\ entries[k] # Nil /\ now > entries[k].expiresAt
        BY <2>2, <3>2 DEF Sweep, removeExpired
      <4>2. ~Register!IsLive(k)
        BY <2>1, <4>1, Predicates, EntryFields DEF IInv
      <4>3. View(k)' = Register!Free
        BY <4>1 DEF View, Register!Free
      <4> QED BY <2>0, <4>2, <4>3
    <3> QED BY <3>1, <3>2
  <2>3. CASE Tick
    <3>1. entries' = entries /\ now < now'
      BY <2>1, <2>3 DEF Tick
    <3>2. CASE entries[k] = Nil
      BY <2>0, <3>1, <3>2 DEF View
    <3>3. CASE entries[k] # Nil /\ (now < entries[k].expiresAt) = (now' < entries[k].expiresAt)
      BY <2>0, <3>1, <3>3 DEF View
    <3>4. CASE entries[k] # Nil /\ now < entries[k].expiresAt /\ ~(now' < entries[k].expiresAt)
      <4>1. Register!IsLive(k)
        BY <3>4, Predicates DEF IInv
      <4>2. View(k)' = Register!Lapsed(View(k))
        <5>1. (now' < entries[k].expiresAt) = FALSE
          BY <3>4
        <5>2. CASE entries[k].result = Nil
          <6>1. View(k).kind = "held" /\ View(k).by = entries[k].token
            BY <3>4, <5>2 DEF View
          <6>2. View(k)' = [kind |-> "held", by |-> entries[k].token, live |-> FALSE]
            BY <3>1, <3>4, <5>1, <5>2 DEF View
          <6> QED BY <6>1, <6>2 DEF Register!Lapsed, Register!Held
        <5>3. CASE entries[k].result # Nil
          <6>1. View(k).kind = "settled" /\ View(k).result = entries[k].result
            BY <3>4, <5>3 DEF View
          <6>2. View(k)' = [kind |-> "settled", result |-> entries[k].result, live |-> FALSE]
            BY <3>1, <3>4, <5>1, <5>3 DEF View
          <6> QED BY <6>1, <6>2 DEF Register!Lapsed, Register!Settled
        <5> QED BY <5>2, <5>3
      <4> QED BY <2>0, <4>1, <4>2
    <3>5. entries[k] # Nil => entries[k].expiresAt \in Int
      BY EntryFields DEF IInv
    <3> QED BY <2>1, <3>1, <3>2, <3>3, <3>4, <3>5
  <2> QED BY <2>2, <2>3
<1>3. UNCHANGED <<granted, op>>
  BY DEF Tick, Sweep
<1> QED
  BY <1>1, <1>2, <1>3 DEF Register!Lapse

\* MemoryIdempotencyStore keeps the promise of the claim register: each of its
\* operations answers and acts as the register's does.
THEOREM Refinement == Spec => ImplementsRegister
<1>1. Init => Register!Init
  BY DEF Init, InitStore, Register!Init, Register!Free, View
<1>2. IInv /\ IInv' /\ [Next]_vars =>
        [Register!Next]_<<[k \in Keys |-> View(k)], granted, op>>
  <2> SUFFICES ASSUME IInv, IInv', [Next]_vars
               PROVE  Register!Next \/ UNCHANGED <<[k \in Keys |-> View(k)], granted, op>>
    OBVIOUS
  <2>1. ASSUME NEW c \in Calls, NEW k \in Keys, Step(c, k)
        PROVE  Register!Next \/ UNCHANGED <<[j \in Keys |-> View(j)], granted, op>>
    BY <2>1, StepRefines DEF Register!Next
  <2>2. CASE Tick \/ Sweep
    BY <2>2, TimeRefines DEF Register!Next
  <2>3. CASE Close \/ CleanerStops \/ UNCHANGED vars
    BY <2>3, SlotsKept DEF Close, CleanerStops, vars
  <2> QED BY <2>1, <2>2, <2>3 DEF Next
<1> QED
  BY InvInit, InvNext, <1>1, <1>2, PTL DEF Spec, ImplementsRegister, Register!Spec
=============================================================================
