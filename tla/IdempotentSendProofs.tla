------------------------ MODULE IdempotentSendProofs ------------------------
(***************************************************************************)
(* Proofs about IdempotentSend, for any number of calls, keys, channels    *)
(* and results, any TTL, and both paths through Send; and about            *)
(* RetryIdempotent, where the calls are the attempts of retry loops, and   *)
(* StoreUse, where they are clients of the store.                          *)
(***************************************************************************)
EXTENDS RetryIdempotent, StoreUse, SequenceTheorems, TLAPS

LEMMA TTLIsInteger == TTL \in Int
BY ConstantsAssumption DEF TTL

\* A keyed message always has an entry of its own in the table.
LEMMA KeyOfCall ==
  ASSUME TypeOK, NEW c \in Calls, Keyed(c)
  PROVE  K(c) \in CacheKeys
BY DEF TypeOK, Keyed, K, CacheKeys, Message

\* The calls of one step.
CallStep(c) ==
  \/ SendDirect(c) \/ BeginReserve(c) \/ LookupMisses(c) \/ LookupHits(c)
  \/ Looks(c)
  \/ ProviderReturns(c) \/ EntersProvider(c) \/ ProviderPanics(c)
  \/ Finishes(c)
  \/ Cancel(c) \/ AsksAgain(c)

\* What the operations of the store make of the table, whoever calls them.
LEMMA GrantStores ==
  ASSUME Store!Stored, NEW k, NEW c \in Calls, NEW a \in Int, NEW ttl \in Int,
         Store!ReserveGrant(k, c, a, ttl)
  PROVE  Store!Stored'
<1>1. Store!Claim(c, a + ttl) \in Store!Entry
  BY DEF Store!Claim, Store!Entry, Store!Tokens, Store!newClaimToken
<1> QED
  BY <1>1 DEF Store!Stored, Store!ReserveGrant, Store!Put, Store!newClaimToken

LEMMA RecordStores ==
  ASSUME Store!Stored, NEW k, NEW c, NEW r \in Results, NEW ttl \in Int, now \in Int,
         Store!FinalizeRecord(k, c, r, ttl) \/ Store!SetRecord(k, r, ttl)
  PROVE  Store!Stored'
<1>1. Store!Outcome(r, now + ttl) \in Store!Entry
  BY DEF Store!Outcome, Store!Entry
<1> QED
  BY <1>1 DEF Store!Stored, Store!FinalizeRecord, Store!SetRecord, Store!Put

LEMMA ReleaseStores ==
  ASSUME Store!Stored, NEW k, NEW c,
         \/ Store!FinalizeRelease(k, c) \/ Store!Abandon(k, c)
         \/ Store!SetNil(k) \/ Store!removeExpired
  PROVE  Store!Stored'
BY DEF Store!Stored, Store!FinalizeRelease, Store!Abandon, Store!SetNil,
       Store!removeExpired, Store!Put

LEMMA NextCases ==
  ASSUME Next
  PROVE  (\E c \in Calls : CallStep(c)) \/ Tick \/ Sweep
BY DEF Next, CallStep

-----------------------------------------------------------------------------
(* Type correctness.  The entry of the table is the only part that several *)
(* actions change; StoreTypes settles it for all of them.                  *)

TypeInv == TypeOK /\ OnItsPath

LEMMA TypeInit == Init => TypeInv
<1> SUFFICES ASSUME Init PROVE TypeInv
  OBVIOUS
<1>1. Store!Stored
  BY DEF Init, Store!InitStore, Store!Stored
<1>2. TypeOK
  BY <1>1, ConstantsAssumption DEF Init, TypeOK, Pair, Outcomes
<1>3. OnItsPath
  BY DEF Init, OnItsPath
<1> QED
  BY <1>2, <1>3 DEF TypeInv

LEMMA TypeNext == TypeInv /\ [Next]_vars => TypeInv'
<1> SUFFICES ASSUME TypeInv, [Next]_vars PROVE TypeInv'
  OBVIOUS
<1> USE TTLIsInteger DEF TypeInv, TypeOK, OnItsPath, Keyed, store, Goto
<1>0. now \in Int /\ now + TTL \in Int /\ MaxTime \in Nat
  BY ConstantsAssumption
<1>1. ASSUME NEW c \in Calls, CallStep(c) PROVE TypeInv'
  <2>0. Keyed(c) => K(c) \in CacheKeys
    BY KeyOfCall
  <2>1. CASE SendDirect(c) \/ LookupMisses(c)
    BY <2>1 DEF SendDirect, LookupMisses, Store!Stored
  <2>2. CASE BeginReserve(c)
    BY <2>2 DEF BeginReserve, Store!Stored
  <2>3. CASE Granted(c)
    <3>1. Store!Stored'
      BY <2>3, <1>0, GrantStores DEF Granted
    <3> QED BY <2>3, <3>1 DEF Granted
  <2>4. CASE GrantLost(c)
    <3>1. Store!Stored'
      BY <2>4, <1>0, GrantStores DEF GrantLost
    <3> QED BY <2>4, <3>1 DEF GrantLost, Answer, Pair, Outcomes
  <2>5. CASE Replayed(c)
    BY <2>5 DEF Replayed, Answer, Pair, Outcomes, Store!ReserveReplay, Store!Stored
  <2>6. CASE Refused(c)
    BY <2>6 DEF Refused, Answer, Pair, Outcomes, Store!ReserveInFlight, Store!Stored
  <2>7. CASE LookupFails(c)
    BY <2>7 DEF LookupFails, Answer, Pair, Outcomes, Store!Stored
  <2>8. CASE LookupHits(c)
    BY <2>8, <2>0
    DEF LookupHits, Answer, Pair, Outcomes, Store!Stored, Store!GetFinds, Store!Entry
  <2>9. CASE ProviderReturns(c)
    <3>1. PICK r \in Results \cup {Nil}, e \in Answered :
            /\ Goto(c, "sending", AfterSend(c, r, e))
            /\ Answer(c, r, e)
            /\ produced' = [produced EXCEPT ![msg[c]] = @ \cup {Production(c, r, e)}]
            /\ UNCHANGED <<store, msg, at, cancelled, settled, lost>>
      BY <2>9 DEF ProviderReturns
    <3>2. Pair(r, e) \in Outcomes /\ Production(c, r, e) \in Productions
      BY DEF Pair, Outcomes, Answered, Production, Productions
    <3>3. \/ AfterSend(c, r, e) = "done"
          \/ AfterSend(c, r, e) \in {"abandoning", "finalizing"} /\ Keyed(c) /\ CanReserve
          \/ AfterSend(c, r, e) = "setting" /\ Keyed(c) /\ ~CanReserve
      BY DEF AfterSend
    <3>5. TypeOK'
      BY <3>1, <3>2, <3>3 DEF Answer, Store!Stored
    <3> QED BY <3>1, <3>3, <3>5
  <2>10. CASE EntersProvider(c) \/ ProviderPanics(c) \/ Cancel(c) \/ AsksAgain(c) \/ CleanupFails(c)
    BY <2>10 DEF EntersProvider, ProviderPanics, Cancel, AsksAgain, CleanupFails, Store!Stored
  <2>11. CASE FinalizeRecords(c)
    <3>1. Store!Stored'
      BY <2>11, <1>0, RecordStores DEF FinalizeRecords, Outcomes
    <3> QED BY <1>0, <2>11, <3>1 DEF FinalizeRecords, Settle
  <2>12. CASE SetsResult(c)
    <3>1. Store!Stored'
      BY <2>12, <1>0, RecordStores DEF SetsResult, Outcomes
    <3> QED BY <1>0, <2>12, <3>1 DEF SetsResult, Settle
  <2>13. CASE FinalizeReleases(c)
    <3>1. Store!Stored'
      BY <2>13, ReleaseStores DEF FinalizeReleases
    <3> QED BY <2>13, <3>1 DEF FinalizeReleases
  <2>14. CASE SetsNil(c)
    <3>1. Store!Stored'
      BY <2>14, ReleaseStores DEF SetsNil
    <3> QED BY <2>14, <3>1 DEF SetsNil, Clear
  <2>15. CASE Abandons(c)
    <3>1. Store!Stored'
      BY <2>15, ReleaseStores DEF Abandons
    <3> QED BY <2>15, <3>1 DEF Abandons
  <2>16. CASE FinalizeIsSuperseded(c)
    BY <2>16 DEF FinalizeIsSuperseded, Store!FinalizeSuperseded, Store!Stored
  <2> QED
    BY <1>1, <2>1, <2>2, <2>3, <2>4, <2>5, <2>6, <2>7, <2>8, <2>9, <2>10, <2>11, <2>12,
       <2>13, <2>14, <2>15, <2>16
    DEF CallStep, Looks, Finishes
<1>2. CASE Tick
  BY <1>2, <1>0 DEF Tick, Store!Stored
<1>3. CASE Sweep
  <2>1. Store!Stored'
    BY <1>3 DEF Sweep, Store!removeExpired, Store!Stored
  <2> QED BY <1>3, <2>1 DEF Sweep
<1>4. CASE UNCHANGED vars
  BY <1>4 DEF vars, Store!Stored
<1> QED
  BY <1>1, <1>2, <1>3, <1>4, NextCases

\* The table never records a nil outcome, and every call, clock reading and
\* answer is what the code declares it to be.
THEOREM TypeCorrect == Spec => []TypeOK
<1>1. TypeInv => TypeOK
  BY DEF TypeInv
<1> QED
  BY TypeInit, TypeNext, <1>1, PTL DEF Spec

-----------------------------------------------------------------------------
(* What a step leaves alone.                                               *)

\* A step of one call leaves the others where they are.
LEMMA OthersStay ==
  ASSUME TypeInv, NEW d \in Calls, CallStep(d), NEW c \in Calls \ {d}
  PROVE  pc'[c] = pc[c] /\ at'[c] = at[c] /\ outcome'[c] = outcome[c]
<1>1. DOMAIN pc = Calls /\ DOMAIN at = Calls /\ DOMAIN outcome = Calls
  BY DEF TypeInv, TypeOK
<1>2. CASE SendDirect(d) \/ BeginReserve(d) \/ LookupMisses(d) \/ LookupHits(d)
           \/ Cancel(d) \/ AsksAgain(d)
  BY <1>1, <1>2
  DEF SendDirect, BeginReserve, LookupMisses, LookupHits, Cancel, AsksAgain, Goto, Answer
<1>3. CASE Looks(d)
  BY <1>1, <1>3
  DEF Looks, Granted, Replayed, Refused, LookupFails, GrantLost, Goto, Answer
<1>4. CASE ProviderReturns(d) \/ EntersProvider(d) \/ ProviderPanics(d)
  BY <1>1, <1>4 DEF ProviderReturns, EntersProvider, ProviderPanics, Goto, Answer
<1>5. CASE Finishes(d)
  BY <1>1, <1>5
  DEF Finishes, FinalizeRecords, FinalizeReleases, FinalizeIsSuperseded, Abandons,
      SetsResult, SetsNil, CleanupFails, Goto
<1> QED BY <1>2, <1>3, <1>4, <1>5 DEF CallStep

LEMMA StepKeepsTime ==
  ASSUME NEW d \in Calls, CallStep(d)
  PROVE  now' = now
BY DEF CallStep, Looks, Finishes, SendDirect, BeginReserve, LookupMisses, LookupHits,
       Granted, Replayed, Refused, LookupFails, GrantLost, ProviderReturns, EntersProvider,
       ProviderPanics, FinalizeRecords, FinalizeReleases, FinalizeIsSuperseded, Abandons,
       SetsResult, SetsNil, CleanupFails, Cancel, AsksAgain, store

LEMMA MessagesStay ==
  ASSUME NEW c \in Calls, CallStep(c)
  PROVE  msg' = msg
BY DEF CallStep, Looks, Finishes, SendDirect, BeginReserve, LookupMisses, LookupHits,
       Granted, Replayed, Refused, LookupFails, GrantLost, ProviderReturns, EntersProvider,
       ProviderPanics, FinalizeRecords, FinalizeReleases, FinalizeIsSuperseded, Abandons,
       SetsResult, SetsNil, CleanupFails, Cancel, AsksAgain

\* The clock reading of a call is that of its Reserve, or of its Get.
LEMMA ReadingIsFresh ==
  ASSUME TypeInv, NEW d \in Calls, CallStep(d), NEW c \in Calls
  PROVE  \/ at'[c] = at[c]
         \/ /\ d = c /\ pc[c] = "idle" /\ pc'[c] \in {"locking", "passed"}
            /\ at'[c] = now
<1>1. DOMAIN pc = Calls /\ DOMAIN at = Calls
  BY DEF TypeInv, TypeOK
<1>2. CASE BeginReserve(d) \/ LookupMisses(d)
  BY <1>1, <1>2 DEF BeginReserve, LookupMisses, Goto
<1>3. CASE ~(BeginReserve(d) \/ LookupMisses(d))
  <2>1. at' = at
    BY <1>3
    DEF CallStep, Looks, Finishes, SendDirect, LookupHits, Granted, Replayed, Refused,
        LookupFails, GrantLost, EntersProvider, ProviderReturns, ProviderPanics,
        FinalizeRecords, FinalizeReleases, FinalizeIsSuperseded, Abandons, SetsResult,
        SetsNil, CleanupFails, Cancel, AsksAgain
  <2> QED BY <2>1
<1> QED
  BY <1>2, <1>3

-----------------------------------------------------------------------------
(* One live sender per key.                                                *)

LEMMA ClaimIsEntry ==
  ASSUME NEW c \in Calls, NEW e \in Int
  PROVE  /\ Store!Claim(c, e) \in Store!Entry
         /\ Store!Claim(c, e) # Nil
BY NilAssumption DEF Store!Claim, Store!Entry, Store!Tokens, Store!newClaimToken

LEMMA PastNext == TypeInv /\ AtIsPast /\ [Next]_vars => AtIsPast'
<1> SUFFICES ASSUME TypeInv, AtIsPast, [Next]_vars PROVE AtIsPast'
  OBVIOUS
<1> USE DEF TypeInv, TypeOK, AtIsPast, store
<1>0. now \in Int /\ (\A c \in Calls : at[c] \in Int)
  BY ConstantsAssumption
<1>1. ASSUME NEW c \in Calls, CallStep(c) PROVE AtIsPast'
  <2>1. now' = now
    BY <1>1
    DEF CallStep, Looks, Finishes, SendDirect, BeginReserve, LookupMisses, LookupHits,
        Granted, Replayed, Refused, LookupFails, GrantLost, ProviderReturns, EntersProvider,
        ProviderPanics, FinalizeRecords, FinalizeReleases, FinalizeIsSuperseded, Abandons,
        SetsResult, SetsNil, CleanupFails, Cancel, AsksAgain
  <2>2. \/ at' = at
        \/ at' = [at EXCEPT ![c] = now]
    BY <1>1
    DEF CallStep, Looks, Finishes, SendDirect, BeginReserve, LookupMisses, LookupHits,
        Granted, Replayed, Refused, LookupFails, GrantLost, ProviderReturns, EntersProvider,
        ProviderPanics, FinalizeRecords, FinalizeReleases, FinalizeIsSuperseded, Abandons,
        SetsResult, SetsNil, CleanupFails, Cancel, AsksAgain
  <2> QED BY <1>0, <2>1, <2>2
<1>2. CASE Tick
  BY <1>0, <1>2 DEF Tick
<1>3. CASE Sweep
  BY <1>3 DEF Sweep
<1>4. CASE UNCHANGED vars
  BY <1>4 DEF vars
<1> QED
  BY <1>1, <1>2, <1>3, <1>4, NextCases

\* Nothing takes a claim that has not run out away from its holder: a Reserve
\* with a stale clock still sees it, a late Finalize or Abandon has another
\* token, and the sweeper takes expired entries only.
LEMMA LiveNext ==
  TypeInv /\ AtIsPast /\ LiveClaimIsStored /\ [Next]_vars => LiveClaimIsStored'
<1> SUFFICES ASSUME TypeInv, AtIsPast, LiveClaimIsStored, [Next]_vars,
                    NEW d \in Calls, Live(d)'
             PROVE  (entries[K(d)] = Store!Claim(d, at[d] + TTL))'
  BY DEF LiveClaimIsStored
<1> USE TTLIsInteger DEF store, Goto
<1>0. /\ now \in Int /\ (\A c \in Calls : at[c] \in Int /\ at[c] <= now)
      /\ pc \in [Calls -> {"idle", "locking", "passed", "sending", "finalizing", "abandoning",
                          "setting", "done", "crashed"}]
      /\ Nil \notin Calls
  BY ConstantsAssumption DEF TypeInv, TypeOK, AtIsPast
<1>a. Live(d) => /\ entries[K(d)] = Store!Claim(d, at[d] + TTL)
                 /\ entries[K(d)] # Nil
                 /\ entries[K(d)].token = d
                 /\ entries[K(d)].expiresAt = at[d] + TTL
                 /\ now < entries[K(d)].expiresAt
  BY <1>0, ClaimIsEntry DEF LiveClaimIsStored, Store!Claim, Live
<1>b. DOMAIN entries = CacheKeys
  BY DEF TypeInv, TypeOK, Store!Stored
<1>1. ASSUME NEW c \in Calls, CallStep(c)
      PROVE  (entries[K(d)] = Store!Claim(d, at[d] + TTL))'
  <2>0. Keyed(c) => K(c) \in CacheKeys
    BY KeyOfCall DEF TypeInv
  <2>1. CASE SendDirect(c)
    BY <1>0, <1>a, <2>1 DEF SendDirect, Live, Holding, Keyed, K
  <2>2. CASE BeginReserve(c)
    BY <1>0, <1>a, <2>2 DEF BeginReserve, Live, Holding, Keyed, K
  <2>3. CASE LookupMisses(c)
    BY <1>0, <1>a, <2>3 DEF LookupMisses, Live, Holding, Keyed, K
  <2>4. CASE Replayed(c) \/ Refused(c) \/ LookupFails(c) \/ LookupHits(c)
    BY <1>0, <1>a, <2>4
    DEF Replayed, Refused, LookupFails, LookupHits, Live, Holding, Keyed, K,
        Store!ReserveReplay, Store!ReserveInFlight
  <2>5. CASE Granted(c) \/ GrantLost(c)
    <3>1. /\ ~Store!Unexpired(K(c), at[c])
          /\ entries' = [entries EXCEPT ![K(c)] = Store!Claim(c, at[c] + TTL)]
          /\ msg' = msg /\ at' = at /\ now' = now
          /\ pc[c] = "locking"
          /\ \A x \in Calls \ {c} : pc'[x] = pc[x]
      BY <1>0, <2>5 DEF Granted, GrantLost, Store!ReserveGrant, Store!Put, Store!newClaimToken
    <3>2. K(c) \in CacheKeys
      BY <2>0, <3>1 DEF TypeInv, OnItsPath
    <3>3. CASE d = c
      BY <1>b, <3>1, <3>2, <3>3 DEF K
    <3>4. CASE d # c
      <4>1. Live(d)
        BY <3>1, <3>4 DEF Live, Holding, Keyed
      <4>2. K(d) # K(c)
        BY <1>0, <1>a, <3>1, <4>1 DEF Store!Unexpired
      <4> QED BY <1>a, <3>1, <4>1, <4>2 DEF K
    <3> QED BY <3>3, <3>4
  <2>6. CASE ProviderReturns(c) \/ EntersProvider(c) \/ ProviderPanics(c) \/ Cancel(c)
             \/ AsksAgain(c) \/ CleanupFails(c)
    BY <1>0, <1>a, <2>6
    DEF ProviderReturns, EntersProvider, ProviderPanics, Cancel, AsksAgain, CleanupFails,
        Live, Holding, Keyed, K
  <2>7. CASE FinalizeRecords(c) \/ FinalizeReleases(c) \/ Abandons(c) \/ FinalizeIsSuperseded(c)
    <3>1. /\ msg' = msg /\ at' = at /\ now' = now
          /\ d # c /\ pc'[d] = pc[d]
      BY <1>0, <2>7
      DEF FinalizeRecords, FinalizeReleases, Abandons, FinalizeIsSuperseded, Live, Holding
    <3>2. Live(d)
      BY <3>1 DEF Live, Holding, Keyed
    <3>3. entries'[K(d)] = entries[K(d)]
      <4>1. K(d) = K(c) => Store!Superseded(K(c), c) /\ ~Store!Abandons(K(c), c)
        BY <1>0, <1>a, <3>1, <3>2 DEF Store!Superseded, Store!Abandons
      <4>2. CASE Abandons(c)
        BY <4>1, <4>2 DEF Abandons, Store!Abandon
      <4>3. CASE FinalizeIsSuperseded(c)
        BY <4>3 DEF FinalizeIsSuperseded, Store!FinalizeSuperseded
      <4>4. CASE FinalizeRecords(c) \/ FinalizeReleases(c)
        <5>1. K(d) \in CacheKeys
          BY <3>2, KeyOfCall DEF TypeInv, Live, Holding
        <5> QED BY <1>b, <4>1, <4>4, <5>1
          DEF FinalizeRecords, FinalizeReleases, Store!FinalizeRecord,
              Store!FinalizeRelease, Store!Put
      <4> QED BY <2>7, <4>2, <4>3, <4>4
    <3> QED BY <1>a, <3>1, <3>2, <3>3 DEF K
  <2>8. CASE SetsResult(c) \/ SetsNil(c)
    BY <2>8, <1>0 DEF TypeInv, OnItsPath, SetsResult, SetsNil, Live, Holding
  <2> QED
    BY <1>1, <2>1, <2>2, <2>3, <2>4, <2>5, <2>6, <2>7, <2>8 DEF CallStep, Looks, Finishes
<1>2. CASE Tick
  BY <1>0, <1>a, <1>2 DEF Tick, Live, Holding, Keyed, K
<1>3. CASE Sweep
  <2>1. Live(d) /\ K(d) \in CacheKeys
    BY <1>3, KeyOfCall DEF TypeInv, Sweep, Live, Holding, Keyed
  <2> QED BY <1>0, <1>a, <1>3, <2>1 DEF Sweep, Store!removeExpired, K
<1>4. CASE UNCHANGED vars
  BY <1>a, <1>4 DEF vars, Live, Holding, Keyed, K
<1> QED
  BY <1>1, <1>2, <1>3, <1>4, NextCases

\* Of the calls that carry one key, at most one is sending, or finishing its
\* send, under a claim that has not run out.
THEOREM OneLiveSenderAlways == Spec => []OneLiveSender
<1> DEFINE Inv == TypeInv /\ AtIsPast /\ LiveClaimIsStored
<1>1. Init => Inv
  BY TypeInit, ConstantsAssumption DEF Init, AtIsPast, LiveClaimIsStored, Live, Holding
<1>2. Inv /\ [Next]_vars => Inv'
  BY TypeNext, PastNext, LiveNext
<1>3. Inv => OneLiveSender
  <2> SUFFICES ASSUME Inv, NEW c \in Calls, NEW d \in Calls, Live(c), Live(d), K(c) = K(d)
               PROVE  c = d
    BY DEF OneLiveSender
  <2>1. Store!Claim(c, at[c] + TTL).token = Store!Claim(d, at[d] + TTL).token
    BY DEF LiveClaimIsStored
  <2> QED BY <2>1 DEF Store!Claim
<1> QED
  BY <1>1, <1>2, <1>3, PTL DEF Spec

-----------------------------------------------------------------------------
(* Outcomes.                                                               *)

LEMMA EntryFields ==
  ASSUME TypeInv, NEW k \in CacheKeys, entries[k] # Nil
  PROVE  /\ entries[k].expiresAt \in Int
         /\ entries[k].result # Nil => entries[k].token = Nil /\ entries[k].result \in Results
         /\ entries[k].result = Nil => entries[k].token \in Calls
<1>1. entries[k] \in Store!Entry
  BY DEF TypeInv, TypeOK, Store!Stored
<1> QED
  BY <1>1, ConstantsAssumption DEF Store!Entry, Store!Tokens, Store!newClaimToken

\* An outcome that has not expired survives every step except a Set of the
\* path without reservations.
LEMMA OutcomeKept ==
  ASSUME TypeInv, AtIsPast, [Next]_vars,
         NEW k \in CacheKeys, entries[k] # Nil, entries[k].result # Nil,
         now < entries[k].expiresAt,
         \A c \in Calls : K(c) = k => ~SetsResult(c) /\ ~SetsNil(c)
  PROVE  entries'[k] = entries[k]
<1> USE TTLIsInteger DEF store, Goto
<1>0. /\ now \in Int /\ (\A c \in Calls : at[c] \in Int /\ at[c] <= now)
      /\ Nil \notin Calls /\ entries[k].expiresAt \in Int /\ entries[k].token = Nil
      /\ DOMAIN entries = CacheKeys
  BY ConstantsAssumption, EntryFields DEF TypeInv, TypeOK, AtIsPast, Store!Stored
<1>1. ASSUME NEW c \in Calls, CallStep(c) PROVE entries'[k] = entries[k]
  <2>1. /\ Store!Unexpired(k, at[c])
        /\ Store!Superseded(k, c)
        /\ ~Store!Abandons(k, c)
    BY <1>0 DEF Store!Unexpired, Store!Superseded, Store!Abandons
  <2>2. CASE Granted(c) \/ GrantLost(c)
    BY <1>0, <2>1, <2>2 DEF Granted, GrantLost, Store!ReserveGrant, Store!Put
  <2>3. CASE FinalizeRecords(c) \/ FinalizeReleases(c)
    BY <1>0, <2>1, <2>3
    DEF FinalizeRecords, FinalizeReleases, Store!FinalizeRecord, Store!FinalizeRelease,
        Store!Put
  <2>4. CASE Abandons(c)
    BY <1>0, <2>1, <2>4 DEF Abandons, Store!Abandon
  <2>5. CASE FinalizeIsSuperseded(c) \/ Replayed(c) \/ Refused(c)
    BY <2>5 DEF FinalizeIsSuperseded, Replayed, Refused, Store!FinalizeSuperseded,
                Store!ReserveReplay, Store!ReserveInFlight
  <2>6. CASE SetsResult(c) \/ SetsNil(c)
    <3>1. K(c) # k
      BY <2>6
    <3> QED
      BY <1>0, <2>6, <3>1 DEF SetsResult, SetsNil, Store!SetRecord, Store!SetNil, Store!Put
  <2>7. CASE \/ SendDirect(c) \/ BeginReserve(c) \/ LookupMisses(c) \/ LookupHits(c)
             \/ LookupFails(c) \/ ProviderReturns(c) \/ EntersProvider(c)
             \/ ProviderPanics(c) \/ CleanupFails(c)
             \/ Cancel(c) \/ AsksAgain(c)
    BY <2>7 DEF SendDirect, BeginReserve, LookupMisses, LookupHits, LookupFails,
                ProviderReturns, EntersProvider, ProviderPanics, CleanupFails, Cancel,
                AsksAgain
  <2> QED
    BY <1>1, <2>2, <2>3, <2>4, <2>5, <2>6, <2>7 DEF CallStep, Looks, Finishes
<1>2. CASE Sweep
  BY <1>0, <1>2 DEF Sweep, Store!removeExpired
<1>3. CASE Tick \/ UNCHANGED vars
  BY <1>3 DEF Tick, vars
<1> QED
  BY <1>1, <1>2, <1>3, NextCases

\* The first outcome recorded for a key stands until it expires, whatever
\* late senders, Abandon, the sweeper or another Reserve do.
THEOREM OutcomeStandsAlways == Spec => OutcomeStands
<1> DEFINE Inv == TypeInv /\ AtIsPast
<1>1. Init => Inv
  BY TypeInit, ConstantsAssumption DEF Init, AtIsPast
<1>2. Inv /\ [Next]_vars => Inv'
  BY TypeNext, PastNext
<1> DEFINE Kept == \A k \in CacheKeys :
                     (CanReserve /\ entries[k] # Nil /\ entries[k].result # Nil
                        /\ now < entries[k].expiresAt) => entries'[k] = entries[k]
<1>3. Inv /\ [Next]_vars => [Kept]_vars
  <2>1. TypeInv /\ CanReserve => \A c \in Calls : ~SetsResult(c) /\ ~SetsNil(c)
    BY DEF TypeInv, OnItsPath, SetsResult, SetsNil, Goto
  <2> QED BY <2>1, OutcomeKept
<1> QED
  BY <1>1, <1>2, <1>3, PTL DEF Spec, OutcomeStands

\* What a step makes of the history of a key: a new outcome, a nil one on top of
\* the last, or nothing.
LEMMA SettledChanges ==
  ASSUME TypeInv, [Next]_vars, NEW k \in CacheKeys
  PROVE  /\ now' \in Int /\ now <= now'
         /\ \/ \E c \in Calls : /\ K(c) = k /\ (SetsResult(c) \/ FinalizeRecords(c))
                                /\ settled'[k].until = now + TTL
            \/ ~CanReserve /\ settled'[k].cleared
            \/ /\ settled'[k] = settled[k]
               /\ \A c \in Calls : K(c) = k => ~SetsResult(c) /\ ~FinalizeRecords(c) /\ ~SetsNil(c)
<1>0. /\ now \in Int /\ settled \in [CacheKeys -> [until: Int, cleared: BOOLEAN]]
  BY ConstantsAssumption DEF TypeInv, TypeOK
<1>a. now' \in Int
  BY TypeNext, ConstantsAssumption DEF TypeInv, TypeOK
<1>b. now <= now'
  BY <1>0, NextCases, StepKeepsTime DEF Tick, Sweep, vars
<1>1. CASE \E c \in Calls : K(c) = k /\ (SetsResult(c) \/ FinalizeRecords(c))
  <2>1. PICK c \in Calls : K(c) = k /\ (SetsResult(c) \/ FinalizeRecords(c))
    BY <1>1
  <2>2. settled'[k].until = now + TTL
    BY <1>0, <2>1 DEF SetsResult, FinalizeRecords, Settle
  <2> QED BY <1>a, <1>b, <2>1, <2>2
<1>2. CASE \E c \in Calls : K(c) = k /\ SetsNil(c)
  <2>1. ~CanReserve /\ settled'[k].cleared
    BY <1>0, <1>2 DEF SetsNil, Goto, Clear, TypeInv, OnItsPath
  <2> QED BY <1>a, <1>b, <2>1
<1>3. CASE \A c \in Calls : K(c) = k => ~SetsResult(c) /\ ~FinalizeRecords(c) /\ ~SetsNil(c)
  <2>1. ASSUME NEW c \in Calls, CallStep(c) PROVE settled'[k] = settled[k]
    <3>1. CASE SetsResult(c) \/ SetsNil(c) \/ FinalizeRecords(c)
      BY <1>0, <1>3, <3>1 DEF SetsResult, SetsNil, FinalizeRecords, Settle, Clear
    <3>2. CASE ~(SetsResult(c) \/ SetsNil(c) \/ FinalizeRecords(c))
      BY <2>1, <3>2
      DEF CallStep, Looks, Finishes, SendDirect, BeginReserve, LookupMisses, LookupHits,
          Granted, Replayed, Refused, LookupFails, GrantLost, EntersProvider,
          ProviderReturns, ProviderPanics, FinalizeReleases, FinalizeIsSuperseded,
          Abandons, CleanupFails, Cancel, AsksAgain
    <3> QED BY <3>1, <3>2
  <2>2. ASSUME Tick \/ Sweep \/ UNCHANGED vars PROVE settled'[k] = settled[k]
    BY <2>2 DEF Tick, Sweep, vars
  <2>3. settled'[k] = settled[k]
    BY <2>1, <2>2, NextCases
  <2> QED BY <1>a, <1>b, <1>3, <2>3
<1> QED
  BY <1>1, <1>2, <1>3

LEMMA SettledNext == TypeInv /\ AtIsPast /\ SettledIsStored /\ [Next]_vars => SettledIsStored'
<1> SUFFICES ASSUME TypeInv, AtIsPast, SettledIsStored, [Next]_vars,
                    NEW k \in CacheKeys, ~OutcomeIsOver(k)'
             PROVE  /\ entries'[k] # Nil /\ entries'[k].result # Nil
                    /\ entries'[k].expiresAt = settled'[k].until
  BY DEF SettledIsStored
<1> USE TTLIsInteger DEF store
<1>0. /\ now \in Int /\ now + TTL \in Int
      /\ settled \in [CacheKeys -> [until: Int, cleared: BOOLEAN]]
      /\ outcome \in [Calls -> Outcomes] /\ DOMAIN entries = CacheKeys
  BY ConstantsAssumption DEF TypeInv, TypeOK, Store!Stored
<1>1. CASE \E c \in Calls : /\ K(c) = k /\ (SetsResult(c) \/ FinalizeRecords(c))
                            /\ settled'[k].until = now + TTL
  <2>1. PICK c \in Calls : K(c) = k /\ (SetsResult(c) \/ FinalizeRecords(c))
    BY <1>1
  <2>2. /\ outcome[c].result \in Results
        /\ entries'[k] = Store!Outcome(outcome[c].result, now + TTL)
    BY <1>0, <2>1
    DEF SetsResult, FinalizeRecords, Outcomes, Store!SetRecord, Store!FinalizeRecord,
        Store!Put
  <2>3. Store!Outcome(outcome[c].result, now + TTL) # Nil
    BY <1>0, <2>2, NilAssumption DEF Store!Outcome, Store!Entry
  <2> QED BY <1>1, <2>2, <2>3, ConstantsAssumption DEF Store!Outcome
<1>2. CASE ~CanReserve /\ settled'[k].cleared
  BY <1>2 DEF OutcomeIsOver
<1>3. CASE /\ settled'[k] = settled[k]
           /\ \A c \in Calls : K(c) = k => ~SetsResult(c) /\ ~FinalizeRecords(c) /\ ~SetsNil(c)
  <2>1. now' \in Int /\ now <= now' /\ settled[k].until \in Int
    BY <1>0, SettledChanges
  <2>2. ~OutcomeIsOver(k) /\ now < settled[k].until
    BY <1>0, <1>3, <2>1 DEF OutcomeIsOver
  <2>3. entries[k] # Nil /\ entries[k].result # Nil /\ entries[k].expiresAt = settled[k].until
    BY <2>2 DEF SettledIsStored
  <2>4. entries'[k] = entries[k]
    BY <1>3, <2>2, <2>3, OutcomeKept
  <2> QED BY <1>3, <2>3, <2>4
<1> QED
  BY <1>1, <1>2, <1>3, SettledChanges

\* Whoever is let through has found, in the same step, that nothing stands.
LEMMA NothingStandsAtTheLook ==
  ASSUME TypeInv, AtIsPast, SettledIsStored, Next, NEW c \in Calls, LetThrough(c)
  PROVE  OutcomeIsOver(K(c)) /\ UNCHANGED <<now, msg, settled>>
<1>0. /\ now \in Int /\ (\A d \in Calls : at[d] \in Int /\ at[d] <= now)
      /\ settled \in [CacheKeys -> [until: Int, cleared: BOOLEAN]]
      /\ pc \in [Calls -> {"idle", "locking", "passed", "sending", "finalizing", "abandoning",
                          "setting", "done", "crashed"}]
  BY ConstantsAssumption DEF TypeInv, TypeOK, AtIsPast
<1>1. K(c) \in CacheKeys
  BY KeyOfCall DEF TypeInv, LetThrough
<1>2. Granted(c) \/ LookupMisses(c)
  <2>1. ASSUME NEW d \in Calls, CallStep(d), ~Granted(d), ~LookupMisses(d) PROVE FALSE
    BY <1>0, <2>1
    DEF LetThrough, CallStep, Looks, Finishes, SendDirect, BeginReserve, LookupHits,
        Replayed, Refused, LookupFails, GrantLost, EntersProvider, ProviderReturns,
        ProviderPanics, AfterSend, FinalizeRecords, FinalizeReleases, FinalizeIsSuperseded,
        Abandons, SetsResult, SetsNil, CleanupFails, Cancel, AsksAgain, Goto
  <2>2. ASSUME NEW d \in Calls, Granted(d) \/ LookupMisses(d) PROVE d = c
    BY <1>0, <2>2 DEF LetThrough, Granted, LookupMisses, Goto
  <2>3. ~Tick /\ ~Sweep
    BY DEF LetThrough, Tick, Sweep
  <2> QED BY <2>1, <2>2, <2>3, NextCases
<1>3. UNCHANGED <<now, msg, settled>>
  BY <1>2 DEF Granted, LookupMisses, store
<1>4. SUFFICES ASSUME ~OutcomeIsOver(K(c)) PROVE FALSE
  BY <1>3
<1>5. /\ entries[K(c)] # Nil /\ entries[K(c)].result # Nil
      /\ now < entries[K(c)].expiresAt /\ entries[K(c)].expiresAt \in Int
  BY <1>0, <1>1, <1>4, EntryFields DEF SettledIsStored, OutcomeIsOver
<1>6. ~Granted(c)
  BY <1>0, <1>5 DEF Granted, Store!ReserveGrant, Store!Unexpired
<1>7. ~LookupMisses(c)
  BY <1>0, <1>5 DEF LookupMisses, Store!GetFinds
<1> QED
  BY <1>2, <1>6, <1>7

\* While the outcome of a key stands, neither Reserve nor Get lets a call with
\* that key through.
THEOREM SettledKeyLetsNoneThroughAlways == Spec => SettledKeyLetsNoneThrough
<1> DEFINE Inv == TypeInv /\ AtIsPast /\ SettledIsStored
           NoneThrough == \A c \in Calls : LetThrough(c) => OutcomeIsOver(K(c))
<1>1. Init => Inv
  BY TypeInit, ConstantsAssumption DEF Init, AtIsPast, SettledIsStored, OutcomeIsOver
<1>2. Inv /\ [Next]_vars => Inv'
  BY TypeNext, PastNext, SettledNext
<1>3. Inv /\ [Next]_vars => [NoneThrough]_vars
  BY NothingStandsAtTheLook
<1> QED
  BY <1>1, <1>2, <1>3, PTL DEF Spec, SettledKeyLetsNoneThrough

\* An outcome that is recorded between the look of a call and its way to the
\* provider is recorded later than that look.
LEMMA PassedNext ==
  TypeInv /\ AtIsPast /\ SettledIsStored /\ PassedLookedEarlier /\ [Next]_vars
    => PassedLookedEarlier'
<1> SUFFICES ASSUME TypeInv, AtIsPast, SettledIsStored, PassedLookedEarlier, [Next]_vars,
                    NEW c \in Calls, pc'[c] = "passed"
             PROVE  OutcomeIsOver(K(c))' \/ at'[c] + TTL <= settled'[K(c)'].until
  BY DEF PassedLookedEarlier
<1>1. /\ now \in Int /\ at[c] \in Int /\ at[c] <= now
      /\ settled \in [CacheKeys -> [until: Int, cleared: BOOLEAN]]
  BY ConstantsAssumption DEF TypeInv, TypeOK, AtIsPast
<1>2. msg' = msg /\ K(c)' = K(c)
  BY MessagesStay, NextCases DEF Tick, Sweep, vars, K
<1>3. Keyed(c) /\ K(c) \in CacheKeys
  <2>1. Keyed(c)
    BY <1>2, TypeNext DEF TypeInv, OnItsPath, Keyed
  <2> QED BY <2>1, KeyOfCall DEF TypeInv
<1>4. CASE pc[c] # "passed"
  <2>1. LetThrough(c) /\ Next
    BY <1>3, <1>4 DEF LetThrough, vars
  <2>2. OutcomeIsOver(K(c)) /\ UNCHANGED <<now, settled>>
    BY <2>1, NothingStandsAtTheLook
  <2> QED BY <1>2, <2>2 DEF OutcomeIsOver
<1>5. CASE pc[c] = "passed"
  <2>1. at'[c] = at[c]
    BY <1>5, NextCases, ReadingIsFresh DEF Tick, Sweep, vars
  <2>2. OutcomeIsOver(K(c)) \/ at[c] + TTL <= settled[K(c)].until
    BY <1>5 DEF PassedLookedEarlier
  <2>3. /\ now' \in Int /\ now <= now'
        /\ \/ settled'[K(c)].until = now + TTL
           \/ ~CanReserve /\ settled'[K(c)].cleared
           \/ settled'[K(c)] = settled[K(c)]
    BY <1>3, SettledChanges
  <2>4. CASE settled'[K(c)].until = now + TTL
    BY <1>1, <1>2, <2>1, <2>4, TTLIsInteger
  <2>5. CASE ~CanReserve /\ settled'[K(c)].cleared
    BY <1>2, <2>5 DEF OutcomeIsOver
  <2>6. CASE settled'[K(c)] = settled[K(c)]
    BY <1>1, <1>2, <1>3, <2>1, <2>2, <2>3, <2>6 DEF OutcomeIsOver
  <2> QED BY <2>3, <2>4, <2>5, <2>6
<1> QED
  BY <1>4, <1>5

\* A call that reaches the provider although an outcome of its key stands had
\* looked no later than that outcome was recorded.
THEOREM DuplicateLookedEarlierAlways == Spec => DuplicateLookedEarlier
<1> DEFINE Inv == TypeInv /\ AtIsPast /\ SettledIsStored /\ PassedLookedEarlier
           Earlier == \A c \in Calls : Reaches(c) =>
                        OutcomeIsOver(K(c)) \/ at[c] + TTL <= settled[K(c)].until
<1>1. Init => Inv
  BY TypeInit, ConstantsAssumption
  DEF Init, AtIsPast, SettledIsStored, OutcomeIsOver, PassedLookedEarlier
<1>2. Inv /\ [Next]_vars => Inv'
  BY TypeNext, PastNext, SettledNext, PassedNext
<1>3. Inv => Earlier
  BY DEF PassedLookedEarlier, Reaches
<1> QED
  BY <1>1, <1>2, <1>3, PTL DEF Spec, DuplicateLookedEarlier

-----------------------------------------------------------------------------
(* Claims and their owners.                                                *)

LEMMA LostNext == TypeInv /\ LostIsOver /\ [Next]_vars => LostIsOver'
<1> SUFFICES ASSUME TypeInv, LostIsOver, [Next]_vars, NEW d \in Calls
             PROVE  /\ d \in lost' => pc'[d] = "done" /\ outcome'[d].err # "in_flight"
                    /\ pc'[d] \in {"finalizing", "abandoning", "setting"}
                         => outcome'[d].err \in Answered
  BY DEF LostIsOver
<1> USE DEF LostIsOver, Goto, Answer, Pair, Answered
<1>0. /\ outcome \in [Calls -> Outcomes]
      /\ pc \in [Calls -> {"idle", "locking", "passed", "sending", "finalizing", "abandoning",
                          "setting", "done", "crashed"}]
  BY DEF TypeInv, TypeOK
<1>1. ASSUME NEW c \in Calls, CallStep(c)
      PROVE  /\ d \in lost' => pc'[d] = "done" /\ outcome'[d].err # "in_flight"
             /\ pc'[d] \in {"finalizing", "abandoning", "setting"}
                  => outcome'[d].err \in Answered
  <2>1. CASE Replayed(c) \/ Refused(c) \/ LookupFails(c) \/ LookupHits(c) \/ GrantLost(c)
    BY <1>0, <2>1 DEF Replayed, Refused, LookupFails, LookupHits, GrantLost
  <2>2. CASE SendDirect(c) \/ BeginReserve(c) \/ LookupMisses(c) \/ Granted(c)
    BY <1>0, <2>2 DEF SendDirect, BeginReserve, LookupMisses, Granted
  <2>3. CASE ProviderReturns(c) \/ EntersProvider(c) \/ ProviderPanics(c)
    BY <1>0, <2>3 DEF ProviderReturns, EntersProvider, ProviderPanics
  <2>4. CASE Finishes(c)
    BY <1>0, <2>4
    DEF Finishes, FinalizeRecords, FinalizeReleases, FinalizeIsSuperseded, Abandons,
        SetsResult, SetsNil, CleanupFails
  <2>5. CASE Cancel(c) \/ AsksAgain(c)
    BY <1>0, <2>5 DEF Cancel, AsksAgain
  <2> QED BY <1>1, <2>1, <2>2, <2>3, <2>4, <2>5 DEF CallStep, Looks
<1>2. CASE Tick \/ Sweep \/ UNCHANGED vars
  BY <1>2 DEF Tick, Sweep, vars
<1> QED BY <1>1, <1>2, NextCases

\* A step that leaves a claim in the table found it there, or granted it.
LEMMA ClaimsComeFromReserve ==
  ASSUME TypeInv, NEW c \in Calls, CallStep(c),
         NEW k \in CacheKeys, entries'[k] # Nil, entries'[k].result = Nil
  PROVE  \/ entries'[k] = entries[k]
         \/ K(c) = k /\ (Granted(c) \/ GrantLost(c))
<1> USE DEF store
<1>0. DOMAIN entries = CacheKeys
  BY DEF TypeInv, TypeOK, Store!Stored
<1>1. CASE Granted(c) \/ GrantLost(c)
  BY <1>0, <1>1 DEF Granted, GrantLost, Store!ReserveGrant, Store!Put
<1>2. CASE FinalizeRecords(c) \/ SetsResult(c)
  BY <1>0, <1>2
  DEF FinalizeRecords, SetsResult, Store!FinalizeRecord, Store!SetRecord, Store!Put,
      Store!Outcome
<1>3. CASE FinalizeReleases(c) \/ SetsNil(c) \/ Abandons(c)
  BY <1>0, <1>3
  DEF FinalizeReleases, SetsNil, Abandons, Store!FinalizeRelease, Store!SetNil, Store!Abandon,
      Store!Put
<1>4. CASE FinalizeIsSuperseded(c) \/ Replayed(c) \/ Refused(c)
  BY <1>4 DEF FinalizeIsSuperseded, Replayed, Refused, Store!FinalizeSuperseded,
              Store!ReserveReplay, Store!ReserveInFlight
<1>5. CASE \/ SendDirect(c) \/ BeginReserve(c) \/ LookupMisses(c) \/ LookupHits(c)
           \/ LookupFails(c) \/ ProviderReturns(c) \/ EntersProvider(c)
           \/ ProviderPanics(c) \/ CleanupFails(c)
           \/ Cancel(c) \/ AsksAgain(c)
  BY <1>5 DEF SendDirect, BeginReserve, LookupMisses, LookupHits, LookupFails,
              ProviderReturns, EntersProvider, ProviderPanics, CleanupFails, Cancel, AsksAgain
<1> QED
  BY <1>1, <1>2, <1>3, <1>4, <1>5 DEF CallStep, Looks, Finishes

\* An owner stays the owner of its claim for as long as the claim is there.
LEMMA OwnerStays ==
  ASSUME TypeInv, LostIsOver, NEW c \in Calls, CallStep(c),
         NEW k \in CacheKeys, entries[k] # Nil, entries[k].result = Nil,
         entries'[k] = entries[k],
         NEW d \in Calls, IsClaimOf(k, d), Holding(d) \/ Detached(d)
  PROVE  IsClaimOf(k, d)' /\ (Holding(d)' \/ Detached(d)')
<1> USE DEF store, Goto, IsClaimOf, Holding, Detached, Keyed, K
<1>0. /\ pc \in [Calls -> {"idle", "locking", "passed", "sending", "finalizing", "abandoning",
                          "setting", "done", "crashed"}]
      /\ DOMAIN entries = CacheKeys /\ Nil \notin Calls /\ at \in [Calls -> 0..MaxTime]
  BY ConstantsAssumption DEF TypeInv, TypeOK, Store!Stored
<1>1. d = c => ~Store!Superseded(K(c), c) /\ Store!Abandons(K(c), c)
  BY <1>0 DEF Store!Superseded, Store!Abandons
<1>2. CASE \/ SendDirect(c) \/ BeginReserve(c) \/ LookupMisses(c) \/ LookupHits(c)
           \/ LookupFails(c) \/ Replayed(c) \/ Refused(c) \/ Granted(c) \/ GrantLost(c)
  BY <1>0, <1>2
  DEF SendDirect, BeginReserve, LookupMisses, LookupHits, LookupFails, Replayed, Refused,
      Granted, GrantLost, LostIsOver
<1>3. CASE ProviderReturns(c) \/ EntersProvider(c) \/ ProviderPanics(c)
  BY <1>0, <1>3 DEF ProviderReturns, EntersProvider, ProviderPanics, AfterSend, LostIsOver
<1>4. CASE FinalizeRecords(c) \/ FinalizeReleases(c) \/ Abandons(c)
  <2>1. d # c
    BY <1>0, <1>1, <1>4
    DEF FinalizeRecords, FinalizeReleases, Abandons, Store!FinalizeRecord,
        Store!FinalizeRelease, Store!Abandon, Store!Put, Store!Outcome
  <2> QED BY <1>0, <1>4, <2>1 DEF FinalizeRecords, FinalizeReleases, Abandons
<1>5. CASE FinalizeIsSuperseded(c)
  BY <1>0, <1>1, <1>5 DEF FinalizeIsSuperseded, Store!FinalizeSuperseded
<1>6. CASE SetsResult(c) \/ SetsNil(c)
  BY <1>0, <1>6 DEF SetsResult, SetsNil, TypeInv, OnItsPath
<1>7. CASE CleanupFails(c)
  BY <1>0, <1>7 DEF CleanupFails, writeContext, cleanupContext
<1>8. CASE Cancel(c) \/ AsksAgain(c)
  BY <1>0, <1>8 DEF Cancel, AsksAgain, LostIsOver
<1> QED
  BY <1>2, <1>3, <1>4, <1>5, <1>6, <1>7, <1>8 DEF CallStep, Looks, Finishes

LEMMA OwnerNext ==
  TypeInv /\ LostIsOver /\ ClaimHasOwner /\ [Next]_vars => ClaimHasOwner'
<1> SUFFICES ASSUME TypeInv, LostIsOver, ClaimHasOwner, [Next]_vars,
                    NEW k \in CacheKeys, entries'[k] # Nil, entries'[k].result = Nil
             PROVE  \E d \in Calls : IsClaimOf(k, d)' /\ (Holding(d)' \/ Detached(d)')
  BY DEF ClaimHasOwner
<1>1. ASSUME NEW c \in Calls, CallStep(c)
      PROVE  \E d \in Calls : IsClaimOf(k, d)' /\ (Holding(d)' \/ Detached(d)')
  <2>1. CASE entries'[k] = entries[k]
    <3>1. PICK d \in Calls : IsClaimOf(k, d) /\ (Holding(d) \/ Detached(d))
      BY <2>1 DEF ClaimHasOwner
    <3> QED BY <1>1, <2>1, <3>1, OwnerStays
  <2>2. CASE K(c) = k /\ (Granted(c) \/ GrantLost(c))
    <3>1. /\ entries'[k] = Store!Claim(c, at[c] + TTL)
          /\ msg' = msg /\ at' = at /\ pc[c] = "locking"
          /\ pc'[c] = "passed" \/ (Unreliable /\ c \in lost')
      BY <2>2
      DEF Granted, GrantLost, Goto, TypeInv, TypeOK, Store!Stored, Store!ReserveGrant,
          Store!Put, Store!newClaimToken
    <3>2. Keyed(c) /\ CanReserve
      BY <3>1 DEF TypeInv, OnItsPath
    <3>3. IsClaimOf(k, c)' /\ (Holding(c)' \/ Detached(c)')
      BY <2>2, <3>1, <3>2 DEF IsClaimOf, Holding, Detached, Keyed, K, Store!Claim
    <3> QED BY <3>3
  <2> QED BY <1>1, <2>1, <2>2, ClaimsComeFromReserve
<1>2. CASE Tick \/ Sweep \/ UNCHANGED vars
  <2>1. entries'[k] = entries[k] /\ UNCHANGED <<msg, at, pc, lost>>
    BY <1>2 DEF Tick, Sweep, vars, Store!removeExpired
  <2> QED BY <2>1 DEF ClaimHasOwner, IsClaimOf, Holding, Detached, Keyed, K
<1> QED
  BY <1>1, <1>2, NextCases

\* ErrSendInFlight is only ever answered on account of another call that took
\* its claim less than a TTL before, and is under way, dead, or cut off.
THEOREM RefusedOnlyBySenderAlways == Spec => RefusedOnlyBySender
<1> DEFINE Inv == TypeInv /\ LostIsOver /\ ClaimHasOwner
<1>1. Init => Inv
  BY TypeInit DEF Init, LostIsOver, ClaimHasOwner, Store!InitStore
<1>2. Inv /\ [Next]_vars => Inv'
  BY TypeNext, LostNext, OwnerNext
<1> DEFINE Justified ==
      \A c \in Calls : Refused(c) =>
        \E d \in Calls \ {c} :
          /\ Keyed(d) /\ K(d) = K(c) /\ at[c] < at[d] + TTL
          /\ Holding(d) \/ pc[d] = "crashed" \/ (Unreliable /\ d \in lost)
<1>3. Inv => Justified
  <2> SUFFICES ASSUME Inv, NEW c \in Calls, Refused(c)
               PROVE  \E d \in Calls \ {c} :
                        /\ Keyed(d) /\ K(d) = K(c) /\ at[c] < at[d] + TTL
                        /\ Holding(d) \/ pc[d] = "crashed" \/ (Unreliable /\ d \in lost)
    OBVIOUS
  <2>1. pc[c] = "locking" /\ Keyed(c)
    BY DEF Refused, Goto, TypeInv, OnItsPath
  <2>2. K(c) \in CacheKeys
    BY <2>1, KeyOfCall DEF TypeInv
  <2>3. entries[K(c)] # Nil /\ entries[K(c)].result = Nil /\ at[c] < entries[K(c)].expiresAt
    BY DEF Refused, Store!ReserveInFlight, Store!Unexpired
  <2>4. PICK d \in Calls : IsClaimOf(K(c), d) /\ (Holding(d) \/ Detached(d))
    BY <2>2, <2>3 DEF ClaimHasOwner
  <2>5. d # c
    BY <2>1, <2>4 DEF Holding, Detached, LostIsOver
  <2> QED BY <2>3, <2>4, <2>5 DEF IsClaimOf, Detached
<1> QED
  BY <1>1, <1>2, <1>3, PTL DEF Spec, RefusedOnlyBySender

-----------------------------------------------------------------------------
(* Replays belong to the message.                                          *)

WasProduced(c, r) == \E p \in produced[msg[c]] : p.result = r

\* What is recorded for a message was produced for it, and so is what a call is
\* about to record or has returned without an error.
RecordedWasProduced ==
  \A c \in Calls :
    (Keyed(c) /\ entries[K(c)] # Nil /\ entries[K(c)].result # Nil) =>
      WasProduced(c, entries[K(c)].result)

HasOutcome(c) ==
  /\ Keyed(c)
  /\ pc[c] \in {"finalizing", "setting"} \/ (pc[c] = "done" /\ outcome[c].err = "none")

OutcomeWasProduced ==
  \A c \in Calls :
    /\ HasOutcome(c) => WasProduced(c, outcome[c].result)
    /\ pc[c] = "abandoning" => outcome[c].err # "none"

\* What stands where in a cache key.
LEMMA CacheKeySymbols ==
  ASSUME NEW channel \in Seq(Symbols), NEW key \in Seq(Symbols)
  PROVE  /\ Len(channel) \in Nat /\ Len(key) \in Nat
         /\ Len(buildCacheKey(channel, key)) = 2 + Len(channel) + Len(key)
         /\ \A i \in 1..Len(channel) : buildCacheKey(channel, key)[1 + i] = channel[i]
         /\ buildCacheKey(channel, key)[2 + Len(channel)] = ":"
         /\ \A i \in 1..Len(key) : buildCacheKey(channel, key)[2 + Len(channel) + i] = key[i]
<1> DEFINE a == <<"idem:">> \o channel
           b == a \o <<":">>
           cacheKey == b \o key
<1>0. /\ <<"idem:">> \in Seq(Symbols) /\ Len(<<"idem:">>) = 1
      /\ <<":">> \in Seq(Symbols) /\ Len(<<":">>) = 1 /\ <<":">>[1] = ":"
  BY TextsAssumption DEF TextsAssumption
<1>1. Len(channel) \in Nat /\ Len(key) \in Nat
  BY LenProperties
<1>2. /\ a \in Seq(Symbols) /\ Len(a) = 1 + Len(channel)
      /\ \A i \in 1 .. 1 + Len(channel) : i > 1 => a[i] = channel[i - 1]
  BY <1>0, <1>1, ConcatProperties
<1> HIDE DEF a
<1>3. /\ b \in Seq(Symbols) /\ Len(b) = 2 + Len(channel)
      /\ \A i \in 1 .. 1 + Len(channel) : b[i] = a[i]
      /\ b[2 + Len(channel)] = ":"
  BY <1>0, <1>1, <1>2, ConcatProperties
<1> HIDE DEF b
<1>4. /\ Len(cacheKey) = 2 + Len(channel) + Len(key)
      /\ \A i \in 1 .. 2 + Len(channel) : cacheKey[i] = b[i]
      /\ \A i \in 1..Len(key) : cacheKey[2 + Len(channel) + i] = key[i]
  <2>1. /\ Len(b \o key) = Len(b) + Len(key)
        /\ \A i \in 1 .. Len(b) + Len(key) :
             (b \o key)[i] = IF i <= Len(b) THEN b[i] ELSE key[i - Len(b)]
    <3>1. b \in Seq(Symbols)
      BY <1>3
    <3> QED BY <3>1, ConcatProperties
  <2>2. ASSUME NEW i \in 1 .. 2 + Len(channel) PROVE (b \o key)[i] = b[i]
    <3>1. i \in 1 .. Len(b) + Len(key) /\ i <= Len(b)
      BY <1>1, <1>3
    <3> QED BY <2>1, <3>1
  <2>3. ASSUME NEW i \in 1..Len(key) PROVE (b \o key)[2 + Len(channel) + i] = key[i]
    <3>1. /\ 2 + Len(channel) + i \in 1 .. Len(b) + Len(key) /\ ~(2 + Len(channel) + i <= Len(b))
          /\ 2 + Len(channel) + i - Len(b) = i
      BY <1>1, <1>3
    <3> QED BY <2>1, <3>1
  <2> QED BY <1>3, <2>1, <2>2, <2>3
<1> HIDE DEF cacheKey
<1>5. ASSUME NEW i \in 1..Len(channel) PROVE cacheKey[1 + i] = channel[i]
  <2>1. /\ 1 + i \in 1 .. 1 + Len(channel) /\ 1 + i \in 1 .. 2 + Len(channel)
        /\ 1 + i > 1 /\ 1 + i - 1 = i
    BY <1>1
  <2>2. a[1 + i] = channel[i]
    BY <1>2, <2>1
  <2>3. b[1 + i] = a[1 + i]
    BY <1>3, <2>1
  <2>4. cacheKey[1 + i] = b[1 + i]
    BY <1>4, <2>1
  <2> QED BY <2>2, <2>3, <2>4
<1>6. cacheKey[2 + Len(channel)] = ":"
  <2>1. 2 + Len(channel) \in 1 .. 2 + Len(channel)
    BY <1>1
  <2> QED BY <1>3, <1>4, <2>1
<1>7. cacheKey = buildCacheKey(channel, key)
  BY DEF cacheKey, b, a, buildCacheKey
<1> QED
  BY <1>1, <1>4, <1>5, <1>6, <1>7

\* No cache key is that of two channels, or of two keys.
LEMMA CacheKeysDiffer ==
  ASSUME NEW channel \in Channels, NEW other \in Channels,
         NEW key \in IdKeys \cup {NoKey}, NEW another \in IdKeys \cup {NoKey},
         buildCacheKey(channel, key) = buildCacheKey(other, another)
  PROVE  channel = other /\ key = another
<1>1. /\ channel \in Seq(Symbols) /\ other \in Seq(Symbols)
      /\ key \in Seq(Symbols) /\ another \in Seq(Symbols)
  BY TextsAssumption, EmptySeq DEF TextsAssumption, NoKey
<1>2. ASSUME NEW c \in Channels, NEW d \in Channels,
             NEW k \in Seq(Symbols), NEW l \in Seq(Symbols),
             buildCacheKey(c, k) = buildCacheKey(d, l)
      PROVE  ~(Len(c) < Len(d))
  <2> DEFINE cacheKey == buildCacheKey(c, k)
  <2>0. c \in Seq(Symbols) /\ d \in Seq(Symbols)
    BY TextsAssumption DEF TextsAssumption
  <2> SUFFICES ASSUME Len(c) < Len(d) PROVE FALSE
    OBVIOUS
  <2>1. /\ Len(c) \in Nat /\ Len(d) \in Nat
        /\ \A i \in 1..Len(c) : cacheKey[1 + i] = c[i]
        /\ \A i \in 1..Len(d) : cacheKey[1 + i] = d[i]
        /\ cacheKey[2 + Len(c)] = ":"
    <3>1. /\ Len(c) \in Nat
          /\ \A i \in 1..Len(c) : buildCacheKey(c, k)[1 + i] = c[i]
          /\ buildCacheKey(c, k)[2 + Len(c)] = ":"
      BY <2>0, CacheKeySymbols
    <3>2. /\ Len(d) \in Nat
          /\ \A i \in 1..Len(d) : buildCacheKey(d, l)[1 + i] = d[i]
      BY <2>0, CacheKeySymbols
    <3> QED BY <1>2, <3>1, <3>2
  <2> HIDE DEF cacheKey
  <2>2. \A i \in 1..Len(c) : c[i] = d[i]
    BY <2>1
  <2>3. Len(c) + 1 \in 1..Len(d) /\ 1 + (Len(c) + 1) = 2 + Len(c)
    BY <2>1
  <2>4. d[Len(c) + 1] = ":"
    BY <2>1, <2>3
  <2> QED BY <2>2, <2>4, TextsAssumption DEF TextsAssumption
<1> DEFINE cacheKey == buildCacheKey(channel, key)
<1>3. /\ Len(channel) \in Nat /\ Len(other) \in Nat /\ Len(key) \in Nat /\ Len(another) \in Nat
      /\ Len(cacheKey) = 2 + Len(channel) + Len(key)
      /\ Len(cacheKey) = 2 + Len(other) + Len(another)
      /\ \A i \in 1..Len(channel) : cacheKey[1 + i] = channel[i]
      /\ \A i \in 1..Len(other) : cacheKey[1 + i] = other[i]
      /\ \A i \in 1..Len(key) : cacheKey[2 + Len(channel) + i] = key[i]
      /\ \A i \in 1..Len(another) : cacheKey[2 + Len(other) + i] = another[i]
  <2>1. /\ Len(channel) \in Nat /\ Len(key) \in Nat
        /\ Len(buildCacheKey(channel, key)) = 2 + Len(channel) + Len(key)
        /\ \A i \in 1..Len(channel) : buildCacheKey(channel, key)[1 + i] = channel[i]
        /\ \A i \in 1..Len(key) : buildCacheKey(channel, key)[2 + Len(channel) + i] = key[i]
    BY <1>1, CacheKeySymbols
  <2>2. /\ Len(other) \in Nat /\ Len(another) \in Nat
        /\ Len(buildCacheKey(other, another)) = 2 + Len(other) + Len(another)
        /\ \A i \in 1..Len(other) : buildCacheKey(other, another)[1 + i] = other[i]
        /\ \A i \in 1..Len(another) :
             buildCacheKey(other, another)[2 + Len(other) + i] = another[i]
    BY <1>1, CacheKeySymbols
  <2> QED BY <2>1, <2>2
<1> HIDE DEF cacheKey
<1>4. Len(channel) = Len(other)
  <2>1. ~(Len(channel) < Len(other)) /\ ~(Len(other) < Len(channel))
    BY <1>1, <1>2
  <2> QED BY <1>3, <2>1
<1>5. channel = other
  BY <1>1, <1>3, <1>4, SeqEqual
<1>6. Len(key) = Len(another)
  BY <1>3, <1>4
<1>7. key = another
  BY <1>1, <1>3, <1>4, <1>6, SeqEqual
<1> QED
  BY <1>5, <1>7

\* A cache key is as good as the message.
LEMMA SameKeySameMessage ==
  ASSUME TypeInv, NEW c \in Calls, NEW d \in Calls, K(c) = K(d)
  PROVE  msg[c] = msg[d]
<1>1. msg[c] \in Message /\ msg[d] \in Message
  BY DEF TypeInv, TypeOK
<1>2. msg[c].channel = msg[d].channel /\ msg[c].key = msg[d].key
  BY <1>1, CacheKeysDiffer DEF K, Message
<1> QED
  BY <1>1, <1>2 DEF Message

\* What is there to be replayed was there before, or is an outcome of the call
\* that made the step.
LEMMA OutcomesComeFromCalls ==
  ASSUME TypeInv, NEW d \in Calls, CallStep(d),
         NEW k \in CacheKeys, entries'[k] # Nil, entries'[k].result # Nil
  PROVE  \/ entries'[k] = entries[k]
         \/ /\ K(d) = k /\ Keyed(d) /\ pc[d] \in {"finalizing", "setting"}
            /\ entries'[k].result = outcome[d].result
<1> USE DEF store, Goto
<1>0. DOMAIN entries = CacheKeys
  BY DEF TypeInv, TypeOK, Store!Stored
<1>1. CASE Granted(d) \/ GrantLost(d)
  BY <1>0, <1>1 DEF Granted, GrantLost, Store!ReserveGrant, Store!Put, Store!Claim
<1>2. CASE FinalizeRecords(d) \/ SetsResult(d)
  BY <1>0, <1>2
  DEF TypeInv, OnItsPath, FinalizeRecords, SetsResult, Store!FinalizeRecord, Store!SetRecord,
      Store!Put, Store!Outcome
<1>3. CASE FinalizeReleases(d) \/ SetsNil(d) \/ Abandons(d)
  BY <1>0, <1>3
  DEF FinalizeReleases, SetsNil, Abandons, Store!FinalizeRelease, Store!SetNil, Store!Abandon,
      Store!Put
<1>4. CASE FinalizeIsSuperseded(d) \/ Replayed(d) \/ Refused(d)
  BY <1>4 DEF FinalizeIsSuperseded, Replayed, Refused, Store!FinalizeSuperseded,
              Store!ReserveReplay, Store!ReserveInFlight
<1>5. CASE \/ SendDirect(d) \/ BeginReserve(d) \/ LookupMisses(d) \/ LookupHits(d)
           \/ LookupFails(d) \/ ProviderReturns(d) \/ EntersProvider(d)
           \/ ProviderPanics(d) \/ CleanupFails(d)
           \/ Cancel(d) \/ AsksAgain(d)
  BY <1>5 DEF SendDirect, BeginReserve, LookupMisses, LookupHits, LookupFails,
              ProviderReturns, EntersProvider, ProviderPanics, CleanupFails, Cancel, AsksAgain
<1> QED
  BY <1>1, <1>2, <1>3, <1>4, <1>5 DEF CallStep, Looks, Finishes

\* History is not forgotten, and messages do not change.
LEMMA ProducedGrows ==
  ASSUME TypeInv, NEW d \in Calls, CallStep(d)
  PROVE  /\ msg' = msg
         /\ \A c \in Calls : \A r : WasProduced(c, r) => WasProduced(c, r)'
<1>1. CASE ProviderReturns(d)
  <2>1. PICK p : msg' = msg /\ produced' = [produced EXCEPT ![msg[d]] = @ \cup {p}]
    BY <1>1 DEF ProviderReturns
  <2>2. \A m \in Message : produced[m] \subseteq produced'[m]
    BY <2>1 DEF TypeInv, TypeOK
  <2> QED BY <2>1, <2>2 DEF WasProduced, TypeInv, TypeOK
<1>2. CASE ~ProviderReturns(d)
  <2>1. msg' = msg /\ produced' = produced
    BY <1>2
    DEF CallStep, Looks, Finishes, SendDirect, BeginReserve, LookupMisses, LookupHits,
        Granted, Replayed, Refused, LookupFails, GrantLost, EntersProvider, ProviderPanics,
        FinalizeRecords, FinalizeReleases, FinalizeIsSuperseded, Abandons, SetsResult,
        SetsNil, CleanupFails, Cancel, AsksAgain
  <2> QED BY <2>1 DEF WasProduced
<1> QED
  BY <1>1, <1>2

LEMMA RecordedNext ==
  TypeInv /\ RecordedWasProduced /\ OutcomeWasProduced /\ [Next]_vars => RecordedWasProduced'
<1> SUFFICES ASSUME TypeInv, RecordedWasProduced, OutcomeWasProduced, [Next]_vars
             PROVE  RecordedWasProduced'
  OBVIOUS
<1>a. ASSUME NEW c \in Calls, Keyed(c)' PROVE K(c)' \in CacheKeys
  <2>1. TypeInv'
    BY TypeNext
  <2>2. msg'[c] \in Message
    BY <2>1 DEF TypeInv, TypeOK
  <2> QED BY <1>a, <2>2 DEF Keyed, K, CacheKeys, Message
<1> SUFFICES ASSUME NEW c \in Calls, Keyed(c)', K(c)' \in CacheKeys,
                    entries'[K(c)'] # Nil, entries'[K(c)'].result # Nil
             PROVE  WasProduced(c, entries[K(c)].result)'
  BY <1>a DEF RecordedWasProduced
<1>1. ASSUME NEW d \in Calls, CallStep(d) PROVE WasProduced(c, entries[K(c)].result)'
  <2>1. K(c)' = K(c) /\ Keyed(c)
    BY <1>1, ProducedGrows DEF K, Keyed
  <2>2. CASE entries'[K(c)] = entries[K(c)]
    <3>1. WasProduced(c, entries[K(c)].result)
      BY <2>1, <2>2 DEF RecordedWasProduced
    <3>2. WasProduced(c, entries[K(c)].result) =>
            \E p \in produced'[msg'[c]] : p.result = entries[K(c)].result
      BY <1>1, ProducedGrows DEF WasProduced
    <3> QED BY <2>1, <2>2, <3>1, <3>2 DEF WasProduced
  <2>3. CASE /\ K(d) = K(c) /\ Keyed(d) /\ pc[d] \in {"finalizing", "setting"}
             /\ entries'[K(c)].result = outcome[d].result
    <3>1. WasProduced(d, outcome[d].result)
      BY <2>3 DEF OutcomeWasProduced, HasOutcome
    <3>2. msg[c] = msg[d]
      BY <2>3, SameKeySameMessage
    <3>3. WasProduced(c, outcome[d].result)
      BY <3>1, <3>2 DEF WasProduced
    <3>4. WasProduced(c, outcome[d].result) =>
            \E p \in produced'[msg'[c]] : p.result = outcome[d].result
      BY <1>1, ProducedGrows DEF WasProduced
    <3> QED BY <2>1, <2>3, <3>3, <3>4 DEF WasProduced
  <2> QED BY <1>1, <2>1, <2>2, <2>3, OutcomesComeFromCalls
<1>2. CASE Tick \/ Sweep \/ UNCHANGED vars
  <2>1. UNCHANGED <<msg, produced>>
    BY <1>2 DEF Tick, Sweep, vars
  <2>2. K(c)' = K(c) /\ Keyed(c)
    BY <2>1 DEF K, Keyed
  <2>3. entries'[K(c)] = entries[K(c)]
    BY <1>2, <2>2 DEF Tick, Sweep, vars, Store!removeExpired
  <2> QED BY <2>1, <2>2, <2>3 DEF RecordedWasProduced, WasProduced
<1> QED
  BY <1>1, <1>2, NextCases

LEMMA OutcomeNext ==
  TypeInv /\ RecordedWasProduced /\ OutcomeWasProduced /\ [Next]_vars => OutcomeWasProduced'
<1> SUFFICES ASSUME TypeInv, RecordedWasProduced, OutcomeWasProduced, [Next]_vars,
                    NEW c \in Calls
             PROVE  /\ HasOutcome(c)' => WasProduced(c, outcome[c].result)'
                    /\ pc'[c] = "abandoning" => outcome'[c].err # "none"
  BY DEF OutcomeWasProduced
<1> USE DEF TypeInv, TypeOK, Goto, Answer, Pair, HasOutcome
<1>1. ASSUME NEW d \in Calls, CallStep(d)
      PROVE  /\ HasOutcome(c)' => WasProduced(c, outcome[c].result)'
             /\ pc'[c] = "abandoning" => outcome'[c].err # "none"
  <2>0. /\ Keyed(c)' <=> Keyed(c)
        /\ \A r : WasProduced(c, r) => \E p \in produced'[msg'[c]] : p.result = r
    BY <1>1, ProducedGrows DEF Keyed, WasProduced
  <2>1. CASE pc'[c] = pc[c] /\ outcome'[c] = outcome[c]
    BY <2>0, <2>1 DEF OutcomeWasProduced, WasProduced
  <2>2. CASE d = c /\ ProviderReturns(c)
    <3>1. PICK r \in Results \cup {Nil}, e \in Answered :
            /\ pc' = [pc EXCEPT ![c] = AfterSend(c, r, e)]
            /\ outcome' = [outcome EXCEPT ![c] = Pair(r, e)]
            /\ produced' = [produced EXCEPT ![msg[c]] = @ \cup {Production(c, r, e)}]
            /\ msg' = msg
      BY <2>2 DEF ProviderReturns
    <3>2. Production(c, r, e) \in produced'[msg'[c]] /\ Production(c, r, e).result = r
      BY <3>1 DEF Production
    <3>3. outcome'[c].result = r /\ outcome'[c].err = e
      BY <3>1
    <3>4. pc'[c] = "abandoning" => e # "none"
      BY <3>1 DEF AfterSend
    <3> QED BY <3>2, <3>3, <3>4 DEF WasProduced
  <2>3. CASE d = c /\ (Replayed(c) \/ LookupHits(c))
    <3>1. /\ entries[K(c)] # Nil /\ entries[K(c)].result # Nil
          /\ outcome'[c].result = entries[K(c)].result
          /\ pc'[c] = "done" /\ Keyed(c)
      BY <2>3
      DEF Replayed, LookupHits, Store!ReserveReplay, Store!Unexpired, Store!GetFinds,
          OnItsPath
    <3> QED BY <2>0, <3>1 DEF RecordedWasProduced, WasProduced
  <2>4. CASE d = c /\ (Refused(c) \/ LookupFails(c) \/ GrantLost(c))
    BY <2>4 DEF Refused, LookupFails, GrantLost
  <2>5. CASE d = c /\ Finishes(c)
    <3>1. outcome' = outcome /\ pc'[c] = "done"
          /\ pc[c] \in {"finalizing", "setting", "abandoning"}
      BY <2>5
      DEF Finishes, FinalizeRecords, FinalizeReleases, FinalizeIsSuperseded, Abandons,
          SetsResult, SetsNil, CleanupFails
    <3> QED BY <2>0, <3>1 DEF OutcomeWasProduced, WasProduced
  <2>6. CASE d = c /\ (\/ SendDirect(c) \/ BeginReserve(c) \/ LookupMisses(c) \/ Granted(c)
                       \/ EntersProvider(c) \/ ProviderPanics(c) \/ AsksAgain(c))
    BY <2>6 DEF SendDirect, BeginReserve, LookupMisses, Granted, EntersProvider,
    ProviderPanics, AsksAgain
  <2>7. CASE d # c \/ Cancel(d)
    <3>1. pc'[c] = pc[c] /\ outcome'[c] = outcome[c]
      BY <1>1, <2>7
      DEF CallStep, Looks, Finishes, SendDirect, BeginReserve, LookupMisses, LookupHits,
          Granted, Replayed, Refused, LookupFails, GrantLost, ProviderReturns,
          EntersProvider, ProviderPanics, FinalizeRecords, FinalizeReleases,
          FinalizeIsSuperseded, Abandons, SetsResult, SetsNil, CleanupFails, Cancel,
          AsksAgain
    <3> QED BY <2>1, <3>1
  <2> QED
    BY <1>1, <2>2, <2>3, <2>4, <2>5, <2>6, <2>7 DEF CallStep, Looks
<1>2. CASE Tick \/ Sweep \/ UNCHANGED vars
  <2>1. UNCHANGED <<msg, produced, pc, outcome>>
    BY <1>2 DEF Tick, Sweep, vars
  <2> QED BY <2>1 DEF OutcomeWasProduced, WasProduced, Keyed
<1> QED
  BY <1>1, <1>2, NextCases

\* An answer without an error is what the provider produced for this key on this
\* channel, on either path and with any store.
THEOREM ReplayFaithfulAlways == Spec => []ReplayFaithful
<1> DEFINE Inv == TypeInv /\ RecordedWasProduced /\ OutcomeWasProduced
<1>1. Init => Inv
  BY TypeInit, KeyOfCall
  DEF Init, TypeInv, RecordedWasProduced, OutcomeWasProduced, HasOutcome, Store!InitStore
<1>2. Inv /\ [Next]_vars => Inv'
  BY TypeNext, RecordedNext, OutcomeNext
<1>3. Inv => ReplayFaithful
  BY DEF OutcomeWasProduced, HasOutcome, WasProduced, ReplayFaithful
<1> QED
  BY <1>1, <1>2, <1>3, PTL DEF Spec
-----------------------------------------------------------------------------
(* One send per TTL.                                                       *)

LEMMA AnswerNext == TypeInv /\ AnswerIsItsOwn /\ [Next]_vars => AnswerIsItsOwn'
<1> SUFFICES ASSUME TypeInv, AnswerIsItsOwn, [Next]_vars,
                    NEW c \in Calls, NEW p \in produced'[msg'[c]], p.by = c
             PROVE  /\ pc'[c] \in {"finalizing", "abandoning", "setting", "done"}
                    /\ outcome'[c] = Pair(p.result, p.err)
                    /\ pc'[c] = "abandoning" => p.result = Nil
  BY DEF AnswerIsItsOwn
<1>0. /\ DOMAIN pc = Calls /\ DOMAIN outcome = Calls /\ msg[c] \in Message
      /\ produced \in [Message -> SUBSET Productions]
  BY DEF TypeInv, TypeOK
<1> DEFINE Mine == p \in produced[msg[c]]
<1>a. Mine => /\ pc[c] \in {"finalizing", "abandoning", "setting", "done"}
              /\ outcome[c] = Pair(p.result, p.err)
              /\ pc[c] = "abandoning" => p.result = Nil
              /\ outcome[c].err # "in_flight"
  BY <1>0 DEF AnswerIsItsOwn, Productions, Pair, Answered
<1> HIDE DEF Mine
<1>1. ASSUME NEW d \in Calls, CallStep(d)
      PROVE  /\ pc'[c] \in {"finalizing", "abandoning", "setting", "done"}
             /\ outcome'[c] = Pair(p.result, p.err)
             /\ pc'[c] = "abandoning" => p.result = Nil
  <2>1. CASE ProviderReturns(d)
    <3>1. PICK r \in Results \cup {Nil}, e \in Answered :
            /\ Goto(d, "sending", AfterSend(d, r, e)) /\ Answer(d, r, e)
            /\ produced' = [produced EXCEPT ![msg[d]] = @ \cup {Production(d, r, e)}]
            /\ msg' = msg
      BY <2>1 DEF ProviderReturns
    <3>2. Mine \/ (d = c /\ p = Production(c, r, e))
      BY <1>0, <3>1 DEF Production, Mine
    <3>3. CASE Mine
      <4>1. d # c
        BY <1>a, <3>1, <3>3 DEF Goto
      <4> QED BY <1>1, <1>a, <3>3, <4>1, OthersStay
    <3>4. CASE d = c /\ p = Production(c, r, e)
      <4>1. pc'[c] = AfterSend(c, r, e) /\ outcome'[c] = Pair(r, e)
        BY <1>0, <3>1, <3>4 DEF Goto, Answer
      <4>2. p.result = r /\ p.err = e
        BY <3>4 DEF Production
      <4> QED BY <4>1, <4>2 DEF AfterSend
    <3> QED BY <3>2, <3>3, <3>4
  <2>2. CASE ~ProviderReturns(d)
    <3>1. Mine
      BY <1>1, <2>2
      DEF CallStep, Looks, Finishes, SendDirect, BeginReserve, LookupMisses, LookupHits,
          Granted, Replayed, Refused, LookupFails, GrantLost, EntersProvider,
          ProviderPanics, FinalizeRecords, FinalizeReleases, FinalizeIsSuperseded, Abandons,
          SetsResult, SetsNil, CleanupFails, Cancel, AsksAgain, Mine
    <3>2. CASE d # c
      BY <1>1, <1>a, <3>1, <3>2, OthersStay
    <3>3. CASE d = c /\ (Finishes(c) \/ Cancel(c))
      BY <1>0, <1>a, <3>1, <3>3
      DEF Finishes, FinalizeRecords, FinalizeReleases, FinalizeIsSuperseded, Abandons,
          SetsResult, SetsNil, CleanupFails, Cancel, Goto
    <3>4. d = c => Finishes(c) \/ Cancel(c)
      BY <1>0, <1>1, <1>a, <2>2, <3>1
      DEF CallStep, Looks, SendDirect, BeginReserve, LookupMisses, LookupHits, Granted,
          Replayed, Refused, LookupFails, GrantLost, EntersProvider, ProviderPanics,
          AsksAgain, Goto
    <3> QED BY <3>2, <3>3, <3>4
  <2> QED BY <2>1, <2>2
<1>2. CASE Tick \/ Sweep \/ UNCHANGED vars
  BY <1>2, <1>a DEF Tick, Sweep, vars, Mine
<1> QED
  BY <1>1, <1>2, NextCases

\* Only the provider's answer to a call adds one that is by that call.
LEMMA DeliveredByProvider ==
  ASSUME TypeInv, NEW d \in Calls, CallStep(d), NEW c \in Calls,
         d # c \/ ~ProviderReturns(c), Delivered(c)'
  PROVE  Delivered(c)
<1>1. CASE ProviderReturns(d)
  <2>1. PICK r \in Results \cup {Nil}, e \in Answered :
          /\ produced' = [produced EXCEPT ![msg[d]] = @ \cup {Production(d, r, e)}]
          /\ msg' = msg
    BY <1>1 DEF ProviderReturns
  <2>2. produced \in [Message -> SUBSET Productions] /\ msg[c] \in Message
    BY DEF TypeInv, TypeOK
  <2>3. \A p \in produced'[msg[c]] : p.by = c => p \in produced[msg[c]]
    BY <1>1, <2>1, <2>2 DEF Production
  <2> QED BY <2>1, <2>3 DEF Delivered
<1>2. CASE ~ProviderReturns(d)
  <2>1. UNCHANGED <<produced, msg>>
    BY <1>2
    DEF CallStep, Looks, Finishes, SendDirect, BeginReserve, LookupMisses, LookupHits,
        Granted, Replayed, Refused, LookupFails, GrantLost, EntersProvider, ProviderPanics,
        FinalizeRecords, FinalizeReleases, FinalizeIsSuperseded, Abandons, SetsResult,
        SetsNil, CleanupFails, Cancel, AsksAgain
  <2> QED BY <2>1 DEF Delivered
<1> QED
  BY <1>1, <1>2

\* What a call sent blocks its key for a TTL, whichever step of its own brought
\* it there: while the claim is live it is in the table, and Finalize is not
\* superseded.
LEMMA OwnStepBlocks ==
  ASSUME TypeInv, AtIsPast, LiveClaimIsStored, AnswerIsItsOwn, SentBlocks,
         NEW c \in Calls, CallStep(c), Sent(c)', now' < at'[c] + TTL
  PROVE  /\ entries'[K(c)] # Nil
         /\ at'[c] + TTL <= entries'[K(c)].expiresAt
         /\ entries'[K(c)].result # Nil \/ entries'[K(c)].token = c
<1> USE TTLIsInteger DEF Goto, store
<1>0. /\ now \in Int /\ at[c] \in Int /\ at[c] <= now
      /\ pc \in [Calls -> {"idle", "locking", "passed", "sending", "finalizing", "abandoning",
                          "setting", "done", "crashed"}]
      /\ DOMAIN outcome = Calls /\ Nil \notin Calls /\ DOMAIN entries = CacheKeys
  BY ConstantsAssumption DEF TypeInv, TypeOK, AtIsPast, Store!Stored
<1>1. CanReserve /\ msg' = msg /\ Keyed(c) /\ K(c) \in CacheKeys
  <2>1. msg' = msg
    BY ProducedGrows
  <2> QED BY <2>1, KeyOfCall DEF Sent, TypeInv, Keyed
<1>2. Live(c) => /\ entries[K(c)] = Store!Claim(c, at[c] + TTL)
                 /\ entries[K(c)] # Nil
  BY <1>0, ClaimIsEntry DEF LiveClaimIsStored
<1>3. Delivered(c) => /\ pc[c] \in {"finalizing", "setting", "done"}
                      /\ outcome[c].err \in Answered /\ outcome[c].result # Nil
  <2> SUFFICES ASSUME NEW p \in produced[msg[c]], p.by = c, p.result # Nil
               PROVE  /\ pc[c] \in {"finalizing", "setting", "done"}
                      /\ outcome[c].err \in Answered /\ outcome[c].result # Nil
    BY DEF Delivered
  <2>1. p.err \in Answered
    BY DEF TypeInv, TypeOK, Productions
  <2>2. /\ pc[c] \in {"finalizing", "setting", "done"}
        /\ outcome[c] = Pair(p.result, p.err)
    BY DEF AnswerIsItsOwn
  <2> QED BY <2>1, <2>2 DEF Pair
<1>4. ~ProviderReturns(c) /\ Delivered(c)' => Delivered(c)
  BY DeliveredByProvider
<1>5. CASE Granted(c)
  <2>1. entries'[K(c)] = Store!Claim(c, at[c] + TTL) /\ at' = at
    BY <1>0, <1>1, <1>5 DEF Granted, Store!ReserveGrant, Store!Put, Store!newClaimToken
  <2> QED BY <1>0, <2>1, ClaimIsEntry DEF Store!Claim
<1>6. CASE ProviderReturns(c) \/ EntersProvider(c) \/ ProviderPanics(c)
  <2>1. Live(c) /\ UNCHANGED <<entries, at>>
    BY <1>0, <1>1, <1>6 DEF ProviderReturns, EntersProvider, ProviderPanics, Live, Holding
  <2> QED BY <1>0, <1>2, <2>1 DEF Store!Claim
<1>7. CASE Finishes(c)
  <2>1. UNCHANGED <<now, at, outcome>> /\ pc'[c] = "done"
    BY <1>0, <1>7
    DEF Finishes, FinalizeRecords, FinalizeReleases, FinalizeIsSuperseded, Abandons,
        SetsResult, SetsNil, CleanupFails
  <2>2. pc[c] = "finalizing" /\ outcome[c].result # Nil
    <3>1. Delivered(c) /\ ~ProviderReturns(c)
      BY <1>4, <1>7, <2>1
      DEF Sent, Holding, ProviderReturns, Finishes, FinalizeRecords, FinalizeReleases,
          FinalizeIsSuperseded, Abandons, SetsResult, SetsNil, CleanupFails
    <3> QED
      BY <1>1, <1>3, <1>7, <3>1
      DEF Finishes, FinalizeRecords, FinalizeReleases, FinalizeIsSuperseded, Abandons,
          SetsResult, SetsNil, CleanupFails, TypeInv, OnItsPath
  <2>3. Live(c)
    BY <1>1, <2>1, <2>2 DEF Live, Holding
  <2>4. CASE FinalizeRecords(c)
    <3>1. entries'[K(c)] = Store!Outcome(outcome[c].result, now + TTL)
      BY <1>0, <1>1, <2>4 DEF FinalizeRecords, Store!FinalizeRecord, Store!Put
    <3>2. outcome[c].result \in Results
      BY <2>2 DEF TypeInv, TypeOK, Outcomes
    <3>3. Store!Outcome(outcome[c].result, now + TTL) \in Store!Entry
      BY <1>0, <3>2 DEF Store!Outcome, Store!Entry
    <3> QED BY <1>0, <2>1, <2>2, <3>1, <3>3, NilAssumption DEF Store!Outcome
  <2>5. CASE CleanupFails(c)
    BY <1>0, <1>2, <2>1, <2>3, <2>5 DEF CleanupFails, Store!Claim
  <2>6. ~FinalizeIsSuperseded(c) /\ ~FinalizeReleases(c)
    BY <1>0, <1>2, <2>2, <2>3
    DEF FinalizeIsSuperseded, FinalizeReleases, Store!FinalizeSuperseded, Store!Superseded,
        Store!Claim
  <2> QED BY <1>7, <2>2, <2>4, <2>5, <2>6 DEF Finishes, Abandons, SetsResult, SetsNil
<1>8. CASE Cancel(c)
  <2>1. UNCHANGED <<entries, now, pc, at>> /\ Sent(c)
    BY <1>1, <1>4, <1>8 DEF Cancel, Sent, Holding, ProviderReturns
  <2> QED BY <2>1 DEF SentBlocks
<1>9. CASE \/ SendDirect(c) \/ BeginReserve(c) \/ LookupMisses(c) \/ LookupHits(c)
            \/ Replayed(c) \/ Refused(c) \/ LookupFails(c) \/ GrantLost(c) \/ AsksAgain(c)
  <2>1. /\ pc'[c] \notin {"passed", "sending", "finalizing", "abandoning", "crashed"}
        /\ pc[c] \in {"idle", "locking"} \/ outcome[c].err = "in_flight"
    BY <1>0, <1>1, <1>9
    DEF SendDirect, BeginReserve, LookupMisses, LookupHits, Replayed, Refused, LookupFails,
        GrantLost, AsksAgain
  <2>2. ~ProviderReturns(c)
    BY <1>0, <1>9
    DEF SendDirect, BeginReserve, LookupMisses, LookupHits, Replayed, Refused, LookupFails,
        GrantLost, AsksAgain, ProviderReturns
  <2>3. Delivered(c)
    BY <1>4, <2>1, <2>2 DEF Sent, Holding
  <2> QED BY <1>3, <2>1, <2>3 DEF Answered
<1> QED
  BY <1>5, <1>6, <1>7, <1>8, <1>9 DEF CallStep, Looks

\* No step of another call disturbs the entry: Reserve finds it unexpired, and
\* Finalize and Abandon come with another token.
LEMMA OthersDoNotUnblock ==
  ASSUME TypeInv, AtIsPast, SentBlocks,
         NEW c \in Calls, NEW d \in Calls \ {c}, CallStep(d), Sent(c), now < at[c] + TTL
  PROVE  entries'[K(c)] = entries[K(c)]
<1> USE TTLIsInteger DEF store, Goto
<1>0. /\ now \in Int /\ (\A x \in Calls : at[x] \in Int /\ at[x] <= now)
      /\ Nil \notin Calls /\ DOMAIN entries = CacheKeys /\ CanReserve
      /\ K(c) \in CacheKeys
  BY ConstantsAssumption, KeyOfCall DEF TypeInv, TypeOK, AtIsPast, Store!Stored, Sent
<1>1. SUFFICES ASSUME K(d) = K(c) \/ ~Keyed(d)
               PROVE  entries'[K(c)] = entries[K(c)]
  <2>1. CASE Keyed(d) /\ K(d) # K(c)
    BY <1>0, <2>1
    DEF CallStep, Looks, Finishes, SendDirect, BeginReserve, LookupMisses, LookupHits,
        Granted, Replayed, Refused, LookupFails, GrantLost, ProviderReturns, EntersProvider,
        ProviderPanics, FinalizeRecords, FinalizeReleases, FinalizeIsSuperseded, Abandons,
        SetsResult, SetsNil, CleanupFails, Cancel, AsksAgain, Store!ReserveGrant,
        Store!ReserveReplay, Store!ReserveInFlight, Store!FinalizeRecord,
        Store!FinalizeRelease, Store!FinalizeSuperseded, Store!Abandon, Store!SetRecord,
        Store!SetNil, Store!Put
  <2> QED BY <2>1
<1>2. /\ entries[K(c)] # Nil
      /\ entries[K(c)].expiresAt \in Int /\ now < entries[K(c)].expiresAt
      /\ entries[K(c)].token # d
      /\ entries[K(c)].token = c \/ entries[K(c)].result # Nil
  BY <1>0, <1>1, EntryFields DEF SentBlocks
<1>3. CASE Granted(d) \/ GrantLost(d)
  <2>1. K(d) = K(c)
    BY <1>1, <1>3 DEF Granted, GrantLost, TypeInv, OnItsPath
  <2>2. Store!Unexpired(K(d), at[d])
    BY <1>0, <1>2, <2>1 DEF Store!Unexpired
  <2> QED BY <1>3, <2>2 DEF Granted, GrantLost, Store!ReserveGrant
<1>4. CASE FinalizeRecords(d) \/ FinalizeReleases(d)
  <2>1. K(d) = K(c)
    BY <1>1, <1>4 DEF FinalizeRecords, FinalizeReleases, TypeInv, OnItsPath
  <2> QED
    BY <1>2, <1>4, <2>1
    DEF FinalizeRecords, FinalizeReleases, Store!FinalizeRecord, Store!FinalizeRelease,
        Store!Superseded
<1>5. CASE Abandons(d)
  BY <1>0, <1>2, <1>5 DEF Abandons, Store!Abandon, Store!Abandons
<1>6. CASE SetsResult(d) \/ SetsNil(d)
  BY <1>0, <1>6 DEF SetsResult, SetsNil, TypeInv, OnItsPath
<1>7. CASE \/ SendDirect(d) \/ BeginReserve(d) \/ LookupMisses(d) \/ LookupHits(d)
           \/ Replayed(d) \/ Refused(d) \/ LookupFails(d)
           \/ ProviderReturns(d) \/ EntersProvider(d) \/ ProviderPanics(d)
           \/ FinalizeIsSuperseded(d) \/ CleanupFails(d) \/ Cancel(d) \/ AsksAgain(d)
  BY <1>7
  DEF SendDirect, BeginReserve, LookupMisses, LookupHits, Replayed, Refused, LookupFails,
      ProviderReturns, EntersProvider, ProviderPanics, FinalizeIsSuperseded, CleanupFails,
      Cancel, AsksAgain, Store!ReserveReplay, Store!ReserveInFlight,
      Store!FinalizeSuperseded
<1> QED
  BY <1>3, <1>4, <1>5, <1>6, <1>7 DEF CallStep, Looks, Finishes

LEMMA SentNext ==
  /\ TypeInv /\ AtIsPast /\ LiveClaimIsStored /\ AnswerIsItsOwn /\ SentBlocks
  /\ [Next]_vars
  => SentBlocks'
<1> SUFFICES ASSUME TypeInv, AtIsPast, LiveClaimIsStored, AnswerIsItsOwn, SentBlocks,
                    [Next]_vars, NEW c \in Calls, Sent(c)', now' < at'[c] + TTL
             PROVE  /\ entries'[K(c)'] # Nil
                    /\ at'[c] + TTL <= entries'[K(c)'].expiresAt
                    /\ entries'[K(c)'].result # Nil \/ entries'[K(c)'].token = c
  BY DEF SentBlocks
<1> USE TTLIsInteger DEF store
<1>0. now \in Int /\ at[c] \in Int
  BY ConstantsAssumption DEF TypeInv, TypeOK
<1>1. ASSUME NEW d \in Calls, CallStep(d)
      PROVE  /\ entries'[K(c)'] # Nil
             /\ at'[c] + TTL <= entries'[K(c)'].expiresAt
             /\ entries'[K(c)'].result # Nil \/ entries'[K(c)'].token = c
  <2>1. msg' = msg /\ K(c)' = K(c)
    BY <1>1, ProducedGrows DEF K
  <2>2. CASE d = c
    BY <1>1, <2>1, <2>2, OwnStepBlocks
  <2>3. CASE d # c
    <3>1. now' = now /\ (Delivered(c)' => Delivered(c))
      BY <1>1, <2>1, <2>3, StepKeepsTime, DeliveredByProvider
    <3>2. pc'[c] = pc[c] /\ at'[c] = at[c]
      BY <1>1, <2>3, OthersStay
    <3>3. Sent(c) /\ now < at[c] + TTL
      BY <2>1, <3>1, <3>2 DEF Sent, Holding, Keyed
    <3>4. entries'[K(c)] = entries[K(c)]
      BY <1>1, <2>3, <3>3, OthersDoNotUnblock
    <3> QED BY <2>1, <3>2, <3>3, <3>4 DEF SentBlocks
  <2> QED BY <2>2, <2>3
<1>2. CASE Tick \/ Sweep \/ UNCHANGED vars
  <2>1. /\ UNCHANGED <<msg, at, pc, produced>> /\ K(c)' = K(c)
        /\ now' \in Int /\ now <= now'
    BY <1>0, <1>2 DEF Tick, Sweep, vars, K
  <2>2. Sent(c) /\ now < at[c] + TTL
    BY <1>0, <2>1 DEF Sent, Holding, Keyed, Delivered
  <2>3. K(c) \in CacheKeys
    BY <2>2, KeyOfCall DEF Sent, TypeInv
  <2>4. entries[K(c)] # Nil /\ entries[K(c)].expiresAt \in Int /\ now < entries[K(c)].expiresAt
    BY <1>0, <2>2, <2>3, EntryFields DEF SentBlocks
  <2>5. entries'[K(c)] = entries[K(c)]
    BY <1>0, <1>2, <2>3, <2>4 DEF Tick, Sweep, vars, Store!removeExpired
  <2> QED BY <2>1, <2>2, <2>5 DEF SentBlocks
<1> QED
  BY <1>1, <1>2, NextCases

\* From the moment a call claims its key, no other call with that key is let
\* through for a TTL, unless the send of the first failed without a result; and
\* one let through before reaches the provider only after its own claim ran out:
\* on reliable and unreliable stores, across panics, cancellation and sweeping.
THEOREM OneSendPerTTLAlways == Spec => OneSendPerTTL
<1> DEFINE Inv == TypeInv /\ AtIsPast /\ LiveClaimIsStored /\ AnswerIsItsOwn /\ SentBlocks
<1>1. Init => Inv
  <2>1. Init => AtIsPast /\ LiveClaimIsStored
    BY ConstantsAssumption DEF Init, AtIsPast, LiveClaimIsStored, Live, Holding
  <2>2. Init => \A c \in Calls : produced[msg[c]] = {}
    BY DEF Init
  <2>3. Init => AnswerIsItsOwn /\ SentBlocks
    BY <2>2 DEF Init, AnswerIsItsOwn, SentBlocks, Sent, Holding, Delivered
  <2> QED BY <2>1, <2>3, TypeInit
<1>2. Inv /\ [Next]_vars => Inv'
  BY TypeNext, PastNext, LiveNext, AnswerNext, SentNext
<1> DEFINE OnePerTTL ==
      \A c, d \in Calls : (c # d /\ K(c) = K(d) /\ Sent(c)) =>
        /\ LetThrough(d) => now >= at[c] + TTL
        /\ Reaches(d) => now >= at[c] + TTL \/ now >= at[d] + TTL
<1>3. Inv /\ [Next]_vars => OnePerTTL
  <2> SUFFICES ASSUME Inv, [Next]_vars, NEW c \in Calls, NEW d \in Calls,
                      c # d, K(c) = K(d), Sent(c), ~(now >= at[c] + TTL)
               PROVE  /\ ~LetThrough(d)
                      /\ Reaches(d) => now >= at[d] + TTL
    OBVIOUS
  <2>0. /\ now \in Int /\ TTL \in Int /\ (\A x \in Calls : at[x] \in Int /\ at[x] <= now)
        /\ now < at[c] + TTL
    BY TTLIsInteger, ConstantsAssumption DEF TypeInv, TypeOK, AtIsPast
  <2>1. Keyed(d) /\ CanReserve /\ K(c) \in CacheKeys
    BY KeyOfCall, SameKeySameMessage DEF Sent, Keyed, TypeInv
  <2>2. /\ entries[K(c)] # Nil /\ entries[K(c)].expiresAt \in Int /\ now < entries[K(c)].expiresAt
        /\ entries[K(c)].result # Nil \/ entries[K(c)].token = c
    BY <2>0, <2>1, EntryFields DEF SentBlocks
  <2>3. Store!Unexpired(K(d), at[d])
    BY <2>0, <2>2 DEF Store!Unexpired
  <2>a. ~LetThrough(d)
    <3> SUFFICES ASSUME pc[d] # "passed", pc'[d] = "passed" PROVE FALSE
      BY DEF LetThrough
    <3>4. PICK e \in Calls : CallStep(e)
      BY NextCases DEF Tick, Sweep, vars
    <3> USE DEF Goto, TypeInv, TypeOK
    <3>5. CASE SendDirect(e) \/ BeginReserve(e) \/ LookupMisses(e) \/ LookupHits(e)
               \/ Cancel(e) \/ AsksAgain(e)
      BY <2>1, <3>5 DEF SendDirect, BeginReserve, LookupMisses, LookupHits, Cancel, AsksAgain
    <3>6. CASE Looks(e)
      BY <2>3, <3>6
      DEF Looks, Granted, Replayed, Refused, LookupFails, GrantLost, Store!ReserveGrant
    <3>7. CASE EntersProvider(e) \/ ProviderReturns(e) \/ ProviderPanics(e)
      BY <3>7 DEF EntersProvider, ProviderReturns, ProviderPanics, AfterSend
    <3>8. CASE Finishes(e)
      BY <3>8
      DEF Finishes, FinalizeRecords, FinalizeReleases, FinalizeIsSuperseded, Abandons,
          SetsResult, SetsNil, CleanupFails
    <3> QED BY <3>4, <3>5, <3>6, <3>7, <3>8 DEF CallStep
  <2>b. ASSUME Reaches(d), ~(now >= at[d] + TTL) PROVE FALSE
    <3>1. Live(d)
      BY <2>0, <2>1, <2>b DEF Reaches, Live, Holding
    <3>2. entries[K(c)] = Store!Claim(d, at[d] + TTL)
      BY <3>1 DEF LiveClaimIsStored
    <3> QED BY <2>2, <3>2 DEF Store!Claim
  <2> QED BY <2>a, <2>b
<1> QED
  BY <1>1, <1>2, <1>3, PTL DEF Spec, OneSendPerTTL

-----------------------------------------------------------------------------
(* Retry loops.                                                            *)

LEMMA StepOfNext == [RetryNext]_retryVars => [Next]_vars
BY DEF RetryNext, retryVars

\* Loops only leave out behaviours of IdempotentSend: whatever is proved of
\* concurrent calls is true of the attempts of any number of loops.
THEOREM LoopsAreCalls == RetrySpec => Spec
<1>1. RetryInit => Init
  BY DEF RetryInit
<1> QED
  BY <1>1, StepOfNext, PTL DEF RetrySpec, Spec

\* At most one attempt of all loops and callers with one key sends at a time.
COROLLARY OneLiveAttempt == RetrySpec => []OneLiveSender
BY LoopsAreCalls, OneLiveSenderAlways, PTL

\* While an outcome of its key stands, no attempt of any loop is let through.
COROLLARY SettledKeyIsNotRetried == RetrySpec => SettledKeyLetsNoneThrough
BY LoopsAreCalls, SettledKeyLetsNoneThroughAlways, PTL

-----------------------------------------------------------------------------
(* The attempts of a loop are made one after the other.                    *)

\* Nothing about the loops and messages changes, and only a call outside of
\* loops starts over.
LEMMA Frame ==
  ASSUME TypeInv, [RetryNext]_retryVars
  PROVE  /\ UNCHANGED <<msg, loop, number>>
         /\ \A c \in Calls : /\ Begins(c) => MayBegin(c)
                             /\ pc[c] = "done" /\ InLoop(c) => pc'[c] = "done"
<1> USE DEF Begins, TypeInv, TypeOK, Goto
<1>1. CASE UNCHANGED retryVars
  BY <1>1 DEF retryVars, vars, loops
<1>2. CASE RetryNext
  <2>1. /\ Next /\ UNCHANGED <<loop, number>>
        /\ \A c \in Calls : Begins(c) => MayBegin(c)
        /\ \A c \in Calls : InLoop(c) => ~AsksAgain(c)
    BY <1>2 DEF RetryNext, loops
  <2>2. ASSUME NEW d \in Calls, CallStep(d)
        PROVE  msg' = msg /\ \A c \in Calls : pc[c] = "done" => pc'[c] = "done" \/ AsksAgain(c)
    <3>1. CASE SendDirect(d) \/ BeginReserve(d) \/ LookupMisses(d) \/ LookupHits(d) \/ Cancel(d)
      BY <3>1 DEF SendDirect, BeginReserve, LookupMisses, LookupHits, Cancel
    <3>2. CASE Looks(d)
      BY <3>2 DEF Looks, Granted, Replayed, Refused, LookupFails, GrantLost
    <3>3. CASE ProviderReturns(d) \/ EntersProvider(d) \/ ProviderPanics(d)
      BY <3>3 DEF ProviderReturns, EntersProvider, ProviderPanics
    <3>4. CASE Finishes(d)
      BY <3>4
      DEF Finishes, FinalizeRecords, FinalizeReleases, FinalizeIsSuperseded, Abandons,
          SetsResult, SetsNil, CleanupFails
    <3>5. CASE AsksAgain(d)
      BY <3>5 DEF AsksAgain
    <3> QED BY <2>2, <3>1, <3>2, <3>3, <3>4, <3>5 DEF CallStep
  <2>3. Tick \/ Sweep => msg' = msg /\ pc' = pc
    BY DEF Tick, Sweep
  <2> QED BY <2>1, <2>2, <2>3, NextCases
<1> QED
  BY <1>1, <1>2

InOrder ==
  \A c, d \in Calls :
    (SameLoop(c, d) /\ number[c] < number[d] /\ pc[d] # "idle") => pc[c] = "done"

LEMMA OrderInit == RetryInit => Loops /\ InOrder
BY DEF RetryInit, Init, InOrder

LEMMA OrderNext ==
  TypeInv /\ Loops /\ InOrder /\ [RetryNext]_retryVars => Loops' /\ InOrder'
<1> SUFFICES ASSUME TypeInv, Loops, InOrder, [RetryNext]_retryVars
             PROVE  Loops' /\ InOrder'
  OBVIOUS
<1>1. Loops'
  BY Frame DEF Loops, SameLoop, Precedes
<1>2. SUFFICES ASSUME NEW c \in Calls, NEW d \in Calls,
                      SameLoop(c, d), number[c] < number[d], pc'[d] # "idle"
               PROVE  pc'[c] = "done"
  BY <1>1, Frame DEF InOrder, SameLoop
<1>3. \A x \in Calls : number[x] \in Int /\ loop[x] \in Calls
  BY RetryAssumption DEF Loops
<1>4. InLoop(c)
  BY <1>2, <1>3 DEF InLoop
<1>5. CASE pc[d] # "idle"
  BY <1>2, <1>4, <1>5, Frame DEF InOrder
<1>6. CASE pc[d] = "idle"
  <2>1. number[d] # 1
    BY <1>2, <1>3, RetryAssumption DEF Loops
  <2>2. PICK p \in Calls : Precedes(p, d)
    BY <2>1, RetryAssumption DEF Loops
  <2>3. pc[p] = "done"
    BY <1>2, <1>6, <2>2, Frame DEF Begins, MayBegin
  <2>4. CASE number[c] = number[p]
    <3>1. c = p
      BY <1>2, <2>2, <2>4 DEF Loops, SameLoop, Precedes
    <3> QED BY <1>4, <2>3, <3>1, Frame
  <2>5. CASE number[c] < number[p]
    BY <1>2, <1>4, <2>2, <2>3, <2>5, Frame DEF InOrder, SameLoop, Precedes
  <2> QED BY <1>2, <1>3, <2>2, <2>4, <2>5 DEF Precedes
<1> QED
  BY <1>5, <1>6

\* A retry is never refused on account of an earlier attempt of its own loop,
\* unless the store lost that attempt's last write.
THEOREM RetryIsNotItsOwnObstacleAlways == RetrySpec => RetryIsNotItsOwnObstacle
<1> DEFINE Inv == TypeInv /\ LostIsOver /\ ClaimHasOwner /\ Loops /\ InOrder
<1>1. RetryInit => Inv
  BY TypeInit, OrderInit DEF RetryInit, Init, LostIsOver, ClaimHasOwner, Store!InitStore
<1>2. Inv /\ [RetryNext]_retryVars => Inv'
  BY StepOfNext, TypeNext, LostNext, OwnerNext, OrderNext
<1> DEFINE NoObstacle ==
      \A c \in Calls : Refused(c) =>
        LET holder == entries[K(c)].token
        IN  SameLoop(holder, c) => Unreliable /\ holder \in lost
<1>3. Inv => NoObstacle
  <2> SUFFICES ASSUME Inv, NEW c \in Calls, Refused(c), SameLoop(entries[K(c)].token, c)
               PROVE  Unreliable /\ entries[K(c)].token \in lost
    OBVIOUS
  <2>1. pc[c] = "locking" /\ Keyed(c)
    BY DEF Refused, Goto, TypeInv, OnItsPath
  <2>2. K(c) \in CacheKeys
    BY <2>1, KeyOfCall DEF TypeInv
  <2>3. entries[K(c)] # Nil /\ entries[K(c)].result = Nil
    BY DEF Refused, Store!ReserveInFlight, Store!Unexpired
  <2>4. PICK d \in Calls : IsClaimOf(K(c), d) /\ (Holding(d) \/ Detached(d))
    BY <2>2, <2>3 DEF ClaimHasOwner
  <2>5. entries[K(c)].token = d
    BY <2>4 DEF IsClaimOf
  <2>6. pc[d] \in {"idle", "done"}
    <3>1. /\ number[c] \in Int /\ number[d] \in Int
          /\ SameLoop(c, d) /\ SameLoop(d, c)
      BY <2>5, RetryAssumption DEF Loops, SameLoop
    <3>2. CASE number[c] < number[d]
      BY <2>1, <3>1, <3>2 DEF InOrder
    <3>3. CASE number[d] < number[c]
      BY <2>1, <3>1, <3>3 DEF InOrder
    <3>4. CASE number[d] = number[c]
      <4>1. d = c
        BY <3>1, <3>4 DEF Loops
      <4> QED BY <2>1, <2>4, <4>1 DEF Holding, Detached, LostIsOver
    <3> QED BY <3>1, <3>2, <3>3, <3>4
  <2> QED BY <2>4, <2>5, <2>6 DEF Holding, Detached
<1> QED
  BY <1>1, <1>2, <1>3, PTL DEF RetrySpec, RetryIsNotItsOwnObstacle

\* An error of the provider in an answer came to the call that has it.
ErrorIsItsOwn ==
  \A c \in Calls : outcome[c].err = "provider" =>
    \E p \in produced[msg[c]] : p.by = c /\ p.result = outcome[c].result

LEMMA ErrorNext == TypeInv /\ ErrorIsItsOwn /\ [Next]_vars => ErrorIsItsOwn'
<1> SUFFICES ASSUME TypeInv, ErrorIsItsOwn, [Next]_vars,
                    NEW c \in Calls, outcome'[c].err = "provider"
             PROVE  \E p \in produced'[msg'[c]] : p.by = c /\ p.result = outcome'[c].result
  BY DEF ErrorIsItsOwn
<1>0. /\ produced \in [Message -> SUBSET Productions]
      /\ msg \in [Calls -> Message] /\ DOMAIN outcome = Calls
  BY DEF TypeInv, TypeOK
<1>1. ASSUME NEW d \in Calls, CallStep(d)
      PROVE  \E p \in produced'[msg'[c]] : p.by = c /\ p.result = outcome'[c].result
  <2>1. CASE ProviderReturns(d)
    <3>1. PICK r \in Results \cup {Nil}, e \in Answered :
            /\ outcome' = [outcome EXCEPT ![d] = Pair(r, e)]
            /\ produced' = [produced EXCEPT ![msg[d]] = @ \cup {Production(d, r, e)}]
            /\ msg' = msg
      BY <2>1 DEF ProviderReturns, Answer
    <3>2. CASE d = c
      <4>1. Production(c, r, e) \in produced'[msg'[c]] /\ outcome'[c] = Pair(r, e)
        BY <1>0, <3>1, <3>2
      <4>2. Production(c, r, e).by = c /\ Production(c, r, e).result = Pair(r, e).result
        BY DEF Production, Pair
      <4> QED BY <4>1, <4>2
    <3>3. CASE d # c
      <4>1. outcome'[c] = outcome[c] /\ produced[msg[c]] \subseteq produced'[msg'[c]]
        BY <1>0, <3>1, <3>3
      <4> QED BY <4>1 DEF ErrorIsItsOwn
    <3> QED BY <3>2, <3>3
  <2>2. CASE ~ProviderReturns(d)
    <3>1. UNCHANGED <<produced, msg>>
      BY <1>1, <2>2
      DEF CallStep, Looks, Finishes, SendDirect, BeginReserve, LookupMisses, LookupHits,
          Granted, Replayed, Refused, LookupFails, GrantLost, EntersProvider,
          ProviderPanics, FinalizeRecords, FinalizeReleases, FinalizeIsSuperseded, Abandons,
          SetsResult, SetsNil, CleanupFails, Cancel, AsksAgain
    <3>2. CASE Replayed(d) \/ Refused(d) \/ LookupFails(d) \/ GrantLost(d) \/ LookupHits(d)
      <4>1. \/ \E r : Answer(d, r, "none")
            \/ \E e \in {"in_flight", "store"} : Answer(d, Nil, e)
        BY <3>2 DEF Replayed, Refused, LookupFails, GrantLost, LookupHits
      <4>2. outcome'[c] = outcome[c]
        BY <1>0, <4>1 DEF Answer, Pair
      <4> QED BY <3>1, <4>2 DEF ErrorIsItsOwn
    <3>3. CASE ~(Replayed(d) \/ Refused(d) \/ LookupFails(d) \/ GrantLost(d) \/ LookupHits(d))
      <4>1. outcome' = outcome
        BY <1>1, <2>2, <3>3
        DEF CallStep, Looks, Finishes, SendDirect, BeginReserve, LookupMisses, Granted,
            EntersProvider, ProviderPanics, FinalizeRecords, FinalizeReleases,
            FinalizeIsSuperseded, Abandons,
            SetsResult, SetsNil, CleanupFails, Cancel, AsksAgain
      <4> QED BY <3>1, <4>1 DEF ErrorIsItsOwn
    <3> QED BY <3>2, <3>3
  <2> QED BY <2>1, <2>2
<1>2. CASE Tick \/ Sweep \/ UNCHANGED vars
  BY <1>2 DEF Tick, Sweep, vars, ErrorIsItsOwn
<1> QED
  BY <1>1, <1>2, NextCases

\* A later attempt that has asked its store, and not heard from the provider,
\* read the clock no earlier than the attempts before it.
LaterAttemptsClaimLater ==
  \A c, d \in Calls :
    (SameLoop(c, d) /\ number[c] < number[d] /\ pc[d] \in {"locking", "passed"})
      => at[c] <= at[d]

LEMMA LaterNext ==
  TypeInv /\ AtIsPast /\ Loops /\ InOrder /\ LaterAttemptsClaimLater /\ [RetryNext]_retryVars
    => LaterAttemptsClaimLater'
<1> SUFFICES ASSUME TypeInv, AtIsPast, Loops, InOrder, LaterAttemptsClaimLater,
                    [RetryNext]_retryVars, NEW c \in Calls, NEW d \in Calls,
                    SameLoop(c, d), number[c] < number[d], pc'[d] \in {"locking", "passed"}
             PROVE  at'[c] <= at'[d]
  BY Frame DEF LaterAttemptsClaimLater, SameLoop
<1>0. /\ now \in Int /\ at[c] \in Int /\ at[c] <= now /\ number[c] \in Int
      /\ DOMAIN pc = Calls /\ DOMAIN at = Calls
  BY ConstantsAssumption, RetryAssumption DEF TypeInv, TypeOK, AtIsPast, Loops
<1>1. ASSUME NEW e \in Calls, CallStep(e) PROVE at'[c] <= at'[d]
  <2>1. CASE pc[d] \in {"locking", "passed"}
    <3>1. pc[c] = "done" /\ at[c] <= at[d]
      BY <2>1 DEF InOrder, LaterAttemptsClaimLater
    <3>2. at'[c] = at[c]
      BY <1>1, <3>1, ReadingIsFresh
    <3>3. at'[d] = at[d]
      BY <1>1, <2>1, ReadingIsFresh
    <3> QED BY <3>1, <3>2, <3>3
  <2>2. CASE pc[d] \notin {"locking", "passed"}
    <3>1. e = d /\ c # d
      BY <1>0, <1>1, <2>2, OthersStay
    <3>2. BeginReserve(d) \/ LookupMisses(d)
      BY <1>0, <1>1, <2>2, <3>1
      DEF CallStep, Looks, Finishes, SendDirect, LookupHits, Granted, Replayed, Refused,
          LookupFails, GrantLost, EntersProvider, ProviderReturns, ProviderPanics, AfterSend,
          FinalizeRecords, FinalizeReleases, FinalizeIsSuperseded, Abandons, SetsResult,
          SetsNil, CleanupFails, Cancel, AsksAgain, Goto
    <3>3. at'[d] = now /\ at'[c] = at[c]
      BY <1>0, <3>1, <3>2 DEF BeginReserve, LookupMisses
    <3> QED BY <1>0, <3>3
  <2> QED BY <2>1, <2>2
<1>2. CASE Tick \/ Sweep \/ UNCHANGED vars
  BY <1>2 DEF LaterAttemptsClaimLater, Tick, Sweep, vars
<1> QED
  BY <1>1, <1>2, NextCases, StepOfNext

\* For a TTL a failure that came with a result keeps the retries it provokes
\* from the provider: they carry its message, and it was a send.  A retry whose
\* own claim ran out on the way comes even later, because it claimed later.
COROLLARY FailureIsNotResentAlways == RetrySpec => FailureIsNotResent
<1> DEFINE Inv == /\ TypeInv /\ AtIsPast /\ ErrorIsItsOwn
                  /\ Loops /\ InOrder /\ LaterAttemptsClaimLater
           OnePerTTL ==
             \A c, d \in Calls : (c # d /\ K(c) = K(d) /\ Sent(c)) =>
               /\ LetThrough(d) => now >= at[c] + TTL
               /\ Reaches(d) => now >= at[c] + TTL \/ now >= at[d] + TTL
           NotResent ==
             \A c, d \in Calls :
               (/\ SameLoop(c, d) /\ number[c] < number[d]
                /\ FailedWithResult(c) /\ Reaches(d)) => now >= at[c] + TTL
<1>1. RetryInit => Inv
  BY TypeInit, OrderInit, ConstantsAssumption
  DEF RetryInit, Init, ErrorIsItsOwn, Pair, AtIsPast, LaterAttemptsClaimLater
<1>2. Inv /\ [RetryNext]_retryVars => Inv'
  BY StepOfNext, TypeNext, PastNext, ErrorNext, OrderNext, LaterNext
<1>3. RetrySpec => [][OnePerTTL]_vars
  BY LoopsAreCalls, OneSendPerTTLAlways, PTL DEF OneSendPerTTL
<1>4. Inv /\ [OnePerTTL]_vars => NotResent
  <2> SUFFICES ASSUME Inv, [OnePerTTL]_vars, NEW c \in Calls, NEW d \in Calls,
                      SameLoop(c, d), number[c] < number[d], FailedWithResult(c), Reaches(d)
               PROVE  now >= at[c] + TTL
    OBVIOUS
  <2>0. now \in Int /\ TTL \in Int /\ at[c] \in Int /\ at[d] \in Int
    BY TTLIsInteger, ConstantsAssumption DEF TypeInv, TypeOK
  <2>1. OnePerTTL
    BY DEF vars, Reaches
  <2>2. c # d /\ K(c) = K(d)
    BY RetryAssumption DEF Loops, SameLoop, K
  <2>3. Sent(c)
    BY DEF ErrorIsItsOwn, FailedWithResult, Sent, Delivered
  <2>4. at[c] <= at[d]
    BY DEF LaterAttemptsClaimLater, Reaches
  <2>5. now >= at[c] + TTL \/ now >= at[d] + TTL
    BY <2>1, <2>2, <2>3
  <2> QED BY <2>0, <2>4, <2>5
<1> QED
  BY <1>1, <1>2, <1>3, <1>4, PTL DEF RetrySpec, FailureIsNotResent
-----------------------------------------------------------------------------
(* The provider and its store.  Seen through the history variables of      *)
(* StoreUse, IdempotentProvider is one of the clients that StoreClients    *)
(* assumes, so what is proved there of the store holds here.               *)

Clients == INSTANCE StoreClientsProofs
             WITH Keys <- CacheKeys, TTLs <- {TTL}, closed <- FALSE, cleaner <- "running"

LEMMA UseOfNext == UseNext => Next
BY DEF UseNext, Step, Reserves, Operates, Elsewhere, Next, Looks, Finishes

\* The history variables forbid no step: there are values for each.
LEMMA HistoryForbidsNothing ==
  ASSUME Next
  PROVE  \E a, g, o : Step(a, g, o)
<1>1. ASSUME NEW c \in Calls, CallStep(c) PROVE \E a, g, o : Step(a, g, o)
  <2> DEFINE Did(name, answer) == [name |-> name, call |-> c, key |-> K(c), answer |-> answer]
  <2>1. CASE BeginReserve(c)
    BY <2>1 DEF Step, Reserves
  <2>2. CASE Granted(c) \/ GrantLost(c)
    <3>1. Completes(c, "reserve", "granted", Did("reserve", "granted"))
      BY DEF Completes
    <3> QED BY <2>2, <3>1 DEF Step, Reserves
  <2>3. CASE Replayed(c)
    <3>1. Completes(c, "reserve", entries[K(c)].result, Did("reserve", entries[K(c)].result))
      BY DEF Completes
    <3> QED BY <2>3, <3>1 DEF Step, Reserves
  <2>4. CASE Refused(c)
    <3>1. Completes(c, "reserve", "in_flight", Did("reserve", "in_flight"))
      BY DEF Completes
    <3> QED BY <2>4, <3>1 DEF Step, Reserves
  <2>5. CASE \E o : Operates(c, o)
    BY <2>5 DEF Step
  <2>6. CASE Elsewhere(c)
    BY <2>6 DEF Step
  <2>7. ASSUME \/ LookupMisses(c) \/ LookupHits(c)
               \/ FinalizeRecords(c) \/ FinalizeReleases(c) \/ FinalizeIsSuperseded(c)
               \/ Abandons(c) \/ SetsResult(c) \/ SetsNil(c)
        PROVE  \E o : Operates(c, o)
    <3>1. \A name, answer : Completes(c, name, answer, Did(name, answer))
      BY DEF Completes
    <3> HIDE DEF Did
    <3> QED BY <2>7, <3>1 DEF Operates
  <2> QED
    BY <1>1, <2>1, <2>2, <2>3, <2>4, <2>5, <2>6, <2>7
    DEF CallStep, Looks, Finishes, Elsewhere
<1>2. CASE Tick \/ Sweep
  BY <1>2 DEF Step
<1> QED BY <1>1, <1>2, NextCases

THEOREM UseIsSend == UseSpec => Spec
<1>1. InitUse => Init
  BY DEF InitUse
<1>2. [UseNext]_<<vars, use>> => [Next]_vars
  BY UseOfNext
<1> QED BY <1>1, <1>2, PTL DEF UseSpec, Spec

LEMMA UseInit == InitUse => UseInv
<1> SUFFICES ASSUME InitUse PROVE UseInv
  OBVIOUS
<1> USE DEF InitUse, Init
<1>1. granted \subseteq Calls \X CacheKeys
  OBVIOUS
<1>2. asked \in [Calls -> [key: CacheKeys, at: 0..MaxTime] \cup {Nil}]
  OBVIOUS
<1> QED BY <1>1, <1>2 DEF UseInv, Legal, MayAsk, Unclaimed, Holding

LEMMA LegalOthers ==
  ASSUME TypeInv, UseInv, NEW c \in Calls, CallStep(c), NEW d \in Calls \ {c},
         asked'[d] = asked[d],
         \A k : <<d, k>> \in granted' <=> <<d, k>> \in granted
  PROVE  Legal(d)'
<1>1. pc'[d] = pc[d] /\ at'[d] = at[d] /\ outcome'[d] = outcome[d]
  BY OthersStay
<1>2. msg' = msg
  BY MessagesStay
<1>3. Legal(d)
  BY DEF UseInv
<1> QED
  BY <1>1, <1>2, <1>3 DEF Legal, MayAsk, Unclaimed, Holding, K, Keyed

LEMMA UseStep ==
  ASSUME TypeInv, UseInv, UseNext
  PROVE  UseInv'
<1>0. /\ DOMAIN pc = Calls /\ DOMAIN at = Calls /\ DOMAIN outcome = Calls /\ DOMAIN asked = Calls
      /\ at \in [Calls -> 0..MaxTime] /\ now \in 0..MaxTime
  BY DEF TypeInv, TypeOK, UseInv
<1> DEFINE Shapes == /\ granted' \subseteq Calls \X CacheKeys
                     /\ asked' \in [Calls -> [key: CacheKeys, at: 0..MaxTime] \cup {Nil}]
<1>a. ASSUME Shapes, \A c \in Calls : Legal(c)' PROVE UseInv'
  BY <1>a DEF UseInv
<1>b. \A c \in Calls : Legal(c)
  BY DEF UseInv
<1>c. \A c \in Calls : Keyed(c) => K(c) \in CacheKeys
  BY KeyOfCall DEF TypeInv
<1>1. ASSUME NEW c \in Calls, BeginReserve(c), asked' = AskedNow(c), granted' = granted
      PROVE  UseInv'
  <2>1. /\ CallStep(c) /\ msg' = msg /\ Keyed(c)
        /\ pc[c] = "idle" /\ pc'[c] = "locking" /\ at'[c] = now
    BY <1>0, <1>1 DEF CallStep, BeginReserve, Goto
  <2>2. asked'[c] = [key |-> K(c), at |-> at'[c]]
    BY <1>0, <1>1 DEF AskedNow
  <2>3. Shapes
    BY <1>0, <1>1, <1>c, <2>1 DEF AskedNow, UseInv
  <2>4. Legal(c)'
    BY <1>1, <1>b, <2>1, <2>2 DEF Legal, MayAsk, Unclaimed, Holding, K
  <2>5. \A d \in Calls \ {c} : Legal(d)'
    BY <1>0, <1>1, <2>1, LegalOthers DEF AskedNow
  <2> QED BY <1>a, <2>3, <2>4, <2>5
<1>2. ASSUME NEW c \in Calls, Granted(c) \/ GrantLost(c), asked' = AskedNoMore(c),
             granted' = granted \cup {<<c, K(c)>>}
      PROVE  UseInv'
  <2>1. CallStep(c) /\ msg' = msg /\ pc[c] = "locking"
    BY <1>2 DEF CallStep, Looks, Granted, GrantLost, Goto
  <2>2. pc'[c] = "passed" \/ (pc'[c] = "done" /\ outcome'[c].err = "store")
    BY <1>0, <1>2 DEF Granted, GrantLost, Goto, Answer, Pair
  <2>3. Keyed(c)
    BY <2>1 DEF TypeInv, OnItsPath
  <2>4. Shapes
    BY <1>0, <1>2, <1>c, <2>3 DEF AskedNoMore, UseInv
  <2>5. Legal(c)'
    BY <1>2, <2>1, <2>2 DEF Legal, MayAsk, Holding, K
  <2>6. \A d \in Calls \ {c} : Legal(d)'
    BY <1>0, <1>2, <2>1, LegalOthers DEF AskedNoMore
  <2> QED BY <1>a, <2>4, <2>5, <2>6
<1>3. ASSUME NEW c \in Calls, Replayed(c) \/ Refused(c), asked' = AskedNoMore(c), granted' = granted
      PROVE  UseInv'
  <2>1. CallStep(c) /\ msg' = msg /\ pc[c] = "locking" /\ pc'[c] = "done"
    BY <1>0, <1>3 DEF CallStep, Looks, Replayed, Refused, Goto
  <2>2. asked'[c] = Nil
    BY <1>0, <1>3 DEF AskedNoMore
  <2>4. Shapes
    BY <1>0, <1>3 DEF AskedNoMore, UseInv
  <2>5. Legal(c)'
    BY <1>3, <1>b, <2>1, <2>2 DEF Legal, MayAsk, Unclaimed, Holding, K
  <2>6. \A d \in Calls \ {c} : Legal(d)'
    BY <1>0, <1>3, <2>1, LegalOthers DEF AskedNoMore
  <2> QED BY <1>a, <2>4, <2>5, <2>6
<1>4. ASSUME NEW c \in Calls, CallStep(c), asked' = asked, granted' = granted,
             Legal(c)'
      PROVE  UseInv'
  <2>1. Shapes
    BY <1>4 DEF UseInv
  <2>2. \A d \in Calls \ {c} : Legal(d)'
    BY <1>4, LegalOthers
  <2> QED BY <1>4, <1>a, <2>1, <2>2
<1>5. ASSUME NEW c \in Calls, Operates(c, op'), asked' = asked, granted' = granted PROVE UseInv'
  <2>1. CallStep(c) /\ msg' = msg
    BY <1>5, MessagesStay DEF Operates, CallStep, Finishes
  <2>2. CASE LookupMisses(c) \/ LookupHits(c)
    <3>1. /\ pc'[c] = "passed" \/ (pc'[c] = "done" /\ outcome'[c].err = "none")
          /\ ~CanReserve
      BY <1>0, <2>2 DEF LookupMisses, LookupHits, Goto, Answer, Pair
    <3>2. Legal(c)'
      BY <3>1 DEF Legal, MayAsk, Holding
    <3> QED BY <1>4, <1>5, <2>1, <3>2
  <2>3. CASE ~(LookupMisses(c) \/ LookupHits(c))
    <3>1. /\ pc[c] \in {"finalizing", "abandoning", "setting"}
          /\ pc'[c] = "done" /\ outcome' = outcome
      BY <1>0, <1>5, <2>3
      DEF Operates, FinalizeRecords, FinalizeReleases, FinalizeIsSuperseded, Abandons,
          SetsResult, SetsNil, Goto
    <3>2. Legal(c)'
      BY <1>b, <3>1 DEF Legal, MayAsk, Holding
    <3> QED BY <1>4, <1>5, <2>1, <3>2
  <2> QED BY <2>2, <2>3
<1>6. ASSUME NEW c \in Calls, Elsewhere(c), asked' = asked, granted' = granted PROVE UseInv'
  <2>1. CallStep(c) /\ msg' = msg
    BY <1>6, MessagesStay DEF Elsewhere, CallStep, Looks, Finishes
  <2>2. Legal(c)
    BY <1>b
  <2>3. Legal(c)'
    <3>1. CASE SendDirect(c)
      <4>1. pc'[c] = "sending" /\ ~Keyed(c) /\ ~Keyed(c)'
        BY <1>0, <2>1, <3>1 DEF SendDirect, Goto, Keyed
      <4> QED BY <4>1 DEF Legal, MayAsk, Holding
    <3>2. CASE LookupFails(c) \/ ProviderPanics(c)
      <4>1. pc'[c] = "crashed" \/ (pc'[c] = "done" /\ outcome'[c].err = "store")
        BY <1>0, <3>2 DEF LookupFails, ProviderPanics, Goto, Answer, Pair
      <4> QED BY <4>1 DEF Legal, MayAsk, Holding
    <3>3. CASE ProviderReturns(c)
      <4>1. PICK r \in Results \cup {Nil}, e \in Answered :
              Goto(c, "sending", AfterSend(c, r, e)) /\ Answer(c, r, e)
        BY <3>3 DEF ProviderReturns
      <4>2. outcome'[c].err \in Answered /\ outcome'[c].err # "in_flight"
        BY <1>0, <4>1 DEF Answer, Pair, Answered
      <4>3. pc[c] = "sending" /\ pc'[c] = AfterSend(c, r, e)
        BY <1>0, <4>1 DEF Goto
      <4>4. pc'[c] \in {"done", "finalizing", "abandoning", "setting"}
        BY <4>3 DEF AfterSend
      <4>5. Holding(c)' => Holding(c)
        BY <2>1, <4>3 DEF Holding, Keyed
      <4> QED BY <1>6, <2>1, <2>2, <4>2, <4>4, <4>5 DEF Legal, MayAsk, K
    <3>4. CASE CleanupFails(c)
      <4>1. /\ pc'[c] = "done" /\ outcome' = outcome
            /\ pc[c] \in {"finalizing", "abandoning", "setting"}
        BY <1>0, <3>4 DEF CleanupFails
      <4> QED BY <2>2, <4>1 DEF Legal, MayAsk, Holding
    <3>5. CASE Cancel(c)
      <4>1. pc' = pc /\ outcome' = outcome /\ at' = at
        BY <3>5 DEF Cancel
      <4> QED BY <1>6, <2>1, <2>2, <4>1 DEF Legal, MayAsk, Unclaimed, Holding, K, Keyed
    <3>6. CASE AsksAgain(c)
      <4>1. pc'[c] = "idle" /\ MayAsk(c)
        BY <1>0, <3>6 DEF AsksAgain, Goto, MayAsk
      <4> QED BY <1>6, <2>2, <4>1 DEF Legal, Holding, Unclaimed
    <3>7. CASE EntersProvider(c)
      <4>1. pc[c] = "passed" /\ pc'[c] = "sending"
        BY <1>0, <3>7 DEF EntersProvider, Goto
      <4>2. Holding(c)' => Holding(c)
        BY <2>1, <4>1 DEF Holding, Keyed
      <4> QED BY <1>6, <2>1, <2>2, <4>1, <4>2 DEF Legal, MayAsk, K
    <3> QED BY <1>6, <3>1, <3>2, <3>3, <3>4, <3>5, <3>6, <3>7 DEF Elsewhere
  <2> QED BY <1>4, <1>6, <2>1, <2>3
<1>7. ASSUME Tick \/ Sweep, asked' = asked, granted' = granted PROVE UseInv'
  <2>1. /\ pc' = pc /\ at' = at /\ outcome' = outcome /\ msg' = msg
    BY <1>7 DEF Tick, Sweep
  <2>2. \A c \in Calls : Legal(c)'
    BY <1>7, <1>b, <2>1 DEF Legal, MayAsk, Unclaimed, Holding, K, Keyed
  <2> QED BY <1>7, <1>a, <2>2 DEF UseInv
<1> QED
  BY <1>1, <1>2, <1>3, <1>5, <1>6, <1>7 DEF UseNext, Step, Reserves

LEMMA UseNextKeeps == TypeInv /\ UseInv /\ [UseNext]_<<vars, use>> => UseInv'
<1> SUFFICES ASSUME TypeInv, UseInv, UNCHANGED <<vars, use>> PROVE UseInv'
  BY UseStep
<1> QED
  BY DEF UseInv, Legal, MayAsk, Unclaimed, Holding, K, Keyed, vars, use

-----------------------------------------------------------------------------
(* Each step is one of the client's.                                       *)

LEMMA ReserveIsClients ==
  ASSUME TypeInv, UseInv, NEW c \in Calls, Reserves(c, asked', granted', op')
  PROVE  Clients!Step(c, K(c))
<1> USE DEF Clients!Ends, Clients!Stored, store
<1>0. /\ asked \in [Calls -> [key: CacheKeys, at: 0..MaxTime] \cup {Nil}]
      /\ DOMAIN pc = Calls /\ at \in [Calls -> 0..MaxTime] /\ now' = now
  BY
  DEF UseInv, TypeInv, TypeOK, Reserves, BeginReserve, Granted, GrantLost, Replayed, Refused
<1>1. CASE BeginReserve(c) /\ asked' = AskedNow(c) /\ granted' = granted /\ op' = op
  <2>1. pc[c] = "idle" /\ at'[c] = now
    BY <1>0, <1>1 DEF BeginReserve, Goto
  <2>2. asked[c] = Nil /\ Unclaimed(c)
    BY <2>1 DEF UseInv, Legal, MayAsk
  <2>3. Clients!Ask(c, K(c))
    BY <1>1, <2>1, <2>2 DEF Clients!Ask, BeginReserve, AskedNow, Unclaimed
  <2> QED BY <2>3 DEF Clients!Step
<1>2. ASSUME pc[c] = "locking"
      PROVE  asked[c] # Nil /\ asked[c].key = K(c) /\ asked[c].at = at[c]
  <2>1. asked[c] = [key |-> K(c), at |-> at[c]]
    BY <1>2 DEF UseInv, Legal
  <2>2. K(c) \in CacheKeys /\ at[c] \in Int
    BY <1>0, <1>2, KeyOfCall DEF TypeInv, OnItsPath
  <2> QED BY <2>1, <2>2, NilAssumption
<1>3. ASSUME Granted(c) \/ GrantLost(c), asked' = AskedNoMore(c),
             granted' = granted \cup {<<c, K(c)>>}, Completes(c, "reserve", "granted", op')
      PROVE  Clients!Step(c, K(c))
  <2>1. pc[c] = "locking" /\ Store!ReserveGrant(K(c), c, at[c], TTL)
    BY <1>3 DEF Granted, GrantLost, Goto
  <2>2. Clients!ReserveGrant(K(c), c, asked[c].at, TTL)
    BY <1>2, <2>1
    DEF Clients!ReserveGrant, Clients!Unexpired, Clients!Put, Clients!Claim,
        Clients!newClaimToken, Store!ReserveGrant, Store!Unexpired, Store!Put, Store!Claim,
        Store!newClaimToken
  <2>3. Clients!Grant(c, K(c), TTL)
    BY <1>0, <1>2, <1>3, <2>1, <2>2 DEF Clients!Grant, AskedNoMore, Completes
  <2> QED BY <2>3 DEF Clients!Step
<1>4. ASSUME Replayed(c), asked' = AskedNoMore(c), granted' = granted,
             Completes(c, "reserve", entries[K(c)].result, op')
      PROVE  Clients!Step(c, K(c))
  <2>1. PICK r \in Results : pc[c] = "locking" /\ Store!ReserveReplay(K(c), at[c], r)
    BY <1>4 DEF Replayed, Goto
  <2>2. Clients!ReserveReplay(K(c), asked[c].at, r) /\ r = entries[K(c)].result
    BY <1>2, <2>1
    DEF Clients!ReserveReplay, Clients!Unexpired, Store!ReserveReplay, Store!Unexpired
  <2>3. Clients!Replay(c, K(c))
    BY <1>0, <1>2, <1>4, <2>1, <2>2 DEF Clients!Replay, AskedNoMore, Completes
  <2> QED BY <2>3 DEF Clients!Step
<1>5. ASSUME Refused(c), asked' = AskedNoMore(c), granted' = granted,
             Completes(c, "reserve", "in_flight", op')
      PROVE  Clients!Step(c, K(c))
  <2>1. pc[c] = "locking" /\ Store!ReserveInFlight(K(c), at[c])
    BY <1>5 DEF Refused, Goto
  <2>2. Clients!ReserveInFlight(K(c), asked[c].at)
    BY <1>2, <2>1
    DEF Clients!ReserveInFlight, Clients!Unexpired, Store!ReserveInFlight, Store!Unexpired
  <2>3. Clients!Refuse(c, K(c))
    BY <1>0, <1>2, <1>5, <2>1, <2>2 DEF Clients!Refuse, AskedNoMore, Completes
  <2> QED BY <2>3 DEF Clients!Step
<1> QED
  BY <1>1, <1>3, <1>4, <1>5 DEF Reserves

LEMMA OperationIsClients ==
  ASSUME TypeInv, UseInv, NEW c \in Calls, Operates(c, op'), asked' = asked, granted' = granted
  PROVE  Clients!Step(c, K(c))
<1> USE DEF Clients!Ends, Completes, store
<1>0. now' = now
  BY DEF Operates, LookupMisses, LookupHits, FinalizeRecords, FinalizeReleases,
         FinalizeIsSuperseded, Abandons, SetsResult, SetsNil
<1>1. pc[c] \in {"finalizing", "abandoning"} => Clients!HasToken(c, K(c))
  BY DEF UseInv, Legal, Holding, TypeInv, OnItsPath, Clients!HasToken
<1>2. outcome[c].result \in Results \cup {Nil}
  BY DEF TypeInv, TypeOK, Outcomes
<1>3. CASE LookupMisses(c) /\ Completes(c, "get", "missing", op')
  <2>1. Clients!Miss(c, K(c))
    BY <1>3 DEF LookupMisses, Clients!Miss, Clients!GetFinds, Store!GetFinds
  <2> QED BY <2>1 DEF Clients!Step
<1>4. CASE LookupHits(c) /\ Completes(c, "get", entries[K(c)].result, op')
  <2>1. Clients!Find(c, K(c))
    BY <1>4 DEF LookupHits, Clients!Find, Clients!GetFinds, Store!GetFinds
  <2> QED BY <2>1 DEF Clients!Step
<1>5. CASE FinalizeRecords(c) /\ Completes(c, "finalize", "ok", op')
  <2>1. Clients!FinalizeRecord(K(c), Clients!newClaimToken(c), outcome[c].result, TTL)
    BY <1>5
    DEF FinalizeRecords, Clients!FinalizeRecord, Clients!Superseded, Clients!Put,
        Clients!Outcome, Clients!newClaimToken, Store!FinalizeRecord, Store!Superseded,
        Store!Put, Store!Outcome
  <2>2. Clients!Settle(c, K(c), TTL)
    BY <1>0, <1>1, <1>2, <1>5, <2>1 DEF Clients!Settle, FinalizeRecords, Goto
  <2> QED BY <2>2 DEF Clients!Step
<1>6. CASE FinalizeReleases(c) /\ Completes(c, "finalize", "ok", op')
  <2>1. Clients!SettleNothing(c, K(c))
    BY <1>1, <1>6
    DEF FinalizeReleases, Goto, Clients!SettleNothing, Clients!FinalizeRelease,
        Clients!Superseded, Clients!Put, Clients!newClaimToken, Store!FinalizeRelease,
        Store!Superseded, Store!Put
  <2> QED BY <2>1 DEF Clients!Step
<1>7. CASE FinalizeIsSuperseded(c) /\ Completes(c, "finalize", "superseded", op')
  <2>1. Clients!SettleTooLate(c, K(c))
    BY <1>1, <1>7
    DEF FinalizeIsSuperseded, Goto, Clients!SettleTooLate, Clients!FinalizeSuperseded,
        Clients!Superseded, Clients!newClaimToken, Store!FinalizeSuperseded, Store!Superseded
  <2> QED BY <2>1 DEF Clients!Step
<1>8. CASE Abandons(c) /\ Completes(c, "abandon", "ok", op')
  <2>1. Clients!GiveUp(c, K(c))
    BY <1>1, <1>8
    DEF Abandons, Goto, Clients!GiveUp, Clients!Abandon, Clients!Abandons,
        Clients!newClaimToken, Store!Abandon, Store!Abandons
  <2> QED BY <2>1 DEF Clients!Step
<1>9. CASE SetsResult(c) /\ Completes(c, "set", "ok", op')
  <2>1. Clients!SetRecord(K(c), outcome[c].result, TTL)
    BY <1>9 DEF SetsResult, Clients!SetRecord, Clients!Put, Clients!Outcome, Store!SetRecord,
                Store!Put, Store!Outcome
  <2>2. Clients!Overwrite(c, K(c), TTL)
    BY <1>0, <1>2, <1>9, <2>1 DEF Clients!Overwrite, SetsResult
  <2> QED BY <2>2 DEF Clients!Step
<1>10. CASE SetsNil(c) /\ Completes(c, "set_nil", "ok", op')
  <2>1. Clients!Clear(c, K(c))
    BY <1>10 DEF SetsNil, Clients!Clear, Clients!SetNil, Store!SetNil
  <2> QED BY <2>1 DEF Clients!Step
<1> QED
  BY <1>3, <1>4, <1>5, <1>6, <1>7, <1>8, <1>9, <1>10 DEF Operates

\* Only calls with a key have to do with the store.
LEMMA KeyedOperates ==
  ASSUME TypeInv, NEW c \in Calls, NEW a, NEW g, NEW o,
         Reserves(c, a, g, o) \/ Operates(c, o)
  PROVE  K(c) \in CacheKeys
<1>1. Keyed(c)
  BY DEF TypeInv, OnItsPath, Reserves, Operates, BeginReserve, Granted, GrantLost, Replayed,
         Refused, LookupMisses, LookupHits, FinalizeRecords, FinalizeReleases,
         FinalizeIsSuperseded, Abandons, SetsResult, SetsNil, Goto
<1> QED BY <1>1, KeyOfCall DEF TypeInv

LEMMA UseStepIsClients ==
  ASSUME TypeInv, UseInv, UseNext
  PROVE  Clients!Next \/ UNCHANGED Clients!vars
<1>1. ASSUME NEW c \in Calls, Reserves(c, asked', granted', op') PROVE Clients!Next
  BY <1>1, ReserveIsClients, KeyedOperates DEF Clients!Next
<1>2. ASSUME NEW c \in Calls, Operates(c, op'), asked' = asked, granted' = granted
      PROVE  Clients!Next
  BY <1>2, OperationIsClients, KeyedOperates DEF Clients!Next
<1>3. ASSUME NEW c \in Calls, Elsewhere(c), UNCHANGED use PROVE UNCHANGED Clients!vars
  BY <1>3
  DEF Elsewhere, SendDirect, LookupFails, ProviderReturns, EntersProvider, ProviderPanics,
      CleanupFails, Cancel, AsksAgain, store, use, Clients!vars
<1>4. CASE Tick /\ UNCHANGED use
  BY <1>4 DEF Tick, use, Clients!Next, Clients!Tick
<1>5. CASE Sweep /\ UNCHANGED use
  <2>1. Clients!Sweep
    BY <1>5 DEF Sweep, use, Clients!Sweep, Clients!removeExpired, Store!removeExpired
  <2> QED BY <2>1 DEF Clients!Next
<1> QED
  BY <1>1, <1>2, <1>3, <1>4, <1>5 DEF UseNext, Step, use

\* IdempotentProvider uses its store as StoreClients assumes: it reserves once
\* with a token, and finalizes or abandons only what it was granted, also when
\* it is late, refused or cancelled, and when replies and writes are lost.
THEOREM ProviderIsAClient == UseSpec => Clients!Spec
<1>1. InitUse => TypeInv /\ UseInv /\ Clients!Init
  BY TypeInit, UseInit DEF InitUse, Init, Clients!Init, Clients!InitStore, Store!InitStore
<1>2. TypeInv /\ UseInv /\ [UseNext]_<<vars, use>> => (TypeInv /\ UseInv)'
  <2>1. [UseNext]_<<vars, use>> => [Next]_vars
    BY UseOfNext
  <2> QED BY <2>1, TypeNext, UseNextKeeps
<1>3. TypeInv /\ UseInv /\ [UseNext]_<<vars, use>> => [Clients!Next]_Clients!vars
  <2>1. UNCHANGED <<vars, use>> => UNCHANGED Clients!vars
    BY DEF vars, use, store, Clients!vars
  <2> QED BY <2>1, UseStepIsClients
<1> QED
  BY <1>1, <1>2, <1>3, PTL DEF UseSpec, Clients!Spec

\* So every operation of its store answers it as ClaimRegister promises.
COROLLARY ProviderUsesRegister == UseSpec => Clients!ImplementsRegister
<1>1. {TTL} \subseteq Int /\ MaxTime \in Nat
  BY TTLIsInteger, ConstantsAssumption
<1>2. /\ Nil \notin Calls /\ Nil \notin Results /\ Nil \notin Clients!Entry
      /\ Nil \notin [key: CacheKeys, at: Int]
  BY ConstantsAssumption, NilAssumption
  DEF Clients!Entry, Clients!Tokens, Clients!newClaimToken, Store!Entry, Store!Tokens,
      Store!newClaimToken
<1>3. Clients!Spec => Clients!ImplementsRegister
  BY <1>1, <1>2, Clients!Refinement
<1> QED
  BY <1>3, ProviderIsAClient, PTL
=============================================================================
