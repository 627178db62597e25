------------------------ MODULE RegistryCallsProofs ------------------------
(***************************************************************************)
(* Proofs about RegistryCalls, for any number of calls, channels,          *)
(* providers and factories.                                                *)
(***************************************************************************)
EXTENDS RegistryCalls, TLAPS

\* What a call does, apart from what it makes of the two maps.
Step(c) == \/ Begin(c) \/ Validated(c) \/ CallbackEnds(c) \/ RLock(c) \/ Announce(c) \/ Lock(c)
           \/ Change(c) \/ Look(c) \/ Iterate(c) \/ ListEnds(c)

LEMMA NextCases ==
  ASSUME [NextCall]_callVars
  PROVE  (\E c \in Calls : Step(c)) \/ UNCHANGED callVars
BY DEF NextCall, Proceeds, Step

-----------------------------------------------------------------------------
(* Type correctness.                                                       *)

\* An operation says what it is about.
LEMMA OperationArguments ==
  ASSUME NEW o \in Operations
  PROVE  /\ o.kind = "Register" => o.arg \in Providers
         /\ o.kind \in {"Unregister", "Send"} => o.arg \in Channels
         /\ o.kind \in {"RegisterFactory", "UnregisterFactory", "CreateProvider"} =>
              o.arg \in Names
BY DEF Operations, On

LEMMA ChangedTypes ==
  ASSUME Registered, factories \subseteq Names, NEW o \in Operations, Changed(o)
  PROVE  Registered' /\ factories' \subseteq Names
<1>1. Registered'
  BY OperationArguments, CallsAssumption
  DEF Changed, Registered, Register, Unregister, Clear
<1>2. factories' \subseteq Names
  BY OperationArguments DEF Changed
<1> QED
  BY <1>1, <1>2

LEMMA TypeNext == CallsTypeOK /\ [NextCall]_callVars => CallsTypeOK'
<1> SUFFICES ASSUME CallsTypeOK, [NextCall]_callVars PROVE CallsTypeOK'
  OBVIOUS
<1> USE DEF CallsTypeOK, Moves, Returns
<1>1. ASSUME NEW c \in Calls, Step(c) PROVE CallsTypeOK'
  <2>1. CASE Begin(c)
    BY <2>1 DEF Begin, Registered
  <2>2. CASE Validated(c) \/ RLock(c) \/ Announce(c) \/ Lock(c)
    BY <2>2 DEF Validated, RLock, Announce, Lock, Registered
  <2>3. CASE CallbackEnds(c) \/ ListEnds(c)
    BY <2>3 DEF CallbackEnds, ListEnds, Registered
  <2>4. CASE Change(c)
    <3>1. op[c] \in Operations
      BY <2>4 DEF Change, Changes, None
    <3>2. Registered' /\ factories' \subseteq Names
      BY <2>4, <3>1, ChangedTypes DEF Change
    <3> QED BY <2>4, <3>2 DEF Change
  <2>5. CASE Look(c)
    BY <2>5 DEF Look, Registered
  <2>6. CASE Iterate(c)
    BY <2>6 DEF Iterate, Registered, RegisteredChannels
  <2> QED
    BY <1>1, <2>1, <2>2, <2>3, <2>4, <2>5, <2>6 DEF Step
<1>2. CASE UNCHANGED callVars
  BY <1>2 DEF callVars, Registered
<1> QED
  BY <1>1, <1>2, NextCases

LEMMA TypeInit == InitCalls => CallsTypeOK
BY DEF InitCalls, InitRegistry, CallsTypeOK, Registered

\* The maps, the calls and what they have seen are what the code declares.
THEOREM TypeCorrect == CallsSpec => []CallsTypeOK
BY TypeInit, TypeNext, PTL DEF CallsSpec

-----------------------------------------------------------------------------
(* The lock does its work: a call that changes a map is alone with both.   *)

LEMMA GuardedNext ==
  CallsTypeOK /\ MapsAreGuarded /\ [NextCall]_callVars => MapsAreGuarded'
<1> SUFFICES ASSUME CallsTypeOK, MapsAreGuarded, [NextCall]_callVars,
                    NEW w \in Calls, NEW d \in Calls, w # d,
                    at'[w] = "locked", Changes(w)', Holds(d)'
             PROVE  FALSE
  BY DEF MapsAreGuarded
<1>1. ASSUME NEW c \in Calls, Step(c) PROVE FALSE
  \* Nobody else gets or loses the lock in this step.
  <2>1. \A x \in Calls \ {c} : at'[x] = at[x] /\ op'[x] = op[x]
    BY <1>1
    DEF CallsTypeOK, Step, Begin, Validated, CallbackEnds, RLock, Announce, Lock, Change, Look,
        Iterate, ListEnds, Moves, Returns
  <2>2. CASE c \notin {w, d}
    BY <2>1, <2>2 DEF MapsAreGuarded, Changes, Holds
  <2>3. CASE RLock(c)
    <3>1. at'[c] = "locked" /\ op' = op
      BY <2>3 DEF RLock, Moves, CallsTypeOK
    <3>2. \A x \in Calls : Changes(x) => at[x] # "locked"
      BY <2>3 DEF RLock, Locks, Holds
    <3>3. ~Changes(c)
      BY <2>3 DEF RLock, Locks
    <3> QED BY <2>1, <3>1, <3>2, <3>3 DEF Changes
  <2>4. CASE Lock(c)
    <3>1. \A x \in Calls : at[x] # "locked"
      BY <2>4 DEF Lock, Holds
    <3> QED BY <2>1, <3>1 DEF Holds
  <2>5. CASE Iterate(c)
    BY <2>5 DEF Iterate, MapsAreGuarded, Changes, Holds
  <2>6. CASE ~RLock(c) /\ ~Lock(c) /\ ~Iterate(c) /\ c \in {w, d}
    <3>1. at'[c] # "locked"
      BY <1>1, <2>6
      DEF CallsTypeOK, Step, Begin, Validated, CallbackEnds, Announce, Change, Look, ListEnds,
          Moves, Returns
    <3> QED BY <2>6, <3>1 DEF Holds
  <2> QED
    BY <2>2, <2>3, <2>4, <2>5, <2>6
<1>2. CASE UNCHANGED callVars
  BY <1>2 DEF callVars, MapsAreGuarded, Changes, Holds
<1> QED
  BY <1>1, <1>2, NextCases

\* Whoever changes a map of the registry is alone with both maps, for any
\* number of calls, those that callbacks make included.
THEOREM MapsAreGuardedAlways == CallsSpec => []MapsAreGuarded
<1>1. InitCalls => MapsAreGuarded
  BY DEF InitCalls, MapsAreGuarded
<1> QED
  BY <1>1, TypeInit, TypeNext, GuardedNext, PTL DEF CallsSpec

-----------------------------------------------------------------------------
(* Lists.  What an iteration has come by is still registered, since the    *)
(* reader's lock keeps away whatever would remove it.                      *)

SeenIsRegistered ==
  \A c \in Calls :
    /\ seen[c] \subseteq RegisteredChannels
    /\ seen[c] # {} => at[c] = "locked" /\ op[c].kind = "Channels"

LEMMA SeenNext ==
  CallsTypeOK /\ MapsAreGuarded /\ SeenIsRegistered /\ [NextCall]_callVars => SeenIsRegistered'
<1> SUFFICES ASSUME CallsTypeOK, MapsAreGuarded, SeenIsRegistered, [NextCall]_callVars,
                    NEW d \in Calls
             PROVE  /\ seen'[d] \subseteq RegisteredChannels'
                    /\ seen'[d] # {} => at'[d] = "locked" /\ op'[d].kind = "Channels"
  BY DEF SeenIsRegistered
<1>1. ASSUME NEW c \in Calls, Step(c)
      PROVE  /\ seen'[d] \subseteq RegisteredChannels'
             /\ seen'[d] # {} => at'[d] = "locked" /\ op'[d].kind = "Channels"
  <2>1. CASE Change(c)
    <3>1. CASE c = d
      BY <2>1, <3>1 DEF Change, Returns, CallsTypeOK
    <3>2. CASE c # d
      <4>1. seen'[d] = seen[d]
        BY <2>1, <3>2 DEF Change, Returns, CallsTypeOK
      <4>2. at[d] # "locked"
        BY <2>1, <3>2 DEF Change, MapsAreGuarded, Holds
      <4> QED BY <4>1, <4>2 DEF SeenIsRegistered
    <3> QED BY <3>1, <3>2
  <2>2. CASE Iterate(c)
    BY <2>2 DEF Iterate, SeenIsRegistered, RegisteredChannels, Get, CallsTypeOK
  <2>3. CASE Step(c) /\ ~Change(c) /\ ~Iterate(c)
    <3>1. RegisteredChannels' = RegisteredChannels
      BY <2>3
      DEF Step, Begin, Validated, CallbackEnds, RLock, Announce, Lock, Look, ListEnds,
          RegisteredChannels, Get
    <3>2. CASE c # d
      <4>1. seen'[d] = seen[d] /\ at'[d] = at[d] /\ op'[d] = op[d]
        BY <2>3, <3>2
        DEF CallsTypeOK, Step, Begin, Validated, CallbackEnds, RLock, Announce, Lock, Look,
            ListEnds, Moves, Returns
      <4> QED BY <3>1, <4>1 DEF SeenIsRegistered
    <3>3. CASE c = d
      <4>1. seen'[d] = {}
        BY <2>3, <3>3
        DEF CallsTypeOK, SeenIsRegistered, Step, Begin, Validated, CallbackEnds, RLock, Announce,
            Lock, Look, ListEnds, Moves, Returns
      <4> QED BY <4>1
    <3> QED BY <3>2, <3>3
  <2> QED
    BY <1>1, <2>1, <2>2, <2>3
<1>2. CASE UNCHANGED callVars
  BY <1>2 DEF callVars, SeenIsRegistered, RegisteredChannels, Get
<1> QED
  BY <1>1, <1>2, NextCases

\* Channels and Providers return exactly what is registered when they return,
\* whatever other calls want to do to the registry meanwhile.
THEOREM ListsAreExactAlways == CallsSpec => ListsAreExact
<1> DEFINE Inv == CallsTypeOK /\ MapsAreGuarded /\ SeenIsRegistered
<1>1. InitCalls => Inv
  BY TypeInit DEF InitCalls, MapsAreGuarded, SeenIsRegistered
<1>2. Inv /\ [NextCall]_callVars => Inv'
  BY TypeNext, GuardedNext, SeenNext
<1>3. Inv => \A c \in Calls : ListEnds(c) => seen[c] = RegisteredChannels
  BY DEF ListEnds, SeenIsRegistered
<1>4. Inv /\ [NextCall]_callVars =>
        [\A c \in Calls : ListEnds(c) => seen[c] = RegisteredChannels]_callVars
  BY <1>3
<1> QED
  BY <1>1, <1>2, <1>4, PTL DEF CallsSpec, ListsAreExact
=============================================================================
