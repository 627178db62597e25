--------------------------- MODULE RegistryCalls ---------------------------
(***************************************************************************)
(* Registry (registry.go) at the level of its RWMutex: concurrent calls,   *)
(* each at one operation at a time, and the code of others that the        *)
(* registry runs: Validate before it locks, Channel while it holds the     *)
(* lock, a factory or a provider's Send after it unlocked.  That code may  *)
(* hang, and may call the registry itself; Channel does neither.           *)
(*                                                                         *)
(* The RWMutex is external: a writer waits for the writers before it,      *)
(* announces itself, which keeps new readers out, and waits for the        *)
(* readers that are in.                                                    *)
(***************************************************************************)
EXTENDS Registry

CONSTANTS
  Calls,  \* goroutines, and the calls that the code of others makes
  Names   \* of factories

ASSUME CallsAssumption ==
  /\ Nil \notin Calls
  /\ ChannelOf \in [Providers -> Channels]
  /\ Valid \subseteq Providers

VARIABLES
  factories,  \* the names that have a factory
  at,         \* where a call is
  op,         \* the operation it is at
  caller,     \* the call whose callback made it
  seen        \* the channels its iteration over the map has come by

callVars == <<providers, factories, at, op, caller, seen>>

On(kinds, args) == [kind: kinds, arg: args]
None == [kind |-> "None", arg |-> Nil]

\* Get, Has and HasFactory differ in nothing that others could notice, nor do
\* Channels and Providers; SendGlobal and its like are the operations on a
\* registry of their own.
Operations ==
  On({"Register"}, Providers) \cup On({"Unregister", "Send"}, Channels)
    \cup On({"RegisterFactory", "UnregisterFactory", "CreateProvider"}, Names)
    \cup On({"Clear", "Get", "Channels"}, {Nil})

Changes(c) ==
  op[c].kind \in {"Register", "RegisterFactory", "Unregister", "UnregisterFactory", "Clear"}

\* Mutant: removing something takes the lock of a reader.
LocksToRemoveShared(c) == op[c].kind \in {"Register", "RegisterFactory", "Clear"}

\* Lock, or else RLock.
Locks(c) == Changes(c)

\* Mutant: the lock is released when the factory is through.
HoldsOverFactory(c) ==
  at[c] = "locked" \/ (at[c] = "calling" /\ op[c].kind = "CreateProvider")

\* Factories and providers run after the lock was released.
Holds(c) == at[c] = "locked"

InitCalls ==
  /\ InitRegistry
  /\ factories = {}
  /\ at = [c \in Calls |-> "idle"]
  /\ op = [c \in Calls |-> None]
  /\ caller = [c \in Calls |-> Nil]
  /\ seen = [c \in Calls |-> {}]

Moves(c, from, to) == at[c] = from /\ at' = [at EXCEPT ![c] = to]

\* The code of others that a call is running.
InCallback(c) == at[c] \in {"validating", "calling"}
Nested(c)     == {d \in Calls : caller[d] = c}

-----------------------------------------------------------------------------
Begin(c) ==
  /\ \E o \in Operations, by \in {Nil} \cup {d \in Calls : InCallback(d)} :
       /\ Moves(c, "idle", IF o.kind = "Register" THEN "validating" ELSE "arriving")
       /\ op' = [op EXCEPT ![c] = o]
       /\ caller' = [caller EXCEPT ![c] = by]
  /\ UNCHANGED <<providers, factories, seen>>

\* The call returns to whoever made it.
Returns(c) ==
  /\ at' = [at EXCEPT ![c] = "idle"]
  /\ op' = [op EXCEPT ![c] = None]
  /\ caller' = [caller EXCEPT ![c] = Nil]
  /\ seen' = [seen EXCEPT ![c] = {}]

Validated(c) ==
  /\ Nested(c) = {}
  /\ op[c].arg \in Valid
  /\ Moves(c, "validating", "arriving")
  /\ UNCHANGED <<providers, factories, op, caller, seen>>

\* Validate fails, or the factory or the provider is through.
CallbackEnds(c) ==
  /\ Nested(c) = {}
  /\ at[c] = "calling" \/ (at[c] = "validating" /\ op[c].arg \notin Valid)
  /\ Returns(c)
  /\ UNCHANGED <<providers, factories>>

RLock(c) ==
  /\ ~Locks(c)
  /\ \A d \in Calls : Locks(d) => at[d] # "pending" /\ ~Holds(d)
  /\ Moves(c, "arriving", "locked")
  /\ UNCHANGED <<providers, factories, op, caller, seen>>

Announce(c) ==
  /\ Locks(c)
  /\ \A d \in Calls : Locks(d) => at[d] # "pending" /\ ~Holds(d)
  /\ Moves(c, "arriving", "pending")
  /\ UNCHANGED <<providers, factories, op, caller, seen>>

Lock(c) ==
  /\ \A d \in Calls : ~Holds(d)
  /\ Moves(c, "pending", "locked")
  /\ UNCHANGED <<providers, factories, op, caller, seen>>

-----------------------------------------------------------------------------
(* Under the lock.                                                         *)

\* What an operation makes of the two maps.
Changed(o) ==
  /\ CASE o.kind = "Register"   -> Register(o.arg)
       [] o.kind = "Unregister" -> Unregister(o.arg)
       [] o.kind = "Clear"      -> Clear
       [] OTHER                 -> UNCHANGED providers
  /\ factories' = CASE o.kind = "RegisterFactory"   -> factories \cup {o.arg}
                    [] o.kind = "UnregisterFactory" -> factories \ {o.arg}
                    [] o.kind = "Clear"             -> {}
                    [] OTHER                        -> factories

Change(c) ==
  /\ at[c] = "locked" /\ Changes(c)
  /\ Changed(op[c])
  /\ Returns(c)

\* CreateProvider and Send run what they found, Get hands it out.
Found(o) ==
  CASE o.kind = "CreateProvider" -> o.arg \in factories
    [] o.kind = "Send"           -> Get(o.arg) # Nil
    [] OTHER                     -> FALSE

Look(c) ==
  /\ at[c] = "locked" /\ op[c].kind \in {"CreateProvider", "Send", "Get"}
  /\ IF Found(op[c])
     THEN Moves(c, "locked", "calling") /\ UNCHANGED <<op, caller, seen>>
     ELSE Returns(c)
  /\ UNCHANGED <<providers, factories>>

RegisteredChannels == {ch \in Channels : Get(ch) # Nil}

Iterate(c) ==
  /\ at[c] = "locked" /\ op[c].kind = "Channels"
  /\ \E ch \in RegisteredChannels \ seen[c] : seen' = [seen EXCEPT ![c] = @ \cup {ch}]
  /\ UNCHANGED <<providers, factories, at, op, caller>>

ListEnds(c) ==
  /\ at[c] = "locked" /\ op[c].kind = "Channels"
  /\ RegisteredChannels \subseteq seen[c]
  /\ Returns(c)
  /\ UNCHANGED <<providers, factories>>

\* What the registry and its lock do for a call.
Proceeds(c) == \/ RLock(c) \/ Announce(c) \/ Lock(c)
               \/ Change(c) \/ Look(c) \/ Iterate(c) \/ ListEnds(c)

NextCall ==
  \E c \in Calls : Begin(c) \/ Validated(c) \/ CallbackEnds(c) \/ Proceeds(c)

\* Code under the lock runs, Channel included.  sync.Mutex and sync.RWMutex
\* starve nobody: when a writer unlocks, the readers that wait are let in, and
\* then one of the writers, in the end each.
CallsFairness == \A c \in Calls : SF_callVars(Proceeds(c))

CallsSpec == InitCalls /\ [][NextCall]_callVars /\ CallsFairness

-----------------------------------------------------------------------------
(* Properties.                                                             *)

\* Every variable has its type.
CallsTypeOK ==
  /\ Registered
  /\ factories \subseteq Names
  /\ at \in [Calls -> {"idle", "validating", "arriving", "pending", "locked", "calling"}]
  /\ op \in [Calls -> Operations \cup {None}]
  /\ caller \in [Calls -> Calls \cup {Nil}]
  /\ seen \in [Calls -> SUBSET Channels]

\* Go's maps tolerate no access beside a write, and end the program if they
\* notice one.  Whatever changes a map is alone with both of them.
MapsAreGuarded ==
  \A c, d \in Calls :
    (c # d /\ at[c] = "locked" /\ Changes(c)) => ~Holds(d)

\* Channels and Providers return what is registered when they return, no more
\* and no less, although they visit the map entry by entry.
ListsAreExact == [][\A c \in Calls : ListEnds(c) => seen[c] = RegisteredChannels]_callVars

\* Whoever wants the lock gets it, even if Validate, a factory or a provider
\* never returns, and even if these call the registry themselves.
LockIsGranted ==
  \A c \in Calls : at[c] \in {"arriving", "pending"} ~> at[c] = "locked"
=============================================================================
