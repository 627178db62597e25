------------------------------ MODULE Registry ------------------------------
(***************************************************************************)
(* Registry (registry.go): the provider in charge of each channel.  Every  *)
(* operation is one critical section of the registry's RWMutex; Validate   *)
(* runs before it, the provider's Send after it and outside of it.         *)
(*                                                                         *)
(* Like MemoryStore the module has no behaviour of its own: RetrySend and  *)
(* RegistryCalls use it.  The second map, of factories by name, is in      *)
(* RegistryCalls.                                                          *)
(***************************************************************************)
CONSTANTS
  Channels, Providers, Nil,
  ChannelOf,  \* [Providers -> Channels], Provider.Channel
  Valid       \* the providers whose Validate returns nil

VARIABLE providers  \* [Channels -> Providers \cup {Nil}]

InitRegistry == providers = [ch \in Channels |-> Nil]

Registered == providers \in [Channels -> Providers \cup {Nil}]

\* The channel's earlier provider, if there is one, is replaced without a word.
Register(p) ==
  /\ p \in Valid
  /\ providers' = [providers EXCEPT ![ChannelOf[p]] = p]

Unregister(ch) == providers' = [providers EXCEPT ![ch] = Nil]

Clear == providers' = [ch \in Channels |-> Nil]

\* Get: Nil stands for ErrNotRegistered.
Get(ch) == providers[ch]
=============================================================================
