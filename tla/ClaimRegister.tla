--------------------------- MODULE ClaimRegister ---------------------------
(***************************************************************************)
(* What an idempotency store promises, with neither clock, tokens nor      *)
(* locks: for every key a slot that is free, held by the call it was       *)
(* granted to, or settled with a result.  A slot that is held or settled   *)
(* is live until it lapses, which is all that is left of time.             *)
(*                                                                         *)
(* Each step is one completed operation, named in `op` together with the   *)
(* call that made it and the answer it got, so an implementation is held   *)
(* to its answers and not only to its contents.  StoreClients is shown to  *)
(* implement this specification with MemoryIdempotencyStore.               *)
(***************************************************************************)
CONSTANTS Keys, Calls, Results, Nil

VARIABLES
  slot,     \* [Keys -> Slot]
  granted,  \* the pairs <<call, key>> for which Reserve handed out a claim
  op        \* the last operation and its answer

Slot == {[kind |-> "free"]}
          \cup [kind: {"held"},    by: Calls,       live: BOOLEAN]
          \cup [kind: {"settled"}, result: Results, live: BOOLEAN]

Free          == [kind |-> "free"]
Held(c, l)    == [kind |-> "held", by |-> c, live |-> l]
Settled(r, l) == [kind |-> "settled", result |-> r, live |-> l]
Lapsed(s)     == IF s.kind = "held" THEN Held(s.by, FALSE) ELSE Settled(s.result, FALSE)

IsHeld(k)      == slot[k].kind = "held"
IsSettled(k)   == slot[k].kind = "settled"
IsLive(k)      == slot[k].kind # "free" /\ slot[k].live
IsHeldBy(k, c) == IsHeld(k) /\ slot[k].by = c

Did(name, c, k, answer) ==
  op' = [name |-> name, call |-> c, key |-> k, answer |-> answer]
Place(k, s) == slot' = [slot EXCEPT ![k] = s]

Init ==
  /\ slot = [k \in Keys |-> Free]
  /\ granted = {}
  /\ op = Nil

-----------------------------------------------------------------------------
(* Reserve: granted when nothing live is in the way, else told what is.    *)

Grant(c, k) ==
  /\ ~IsLive(k)
  /\ \E l \in BOOLEAN : Place(k, Held(c, l))
  /\ granted' = granted \cup {<<c, k>>}
  /\ Did("reserve", c, k, "granted")

Replay(c, k) ==
  /\ IsSettled(k)
  /\ Did("reserve", c, k, slot[k].result)
  /\ UNCHANGED <<slot, granted>>

Refuse(c, k) ==
  /\ IsHeld(k)
  /\ Did("reserve", c, k, "in_flight")
  /\ UNCHANGED <<slot, granted>>

-----------------------------------------------------------------------------
(* Finalize and Abandon: only of one's own claim.  A claim that went away  *)
(* without a successor may still be settled.                               *)

Settle(c, k) ==
  /\ <<c, k>> \in granted
  /\ slot[k] = Free \/ IsHeldBy(k, c)
  /\ \E r \in Results, l \in BOOLEAN : Place(k, Settled(r, l))
  /\ Did("finalize", c, k, "ok")
  /\ UNCHANGED granted

SettleNothing(c, k) ==
  /\ <<c, k>> \in granted
  /\ slot[k] = Free \/ IsHeldBy(k, c)
  /\ Place(k, Free)
  /\ Did("finalize", c, k, "ok")
  /\ UNCHANGED granted

SettleTooLate(c, k) ==
  /\ slot[k] # Free /\ ~IsHeldBy(k, c)
  /\ Did("finalize", c, k, "superseded")
  /\ UNCHANGED <<slot, granted>>

\* A call without a claim settles nothing.
SettleUnclaimed(c, k) ==
  /\ Did("finalize_tokenless", c, k, "superseded")
  /\ UNCHANGED <<slot, granted>>

Abandon(c, k) ==
  /\ <<c, k>> \in granted
  /\ IF IsHeldBy(k, c) THEN Place(k, Free) ELSE UNCHANGED slot
  /\ Did("abandon", c, k, "ok")
  /\ UNCHANGED granted

-----------------------------------------------------------------------------
(* The interface without claims: Get finds every live result, Set(nil)     *)
(* leaves held slots alone, Set and Delete take them over.                 *)

Find(c, k) ==
  /\ IsSettled(k)
  /\ Did("get", c, k, slot[k].result)
  /\ UNCHANGED <<slot, granted>>

Miss(c, k) ==
  /\ ~(IsSettled(k) /\ IsLive(k))
  /\ Did("get", c, k, "missing")
  /\ UNCHANGED <<slot, granted>>

Overwrite(c, k) ==
  /\ \E r \in Results, l \in BOOLEAN : Place(k, Settled(r, l))
  /\ Did("set", c, k, "ok")
  /\ UNCHANGED granted

Clear(c, k) ==
  /\ IF IsSettled(k) THEN Place(k, Free) ELSE UNCHANGED slot
  /\ Did("set_nil", c, k, "ok")
  /\ UNCHANGED granted

Delete(c, k) ==
  /\ Place(k, Free)
  /\ Did("delete", c, k, "ok")
  /\ UNCHANGED granted

\* Time passes and slots lapse; a sweep frees lapsed ones.  No operation ends,
\* no live slot is freed, and nothing that lapsed comes back.
Lapse ==
  /\ slot' \in [Keys -> Slot]
  /\ \A k \in Keys : \/ slot'[k] = slot[k]
                     \/ IsLive(k) /\ slot'[k] = Lapsed(slot[k])
                     \/ ~IsLive(k) /\ slot'[k] = Free
  /\ UNCHANGED <<granted, op>>

Step(c, k) ==
  \/ Grant(c, k) \/ Replay(c, k) \/ Refuse(c, k)
  \/ Settle(c, k) \/ SettleNothing(c, k) \/ SettleTooLate(c, k) \/ SettleUnclaimed(c, k)
  \/ Abandon(c, k)
  \/ Find(c, k) \/ Miss(c, k) \/ Overwrite(c, k) \/ Clear(c, k) \/ Delete(c, k)

Next == Lapse \/ \E c \in Calls, k \in Keys : Step(c, k)

Spec == Init /\ [][Next]_<<slot, granted, op>>
=============================================================================
