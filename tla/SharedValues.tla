---------------------------- MODULE SharedValues ----------------------------
(***************************************************************************)
(* Who shares what with whom.  Results (result.go), messages (message.go)  *)
(* and configurations are handed around by pointer, and hold pointers to   *)
(* maps and to a ProviderError; whoever has them may write to them, at any *)
(* time and without a lock.  What Send has recorded in the store, and what *)
(* NewHTTPProvider was configured with, is kept while the goroutines it    *)
(* came from go on working.  Results that others give to the store         *)
(* directly, and a RetryConfig, are kept as they are and not modelled.     *)
(*                                                                         *)
(* A value is the cells it consists of, one per slot, and what a cell says *)
(* is who wrote to it last.                                                *)
(***************************************************************************)
EXTENDS Naturals, FiniteSets

CONSTANTS
  Users,  \* goroutines with a value of their own
  Absent  \* a nil map or error; no value; nobody

ASSUME UsersAssumption == /\ IsFiniteSet(Users)
                          /\ Absent \notin Users /\ {"keeper", "others"} \cap Users = {}

VARIABLES
  subject,  \* what the values are: results, messages or configurations
  held,     \* the value each user has
  copied,   \* it was made by copying another
  kept,     \* what Send had the store record, or an HTTP provider is configured with
  said,     \* history: what it said when it was kept
  content,  \* who wrote last to the cells that can be reached
  checked   \* users inside NormalizeError that found no label

sharing == <<subject, held, copied, kept, said, content, checked>>

Subjects == {"result", "message", "config"}

\* The maps and the error are slots, and so are the fields of a configuration:
\* what is in them decides what the provider does.
Slots(s) ==
  CASE s = "result"  -> {"metadata", "error"}
    [] s = "message" -> {"params", "metadata"}
    [] s = "config"  -> {"fields", "headers"}

\* Maps and errors that come from elsewhere, such as a provider's one error
\* for every failure, or the map that is passed to WithParams.
Theirs == <<"others", "any", 1>>

\* As many cells as there are users and a keeper: a new one is always free.
Spares == 1..Cardinality(Users) + 1
Cell == ((Users \cup {"keeper"}) \X {"fields", "metadata", "error", "params", "headers"}
           \X Spares) \cup {Theirs}
Value(s) == [Slots(s) -> Cell \cup {Absent}]

ASSUME AbsentAssumption == Absent \notin Cell /\ \A s \in Subjects : Absent \notin Value(s)

CellsOf(v) == IF v = Absent THEN {} ELSE {v[s] : s \in DOMAIN v} \ {Absent}
ValueOf(h) == IF h = "keeper" THEN kept ELSE held[h]
Holders    == Users \cup {"keeper"}
Reachable  == {Theirs} \cup UNION {CellsOf(ValueOf(h)) : h \in Holders}
Has(u)     == held[u] # Absent
Part(u, s) == held[u][s]

\* What the holder had until now is given up, unless others have it too.
New(who, slot) ==
  LET free == {i \in Spares :
                 \A h \in Holders \ {who} : <<who, slot, i>> \notin CellsOf(ValueOf(h))}
  IN  <<who, slot, CHOOSE i \in free : TRUE>>

AsBefore == [x \in {} |-> Absent]

InitSharing ==
  /\ subject \in Subjects
  /\ held = [u \in Users |-> Absent]
  /\ copied = [u \in Users |-> FALSE]
  /\ kept = Absent
  /\ said = AsBefore
  /\ content = [x \in {Theirs} |-> Absent]
  /\ checked = {}

-----------------------------------------------------------------------------
(* Copies.                                                                 *)

\* A copy has new cells for these slots, unless there is nothing in them.
CopyOf(v, who, slots) ==
  [s \in DOMAIN v |-> IF v[s] # Absent /\ s \in slots THEN New(who, s) ELSE v[s]]

\* Mutant: the error is left to the copy of the struct.
cloneSendResultKeepsError(v, who) == CopyOf(v, who, {"metadata"})

\* Mutant: the copy is made by hand, and incomplete.
cloneSendResultDropsMetadata(v, who) == [s \in {"error"} |-> CopyOf(v, who, {"error"})[s]]

cloneSendResult(v, who) == CopyOf(v, who, {"metadata", "error"})

\* Mutant: the metadata is left out.
CloneKeepsMetadata(v, who) == CopyOf(v, who, {"params"})

Clone(v, who) == CopyOf(v, who, {"params", "metadata"})

\* Mutant: configCopy := *config and no more.
snapshotKeepsHeaders(v, who) == CopyOf(v, who, {"fields"})

snapshot(v, who) == CopyOf(v, who, {"fields", "headers"})

\* The cells in reach say what they did, but for these; the new ones nothing yet.
Saying(news) ==
  content' = [x \in Reachable' |-> IF x \in DOMAIN news THEN news[x]
                                   ELSE IF x \in DOMAIN content THEN content[x] ELSE Absent]
Wrote(u, x)  == [y \in {x} |-> u]
LikeIn(v, w) == [x \in CellsOf(w) |-> content[v[CHOOSE s \in DOMAIN w : w[s] = x]]]

Takes(u, v, isCopy, news) ==
  /\ held' = [held EXCEPT ![u] = v]
  /\ copied' = [copied EXCEPT ![u] = isCopy]
  /\ kept' = kept
  /\ Saying(news)
  /\ UNCHANGED <<subject, said, checked>>

Keeps(w, news) ==
  /\ kept' = w
  /\ held' = held
  /\ said' = [s \in {t \in DOMAIN w : w[t] # Absent} |-> news[w[s]]]
  /\ Saying(news)
  /\ UNCHANGED <<subject, copied, checked>>

-----------------------------------------------------------------------------
\* A constructor, a literal or a provider makes a value: each map and error is
\* new or nil, or else an error or a header map that others have too.
Make(u) ==
  /\ u \notin checked
  /\ \E v \in [Slots(subject) -> {"new", "nil", "theirs"}] :
       /\ subject = "config" => v["fields"] = "new"
       /\ \A s \in {"metadata", "params"} \cap Slots(subject) : v[s] # "theirs"
       /\ Takes(u, [s \in DOMAIN v |-> CASE v[s] = "new"    -> New(u, s)
                                         [] v[s] = "nil"    -> Absent
                                         [] v[s] = "theirs" -> Theirs], FALSE, AsBefore)

\* Send records a clone of what the provider answered, and its caller goes on with
\* the answer; NewHTTPProvider keeps a copy of its configuration.
Keep(u) ==
  /\ Has(u)
  /\ \/ /\ subject = "result"
        /\ LET w == cloneSendResult(held[u], "keeper") IN Keeps(w, LikeIn(held[u], w))
     \/ /\ subject = "config"
        /\ LET w == snapshot(held[u], "keeper") IN Keeps(w, LikeIn(held[u], w))

\* Expiry, Delete, Set with a nil result.
Forget ==
  /\ subject = "result" /\ kept # Absent
  /\ kept' = Absent /\ held' = held
  /\ said' = AsBefore
  /\ Saying(AsBefore)
  /\ UNCHANGED <<subject, copied, checked>>

\* Reserve and Get.
Answer(u) ==
  /\ subject = "result" /\ kept # Absent /\ u \notin checked
  /\ LET w == cloneSendResult(kept, u) IN Takes(u, w, TRUE, LikeIn(kept, w))

CloneMessage(u, from) ==
  /\ subject = "message" /\ Has(from)
  /\ LET w == Clone(held[from], u) IN Takes(u, w, TRUE, LikeIn(held[from], w))

\* WithParams and WithMetadata of a message take the caller's map as it is.
TakeTheirs(u, slot) ==
  /\ subject = "message" /\ Has(u)
  /\ Takes(u, [held[u] EXCEPT ![slot] = Theirs], FALSE, AsBefore)

-----------------------------------------------------------------------------
(* Writes.                                                                 *)

\* An entry of a map, by WithParam, AddMetadata, WithMetadata of a result or an
\* assignment, or the fields of a configuration.
Change(u, slot) ==
  /\ Has(u) /\ slot # "error" /\ Part(u, slot) # Absent
  /\ Takes(u, held[u], copied[u], Wrote(u, Part(u, slot)))

\* The same, if there is no map yet.
Allocate(u, slot) ==
  /\ Has(u) /\ slot \in {"metadata", "params"} /\ Part(u, slot) = Absent
  /\ Takes(u, [held[u] EXCEPT ![slot] = New(u, slot)], copied[u], Wrote(u, New(u, slot)))

\* NormalizeError looks for a label on the error of a failure, which GetError
\* hands out as it is, and then puts one there.
FindUnlabelled(u) ==
  /\ subject = "result" /\ Has(u) /\ Part(u, "error") # Absent
  /\ content[Part(u, "error")] = Absent
  /\ checked' = checked \cup {u}
  /\ UNCHANGED <<subject, held, copied, kept, said, content>>

Label(u) ==
  /\ u \in checked
  /\ content' = [content EXCEPT ![Part(u, "error")] = u]
  /\ checked' = checked \ {u}
  /\ UNCHANGED <<subject, held, copied, kept, said>>

OthersWrite ==
  /\ content' = [content EXCEPT ![Theirs] = "others"]
  /\ UNCHANGED <<subject, held, copied, kept, said, checked>>

NextSharing ==
  \/ \E u \in Users :
       \/ Make(u) \/ Keep(u) \/ Answer(u) \/ FindUnlabelled(u) \/ Label(u)
       \/ \E from \in Users : CloneMessage(u, from)
       \/ \E slot \in Slots(subject) : Change(u, slot) \/ Allocate(u, slot) \/ TakeTheirs(u, slot)
  \/ Forget
  \/ OthersWrite

SharingSpec == InitSharing /\ [][NextSharing]_sharing

-----------------------------------------------------------------------------
(* Properties.                                                             *)

\* Every variable has its type, and cells out of reach are not remembered.
SharingTypeOK ==
  /\ subject \in Subjects
  /\ held \in [Users -> Value(subject) \cup {Absent}]
  /\ copied \in [Users -> BOOLEAN]
  /\ kept \in Value(subject) \cup {Absent}
  /\ DOMAIN said \subseteq Slots(subject)
  /\ content \in [Reachable -> Users \cup {Absent, "others"}]
  /\ checked \subseteq Users

\* Reserve, Get and Clone hand out "an independent copy": nobody else can reach
\* any part of it, however it was come by and whatever became of the original.
\* Nor can anybody reach what Send had the store keep, or what a provider keeps.
CopiesArePrivate ==
  /\ Theirs \notin CellsOf(kept)
  /\ \A u \in Users :
       /\ CellsOf(kept) \cap CellsOf(held[u]) = {}
       /\ copied[u] => /\ Theirs \notin CellsOf(held[u])
                       /\ \A v \in Users \ {u} : CellsOf(held[u]) \cap CellsOf(held[v]) = {}

\* What is recorded, and what a provider is configured with, does not change by
\* anything that is done to the value it came from or to the ones it answered.
KeptStands == kept # Absent => \A s \in DOMAIN said : content[kept[s]] = said[s]

\* NormalizeError keeps the provider and the channel that an error names.  The
\* error of an answer from the store is still without them when it writes them:
\* nobody else has labelled it since it looked.
LabelStands ==
  \A u \in checked : copied[u] => content[Part(u, "error")] = Absent
=============================================================================
