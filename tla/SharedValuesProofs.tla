------------------------- MODULE SharedValuesProofs -------------------------
(***************************************************************************)
(* Proofs about SharedValues, for any number of users: the copies that the *)
(* store, a provider and Clone make stay private, so nobody's writes reach *)
(* what others rely on.                                                    *)
(***************************************************************************)
EXTENDS SharedValues, FiniteSetTheorems, TLAPS

SlotNames == {"fields", "metadata", "error", "params", "headers"}

\* What may be in a slot: no map or error gets into the place of another.
Fitting(s) == {Absent, Theirs} \cup (Holders \X {s} \X Spares)

Proper(v) == v # Absent => \A s \in DOMAIN v : v[s] \in Fitting(s)

\* A user who is about to label an error has one.
CheckedHaveErrors ==
  \A u \in checked : /\ subject = "result"
                     /\ held[u] # Absent /\ Part(u, "error") # Absent

TypeInv ==
  /\ SharingTypeOK
  /\ \A h \in Holders : Proper(ValueOf(h))
  /\ CheckedHaveErrors
  /\ kept # Absent => \A s \in DOMAIN said : kept[s] # Absent

IInv == TypeInv /\ CopiesArePrivate /\ KeptStands /\ LabelStands

-----------------------------------------------------------------------------
(* Values and their cells.                                                 *)

LEMMA SlotsAre ==
  ASSUME NEW s \in Subjects
  PROVE  Slots(s) \subseteq SlotNames
BY DEF Subjects, Slots, SlotNames

LEMMA KeeperIsNoUser == "keeper" \notin Users /\ "others" \notin Users
BY UsersAssumption

LEMMA ValueIs ==
  ASSUME TypeInv, NEW h \in Holders
  PROVE  ValueOf(h) \in Value(subject) \cup {Absent}
BY KeeperIsNoUser DEF TypeInv, SharingTypeOK, Holders, ValueOf

LEMMA CellIs ==
  ASSUME TypeInv, NEW h \in Holders, NEW x \in CellsOf(ValueOf(h))
  PROVE  /\ ValueOf(h) # Absent
         /\ \E s \in Slots(subject) : x = ValueOf(h)[s] /\ x \in Fitting(s) \ {Absent}
         /\ x \in Reachable
<1>1. ValueOf(h) # Absent
  BY DEF CellsOf
<1>2. PICK s \in DOMAIN ValueOf(h) : x = ValueOf(h)[s] /\ x # Absent
  BY <1>1 DEF CellsOf
<1>3. s \in Slots(subject)
  BY <1>1, <1>2, ValueIs DEF Value
<1>4. x \in Fitting(s)
  BY <1>1, <1>2 DEF TypeInv, Proper
<1>5. x \in Reachable
  BY DEF Reachable
<1> QED
  BY <1>1, <1>2, <1>3, <1>4, <1>5

LEMMA PartIsCell ==
  ASSUME NEW v, v # Absent, NEW s \in DOMAIN v, v[s] # Absent
  PROVE  v[s] \in CellsOf(v)
BY DEF CellsOf

\* A new cell is in nobody else's hands.  There is always one to be had, because
\* every other holder has one cell at most for a slot.
LEMMA NewIsNew ==
  ASSUME TypeInv, NEW who \in Holders, NEW slot \in SlotNames
  PROVE  /\ New(who, slot) \in {who} \X {slot} \X Spares
         /\ New(who, slot) \in Cell
         /\ New(who, slot) \notin {Absent, Theirs}
         /\ \A h \in Holders \ {who} : New(who, slot) \notin CellsOf(ValueOf(h))
<1> DEFINE taken(h) == {i \in Spares : <<who, slot, i>> \in CellsOf(ValueOf(h))}
           others == Holders \ {who}
           free == {i \in Spares :
                      \A h \in others : <<who, slot, i>> \notin CellsOf(ValueOf(h))}
           n == Cardinality(Users)
<1>1. ASSUME NEW h \in others, NEW i \in taken(h), NEW j \in taken(h)
      PROVE  i = j
  <2>1. ASSUME NEW k \in taken(h)
        PROVE  ValueOf(h)[slot] = <<who, slot, k>>
    <3>1. PICK s \in Slots(subject) :
            <<who, slot, k>> = ValueOf(h)[s] /\ <<who, slot, k>> \in Fitting(s) \ {Absent}
      BY <2>1, CellIs
    <3>2. <<who, slot, k>> # Theirs
      BY UsersAssumption DEF Theirs, Holders
    <3>3. slot = s
      BY <3>1, <3>2 DEF Fitting
    <3> QED BY <3>1, <3>3
  <2> QED BY <1>1, <2>1
<1>2. IsFiniteSet(others) /\ Cardinality(others) = n /\ n \in Nat
  <2>1. IsFiniteSet(Users) /\ n \in Nat
    BY UsersAssumption, FS_CardinalityType
  <2>2. IsFiniteSet(Holders) /\ Cardinality(Holders) = n + 1
    BY <2>1, FS_AddElement, KeeperIsNoUser DEF Holders
  <2>3. IsFiniteSet(others) /\ Cardinality(others) = Cardinality(Holders) - 1
    BY <2>2, FS_RemoveElement
  <2> QED BY <2>1, <2>2, <2>3
<1>3. IsFiniteSet(Spares) /\ Cardinality(Spares) = n + 1
  BY <1>2, FS_Interval DEF Spares
<1>4. free # {}
  <2> SUFFICES ASSUME free = {} PROVE FALSE
    OBVIOUS
  <2> DEFINE f == [i \in Spares |-> CHOOSE h \in others : i \in taken(h)]
  <2>1. ASSUME NEW i \in Spares PROVE f[i] \in others /\ i \in taken(f[i])
    OBVIOUS
  <2>2. f \in [Spares -> others]
    BY <2>1
  <2>3. PICK i \in Spares, j \in Spares : i # j /\ f[i] = f[j]
    <3> HIDE DEF f, others
    <3> QED BY <1>2, <1>3, <2>2, FS_PigeonHole
  <2> QED BY <1>1, <2>1, <2>3
<1> DEFINE i == CHOOSE k \in free : TRUE
<1>5. i \in free
  BY <1>4
<1>6. New(who, slot) = <<who, slot, i>>
  BY DEF New
<1>7. New(who, slot) \in Cell /\ New(who, slot) # Theirs
  BY <1>5, <1>6, UsersAssumption DEF Cell, SlotNames, Holders, Theirs
<1>8. New(who, slot) # Absent
  BY <1>7, AbsentAssumption
<1>9. New(who, slot) \in {who} \X {slot} \X Spares
  <2>1. i \in Spares
    BY <1>5
  <2> HIDE DEF i
  <2> QED BY <1>6, <2>1
<1>10. \A h \in Holders \ {who} : New(who, slot) \notin CellsOf(ValueOf(h))
  BY <1>5, <1>6
<1> QED
  BY <1>7, <1>8, <1>9, <1>10

LEMMA ValueIsSomething ==
  ASSUME TypeInv, NEW v \in Value(subject)
  PROVE  v # Absent /\ DOMAIN v = Slots(subject) /\ Slots(subject) \subseteq SlotNames
<1>1. subject \in Subjects
  BY DEF TypeInv, SharingTypeOK
<1> QED
  BY <1>1, AbsentAssumption, SlotsAre DEF Value

\* A copy consists of new cells, and has nothing where the original has nothing.
LEMMA CopyIsNew ==
  ASSUME TypeInv, NEW from \in Holders, ValueOf(from) # Absent, NEW who \in Holders,
         NEW slots, Slots(subject) \subseteq slots,
         NEW w, w = CopyOf(ValueOf(from), who, slots)
  PROVE  /\ w \in Value(subject)
         /\ Proper(w)
         /\ Theirs \notin CellsOf(w)
         /\ \A h \in Holders \ {who} : CellsOf(w) \cap CellsOf(ValueOf(h)) = {}
         /\ \A s \in Slots(subject) : w[s] # Absent => ValueOf(from)[s] # Absent
<1>1. ValueOf(from) \in Value(subject)
  BY ValueIs
<1>2. DOMAIN ValueOf(from) = Slots(subject) /\ Slots(subject) \subseteq SlotNames
  BY <1>1, ValueIsSomething
<1>3. /\ DOMAIN w = Slots(subject)
      /\ \A s \in Slots(subject) : w[s] = IF ValueOf(from)[s] # Absent THEN New(who, s) ELSE Absent
      /\ w = [s \in Slots(subject) |-> w[s]]
  BY <1>2 DEF CopyOf
<1>4. \A s \in Slots(subject) :
        w[s] = Absent \/ (w[s] = New(who, s) /\ ValueOf(from)[s] # Absent)
  BY <1>3
<1>5. \A s \in Slots(subject) : w[s] \in Cell \cup {Absent}
  BY <1>2, <1>4, NewIsNew
<1>6. w \in Value(subject)
  BY <1>3, <1>5 DEF Value
<1>7. \A x \in CellsOf(w) : \E s \in Slots(subject) : x = New(who, s)
  BY <1>3, <1>4 DEF CellsOf
<1>8. Proper(w)
  BY <1>2, <1>3, <1>4, NewIsNew DEF Proper, Fitting
<1>9. Theirs \notin CellsOf(w)
  BY <1>2, <1>7, NewIsNew
<1>10. ASSUME NEW h \in Holders \ {who}
       PROVE  CellsOf(w) \cap CellsOf(ValueOf(h)) = {}
  BY <1>2, <1>7, NewIsNew
<1> QED
  BY <1>4, <1>6, <1>8, <1>9, <1>10

Says == Users \cup {Absent, "others"}

\* What a copy says is what the original said.
LEMMA CopySays ==
  ASSUME TypeInv, NEW from \in Holders, ValueOf(from) # Absent, NEW w \in Value(subject),
         \A s \in Slots(subject) : w[s] # Absent => ValueOf(from)[s] # Absent
  PROVE  LikeIn(ValueOf(from), w) \in [CellsOf(w) -> Says]
<1>1. DOMAIN w = Slots(subject) /\ DOMAIN ValueOf(from) = Slots(subject) /\ w # Absent
  BY ValueIs, ValueIsSomething
<1>2. ASSUME NEW x \in CellsOf(w)
      PROVE  content[ValueOf(from)[CHOOSE s \in DOMAIN w : w[s] = x]] \in Says
  <2> DEFINE t == CHOOSE s \in DOMAIN w : w[s] = x
  <2>1. t \in Slots(subject) /\ w[t] # Absent
    BY <1>1 DEF CellsOf
  <2> HIDE DEF t
  <2>2. ValueOf(from)[t] \in CellsOf(ValueOf(from))
    BY <1>1, <2>1, PartIsCell
  <2>3. ValueOf(from)[t] \in Reachable
    BY <2>2, CellIs
  <2>4. content[ValueOf(from)[t]] \in Says
    BY <2>3 DEF TypeInv, SharingTypeOK, Says
  <2> QED BY <2>4 DEF t
<1> QED
  BY <1>2 DEF LikeIn

-----------------------------------------------------------------------------
(* The steps.                                                              *)

\* What is said in cells that a step does not write to stays.
LEMMA SayingKeeps ==
  ASSUME TypeInv, NEW N, NEW news \in [N -> Says], Saying(news)
  PROVE  /\ content' \in [Reachable' -> Says]
         /\ \A x \in Reachable' \cap N : content'[x] = news[x]
         /\ \A x \in (Reachable \cap Reachable') \ N : content'[x] = content[x]
<1>1. content \in [Reachable -> Says]
  BY DEF TypeInv, SharingTypeOK, Says
<1> QED
  BY <1>1 DEF Saying, Says

\* Somebody gets or changes a value without touching what is private to others.
LEMMA TakesStep ==
  ASSUME IInv, NEW u \in Users, NEW v \in Value(subject), NEW isCopy \in BOOLEAN,
         NEW N \in SUBSET CellsOf(v), NEW news \in [N -> Says],
         Takes(u, v, isCopy, news),
         Proper(v),
         isCopy => Theirs \notin CellsOf(v),
         CellsOf(v) \cap CellsOf(kept) = {},
         \A h \in Users \ {u} : isCopy \/ copied[h] => CellsOf(v) \cap CellsOf(held[h]) = {},
         u \in checked => /\ v["error"] = Part(u, "error") /\ isCopy = copied[u]
                          /\ isCopy => v["error"] \notin N
  PROVE  IInv'
<1> USE DEF IInv
<1>1. /\ v # Absent /\ DOMAIN v = Slots(subject)
      /\ kept' = kept /\ subject' = subject /\ said' = said /\ checked' = checked
      /\ held' = [held EXCEPT ![u] = v] /\ copied' = [copied EXCEPT ![u] = isCopy]
      /\ Saying(news)
  BY ValueIsSomething DEF Takes
<1>2. /\ DOMAIN held = Users /\ DOMAIN copied = Users
      /\ held'[u] = v /\ copied'[u] = isCopy
      /\ \A h \in Users \ {u} : held'[h] = held[h] /\ copied'[h] = copied[h]
  BY <1>1 DEF TypeInv, SharingTypeOK
<1>3. /\ ValueOf(u)' = v
      /\ \A h \in Holders \ {u} : ValueOf(h)' = ValueOf(h)
  BY <1>1, <1>2, KeeperIsNoUser DEF ValueOf, Holders
<1>4. SharingTypeOK'
  <2>1. held' \in [Users -> Value(subject) \cup {Absent}] /\ copied' \in [Users -> BOOLEAN]
    BY <1>1 DEF TypeInv, SharingTypeOK
  <2>2. content' \in [Reachable' -> Says]
    BY <1>1, SayingKeeps
  <2> QED BY <1>1, <2>1, <2>2 DEF TypeInv, SharingTypeOK, Says
<1>5. \A h \in Holders : Proper(ValueOf(h)')
  BY <1>3 DEF TypeInv
<1>6. CheckedHaveErrors'
  <2> SUFFICES ASSUME NEW w \in checked
               PROVE  subject = "result" /\ held'[w] # Absent /\ held'[w]["error"] # Absent
    BY <1>1 DEF CheckedHaveErrors, Part
  <2>1. w \in Users /\ subject = "result" /\ held[w] # Absent /\ held[w]["error"] # Absent
    BY DEF TypeInv, SharingTypeOK, CheckedHaveErrors, Part
  <2> QED BY <1>1, <1>2, <2>1 DEF Part
<1>7. TypeInv'
  BY <1>1, <1>4, <1>5, <1>6 DEF TypeInv, Proper, Holders, Fitting
<1>8. CopiesArePrivate'
  <2>1. Theirs \notin CellsOf(kept')
    BY <1>1 DEF CopiesArePrivate
  <2>2. ASSUME NEW h \in Users PROVE CellsOf(kept') \cap CellsOf(held'[h]) = {}
    BY <1>1, <1>2 DEF CopiesArePrivate
  <2>3. ASSUME NEW h \in Users, copied'[h] PROVE Theirs \notin CellsOf(held'[h])
    BY <1>2, <2>3 DEF CopiesArePrivate
  <2>4. ASSUME NEW h \in Users, copied'[h], NEW g \in Users \ {h}
        PROVE  CellsOf(held'[h]) \cap CellsOf(held'[g]) = {}
    BY <1>2, <2>4 DEF CopiesArePrivate
  <2> QED BY <2>1, <2>2, <2>3, <2>4 DEF CopiesArePrivate, CellsOf
<1>9. ASSUME NEW h \in Holders, NEW x \in CellsOf(ValueOf(h)), x \notin N,
             ValueOf(h)' = ValueOf(h) \/ x \in CellsOf(v)
      PROVE  content'[x] = content[x]
  <2>1. x \in Reachable
    BY CellIs
  <2>2. x \in Reachable'
    BY <1>1, <1>2, <1>3, <1>9 DEF Reachable, Holders, CellsOf, ValueOf
  <2> QED BY <1>1, <1>9, <2>1, <2>2, SayingKeeps
<1>10. KeptStands'
  <2> SUFFICES ASSUME kept # Absent, NEW s \in DOMAIN said
               PROVE  content'[kept[s]] = said[s]
    BY <1>1 DEF KeptStands
  <2>1. kept[s] # Absent /\ s \in DOMAIN kept
    BY ValueIsSomething DEF TypeInv, SharingTypeOK
  <2>2. kept[s] \in CellsOf(kept)
    BY <2>1, PartIsCell
  <2>3. "keeper" \in Holders \ {u} /\ ValueOf("keeper") = kept
    BY KeeperIsNoUser DEF Holders, ValueOf
  <2>4. content'[kept[s]] = content[kept[s]]
    BY <1>3, <1>9, <2>2, <2>3
  <2> QED BY <2>4 DEF KeptStands
<1>11. LabelStands'
  <2> SUFFICES ASSUME NEW w \in checked, copied'[w]
               PROVE  content'[held'[w]["error"]] = Absent
    BY <1>1 DEF LabelStands, Part
  <2>1. /\ w \in Users /\ w \in Holders /\ ValueOf(w) = held[w] /\ subject = "result"
        /\ held[w] # Absent /\ held[w]["error"] # Absent
    BY KeeperIsNoUser DEF TypeInv, SharingTypeOK, CheckedHaveErrors, Part, Holders, ValueOf
  <2>2. held[w]["error"] \in CellsOf(held[w])
    <3>1. DOMAIN held[w] = Slots(subject)
      BY <2>1, ValueIs, ValueIsSomething
    <3> QED BY <2>1, <3>1, PartIsCell DEF Slots
  <2>3. CASE w # u
    <3>1. copied[w] /\ held'[w] = held[w]
      BY <1>2, <2>1, <2>3
    <3>2. held[w]["error"] \notin N
      BY <2>1, <2>2, <2>3, <3>1
    <3>3. content'[held[w]["error"]] = content[held[w]["error"]]
      BY <1>3, <1>9, <2>1, <2>2, <2>3, <3>2
    <3> QED BY <3>1, <3>3 DEF LabelStands, Part
  <2>4. CASE w = u
    <3>1. /\ copied[u] /\ v["error"] = held[u]["error"] /\ v["error"] \notin N
          /\ held'[u] = v
      BY <1>2, <2>4 DEF Part
    <3>2. v["error"] \in CellsOf(v)
      <4>1. "error" \in DOMAIN v
        BY <1>1, <2>1 DEF Slots
      <4> QED BY <1>1, <2>1, <2>4, <3>1, <4>1, PartIsCell
    <3>3. content'[v["error"]] = content[v["error"]]
      BY <1>9, <2>1, <2>2, <2>4, <3>1, <3>2
    <3> QED BY <2>4, <3>1, <3>3 DEF LabelStands, Part
  <2> QED BY <2>3, <2>4
<1> QED
  BY <1>7, <1>8, <1>10, <1>11
\* The store or a provider keeps a value that is nobody else's.
LEMMA KeepsStep ==
  ASSUME IInv, NEW w \in Value(subject), NEW news \in [CellsOf(w) -> Says],
         Keeps(w, news),
         Proper(w),
         Theirs \notin CellsOf(w),
         \A h \in Users : CellsOf(w) \cap CellsOf(held[h]) = {}
  PROVE  IInv'
<1> USE DEF IInv
<1>1. /\ w # Absent /\ DOMAIN w = Slots(subject)
      /\ kept' = w /\ held' = held /\ subject' = subject /\ checked' = checked /\ copied' = copied
      /\ said' = [s \in {t \in DOMAIN w : w[t] # Absent} |-> news[w[s]]]
      /\ Saying(news)
  BY ValueIsSomething DEF Keeps
<1>2. /\ ValueOf("keeper")' = w
      /\ \A h \in Users : ValueOf(h)' = held[h] /\ ValueOf(h) = held[h]
  BY <1>1, KeeperIsNoUser DEF ValueOf, Holders
<1>3. \A s \in DOMAIN said' : s \in DOMAIN w /\ w[s] # Absent /\ said'[s] = news[w[s]]
  BY <1>1
<1>4. SharingTypeOK'
  <2>1. content' \in [Reachable' -> Says]
    BY <1>1, SayingKeeps
  <2> QED BY <1>1, <1>3, <2>1 DEF TypeInv, SharingTypeOK, Says
<1>5. \A h \in Holders : Proper(ValueOf(h)')
  BY <1>2 DEF TypeInv, Holders
<1>6. TypeInv'
  BY <1>1, <1>3, <1>4, <1>5 DEF TypeInv, Proper, Holders, Fitting, CheckedHaveErrors, Part
<1>7. CopiesArePrivate'
  <2>1. Theirs \notin CellsOf(kept')
    BY <1>1
  <2>2. ASSUME NEW h \in Users PROVE CellsOf(kept') \cap CellsOf(held'[h]) = {}
    BY <1>1
  <2>3. ASSUME NEW h \in Users, copied'[h] PROVE Theirs \notin CellsOf(held'[h])
    BY <1>1, <2>3 DEF CopiesArePrivate
  <2>4. ASSUME NEW h \in Users, copied'[h], NEW g \in Users \ {h}
        PROVE  CellsOf(held'[h]) \cap CellsOf(held'[g]) = {}
    BY <1>1, <2>4 DEF CopiesArePrivate
  <2> QED BY <2>1, <2>2, <2>3, <2>4 DEF CopiesArePrivate, CellsOf
<1>8. KeptStands'
  <2> SUFFICES ASSUME NEW s \in DOMAIN said'
               PROVE  content'[w[s]] = said'[s]
    BY <1>1 DEF KeptStands
  <2>1. w[s] \in CellsOf(w)
    BY <1>1, <1>3, PartIsCell
  <2>2. w[s] \in Reachable'
    BY <1>1, <1>2, <2>1 DEF Reachable, Holders, CellsOf, ValueOf
  <2> QED BY <1>1, <1>3, <2>1, <2>2, SayingKeeps
<1>9. LabelStands'
  <2> SUFFICES ASSUME NEW u \in checked, copied[u]
               PROVE  content'[held[u]["error"]] = Absent
    BY <1>1 DEF LabelStands, Part
  <2>1. /\ u \in Users /\ u \in Holders /\ subject = "result"
        /\ held[u] # Absent /\ held[u]["error"] # Absent
    BY DEF TypeInv, SharingTypeOK, CheckedHaveErrors, Part, Holders
  <2>2. DOMAIN held[u] = Slots(subject)
    BY <1>2, <2>1, ValueIs, ValueIsSomething
  <2>3. held[u]["error"] \in CellsOf(held[u])
    BY <2>1, <2>2, PartIsCell DEF Slots
  <2>4. held[u]["error"] \in Reachable
    BY <1>2, <2>1, <2>3, CellIs
  <2>5. held[u]["error"] \in Reachable'
    BY <1>1, <1>2, <2>1, <2>3 DEF Reachable, Holders, CellsOf, ValueOf
  <2>6. content'[held[u]["error"]] = content[held[u]["error"]]
    BY <1>1, <2>1, <2>3, <2>4, <2>5, SayingKeeps
  <2> QED BY <2>6 DEF LabelStands, Part
<1> QED
  BY <1>6, <1>7, <1>8, <1>9

\* What the users have is, for the lemmas above, what holders have.
LEMMA HoldersAre ==
  /\ Users \subseteq Holders /\ "keeper" \in Holders
  /\ ValueOf("keeper") = kept
  /\ \A u \in Users : ValueOf(u) = held[u] /\ u # "keeper"
BY KeeperIsNoUser DEF Holders, ValueOf

LEMMA NothingSaid == AsBefore \in [{} -> Says]
BY DEF AsBefore

LEMMA MakeStep ==
  ASSUME IInv, NEW u \in Users, Make(u)
  PROVE  IInv'
<1> USE DEF IInv
<1>1. PICK p \in [Slots(subject) -> {"new", "nil", "theirs"}] :
        Takes(u, [s \in DOMAIN p |-> CASE p[s] = "new"    -> New(u, s)
                                       [] p[s] = "nil"    -> Absent
                                       [] p[s] = "theirs" -> Theirs], FALSE, AsBefore)
  BY DEF Make
<1> DEFINE v == [s \in DOMAIN p |-> CASE p[s] = "new"    -> New(u, s)
                                      [] p[s] = "nil"    -> Absent
                                      [] p[s] = "theirs" -> Theirs]
<1>2. Slots(subject) \subseteq SlotNames
  BY SlotsAre DEF TypeInv, SharingTypeOK
<1>3. DOMAIN v = Slots(subject)
  OBVIOUS
<1>4. \A s \in Slots(subject) : v[s] = New(u, s) \/ v[s] = Absent \/ v[s] = Theirs
  OBVIOUS
<1>5. v = [s \in Slots(subject) |-> v[s]]
  OBVIOUS
<1> HIDE DEF v
<1>6. u \in Holders /\ Theirs \in Cell
  BY HoldersAre DEF Cell
<1>7. v \in Value(subject)
  <2>1. \A s \in Slots(subject) : v[s] \in Cell \cup {Absent}
    BY <1>2, <1>4, <1>6, NewIsNew
  <2> QED BY <1>5, <2>1 DEF Value
<1>8. Proper(v)
  BY <1>2, <1>3, <1>4, <1>6, NewIsNew DEF Proper, Fitting
<1>9. \A x \in CellsOf(v) : x = Theirs \/ \E s \in Slots(subject) : x = New(u, s)
  BY <1>3, <1>4 DEF CellsOf
<1>10. CellsOf(v) \cap CellsOf(kept) = {}
  BY <1>2, <1>6, <1>9, NewIsNew, HoldersAre DEF CopiesArePrivate
<1>11. ASSUME NEW h \in Users \ {u}, copied[h]
       PROVE  CellsOf(v) \cap CellsOf(held[h]) = {}
  <2>1. Theirs \notin CellsOf(held[h])
    BY <1>11 DEF CopiesArePrivate
  <2> QED BY <1>2, <1>6, <1>9, <2>1, NewIsNew, HoldersAre
<1>12. u \notin checked
  BY DEF Make
<1>13. Takes(u, v, FALSE, AsBefore)
  BY <1>1 DEF v
<1> QED
  BY <1>7, <1>8, <1>10, <1>11, <1>12, <1>13, NothingSaid, TakesStep

\* A user gets a copy of what a holder has.
LEMMA CopyStep ==
  ASSUME IInv, NEW u \in Users, u \notin checked, NEW from \in Holders, ValueOf(from) # Absent,
         NEW slots, Slots(subject) \subseteq slots,
         NEW w, w = CopyOf(ValueOf(from), u, slots),
         Takes(u, w, TRUE, LikeIn(ValueOf(from), w))
  PROVE  IInv'
<1>1. /\ w \in Value(subject) /\ Proper(w) /\ Theirs \notin CellsOf(w)
      /\ \A h \in Holders \ {u} : CellsOf(w) \cap CellsOf(ValueOf(h)) = {}
      /\ \A s \in Slots(subject) : w[s] # Absent => ValueOf(from)[s] # Absent
  BY CopyIsNew, HoldersAre DEF IInv
<1>2. LikeIn(ValueOf(from), w) \in [CellsOf(w) -> Says]
  BY <1>1, CopySays DEF IInv
<1>3. /\ CellsOf(w) \cap CellsOf(kept) = {}
      /\ \A h \in Users \ {u} : CellsOf(w) \cap CellsOf(held[h]) = {}
  BY <1>1, HoldersAre
<1> QED
  BY <1>1, <1>2, <1>3, TakesStep

\* A user's value gets new cells or foreign ones, or something is written to it.
LEMMA UserStep ==
  ASSUME IInv, NEW u \in Users,
         \/ Answer(u) \/ \E from \in Users : CloneMessage(u, from)
         \/ \E slot \in Slots(subject) : TakeTheirs(u, slot) \/ Change(u, slot) \/ Allocate(u, slot)
  PROVE  IInv'
<1> USE DEF IInv
<1>0. /\ u \in Holders /\ ValueOf(u) = held[u] /\ "keeper" \in Holders \ {u}
      /\ subject \in Subjects /\ copied \in [Users -> BOOLEAN]
      /\ subject # "result" => checked = {}
  BY HoldersAre DEF TypeInv, SharingTypeOK, CheckedHaveErrors
<1>1. CASE Answer(u)
  <2>1. /\ subject = "result" /\ kept # Absent /\ u \notin checked
        /\ Takes(u, CopyOf(kept, u, {"metadata", "error"}), TRUE,
                 LikeIn(kept, CopyOf(kept, u, {"metadata", "error"})))
    BY <1>1 DEF Answer, cloneSendResult
  <2> QED BY <1>0, <2>1, CopyStep, HoldersAre DEF Slots
<1>2. ASSUME NEW from \in Users, CloneMessage(u, from)
      PROVE  IInv'
  <2>1. /\ subject = "message" /\ held[from] # Absent
        /\ Takes(u, CopyOf(held[from], u, {"params", "metadata"}), TRUE,
                 LikeIn(held[from], CopyOf(held[from], u, {"params", "metadata"})))
    BY <1>2 DEF CloneMessage, Clone, Has
  <2> QED BY <1>0, <2>1, CopyStep, HoldersAre DEF Slots
<1>3. ASSUME NEW slot \in Slots(subject), Has(u)
      PROVE  /\ held[u] # Absent /\ held[u] \in Value(subject) /\ Proper(held[u])
             /\ DOMAIN held[u] = Slots(subject) /\ slot \in SlotNames
  <2>1. held[u] # Absent /\ held[u] \in Value(subject)
    BY <1>0, <1>3, ValueIs DEF Has
  <2> QED BY <1>0, <2>1, ValueIsSomething DEF TypeInv
<1>4. /\ CellsOf(held[u]) \cap CellsOf(kept) = {}
      /\ copied[u] => Theirs \notin CellsOf(held[u])
      /\ \A h \in Users \ {u} : copied[u] \/ copied[h] => CellsOf(held[u]) \cap CellsOf(held[h]) = {}
  BY DEF CopiesArePrivate
<1>5. ASSUME NEW slot \in Slots(subject), TakeTheirs(u, slot)
      PROVE  IInv'
  <2> DEFINE v == [held[u] EXCEPT ![slot] = Theirs]
  <2>1. subject = "message" /\ Has(u) /\ Takes(u, v, FALSE, AsBefore)
    BY <1>5 DEF TakeTheirs
  <2>2. v \in Value(subject)
    BY <1>3, <2>1 DEF Value, Cell
  <2>3. Proper(v)
    BY <1>3, <2>1 DEF Proper, Fitting
  <2>4. CellsOf(v) \subseteq CellsOf(held[u]) \cup {Theirs}
    BY <1>3, <2>1, <2>2 DEF CellsOf
  <2>5. CellsOf(v) \cap CellsOf(kept) = {}
    BY <1>4, <2>4 DEF CopiesArePrivate
  <2>6. ASSUME NEW h \in Users \ {u}, copied[h]
        PROVE  CellsOf(v) \cap CellsOf(held[h]) = {}
    <3>1. Theirs \notin CellsOf(held[h])
      BY <2>6 DEF CopiesArePrivate
    <3> QED BY <1>4, <2>4, <2>6, <3>1
  <2>7. u \notin checked
    BY <1>0, <2>1
  <2> HIDE DEF v
  <2> QED BY <2>1, <2>2, <2>3, <2>5, <2>6, <2>7, NothingSaid, TakesStep
<1>6. ASSUME NEW slot \in Slots(subject), Change(u, slot)
      PROVE  IInv'
  <2>1. /\ Has(u) /\ slot # "error" /\ held[u][slot] # Absent
        /\ Takes(u, held[u], copied[u], Wrote(u, held[u][slot]))
    BY <1>6 DEF Change, Part
  <2>2. held[u][slot] \in CellsOf(held[u])
    BY <1>3, <2>1, PartIsCell
  <2>3. Wrote(u, held[u][slot]) \in [{held[u][slot]} -> Says]
    BY DEF Wrote, Says
  <2>4. u \in checked /\ copied[u] => held[u]["error"] # held[u][slot]
    <3> SUFFICES ASSUME u \in checked, copied[u], held[u]["error"] = held[u][slot]
                 PROVE  FALSE
      OBVIOUS
    <3>1. subject = "result"
      BY <1>0
    <3>2. /\ held[u]["error"] \in Fitting("error") \ {Absent}
          /\ held[u][slot] \in Fitting(slot) \ {Absent}
      BY <1>3, <2>1, <3>1 DEF Proper, Slots
    <3>3. held[u][slot] # Theirs
      BY <1>4, <2>2
    <3> QED BY <2>1, <3>2, <3>3 DEF Fitting
  <2>5. /\ held[u] \in Value(subject) /\ Proper(held[u]) /\ copied[u] \in BOOLEAN
    BY <1>0, <1>3, <2>1
  <2>6. {held[u][slot]} \in SUBSET CellsOf(held[u])
    BY <2>2
  <2> QED BY <1>4, <2>1, <2>3, <2>4, <2>5, <2>6, TakesStep DEF Part
<1>7. ASSUME NEW slot \in Slots(subject), Allocate(u, slot)
      PROVE  IInv'
  <2> DEFINE x == New(u, slot)
             v == [held[u] EXCEPT ![slot] = x]
  <2>1. /\ Has(u) /\ slot \in {"metadata", "params"} /\ held[u][slot] = Absent
        /\ Takes(u, v, copied[u], Wrote(u, x))
    BY <1>7 DEF Allocate, Part
  <2>2. /\ x \in Cell /\ x \in Fitting(slot) /\ x # Theirs /\ x # Absent
        /\ \A h \in Holders \ {u} : x \notin CellsOf(ValueOf(h))
    BY <1>0, <1>3, <2>1, NewIsNew DEF Fitting
  <2> HIDE DEF x
  <2>3. v \in Value(subject)
    BY <1>3, <2>1, <2>2 DEF Value
  <2>4. Proper(v)
    BY <1>3, <2>1, <2>2 DEF Proper
  <2>5. CellsOf(v) \subseteq CellsOf(held[u]) \cup {x} /\ x \in CellsOf(v)
    <3>1. DOMAIN v = Slots(subject) /\ v # Absent /\ v[slot] = x
      BY <1>3, <2>3, ValueIsSomething
    <3>2. \A s \in Slots(subject) \ {slot} : v[s] = held[u][s]
      BY <1>3, <2>1
    <3> QED BY <1>3, <2>1, <2>2, <3>1, <3>2 DEF CellsOf
  <2>6. /\ x \notin CellsOf(kept)
        /\ \A h \in Users \ {u} : x \notin CellsOf(held[h])
    BY <2>2, HoldersAre
  <2>7. Wrote(u, x) \in [{x} -> Says]
    BY DEF Wrote, Says
  <2>8. u \in checked => v["error"] = Part(u, "error")
    BY <1>0, <1>3, <2>1 DEF Part, Slots
  <2>9. u \in checked => v["error"] # x
    <3> SUFFICES ASSUME u \in checked, v["error"] = x PROVE FALSE
      OBVIOUS
    <3>1. held[u]["error"] \in Fitting("error") /\ held[u]["error"] = x
      BY <1>0, <1>3, <2>1, <2>8 DEF Proper, Slots, Part
    <3> QED BY <2>1, <2>2, <3>1 DEF Fitting
  <2>10. copied[u] \in BOOLEAN /\ {x} \in SUBSET CellsOf(v)
    BY <1>0, <2>5
  <2>11. /\ copied[u] => Theirs \notin CellsOf(v)
         /\ CellsOf(v) \cap CellsOf(kept) = {}
         /\ \A h \in Users \ {u} : copied[u] \/ copied[h] => CellsOf(v) \cap CellsOf(held[h]) = {}
    BY <1>4, <2>2, <2>5, <2>6
  <2> HIDE DEF v
  <2> QED BY <2>1, <2>3, <2>4, <2>7, <2>8, <2>9, <2>10, <2>11, TakesStep
<1> QED
  BY <1>1, <1>2, <1>5, <1>6, <1>7
\* Writing to a cell that exists is no matter of who has what.
LEMMA WriteStep ==
  ASSUME IInv, NEW x, NEW by \in Says, NEW now \in SUBSET checked,
         content' = [content EXCEPT ![x] = by], checked' = now,
         UNCHANGED <<subject, held, copied, kept, said>>,
         x \notin CellsOf(kept),
         \A w \in now : copied[w] => x \notin CellsOf(held[w])
  PROVE  IInv'
<1> USE DEF IInv
<1>1. /\ \A h \in Holders : ValueOf(h)' = ValueOf(h)
      /\ Reachable' = Reachable
  BY DEF ValueOf, Reachable, CellsOf
<1>2. SharingTypeOK'
  BY <1>1 DEF TypeInv, SharingTypeOK, Says
<1>3. TypeInv'
  BY <1>1, <1>2 DEF TypeInv, Proper, Fitting, Holders, CheckedHaveErrors, Part
<1>4. CopiesArePrivate'
  BY DEF CopiesArePrivate, CellsOf
<1>5. \A y \in Reachable \ {x} : content'[y] = content[y]
  BY DEF TypeInv, SharingTypeOK
<1>6. KeptStands'
  <2> SUFFICES ASSUME kept # Absent, NEW s \in DOMAIN said
               PROVE  content'[kept[s]] = said[s]
    BY DEF KeptStands
  <2>1. kept[s] \in CellsOf(kept)
    BY ValueIsSomething, PartIsCell DEF TypeInv, SharingTypeOK
  <2>2. kept[s] \in Reachable
    BY <2>1, HoldersAre, CellIs
  <2> QED BY <1>5, <2>1, <2>2 DEF KeptStands
<1>7. LabelStands'
  <2> SUFFICES ASSUME NEW u \in now, copied[u]
               PROVE  content'[held[u]["error"]] = Absent
    BY DEF LabelStands, Part
  <2>1. u \in Users /\ subject = "result" /\ held[u] # Absent /\ held[u]["error"] # Absent
    BY DEF TypeInv, SharingTypeOK, CheckedHaveErrors, Part
  <2>2. DOMAIN held[u] = Slots(subject)
    BY <2>1, HoldersAre, ValueIs, ValueIsSomething
  <2>3. held[u]["error"] \in CellsOf(held[u])
    BY <2>1, <2>2, PartIsCell DEF Slots
  <2>4. held[u]["error"] \in Reachable
    BY <2>1, <2>3, HoldersAre, CellIs
  <2> QED BY <1>5, <2>3, <2>4 DEF LabelStands, Part
<1> QED
  BY <1>3, <1>4, <1>6, <1>7

LEMMA ForgetStep == IInv /\ Forget => IInv'
<1> SUFFICES ASSUME IInv, Forget PROVE IInv'
  OBVIOUS
<1> USE DEF IInv
<1>1. /\ kept' = Absent /\ held' = held /\ said' = AsBefore /\ Saying(AsBefore)
      /\ subject' = subject /\ copied' = copied /\ checked' = checked
  BY DEF Forget
<1>2. \A u \in Users : ValueOf(u)' = held[u] /\ ValueOf(u) = held[u]
  BY <1>1, HoldersAre DEF ValueOf
<1>3. ValueOf("keeper")' = Absent
  BY <1>1, HoldersAre DEF ValueOf
<1>4. DOMAIN said' = {}
  BY <1>1 DEF AsBefore
<1>5. SharingTypeOK'
  <2>1. content' \in [Reachable' -> Says]
    BY <1>1, NothingSaid, SayingKeeps
  <2> QED BY <1>1, <1>4, <2>1 DEF TypeInv, SharingTypeOK, Says
<1>6. TypeInv'
  <2>1. \A h \in Holders : Proper(ValueOf(h)')
    BY <1>2, <1>3 DEF TypeInv, Holders, Proper
  <2> QED BY <1>1, <1>5, <2>1 DEF TypeInv, Proper, Fitting, Holders, CheckedHaveErrors, Part
<1>7. CopiesArePrivate'
  BY <1>1 DEF CopiesArePrivate, CellsOf
<1>8. KeptStands'
  BY <1>1 DEF KeptStands
<1>9. LabelStands'
  <2> SUFFICES ASSUME NEW u \in checked, copied[u]
               PROVE  content'[held[u]["error"]] = Absent
    BY <1>1 DEF LabelStands, Part
  <2>1. u \in Users /\ subject = "result" /\ held[u] # Absent /\ held[u]["error"] # Absent
    BY DEF TypeInv, SharingTypeOK, CheckedHaveErrors, Part
  <2>2. DOMAIN held[u] = Slots(subject)
    BY <2>1, HoldersAre, ValueIs, ValueIsSomething
  <2>3. held[u]["error"] \in CellsOf(held[u])
    BY <2>1, <2>2, PartIsCell DEF Slots
  <2>4. held[u]["error"] \in Reachable
    BY <2>1, <2>3, HoldersAre, CellIs
  <2>5. held[u]["error"] \in Reachable'
    BY <1>1, <1>2, <2>1, <2>3 DEF Reachable, Holders, CellsOf, ValueOf
  <2>6. content'[held[u]["error"]] = content[held[u]["error"]]
    BY <1>1, <2>4, <2>5, NothingSaid, SayingKeeps
  <2> QED BY <2>6 DEF LabelStands, Part
<1> QED
  BY <1>6, <1>7, <1>8, <1>9

LEMMA KeepStep ==
  ASSUME IInv, NEW u \in Users, Keep(u)
  PROVE  IInv'
<1> USE DEF IInv
<1>1. PICK slots :
        /\ Has(u) /\ Slots(subject) \subseteq slots
        /\ Keeps(CopyOf(held[u], "keeper", slots),
                 LikeIn(held[u], CopyOf(held[u], "keeper", slots)))
  <2>1. CASE subject = "result"
    <3>1. Slots(subject) \subseteq {"metadata", "error"}
      BY <2>1 DEF Slots
    <3> QED BY <2>1, <3>1 DEF Keep, cloneSendResult
  <2>2. CASE subject = "config"
    <3>1. Slots(subject) \subseteq {"fields", "headers"}
      BY <2>2 DEF Slots
    <3> QED BY <2>2, <3>1 DEF Keep, snapshot
  <2> QED BY <2>1, <2>2 DEF Keep
<1> DEFINE w == CopyOf(held[u], "keeper", slots)
<1>2. /\ w \in Value(subject) /\ Proper(w) /\ Theirs \notin CellsOf(w)
      /\ \A h \in Holders \ {"keeper"} : CellsOf(w) \cap CellsOf(ValueOf(h)) = {}
      /\ \A s \in Slots(subject) : w[s] # Absent => ValueOf(u)[s] # Absent
  <2>1. ValueOf(u) = held[u] /\ u \in Holders /\ ValueOf(u) # Absent /\ "keeper" \in Holders
    BY <1>1, HoldersAre DEF Has
  <2>2. w = CopyOf(ValueOf(u), "keeper", slots)
    BY <2>1
  <2> HIDE DEF w
  <2> QED BY <1>1, <2>1, <2>2, CopyIsNew
<1> HIDE DEF w
<1>3. LikeIn(held[u], w) \in [CellsOf(w) -> Says]
  <2>1. ValueOf(u) = held[u] /\ u \in Holders /\ ValueOf(u) # Absent
    BY <1>1, HoldersAre DEF Has
  <2>2. LikeIn(ValueOf(u), w) \in [CellsOf(w) -> Says]
    BY <1>2, <2>1, CopySays
  <2> QED BY <2>1, <2>2
<1>4. \A h \in Users : CellsOf(w) \cap CellsOf(held[h]) = {}
  BY <1>2, HoldersAre
<1>5. Keeps(w, LikeIn(held[u], w))
  BY <1>1 DEF w
<1> QED
  BY <1>2, <1>3, <1>4, <1>5, KeepsStep

LEMMA LabelStep ==
  ASSUME IInv, NEW u \in Users, FindUnlabelled(u) \/ Label(u)
  PROVE  IInv'
<1> USE DEF IInv
<1>1. CASE FindUnlabelled(u)
  <2>1. /\ subject = "result" /\ held[u] # Absent /\ held[u]["error"] # Absent
        /\ content[held[u]["error"]] = Absent
        /\ checked' = checked \cup {u}
        /\ UNCHANGED <<subject, held, copied, kept, said, content>>
    BY <1>1 DEF FindUnlabelled, Has, Part
  <2>2. (\A h \in Holders : ValueOf(h)' = ValueOf(h)) /\ Reachable' = Reachable
    BY <2>1 DEF ValueOf, Reachable, CellsOf
  <2>3. SharingTypeOK'
    BY <2>1, <2>2 DEF TypeInv, SharingTypeOK
  <2>4. TypeInv'
    BY <2>1, <2>2, <2>3 DEF TypeInv, Proper, Fitting, Holders, CheckedHaveErrors, Part
  <2>5. CopiesArePrivate' /\ KeptStands' /\ LabelStands'
    BY <2>1 DEF CopiesArePrivate, KeptStands, LabelStands, CellsOf, Part
  <2> QED BY <2>4, <2>5
<1>2. CASE Label(u)
  <2>1. /\ u \in checked
        /\ content' = [content EXCEPT ![held[u]["error"]] = u]
        /\ checked' = checked \ {u}
        /\ UNCHANGED <<subject, held, copied, kept, said>>
    BY <1>2 DEF Label, Part
  <2>2. subject = "result" /\ held[u] # Absent /\ held[u]["error"] # Absent
    BY <2>1 DEF TypeInv, CheckedHaveErrors, Part
  <2>3. DOMAIN held[u] = Slots(subject)
    BY <2>2, HoldersAre, ValueIs, ValueIsSomething
  <2>4. held[u]["error"] \in CellsOf(held[u])
    BY <2>2, <2>3, PartIsCell DEF Slots
  <2>5. held[u]["error"] \notin CellsOf(kept)
    BY <2>4 DEF CopiesArePrivate
  <2>6. ASSUME NEW w \in checked \ {u}, copied[w]
        PROVE  held[u]["error"] \notin CellsOf(held[w])
    <3>1. w \in Users
      BY DEF TypeInv, SharingTypeOK
    <3> QED BY <2>4, <2>6, <3>1 DEF CopiesArePrivate
  <2>7. u \in Says /\ checked \ {u} \in SUBSET checked
    BY DEF Says
  <2> HIDE DEF IInv
  <2> QED BY <2>1, <2>5, <2>6, <2>7, WriteStep
<1> QED
  BY <1>1, <1>2

LEMMA OthersStep == IInv /\ OthersWrite => IInv'
<1> SUFFICES ASSUME IInv, OthersWrite PROVE IInv'
  OBVIOUS
<1>1. /\ content' = [content EXCEPT ![Theirs] = "others"] /\ checked' = checked
      /\ UNCHANGED <<subject, held, copied, kept, said>>
  BY DEF OthersWrite
<1>2. /\ Theirs \notin CellsOf(kept)
      /\ \A w \in checked : copied[w] => Theirs \notin CellsOf(held[w])
  BY DEF IInv, CopiesArePrivate, TypeInv, SharingTypeOK
<1>3. "others" \in Says /\ checked \in SUBSET checked
  BY DEF Says
<1> QED
  BY <1>1, <1>2, <1>3, WriteStep

-----------------------------------------------------------------------------
LEMMA InvInit == InitSharing => IInv
<1> SUFFICES ASSUME InitSharing PROVE IInv
  OBVIOUS
<1> USE DEF InitSharing
<1>1. \A h \in Holders : ValueOf(h) = Absent
  BY KeeperIsNoUser DEF Holders, ValueOf
<1>2. Reachable = {Theirs}
  BY <1>1 DEF Reachable, CellsOf
<1>3. DOMAIN said = {}
  BY DEF AsBefore
<1>4. SharingTypeOK
  BY <1>2, <1>3 DEF SharingTypeOK
<1>5. TypeInv
  BY <1>1, <1>3, <1>4 DEF TypeInv, Proper, CheckedHaveErrors
<1>6. CopiesArePrivate /\ KeptStands /\ LabelStands
  BY DEF CopiesArePrivate, KeptStands, LabelStands, CellsOf
<1> QED
  BY <1>5, <1>6 DEF IInv

LEMMA InvNext == IInv /\ [NextSharing]_sharing => IInv'
<1> SUFFICES ASSUME IInv, [NextSharing]_sharing PROVE IInv'
  OBVIOUS
<1>1. ASSUME NEW u \in Users, Make(u) PROVE IInv'
  BY <1>1, MakeStep
<1>2. ASSUME NEW u \in Users, Keep(u) PROVE IInv'
  BY <1>2, KeepStep
<1>3. ASSUME NEW u \in Users, FindUnlabelled(u) \/ Label(u) PROVE IInv'
  BY <1>3, LabelStep
<1>4. ASSUME NEW u \in Users,
             \/ Answer(u) \/ \E from \in Users : CloneMessage(u, from)
             \/ \E slot \in Slots(subject) :
                  TakeTheirs(u, slot) \/ Change(u, slot) \/ Allocate(u, slot)
      PROVE  IInv'
  BY <1>4, UserStep
<1>5. CASE Forget \/ OthersWrite
  BY <1>5, ForgetStep, OthersStep
<1>6. CASE UNCHANGED sharing
  <2> USE <1>6 DEF sharing, IInv
  <2>1. SharingTypeOK'
    BY DEF TypeInv, SharingTypeOK, Reachable, ValueOf, CellsOf, Holders
  <2>2. TypeInv'
    BY <2>1 DEF TypeInv, Proper, Fitting, Holders, ValueOf, CheckedHaveErrors, Part
  <2>3. CopiesArePrivate' /\ KeptStands' /\ LabelStands'
    BY DEF CopiesArePrivate, KeptStands, LabelStands, CellsOf, Part
  <2> QED BY <2>2, <2>3
<1> QED
  BY <1>1, <1>2, <1>3, <1>4, <1>5, <1>6 DEF NextSharing

LEMMA Invariance == SharingSpec => []IInv
BY InvInit, InvNext, PTL DEF SharingSpec

\* Every variable has its type, and nothing is remembered of cells that nobody
\* can reach.
THEOREM TypeCorrect == SharingSpec => []SharingTypeOK
<1>1. IInv => SharingTypeOK
  BY DEF IInv, TypeInv
<1> QED
  BY <1>1, Invariance, PTL

\* What Reserve, Get, Clone, the store and a provider copied can be reached by
\* nobody but the one who has the copy, for any number of users.
THEOREM CopiesArePrivateAlways == SharingSpec => []CopiesArePrivate
<1>1. IInv => CopiesArePrivate
  BY DEF IInv
<1> QED
  BY <1>1, Invariance, PTL

\* Nothing that users or others do changes what was recorded or configured.
THEOREM KeptStandsAlways == SharingSpec => []KeptStands
<1>1. IInv => KeptStands
  BY DEF IInv
<1> QED
  BY <1>1, Invariance, PTL

\* Nobody labels the error of an answer from the store between NormalizeError's
\* look at it and its write to it.
THEOREM LabelStandsAlways == SharingSpec => []LabelStands
<1>1. IInv => LabelStands
  BY DEF IInv
<1> QED
  BY <1>1, Invariance, PTL
=============================================================================
