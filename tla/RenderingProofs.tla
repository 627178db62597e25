-------------------------- MODULE RenderingProofs --------------------------
(***************************************************************************)
(* Proofs about Rendering, for any symbols, names, templates, values and   *)
(* delimiters: the order of the parameters does not show.                  *)
(*                                                                         *)
(* What a pass over a text yields is a recursive function.  The lemmas     *)
(* below show that it exists, and take texts apart from their end, by      *)
(* induction in the form of least elements.                                *)
(***************************************************************************)
EXTENDS Rendering, SequenceTheorems, WellFoundedInduction, TLAPS

LEMMA LeastElement ==
  ASSUME NEW T \in SUBSET Nat, T # {}
  PROVE  \E n \in T : \A m \in T : n <= m
<1>1. PICK n \in T : \A m \in T : ~(<<m, n>> \in OpToRel(<, Nat))
  BY NatLessThanWellFounded, WFMin
<1>2. \A m \in T : m < n => <<m, n>> \in OpToRel(<, Nat)
  BY DEF OpToRel
<1>3. ASSUME NEW m \in T PROVE n <= m
  <2>1. n \in Nat /\ m \in Nat /\ ~(m < n)
    BY <1>1, <1>2
  <2> QED BY <2>1
<1> QED
  BY <1>3

\* Induction from the end of a text to its beginning.
LEMMA FromTheEnd ==
  ASSUME NEW n \in Nat, NEW T \in SUBSET (1 .. n + 1),
         n + 1 \in T,
         \A i \in 1..n : (\A j \in i + 1 .. n + 1 : j \in T) => i \in T
  PROVE  T = 1 .. n + 1
<1> DEFINE Missing == {m \in Nat : n + 1 - m \in (1 .. n + 1) \ T}
<1> SUFFICES ASSUME Missing # {} PROVE FALSE
  <2>1. \A i \in (1 .. n + 1) \ T : n + 1 - i \in Missing
    OBVIOUS
  <2> QED BY <2>1
<1>1. Missing \in SUBSET Nat
  OBVIOUS
<1>2. PICK m \in Missing : \A o \in Missing : m <= o
  <2> HIDE DEF Missing
  <2> QED BY <1>1, LeastElement
<1>3. /\ m \in Nat /\ n + 1 - m \in 1 .. n + 1 /\ n + 1 - m \notin T
  BY <1>2
<1>4. \A j \in n + 1 - m + 1 .. n + 1 : j \in T
  <2> SUFFICES ASSUME NEW j \in n + 1 - m + 1 .. n + 1, j \notin T PROVE FALSE
    OBVIOUS
  <2>1. n + 1 - j \in Nat /\ n + 1 - (n + 1 - j) = j
    BY <1>3
  <2>2. n + 1 - j \in Missing
    BY <1>3, <2>1
  <2> QED BY <1>2, <1>3, <2>1, <2>2
<1>5. n + 1 - m \in 1..n
  BY <1>3
<1> QED
  BY <1>3, <1>4, <1>5

-----------------------------------------------------------------------------
(* Passes.                                                                 *)

\* The pieces are texts, and each is followed by a later one.
Pass(piece, next) ==
  /\ piece \in Seq(Seq(Symbols))
  /\ next \in [1..Len(piece) -> 1 .. Len(piece) + 1]
  /\ \A i \in 1..Len(piece) : next[i] > i

LEMMA PiecesOfPass ==
  ASSUME NEW piece, NEW next, Pass(piece, next)
  PROVE  /\ Len(piece) \in Nat
         /\ \A i \in 1..Len(piece) : /\ piece[i] \in Seq(Symbols)
                                    /\ next[i] \in i + 1 .. Len(piece) + 1
<1>1. Len(piece) \in Nat
  BY LenProperties DEF Pass
<1>2. ASSUME NEW i \in 1..Len(piece) PROVE piece[i] \in Seq(Symbols)
  BY ElementOfSeq DEF Pass
<1>3. ASSUME NEW i \in 1..Len(piece) PROVE next[i] \in i + 1 .. Len(piece) + 1
  <2>1. next[i] \in 1 .. Len(piece) + 1 /\ next[i] > i
    BY DEF Pass
  <2> QED BY <1>1, <2>1
<1> QED
  BY <1>1, <1>2, <1>3

\* The recursive function exists: it can be built from the end.
LEMMA PassExists ==
  ASSUME NEW piece, NEW next, Pass(piece, next)
  PROVE  \E f \in [1 .. Len(piece) + 1 -> Seq(Symbols)] :
           \A i \in 1 .. Len(piece) + 1 :
             f[i] = IF i > Len(piece) THEN <<>> ELSE piece[i] \o f[next[i]]
<1> DEFINE n == Len(piece)
           Good(f, i) == \A j \in i .. n + 1 :
                           f[j] = IF j > n THEN <<>> ELSE piece[j] \o f[next[j]]
           T == {i \in 1 .. n + 1 : \E f \in [1 .. n + 1 -> Seq(Symbols)] : Good(f, i)}
<1>0. /\ n \in Nat
      /\ \A i \in 1..n : piece[i] \in Seq(Symbols) /\ next[i] \in i + 1 .. n + 1
  BY PiecesOfPass
<1> HIDE DEF n
<1>1. n + 1 \in T
  <2> DEFINE f == [i \in 1 .. n + 1 |-> <<>>]
  <2>1. f \in [1 .. n + 1 -> Seq(Symbols)]
    OBVIOUS
  <2>2. Good(f, n + 1)
    BY <1>0
  <2> HIDE DEF f, Good
  <2> QED BY <1>0, <2>1, <2>2
<1>2. ASSUME NEW i \in 1..n, i + 1 \in T
      PROVE  i \in T
  <2>1. PICK f \in [1 .. n + 1 -> Seq(Symbols)] : Good(f, i + 1)
    BY <1>2
  <2> DEFINE g == [f EXCEPT ![i] = piece[i] \o f[next[i]]]
  <2>2. next[i] \in i + 1 .. n + 1 /\ piece[i] \in Seq(Symbols)
    BY <1>0
  <2>3. f[next[i]] \in Seq(Symbols)
    BY <1>0, <2>2
  <2>4. piece[i] \o f[next[i]] \in Seq(Symbols)
    BY <2>2, <2>3, ConcatProperties
  <2>5. g \in [1 .. n + 1 -> Seq(Symbols)]
    BY <2>4
  <2>6. g[i] = piece[i] \o f[next[i]] /\ \A j \in i + 1 .. n + 1 : g[j] = f[j]
    <3>1. i \in DOMAIN f /\ \A j \in i + 1 .. n + 1 : j \in DOMAIN f /\ j # i
      BY <1>0
    <3> QED BY <3>1
  <2> HIDE DEF g
  <2>7. g[i] = piece[i] \o g[next[i]]
    BY <2>2, <2>6
  <2>8. ASSUME NEW j \in i + 1 .. n + 1
        PROVE  g[j] = IF j > n THEN <<>> ELSE piece[j] \o g[next[j]]
    <3>1. g[j] = IF j > n THEN <<>> ELSE piece[j] \o f[next[j]]
      BY <2>1, <2>6
    <3>2. j \in 1..n => next[j] \in i + 1 .. n + 1
      BY <1>0
    <3>3. j \in 1..n => g[next[j]] = f[next[j]]
      BY <2>6, <3>2
    <3> QED BY <1>0, <3>1, <3>3
  <2>9. Good(g, i)
    <3> SUFFICES ASSUME NEW j \in i .. n + 1
                 PROVE  g[j] = IF j > n THEN <<>> ELSE piece[j] \o g[next[j]]
      OBVIOUS
    <3>1. CASE j = i
      <4>1. ~(j > n)
        BY <1>0, <3>1
      <4>2. g[j] = piece[j] \o g[next[j]]
        BY <2>7, <3>1
      <4> QED BY <4>1, <4>2
    <3>2. CASE j # i
      <4>1. j \in i + 1 .. n + 1
        BY <1>0, <3>2
      <4> QED BY <2>8, <4>1
    <3> QED BY <3>1, <3>2
  <2> HIDE DEF Good
  <2> QED BY <1>0, <2>5, <2>9
<1>3. 1 \in T
  <2>1. \A i \in 1..n : (\A j \in i + 1 .. n + 1 : j \in T) => i \in T
    <3> HIDE DEF T
    <3> QED BY <1>0, <1>2
  <2>2. T \in SUBSET (1 .. n + 1)
    OBVIOUS
  <2> HIDE DEF T
  <2>3. T = 1 .. n + 1
    BY <1>0, <1>1, <2>1, <2>2, FromTheEnd
  <2> QED BY <1>0, <2>3
<1>4. PICK f \in [1 .. n + 1 -> Seq(Symbols)] : Good(f, 1)
  BY <1>3
<1>5. \A i \in 1 .. n + 1 : f[i] = IF i > n THEN <<>> ELSE piece[i] \o f[next[i]]
  BY <1>4
<1> QED
  BY <1>5 DEF n

\* What a pass yields from a position on: its piece, and what the next one
\* yields.
LEMMA PassUnfolds ==
  ASSUME NEW piece, NEW next, Pass(piece, next)
  PROVE  /\ AssembledFrom(piece, next) \in [1 .. Len(piece) + 1 -> Seq(Symbols)]
         /\ AssembledFrom(piece, next)[Len(piece) + 1] = <<>>
         /\ \A i \in 1..Len(piece) :
              AssembledFrom(piece, next)[i] = piece[i] \o AssembledFrom(piece, next)[next[i]]
<1> DEFINE n == Len(piece)
           f == AssembledFrom(piece, next)
           Eq(h) == h = [i \in 1 .. n + 1 |-> IF i > n THEN <<>> ELSE piece[i] \o h[next[i]]]
<1>0. /\ n \in Nat
      /\ \A i \in 1..n : piece[i] \in Seq(Symbols) /\ next[i] \in i + 1 .. n + 1
  BY PiecesOfPass
<1>1. Eq(f)
  <2>1. f = CHOOSE h : Eq(h)
    BY DEF AssembledFrom
  <2>2. \E h : Eq(h)
    <3>1. PICK h \in [1 .. Len(piece) + 1 -> Seq(Symbols)] :
            \A i \in 1 .. Len(piece) + 1 :
              h[i] = IF i > Len(piece) THEN <<>> ELSE piece[i] \o h[next[i]]
      BY PassExists
    <3>2. Eq(h)
      BY <3>1
    <3> HIDE DEF Eq
    <3> QED BY <3>2
  <2> HIDE DEF Eq
  <2> QED BY <2>1, <2>2
<1>2. /\ DOMAIN f = 1 .. n + 1 /\ f = [i \in 1 .. n + 1 |-> f[i]]
      /\ f[n + 1] = <<>>
      /\ \A i \in 1..n : f[i] = piece[i] \o f[next[i]]
  <2>1. DOMAIN f = 1 .. n + 1 /\ f = [i \in 1 .. n + 1 |-> f[i]]
    BY <1>1
  <2>2. \A i \in 1 .. n + 1 : f[i] = IF i > n THEN <<>> ELSE piece[i] \o f[next[i]]
    BY <1>1
  <2>3. n + 1 \in 1 .. n + 1 /\ n + 1 > n /\ \A i \in 1..n : i \in 1 .. n + 1 /\ ~(i > n)
    BY <1>0
  <2>4. f[n + 1] = <<>>
    BY <2>2, <2>3
  <2>5. \A i \in 1..n : f[i] = piece[i] \o f[next[i]]
    BY <2>2, <2>3
  <2> QED BY <2>1, <2>4, <2>5
<1> HIDE DEF Eq, n, f
<1> DEFINE T == {i \in 1 .. n + 1 : f[i] \in Seq(Symbols)}
<1>3. T = 1 .. n + 1
  <2>1. n + 1 \in T
    <3>1. <<>> \in Seq(Symbols)
      BY EmptySeq
    <3>2. f[n + 1] \in Seq(Symbols)
      BY <1>2, <3>1, Zenon
    <3>3. n + 1 \in 1 .. n + 1
      BY <1>0
    <3> QED BY <3>2, <3>3
  <2>2. ASSUME NEW i \in 1..n, \A j \in i + 1 .. n + 1 : j \in T PROVE i \in T
    <3>1. f[next[i]] \in Seq(Symbols) /\ piece[i] \in Seq(Symbols)
      BY <1>0, <2>2
    <3>2. f[i] \in Seq(Symbols)
      BY <1>2, <3>1, ConcatProperties
    <3> QED BY <1>0, <3>2
  <2>3. T \in SUBSET (1 .. n + 1)
    OBVIOUS
  <2> HIDE DEF T
  <2> QED BY <1>0, <2>1, <2>2, <2>3, FromTheEnd
<1>4. \A i \in 1 .. n + 1 : f[i] \in Seq(Symbols)
  BY <1>3
<1>5. f \in [1 .. n + 1 -> Seq(Symbols)]
  BY <1>2, <1>4
<1> QED
  BY <1>2, <1>5 DEF n, f

LEMMA Regroup ==
  ASSUME NEW s \in Seq(Symbols), NEW t \in Seq(Symbols), NEW u \in Seq(Symbols)
  PROVE  s \o (t \o u) = (s \o t) \o u
<1>1. (s \o t) \o u = s \o (t \o u)
  BY ConcatAssociative
<1> QED BY <1>1

\* From i up to j the pieces are the symbols of a text.
Literally(piece, next, text, i, j) ==
  \A h \in i .. j - 1 : piece[h] = <<text[h]>> /\ next[h] = h + 1

\* There a pass yields the text.
LEMMA PassLiterals ==
  ASSUME NEW piece, NEW next, Pass(piece, next),
         NEW text \in Seq(Symbols), Len(text) = Len(piece),
         NEW j \in 1 .. Len(text) + 1, NEW i \in 1..j,
         Literally(piece, next, text, i, j)
  PROVE  AssembledFrom(piece, next)[i] = SubSeq(text, i, j - 1) \o AssembledFrom(piece, next)[j]
<1> DEFINE n == Len(text)
           f == AssembledFrom(piece, next)
           T == {h \in 1 .. j - 1 + 1 : h >= i => f[h] = SubSeq(text, h, j - 1) \o f[j]}
<1>0. /\ n \in Nat /\ j \in Int /\ i \in Int /\ j - 1 \in Nat /\ j - 1 + 1 = j
      /\ i \in 1 .. j - 1 + 1 /\ j - 1 <= n
  BY PiecesOfPass
<1>1. /\ f \in [1 .. n + 1 -> Seq(Symbols)]
      /\ \A h \in 1..n : f[h] = piece[h] \o f[next[h]]
  <2>1. AssembledFrom(piece, next) \in [1 .. Len(piece) + 1 -> Seq(Symbols)]
    BY PassUnfolds
  <2>2. ASSUME NEW h \in 1..Len(piece)
        PROVE  AssembledFrom(piece, next)[h] = piece[h] \o AssembledFrom(piece, next)[next[h]]
    BY PassUnfolds
  <2> QED BY <2>1, <2>2
<1>2. f[j] \in Seq(Symbols)
  BY <1>0, <1>1
<1> HIDE DEF n, f
<1>3. j - 1 + 1 \in T
  <2>1. SubSeq(text, j, j - 1) = <<>>
    BY <1>0, SubSeqEmpty
  <2>2. SubSeq(text, j, j - 1) \o f[j] = f[j]
    BY <1>2, <2>1, ConcatEmptySeq
  <2> QED BY <1>0, <2>2
<1>4. ASSUME NEW h \in 1 .. j - 1, \A g \in h + 1 .. j - 1 + 1 : g \in T
      PROVE  h \in T
  <2> SUFFICES ASSUME h >= i PROVE f[h] = SubSeq(text, h, j - 1) \o f[j]
    <3>1. h \in 1 .. j - 1 + 1
      BY <1>0
    <3> QED BY <3>1
  <2>1. h \in i .. j - 1 /\ h \in 1..n /\ h + 1 \in h + 1 .. j - 1 + 1 /\ h + 1 >= i
    BY <1>0
  <2>2. f[h] = <<text[h]>> \o f[h + 1]
    BY <1>1, <2>1 DEF Literally
  <2>3. f[h + 1] = SubSeq(text, h + 1, j - 1) \o f[j]
    BY <1>4, <2>1
  <2>4. SubSeq(text, h, j - 1) = <<text[h]>> \o SubSeq(text, h + 1, j - 1)
    <3>1. h \in 1 .. Len(text) /\ j - 1 \in h .. Len(text)
      BY <1>0, <2>1
    <3> QED BY <3>1, SubSeqRecursiveFirst
  <2>5. <<text[h]>> \in Seq(Symbols) /\ SubSeq(text, h + 1, j - 1) \in Seq(Symbols)
    <3>1. \A g \in h .. j - 1 : g \in 1 .. Len(text)
      BY <1>0, <2>1
    <3>2. \A g \in h .. j - 1 : text[g] \in Symbols
      BY <3>1, ElementOfSeq
    <3>3. h \in h .. j - 1 /\ \A g \in h + 1 .. j - 1 : g \in h .. j - 1
      BY <1>0, <2>1
    <3>4. \A g \in h + 1 .. j - 1 : text[g] \in Symbols
      BY <3>2, <3>3
    <3>5. h + 1 \in Int /\ j - 1 \in Int
      BY <1>0
    <3>6. SubSeq(text, h + 1, j - 1) \in Seq(Symbols)
      BY <3>4, <3>5, SubSeqProperties
    <3> QED BY <3>2, <3>3, <3>6
  <2>6. <<text[h]>> \o (SubSeq(text, h + 1, j - 1) \o f[j])
        = (<<text[h]>> \o SubSeq(text, h + 1, j - 1)) \o f[j]
    BY <1>2, <2>5, Regroup
  <2> QED BY <2>2, <2>3, <2>4, <2>6
<1>5. T \in SUBSET (1 .. j - 1 + 1)
  OBVIOUS
<1> HIDE DEF T
<1>6. T = 1 .. j - 1 + 1
  BY <1>0, <1>3, <1>4, <1>5, FromTheEnd
<1>7. i \in T /\ i >= i
  BY <1>0, <1>6
<1> QED
  BY <1>7 DEF T, f

-----------------------------------------------------------------------------
(* ReplaceAll.                                                             *)

ReplacePieces(text, s, by) ==
  [i \in 1..Len(text) |-> IF IsAt(s, text, i) THEN by ELSE <<text[i]>>]

ReplaceNexts(text, s) ==
  [i \in 1..Len(text) |-> i + IF IsAt(s, text, i) THEN Len(s) ELSE 1]

ReplacedFrom(text, s, by) ==
  AssembledFrom(ReplacePieces(text, s, by), ReplaceNexts(text, s))

LEMMA ReplaceAllIsPass ==
  ASSUME NEW text \in Seq(Symbols), NEW s \in Seq(Symbols), NEW by \in Seq(Symbols),
         s # <<>>
  PROVE  /\ Pass(ReplacePieces(text, s, by), ReplaceNexts(text, s))
         /\ Len(ReplacePieces(text, s, by)) = Len(text)
         /\ ReplaceAll(text, s, by) = ReplacedFrom(text, s, by)[1]
<1> DEFINE P == ReplacePieces(text, s, by)
           N == ReplaceNexts(text, s)
<1>1. Len(text) \in Nat /\ Len(s) \in Nat \ {0}
  BY LenProperties, EmptySeq
<1>2. ASSUME NEW i \in 1..Len(text)
      PROVE  /\ P[i] = IF IsAt(s, text, i) THEN by ELSE <<text[i]>>
             /\ N[i] = i + IF IsAt(s, text, i) THEN Len(s) ELSE 1
             /\ P[i] \in Seq(Symbols)
             /\ N[i] \in 1 .. Len(text) + 1 /\ N[i] > i
  <2>1. P[i] = IF IsAt(s, text, i) THEN by ELSE <<text[i]>>
    BY DEF ReplacePieces
  <2>2. N[i] = i + IF IsAt(s, text, i) THEN Len(s) ELSE 1
    BY DEF ReplaceNexts
  <2>3. text[i] \in Symbols
    BY ElementOfSeq
  <2>4. P[i] \in Seq(Symbols)
    BY <2>1, <2>3
  <2>5. IsAt(s, text, i) => i + Len(s) - 1 <= Len(text)
    BY DEF IsAt
  <2>6. N[i] \in 1 .. Len(text) + 1 /\ N[i] > i
    BY <1>1, <2>2, <2>5
  <2> QED BY <2>1, <2>2, <2>4, <2>6
<1>3. P \in [1..Len(text) -> Seq(Symbols)]
  BY <1>2 DEF ReplacePieces
<1>4. P \in Seq(Seq(Symbols)) /\ Len(P) = Len(text)
  BY <1>1, <1>3
<1>5. N \in [1..Len(P) -> 1 .. Len(P) + 1]
  BY <1>2, <1>4 DEF ReplaceNexts
<1>6. Pass(P, N)
  BY <1>2, <1>4, <1>5 DEF Pass
<1>7. ReplaceAll(text, s, by) = ReplacedFrom(text, s, by)[1]
  BY DEF ReplaceAll, Assembled, ReplacedFrom, ReplacePieces, ReplaceNexts
<1> QED
  BY <1>4, <1>6, <1>7

\* What replacing does from a position of the text on.
LEMMA ReplacedUnfolds ==
  ASSUME NEW text \in Seq(Symbols), NEW s \in Seq(Symbols), NEW by \in Seq(Symbols),
         s # <<>>
  PROVE  /\ ReplacedFrom(text, s, by) \in [1 .. Len(text) + 1 -> Seq(Symbols)]
         /\ ReplacedFrom(text, s, by)[Len(text) + 1] = <<>>
         /\ \A i \in 1..Len(text) :
              /\ IsAt(s, text, i) =>
                   /\ i + Len(s) \in i + 1 .. Len(text) + 1
                   /\ ReplacedFrom(text, s, by)[i] = by \o ReplacedFrom(text, s, by)[i + Len(s)]
              /\ ~IsAt(s, text, i) =>
                   ReplacedFrom(text, s, by)[i] = <<text[i]>> \o ReplacedFrom(text, s, by)[i + 1]
<1> DEFINE R == ReplacedFrom(text, s, by)
           P == ReplacePieces(text, s, by)
           N == ReplaceNexts(text, s)
<1>1. Pass(P, N) /\ Len(P) = Len(text)
  BY ReplaceAllIsPass
<1>2. R = AssembledFrom(P, N)
  BY DEF ReplacedFrom, R
<1>3. \A i \in 1..Len(text) :
        /\ P[i] = IF IsAt(s, text, i) THEN by ELSE <<text[i]>>
        /\ N[i] = i + IF IsAt(s, text, i) THEN Len(s) ELSE 1
  BY DEF ReplacePieces, ReplaceNexts
<1> HIDE DEF P, N, R
<1>4. /\ R \in [1 .. Len(text) + 1 -> Seq(Symbols)]
      /\ R[Len(text) + 1] = <<>>
      /\ \A i \in 1..Len(text) : R[i] = P[i] \o R[N[i]]
  <2>1. /\ AssembledFrom(P, N) \in [1 .. Len(P) + 1 -> Seq(Symbols)]
        /\ AssembledFrom(P, N)[Len(P) + 1] = <<>>
        /\ \A i \in 1..Len(P) : AssembledFrom(P, N)[i] = P[i] \o AssembledFrom(P, N)[N[i]]
    BY <1>1, PassUnfolds, Zenon
  <2> QED BY <1>1, <1>2, <2>1
<1>5. \A i \in 1..Len(text) : N[i] \in i + 1 .. Len(text) + 1
  BY <1>1, PiecesOfPass
<1>6. ASSUME NEW i \in 1..Len(text)
      PROVE  /\ IsAt(s, text, i) => /\ i + Len(s) \in i + 1 .. Len(text) + 1
                                    /\ R[i] = by \o R[i + Len(s)]
             /\ ~IsAt(s, text, i) => R[i] = <<text[i]>> \o R[i + 1]
  <2>1. CASE IsAt(s, text, i)
    <3>1. P[i] = by /\ N[i] = i + Len(s)
      BY <1>3, <2>1
    <3> QED BY <1>4, <1>5, <2>1, <3>1
  <2>2. CASE ~IsAt(s, text, i)
    <3>1. P[i] = <<text[i]>> /\ N[i] = i + 1
      BY <1>3, <2>2
    <3> QED BY <1>4, <2>2, <3>1
  <2> QED BY <2>1, <2>2
<1> QED
  BY <1>4, <1>6 DEF R

\* After a prefix, a text is as it would be alone.
LEMMA AfterPrefix ==
  ASSUME NEW c \in Seq(Symbols), NEW rest \in Seq(Symbols), NEW s \in Seq(Symbols)
  PROVE  /\ c \o rest \in Seq(Symbols)
         /\ Len(c) \in Nat /\ Len(rest) \in Nat /\ Len(s) \in Nat
         /\ Len(c \o rest) = Len(c) + Len(rest)
         /\ \A i \in 1..Len(c) : (c \o rest)[i] = c[i]
         /\ \A i \in 1..Len(rest) : /\ Len(c) + i \in 1..Len(c \o rest)
                                   /\ (c \o rest)[Len(c) + i] = rest[i]
                                   /\ IsAt(s, c \o rest, Len(c) + i) <=> IsAt(s, rest, i)
<1>1. Len(c) \in Nat /\ Len(rest) \in Nat /\ Len(s) \in Nat /\ DOMAIN s = 1..Len(s)
  BY LenProperties
<1>2. /\ c \o rest \in Seq(Symbols)
      /\ Len(c \o rest) = Len(c) + Len(rest)
      /\ \A i \in 1 .. Len(c) + Len(rest) :
           (c \o rest)[i] = IF i <= Len(c) THEN c[i] ELSE rest[i - Len(c)]
  BY ConcatProperties
<1>3. ASSUME NEW i \in 1..Len(c) PROVE (c \o rest)[i] = c[i]
  <2>1. i \in 1 .. Len(c) + Len(rest) /\ i <= Len(c)
    BY <1>1
  <2> QED BY <1>2, <2>1
<1>4. ASSUME NEW i \in 1..Len(rest)
      PROVE  Len(c) + i \in 1..Len(c \o rest) /\ (c \o rest)[Len(c) + i] = rest[i]
  <2>1. Len(c) + i \in 1 .. Len(c) + Len(rest) /\ ~(Len(c) + i <= Len(c))
        /\ Len(c) + i - Len(c) = i
    BY <1>1
  <2> QED BY <1>2, <2>1
<1>5. ASSUME NEW i \in 1..Len(rest)
      PROVE  IsAt(s, c \o rest, Len(c) + i) <=> IsAt(s, rest, i)
  <2>1. Len(c) + i + Len(s) - 1 <= Len(c \o rest) <=> i + Len(s) - 1 <= Len(rest)
    BY <1>1, <1>2
  <2>2. ASSUME i + Len(s) - 1 <= Len(rest), NEW h \in 1..Len(s)
        PROVE  (c \o rest)[Len(c) + i + h - 1] = rest[i + h - 1]
    <3>1. i + h - 1 \in 1..Len(rest) /\ Len(c) + (i + h - 1) = Len(c) + i + h - 1
      BY <1>1, <2>2
    <3> QED BY <1>4, <3>1
  <2> QED BY <1>1, <2>1, <2>2 DEF IsAt
<1> QED
  BY <1>1, <1>2, <1>3, <1>4, <1>5

LEMMA ReplacedAfterPrefix ==
  ASSUME NEW c \in Seq(Symbols), NEW rest \in Seq(Symbols),
         NEW s \in Seq(Symbols), NEW by \in Seq(Symbols), s # <<>>
  PROVE  ReplacedFrom(c \o rest, s, by)[Len(c) + 1] = ReplaceAll(rest, s, by)
<1> DEFINE n == Len(rest)
           G == ReplacedFrom(c \o rest, s, by)
           H == ReplacedFrom(rest, s, by)
           T == {i \in 1 .. n + 1 : G[Len(c) + i] = H[i]}
<1>1. /\ c \o rest \in Seq(Symbols)
      /\ Len(c) \in Nat /\ n \in Nat /\ Len(s) \in Nat
      /\ Len(c \o rest) = Len(c) + n
      /\ \A i \in 1..n : /\ Len(c) + i \in 1..Len(c \o rest)
                         /\ (c \o rest)[Len(c) + i] = rest[i]
                         /\ IsAt(s, c \o rest, Len(c) + i) <=> IsAt(s, rest, i)
  BY AfterPrefix
<1>2. /\ H[n + 1] = <<>>
      /\ \A i \in 1..n :
           /\ IsAt(s, rest, i) => /\ i + Len(s) \in i + 1 .. n + 1
                                  /\ H[i] = by \o H[i + Len(s)]
           /\ ~IsAt(s, rest, i) => H[i] = <<rest[i]>> \o H[i + 1]
  BY ReplacedUnfolds
<1>3. /\ G[Len(c \o rest) + 1] = <<>>
      /\ \A i \in 1..Len(c \o rest) :
           /\ IsAt(s, c \o rest, i) => G[i] = by \o G[i + Len(s)]
           /\ ~IsAt(s, c \o rest, i) => G[i] = <<(c \o rest)[i]>> \o G[i + 1]
  <2> DEFINE text == c \o rest
  <2>1. text \in Seq(Symbols)
    BY <1>1
  <2> HIDE DEF text
  <2>2. /\ ReplacedFrom(text, s, by)[Len(text) + 1] = <<>>
        /\ \A i \in 1..Len(text) :
             /\ IsAt(s, text, i) =>
                  /\ i + Len(s) \in i + 1 .. Len(text) + 1
                  /\ ReplacedFrom(text, s, by)[i] = by \o ReplacedFrom(text, s, by)[i + Len(s)]
             /\ ~IsAt(s, text, i) =>
                  ReplacedFrom(text, s, by)[i] = <<text[i]>> \o ReplacedFrom(text, s, by)[i + 1]
    BY <2>1, ReplacedUnfolds
  <2> QED BY <2>2 DEF text
<1>4. ReplaceAll(rest, s, by) = H[1]
  BY ReplaceAllIsPass
<1> HIDE DEF n, G, H
<1>5. n + 1 \in T
  <2>1. Len(c) + (n + 1) = Len(c \o rest) + 1 /\ n + 1 \in 1 .. n + 1
    BY <1>1
  <2> QED BY <1>2, <1>3, <2>1
<1>6. ASSUME NEW i \in 1..n, \A j \in i + 1 .. n + 1 : j \in T
      PROVE  i \in T
  <2>1. \A j \in i + 1 .. n + 1 : G[Len(c) + j] = H[j]
    BY <1>6
  <2>2. Len(c) + i \in 1..Len(c \o rest) /\ i \in 1 .. n + 1
    BY <1>1
  <2>3. CASE IsAt(s, rest, i)
    <3>1. H[i] = by \o H[i + Len(s)] /\ G[Len(c) + i] = by \o G[Len(c) + i + Len(s)]
      BY <1>1, <1>2, <1>3, <2>2, <2>3
    <3>2. Len(c) + i + Len(s) = Len(c) + (i + Len(s))
      BY <1>1
    <3>4. i + Len(s) \in i + 1 .. n + 1
      BY <1>2, <2>3
    <3>3. G[Len(c) + (i + Len(s))] = H[i + Len(s)]
      BY <2>1, <3>4
    <3> QED BY <2>2, <3>1, <3>2, <3>3
  <2>4. CASE ~IsAt(s, rest, i)
    <3>1. /\ H[i] = <<rest[i]>> \o H[i + 1]
          /\ G[Len(c) + i] = <<rest[i]>> \o G[Len(c) + i + 1]
      BY <1>1, <1>2, <1>3, <2>2, <2>4
    <3>2. Len(c) + i + 1 = Len(c) + (i + 1) /\ i + 1 \in i + 1 .. n + 1
      BY <1>1
    <3>3. G[Len(c) + (i + 1)] = H[i + 1]
      BY <2>1, <3>2
    <3> QED BY <2>2, <3>1, <3>2, <3>3
  <2> QED BY <2>3, <2>4
<1>7. T \in SUBSET (1 .. n + 1)
  OBVIOUS
<1> HIDE DEF T
<1>8. T = 1 .. n + 1
  BY <1>1, <1>5, <1>6, <1>7, FromTheEnd
<1>9. 1 \in T
  BY <1>1, <1>8
<1>10. G[Len(c) + 1] = H[1]
  BY <1>9 DEF T
<1> QED
  BY <1>4, <1>10 DEF G

LEMMA ReplaceHere ==
  ASSUME NEW rest \in Seq(Symbols), NEW s \in Seq(Symbols), NEW by \in Seq(Symbols), s # <<>>
  PROVE  ReplaceAll(s \o rest, s, by) = by \o ReplaceAll(rest, s, by)
<1> DEFINE G == ReplacedFrom(s \o rest, s, by)
<1>1. /\ s \o rest \in Seq(Symbols) /\ Len(s) \in Nat \ {0} /\ Len(rest) \in Nat
      /\ Len(s \o rest) = Len(s) + Len(rest)
      /\ \A i \in 1..Len(s) : (s \o rest)[i] = s[i]
  BY AfterPrefix, EmptySeq
<1>2. IsAt(s, s \o rest, 1)
  <2>1. DOMAIN s = 1..Len(s)
    BY LenProperties
  <2>2. \A h \in DOMAIN s : 1 + h - 1 = h
    BY <1>1, <2>1
  <2>3. 1 + Len(s) - 1 <= Len(s \o rest)
    BY <1>1
  <2> QED BY <1>1, <2>1, <2>2, <2>3 DEF IsAt
<1>3. 1 \in 1..Len(s \o rest) /\ 1 + Len(s) = Len(s) + 1
  BY <1>1
<1>4. \A i \in 1..Len(s \o rest) : IsAt(s, s \o rest, i) => G[i] = by \o G[i + Len(s)]
  <2> DEFINE text == s \o rest
  <2>1. text \in Seq(Symbols)
    BY <1>1
  <2> HIDE DEF text
  <2>2. \A i \in 1..Len(text) : IsAt(s, text, i) =>
          ReplacedFrom(text, s, by)[i] = by \o ReplacedFrom(text, s, by)[i + Len(s)]
    BY <2>1, ReplacedUnfolds
  <2> QED BY <2>2 DEF text
<1>5. G[1] = by \o G[Len(s) + 1]
  BY <1>2, <1>3, <1>4
<1>6. G[Len(s) + 1] = ReplaceAll(rest, s, by)
  BY ReplacedAfterPrefix
<1>7. ReplaceAll(s \o rest, s, by) = G[1]
  BY <1>1, ReplaceAllIsPass
<1> QED
  BY <1>5, <1>6, <1>7

\* Where it does not begin, nothing is put in.
LEMMA ReplaceLater ==
  ASSUME NEW c \in Seq(Symbols), NEW rest \in Seq(Symbols),
         NEW s \in Seq(Symbols), NEW by \in Seq(Symbols), s # <<>>,
         \A i \in 1..Len(c) : ~IsAt(s, c \o rest, i)
  PROVE  ReplaceAll(c \o rest, s, by) = c \o ReplaceAll(rest, s, by)
<1> DEFINE text == c \o rest
           P == ReplacePieces(text, s, by)
           N == ReplaceNexts(text, s)
           G == ReplacedFrom(text, s, by)
           j == Len(c) + 1
<1>1. /\ text \in Seq(Symbols) /\ Len(c) \in Nat /\ Len(rest) \in Nat
      /\ Len(text) = Len(c) + Len(rest)
      /\ \A i \in 1..Len(c) : text[i] = c[i]
  BY AfterPrefix
<1>2. /\ Pass(P, N) /\ Len(text) = Len(P)
      /\ ReplaceAll(text, s, by) = G[1]
  BY <1>1, ReplaceAllIsPass
<1>3. Literally(P, N, text, 1, j)
  <2>1. \A h \in 1 .. j - 1 : h \in 1..Len(text) /\ h \in 1..Len(c)
    BY <1>1
  <2>2. \A h \in 1 .. j - 1 : ~IsAt(s, text, h)
    BY <2>1
  <2> HIDE DEF text, j
  <2> QED BY <2>1, <2>2 DEF Literally, ReplacePieces, ReplaceNexts
<1>4. j \in 1 .. Len(text) + 1 /\ 1 \in 1..j /\ j - 1 = Len(c)
  BY <1>1
<1>5. G[j] = ReplaceAll(rest, s, by)
  BY ReplacedAfterPrefix
<1>6. SubSeq(text, 1, Len(c)) = c
  <2>1. SubSeq(text, 1, Len(c)) \in Seq(Symbols) /\ Len(SubSeq(text, 1, Len(c))) = Len(c)
        /\ \A i \in 1..Len(c) : SubSeq(text, 1, Len(c))[i] = text[i]
    <3>1. \A i \in 1..Len(c) : i \in 1..Len(text)
      BY <1>1
    <3>2. \A i \in 1..Len(c) : text[i] \in Symbols
      BY <1>1, <3>1, ElementOfSeq
    <3>3. /\ SubSeq(text, 1, Len(c)) \in Seq(Symbols)
          /\ Len(SubSeq(text, 1, Len(c))) = IF 1 <= Len(c) THEN Len(c) - 1 + 1 ELSE 0
          /\ \A i \in 1 .. Len(c) - 1 + 1 : SubSeq(text, 1, Len(c))[i] = text[1 + i - 1]
      <4> HIDE DEF text
      <4> QED BY <1>1, <3>2, SubSeqProperties
    <3> HIDE DEF text
    <3>4. \A i \in 1..Len(c) : i \in 1 .. Len(c) - 1 + 1 /\ 1 + i - 1 = i
      BY <1>1
    <3>5. Len(SubSeq(text, 1, Len(c))) = Len(c)
      BY <1>1, <3>3
    <3> QED BY <3>3, <3>4, <3>5
  <2> HIDE DEF text
  <2> QED BY <1>1, <2>1, SeqEqual
<1> HIDE DEF text, P, N, j
<1>7. G = AssembledFrom(P, N)
  BY DEF ReplacedFrom, P, N
<1> HIDE DEF G
<1>8. G[1] = SubSeq(text, 1, j - 1) \o G[j]
  <2>1. AssembledFrom(P, N)[1] = SubSeq(text, 1, j - 1) \o AssembledFrom(P, N)[j]
    <3>1. Pass(P, N) /\ text \in Seq(Symbols) /\ Len(text) = Len(P)
      BY <1>1, <1>2
    <3>2. j \in 1 .. Len(text) + 1 /\ 1 \in 1..j
      BY <1>4
    <3> QED BY <1>3, <3>1, <3>2, PassLiterals
  <2> QED BY <1>7, <2>1
<1>9. ReplaceAll(text, s, by) = c \o ReplaceAll(rest, s, by)
  BY <1>2, <1>4, <1>5, <1>6, <1>8
<1> QED
  BY <1>9 DEF text

-----------------------------------------------------------------------------
(* The rendered template.                                                  *)

RenderingTypes ==
  /\ template \in Seq(Symbols)
  /\ DOMAIN params \subseteq Seq(Symbols)
  /\ \A key \in DOMAIN params : params[key] \in Seq(Symbols)
  /\ delims \in Seq(Symbols) \X Seq(Symbols) /\ Len(delims[1]) + Len(delims[2]) > 0

LEMMA PlaceholderIsText ==
  ASSUME RenderingTypes, NEW key \in DOMAIN params
  PROVE  /\ Placeholder(key) \in Seq(Symbols) /\ Placeholder(key) # <<>>
         /\ Len(Placeholder(key)) \in Nat \ {0}
         /\ DOMAIN Placeholder(key) = 1..Len(Placeholder(key))
         /\ delims[1] # <<>> => Placeholder(key)[1] = delims[1][1]
<1>1. /\ delims[1] \in Seq(Symbols) /\ delims[2] \in Seq(Symbols) /\ key \in Seq(Symbols)
      /\ Len(delims[1]) + Len(delims[2]) > 0
  BY DEF RenderingTypes
<1>2. /\ Len(delims[1]) \in Nat /\ Len(delims[2]) \in Nat /\ Len(key) \in Nat
      /\ delims[1] # <<>> => Len(delims[1]) \in Nat \ {0}
  BY <1>1, LenProperties, EmptySeq
<1>3. /\ delims[1] \o key \in Seq(Symbols)
      /\ Len(delims[1] \o key) = Len(delims[1]) + Len(key)
      /\ \A i \in 1 .. Len(delims[1]) + Len(key) :
           (delims[1] \o key)[i] = IF i <= Len(delims[1]) THEN delims[1][i] ELSE key[i - Len(delims[1])]
  BY <1>1, ConcatProperties
<1>4. /\ Placeholder(key) \in Seq(Symbols)
      /\ Len(Placeholder(key)) = Len(delims[1] \o key) + Len(delims[2])
      /\ \A i \in 1 .. Len(delims[1] \o key) + Len(delims[2]) :
           Placeholder(key)[i] = IF i <= Len(delims[1] \o key) THEN (delims[1] \o key)[i]
                                 ELSE delims[2][i - Len(delims[1] \o key)]
  <2> DEFINE front == delims[1] \o key
  <2> HIDE DEF front
  <2>1. front \in Seq(Symbols)
    BY <1>3 DEF front
  <2>2. /\ front \o delims[2] \in Seq(Symbols)
        /\ Len(front \o delims[2]) = Len(front) + Len(delims[2])
        /\ \A i \in 1 .. Len(front) + Len(delims[2]) :
             (front \o delims[2])[i] = IF i <= Len(front) THEN front[i]
                                       ELSE delims[2][i - Len(front)]
    BY <1>1, <2>1, ConcatProperties
  <2>3. Placeholder(key) = front \o delims[2]
    BY <1>1, Regroup DEF Placeholder, front
  <2> QED BY <2>2, <2>3 DEF front
<1>5. Len(Placeholder(key)) \in Nat \ {0}
  <2>1. Len(Placeholder(key)) = Len(delims[1]) + Len(key) + Len(delims[2])
    BY <1>3, <1>4
  <2>2. \A m, n, o \in Nat : m + o > 0 => m + n + o \in Nat \ {0}
    OBVIOUS
  <2> QED BY <1>1, <1>2, <2>1, <2>2, Zenon
<1>6. Placeholder(key) # <<>>
  BY <1>5, EmptySeq
<1>7. DOMAIN Placeholder(key) = 1..Len(Placeholder(key))
  BY <1>4, LenProperties
<1>8. ASSUME delims[1] # <<>> PROVE Placeholder(key)[1] = delims[1][1]
  <2>1. /\ 1 \in 1 .. Len(delims[1]) + Len(key) /\ 1 <= Len(delims[1])
        /\ 1 \in 1 .. Len(delims[1] \o key) + Len(delims[2]) /\ 1 <= Len(delims[1] \o key)
    <3>1. \A m \in Nat \ {0} : \A n, o \in Nat : /\ 1 \in 1 .. m + n /\ 1 <= m
                                                /\ 1 \in 1 .. m + n + o /\ 1 <= m + n
      OBVIOUS
    <3> QED BY <1>2, <1>3, <1>8, <3>1, Zenon
  <2> QED BY <1>3, <1>4, <2>1
<1> QED
  BY <1>4, <1>5, <1>6, <1>7, <1>8

RenderPieces(keys) ==
  [i \in 1..Len(template) |->
     IF Occurs(keys, i) THEN params[KeyAt(keys, i)] ELSE <<template[i]>>]

RenderNexts(keys) ==
  [i \in 1..Len(template) |->
     i + IF Occurs(keys, i) THEN Len(Placeholder(KeyAt(keys, i))) ELSE 1]

RenderedFrom(keys) == AssembledFrom(RenderPieces(keys), RenderNexts(keys))

LEMMA KeyAtOccurs ==
  ASSUME RenderingTypes, NEW keys \in SUBSET DOMAIN params,
         NEW i \in 1..Len(template), Occurs(keys, i)
  PROVE  /\ KeyAt(keys, i) \in keys
         /\ IsAt(Placeholder(KeyAt(keys, i)), template, i)
         /\ params[KeyAt(keys, i)] \in Seq(Symbols)
         /\ i + Len(Placeholder(KeyAt(keys, i))) \in i + 1 .. Len(template) + 1
<1> DEFINE key == KeyAt(keys, i)
<1>1. key \in keys /\ IsAt(Placeholder(key), template, i)
  BY DEF KeyAt, Occurs
<1> HIDE DEF key
<1>2. key \in DOMAIN params /\ params[key] \in Seq(Symbols)
  BY <1>1 DEF RenderingTypes
<1>3. Len(Placeholder(key)) \in Nat \ {0}
  BY <1>2, PlaceholderIsText
<1>4. i + Len(Placeholder(key)) - 1 <= Len(template)
  BY <1>1 DEF IsAt
<1>5. Len(template) \in Nat
  BY LenProperties DEF RenderingTypes
<1>6. i + Len(Placeholder(key)) \in i + 1 .. Len(template) + 1
  BY <1>3, <1>4, <1>5
<1> QED
  BY <1>1, <1>2, <1>6 DEF key

LEMMA RenderedIsPass ==
  ASSUME RenderingTypes, NEW keys \in SUBSET DOMAIN params
  PROVE  /\ Pass(RenderPieces(keys), RenderNexts(keys))
         /\ Len(RenderPieces(keys)) = Len(template)
         /\ Rendered(keys) = RenderedFrom(keys)[1]
<1> DEFINE P == RenderPieces(keys)
           N == RenderNexts(keys)
<1>1. Len(template) \in Nat /\ template \in Seq(Symbols)
  BY LenProperties DEF RenderingTypes
<1>2. ASSUME NEW i \in 1..Len(template)
      PROVE  P[i] \in Seq(Symbols) /\ N[i] \in 1 .. Len(template) + 1 /\ N[i] > i
  <2>1. CASE Occurs(keys, i)
    <3>1. P[i] = params[KeyAt(keys, i)] /\ N[i] = i + Len(Placeholder(KeyAt(keys, i)))
      BY <2>1 DEF RenderPieces, RenderNexts
    <3>2. N[i] \in i + 1 .. Len(template) + 1
      BY <2>1, <3>1, KeyAtOccurs
    <3>3. P[i] \in Seq(Symbols)
      BY <2>1, <3>1, KeyAtOccurs
    <3> HIDE DEF P, N
    <3> QED BY <1>1, <3>2, <3>3
  <2>2. CASE ~Occurs(keys, i)
    <3>1. P[i] = <<template[i]>> /\ N[i] = i + 1
      BY <2>2 DEF RenderPieces, RenderNexts
    <3>2. template[i] \in Symbols
      BY <1>1, ElementOfSeq
    <3>3. <<template[i]>> \in Seq(Symbols)
      BY <3>2
    <3> HIDE DEF P, N
    <3> QED BY <1>1, <3>1, <3>3
  <2> QED BY <2>1, <2>2
<1>3. P \in [1..Len(template) -> Seq(Symbols)]
  BY <1>2 DEF RenderPieces
<1>4. P \in Seq(Seq(Symbols)) /\ Len(P) = Len(template)
  BY <1>1, <1>3
<1>5. N \in [1..Len(P) -> 1 .. Len(P) + 1]
  BY <1>2, <1>4 DEF RenderNexts
<1>6. Pass(P, N)
  BY <1>2, <1>4, <1>5 DEF Pass
<1>7. Rendered(keys) = RenderedFrom(keys)[1]
  BY DEF Rendered, Assembled, RenderedFrom, RenderPieces, RenderNexts
<1> QED
  BY <1>4, <1>6, <1>7

LEMMA RenderedUnfolds ==
  ASSUME RenderingTypes, NEW keys \in SUBSET DOMAIN params
  PROVE  /\ RenderedFrom(keys) \in [1 .. Len(template) + 1 -> Seq(Symbols)]
         /\ RenderedFrom(keys)[Len(template) + 1] = <<>>
         /\ \A i \in 1..Len(template) :
              /\ Occurs(keys, i) =>
                   RenderedFrom(keys)[i]
                     = params[KeyAt(keys, i)]
                       \o RenderedFrom(keys)[i + Len(Placeholder(KeyAt(keys, i)))]
              /\ ~Occurs(keys, i) =>
                   RenderedFrom(keys)[i] = <<template[i]>> \o RenderedFrom(keys)[i + 1]
<1> DEFINE P == RenderPieces(keys)
           N == RenderNexts(keys)
           R == RenderedFrom(keys)
<1>1. Pass(P, N) /\ Len(P) = Len(template)
  BY RenderedIsPass
<1>2. R = AssembledFrom(P, N)
  BY DEF RenderedFrom
<1>3. \A i \in 1..Len(template) :
        /\ P[i] = IF Occurs(keys, i) THEN params[KeyAt(keys, i)] ELSE <<template[i]>>
        /\ N[i] = i + IF Occurs(keys, i) THEN Len(Placeholder(KeyAt(keys, i))) ELSE 1
  BY DEF RenderPieces, RenderNexts
<1> HIDE DEF P, N, R
<1>4. /\ R \in [1 .. Len(template) + 1 -> Seq(Symbols)]
      /\ R[Len(template) + 1] = <<>>
      /\ \A i \in 1..Len(template) : R[i] = P[i] \o R[N[i]]
  <2>1. /\ AssembledFrom(P, N) \in [1 .. Len(P) + 1 -> Seq(Symbols)]
        /\ AssembledFrom(P, N)[Len(P) + 1] = <<>>
        /\ \A i \in 1..Len(P) : AssembledFrom(P, N)[i] = P[i] \o AssembledFrom(P, N)[N[i]]
    BY <1>1, PassUnfolds, Zenon
  <2> QED BY <1>1, <1>2, <2>1
<1>5. ASSUME NEW i \in 1..Len(template)
      PROVE  /\ Occurs(keys, i) =>
                  R[i] = params[KeyAt(keys, i)] \o R[i + Len(Placeholder(KeyAt(keys, i)))]
             /\ ~Occurs(keys, i) => R[i] = <<template[i]>> \o R[i + 1]
  <2>1. CASE Occurs(keys, i)
    <3>1. P[i] = params[KeyAt(keys, i)] /\ N[i] = i + Len(Placeholder(KeyAt(keys, i)))
      BY <1>3, <2>1
    <3> QED BY <1>4, <2>1, <3>1
  <2>2. CASE ~Occurs(keys, i)
    <3>1. P[i] = <<template[i]>> /\ N[i] = i + 1
      BY <1>3, <2>2
    <3> QED BY <1>4, <2>2, <3>1
  <2> QED BY <2>1, <2>2
<1> QED
  BY <1>4, <1>5 DEF R

\* One placeholder does not begin with another: at a position there is only one.
LEMMA OneKeyAt ==
  ASSUME RenderingTypes, Unambiguous,
         NEW key \in DOMAIN params, NEW other \in DOMAIN params, NEW i \in 1..Len(template),
         IsAt(Placeholder(key), template, i), IsAt(Placeholder(other), template, i)
  PROVE  key = other
<1>1. ASSUME NEW a \in DOMAIN params, NEW b \in DOMAIN params,
             IsAt(Placeholder(a), template, i), IsAt(Placeholder(b), template, i),
             Len(Placeholder(a)) <= Len(Placeholder(b))
      PROVE  a = b
  <2>1. /\ Len(Placeholder(a)) \in Nat /\ DOMAIN Placeholder(a) = 1..Len(Placeholder(a))
        /\ Len(Placeholder(b)) \in Nat /\ DOMAIN Placeholder(b) = 1..Len(Placeholder(b))
    BY PlaceholderIsText
  <2>2. ASSUME NEW h \in DOMAIN Placeholder(a)
        PROVE  Placeholder(b)[1 + h - 1] = Placeholder(a)[h]
    <3>1. h \in DOMAIN Placeholder(b) /\ 1 + h - 1 = h
      BY <1>1, <2>1
    <3>2. template[i + h - 1] = Placeholder(a)[h] /\ template[i + h - 1] = Placeholder(b)[h]
      BY <1>1, <3>1 DEF IsAt
    <3> QED BY <3>1, <3>2
  <2>3. 1 + Len(Placeholder(a)) - 1 <= Len(Placeholder(b))
    BY <1>1, <2>1
  <2>4. IsAt(Placeholder(a), Placeholder(b), 1)
    BY <2>2, <2>3 DEF IsAt
  <2> QED BY <2>4 DEF Unambiguous
<1>2. Len(Placeholder(key)) \in Nat /\ Len(Placeholder(other)) \in Nat
  BY PlaceholderIsText
<1>3. Len(Placeholder(key)) <= Len(Placeholder(other)) \/ Len(Placeholder(other)) <= Len(Placeholder(key))
  BY <1>2
<1> QED
  BY <1>1, <1>3

LEMMA KeyAtIsIt ==
  ASSUME RenderingTypes, Unambiguous, NEW keys \in SUBSET DOMAIN params, NEW key \in keys,
         NEW i \in 1..Len(template), IsAt(Placeholder(key), template, i)
  PROVE  Occurs(keys, i) /\ KeyAt(keys, i) = key
<1>1. Occurs(keys, i)
  BY DEF Occurs
<1>2. KeyAt(keys, i) \in keys /\ IsAt(Placeholder(KeyAt(keys, i)), template, i)
  BY <1>1, KeyAtOccurs
<1> QED
  BY <1>1, <1>2, OneKeyAt

\* Where no placeholder begins the template stays as it is.
LEMMA Untouched ==
  ASSUME RenderingTypes, NEW keys \in SUBSET DOMAIN params,
         NEW j \in 1 .. Len(template) + 1, NEW i \in 1..j,
         \A h \in i .. j - 1 : ~Occurs(keys, h)
  PROVE  RenderedFrom(keys)[i] = SubSeq(template, i, j - 1) \o RenderedFrom(keys)[j]
<1> DEFINE P == RenderPieces(keys)
           N == RenderNexts(keys)
<1>1. Pass(P, N) /\ Len(template) = Len(P)
  BY RenderedIsPass
<1>2. template \in Seq(Symbols) /\ Len(template) \in Nat
  BY LenProperties DEF RenderingTypes
<1>3. Literally(P, N, template, i, j)
  <2>1. \A h \in i .. j - 1 : h \in 1..Len(template)
    BY <1>2
  <2> QED BY <2>1 DEF Literally, RenderPieces, RenderNexts
<1> HIDE DEF P, N
<1>4. AssembledFrom(P, N)[i] = SubSeq(template, i, j - 1) \o AssembledFrom(P, N)[j]
  BY <1>1, <1>2, <1>3, PassLiterals
<1> QED
  BY <1>4 DEF RenderedFrom, P, N

\* A part of the template, symbol by symbol.
LEMMA PartOfTemplate ==
  ASSUME RenderingTypes, NEW j \in 1 .. Len(template) + 1, NEW i \in 1..j
  PROVE  /\ SubSeq(template, i, j - 1) \in Seq(Symbols)
         /\ Len(SubSeq(template, i, j - 1)) = j - i
         /\ \A h \in 1 .. j - i : SubSeq(template, i, j - 1)[h] = template[i + h - 1]
<1>1. template \in Seq(Symbols) /\ Len(template) \in Nat
  BY LenProperties DEF RenderingTypes
<1>2. \A h \in i .. j - 1 : h \in 1..Len(template)
  BY <1>1
<1>3. \A h \in i .. j - 1 : template[h] \in Symbols
  BY <1>1, <1>2, ElementOfSeq
<1>4. i \in Int /\ j - 1 \in Int
  BY <1>1
<1>5. /\ SubSeq(template, i, j - 1) \in Seq(Symbols)
      /\ Len(SubSeq(template, i, j - 1)) = IF i <= j - 1 THEN j - 1 - i + 1 ELSE 0
      /\ \A h \in 1 .. j - 1 - i + 1 : SubSeq(template, i, j - 1)[h] = template[i + h - 1]
  <2>1. /\ SubSeq(template, i, j - 1) \in Seq(Symbols)
        /\ Len(SubSeq(template, i, j - 1)) = IF i <= j - 1 THEN j - 1 - i + 1 ELSE 0
        /\ \A h \in 1 .. j - 1 - i + 1 : SubSeq(template, i, j - 1)[h] = template[i + h - 1]
    BY <1>3, <1>4, SubSeqProperties
  <2> QED BY <2>1
<1>6. (IF i <= j - 1 THEN j - 1 - i + 1 ELSE 0) = j - i /\ j - 1 - i + 1 = j - i
  BY <1>1
<1> QED
  BY <1>5, <1>6, Zenon

\* The placeholder of a parameter that has not had its turn is still there.
LEMMA PlaceholderStays ==
  ASSUME RenderingTypes, Unambiguous,
         NEW keys \in SUBSET DOMAIN params, NEW key \in DOMAIN params \ keys,
         NEW i \in 1..Len(template), IsAt(Placeholder(key), template, i)
  PROVE  /\ i + Len(Placeholder(key)) \in i + 1 .. Len(template) + 1
         /\ RenderedFrom(keys)[i] = Placeholder(key) \o RenderedFrom(keys)[i + Len(Placeholder(key))]
<1> DEFINE ph == Placeholder(key)
           j == i + Len(ph)
<1>1. ph \in Seq(Symbols) /\ Len(ph) \in Nat \ {0} /\ DOMAIN ph = 1..Len(ph)
  BY PlaceholderIsText
<1>2. template \in Seq(Symbols) /\ Len(template) \in Nat
  BY LenProperties DEF RenderingTypes
<1>3. i + Len(ph) - 1 <= Len(template) /\ \A h \in 1..Len(ph) : template[i + h - 1] = ph[h]
  BY <1>1 DEF IsAt
<1> HIDE DEF ph
<1>4. j \in i + 1 .. Len(template) + 1 /\ j \in 1 .. Len(template) + 1 /\ i \in 1..j
  BY <1>1, <1>2, <1>3
<1>5. ASSUME NEW h \in i .. j - 1 PROVE ~Occurs(keys, h)
  <2> SUFFICES ASSUME Occurs(keys, h) PROVE FALSE
    OBVIOUS
  <2>1. h \in 1..Len(template)
    BY <1>2, <1>4
  <2>2. CASE h = i
    <3>1. KeyAt(keys, i) \in keys /\ IsAt(Placeholder(KeyAt(keys, i)), template, i)
      BY <2>2, KeyAtOccurs
    <3> QED BY <3>1, OneKeyAt
  <2>3. CASE h # i
    <3>1. Occurs(DOMAIN params, h)
      BY DEF Occurs
    <3>2. i \in 1 .. h - 1
      BY <1>2, <2>1, <2>3
    <3>3. Unfinished(ph, i, h)
      <4>1. h - i < Len(ph) /\ \A g \in 1 .. h - i : g \in 1..Len(ph)
        BY <1>1, <2>1
      <4> QED BY <1>3, <4>1 DEF Unfinished
    <3> QED BY <2>1, <3>1, <3>2, <3>3 DEF Unambiguous, ph
  <2> QED BY <2>2, <2>3
<1>6. RenderedFrom(keys)[i] = SubSeq(template, i, j - 1) \o RenderedFrom(keys)[j]
  <2> HIDE DEF j
  <2> QED BY <1>4, <1>5, Untouched
<1>7. SubSeq(template, i, j - 1) = ph
  <2>1. /\ SubSeq(template, i, j - 1) \in Seq(Symbols)
        /\ Len(SubSeq(template, i, j - 1)) = j - i
        /\ \A h \in 1 .. j - i : SubSeq(template, i, j - 1)[h] = template[i + h - 1]
    <3> HIDE DEF j
    <3> QED BY <1>4, PartOfTemplate
  <2>2. j - i = Len(ph)
    BY <1>1, <1>2
  <2>3. \A h \in 1..Len(ph) : SubSeq(template, i, j - 1)[h] = ph[h]
    <3> HIDE DEF j
    <3> QED BY <1>3, <2>1, <2>2
  <2> HIDE DEF j
  <2> QED BY <1>1, <2>1, <2>2, <2>3, SeqEqual
<1> QED
  BY <1>4, <1>6, <1>7 DEF ph

\* And no other has come into being: what a value stands for does not complete
\* a placeholder.
LEMMA NoNewPlaceholder ==
  ASSUME RenderingTypes, Unambiguous,
         NEW keys \in SUBSET DOMAIN params, NEW key \in DOMAIN params \ keys,
         NEW i \in 1..Len(template), ~Occurs(keys, i), ~IsAt(Placeholder(key), template, i)
  PROVE  ~IsAt(Placeholder(key), RenderedFrom(keys)[i], 1)
<1> DEFINE ph == Placeholder(key)
           n == Len(template)
           A == RenderedFrom(keys)
           J == {j \in i .. n + 1 : j = n + 1 \/ Occurs(keys, j)}
<1> SUFFICES ASSUME IsAt(ph, A[i], 1) PROVE FALSE
  OBVIOUS
<1>1. ph \in Seq(Symbols) /\ Len(ph) \in Nat \ {0} /\ DOMAIN ph = 1..Len(ph)
  BY PlaceholderIsText
<1>2. n \in Nat /\ i \in 1..n
  BY LenProperties DEF RenderingTypes
<1>3. /\ A \in [1 .. n + 1 -> Seq(Symbols)]
      /\ A[n + 1] = <<>>
  BY RenderedUnfolds
<1>4. 1 + Len(ph) - 1 <= Len(A[i]) /\ \A h \in 1..Len(ph) : A[i][1 + h - 1] = ph[h]
  BY <1>1 DEF IsAt
<1> HIDE DEF ph, n, A
<1>5. PICK j \in J : \A h \in J : j <= h
  <2>1. J \in SUBSET Nat /\ n + 1 \in J
    BY <1>2
  <2> HIDE DEF J
  <2> QED BY <2>1, LeastElement
<1>6. j \in i .. n + 1 /\ j \in 1 .. n + 1 /\ i \in 1..j
  BY <1>2, <1>5
<1>7. ASSUME NEW h \in i .. j - 1 PROVE ~Occurs(keys, h)
  <2>1. h \in i .. n + 1 /\ ~(j <= h)
    BY <1>2, <1>6
  <2> QED BY <1>5, <2>1
<1> HIDE DEF J
<1> DEFINE part == SubSeq(template, i, j - 1)
<1>8. A[i] = part \o A[j]
  BY <1>6, <1>7, Untouched DEF A, n
<1>9. /\ part \in Seq(Symbols) /\ Len(part) = j - i
      /\ \A h \in 1 .. j - i : part[h] = template[i + h - 1]
  BY <1>6, PartOfTemplate DEF n
<1> HIDE DEF part
<1>10. A[j] \in Seq(Symbols)
  BY <1>3, <1>6
<1>11. /\ Len(A[i]) = (j - i) + Len(A[j])
       /\ \A h \in 1 .. j - i : A[i][h] = template[i + h - 1]
  <2>1. /\ Len(part \o A[j]) = Len(part) + Len(A[j])
        /\ \A h \in 1..Len(part) : (part \o A[j])[h] = part[h]
    <3> DEFINE rest == A[j]
    <3>1. rest \in Seq(Symbols) /\ part \in Seq(Symbols)
      BY <1>9, <1>10
    <3> HIDE DEF rest
    <3>2. /\ Len(part \o rest) = Len(part) + Len(rest)
          /\ \A h \in 1..Len(part) : (part \o rest)[h] = part[h]
      BY <1>1, <3>1, AfterPrefix
    <3> QED BY <3>2 DEF rest
  <2> QED BY <1>8, <1>9, <2>1
<1>12. ASSUME NEW h \in 1..Len(ph), h <= j - i
       PROVE  template[i + h - 1] = ph[h]
  <2>1. h \in 1 .. j - i /\ 1 + h - 1 = h
    BY <1>1, <1>2, <1>6, <1>12
  <2> QED BY <1>4, <1>11, <2>1
<1>13. CASE Len(ph) <= j - i
  <2>1. i + Len(ph) - 1 <= n /\ \A h \in 1..Len(ph) : h <= j - i
    BY <1>1, <1>2, <1>6, <1>13
  <2>2. IsAt(ph, template, i)
    BY <1>1, <1>12, <2>1 DEF IsAt, n
  <2> QED BY <2>2 DEF ph
<1>14. CASE ~(Len(ph) <= j - i) /\ j = n + 1
  <2>1. Len(A[j]) = 0
    BY <1>3, <1>14, EmptySeq
  <2>2. Len(A[i]) = j - i
    BY <1>2, <1>6, <1>11, <2>1
  <2> QED BY <1>1, <1>2, <1>4, <1>6, <1>14, <2>2
<1>15. CASE ~(Len(ph) <= j - i) /\ j # n + 1
  <2>1. Occurs(keys, j) /\ j # i
    BY <1>5, <1>15 DEF J
  <2>2. j \in 1..Len(template) /\ i \in 1 .. j - 1
    BY <1>2, <1>6, <1>15, <2>1 DEF n
  <2>3. Occurs(DOMAIN params, j)
    BY <2>1 DEF Occurs
  <2>4. Unfinished(ph, i, j)
    <3>1. j - i < Len(ph) /\ \A h \in 1 .. j - i : h \in 1..Len(ph) /\ h <= j - i
      BY <1>1, <1>2, <1>6, <1>15
    <3> QED BY <1>12, <3>1 DEF Unfinished
  <2> QED BY <2>2, <2>3, <2>4 DEF Unambiguous, ph
<1> QED
  BY <1>13, <1>14, <1>15

\* A value holds no placeholder: it is passed over.
LEMMA ValueIsPassedOver ==
  ASSUME RenderingTypes, Unambiguous,
         NEW key \in DOMAIN params, NEW other \in DOMAIN params, NEW rest \in Seq(Symbols)
  PROVE  ReplaceAll(params[other] \o rest, Placeholder(key), params[key])
           = params[other] \o ReplaceAll(rest, Placeholder(key), params[key])
<1> DEFINE ph == Placeholder(key)
           value == params[other]
           by == params[key]
<1>1. value \in Seq(Symbols) /\ by \in Seq(Symbols)
  BY DEF RenderingTypes
<1>2. /\ ph \in Seq(Symbols) /\ ph # <<>> /\ 1 \in DOMAIN ph
      /\ ph[1] = delims[1][1]
  <2>1. /\ ph \in Seq(Symbols) /\ ph # <<>> /\ Len(ph) \in Nat \ {0}
        /\ DOMAIN ph = 1..Len(ph) /\ ph[1] = delims[1][1]
    BY PlaceholderIsText DEF Unambiguous
  <2> QED BY <2>1
<1>3. ASSUME NEW i \in 1..Len(value) PROVE ~IsAt(ph, value \o rest, i)
  <2>1. value[i] # delims[1][1]
    <3>1. i \in DOMAIN value
      BY <1>1, LenProperties
    <3> QED BY <3>1 DEF Unambiguous, SymbolsOf
  <2>2. (value \o rest)[i] = value[i]
    BY <1>1, AfterPrefix
  <2>3. i + 1 - 1 = i
    OBVIOUS
  <2> HIDE DEF value, ph
  <2> QED BY <1>2, <2>1, <2>2, <2>3 DEF IsAt
<1> HIDE DEF value, ph, by
<1>4. ReplaceAll(value \o rest, ph, by) = value \o ReplaceAll(rest, ph, by)
  BY <1>1, <1>2, <1>3, ReplaceLater
<1> QED
  BY <1>4 DEF value, ph, by

\* Putting one more parameter in, after others, is rendering with it as well.
THEOREM OneMoreParameter ==
  ASSUME RenderingTypes, Unambiguous,
         NEW keys \in SUBSET DOMAIN params, NEW key \in DOMAIN params \ keys
  PROVE  ReplaceAll(Rendered(keys), Placeholder(key), params[key]) = Rendered(keys \cup {key})
<1> DEFINE ph == Placeholder(key)
           by == params[key]
           more == keys \cup {key}
           n == Len(template)
           A == RenderedFrom(keys)
           B == RenderedFrom(more)
           T == {i \in 1 .. n + 1 : ReplaceAll(A[i], ph, by) = B[i]}
<1>1. /\ ph \in Seq(Symbols) /\ ph # <<>> /\ by \in Seq(Symbols)
      /\ Len(ph) \in Nat \ {0}
  BY PlaceholderIsText DEF RenderingTypes
<1>2. n \in Nat /\ template \in Seq(Symbols)
  BY LenProperties DEF RenderingTypes
<1>3. more \in SUBSET DOMAIN params
  OBVIOUS
<1>4. /\ A \in [1 .. n + 1 -> Seq(Symbols)]
      /\ A[n + 1] = <<>>
      /\ \A i \in 1..n :
           /\ Occurs(keys, i) =>
                A[i] = params[KeyAt(keys, i)] \o A[i + Len(Placeholder(KeyAt(keys, i)))]
           /\ ~Occurs(keys, i) => A[i] = <<template[i]>> \o A[i + 1]
  BY RenderedUnfolds
<1>5. /\ B[n + 1] = <<>>
      /\ \A i \in 1..n :
           /\ Occurs(more, i) =>
                B[i] = params[KeyAt(more, i)] \o B[i + Len(Placeholder(KeyAt(more, i)))]
           /\ ~Occurs(more, i) => B[i] = <<template[i]>> \o B[i + 1]
  <2> HIDE DEF more
  <2> QED BY <1>3, RenderedUnfolds
<1>6. Rendered(keys) = A[1] /\ Rendered(more) = B[1]
  BY <1>3, RenderedIsPass
<1> HIDE DEF ph, by, n, A, B
<1>7. n + 1 \in T
  <2>1. ReplaceAll(<<>>, ph, by) = <<>>
    <3> DEFINE empty == <<>>
    <3>1. empty \in Seq(Symbols) /\ Len(empty) + 1 = 1
      BY EmptySeq
    <3> HIDE DEF empty
    <3>2. ReplaceAll(empty, ph, by) = ReplacedFrom(empty, ph, by)[1]
      BY <1>1, <3>1, ReplaceAllIsPass
    <3>3. ReplacedFrom(empty, ph, by)[Len(empty) + 1] = <<>>
      BY <1>1, <3>1, ReplacedUnfolds
    <3> QED BY <3>1, <3>2, <3>3 DEF empty
  <2>2. n + 1 \in 1 .. n + 1
    BY <1>2
  <2> QED BY <1>4, <1>5, <2>1, <2>2
<1>8. ASSUME NEW i \in 1..n, \A j \in i + 1 .. n + 1 : j \in T
      PROVE  i \in T
  <2>0. /\ i \in 1 .. n + 1 /\ i \in 1..Len(template)
        /\ \A j \in i + 1 .. n + 1 : ReplaceAll(A[j], ph, by) = B[j] /\ A[j] \in Seq(Symbols)
    <3>1. \A j \in i + 1 .. n + 1 : j \in 1 .. n + 1
      BY <1>2
    <3>2. i \in 1 .. n + 1
      BY <1>2
    <3> QED BY <1>4, <1>8, <3>1, <3>2 DEF n
  <2> SUFFICES ReplaceAll(A[i], ph, by) = B[i]
    BY <2>0
  <2>1. CASE Occurs(keys, i)
    <3> DEFINE k == KeyAt(keys, i)
               j == i + Len(Placeholder(k))
    <3>1. k \in keys /\ IsAt(Placeholder(k), template, i) /\ j \in i + 1 .. n + 1
      BY <2>0, <2>1, KeyAtOccurs DEF n
    <3>2. Occurs(more, i) /\ KeyAt(more, i) = k
      <4>1. k \in more
        BY <3>1
      <4> HIDE DEF k, more
      <4> QED BY <1>3, <2>0, <3>1, <4>1, KeyAtIsIt
    <3>3. A[i] = params[k] \o A[j] /\ B[i] = params[k] \o B[j]
      BY <1>4, <1>5, <2>1, <3>2
    <3> HIDE DEF k, j
    <3>4. ReplaceAll(params[k] \o A[j], ph, by) = params[k] \o ReplaceAll(A[j], ph, by)
      BY <2>0, <3>1, ValueIsPassedOver DEF ph, by
    <3> QED BY <2>0, <3>1, <3>3, <3>4
  <2>2. CASE ~Occurs(keys, i) /\ IsAt(ph, template, i)
    <3> DEFINE j == i + Len(ph)
    <3>1. j \in i + 1 .. n + 1 /\ A[i] = ph \o A[j]
      BY <2>0, <2>2, PlaceholderStays DEF ph, n, A
    <3>2. Occurs(more, i) /\ KeyAt(more, i) = key
      <4>1. key \in more
        OBVIOUS
      <4> HIDE DEF more
      <4> QED BY <1>3, <2>0, <2>2, <4>1, KeyAtIsIt DEF ph
    <3>3. B[i] = by \o B[j]
      BY <1>5, <3>2 DEF by, ph
    <3> HIDE DEF j
    <3>4. ReplaceAll(ph \o A[j], ph, by) = by \o ReplaceAll(A[j], ph, by)
      BY <1>1, <2>0, <3>1, ReplaceHere
    <3> QED BY <2>0, <3>1, <3>3, <3>4
  <2>3. CASE ~Occurs(keys, i) /\ ~IsAt(ph, template, i)
    <3> DEFINE c == <<template[i]>>
    <3>1. ~Occurs(more, i)
      BY <2>3 DEF Occurs, ph
    <3>2. A[i] = c \o A[i + 1] /\ B[i] = c \o B[i + 1]
      BY <1>4, <1>5, <2>3, <3>1
    <3>3. i + 1 \in i + 1 .. n + 1
      BY <1>2
    <3>4. c \in Seq(Symbols) /\ Len(c) = 1
      <4>1. template[i] \in Symbols
        BY <1>2, <2>0, ElementOfSeq
      <4> QED BY <4>1
    <3>5. ~IsAt(ph, A[i], 1)
      BY <2>0, <2>3, NoNewPlaceholder DEF ph, A
    <3> HIDE DEF c
    <3>6. \A h \in 1..Len(c) : ~IsAt(ph, c \o A[i + 1], h)
      <4>1. \A h \in 1..Len(c) : h = 1
        BY <3>4
      <4> QED BY <3>2, <3>5, <4>1
    <3>7. ReplaceAll(c \o A[i + 1], ph, by) = c \o ReplaceAll(A[i + 1], ph, by)
      <4> DEFINE rest == A[i + 1]
      <4>1. rest \in Seq(Symbols)
        BY <2>0, <3>3
      <4> HIDE DEF rest
      <4>2. ReplaceAll(c \o rest, ph, by) = c \o ReplaceAll(rest, ph, by)
        <5>1. \A h \in 1..Len(c) : ~IsAt(ph, c \o rest, h)
          BY <3>6 DEF rest
        <5>2. c \in Seq(Symbols)
          BY <3>4
        <5> QED BY <1>1, <4>1, <5>1, <5>2, ReplaceLater
      <4> QED BY <4>2 DEF rest
    <3> QED BY <2>0, <3>2, <3>3, <3>7
  <2> QED BY <2>1, <2>2, <2>3
<1>9. T \in SUBSET (1 .. n + 1)
  OBVIOUS
<1> HIDE DEF T
<1>10. T = 1 .. n + 1
  BY <1>2, <1>7, <1>8, <1>9, FromTheEnd
<1>11. 1 \in T
  BY <1>2, <1>10
<1>12. ReplaceAll(A[1], ph, by) = B[1]
  BY <1>11 DEF T
<1> HIDE DEF more
<1>13. ReplaceAll(Rendered(keys), ph, by) = Rendered(more)
  BY <1>6, <1>12
<1> QED
  BY <1>13 DEF ph, by, more

\* Without parameters the template stays as it is.
LEMMA NothingPutIn ==
  ASSUME RenderingTypes
  PROVE  Rendered({}) = template
<1> DEFINE n == Len(template)
           A == RenderedFrom({})
<1>1. n \in Nat /\ template \in Seq(Symbols)
  BY LenProperties DEF RenderingTypes
<1>2. \A h \in 1 .. n + 1 - 1 : ~Occurs({}, h)
  BY DEF Occurs
<1>3. n + 1 \in 1 .. Len(template) + 1 /\ 1 \in 1 .. n + 1 /\ n + 1 - 1 = n
  BY <1>1
<1>4. A[1] = SubSeq(template, 1, n) \o A[n + 1]
  <2> DEFINE j == n + 1
  <2>1. j \in 1 .. Len(template) + 1 /\ 1 \in 1..j /\ \A h \in 1 .. j - 1 : ~Occurs({}, h)
    BY <1>2, <1>3
  <2> DEFINE none == {}
  <2>2. none \in SUBSET DOMAIN params
    OBVIOUS
  <2> HIDE DEF j, none
  <2>3. \A h \in 1 .. j - 1 : ~Occurs(none, h)
    BY <2>1 DEF none
  <2>4. RenderedFrom(none)[1] = SubSeq(template, 1, j - 1) \o RenderedFrom(none)[j]
    BY <2>1, <2>2, <2>3, Untouched
  <2>5. A[1] = SubSeq(template, 1, j - 1) \o A[j]
    BY <2>4 DEF none
  <2>6. j = n + 1 /\ j - 1 = n
    BY <1>1 DEF j
  <2> HIDE DEF A, n
  <2> QED BY <2>5, <2>6
<1>5. A[n + 1] = <<>>
  BY RenderedUnfolds
<1>6. SubSeq(template, 1, n) = template
  BY <1>1, SubSeqFull
<1>7. template \o <<>> = template
  BY <1>1, ConcatEmptySeq
<1>8. Rendered({}) = A[1]
  BY RenderedIsPass
<1> QED
  BY <1>3, <1>4, <1>5, <1>6, <1>7, <1>8

\* A rendering's text, as a function of what it depends on.
RenderedOf(t, p, d, keys) ==
  LET ph(key)     == d[1] \o key \o d[2]
      occurs(i)   == \E key \in keys : IsAt(ph(key), t, i)
      keyAt(i)    == CHOOSE key \in keys : IsAt(ph(key), t, i)
  IN  Assembled([i \in 1..Len(t) |-> IF occurs(i) THEN p[keyAt(i)] ELSE <<t[i]>>],
                [i \in 1..Len(t) |-> i + IF occurs(i) THEN Len(ph(keyAt(i))) ELSE 1])

\* A step changes neither the template nor the parameters.
LEMMA RenderedOnlyOfInput ==
  ASSUME NEW keys, UNCHANGED <<template, params, delims>>
  PROVE  /\ Rendered(keys)' = Rendered(keys)
         /\ Unambiguous' = Unambiguous
         /\ RenderingTypes' = RenderingTypes
<1>1. Rendered(keys) = RenderedOf(template, params, delims, keys)
  BY DEF Rendered, RenderedOf, Occurs, KeyAt, Placeholder
<1>2. Rendered(keys)' = RenderedOf(template', params', delims', keys)
  BY DEF Rendered, RenderedOf, Occurs, KeyAt, Placeholder
<1>3. Unambiguous' = Unambiguous
  BY DEF Unambiguous, Occurs, Unfinished, Placeholder
<1>4. RenderingTypes' = RenderingTypes
  BY DEF RenderingTypes
<1> QED
  BY <1>1, <1>2, <1>3, <1>4

-----------------------------------------------------------------------------
(* Render.                                                                 *)

RenderingIInv == RenderingTypes /\ RenderedSoFar

LEMMA InitRenderingIInv == InitRendering => RenderingIInv
<1> SUFFICES ASSUME InitRendering PROVE RenderingIInv
  OBVIOUS
<1>1. PICK keys \in SUBSET Names : params \in [keys -> Texts]
  BY DEF InitRendering
<1>2. RenderingTypes
  <2>1. template \in Seq(Symbols)
    BY RenderingAssumption DEF InitRendering, RenderingAssumption
  <2>2. DOMAIN params \subseteq Seq(Symbols) /\ \A key \in DOMAIN params : params[key] \in Seq(Symbols)
    BY <1>1, RenderingAssumption DEF RenderingAssumption
  <2>3. delims \in Seq(Symbols) \X Seq(Symbols) /\ Len(delims[1]) + Len(delims[2]) > 0
    BY RenderingAssumption DEF InitRendering, RenderingAssumption
  <2> QED BY <2>1, <2>2, <2>3 DEF RenderingTypes
<1>3. todo = DOMAIN params /\ DOMAIN params \ todo = {} /\ result = template
  BY DEF InitRendering
<1> QED
  BY <1>2, <1>3, NothingPutIn DEF RenderingIInv, RenderedSoFar

LEMMA NextRenderingIInv ==
  RenderingIInv /\ [NextRendering]_rendering => RenderingIInv'
<1> SUFFICES ASSUME RenderingIInv, [NextRendering]_rendering PROVE RenderingIInv'
  OBVIOUS
<1>1. RenderingTypes /\ todo \subseteq DOMAIN params
      /\ (Unambiguous => result = Rendered(DOMAIN params \ todo))
  BY DEF RenderingIInv, RenderedSoFar
<1>2. CASE UNCHANGED rendering
  <2>1. PICK done : done = DOMAIN params \ todo
    OBVIOUS
  <2>2. UNCHANGED <<template, params, delims>> /\ UNCHANGED <<todo, result>>
    BY <1>2 DEF rendering
  <2>3. /\ Rendered(done)' = Rendered(done) /\ Unambiguous' = Unambiguous
        /\ RenderingTypes' = RenderingTypes
    BY <2>2, RenderedOnlyOfInput
  <2>4. DOMAIN params' \ todo' = done
    BY <2>1, <2>2
  <2>5. Rendered(DOMAIN params \ todo)' = Rendered(done)'
    BY <2>4 DEF Rendered, Occurs, KeyAt
  <2> QED BY <1>1, <2>1, <2>2, <2>3, <2>5 DEF RenderingIInv, RenderedSoFar
<1>3. CASE NextRendering
  <2>1. PICK key \in todo : Substitute(key)
    BY <1>3 DEF NextRendering
  <2>2. PICK done : done = DOMAIN params \ todo
    OBVIOUS
  <2>3. PICK more : more = done \cup {key}
    OBVIOUS
  <2>4. /\ result' = ReplaceAll(result, Placeholder(key), params[key])
        /\ todo' = todo \ {key} /\ UNCHANGED <<template, params, delims>>
    BY <2>1 DEF Substitute
  <2>5. /\ Rendered(more)' = Rendered(more) /\ Unambiguous' = Unambiguous
        /\ RenderingTypes' = RenderingTypes
    BY <2>4, RenderedOnlyOfInput
  <2>6. done \in SUBSET DOMAIN params /\ key \in DOMAIN params \ done
    BY <1>1, <2>2
  <2>7. DOMAIN params' \ todo' = more /\ todo' \subseteq DOMAIN params'
    BY <1>1, <2>2, <2>3, <2>4
  <2>8. Rendered(DOMAIN params \ todo)' = Rendered(more)'
    BY <2>7 DEF Rendered, Occurs, KeyAt
  <2>9. ASSUME Unambiguous' PROVE result' = Rendered(more)
    <3>1. Unambiguous /\ result = Rendered(done)
      BY <1>1, <2>2, <2>5, <2>9
    <3>2. ReplaceAll(Rendered(done), Placeholder(key), params[key]) = Rendered(done \cup {key})
      BY <1>1, <2>6, <3>1, OneMoreParameter
    <3> QED BY <2>3, <2>4, <3>1, <3>2
  <2> QED BY <1>1, <2>5, <2>7, <2>8, <2>9 DEF RenderingIInv, RenderedSoFar
<1> QED
  BY <1>2, <1>3

THEOREM RenderingTypeCorrect == RenderingSpec => []RenderingTypes
<1>1. RenderingIInv => RenderingTypes
  BY DEF RenderingIInv
<1> QED
  BY <1>1, InitRenderingIInv, NextRenderingIInv, PTL DEF RenderingSpec

\* For any template, parameters and delimiters, in whatever order the map of
\* parameters is iterated over (template.go, Render): the values put in so far
\* are those that one pass over the template would have put in, and at the end
\* all of them are.
THEOREM OrderDoesNotShowAlways == RenderingSpec => []OrderDoesNotShow
<1>1. RenderingIInv => OrderDoesNotShow
  <2> SUFFICES ASSUME RenderingIInv, todo = {}, Unambiguous
               PROVE  result = Rendered(DOMAIN params)
    BY DEF OrderDoesNotShow
  <2>1. DOMAIN params \ todo = DOMAIN params
    OBVIOUS
  <2>2. result = Rendered(DOMAIN params \ todo)
    BY DEF RenderingIInv, RenderedSoFar
  <2> QED BY <2>1, <2>2
<1> QED
  BY <1>1, InitRenderingIInv, NextRenderingIInv, PTL DEF RenderingSpec
=============================================================================
