------------------------ MODULE PortfolioLedgerProofs ------------------------
(***************************************************************************)
(* Machine-checked facts about PortfolioLedger for any number of requests, *)
(* transactions and edits.                                                 *)
(*                                                                         *)
(* The first half is about the calculators.  Lots are compared with the    *)
(* units that they stand for, laid out one by one (Laid): consuming lots   *)
(* takes away the first or the last of these units, so a position stays    *)
(* Whole, and agrees transaction by transaction with the reference         *)
(* (Follows, Right) as long as no disposal exceeds what is held.  A saved  *)
(* cost is rounded, so a position that is resumed is only Loose.           *)
(*                                                                         *)
(* The second half is about the requests.  Two ledgers with the same rows  *)
(* replay to the same position (SameRows), so the comparison before the    *)
(* save decides whether a computed position is still right (AnswerMatches),*)
(* unless what was read is brought back under the request.                 *)
(***************************************************************************)
EXTENDS PortfolioLedger, FiniteSetTheorems, SequenceTheorems, WellFoundedInduction, TLAPS

-----------------------------------------------------------------------------
(* Least elements, and folds over finite sets *)

\* A set of numbers has a least one.
LEMMA LeastNatural ==
  ASSUME NEW T, T \subseteq Nat, T # {}
  PROVE  \E n \in T : \A m \in T : n <= m
<1>1. \E n \in T : \A m \in T : ~(<<m, n>> \in OpToRel(<, Nat))
  BY WFMin, NatLessThanWellFounded, Zenon
<1>2. PICK n \in T : \A m \in T : ~(m < n)
  BY <1>1, Zenon DEF OpToRel
<1>. QED
  BY <1>2, SMT

\* c chooses an element of every subset, F is a step from a subset and a value of V.
Foldable(S, V, base, c, F) ==
  /\ base \in V
  /\ \A s \in SUBSET S : s # {} => c[s] \in s
  /\ F \in [(SUBSET S) \X V -> V]

FoldedBy(S, V, base, c, F, g) ==
  /\ g \in [SUBSET S -> V]
  /\ \A s \in SUBSET S : g[s] = IF s = {} THEN base ELSE F[<<s, g[s \ {c[s]}]>>]

\* A fold over a finite set is well defined, and stays in V when its step does.
LEMMA FoldExists ==
  ASSUME NEW S, IsFiniteSet(S), NEW V, NEW base, NEW c, NEW F, Foldable(S, V, base, c, F)
  PROVE  \E g : FoldedBy(S, V, base, c, F, g)
<1>0. /\ base \in V
      /\ \A s \in SUBSET S : s # {} => c[s] \in s
      /\ F \in [(SUBSET S) \X V -> V]
  BY DEF Foldable
<1> DEFINE Small(n) == {s \in SUBSET S : Cardinality(s) <= n}
           Solves(g, n) == \A s \in Small(n) :
             g[s] = IF s = {} THEN base ELSE F[<<s, g[s \ {c[s]}]>>]
           Bad == {n \in Nat : ~ \E g \in [SUBSET S -> V] : Solves(g, n)}
<1>1. \A s \in SUBSET S : IsFiniteSet(s) /\ Cardinality(s) \in Nat
  BY FS_Subset, FS_CardinalityType
<1>2. ASSUME NEW s \in SUBSET S, s # {}
      PROVE  s \ {c[s]} \in SUBSET S /\ Cardinality(s \ {c[s]}) = Cardinality(s) - 1
  BY <1>0, <1>1, <1>2, FS_RemoveElement
<1>3. ASSUME Bad # {} PROVE FALSE
  <2>1. PICK n \in Bad : \A m \in Bad : n <= m
    BY <1>3, LeastNatural
  <2>2. CASE n = 0
    <3>1. \A s \in Small(0) : s = {}
      BY <1>1, FS_EmptySet
    <3>2. [s \in SUBSET S |-> base] \in [SUBSET S -> V]
      BY <1>0
    <3>3. Solves([s \in SUBSET S |-> base], 0)
      BY <3>1
    <3>. QED BY <2>1, <2>2, <3>2, <3>3
  <2>3. CASE n # 0
    <3>0. n \in Nat
      OBVIOUS
    <3> HIDE DEF Bad
    <3>1. n - 1 \in Nat /\ n - 1 \notin Bad
      BY <2>1, <2>3, <3>0
    <3> USE DEF Bad
    <3>2. PICK g \in [SUBSET S -> V] : Solves(g, n - 1)
      BY <3>1
    <3> DEFINE h == [s \in SUBSET S |-> IF Cardinality(s) <= n - 1 THEN g[s]
                                        ELSE F[<<s, g[s \ {c[s]}]>>]]
    <3>3. ASSUME NEW s \in SUBSET S, s # {} PROVE <<s, g[s \ {c[s]}]>> \in (SUBSET S) \X V
      BY <1>2, <3>3
    <3>4. h \in [SUBSET S -> V]
      <4>1. ASSUME NEW s \in SUBSET S PROVE h[s] \in V
        <5>1. CASE s = {}
          BY <1>0, <1>1, <2>1, <2>3, <5>1, FS_EmptySet
        <5>2. CASE s # {}
          BY <1>0, <3>3, <5>2
        <5>. QED BY <5>1, <5>2
      <4>. QED BY <4>1
    <3>5. ASSUME NEW s \in Small(n)
          PROVE  h[s] = IF s = {} THEN base ELSE F[<<s, h[s \ {c[s]}]>>]
      <4>1. CASE s = {}
        <5>1. Cardinality(s) = 0
          BY <4>1, FS_EmptySet
        <5>2. s \in Small(n - 1) /\ h[s] = g[s]
          BY <2>1, <2>3, <5>1
        <5>. QED BY <3>2, <4>1, <5>2
      <4>2. CASE s # {}
        <5>1. Cardinality(s \ {c[s]}) = Cardinality(s) - 1 /\ s \ {c[s]} \in SUBSET S
          BY <1>2, <4>2
        <5>2. h[s \ {c[s]}] = g[s \ {c[s]}]
          BY <1>1, <2>1, <5>1
        <5>3. CASE Cardinality(s) <= n - 1
          <6>1. s \in Small(n - 1) /\ h[s] = g[s]
            BY <5>3
          <6>. QED BY <3>2, <4>2, <5>2, <6>1
        <5>4. CASE ~(Cardinality(s) <= n - 1)
          BY <4>2, <5>2, <5>4
        <5>. QED BY <5>3, <5>4
      <4>. QED BY <4>1, <4>2
    <3>6. Solves(h, n)
      BY <3>5
    <3>. QED BY <2>1, <3>4, <3>6
  <2>. QED BY <2>2, <2>3
<1>4. Cardinality(S) \in Nat /\ \A s \in SUBSET S : s \in Small(Cardinality(S))
  BY <1>1, FS_Subset
<1>5. PICK g \in [SUBSET S -> V] : Solves(g, Cardinality(S))
  BY <1>3, <1>4
<1>. QED BY <1>4, <1>5 DEF FoldedBy

\* A set of sequences that holds the empty one and is closed under Append holds all.
LEMMA AppendInduction ==
  ASSUME NEW X, NEW T, T \subseteq Seq(X), <<>> \in T,
         \A s \in T, x \in X : Append(s, x) \in T
  PROVE  T = Seq(X)
<1> DEFINE Bad == {n \in Nat : \E s \in Seq(X) : s \notin T /\ Len(s) = n}
<1>1. ASSUME Bad # {} PROVE FALSE
  <2>1. Bad \subseteq Nat
    OBVIOUS
  <2> HIDE DEF Bad
  <2>2. PICK n \in Bad : \A m \in Bad : n <= m
    BY <1>1, <2>1, LeastNatural
  <2> USE DEF Bad
  <2>3. PICK s \in Seq(X) : s \notin T /\ Len(s) = n
    BY <2>2
  <2>4. PICK t \in Seq(X), x \in X : s = Append(t, x)
    BY <2>3, SequenceEmptyOrAppend
  <2>5. t \notin T
    BY <2>3, <2>4
  <2>6. Len(t) \in Nat /\ n = Len(t) + 1
    BY <2>3, <2>4, AppendProperties, LenProperties
  <2>7. Len(t) \in Bad
    BY <2>5, <2>6
  <2>8. n \in Nat
    OBVIOUS
  <2> HIDE DEF Bad
  <2>. QED BY <2>2, <2>6, <2>7, <2>8
<1>2. ASSUME NEW s \in Seq(X), s \notin T PROVE FALSE
  <2>1. Len(s) \in Bad
    BY <1>2, LenProperties
  <2>. QED BY <1>1, <2>1
<1>. QED BY <1>2

\* The latest element of a finite set of indices.
LEMMA MaxIsLast ==
  ASSUME NEW n \in Nat, NEW t \in SUBSET (1..n), t # {}
  PROVE  Max(t) \in t
<1> DEFINE T == {n - x : x \in t}
<1>0. \A x \in t : x \in Nat /\ x <= n
  OBVIOUS
<1>1. T \subseteq Nat /\ T # {}
  <2>1. \A x \in t : n - x \in Nat
    BY <1>0
  <2>. QED BY <2>1
<1> HIDE DEF T
<1>2. PICK m \in T : \A k \in T : m <= k
  BY <1>1, LeastNatural
<1> USE DEF T
<1>3. PICK x \in t : m = n - x
  BY <1>2
<1>4. ASSUME NEW y \in t PROVE x >= y
  <2>1. n - y \in T
    BY <1>4
  <2> HIDE DEF T
  <2>2. n - x <= n - y
    BY <1>2, <1>3, <2>1
  <2>. QED BY <1>0, <1>3, <1>4, <2>2
<1>. QED BY <1>3, <1>4 DEF Max

\* The latest index of a prefix.
LEMMA MaxOfPrefix ==
  ASSUME NEW n \in Nat
  PROVE  Max(1..(n + 1)) = n + 1 /\ (1..(n + 1)) \ {n + 1} = 1..n
<1>1. Max(1..(n + 1)) \in 1..(n + 1) /\ \A y \in 1..(n + 1) : Max(1..(n + 1)) >= y
  <2>1. \A y \in 1..(n + 1) : n + 1 >= y
    OBVIOUS
  <2>2. n + 1 \in 1..(n + 1)
    OBVIOUS
  <2>. QED BY <2>1, <2>2 DEF Max
<1>. QED BY <1>1

-----------------------------------------------------------------------------
(* Folds over sequences *)

\* The costs of some units together.
Total(units) == FoldLeft(LAMBDA sum, u : sum + u, 0, units)

\* The units of a lot or of all lots, in their order.
Unpacked(lot) == UnitsOf(lot.quantity, lot.unitCost)
Laid(lots) == FoldLeft(LAMBDA units, lot : units \o Unpacked(lot), <<>>, lots)

\* The steps of the folds of CostBasis, and of those two.
Does(step, strategy, a, x) ==
  IF step = "move" THEN Moved(a, x)
  ELSE IF step = "apply" THEN Applied(strategy, a, x)
  ELSE IF step = "take" THEN TakeFrom(a, x)
  ELSE IF step = "realize" THEN a + x.proceeds - x.basis
  ELSE IF step = "hold" THEN UnitsAfter(strategy, a, x)
  ELSE IF step = "add" THEN a + x
  ELSE a \o Unpacked(x)

\* The function that a fold of the community modules chooses.
Folds(step, strategy, base, seq, i) ==
  i = [t \in SUBSET DOMAIN seq |-> IF t = {} THEN base
         ELSE Does(step, strategy, i[t \ {Max(t)}], seq[Max(t)])]

Fold(step, strategy, base, seq) ==
  (CHOOSE i : Folds(step, strategy, base, seq, i))[DOMAIN seq]

\* A step takes values of A to values of A.
Closed(step, strategy, A, X) == \A a \in A, x \in X : Does(step, strategy, a, x) \in A

\* The function that a fold chooses exists.
LEMMA FoldsExist ==
  ASSUME NEW step, NEW strategy, NEW A, NEW X, Closed(step, strategy, A, X),
         NEW base \in A, NEW seq \in Seq(X)
  PROVE  \E i : Folds(step, strategy, base, seq, i)
<1>1. PICK n \in Nat : DOMAIN seq = 1..n /\ seq \in [1..n -> X]
  BY LenProperties
<1>2. PICK c : c = [t \in SUBSET (1..n) |-> Max(t)]
  OBVIOUS
<1>3. PICK F : F = [p \in (SUBSET (1..n)) \X A |->
                      IF p[1] = {} THEN base ELSE Does(step, strategy, p[2], seq[Max(p[1])])]
  OBVIOUS
<1>4. F \in [(SUBSET (1..n)) \X A -> A]
  <2>1. ASSUME NEW p \in (SUBSET (1..n)) \X A
        PROVE  (IF p[1] = {} THEN base ELSE Does(step, strategy, p[2], seq[Max(p[1])])) \in A
    <3>1. p[1] # {} => seq[Max(p[1])] \in X
      <4>1. p[1] # {} => Max(p[1]) \in 1..n
        BY MaxIsLast
      <4>. QED BY <1>1, <4>1
    <3>2. p[2] \in A
      OBVIOUS
    <3>. QED BY <3>1, <3>2 DEF Closed
  <2>. QED BY <1>3, <2>1
<1>5. Foldable(1..n, A, base, c, F)
  BY <1>2, <1>4, MaxIsLast DEF Foldable
<1>6. IsFiniteSet(1..n)
  BY FS_Interval
<1>7. PICK g : FoldedBy(1..n, A, base, c, F, g)
  BY <1>5, <1>6, FoldExists
<1>8. ASSUME NEW t \in SUBSET (1..n)
      PROVE  g[t] = IF t = {} THEN base ELSE Does(step, strategy, g[t \ {Max(t)}], seq[Max(t)])
  <2>1. g[t] = IF t = {} THEN base ELSE F[<<t, g[t \ {c[t]}]>>]
    BY <1>7 DEF FoldedBy
  <2>2. c[t] = Max(t) /\ g[t \ {Max(t)}] \in A
    BY <1>2, <1>7 DEF FoldedBy
  <2>3. t # {} => F[<<t, g[t \ {Max(t)}]>>] = Does(step, strategy, g[t \ {Max(t)}], seq[Max(t)])
    BY <1>3, <2>2
  <2>. QED BY <2>1, <2>2, <2>3
<1>9. g = [t \in SUBSET (1..n) |-> IF t = {} THEN base
             ELSE Does(step, strategy, g[t \ {Max(t)}], seq[Max(t)])]
  <2>1. g \in [SUBSET (1..n) -> A]
    BY <1>7 DEF FoldedBy
  <2>. QED BY <1>8, <2>1
<1>10. Folds(step, strategy, base, seq, g)
  BY <1>1, <1>9 DEF Folds
<1>. QED BY <1>10

\* Two such functions agree on the prefixes that their sequences share.
LEMMA FoldsAgree ==
  ASSUME NEW step, NEW strategy, NEW base, NEW n \in Nat, NEW s, NEW t, NEW i, NEW j,
         1..n \subseteq DOMAIN s, 1..n \subseteq DOMAIN t, \A k \in 1..n : s[k] = t[k],
         Folds(step, strategy, base, s, i), Folds(step, strategy, base, t, j)
  PROVE  i[1..n] = j[1..n]
<1> DEFINE Bad == {m \in Nat : m <= n /\ i[1..m] # j[1..m]}
<1> SUFFICES ASSUME Bad # {} PROVE FALSE
  OBVIOUS
<1>1. Bad \subseteq Nat
  OBVIOUS
<1> HIDE DEF Bad
<1>2. PICK m \in Bad : \A k \in Bad : m <= k
  BY <1>1, LeastNatural
<1> USE DEF Bad
<1>3. m \in Nat /\ m <= n /\ i[1..m] # j[1..m]
  BY <1>2
<1>4. /\ i = [u \in SUBSET DOMAIN s |-> IF u = {} THEN base
                ELSE Does(step, strategy, i[u \ {Max(u)}], s[Max(u)])]
      /\ j = [u \in SUBSET DOMAIN t |-> IF u = {} THEN base
                ELSE Does(step, strategy, j[u \ {Max(u)}], t[Max(u)])]
  BY DEF Folds
<1>5. m # 0
  <2>1. i[{}] = base /\ j[{}] = base
    BY <1>4
  <2>2. 1..0 = {}
    OBVIOUS
  <2>. QED BY <1>3, <2>1, <2>2
<1>6. PICK k \in Nat : m = k + 1
  <2>1. m - 1 \in Nat /\ m = (m - 1) + 1
    BY <1>3, <1>5
  <2>. QED BY <2>1
<1>7. k \notin Bad
  BY <1>2, <1>6
<1>8. i[1..k] = j[1..k]
  BY <1>3, <1>6, <1>7
<1>9. Max(1..m) = m /\ (1..m) \ {m} = 1..k
  BY <1>6, MaxOfPrefix
<1>10. 1..m \in SUBSET DOMAIN s /\ 1..m \in SUBSET DOMAIN t /\ 1..m # {} /\ s[m] = t[m]
  <2> HIDE DEF Bad
  <2>1. m \in Nat /\ m <= n /\ m # 0
    BY <1>3, <1>5
  <2>2. m \in 1..m /\ m \in 1..n /\ 1..m \subseteq 1..n
    BY <2>1
  <2>. QED BY <2>2
<1>11. i[1..m] = Does(step, strategy, i[(1..m) \ {Max(1..m)}], s[Max(1..m)])
  BY <1>4, <1>10
<1>12. j[1..m] = Does(step, strategy, j[(1..m) \ {Max(1..m)}], t[Max(1..m)])
  BY <1>4, <1>10
<1>. QED BY <1>3, <1>8, <1>9, <1>10, <1>11, <1>12

\* A fold starts with its base, stays in A, and goes from left to right.
Unfolds(step, strategy, A, X, base) ==
  /\ Fold(step, strategy, base, <<>>) = base
  /\ \A seq \in Seq(X) : Fold(step, strategy, base, seq) \in A
  /\ \A seq \in Seq(X), x \in X :
       Fold(step, strategy, base, Append(seq, x))
         = Does(step, strategy, Fold(step, strategy, base, seq), x)

\* A fold with closed steps unfolds.
LEMMA FoldUnfolds ==
  ASSUME NEW step, NEW strategy, NEW A, NEW X, Closed(step, strategy, A, X), NEW base \in A
  PROVE  Unfolds(step, strategy, A, X, base)
<1>1. ASSUME NEW seq \in Seq(X)
      PROVE  \E i : Folds(step, strategy, base, seq, i) /\ Fold(step, strategy, base, seq) = i[DOMAIN seq]
  BY FoldsExist DEF Fold
<1>2. Fold(step, strategy, base, <<>>) = base
  <2>1. <<>> \in Seq(X) /\ DOMAIN <<>> = {}
    BY EmptySeq
  <2>2. PICK i : Folds(step, strategy, base, <<>>, i) /\ Fold(step, strategy, base, <<>>) = i[DOMAIN <<>>]
    BY <1>1, <2>1
  <2>3. i[{}] = base
    BY <2>1, <2>2 DEF Folds
  <2>. QED BY <2>1, <2>2, <2>3
<1>3. ASSUME NEW seq \in Seq(X), NEW x \in X
      PROVE  Fold(step, strategy, base, Append(seq, x))
               = Does(step, strategy, Fold(step, strategy, base, seq), x)
  <2>1. PICK n \in Nat : n = Len(seq) /\ DOMAIN seq = 1..n
    BY LenProperties
  <2>2. PICK more \in Seq(X) : more = Append(seq, x)
    BY AppendProperties
  <2>3. DOMAIN more = 1..(n + 1) /\ more[n + 1] = x /\ \A k \in 1..n : more[k] = seq[k]
    BY <2>1, <2>2, AppendProperties, LenProperties
  <2>4. PICK i : Folds(step, strategy, base, seq, i) /\ Fold(step, strategy, base, seq) = i[1..n]
    BY <1>1, <2>1
  <2>5. PICK j : Folds(step, strategy, base, more, j) /\ Fold(step, strategy, base, more) = j[1..(n + 1)]
    BY <1>1, <2>3
  <2>6. i[1..n] = j[1..n]
    <3>1. 1..n \subseteq DOMAIN seq /\ 1..n \subseteq DOMAIN more /\ \A k \in 1..n : seq[k] = more[k]
      BY <2>1, <2>3
    <3>. QED BY <2>4, <2>5, <3>1, FoldsAgree
  <2>7. j[1..(n + 1)] = Does(step, strategy, j[(1..(n + 1)) \ {Max(1..(n + 1))}], more[Max(1..(n + 1))])
    <3>1. 1..(n + 1) \in SUBSET DOMAIN more /\ n + 1 \in 1..(n + 1)
      BY <2>3
    <3>. QED BY <2>5, <3>1 DEF Folds
  <2>8. Max(1..(n + 1)) = n + 1 /\ (1..(n + 1)) \ {n + 1} = 1..n
    BY MaxOfPrefix
  <2>. QED BY <2>2, <2>3, <2>4, <2>5, <2>6, <2>7, <2>8
<1>4. ASSUME NEW seq \in Seq(X) PROVE Fold(step, strategy, base, seq) \in A
  <2> DEFINE T == {s \in Seq(X) : Fold(step, strategy, base, s) \in A}
  <2>1. T \subseteq Seq(X) /\ <<>> \in T
    BY <1>2, EmptySeq
  <2>2. ASSUME NEW s \in T, NEW x \in X PROVE Append(s, x) \in T
    <3>1. Does(step, strategy, Fold(step, strategy, base, s), x) \in A
      BY DEF Closed
    <3>2. Append(s, x) \in Seq(X)
      BY AppendProperties
    <3>. QED BY <1>3, <3>1, <3>2
  <2> HIDE DEF T
  <2>3. T = Seq(X)
    BY <2>1, <2>2, AppendInduction
  <2>. QED BY <2>3 DEF T
<1>. QED BY <1>2, <1>3, <1>4 DEF Unfolds

\* What consume leaves of lots, from the first on.
Taken(lots, amount) ==
  FoldLeft(TakeFrom, [remaining |-> amount, released |-> 0, lots |-> <<>>], lots)

\* The units that the opening balance stands for.
UnitsAtFirst(balance) ==
  IF balance.quantity = 0 THEN <<>>
  ELSE UnitsOf(balance.quantity, Quotient(balance.cost * Unit, balance.quantity))

\* The quantity held.
LEMMA HeldIsFold ==
  ASSUME NEW base, NEW seq
  PROVE  HeldAfter(base, seq) = Fold("move", "", base, seq)
<1> DEFINE I(i) == i = [t \in SUBSET DOMAIN seq |-> IF t = {} THEN base
                          ELSE Moved(i[t \ {Max(t)}], seq[Max(t)])]
<1>1. HeldAfter(base, seq) = (CHOOSE i : I(i))[DOMAIN seq]
  BY DEF HeldAfter, FoldLeft, MapThenFoldSet
<1>2. \A i : I(i) <=> Folds("move", "", base, seq, i)
  BY DEF Folds, Does
<1> HIDE DEF I
<1>3. (CHOOSE i : I(i)) = CHOOSE i : Folds("move", "", base, seq, i)
  BY <1>2
<1>. QED BY <1>1, <1>3 DEF Fold

\* The calculation.
LEMMA CalculatedIsFold ==
  ASSUME NEW strategy, NEW s, NEW seq, NEW base,
         base = [s EXCEPT !.lots = OpeningLots(strategy, s)]
  PROVE  Calculated(strategy, s, seq) = Fold("apply", strategy, base, seq)
<1> DEFINE I(i) == i = [t \in SUBSET DOMAIN seq |-> IF t = {} THEN base
                          ELSE Applied(strategy, i[t \ {Max(t)}], seq[Max(t)])]
<1>1. Calculated(strategy, s, seq) = (CHOOSE i : I(i))[DOMAIN seq]
  BY DEF Calculated, FoldLeft, MapThenFoldSet
<1>2. \A i : I(i) <=> Folds("apply", strategy, base, seq, i)
  BY DEF Folds, Does
<1> HIDE DEF I
<1>3. (CHOOSE i : I(i)) = CHOOSE i : Folds("apply", strategy, base, seq, i)
  BY <1>2
<1>. QED BY <1>1, <1>3 DEF Fold

\* The consumption of lots.
LEMMA TakenIsFold ==
  ASSUME NEW amount, NEW seq, NEW base,
         base = [remaining |-> amount, released |-> 0, lots |-> <<>>]
  PROVE  Taken(seq, amount) = Fold("take", "", base, seq)
<1> DEFINE I(i) == i = [t \in SUBSET DOMAIN seq |-> IF t = {} THEN base
                          ELSE TakeFrom(i[t \ {Max(t)}], seq[Max(t)])]
<1>1. Taken(seq, amount) = (CHOOSE i : I(i))[DOMAIN seq]
  BY DEF Taken, FoldLeft, MapThenFoldSet
<1>2. \A i : I(i) <=> Folds("take", "", base, seq, i)
  BY DEF Folds, Does
<1> HIDE DEF I
<1>3. (CHOOSE i : I(i)) = CHOOSE i : Folds("take", "", base, seq, i)
  BY <1>2
<1>. QED BY <1>1, <1>3 DEF Fold

\* The realised profit.
LEMMA RealizedIsFold ==
  ASSUME NEW s, NEW seq, seq = s.events
  PROVE  Realized(s) = Fold("realize", "", 0, seq)
<1> DEFINE I(i) == i = [t \in SUBSET DOMAIN seq |-> IF t = {} THEN 0
                          ELSE i[t \ {Max(t)}] + seq[Max(t)].proceeds - seq[Max(t)].basis]
<1>1. Realized(s) = (CHOOSE i : I(i))[DOMAIN seq]
  BY DEF Realized, FoldLeft, MapThenFoldSet
<1>2. \A i : I(i) <=> Folds("realize", "", 0, seq, i)
  BY DEF Folds, Does
<1> HIDE DEF I
<1>3. (CHOOSE i : I(i)) = CHOOSE i : Folds("realize", "", 0, seq, i)
  BY <1>2
<1>. QED BY <1>1, <1>3 DEF Fold

\* The units held.
LEMMA UnitsAreFold ==
  ASSUME NEW strategy, NEW balance, NEW seq, NEW base,
         base = UnitsAtFirst(balance)
  PROVE  UnitsHeld(strategy, balance, seq) = Fold("hold", strategy, base, seq)
<1> DEFINE I(i) == i = [t \in SUBSET DOMAIN seq |-> IF t = {} THEN base
                          ELSE UnitsAfter(strategy, i[t \ {Max(t)}], seq[Max(t)])]
<1>1. UnitsHeld(strategy, balance, seq) = (CHOOSE i : I(i))[DOMAIN seq]
  BY DEF UnitsHeld, UnitsAtFirst, FoldLeft, MapThenFoldSet
<1>2. \A i : I(i) <=> Folds("hold", strategy, base, seq, i)
  BY DEF Folds, Does
<1> HIDE DEF I
<1>3. (CHOOSE i : I(i)) = CHOOSE i : Folds("hold", strategy, base, seq, i)
  BY <1>2
<1>. QED BY <1>1, <1>3 DEF Fold

\* The sum of costs.
LEMMA TotalIsFold ==
  ASSUME NEW seq
  PROVE  Total(seq) = Fold("add", "", 0, seq)
<1> DEFINE I(i) == i = [t \in SUBSET DOMAIN seq |-> IF t = {} THEN 0
                          ELSE i[t \ {Max(t)}] + seq[Max(t)]]
<1>1. Total(seq) = (CHOOSE i : I(i))[DOMAIN seq]
  BY DEF Total, FoldLeft, MapThenFoldSet
<1>2. \A i : I(i) <=> Folds("add", "", 0, seq, i)
  BY DEF Folds, Does
<1> HIDE DEF I
<1>3. (CHOOSE i : I(i)) = CHOOSE i : Folds("add", "", 0, seq, i)
  BY <1>2
<1>. QED BY <1>1, <1>3 DEF Fold

\* The units of lots.
LEMMA LaidIsFold ==
  ASSUME NEW seq
  PROVE  Laid(seq) = Fold("lay", "", <<>>, seq)
<1> DEFINE I(i) == i = [t \in SUBSET DOMAIN seq |-> IF t = {} THEN <<>>
                          ELSE i[t \ {Max(t)}] \o Unpacked(seq[Max(t)])]
<1>1. Laid(seq) = (CHOOSE i : I(i))[DOMAIN seq]
  BY DEF Laid, FoldLeft, MapThenFoldSet
<1>2. \A i : I(i) <=> Folds("lay", "", <<>>, seq, i)
  BY DEF Folds, Does
<1> HIDE DEF I
<1>3. (CHOOSE i : I(i)) = CHOOSE i : Folds("lay", "", <<>>, seq, i)
  BY <1>2
<1>. QED BY <1>1, <1>3 DEF Fold

-----------------------------------------------------------------------------
(* Units and their costs *)

\* Costs are added up one by one.
LEMMA TotalSteps ==
  /\ Total(<<>>) = 0
  /\ \A s \in Seq(Nat) : Total(s) \in Nat
  /\ \A s \in Seq(Nat), x \in Nat : Total(Append(s, x)) = Total(s) + x
<1>1. Closed("add", "", Nat, Nat)
  BY DEF Closed, Does
<1>2. Unfolds("add", "", Nat, Nat, 0)
  BY <1>1, FoldUnfolds
<1>3. \A s : Total(s) = Fold("add", "", 0, s)
  BY TotalIsFold
<1>. QED BY <1>2, <1>3 DEF Unfolds, Does

\* The units of a lot.
LEMMA UnitsOfAre ==
  ASSUME NEW n \in Nat, NEW c \in Nat
  PROVE  /\ UnitsOf(n, c) \in Seq(Nat) /\ Len(UnitsOf(n, c)) = n
         /\ \A k \in 1..n : UnitsOf(n, c)[k] = c
<1>1. UnitsOf(n, c) \in [1..n -> Nat]
  BY DEF UnitsOf
<1>. QED BY <1>1 DEF UnitsOf

\* Lots are laid out one by one.
LEMMA LaidSteps ==
  /\ Laid(<<>>) = <<>>
  /\ \A s \in Seq(Lot) : Laid(s) \in Seq(Nat)
  /\ \A s \in Seq(Lot), x \in Lot : Laid(Append(s, x)) = Laid(s) \o Unpacked(x)
<1>1. Closed("lay", "", Seq(Nat), Lot)
  <2>1. ASSUME NEW a \in Seq(Nat), NEW x \in Lot PROVE a \o Unpacked(x) \in Seq(Nat)
    <3>1. x.quantity \in Nat /\ x.unitCost \in Nat
      BY DEF Lot
    <3>2. Unpacked(x) \in Seq(Nat)
      BY <3>1, UnitsOfAre DEF Unpacked
    <3>. QED BY <3>2, ConcatProperties
  <2>. QED BY <2>1 DEF Closed, Does
<1>2. <<>> \in Seq(Nat)
  BY EmptySeq
<1>3. Unfolds("lay", "", Seq(Nat), Lot, <<>>)
  BY <1>1, <1>2, FoldUnfolds
<1>4. \A s : Laid(s) = Fold("lay", "", <<>>, s)
  BY LaidIsFold
<1>. QED BY <1>3, <1>4 DEF Unfolds, Does

\* Costs of units add up.
LEMMA TotalOfConcat ==
  ASSUME NEW a \in Seq(Nat), NEW b \in Seq(Nat)
  PROVE  Total(a \o b) = Total(a) + Total(b)
<1> DEFINE T == {s \in Seq(Nat) : Total(a \o s) = Total(a) + Total(s)}
<1>1. T \subseteq Seq(Nat)
  OBVIOUS
<1>2. <<>> \in T
  <2>1. a \o <<>> = a /\ Total(a) \in Nat /\ Total(<<>>) = 0
    BY ConcatEmptySeq, TotalSteps
  <2>. QED BY <2>1, EmptySeq
<1>3. ASSUME NEW s \in T, NEW x \in Nat PROVE Append(s, x) \in T
  <2>1. s \in Seq(Nat) /\ Total(a \o s) = Total(a) + Total(s)
    OBVIOUS
  <2>2. a \o Append(s, x) = Append(a \o s, x) /\ a \o s \in Seq(Nat)
    BY <2>1
  <2>3. Total(Append(a \o s, x)) = Total(a \o s) + x /\ Total(Append(s, x)) = Total(s) + x
    BY <2>1, <2>2, TotalSteps
  <2>4. Append(s, x) \in Seq(Nat) /\ Total(a) \in Nat /\ Total(s) \in Nat
    BY <2>1, AppendProperties, TotalSteps
  <2>5. Total(a \o Append(s, x)) = Total(a) + Total(Append(s, x))
    BY <2>1, <2>2, <2>3, <2>4
  <2>. QED BY <2>4, <2>5
<1> HIDE DEF T
<1>4. T = Seq(Nat)
  BY <1>1, <1>2, <1>3, AppendInduction
<1>. QED BY <1>4 DEF T

\* A lot costs its quantity times its unit cost.
LEMMA TotalOfUnits ==
  ASSUME NEW n \in Nat, NEW c \in Nat
  PROVE  Total(UnitsOf(n, c)) = n * c
<1> DEFINE Bad == {k \in Nat : Total(UnitsOf(k, c)) # k * c}
<1> SUFFICES ASSUME Bad # {} PROVE FALSE
  OBVIOUS
<1>1. Bad \subseteq Nat
  OBVIOUS
<1> HIDE DEF Bad
<1>2. PICK k \in Bad : \A m \in Bad : k <= m
  BY <1>1, LeastNatural
<1>3. k \in Nat /\ Total(UnitsOf(k, c)) # k * c
  BY <1>2 DEF Bad
<1>4. k # 0
  <2>1. UnitsOf(0, c) = <<>>
    BY DEF UnitsOf
  <2>2. 0 * c = 0
    OBVIOUS
  <2>. QED BY <1>3, <2>1, <2>2, TotalSteps
<1>5. PICK m \in Nat : k = m + 1
  <2>1. k - 1 \in Nat /\ k = (k - 1) + 1
    BY <1>3, <1>4
  <2>. QED BY <2>1
<1>6. m \notin Bad
  BY <1>2, <1>5
<1>7. Total(UnitsOf(m, c)) = m * c
  BY <1>6 DEF Bad
<1>8. UnitsOf(k, c) = Append(UnitsOf(m, c), c)
  <2>1. PICK s \in Seq(Nat) : s = UnitsOf(m, c) /\ Len(s) = m /\ \A i \in 1..m : s[i] = c
    BY UnitsOfAre
  <2>2. PICK t \in Seq(Nat) : t = UnitsOf(m + 1, c) /\ Len(t) = m + 1 /\ \A i \in 1..(m + 1) : t[i] = c
    BY UnitsOfAre
  <2>3. PICK u \in Seq(Nat) : /\ u = Append(s, c) /\ Len(u) = Len(s) + 1
                              /\ \A i \in 1..Len(s) : u[i] = s[i]
                              /\ u[Len(s) + 1] = c
    BY AppendProperties
  <2>4. \A i \in 1..(m + 1) : u[i] = t[i]
    BY <2>1, <2>2, <2>3
  <2>5. Len(u) = Len(t) /\ \A i \in 1..Len(u) : u[i] = t[i]
    BY <2>1, <2>2, <2>3, <2>4
  <2>6. u = t
    BY <2>5, SeqEqual
  <2>. QED BY <1>5, <2>1, <2>2, <2>3, <2>6
<1>9. Total(UnitsOf(k, c)) = m * c + c
  BY <1>7, <1>8, UnitsOfAre, TotalSteps
<1>10. (m + 1) * c = m * c + c
  OBVIOUS
<1>. QED BY <1>3, <1>5, <1>9, <1>10

\* Concatenation is associative.
LEMMA Regrouped ==
  ASSUME NEW a \in Seq(Nat), NEW b \in Seq(Nat), NEW c \in Seq(Nat)
  PROVE  (a \o b) \o c = a \o (b \o c)
  OBVIOUS

\* Lots are laid out in their order.
LEMMA LaidOfConcat ==
  ASSUME NEW a \in Seq(Lot), NEW b \in Seq(Lot)
  PROVE  Laid(a \o b) = Laid(a) \o Laid(b)
<1> DEFINE T == {s \in Seq(Lot) : Laid(a \o s) = Laid(a) \o Laid(s)}
<1>1. T \subseteq Seq(Lot)
  OBVIOUS
<1>2. <<>> \in T
  <2>1. a \o <<>> = a /\ Laid(a) \in Seq(Nat) /\ Laid(<<>>) = <<>>
    BY ConcatEmptySeq, LaidSteps
  <2>2. Laid(a) \o <<>> = Laid(a)
    BY <2>1, ConcatEmptySeq
  <2>. QED BY <2>1, <2>2, EmptySeq
<1>3. ASSUME NEW s \in T, NEW x \in Lot PROVE Append(s, x) \in T
  <2>1. s \in Seq(Lot) /\ Laid(a \o s) = Laid(a) \o Laid(s)
    OBVIOUS
  <2>2. a \o Append(s, x) = Append(a \o s, x) /\ a \o s \in Seq(Lot)
    BY <2>1
  <2>3. /\ Laid(Append(a \o s, x)) = Laid(a \o s) \o Unpacked(x)
        /\ Laid(Append(s, x)) = Laid(s) \o Unpacked(x)
    BY <2>1, <2>2, LaidSteps
  <2>4. Append(s, x) \in Seq(Lot) /\ Laid(a) \in Seq(Nat) /\ Laid(s) \in Seq(Nat)
    BY <2>1, AppendProperties, LaidSteps
  <2>5. Unpacked(x) \in Seq(Nat)
    BY UnitsOfAre DEF Unpacked, Lot
  <2>6. (Laid(a) \o Laid(s)) \o Unpacked(x) = Laid(a) \o (Laid(s) \o Unpacked(x))
    <3>1. PICK p \in Seq(Nat), q \in Seq(Nat), r \in Seq(Nat) :
            p = Laid(a) /\ q = Laid(s) /\ r = Unpacked(x)
      BY <2>4, <2>5
    <3>2. (p \o q) \o r = p \o (q \o r)
      BY Regrouped
    <3>. QED BY <3>1, <3>2
  <2>. QED BY <2>1, <2>2, <2>3, <2>4, <2>6
<1> HIDE DEF T
<1>4. T = Seq(Lot)
  BY <1>1, <1>2, <1>3, AppendInduction
<1>. QED BY <1>4 DEF T

-----------------------------------------------------------------------------
(* Lots leave in their order *)

\* What Reverse is, index by index.
LEMMA ReversedIs ==
  ASSUME NEW X, NEW s \in Seq(X)
  PROVE  /\ Reverse(s) \in Seq(X) /\ Len(Reverse(s)) = Len(s)
         /\ \A k \in 1..Len(s) : Reverse(s)[k] = s[Len(s) - k + 1]
         /\ Reverse(Reverse(s)) = s
<1>1. PICK n \in Nat : n = Len(s)
  BY LenProperties
<1>2. Reverse(s) \in [1..n -> X]
  <2>1. \A k \in 1..n : s[(n - k) + 1] \in X
    BY <1>1
  <2>. QED BY <1>1, <2>1 DEF Reverse
<1>3. PICK t \in Seq(X) : t = Reverse(s) /\ Len(t) = n
  BY <1>1, <1>2
<1>4. \A k \in 1..n : t[k] = s[n - k + 1]
  BY <1>1, <1>3 DEF Reverse
<1>5. Reverse(t) \in [1..n -> X]
  <2>1. \A k \in 1..n : t[(n - k) + 1] \in X
    BY <1>3
  <2>. QED BY <1>3, <2>1 DEF Reverse
<1>6. \A k \in 1..n : Reverse(t)[k] = s[k]
  <2>1. \A k \in 1..n : Reverse(t)[k] = t[(n - k) + 1]
    BY <1>3 DEF Reverse
  <2>2. \A k \in 1..n : (n - k) + 1 \in 1..n /\ n - ((n - k) + 1) + 1 = k
    OBVIOUS
  <2>. QED BY <1>4, <2>1, <2>2
<1>7. Reverse(t) = s
  BY <1>1, <1>5, <1>6
<1>. QED BY <1>1, <1>3, <1>4, <1>7

\* Reversal swaps the parts.
LEMMA ReverseOfConcat ==
  ASSUME NEW X, NEW a \in Seq(X), NEW b \in Seq(X)
  PROVE  Reverse(a \o b) = Reverse(b) \o Reverse(a)
<1>1. PICK m \in Nat, n \in Nat : m = Len(a) /\ n = Len(b)
  BY LenProperties
<1>2. PICK c \in Seq(X) : c = a \o b
  BY ConcatProperties
<1>a. Len(c) = m + n /\ \A k \in 1..(m + n) : c[k] = IF k <= m THEN a[k] ELSE b[k - m]
  BY <1>1, <1>2, ConcatProperties
<1>3. PICK p \in Seq(X) : p = Reverse(a)
  BY ReversedIs
<1>b. Len(p) = m /\ \A k \in 1..m : p[k] = a[m - k + 1]
  BY <1>1, <1>3, ReversedIs
<1>4. PICK q \in Seq(X) : q = Reverse(b)
  BY ReversedIs
<1>c. Len(q) = n /\ \A k \in 1..n : q[k] = b[n - k + 1]
  BY <1>1, <1>4, ReversedIs
<1>5. PICK r \in Seq(X) : r = Reverse(c)
  BY ReversedIs
<1>d. Len(r) = m + n /\ \A k \in 1..(m + n) : r[k] = c[(m + n) - k + 1]
  BY <1>a, <1>5, ReversedIs
<1>6. PICK t \in Seq(X) : t = q \o p
  BY ConcatProperties
<1>e. Len(t) = n + m /\ \A k \in 1..(n + m) : t[k] = IF k <= n THEN q[k] ELSE p[k - n]
  <2>1. /\ Len(t) = Len(q) + Len(p)
        /\ \A k \in 1..(Len(q) + Len(p)) : t[k] = IF k <= Len(q) THEN q[k] ELSE p[k - Len(q)]
    BY <1>6, ConcatProperties
  <2>. QED BY <1>b, <1>c, <2>1
<1>7. ASSUME NEW k \in 1..(m + n) PROVE r[k] = t[k]
  <2>1. (m + n) - k + 1 \in 1..(m + n)
    OBVIOUS
  <2>2. r[k] = IF (m + n) - k + 1 <= m THEN a[(m + n) - k + 1] ELSE b[((m + n) - k + 1) - m]
    BY <1>a, <1>d, <2>1
  <2>3. CASE k <= n
    <3>1. k \in 1..n /\ ((m + n) - k + 1) - m = n - k + 1 /\ ~((m + n) - k + 1 <= m)
      BY <2>3
    <3>. QED BY <1>c, <1>e, <2>2, <2>3, <3>1
  <2>4. CASE ~(k <= n)
    <3>1. k - n \in 1..m /\ (m + n) - k + 1 = m - (k - n) + 1 /\ (m + n) - k + 1 <= m
      BY <2>4
    <3>. QED BY <1>b, <1>e, <2>2, <2>4, <3>1
  <2>. QED BY <2>3, <2>4
<1>8. Len(r) = Len(t) /\ \A k \in 1..Len(r) : r[k] = t[k]
  BY <1>d, <1>e, <1>7
<1>9. r = t
  BY <1>8, SeqEqual
<1>. QED BY <1>2, <1>3, <1>4, <1>5, <1>6, <1>9

\* Units of one lot are alike.
LEMMA ReverseOfUnits ==
  ASSUME NEW n \in Nat, NEW c \in Nat
  PROVE  Reverse(UnitsOf(n, c)) = UnitsOf(n, c)
<1>1. PICK s \in Seq(Nat) : s = UnitsOf(n, c) /\ Len(s) = n /\ \A k \in 1..n : s[k] = c
  BY UnitsOfAre
<1>2. PICK r \in Seq(Nat) : r = Reverse(s)
  BY ReversedIs
<1>a. Len(r) = n /\ \A k \in 1..n : r[k] = s[n - k + 1]
  <2>1. Len(r) = Len(s) /\ \A k \in 1..Len(s) : r[k] = s[Len(s) - k + 1]
    BY <1>2, ReversedIs
  <2>. QED BY <1>1, <2>1
<1>3. \A k \in 1..n : n - k + 1 \in 1..n
  OBVIOUS
<1>4. Len(r) = Len(s) /\ \A k \in 1..Len(r) : r[k] = s[k]
  BY <1>1, <1>a, <1>3
<1>5. r = s
  BY <1>4, SeqEqual
<1>. QED BY <1>1, <1>2, <1>5

\* A single lot laid out.
LEMMA LaidOfOne ==
  ASSUME NEW x \in Lot
  PROVE  Laid(<<x>>) = Unpacked(x) /\ Unpacked(x) \in Seq(Nat) /\ Len(Unpacked(x)) = x.quantity
<1>1. x.quantity \in Nat /\ x.unitCost \in Nat
  BY DEF Lot
<1>2. Unpacked(x) \in Seq(Nat) /\ Len(Unpacked(x)) = x.quantity
  BY <1>1, UnitsOfAre DEF Unpacked
<1>3. <<>> \in Seq(Lot) /\ Append(<<>>, x) = <<x>>
  OBVIOUS
<1>4. Laid(<<x>>) = <<>> \o Unpacked(x)
  BY <1>3, LaidSteps
<1>5. <<>> \o Unpacked(x) = Unpacked(x)
  BY <1>2, ConcatEmptySeq
<1>. QED BY <1>2, <1>4, <1>5

\* Lots in reverse are their units in reverse.
LEMMA LaidOfReverse ==
  ASSUME NEW lots \in Seq(Lot)
  PROVE  Laid(Reverse(lots)) = Reverse(Laid(lots))
<1> DEFINE T == {s \in Seq(Lot) : Laid(Reverse(s)) = Reverse(Laid(s))}
<1>1. T \subseteq Seq(Lot)
  OBVIOUS
<1>2. <<>> \in T
  <2>1. Reverse(<<>>) = <<>>
    BY DEF Reverse
  <2>. QED BY <2>1, LaidSteps, EmptySeq
<1>3. ASSUME NEW s \in T, NEW x \in Lot PROVE Append(s, x) \in T
  <2>1. s \in Seq(Lot) /\ Laid(Reverse(s)) = Reverse(Laid(s))
    OBVIOUS
  <2>2. Append(s, x) = s \o <<x>> /\ <<x>> \in Seq(Lot)
    BY <2>1, AppendIsConcat
  <2>3. Reverse(<<x>>) = <<x>>
    BY DEF Reverse
  <2>4. Reverse(Append(s, x)) = <<x>> \o Reverse(s)
    BY <2>1, <2>2, <2>3, ReverseOfConcat
  <2>5. PICK u \in Seq(Nat) : u = Unpacked(x) /\ Laid(<<x>>) = u
    BY LaidOfOne
  <2>6. Reverse(s) \in Seq(Lot)
    BY <2>1, ReversedIs
  <2>7. Laid(Reverse(Append(s, x))) = u \o Laid(Reverse(s))
    BY <2>2, <2>4, <2>5, <2>6, LaidOfConcat
  <2>8. Reverse(u) = u
    BY <2>5, ReverseOfUnits DEF Unpacked, Lot
  <2>9. Laid(Append(s, x)) = Laid(s) \o u /\ Laid(s) \in Seq(Nat)
    BY <2>1, <2>5, LaidSteps
  <2>10. Reverse(Laid(Append(s, x))) = u \o Reverse(Laid(s))
    BY <2>8, <2>9, ReverseOfConcat
  <2>11. Append(s, x) \in Seq(Lot)
    BY <2>1, AppendProperties
  <2>. QED BY <2>1, <2>7, <2>10, <2>11
<1> HIDE DEF T
<1>4. T = Seq(Lot)
  BY <1>1, <1>2, <1>3, AppendInduction
<1>. QED BY <1>4 DEF T

\* The order does not change the cost in all.
LEMMA TotalOfReverse ==
  ASSUME NEW units \in Seq(Nat)
  PROVE  Total(Reverse(units)) = Total(units)
<1> DEFINE T == {s \in Seq(Nat) : Total(Reverse(s)) = Total(s)}
<1>1. T \subseteq Seq(Nat)
  OBVIOUS
<1>2. <<>> \in T
  <2>1. Reverse(<<>>) = <<>>
    BY DEF Reverse
  <2>. QED BY <2>1, EmptySeq
<1>3. ASSUME NEW s \in T, NEW x \in Nat PROVE Append(s, x) \in T
  <2>1. s \in Seq(Nat) /\ Total(Reverse(s)) = Total(s)
    OBVIOUS
  <2>2. Append(s, x) = s \o <<x>> /\ <<x>> \in Seq(Nat)
    BY <2>1, AppendIsConcat
  <2>3. Reverse(<<x>>) = <<x>>
    BY DEF Reverse
  <2>4. Reverse(Append(s, x)) = <<x>> \o Reverse(s) /\ Reverse(s) \in Seq(Nat)
    BY <2>1, <2>2, <2>3, ReverseOfConcat, ReversedIs
  <2>5. Total(Reverse(Append(s, x))) = Total(<<x>>) + Total(Reverse(s))
    BY <2>2, <2>4, TotalOfConcat
  <2>6. Total(Append(s, x)) = Total(s) + Total(<<x>>)
    BY <2>1, <2>2, TotalOfConcat
  <2>7. Total(s) \in Nat /\ Total(<<x>>) \in Nat /\ Append(s, x) \in Seq(Nat)
    BY <2>1, <2>2, TotalSteps, AppendProperties
  <2>8. Total(Reverse(Append(s, x))) = Total(Append(s, x))
    BY <2>1, <2>5, <2>6, <2>7
  <2>. QED BY <2>7, <2>8
<1> HIDE DEF T
<1>4. T = Seq(Nat)
  BY <1>1, <1>2, <1>3, AppendInduction
<1>. QED BY <1>4 DEF T

\* All but the first n.
AfterFirst(s, n) == SubSeq(s, n + 1, Len(s))

\* What is left after the first n, index by index.
LEMMA AfterFirstIs ==
  ASSUME NEW X, NEW s \in Seq(X), NEW n \in 0..Len(s)
  PROVE  /\ AfterFirst(s, n) \in Seq(X) /\ Len(AfterFirst(s, n)) = Len(s) - n
         /\ \A k \in 1..(Len(s) - n) : AfterFirst(s, n)[k] = s[n + k]
<1>1. Len(s) \in Nat /\ n \in Nat /\ n <= Len(s)
  BY LenProperties
<1>2. \A k \in (n + 1)..Len(s) : s[k] \in X
  BY <1>1
<1>3. /\ SubSeq(s, n + 1, Len(s)) \in Seq(X)
      /\ Len(SubSeq(s, n + 1, Len(s))) = IF n + 1 <= Len(s) THEN Len(s) - (n + 1) + 1 ELSE 0
      /\ \A k \in 1..(Len(s) - (n + 1) + 1) : SubSeq(s, n + 1, Len(s))[k] = s[(n + 1) + k - 1]
  BY <1>1, <1>2, SubSeqProperties
<1>4. Len(s) - (n + 1) + 1 = Len(s) - n /\ \A k \in Int : (n + 1) + k - 1 = n + k
  BY <1>1
<1>5. Len(AfterFirst(s, n)) = Len(s) - n
  BY <1>1, <1>3 DEF AfterFirst
<1>6. ASSUME NEW k \in 1..(Len(s) - n) PROVE AfterFirst(s, n)[k] = s[n + k]
  <2>1. k \in 1..(Len(s) - (n + 1) + 1) /\ (n + 1) + k - 1 = n + k
    BY <1>1, <1>4
  <2>. QED BY <1>3, <2>1 DEF AfterFirst
<1>. QED BY <1>3, <1>5, <1>6 DEF AfterFirst

\* Leaving from the first part leaves the second alone.
LEMMA AfterFirstOfConcat ==
  ASSUME NEW a \in Seq(Nat), NEW b \in Seq(Nat), NEW n \in 0..Len(a)
  PROVE  AfterFirst(a \o b, n) = AfterFirst(a, n) \o b
<1>1. Len(a) \in Nat /\ Len(b) \in Nat /\ n \in Nat /\ n <= Len(a)
  BY LenProperties
<1>2. PICK c \in Seq(Nat) : c = a \o b
  BY ConcatProperties
<1>3. /\ Len(c) = Len(a) + Len(b)
      /\ \A k \in 1..(Len(a) + Len(b)) : c[k] = IF k <= Len(a) THEN a[k] ELSE b[k - Len(a)]
  BY <1>2, ConcatProperties
<1>a. n \in 0..Len(c)
  BY <1>1, <1>3
<1>4. PICK r \in Seq(Nat) : /\ r = AfterFirst(c, n) /\ Len(r) = Len(c) - n
                            /\ \A k \in 1..(Len(c) - n) : r[k] = c[n + k]
  BY <1>a, AfterFirstIs
<1>5. PICK p \in Seq(Nat) : /\ p = AfterFirst(a, n) /\ Len(p) = Len(a) - n
                            /\ \A k \in 1..(Len(a) - n) : p[k] = a[n + k]
  BY AfterFirstIs
<1>6. PICK t \in Seq(Nat) : t = p \o b
  BY ConcatProperties
<1>7. /\ Len(t) = Len(p) + Len(b)
      /\ \A k \in 1..(Len(p) + Len(b)) : t[k] = IF k <= Len(p) THEN p[k] ELSE b[k - Len(p)]
  BY <1>6, ConcatProperties
<1>8. ASSUME NEW k \in 1..Len(r) PROVE r[k] = t[k]
  <2>1. k \in 1..(Len(c) - n) /\ n + k \in 1..(Len(a) + Len(b)) /\ k \in 1..(Len(p) + Len(b))
    BY <1>1, <1>3, <1>4, <1>5
  <2>2. r[k] = IF n + k <= Len(a) THEN a[n + k] ELSE b[(n + k) - Len(a)]
    BY <1>3, <1>4, <2>1
  <2>3. t[k] = IF k <= Len(a) - n THEN p[k] ELSE b[k - (Len(a) - n)]
    BY <1>5, <1>7, <2>1
  <2>4. CASE k <= Len(a) - n
    <3>1. k \in 1..(Len(a) - n) /\ n + k <= Len(a)
      BY <1>1, <2>4
    <3>. QED BY <1>5, <2>2, <2>3, <2>4, <3>1
  <2>5. CASE ~(k <= Len(a) - n)
    <3>1. ~(n + k <= Len(a)) /\ (n + k) - Len(a) = k - (Len(a) - n)
      BY <1>1, <2>5
    <3>. QED BY <2>2, <2>3, <2>5, <3>1
  <2>. QED BY <2>4, <2>5
<1>9. Len(r) = Len(t)
  BY <1>1, <1>3, <1>4, <1>5, <1>7
<1>10. r = t
  BY <1>8, <1>9, SeqEqual
<1>. QED BY <1>2, <1>4, <1>5, <1>6, <1>10

\* Once the first part is gone the second is next.
LEMMA AfterWholeOfConcat ==
  ASSUME NEW a \in Seq(Nat), NEW b \in Seq(Nat), NEW n \in 0..Len(b)
  PROVE  AfterFirst(a \o b, Len(a) + n) = AfterFirst(b, n)
<1>1. Len(a) \in Nat /\ Len(b) \in Nat /\ n \in Nat /\ n <= Len(b)
  BY LenProperties
<1>2. PICK c \in Seq(Nat) : c = a \o b
  BY ConcatProperties
<1>3. /\ Len(c) = Len(a) + Len(b)
      /\ \A k \in 1..(Len(a) + Len(b)) : c[k] = IF k <= Len(a) THEN a[k] ELSE b[k - Len(a)]
  BY <1>2, ConcatProperties
<1>a. Len(a) + n \in 0..Len(c)
  BY <1>1, <1>3
<1>4. PICK r \in Seq(Nat) : /\ r = AfterFirst(c, Len(a) + n) /\ Len(r) = Len(c) - (Len(a) + n)
                            /\ \A k \in 1..(Len(c) - (Len(a) + n)) : r[k] = c[(Len(a) + n) + k]
  BY <1>a, AfterFirstIs
<1>5. PICK p \in Seq(Nat) : /\ p = AfterFirst(b, n) /\ Len(p) = Len(b) - n
                            /\ \A k \in 1..(Len(b) - n) : p[k] = b[n + k]
  BY AfterFirstIs
<1>6. Len(r) = Len(p) /\ Len(r) = Len(b) - n /\ Len(c) - (Len(a) + n) = Len(b) - n
  BY <1>1, <1>3, <1>4, <1>5
<1>7. ASSUME NEW k \in 1..Len(r) PROVE r[k] = p[k]
  <2>1. /\ k \in 1..(Len(b) - n) /\ (Len(a) + n) + k \in 1..(Len(a) + Len(b))
        /\ ~((Len(a) + n) + k <= Len(a)) /\ ((Len(a) + n) + k) - Len(a) = n + k
    <3>1. k \in 1..(Len(b) - n)
      BY <1>6, <1>7
    <3>. QED BY <1>1, <3>1
  <2>2. r[k] = c[(Len(a) + n) + k]
    BY <1>4, <1>6, <2>1
  <2>3. c[(Len(a) + n) + k] = b[n + k]
    BY <1>3, <2>1
  <2>. QED BY <1>5, <2>1, <2>2, <2>3
<1>8. r = p
  BY <1>6, <1>7, SeqEqual
<1>. QED BY <1>2, <1>4, <1>5, <1>8

\* Some units of a lot leave.
LEMMA AfterFirstOfUnits ==
  ASSUME NEW n \in Nat, NEW c \in Nat, NEW k \in 0..n
  PROVE  AfterFirst(UnitsOf(n, c), k) = UnitsOf(n - k, c)
<1>1. PICK s \in Seq(Nat) : s = UnitsOf(n, c) /\ Len(s) = n /\ \A i \in 1..n : s[i] = c
  BY UnitsOfAre
<1>a. k \in 0..Len(s)
  BY <1>1
<1>b. /\ AfterFirst(s, k) \in Seq(Nat) /\ Len(AfterFirst(s, k)) = Len(s) - k
      /\ \A i \in 1..(Len(s) - k) : AfterFirst(s, k)[i] = s[k + i]
  BY <1>a, AfterFirstIs
<1>2. PICK r \in Seq(Nat) : /\ r = AfterFirst(s, k) /\ Len(r) = Len(s) - k
                            /\ \A i \in 1..(Len(s) - k) : r[i] = s[k + i]
  BY <1>b
<1>3. n - k \in Nat
  OBVIOUS
<1>4. PICK t \in Seq(Nat) : t = UnitsOf(n - k, c) /\ Len(t) = n - k /\ \A i \in 1..(n - k) : t[i] = c
  BY <1>3, UnitsOfAre
<1>5. ASSUME NEW i \in 1..Len(r) PROVE r[i] = t[i]
  <2>1. i \in 1..(n - k) /\ k + i \in 1..n
    BY <1>1, <1>2
  <2>. QED BY <1>1, <1>2, <1>4, <2>1
<1>6. Len(r) = Len(t)
  BY <1>1, <1>2, <1>4
<1>7. r = t
  BY <1>5, <1>6, SeqEqual
<1>. QED BY <1>1, <1>2, <1>4, <1>7

Rest == [remaining : Nat, released : Nat, lots : Seq(Lot)]

\* What consume does at one lot.
LEMMA TakeFromIs ==
  ASSUME NEW rest \in Rest, NEW x \in Lot, NEW consumed, consumed = Smaller(x.quantity, rest.remaining)
  PROVE  /\ consumed \in Nat /\ consumed <= x.quantity /\ consumed <= rest.remaining
         /\ consumed = x.quantity \/ consumed = rest.remaining
         /\ TakeFrom(rest, x) \in Rest
         /\ TakeFrom(rest, x).remaining = rest.remaining - consumed
         /\ TakeFrom(rest, x).released = rest.released + consumed * x.unitCost
         /\ consumed = x.quantity => TakeFrom(rest, x).lots = rest.lots
         /\ consumed # x.quantity =>
              TakeFrom(rest, x).lots
                = Append(rest.lots, [quantity |-> x.quantity - consumed, unitCost |-> x.unitCost])
<1>1. /\ x.quantity \in Nat /\ x.unitCost \in Nat /\ rest.remaining \in Nat /\ rest.released \in Nat
      /\ rest.lots \in Seq(Lot)
  BY DEF Lot, Rest
<1>2. consumed \in Nat /\ consumed <= x.quantity /\ consumed <= rest.remaining
      /\ (consumed = x.quantity \/ consumed = rest.remaining)
  BY <1>1 DEF Smaller
<1>3. [x EXCEPT !.quantity = @ - consumed] = [quantity |-> x.quantity - consumed, unitCost |-> x.unitCost]
  BY DEF Lot
<1>4. TakeFrom(rest, x) =
        [remaining |-> rest.remaining - consumed,
         released  |-> rest.released + consumed * x.unitCost,
         lots      |-> IF consumed = x.quantity THEN rest.lots
                       ELSE Append(rest.lots, [quantity |-> x.quantity - consumed, unitCost |-> x.unitCost])]
  BY <1>3 DEF TakeFrom
<1>5. [quantity |-> x.quantity - consumed, unitCost |-> x.unitCost] \in Lot
  BY <1>1, <1>2 DEF Lot
<1>6. consumed * x.unitCost \in Nat
  BY <1>1, <1>2
<1>7. PICK l \in Seq(Lot) : l = IF consumed = x.quantity THEN rest.lots
          ELSE Append(rest.lots, [quantity |-> x.quantity - consumed, unitCost |-> x.unitCost])
  BY <1>1, <1>5, AppendProperties
<1>8. TakeFrom(rest, x) \in Rest
  BY <1>1, <1>2, <1>4, <1>6, <1>7 DEF Rest
<1>. QED BY <1>2, <1>4, <1>8

\* What remains to be consumed, what is left of the units, and what was released.
Took(lots, amount, rest) ==
  LET units == Laid(lots)
      used  == Smaller(Len(units), amount)
  IN /\ rest \in Rest
     /\ rest.remaining = amount - used
     /\ Laid(rest.lots) = AfterFirst(units, used)
     /\ rest.released + Total(Laid(rest.lots)) = Total(units)

\* One more lot: its units leave if more are wanted than were there before it.
LEMMA TakenStep ==
  ASSUME NEW lots \in Seq(Lot), NEW amount \in Nat, NEW rest, Took(lots, amount, rest), NEW x \in Lot
  PROVE  Took(Append(lots, x), amount, TakeFrom(rest, x))
<1>1. PICK q \in Nat, c \in Nat : q = x.quantity /\ c = x.unitCost
  BY DEF Lot
<1>2. PICK U \in Seq(Nat) : U = Laid(lots)
  BY LaidSteps
<1>3. PICK W \in Seq(Nat) : W = UnitsOf(q, c) /\ Len(W) = q /\ W = Unpacked(x)
  BY <1>1, UnitsOfAre DEF Unpacked
<1>4. PICK V \in Seq(Nat) : V = Laid(Append(lots, x)) /\ V = U \o W
  BY <1>2, <1>3, LaidSteps, ConcatProperties
<1>5. Len(V) = Len(U) + q /\ Total(V) = Total(U) + q * c
  <2>1. Len(V) = Len(U) + Len(W) /\ Total(V) = Total(U) + Total(W)
    BY <1>4, ConcatProperties, TotalOfConcat
  <2>2. Total(W) = q * c
    BY <1>3, TotalOfUnits
  <2>. QED BY <1>3, <2>1, <2>2
<1>6. PICK n \in Nat : n = Len(U)
  BY LenProperties
<1>7. PICK used \in Nat : used = Smaller(n, amount)
  BY DEF Smaller
<1>8. /\ rest \in Rest /\ rest.remaining = amount - used
      /\ Laid(rest.lots) = AfterFirst(U, used)
      /\ rest.released + Total(Laid(rest.lots)) = Total(U)
  BY <1>2, <1>6, <1>7 DEF Took
<1>9. PICK more : more = Smaller(q, amount - used)
  OBVIOUS
<1>10. PICK next : next = TakeFrom(rest, x)
  OBVIOUS
<1>11. /\ more \in Nat /\ more <= q /\ more <= amount - used
       /\ more = q \/ more = amount - used
       /\ next \in Rest /\ next.remaining = (amount - used) - more
       /\ next.released = rest.released + more * c
       /\ more = q => next.lots = rest.lots
       /\ more # q => next.lots = Append(rest.lots, [quantity |-> q - more, unitCost |-> c])
  <2>1. more = Smaller(x.quantity, rest.remaining)
    BY <1>1, <1>8, <1>9
  <2>2. /\ more \in Nat /\ more <= x.quantity /\ more <= rest.remaining
        /\ more = x.quantity \/ more = rest.remaining
        /\ next \in Rest
        /\ next.remaining = rest.remaining - more
        /\ next.released = rest.released + more * x.unitCost
        /\ more = x.quantity => next.lots = rest.lots
        /\ more # x.quantity =>
             next.lots = Append(rest.lots, [quantity |-> x.quantity - more, unitCost |-> x.unitCost])
    BY <1>8, <1>10, <2>1, TakeFromIs
  <2>. QED BY <1>1, <1>8, <2>2
<1>12. Smaller(n + q, amount) = used + more
  BY <1>7, <1>9 DEF Smaller
<1>13. used \in 0..n /\ (used = n \/ more = 0)
  BY <1>7, <1>9 DEF Smaller
<1>14. PICK D \in Seq(Nat) : D = AfterFirst(U, used)
  BY <1>6, <1>13, AfterFirstIs
<1>15. rest.released \in Nat /\ Total(U) \in Nat /\ Total(D) \in Nat /\ rest.lots \in Seq(Lot)
  BY <1>8, TotalSteps DEF Rest
<1>16. Laid(next.lots) = D \o UnitsOf(q - more, c)
  <2>1. CASE more = q
    <3>1. UnitsOf(q - more, c) = <<>>
      BY <2>1 DEF UnitsOf
    <3>2. D \o <<>> = D
      BY ConcatEmptySeq
    <3>. QED BY <1>8, <1>11, <1>14, <2>1, <3>1, <3>2
  <2>2. CASE more # q
    <3>a. q - more \in Nat
      BY <1>11
    <3>1. PICK y \in Lot : y = [quantity |-> q - more, unitCost |-> c]
      BY <3>a DEF Lot
    <3>2. Laid(Append(rest.lots, y)) = D \o Unpacked(y)
      BY <1>8, <1>14, <1>15, LaidSteps
    <3>. QED BY <1>11, <2>2, <3>1, <3>2 DEF Unpacked
  <2>. QED BY <2>1, <2>2
<1>17. AfterFirst(V, used + more) = D \o UnitsOf(q - more, c)
  <2>1. CASE more = 0
    <3>1. AfterFirst(V, used) = D \o W
      BY <1>4, <1>6, <1>13, <1>14, AfterFirstOfConcat
    <3>2. used + more = used /\ q - more = q
      BY <2>1
    <3>. QED BY <1>3, <3>1, <3>2
  <2>2. CASE more # 0
    <3>1. used = n /\ more \in 0..q
      BY <1>11, <1>13, <2>2
    <3>2. AfterFirst(V, n + more) = AfterFirst(W, more)
      BY <1>3, <1>4, <1>6, <3>1, AfterWholeOfConcat
    <3>3. AfterFirst(W, more) = UnitsOf(q - more, c)
      BY <1>3, <3>1, AfterFirstOfUnits
    <3>4. D = <<>>
      <4>1. Len(D) = 0
        <5>1. Len(D) = Len(U) - used
          BY <1>6, <1>13, <1>14, AfterFirstIs
        <5>. QED BY <1>6, <3>1, <5>1
      <4>. QED BY <4>1, EmptySeq
    <3>5. UnitsOf(q - more, c) \in Seq(Nat)
      BY <1>11, UnitsOfAre
    <3>6. <<>> \o UnitsOf(q - more, c) = UnitsOf(q - more, c)
      BY <3>5, ConcatEmptySeq
    <3>. QED BY <3>1, <3>2, <3>3, <3>4, <3>6
  <2>. QED BY <2>1, <2>2
<1>18. Total(Laid(next.lots)) = Total(D) + (q - more) * c
  <2>1. q - more \in Nat /\ UnitsOf(q - more, c) \in Seq(Nat)
    BY <1>11, UnitsOfAre
  <2>. QED BY <1>16, <2>1, TotalOfConcat, TotalOfUnits
<1>19. next.released + Total(Laid(next.lots)) = Total(V)
  <2>1. more * c + (q - more) * c = q * c
    BY <1>11
  <2>2. more * c \in Nat /\ (q - more) * c \in Nat /\ q * c \in Nat
    BY <1>11
  <2>3. rest.released + Total(D) = Total(U)
    BY <1>8, <1>14
  <2>4. PICK a \in Nat, b \in Nat, d \in Nat : a = more * c /\ b = (q - more) * c /\ d = q * c
    BY <2>2
  <2>5. a + b = d /\ Total(V) = Total(U) + d
    BY <1>5, <2>1, <2>4
  <2>6. next.released = rest.released + a /\ Total(Laid(next.lots)) = Total(D) + b
    BY <1>11, <1>18, <2>4
  <2>7. PICK e \in Nat, f \in Nat, g \in Nat : e = rest.released /\ f = Total(D) /\ g = Total(U)
    BY <1>15
  <2>8. (e + a) + (f + b) = g + d
    <3>1. e + f = g /\ a + b = d
      BY <2>3, <2>5, <2>7
    <3>2. \A i, j, k, l \in Nat : (i + j) + (k + l) = (i + k) + (j + l)
      OBVIOUS
    <3>. QED BY <3>1, <3>2
  <2>. QED BY <2>5, <2>6, <2>7, <2>8
<1>20. next.remaining = amount - (used + more)
  BY <1>7, <1>11
<1>21. Len(V) = n + q
  BY <1>5, <1>6
<1>. QED BY <1>4, <1>10, <1>11, <1>12, <1>16, <1>17, <1>19, <1>20, <1>21 DEF Took

\* Consuming lots takes away the first units that they stand for.
LEMMA TakenIs ==
  ASSUME NEW lots \in Seq(Lot), NEW amount \in Nat
  PROVE  Took(lots, amount, Taken(lots, amount))
<1> DEFINE base == [remaining |-> amount, released |-> 0, lots |-> <<>>]
           T == {s \in Seq(Lot) : Took(s, amount, Taken(s, amount))}
<1>1. base \in Rest
  BY EmptySeq DEF Rest
<1>2. Closed("take", "", Rest, Lot)
  BY TakeFromIs DEF Closed, Does
<1> HIDE DEF base
<1>3. Unfolds("take", "", Rest, Lot, base)
  BY <1>1, <1>2, FoldUnfolds
<1>4. \A s : Taken(s, amount) = Fold("take", "", base, s)
  BY TakenIsFold DEF base
<1>5. Taken(<<>>, amount) = base /\ \A s \in Seq(Lot), x \in Lot :
        Taken(Append(s, x), amount) = TakeFrom(Taken(s, amount), x)
  BY <1>3, <1>4 DEF Unfolds, Does
<1>6. T \subseteq Seq(Lot)
  OBVIOUS
<1>7. <<>> \in T
  <2>1. Laid(<<>>) = <<>> /\ Len(<<>>) = 0 /\ Smaller(0, amount) = 0 /\ Total(<<>>) = 0
    BY LaidSteps, TotalSteps DEF Smaller
  <2>2. AfterFirst(<<>>, 0) = <<>>
    BY DEF AfterFirst
  <2>3. base.remaining = amount /\ base.released = 0 /\ base.lots = <<>>
    BY DEF base
  <2>4. Took(<<>>, amount, base)
    BY <1>1, <2>1, <2>2, <2>3 DEF Took
  <2>. QED BY <1>5, <2>4, EmptySeq
<1>8. ASSUME NEW s \in T, NEW x \in Lot PROVE Append(s, x) \in T
  <2>1. s \in Seq(Lot) /\ Took(s, amount, Taken(s, amount))
    OBVIOUS
  <2>2. Took(Append(s, x), amount, TakeFrom(Taken(s, amount), x))
    BY <2>1, TakenStep
  <2>. QED BY <1>5, <2>1, <2>2, AppendProperties
<1> HIDE DEF T
<1>9. T = Seq(Lot)
  BY <1>6, <1>7, <1>8, AppendInduction
<1>. QED BY <1>9 DEF T

\* The units that stay when some leave at the end that the strategy consumes.
Staying(strategy, units, amount) ==
  IF strategy = "FIFO" THEN SubSeq(units, amount + 1, Len(units))
  ELSE SubSeq(units, 1, Len(units) - amount)

\* The units that stay, from either end.
LEMMA StayingAre ==
  ASSUME NEW strategy, NEW units \in Seq(Nat), NEW amount \in 0..Len(units)
  PROVE  /\ Staying(strategy, units, amount) \in Seq(Nat)
         /\ Len(Staying(strategy, units, amount)) = Len(units) - amount
         /\ strategy # "FIFO" =>
              Staying(strategy, units, amount) = Reverse(AfterFirst(Reverse(units), amount))
<1>1. PICK n \in Nat : n = Len(units) /\ amount \in Nat /\ amount <= n
  BY LenProperties
<1>2. CASE strategy = "FIFO"
  <2>1. Staying(strategy, units, amount) = AfterFirst(units, amount)
    BY <1>2 DEF Staying, AfterFirst
  <2>. QED BY <1>2, <2>1, AfterFirstIs
<1>3. CASE strategy # "FIFO"
  <2>1. PICK s : s = SubSeq(units, 1, n - amount) /\ s = Staying(strategy, units, amount)
    BY <1>1, <1>3 DEF Staying
  <2>2. \A k \in 1..(n - amount) : units[k] \in Nat
    BY <1>1
  <2>3. n - amount \in Int
    BY <1>1
  <2>4. /\ s \in Seq(Nat)
        /\ Len(s) = IF 1 <= n - amount THEN (n - amount) - 1 + 1 ELSE 0
        /\ \A k \in 1..((n - amount) - 1 + 1) : s[k] = units[1 + k - 1]
    BY <2>1, <2>2, <2>3, SubSeqProperties
  <2>5. Len(s) = n - amount
    BY <1>1, <2>4
  <2>6. ASSUME NEW k \in 1..(n - amount) PROVE s[k] = units[k]
    <3>1. k \in 1..((n - amount) - 1 + 1) /\ 1 + k - 1 = k
      BY <1>1
    <3>. QED BY <2>4, <3>1
  <2>7. PICK r \in Seq(Nat) : r = Reverse(units)
    BY ReversedIs
  <2>8. Len(r) = n /\ \A k \in 1..n : r[k] = units[n - k + 1]
    BY <1>1, <2>7, ReversedIs
  <2>9. amount \in 0..Len(r)
    BY <1>1, <2>8
  <2>10. PICK d \in Seq(Nat) : d = AfterFirst(r, amount)
    BY <2>9, AfterFirstIs
  <2>11. Len(d) = n - amount /\ \A k \in 1..(n - amount) : d[k] = r[amount + k]
    <3>1. Len(d) = Len(r) - amount /\ \A k \in 1..(Len(r) - amount) : d[k] = r[amount + k]
      BY <2>9, <2>10, AfterFirstIs
    <3>. QED BY <2>8, <3>1
  <2>12. PICK e \in Seq(Nat) : e = Reverse(d)
    BY ReversedIs
  <2>13. Len(e) = n - amount /\ \A k \in 1..(n - amount) : e[k] = d[(n - amount) - k + 1]
    <3>1. Len(e) = Len(d) /\ \A k \in 1..Len(d) : e[k] = d[Len(d) - k + 1]
      BY <2>12, ReversedIs
    <3>. QED BY <2>11, <3>1
  <2>14. ASSUME NEW k \in 1..(n - amount) PROVE e[k] = s[k]
    <3>1. /\ (n - amount) - k + 1 \in 1..(n - amount)
          /\ amount + ((n - amount) - k + 1) \in 1..n
          /\ n - (amount + ((n - amount) - k + 1)) + 1 = k
      BY <1>1
    <3>2. e[k] = d[(n - amount) - k + 1]
      BY <2>13
    <3>3. d[(n - amount) - k + 1] = r[amount + ((n - amount) - k + 1)]
      BY <2>11, <3>1
    <3>4. r[amount + ((n - amount) - k + 1)] = units[k]
      BY <2>8, <3>1
    <3>. QED BY <2>6, <3>2, <3>3, <3>4
  <2>15. Len(e) = Len(s) /\ \A k \in 1..Len(e) : e[k] = s[k]
    BY <2>5, <2>13, <2>14
  <2>16. e = s
    BY <2>4, <2>15, SeqEqual
  <2>. QED BY <1>1, <1>3, <2>1, <2>4, <2>5, <2>7, <2>10, <2>12, <2>16
<1>. QED BY <1>2, <1>3

\* LotStore.consume takes the oldest or the newest units, each at its own cost.
LEMMA ConsumedIs ==
  ASSUME NEW strategy, strategy \in {"FIFO", "LIFO"}, NEW lots \in Seq(Lot),
         NEW amount \in 0..Len(Laid(lots)), NEW out, out = Consumed(strategy, lots, amount)
  PROVE  /\ out.lots \in Seq(Lot) /\ out.released \in Nat
         /\ Laid(out.lots) = Staying(strategy, Laid(lots), amount)
         /\ out.released + Total(Laid(out.lots)) = Total(Laid(lots))
<1>1. PICK U \in Seq(Nat) : U = Laid(lots) /\ amount \in 0..Len(U) /\ amount \in Nat
  BY LaidSteps
<1>2. CASE strategy = "FIFO"
  <2>1. PICK rest : rest = Taken(lots, amount)
    OBVIOUS
  <2>2. out.lots = rest.lots /\ out.released = rest.released
    BY <1>2, <2>1 DEF Consumed, Taken, FromItsEnd
  <2>3. Took(lots, amount, rest)
    BY <1>1, <2>1, TakenIs
  <2>4. Smaller(Len(U), amount) = amount
    BY <1>1, LenProperties DEF Smaller
  <2>5. /\ rest \in Rest /\ Laid(rest.lots) = AfterFirst(U, amount)
        /\ rest.released + Total(Laid(rest.lots)) = Total(U)
    BY <1>1, <2>3, <2>4 DEF Took
  <2>6. AfterFirst(U, amount) = Staying(strategy, U, amount)
    BY <1>2 DEF Staying, AfterFirst
  <2>. QED BY <1>1, <2>2, <2>5, <2>6 DEF Rest
<1>3. CASE strategy = "LIFO"
  <2>1. PICK back \in Seq(Lot) : back = Reverse(lots)
    BY ReversedIs
  <2>2. PICK rest : rest = Taken(back, amount)
    OBVIOUS
  <2>3. out.lots = Reverse(rest.lots) /\ out.released = rest.released
    BY <1>3, <2>1, <2>2 DEF Consumed, Taken, FromItsEnd
  <2>4. Took(back, amount, rest)
    BY <1>1, <2>2, TakenIs
  <2>5. PICK V \in Seq(Nat) : V = Laid(back) /\ V = Reverse(U) /\ Len(V) = Len(U) /\ Total(V) = Total(U)
    BY <1>1, <2>1, LaidOfReverse, ReversedIs, TotalOfReverse
  <2>6. Smaller(Len(V), amount) = amount
    BY <1>1, <2>5, LenProperties DEF Smaller
  <2>7. /\ rest \in Rest /\ Laid(rest.lots) = AfterFirst(V, amount)
        /\ rest.released + Total(Laid(rest.lots)) = Total(V)
    BY <2>4, <2>5, <2>6 DEF Took
  <2>8. PICK left \in Seq(Lot) : left = rest.lots
    BY <2>7 DEF Rest
  <2>9. Reverse(left) \in Seq(Lot) /\ Laid(Reverse(left)) = Reverse(Laid(left))
    BY ReversedIs, LaidOfReverse
  <2>10. Laid(left) \in Seq(Nat) /\ Total(Reverse(Laid(left))) = Total(Laid(left))
    BY LaidSteps, TotalOfReverse
  <2>11. Staying(strategy, U, amount) = Reverse(AfterFirst(V, amount))
    BY <1>1, <1>3, <2>5, StayingAre
  <2>12. rest.released \in Nat
    BY <2>7 DEF Rest
  <2>. QED BY <1>1, <2>3, <2>5, <2>7, <2>8, <2>9, <2>10, <2>11, <2>12
<1>. QED BY <1>2, <1>3

-----------------------------------------------------------------------------
(* Positions *)

\* The lots hold the quantity, and no more than the cost.
InLots(s) ==
  /\ s.quantity = Len(Laid(s.lots))
  /\ Total(Laid(s.lots)) <= s.cost

Whole(strategy) ==
  {s \in Position : IF ByLots(strategy) THEN InLots(s) ELSE s.lots = <<>>}

\* The parts of a position.
LEMMA PositionIs ==
  ASSUME NEW s \in Position
  PROVE  /\ s.quantity \in Nat /\ s.cost \in Nat /\ s.lots \in Seq(Lot) /\ s.events \in Seq(Event)
         /\ s = [quantity |-> s.quantity, cost |-> s.cost, lots |-> s.lots, events |-> s.events]
         /\ s # Failed
  BY DEF Position, Failed

\* A quotient that is cut off loses cost, and creates none.
LEMMA QuotientIs ==
  ASSUME NEW a \in Nat, NEW b \in Nat, b # 0
  PROVE  Quotient(a, b) \in Nat /\ b * Quotient(a, b) <= a
  BY DEF Quotient

\* What a purchase or an incoming transfer does.
LEMMA AcquireIs ==
  ASSUME NEW strategy, NEW s \in Whole(strategy), NEW amount \in Nat, NEW unitCost \in Nat,
         NEW next, next = Acquire(strategy, s, amount, unitCost)
  PROVE  /\ next \in Whole(strategy)
         /\ next.quantity = s.quantity + amount
         /\ next.cost = s.cost + amount * unitCost
         /\ next.events = s.events
         /\ ByLots(strategy) =>
              /\ Laid(next.lots) = Laid(s.lots) \o UnitsOf(amount, unitCost)
              /\ Total(Laid(next.lots)) = Total(Laid(s.lots)) + amount * unitCost
<1>0. /\ s.quantity \in Nat /\ s.cost \in Nat /\ s.lots \in Seq(Lot) /\ s.events \in Seq(Event)
      /\ s = [quantity |-> s.quantity, cost |-> s.cost, lots |-> s.lots, events |-> s.events]
      /\ s \in Position
  BY PositionIs DEF Whole
<1>1. PICK lot \in Lot : lot = [quantity |-> amount, unitCost |-> unitCost]
  BY DEF Lot
<1>2. PICK lots \in Seq(Lot) : lots = IF ByLots(strategy) THEN Append(s.lots, lot) ELSE s.lots
  BY <1>0, AppendProperties
<1>4. PICK worth \in Nat : worth = amount * unitCost
  OBVIOUS
<1>3. next = [quantity |-> s.quantity + amount, cost |-> s.cost + worth,
              lots |-> lots, events |-> s.events]
  BY <1>0, <1>1, <1>2, <1>4 DEF Acquire, Position
<1>a. PICK quantity \in Nat, cost \in Nat : quantity = s.quantity + amount /\ cost = s.cost + worth
  BY <1>0
<1>b. next.quantity = quantity /\ next.cost = cost /\ next.lots = lots /\ next.events = s.events
  BY <1>3, <1>a
<1>5. next \in Position
  BY <1>0, <1>3, <1>a DEF Position
<1>6. CASE ByLots(strategy)
  <2>1. PICK U \in Seq(Nat), W \in Seq(Nat) :
          U = Laid(s.lots) /\ W = UnitsOf(amount, unitCost) /\ W = Unpacked(lot)
    BY <1>0, <1>1, LaidSteps, UnitsOfAre DEF Unpacked
  <2>2. Len(W) = amount /\ Total(W) = worth
    BY <1>4, <2>1, UnitsOfAre, TotalOfUnits
  <2>3. Laid(next.lots) = U \o W
    <3>1. Laid(Append(s.lots, lot)) = U \o W
      BY <1>0, <2>1, LaidSteps
    <3>. QED BY <1>2, <1>3, <1>6, <3>1
  <2>4. Len(U \o W) = Len(U) + Len(W) /\ Total(U \o W) = Total(U) + Total(W)
    BY ConcatProperties, TotalOfConcat
  <2>5. s.quantity = Len(U) /\ Total(U) <= s.cost
    BY <1>6, <2>1 DEF Whole, InLots
  <2>6. Total(U) \in Nat
    BY TotalSteps
  <2>7. Len(U \o W) = s.quantity + amount /\ Total(U \o W) = Total(U) + worth
        /\ Total(U) + worth <= s.cost + worth
    BY <1>0, <2>2, <2>4, <2>5, <2>6
  <2>8. InLots(next)
    BY <1>a, <1>b, <2>3, <2>7 DEF InLots
  <2>9. next \in Whole(strategy)
    BY <1>5, <1>6, <2>8 DEF Whole
  <2>10. next.quantity = s.quantity + amount /\ next.cost = s.cost + worth /\ next.events = s.events
    BY <1>3
  <2>. QED BY <1>4, <2>1, <2>3, <2>7, <2>9, <2>10
<1>7. CASE ~ByLots(strategy)
  <2>1. next.lots = <<>>
    BY <1>2, <1>3, <1>7 DEF Whole
  <2>2. next \in Whole(strategy)
    BY <1>5, <1>7, <2>1 DEF Whole
  <2>. QED BY <1>4, <1>7, <1>a, <1>b, <2>2
<1>. QED BY <1>6, <1>7

\* What a disposal takes away.
LEMMA ReleaseIs ==
  ASSUME NEW strategy \in Strategies, NEW s \in Whole(strategy), NEW amount \in 0..s.quantity,
         NEW out, out = Release(strategy, s, amount)
  PROVE  /\ out.released \in Nat /\ out.released <= s.cost /\ out.lots \in Seq(Lot)
         /\ ByLots(strategy) =>
              /\ Laid(out.lots) = Staying(strategy, Laid(s.lots), amount)
              /\ Len(Laid(out.lots)) = s.quantity - amount
              /\ out.released + Total(Laid(out.lots)) = Total(Laid(s.lots))
         /\ ~ByLots(strategy) => out.lots = <<>>
<1>0. /\ s.quantity \in Nat /\ s.cost \in Nat /\ s.lots \in Seq(Lot) /\ amount \in Nat
      /\ amount <= s.quantity
  BY PositionIs DEF Whole
<1>1. CASE ByLots(strategy)
  <2>1. strategy \in {"FIFO", "LIFO"} /\ out = Consumed(strategy, s.lots, amount)
    BY <1>1 DEF Strategies, ByLots, Release
  <2>2. PICK U \in Seq(Nat) : U = Laid(s.lots) /\ s.quantity = Len(U) /\ Total(U) <= s.cost
    BY <1>0, <1>1, LaidSteps DEF Whole, InLots
  <2>3. amount \in 0..Len(Laid(s.lots))
    BY <1>0, <2>2
  <2>4. /\ out.lots \in Seq(Lot) /\ out.released \in Nat
        /\ Laid(out.lots) = Staying(strategy, U, amount)
        /\ out.released + Total(Laid(out.lots)) = Total(U)
    BY <1>0, <2>1, <2>2, <2>3, ConsumedIs
  <2>5. /\ Staying(strategy, U, amount) \in Seq(Nat)
        /\ Len(Staying(strategy, U, amount)) = s.quantity - amount
    BY <2>2, <2>3, StayingAre
  <2>6. Total(Laid(out.lots)) \in Nat /\ Total(U) \in Nat
    BY <2>4, <2>5, TotalSteps
  <2>7. out.released <= Total(U)
    BY <2>4, <2>6
  <2>8. out.released <= s.cost
    BY <1>0, <2>2, <2>4, <2>6, <2>7
  <2>. QED BY <1>1, <2>2, <2>4, <2>5, <2>8
<1>2. CASE ~ByLots(strategy)
  <2>1. out = [lots |-> <<>>, released |-> PooledBasis(s, amount)]
    BY <1>2 DEF Release
  <2>2. PooledBasis(s, amount) \in Nat /\ PooledBasis(s, amount) <= s.cost
    <3>1. CASE s.cost = 0 \/ amount = 0
      BY <1>0, <3>1 DEF PooledBasis
    <3>2. CASE ~(s.cost = 0 \/ amount = 0)
      <4>1. s.quantity # 0
        BY <1>0, <3>2
      <4>2. PICK e \in Nat : e = Quotient(s.cost, s.quantity) /\ s.quantity * e <= s.cost
        BY <1>0, <4>1, QuotientIs
      <4>3. PooledBasis(s, amount) = amount * e
        BY <3>2, <4>2 DEF PooledBasis
      <4>4. \A a, b, x \in Nat : a <= b => a * x <= b * x
        OBVIOUS
      <4>5. amount * e <= s.quantity * e
        BY <1>0, <4>4
      <4>6. amount * e \in Nat /\ s.quantity * e \in Nat
        BY <1>0
      <4>. QED BY <1>0, <4>2, <4>3, <4>5, <4>6
    <3>. QED BY <3>1, <3>2
  <2>3. out.lots = <<>> /\ out.released = PooledBasis(s, amount) /\ <<>> \in Seq(Lot)
    BY <2>1, EmptySeq
  <2>. QED BY <1>2, <2>2, <2>3
<1>. QED BY <1>1, <1>2

\* What a sale or an outgoing transfer does when it is covered, or clamped.
LEMMA DisposeIs ==
  ASSUME NEW strategy \in Strategies, NEW s \in Whole(strategy), NEW tx \in Entry,
         ~ByLots(strategy) \/ tx.amount <= s.quantity,
         NEW amount, amount = Clamped(s.quantity, tx.amount),
         NEW next, next = Dispose(strategy, s, tx)
  PROVE  /\ next \in Whole(strategy)
         /\ amount \in 0..s.quantity /\ (tx.amount <= s.quantity => amount = tx.amount)
         /\ next.quantity = s.quantity - amount
         /\ \E released \in Nat :
              /\ next.cost = s.cost - released
              /\ next.events = IF tx.kind = "SELL"
                   THEN Append(s.events, [amount |-> amount, proceeds |-> amount * tx.price * Unit,
                                          basis |-> released])
                   ELSE s.events
              /\ amount * tx.price * Unit \in Nat
              /\ ByLots(strategy) =>
                   /\ Laid(next.lots) = Staying(strategy, Laid(s.lots), amount)
                   /\ released + Total(Laid(next.lots)) = Total(Laid(s.lots))
<1>0. /\ s.quantity \in Nat /\ s.cost \in Nat /\ s.lots \in Seq(Lot) /\ s.events \in Seq(Event)
      /\ tx.amount \in Nat /\ tx.price \in Nat
  BY PositionIs DEF Whole, Entry
<1>1. amount \in 0..s.quantity /\ amount \in Nat /\ (tx.amount <= s.quantity => amount = tx.amount)
  BY <1>0 DEF Clamped, Smaller
<1>2. PICK out : out = Release(strategy, s, amount)
  OBVIOUS
<1>3. /\ out.released \in Nat /\ out.released <= s.cost /\ out.lots \in Seq(Lot)
      /\ ByLots(strategy) =>
           /\ Laid(out.lots) = Staying(strategy, Laid(s.lots), amount)
           /\ Len(Laid(out.lots)) = s.quantity - amount
           /\ out.released + Total(Laid(out.lots)) = Total(Laid(s.lots))
      /\ ~ByLots(strategy) => out.lots = <<>>
  BY <1>1, <1>2, ReleaseIs
<1>4. PICK proceeds \in Nat : proceeds = amount * tx.price * Unit
  <2>1. amount * tx.price \in Nat
    BY <1>0, <1>1
  <2>2. (amount * tx.price) * Unit \in Nat
    BY <2>1, UnitAssumption
  <2>. QED BY <2>2
<1>5. PICK event \in Event : event = [amount |-> amount, proceeds |-> proceeds, basis |-> out.released]
  BY <1>1, <1>3 DEF Event
<1>6. PICK events \in Seq(Event) : events = IF tx.kind = "SELL" THEN Append(s.events, event) ELSE s.events
  BY <1>0, AppendProperties
<1>7. next = [quantity |-> s.quantity - amount, cost |-> s.cost - out.released,
              lots |-> out.lots, events |-> events]
  <2>1. ~(ByLots(strategy) /\ tx.amount > s.quantity)
    BY <1>0
  <2>. QED BY <1>2, <1>4, <1>5, <1>6, <2>1 DEF Dispose
<1>8. s.quantity - amount \in Nat /\ s.cost - out.released \in Nat
  BY <1>0, <1>1, <1>3
<1>9. next \in Position
  BY <1>3, <1>7, <1>8 DEF Position
<1>10. next \in Whole(strategy)
  <2>1. CASE ByLots(strategy)
    <3>1. Total(Laid(s.lots)) <= s.cost
      BY <2>1 DEF Whole, InLots
    <3>2. Total(Laid(out.lots)) \in Nat /\ Total(Laid(s.lots)) \in Nat
      BY <1>0, <1>3, LaidSteps, TotalSteps
    <3>3. Total(Laid(out.lots)) <= s.cost - out.released
      BY <1>0, <1>3, <2>1, <3>1, <3>2
    <3>4. InLots(next)
      BY <1>3, <1>7, <2>1, <3>3 DEF InLots
    <3>. QED BY <1>9, <2>1, <3>4 DEF Whole
  <2>2. CASE ~ByLots(strategy)
    BY <1>3, <1>7, <1>9, <2>2 DEF Whole
  <2>. QED BY <2>1, <2>2
<1>11. /\ next.cost = s.cost - out.released
       /\ next.events = IF tx.kind = "SELL"
            THEN Append(s.events, [amount |-> amount, proceeds |-> amount * tx.price * Unit,
                                   basis |-> out.released])
            ELSE s.events
       /\ amount * tx.price * Unit \in Nat
       /\ ByLots(strategy) =>
            /\ Laid(next.lots) = Staying(strategy, Laid(s.lots), amount)
            /\ out.released + Total(Laid(next.lots)) = Total(Laid(s.lots))
  BY <1>3, <1>4, <1>5, <1>6, <1>7
<1>. QED BY <1>1, <1>3, <1>7, <1>10, <1>11

States(strategy) == Whole(strategy) \cup {Failed}

\* What one transaction does, by its kind.
LEMMA AppliedIs ==
  ASSUME NEW strategy, NEW s \in Whole(strategy), NEW tx \in Entry
  PROVE  /\ Applied(strategy, Failed, tx) = Failed
         /\ tx.kind \in Priced /\ tx.price = NoPrice => Applied(strategy, s, tx) = Failed
         /\ tx.kind = "BUY" /\ tx.price # NoPrice =>
              Applied(strategy, s, tx) = Acquire(strategy, s, tx.amount, tx.price * Unit)
         /\ tx.kind = "TRANSFER_IN" => Applied(strategy, s, tx) = Acquire(strategy, s, tx.amount, 0)
         /\ tx.kind = "TRANSFER_OUT" \/ (tx.kind = "SELL" /\ tx.price # NoPrice) =>
              Applied(strategy, s, tx) = Dispose(strategy, s, tx)
<1>1. s # Failed
  BY PositionIs DEF Whole
<1>2. CASE tx.kind = "BUY"
  BY <1>1, <1>2 DEF Applied, Priced, Disposing
<1>3. CASE tx.kind = "TRANSFER_IN"
  BY <1>1, <1>3 DEF Applied, Priced, Disposing
<1>4. CASE tx.kind = "SELL"
  BY <1>1, <1>4 DEF Applied, Priced, Disposing
<1>5. CASE tx.kind = "TRANSFER_OUT"
  BY <1>1, <1>5 DEF Applied, Priced, Disposing
<1>6. tx.kind \in {"BUY", "TRANSFER_IN", "SELL", "TRANSFER_OUT"}
  BY DEF Entry, Kind, Acquiring, Disposing
<1>. QED BY <1>2, <1>3, <1>4, <1>5, <1>6

\* A transaction leads from a whole position to a whole one, or fails.
LEMMA AppliedStays ==
  ASSUME NEW strategy \in Strategies, NEW s \in States(strategy), NEW tx \in Entry
  PROVE  Applied(strategy, s, tx) \in States(strategy)
<1>1. CASE s = Failed
  BY <1>1 DEF Applied, States
<1>2. CASE s \in Whole(strategy)
  <2>1. /\ tx.kind \in {"BUY", "TRANSFER_IN", "SELL", "TRANSFER_OUT"}
        /\ tx.amount \in Nat /\ tx.price \in Nat /\ tx.price * Unit \in Nat
    BY UnitAssumption DEF Entry, Kind, Acquiring, Disposing
  <2>2. CASE tx.kind \in Priced /\ tx.price = NoPrice
    BY <1>2, <2>2, AppliedIs DEF States
  <2>3. CASE tx.kind = "BUY" /\ tx.price # NoPrice
    <3>1. Applied(strategy, s, tx) = Acquire(strategy, s, tx.amount, tx.price * Unit)
      BY <1>2, <2>3, AppliedIs
    <3>. QED BY <1>2, <2>1, <3>1, AcquireIs DEF States
  <2>4. CASE tx.kind = "TRANSFER_IN"
    <3>1. Applied(strategy, s, tx) = Acquire(strategy, s, tx.amount, 0)
      BY <1>2, <2>4, AppliedIs
    <3>. QED BY <1>2, <2>1, <3>1, AcquireIs DEF States
  <2>5. CASE tx.kind = "TRANSFER_OUT" \/ (tx.kind = "SELL" /\ tx.price # NoPrice)
    <3>1. Applied(strategy, s, tx) = Dispose(strategy, s, tx)
      BY <1>2, <2>5, AppliedIs
    <3>2. CASE ~ByLots(strategy) \/ tx.amount <= s.quantity
      BY <1>2, <3>1, <3>2, DisposeIs DEF States
    <3>3. CASE ByLots(strategy) /\ ~(tx.amount <= s.quantity)
      <4>1. tx.amount > s.quantity
        BY <1>2, <2>1, <3>3, PositionIs DEF Whole
      <4>2. Dispose(strategy, s, tx) = Failed
        BY <3>3, <4>1 DEF Dispose
      <4>. QED BY <3>1, <4>2 DEF States
    <3>. QED BY <3>2, <3>3
  <2>. QED BY <2>1, <2>2, <2>3, <2>4, <2>5 DEF Priced
<1>. QED BY <1>1, <1>2 DEF States

\* What a calculation starts from.
Start(strategy, s) == [s EXCEPT !.lots = OpeningLots(strategy, s)]

\* A state that was reached is taken up as it is.
LEMMA TakenUp ==
  ASSUME NEW strategy, NEW s \in States(strategy)
  PROVE  Start(strategy, s) = s
<1>1. CASE s = Failed
  <2>1. OpeningLots(strategy, s) = s.lots
    BY <1>1 DEF OpeningLots, Failed
  <2>. QED BY <1>1, <2>1 DEF Start, Failed
<1>2. CASE s \in Whole(strategy)
  <2>1. /\ s.quantity \in Nat /\ s.lots \in Seq(Lot)
        /\ s = [quantity |-> s.quantity, cost |-> s.cost, lots |-> s.lots, events |-> s.events]
    BY <1>2, PositionIs DEF Whole
  <2>2. ByLots(strategy) /\ s.lots = <<>> => s.quantity = 0
    <3>1. Laid(<<>>) = <<>> /\ Len(<<>>) = 0
      BY LaidSteps
    <3>. QED BY <1>2, <3>1 DEF Whole, InLots
  <2>3. OpeningLots(strategy, s) = s.lots
    BY <2>1, <2>2 DEF OpeningLots
  <2>. QED BY <2>1, <2>3 DEF Start
<1>. QED BY <1>1, <1>2 DEF States

\* The opening balance is a position, of one lot at its average cost.
LEMMA OpenedIs ==
  ASSUME NEW strategy \in Strategies, NEW balance \in Balance,
         NEW s, s = Start(strategy, Opened(balance))
  PROVE  /\ s \in Whole(strategy)
         /\ s.quantity = balance.quantity /\ s.cost = balance.cost * Unit /\ s.events = <<>>
         /\ ByLots(strategy) => Laid(s.lots) = UnitsAtFirst(balance)
<1>1. PICK q \in Nat, cost \in Nat : q = balance.quantity /\ cost = balance.cost * Unit
  BY UnitAssumption DEF Balance
<1>2. Opened(balance) = [quantity |-> q, cost |-> cost, lots |-> <<>>, events |-> <<>>]
  BY <1>1 DEF Opened
<1>3. CASE ~ByLots(strategy) \/ q = 0
  <2>1. OpeningLots(strategy, Opened(balance)) = <<>>
    BY <1>2, <1>3 DEF OpeningLots
  <2>2. s = [quantity |-> q, cost |-> cost, lots |-> <<>>, events |-> <<>>]
    BY <1>2, <2>1 DEF Start
  <2>3. s \in Position
    BY <2>2, EmptySeq DEF Position
  <2>4. Laid(s.lots) = <<>> /\ Len(<<>>) = 0 /\ Total(<<>>) = 0
    BY <2>2, LaidSteps, TotalSteps
  <2>5. ByLots(strategy) => InLots(s) /\ UnitsAtFirst(balance) = <<>>
    BY <1>1, <1>3, <2>2, <2>4 DEF InLots, UnitsAtFirst
  <2>6. s \in Whole(strategy)
    BY <2>2, <2>3, <2>5 DEF Whole
  <2>. QED BY <1>1, <2>2, <2>4, <2>5, <2>6
<1>4. CASE ByLots(strategy) /\ q # 0
  <2>1. PICK e \in Nat : e = Quotient(cost, q) /\ q * e <= cost
    BY <1>4, QuotientIs
  <2>2. PICK lot \in Lot : lot = [quantity |-> q, unitCost |-> e]
    BY DEF Lot
  <2>3. OpeningLots(strategy, Opened(balance)) = <<lot>>
    BY <1>2, <1>4, <2>1, <2>2 DEF OpeningLots
  <2>4. s = [quantity |-> q, cost |-> cost, lots |-> <<lot>>, events |-> <<>>]
    BY <1>2, <2>3 DEF Start
  <2>5. s \in Position
    BY <2>4, EmptySeq DEF Position
  <2>6. Laid(<<lot>>) = UnitsOf(q, e) /\ Len(UnitsOf(q, e)) = q /\ Total(UnitsOf(q, e)) = q * e
    BY <2>2, LaidOfOne, UnitsOfAre, TotalOfUnits DEF Unpacked
  <2>7. UnitsAtFirst(balance) = UnitsOf(q, e)
    BY <1>1, <1>4, <2>1 DEF UnitsAtFirst
  <2>8. InLots(s)
    BY <2>1, <2>4, <2>6 DEF InLots
  <2>9. s \in Whole(strategy)
    BY <1>4, <2>5, <2>8 DEF Whole
  <2>. QED BY <1>1, <2>4, <2>6, <2>7, <2>9
<1>. QED BY <1>3, <1>4

\* A calculation goes transaction by transaction.
LEMMA CalculatedSteps ==
  ASSUME NEW strategy \in Strategies, NEW s, Start(strategy, s) \in States(strategy)
  PROVE  /\ Calculated(strategy, s, <<>>) = Start(strategy, s)
         /\ \A txs \in Seq(Entry) : Calculated(strategy, s, txs) \in States(strategy)
         /\ \A txs \in Seq(Entry), tx \in Entry :
              Calculated(strategy, s, Append(txs, tx))
                = Applied(strategy, Calculated(strategy, s, txs), tx)
<1>1. PICK base \in States(strategy) : base = Start(strategy, s)
  OBVIOUS
<1>2. Closed("apply", strategy, States(strategy), Entry)
  BY AppliedStays DEF Closed, Does
<1>3. Unfolds("apply", strategy, States(strategy), Entry, base)
  BY <1>2, FoldUnfolds
<1>4. \A txs : Calculated(strategy, s, txs) = Fold("apply", strategy, base, txs)
  BY <1>1, CalculatedIsFold DEF Start
<1>. QED BY <1>1, <1>3, <1>4 DEF Unfolds, Does


\* A position with any cost.
Rounded == [quantity : Nat, cost : Int, lots : Seq(Lot), events : Seq(Event)]

\* One whose cost was rounded: the lots still hold the quantity, but may be worth
\* more than the cost.
Loose(strategy) ==
  {s \in Rounded :
     IF ByLots(strategy) THEN s.quantity = Len(Laid(s.lots)) ELSE s.lots = <<>> /\ s.cost >= 0}

LooseStates(strategy) == Loose(strategy) \cup {Failed}

\* What is whole is loose, and without lots the other way round.
LEMMA WholeIsLoose ==
  ASSUME NEW strategy
  PROVE  /\ Whole(strategy) \subseteq Loose(strategy)
         /\ States(strategy) \subseteq LooseStates(strategy)
         /\ ~ByLots(strategy) => Loose(strategy) = Whole(strategy)
<1>1. ASSUME NEW s \in Whole(strategy) PROVE s \in Loose(strategy)
  BY PositionIs DEF Whole, Loose, Rounded, InLots, Position
<1>2. ASSUME NEW s \in Loose(strategy), ~ByLots(strategy) PROVE s \in Whole(strategy)
  BY <1>2 DEF Whole, Loose, Rounded, Position
<1>. QED BY <1>1, <1>2 DEF States, LooseStates

\* What a purchase does to each part of a position.
LEMMA AcquireParts ==
  ASSUME NEW strategy, NEW s \in Rounded,
         NEW amount \in Nat, NEW unitCost \in Nat,
         NEW one \in Lot, one = [quantity |-> amount, unitCost |-> unitCost]
  PROVE  LET next == Acquire(strategy, s, amount, unitCost) IN
         /\ next.quantity = s.quantity + amount /\ next.cost \in Int /\ next.events = s.events
         /\ next.lots = IF ByLots(strategy)
                          THEN Append(s.lots, one) ELSE s.lots
         /\ next = [quantity |-> next.quantity, cost |-> next.cost, lots |-> next.lots,
                    events |-> next.events]
<1> DEFINE next == Acquire(strategy, s, amount, unitCost)
<1>1. PICK lots : lots = IF ByLots(strategy)
                           THEN Append(s.lots, one) ELSE s.lots
  OBVIOUS
<1>2. PICK worth \in Nat : worth = amount * unitCost
  OBVIOUS
<1>3. PICK quantity, cost \in Int : quantity = s.quantity + amount /\ cost = s.cost + worth
  <2>1. s.cost + worth \in Int /\ s.quantity + amount \in Int
    BY <1>2 DEF Rounded
  <2>. QED BY <2>1
<1>4. next = [s EXCEPT !.quantity = quantity, !.cost = cost, !.lots = lots]
  BY <1>1, <1>2, <1>3 DEF Acquire, Rounded
<1>5. next = [quantity |-> quantity, cost |-> cost, lots |-> lots, events |-> s.events]
  BY <1>4 DEF Rounded
<1>. QED BY <1>1, <1>3, <1>5

\* It does the same at another cost.
LEMMA SameParts ==
  ASSUME NEW strategy, NEW s \in Rounded, NEW b \in Rounded,
         s.quantity = b.quantity, s.lots = b.lots, s.events = b.events,
         NEW amount \in Nat, NEW unitCost \in Nat,
         NEW last, last = Acquire(strategy, s, amount, unitCost),
         NEW next, next = Acquire(strategy, b, amount, unitCost)
  PROVE  /\ last.quantity = next.quantity /\ last.lots = next.lots /\ last.events = next.events
         /\ last.cost \in Int
         /\ last = [quantity |-> last.quantity, cost |-> last.cost, lots |-> last.lots,
                    events |-> last.events]
<1>1. PICK one \in Lot : one = [quantity |-> amount, unitCost |-> unitCost]
  BY DEF Lot
<1>2. PICK lots : lots = IF ByLots(strategy) THEN Append(s.lots, one) ELSE s.lots
  OBVIOUS
<1>3. last.quantity = s.quantity + amount /\ last.lots = lots /\ last.events = s.events
      /\ last.cost \in Int
      /\ last = [quantity |-> last.quantity, cost |-> last.cost, lots |-> last.lots,
                 events |-> last.events]
  BY <1>1, <1>2, AcquireParts
<1>4. next.quantity = b.quantity + amount /\ next.lots = lots /\ next.events = b.events
  BY <1>1, <1>2, AcquireParts
<1>. QED BY <1>3, <1>4

\* By lots, one transaction does to quantity, lots and sales the same at any cost.
LEMMA CostIsApart ==
  ASSUME NEW strategy \in Strategies, ByLots(strategy), NEW s \in Loose(strategy),
         NEW tx \in Entry
  PROVE  Applied(strategy, s, tx) \in LooseStates(strategy)
<1>0. /\ s.quantity \in Nat /\ s.cost \in Int /\ s.lots \in Seq(Lot) /\ s.events \in Seq(Event)
      /\ s = [quantity |-> s.quantity, cost |-> s.cost, lots |-> s.lots, events |-> s.events]
      /\ s # Failed /\ s.quantity = Len(Laid(s.lots))
  BY DEF Loose, Rounded, Failed
<1>1. PICK worth \in Nat : worth = Total(Laid(s.lots))
  BY <1>0, LaidSteps, TotalSteps
<1>2. PICK b : b = [quantity |-> s.quantity, cost |-> worth, lots |-> s.lots, events |-> s.events]
  OBVIOUS
<1>3. b \in Whole(strategy)
  <2>1. b \in Position
    BY <1>0, <1>2 DEF Position
  <2>2. InLots(b)
    BY <1>0, <1>1, <1>2 DEF InLots
  <2>. QED BY <2>1, <2>2 DEF Whole
<1>4. /\ tx.kind \in {"BUY", "TRANSFER_IN", "SELL", "TRANSFER_OUT"}
      /\ tx.amount \in Nat /\ tx.price \in Nat /\ tx.price * Unit \in Nat
  BY UnitAssumption DEF Entry, Kind, Acquiring, Disposing
<1>5. ASSUME NEW unitCost \in Nat
      PROVE  Acquire(strategy, s, tx.amount, unitCost) \in Loose(strategy)
  <2>1. PICK next : next = Acquire(strategy, b, tx.amount, unitCost)
    OBVIOUS
  <2>2. next \in Whole(strategy)
    BY <1>3, <1>4, <1>5, <2>1, AcquireIs
  <2>3. next \in Loose(strategy)
    BY <2>2, WholeIsLoose
  <2>4. next.quantity \in Nat /\ next.lots \in Seq(Lot) /\ next.events \in Seq(Event)
        /\ next.quantity = Len(Laid(next.lots))
    BY <2>3 DEF Loose, Rounded
  <2>5. PICK last : last = Acquire(strategy, s, tx.amount, unitCost)
    OBVIOUS
  <2>6. s \in Rounded /\ b \in Rounded /\ tx.amount \in Nat /\ unitCost \in Nat
    BY <1>0, <1>1, <1>2, <1>4, <1>5 DEF Rounded
  <2>7. /\ last.quantity = next.quantity /\ last.lots = next.lots /\ last.events = next.events
        /\ last.cost \in Int
        /\ last = [quantity |-> last.quantity, cost |-> last.cost, lots |-> last.lots,
                   events |-> last.events]
    BY <1>2, <2>1, <2>5, <2>6, SameParts
  <2>8. last \in Rounded
    BY <2>4, <2>7 DEF Rounded
  <2>. QED BY <2>4, <2>5, <2>7, <2>8 DEF Loose, Rounded
<1>6. ASSUME ~(tx.amount > s.quantity) PROVE Dispose(strategy, s, tx) \in Loose(strategy)
  <2>1. PICK next : next = Dispose(strategy, b, tx)
    OBVIOUS
  <2>2. tx.amount <= b.quantity
    BY <1>0, <1>2, <1>4, <1>6
  <2>3. next \in Whole(strategy)
    BY <1>3, <2>1, <2>2, DisposeIs
  <2>4. next \in Loose(strategy)
    BY <2>3, WholeIsLoose
  <2>5. next.quantity \in Nat /\ next.lots \in Seq(Lot) /\ next.events \in Seq(Event)
        /\ next.quantity = Len(Laid(next.lots))
    BY <2>4 DEF Loose, Rounded
  <2>6. PICK amount : amount = Clamped(s.quantity, tx.amount) /\ amount = Clamped(b.quantity, tx.amount)
    BY <1>2
  <2>7. PICK out : out = Release(strategy, s, amount) /\ out = Release(strategy, b, amount)
    BY <1>2 DEF Release
  <2>8. out.released \in Nat
    <3>1. amount \in 0..b.quantity
      BY <1>0, <1>2, <1>4, <2>6 DEF Clamped, Smaller
    <3>. QED BY <1>3, <2>7, <3>1, ReleaseIs
  <2>9. s.cost - out.released \in Int
    BY <1>0, <2>8
  <2>10. Dispose(strategy, s, tx)
          = [quantity |-> next.quantity, cost |-> s.cost - out.released,
             lots |-> next.lots, events |-> next.events]
    BY <1>2, <1>6, <2>1, <2>6, <2>7 DEF Dispose
  <2>. QED BY <2>5, <2>9, <2>10 DEF Loose, Rounded
<1>7. tx.amount > s.quantity => Dispose(strategy, s, tx) = Failed
  BY DEF Dispose
<1>8. Failed \in LooseStates(strategy) /\ Loose(strategy) \subseteq LooseStates(strategy)
  BY DEF LooseStates
<1>9. CASE tx.kind \in Priced /\ tx.price = NoPrice
  BY <1>8, <1>9 DEF Applied
<1>10. CASE tx.kind = "BUY" /\ tx.price # NoPrice
  <2>1. Applied(strategy, s, tx) = Acquire(strategy, s, tx.amount, tx.price * Unit)
    BY <1>0, <1>10 DEF Applied, Priced, Disposing
  <2>. QED BY <1>4, <1>5, <1>8, <2>1
<1>11. CASE tx.kind = "TRANSFER_IN"
  <2>1. Applied(strategy, s, tx) = Acquire(strategy, s, tx.amount, 0)
    BY <1>0, <1>11 DEF Applied, Priced, Disposing
  <2>. QED BY <1>5, <1>8, <2>1
<1>12. CASE tx.kind = "TRANSFER_OUT" \/ (tx.kind = "SELL" /\ tx.price # NoPrice)
  <2>1. Applied(strategy, s, tx) = Dispose(strategy, s, tx)
    BY <1>0, <1>12 DEF Applied, Priced, Disposing
  <2>. QED BY <1>6, <1>7, <1>8, <2>1
<1>. QED BY <1>4, <1>9, <1>10, <1>11, <1>12 DEF Priced

\* A transaction leads from a loose position to a loose one, or fails.
LEMMA AppliedStaysLoose ==
  ASSUME NEW strategy \in Strategies, NEW s \in LooseStates(strategy), NEW tx \in Entry
  PROVE  Applied(strategy, s, tx) \in LooseStates(strategy)
<1>1. CASE s = Failed
  BY <1>1 DEF Applied, LooseStates
<1>2. CASE s \in Loose(strategy) /\ ByLots(strategy)
  BY <1>2, CostIsApart
<1>3. CASE s \in Loose(strategy) /\ ~ByLots(strategy)
  <2>1. s \in States(strategy)
    BY <1>3, WholeIsLoose DEF States
  <2>. QED BY <2>1, AppliedStays, WholeIsLoose
<1>. QED BY <1>1, <1>2, <1>3 DEF LooseStates

\* A loose position is taken up as it is, and continued to a loose one.
LEMMA TakenUpLoosely ==
  ASSUME NEW strategy \in Strategies, NEW s \in Loose(strategy), NEW txs \in Seq(Entry)
  PROVE  Calculated(strategy, s, txs) \in LooseStates(strategy)
<1>0. /\ s.quantity \in Nat /\ s.lots \in Seq(Lot)
      /\ s = [quantity |-> s.quantity, cost |-> s.cost, lots |-> s.lots, events |-> s.events]
  BY DEF Loose, Rounded
<1>1. ByLots(strategy) /\ s.lots = <<>> => s.quantity = 0
  <2>1. Laid(<<>>) = <<>> /\ Len(<<>>) = 0
    BY LaidSteps
  <2>. QED BY <2>1 DEF Loose, Rounded
<1>2. OpeningLots(strategy, s) = s.lots
  BY <1>0, <1>1 DEF OpeningLots
<1>3. Start(strategy, s) = s
  BY <1>0, <1>2 DEF Start
<1>4. PICK base \in LooseStates(strategy) : base = s
  BY DEF LooseStates
<1>5. Closed("apply", strategy, LooseStates(strategy), Entry)
  BY AppliedStaysLoose DEF Closed, Does
<1>6. Unfolds("apply", strategy, LooseStates(strategy), Entry, base)
  BY <1>4, <1>5, FoldUnfolds
<1>7. Calculated(strategy, s, txs) = Fold("apply", strategy, base, txs)
  BY <1>3, <1>4, CalculatedIsFold DEF Start
<1>. QED BY <1>6, <1>7 DEF Unfolds

\* A calculation can be cut in two.
LEMMA Continued ==
  ASSUME NEW strategy \in Strategies, NEW s, Start(strategy, s) \in States(strategy),
         NEW a \in Seq(Entry), NEW b \in Seq(Entry)
  PROVE  Calculated(strategy, Calculated(strategy, s, a), b) = Calculated(strategy, s, a \o b)
<1>1. PICK r \in States(strategy) : r = Calculated(strategy, s, a)
  BY CalculatedSteps
<1>2. Start(strategy, r) = r
  BY TakenUp
<1> DEFINE T == {t \in Seq(Entry) : Calculated(strategy, r, t) = Calculated(strategy, s, a \o t)}
<1>3. T \subseteq Seq(Entry)
  OBVIOUS
<1>4. <<>> \in T
  <2>1. Calculated(strategy, r, <<>>) = r
    BY <1>2, CalculatedSteps
  <2>2. a \o <<>> = a
    BY ConcatEmptySeq
  <2>. QED BY <1>1, <2>1, <2>2, EmptySeq
<1>5. ASSUME NEW t \in T, NEW tx \in Entry PROVE Append(t, tx) \in T
  <2>1. t \in Seq(Entry) /\ Calculated(strategy, r, t) = Calculated(strategy, s, a \o t)
    OBVIOUS
  <2>2. a \o Append(t, tx) = Append(a \o t, tx) /\ a \o t \in Seq(Entry)
    BY <2>1
  <2>3. Calculated(strategy, r, Append(t, tx)) = Applied(strategy, Calculated(strategy, r, t), tx)
    BY <1>2, <2>1, CalculatedSteps
  <2>4. Calculated(strategy, s, Append(a \o t, tx)) = Applied(strategy, Calculated(strategy, s, a \o t), tx)
    BY <2>2, CalculatedSteps
  <2>5. Append(t, tx) \in Seq(Entry)
    BY <2>1, AppendProperties
  <2>. QED BY <2>1, <2>2, <2>3, <2>4, <2>5
<1> HIDE DEF T
<1>6. T = Seq(Entry)
  BY <1>3, <1>4, <1>5, AppendInduction
<1>7. b \in T
  BY <1>6
<1>. QED BY <1>1, <1>7 DEF T

\* A calculation can be taken up again from the state at any transaction.
LEMMA ResumesExactly ==
  ASSUME NEW strategy \in Strategies, NEW balance \in Balance, NEW txs \in Seq(Entry)
  PROVE  Resumable(strategy, balance, txs)
<1>1. Start(strategy, Opened(balance)) \in States(strategy)
  BY OpenedIs DEF States
<1>2. ASSUME NEW n \in 0..Len(txs)
      PROVE  Calculated(strategy, Calculated(strategy, Opened(balance), SubSeq(txs, 1, n)),
                        SubSeq(txs, n + 1, Len(txs)))
               = Calculated(strategy, Opened(balance), txs)
  <2>1. n \in Nat /\ Len(txs) \in Nat /\ n <= Len(txs)
    BY LenProperties
  <2>2. SubSeq(txs, 1, n) \in Seq(Entry) /\ SubSeq(txs, n + 1, Len(txs)) \in Seq(Entry)
    BY <2>1
  <2>3. SubSeq(txs, 1, n) \o SubSeq(txs, n + 1, Len(txs)) = SubSeq(txs, 1, Len(txs))
    <3>1. 1 \in 1..(Len(txs) + 1) /\ n \in (1 - 1)..Len(txs) /\ Len(txs) \in n..Len(txs)
      BY <2>1
    <3>. QED BY <3>1, ConcatAdjacentSubSeq
  <2>4. SubSeq(txs, 1, Len(txs)) = txs
    BY SubSeqFull
  <2>5. PICK a \in Seq(Entry), b \in Seq(Entry) :
          a = SubSeq(txs, 1, n) /\ b = SubSeq(txs, n + 1, Len(txs))
    BY <2>2
  <2>6. a \o b = txs
    BY <2>3, <2>4, <2>5
  <2>7. Calculated(strategy, Calculated(strategy, Opened(balance), a), b)
          = Calculated(strategy, Opened(balance), a \o b)
    BY <1>1, Continued
  <2>. QED BY <2>5, <2>6, <2>7
<1>. QED BY <1>2 DEF Resumable

-----------------------------------------------------------------------------
(* What is held, and what an acceptable transaction does *)

\* The parts of a transaction.
LEMMA EntryIs ==
  ASSUME NEW tx \in Entry
  PROVE  /\ tx.kind \in {"BUY", "TRANSFER_IN", "SELL", "TRANSFER_OUT"}
         /\ tx.amount \in Nat /\ tx.price \in Nat /\ tx.price * Unit \in Nat
  BY UnitAssumption DEF Entry, Kind, Acquiring, Disposing

\* The quantity held, transaction by transaction.
LEMMA HeldSteps ==
  ASSUME NEW q \in Nat
  PROVE  /\ HeldAfter(q, <<>>) = q
         /\ \A txs \in Seq(Entry) : HeldAfter(q, txs) \in Nat
         /\ \A txs \in Seq(Entry), tx \in Entry :
              HeldAfter(q, Append(txs, tx)) = Moved(HeldAfter(q, txs), tx)
<1>1. Closed("move", "", Nat, Entry)
  <2>1. ASSUME NEW a \in Nat, NEW x \in Entry PROVE Moved(a, x) \in Nat
    BY EntryIs DEF Moved, Clamped, Smaller
  <2>. QED BY <2>1 DEF Closed, Does
<1>2. Unfolds("move", "", Nat, Entry, q)
  BY <1>1, FoldUnfolds
<1>3. \A s : HeldAfter(q, s) = Fold("move", "", q, s)
  BY HeldIsFold
<1>. QED BY <1>2, <1>3 DEF Unfolds, Does

\* What is asked of a transaction when the quantity is held.
Fits(held, tx) ==
  /\ tx.kind \in Priced => tx.price # NoPrice
  /\ tx.kind \in Disposing => tx.amount <= held

\* What is acceptable up to its last transaction is acceptable before it.
LEMMA AcceptableStep ==
  ASSUME NEW balance \in Balance, NEW txs \in Seq(Entry), NEW tx \in Entry,
         Acceptable(balance, Append(txs, tx))
  PROVE  Acceptable(balance, txs) /\ Fits(HeldAfter(balance.quantity, txs), tx)
<1>1. PICK n \in Nat : n = Len(txs) /\ DOMAIN txs = 1..n
  BY LenProperties
<1>2. PICK more \in Seq(Entry) : more = Append(txs, tx)
  BY AppendProperties
<1>3. Len(more) = n + 1 /\ more[n + 1] = tx /\ \A k \in 1..n : more[k] = txs[k]
  BY <1>1, <1>2, AppendProperties
<1>4. DOMAIN more = 1..(n + 1)
  BY <1>3, LenProperties
<1>5. \A i \in 1..(n + 1) :
        /\ more[i].kind \in Priced => more[i].price # NoPrice
        /\ more[i].kind \in Disposing =>
             CanSell(HeldAfter(balance.quantity, SubSeq(more, 1, i - 1)), more[i].amount)
  BY <1>2, <1>4 DEF Acceptable
<1>6. \A i \in 1..(n + 1) : SubSeq(more, 1, i - 1) = SubSeq(txs, 1, i - 1)
  <2>1. ASSUME NEW i \in 1..(n + 1) PROVE SubSeq(more, 1, i - 1) = SubSeq(txs, 1, i - 1)
    <3>1. \A k \in 1..(i - 1) : k \in 1..n
      OBVIOUS
    <3>2. [k \in 1..(i - 1) |-> more[k]] = [k \in 1..(i - 1) |-> txs[k]]
      BY <1>3, <3>1
    <3>. QED BY <1>3, <3>1, SMT
  <2>. QED BY <2>1
<1>7. SubSeq(txs, 1, n) = txs
  BY <1>1, SubSeqFull
<1>8. Acceptable(balance, txs)
  <2>1. \A i \in 1..n : i \in 1..(n + 1)
    OBVIOUS
  <2>. QED BY <1>1, <1>3, <1>5, <1>6, <2>1 DEF Acceptable
<1>9. Fits(HeldAfter(balance.quantity, txs), tx)
  <2>1. n + 1 \in 1..(n + 1) /\ (n + 1) - 1 = n
    OBVIOUS
  <2>2. tx.kind \in Disposing => CanSell(HeldAfter(balance.quantity, txs), tx.amount)
    BY <1>3, <1>5, <1>6, <1>7, <2>1
  <2>3. tx.kind \in Priced => tx.price # NoPrice
    BY <1>3, <1>5, <2>1
  <2>4. HeldAfter(balance.quantity, txs) \in Nat /\ tx.amount \in Nat
    BY HeldSteps, EntryIs DEF Balance
  <2>. QED BY <2>2, <2>3, <2>4 DEF Fits, CanSell
<1>. QED BY <1>8, <1>9

-----------------------------------------------------------------------------
(* The profit realised *)

Gain(events) == Fold("realize", "", 0, events)

\* The realised profit, sale by sale.
LEMMA GainSteps ==
  /\ \A s : Realized(s) = Gain(s.events)
  /\ Gain(<<>>) = 0
  /\ \A events \in Seq(Event) : Gain(events) \in Int
  /\ \A events \in Seq(Event), e \in Event :
       Gain(Append(events, e)) = Gain(events) + e.proceeds - e.basis
<1>1. Closed("realize", "", Int, Event)
  BY DEF Closed, Does, Event
<1>2. Unfolds("realize", "", Int, Event, 0)
  <2>1. PICK base \in Int : base = 0
    OBVIOUS
  <2>2. Unfolds("realize", "", Int, Event, base)
    BY <1>1, FoldUnfolds
  <2>. QED BY <2>1, <2>2
<1>3. \A s : Realized(s) = Gain(s.events)
  BY RealizedIsFold DEF Gain
<1>. QED BY <1>2, <1>3 DEF Unfolds, Does, Gain

\* What a transaction pays for, or is paid for.
Paid(tx) ==
  IF tx.kind = "BUY" THEN -(tx.amount * (tx.price * Unit))
  ELSE IF tx.kind = "SELL" THEN tx.amount * tx.price * Unit ELSE 0

\* What an acceptable transaction makes of a position: the quantity moves, the lots hold
\* the units of the reference, and cost turns into profit only by what is paid.
Follows(strategy, s, tx, next) ==
  /\ next \in Whole(strategy)
  /\ next.quantity = Moved(s.quantity, tx)
  /\ ByLots(strategy) =>
       /\ Laid(next.lots) = UnitsAfter(strategy, Laid(s.lots), tx)
       /\ next.cost - Total(Laid(next.lots)) = s.cost - Total(Laid(s.lots))
  /\ tx.kind # "TRANSFER_OUT" =>
       Realized(next) - next.cost = (Realized(s) - s.cost) + Paid(tx)

\* Purchases and incoming transfers follow the reference.
LEMMA AcquisitionFollows ==
  ASSUME NEW strategy \in Strategies, NEW s \in Whole(strategy), NEW tx \in Entry,
         tx.kind \in Acquiring, NEW unitCost \in Nat,
         unitCost = IF tx.kind = "BUY" THEN tx.price * Unit ELSE 0,
         NEW next, next = Acquire(strategy, s, tx.amount, unitCost)
  PROVE  Follows(strategy, s, tx, next)
<1>0. tx.amount \in Nat /\ tx.kind \in {"BUY", "TRANSFER_IN"}
  BY EntryIs DEF Acquiring
<1>1. PICK worth \in Nat : worth = tx.amount * unitCost
  BY <1>0
<1>2. /\ next \in Whole(strategy)
      /\ next.quantity = s.quantity + tx.amount
      /\ next.cost = s.cost + worth
      /\ next.events = s.events
      /\ ByLots(strategy) =>
           /\ Laid(next.lots) = Laid(s.lots) \o UnitsOf(tx.amount, unitCost)
           /\ Total(Laid(next.lots)) = Total(Laid(s.lots)) + worth
  <2>1. PICK amount \in Nat : amount = tx.amount
    BY <1>0
  <2>2. /\ next \in Whole(strategy)
        /\ next.quantity = s.quantity + amount
        /\ next.cost = s.cost + amount * unitCost
        /\ next.events = s.events
        /\ ByLots(strategy) =>
             /\ Laid(next.lots) = Laid(s.lots) \o UnitsOf(amount, unitCost)
             /\ Total(Laid(next.lots)) = Total(Laid(s.lots)) + amount * unitCost
    <3>1. next = Acquire(strategy, s, amount, unitCost)
      BY <2>1
    <3>. QED BY ONLY <3>1, AcquireIs
  <2>3. amount * unitCost = worth
    BY <1>1, <2>1
  <2>. QED BY <2>1, <2>2, <2>3
<1>3. next.quantity = Moved(s.quantity, tx)
  BY <1>2 DEF Moved
<1>4. Paid(tx) = -worth
  <2>1. tx.kind = "TRANSFER_IN" => worth = 0
    BY <1>0, <1>1
  <2>2. tx.kind = "BUY" => Paid(tx) = -worth
    BY <1>1 DEF Paid
  <2>3. tx.kind = "TRANSFER_IN" => Paid(tx) = 0
    BY DEF Paid
  <2>. QED BY <1>0, <2>1, <2>2, <2>3
<1>5. s.cost \in Nat /\ s.lots \in Seq(Lot) /\ s.events \in Seq(Event)
  BY PositionIs DEF Whole
<1>6. Total(Laid(s.lots)) \in Nat
  BY <1>5, LaidSteps, TotalSteps
<1>7. ASSUME ByLots(strategy)
      PROVE  /\ Laid(next.lots) = UnitsAfter(strategy, Laid(s.lots), tx)
             /\ next.cost - Total(Laid(next.lots)) = s.cost - Total(Laid(s.lots))
  <2>1. Laid(next.lots) = UnitsAfter(strategy, Laid(s.lots), tx)
    <3>1. CASE tx.kind = "BUY"
      BY <1>2, <1>7, <3>1 DEF UnitsAfter, Disposing
    <3>2. CASE tx.kind = "TRANSFER_IN"
      BY <1>2, <1>7, <3>2 DEF UnitsAfter, Disposing
    <3>. QED BY <1>0, <3>1, <3>2
  <2>2. next.cost - Total(Laid(next.lots)) = s.cost - Total(Laid(s.lots))
    BY <1>2, <1>5, <1>6, <1>7
  <2>. QED BY <2>1, <2>2
<1>8. Realized(next) - next.cost = (Realized(s) - s.cost) + Paid(tx)
  <2>1. Realized(next) = Realized(s) /\ Realized(s) \in Int
    BY <1>2, <1>5, GainSteps
  <2>. QED BY <1>2, <1>4, <1>5, <2>1
<1>. QED BY <1>2, <1>3, <1>7, <1>8 DEF Follows

\* Covered sales and outgoing transfers follow the reference.
LEMMA DisposalFollows ==
  ASSUME NEW strategy \in Strategies, NEW s \in Whole(strategy), NEW tx \in Entry,
         tx.kind \in Disposing, tx.amount <= s.quantity,
         NEW next, next = Dispose(strategy, s, tx)
  PROVE  Follows(strategy, s, tx, next)
<1>0. tx.amount \in Nat /\ tx.kind \in {"SELL", "TRANSFER_OUT"} /\ tx.price \in Nat
  BY EntryIs DEF Disposing
<1>1. s.quantity \in Nat /\ s.cost \in Nat /\ s.lots \in Seq(Lot) /\ s.events \in Seq(Event)
  BY PositionIs DEF Whole
<1>2. Clamped(s.quantity, tx.amount) = tx.amount
  BY <1>0, <1>1 DEF Clamped, Smaller
<1>3. /\ next \in Whole(strategy)
      /\ next.quantity = s.quantity - tx.amount
      /\ \E released \in Nat :
           /\ next.cost = s.cost - released
           /\ next.events = IF tx.kind = "SELL"
                THEN Append(s.events, [amount |-> tx.amount, proceeds |-> tx.amount * tx.price * Unit,
                                       basis |-> released])
                ELSE s.events
           /\ tx.amount * tx.price * Unit \in Nat
           /\ ByLots(strategy) =>
                /\ Laid(next.lots) = Staying(strategy, Laid(s.lots), tx.amount)
                /\ released + Total(Laid(next.lots)) = Total(Laid(s.lots))
  BY <1>2, DisposeIs
<1>4. PICK proceeds \in Nat : proceeds = tx.amount * tx.price * Unit
  BY <1>3
<1>5. PICK released \in Nat :
        /\ next.cost = s.cost - released
        /\ next.events = IF tx.kind = "SELL"
             THEN Append(s.events, [amount |-> tx.amount, proceeds |-> proceeds, basis |-> released])
             ELSE s.events
        /\ ByLots(strategy) =>
             /\ Laid(next.lots) = Staying(strategy, Laid(s.lots), tx.amount)
             /\ released + Total(Laid(next.lots)) = Total(Laid(s.lots))
  BY <1>3, <1>4
<1>6. next.quantity = Moved(s.quantity, tx)
  BY <1>0, <1>2, <1>3 DEF Moved, Acquiring
<1>7. ASSUME ByLots(strategy)
      PROVE  /\ Laid(next.lots) = UnitsAfter(strategy, Laid(s.lots), tx)
             /\ next.cost - Total(Laid(next.lots)) = s.cost - Total(Laid(s.lots))
  <2>1. Staying(strategy, Laid(s.lots), tx.amount) = UnitsAfter(strategy, Laid(s.lots), tx)
    <3>1. CASE tx.kind = "SELL"
      BY <3>1 DEF UnitsAfter, Disposing, Staying
    <3>2. CASE tx.kind = "TRANSFER_OUT"
      BY <3>2 DEF UnitsAfter, Disposing, Staying
    <3>. QED BY <1>0, <3>1, <3>2
  <2>2. next.lots \in Seq(Lot)
    BY <1>3, PositionIs DEF Whole
  <2>3. Total(Laid(s.lots)) \in Nat /\ Total(Laid(next.lots)) \in Nat
    BY <1>1, <2>2, LaidSteps, TotalSteps
  <2>4. next.cost - Total(Laid(next.lots)) = s.cost - Total(Laid(s.lots))
    BY <1>1, <1>5, <1>7, <2>3
  <2>. QED BY <1>5, <1>7, <2>1, <2>4
<1>8. ASSUME tx.kind # "TRANSFER_OUT"
      PROVE  Realized(next) - next.cost = (Realized(s) - s.cost) + Paid(tx)
  <2>1. tx.kind = "SELL"
    BY <1>0, <1>8
  <2>2. PICK e \in Event : e = [amount |-> tx.amount, proceeds |-> proceeds, basis |-> released]
    BY <1>0 DEF Event
  <2>3. next.events = Append(s.events, e)
    BY <1>5, <2>1, <2>2
  <2>4. Gain(next.events) = Gain(s.events) + e.proceeds - e.basis /\ Gain(s.events) \in Int
    BY <1>1, <2>3, GainSteps
  <2>5. Realized(next) = Realized(s) + proceeds - released /\ Realized(s) \in Int
    BY <2>2, <2>4, GainSteps
  <2>6. Paid(tx) = proceeds
    BY <1>4, <2>1 DEF Paid
  <2>. QED BY <1>1, <1>5, <2>5, <2>6
<1>. QED BY <1>3, <1>6, <1>7, <1>8 DEF Follows

\* So does every transaction that fits.
LEMMA FittingFollows ==
  ASSUME NEW strategy \in Strategies, NEW s \in Whole(strategy), NEW tx \in Entry,
         Fits(s.quantity, tx)
  PROVE  Follows(strategy, s, tx, Applied(strategy, s, tx))
<1>1. /\ tx.kind \in {"BUY", "TRANSFER_IN", "SELL", "TRANSFER_OUT"}
      /\ tx.amount \in Nat /\ tx.price \in Nat /\ tx.price * Unit \in Nat
  BY EntryIs
<1>2. CASE tx.kind = "BUY"
  <2>1. Applied(strategy, s, tx) = Acquire(strategy, s, tx.amount, tx.price * Unit)
    BY <1>2, AppliedIs DEF Fits, Priced
  <2>. QED BY <1>1, <1>2, <2>1, AcquisitionFollows DEF Acquiring
<1>3. CASE tx.kind = "TRANSFER_IN"
  <2>1. Applied(strategy, s, tx) = Acquire(strategy, s, tx.amount, 0)
    BY <1>3, AppliedIs
  <2>. QED BY <1>1, <1>3, <2>1, AcquisitionFollows DEF Acquiring
<1>4. CASE tx.kind \in Disposing
  <2>1. Applied(strategy, s, tx) = Dispose(strategy, s, tx)
    BY <1>1, <1>4, AppliedIs DEF Fits, Priced, Disposing
  <2>. QED BY <1>4, <2>1, DisposalFollows DEF Fits
<1>. QED BY <1>1, <1>2, <1>3, <1>4 DEF Disposing

-----------------------------------------------------------------------------
(* What the strategies promise *)

\* The reference keeps a sequence of units.
LEMMA UnitsStay ==
  ASSUME NEW strategy, NEW units \in Seq(Nat), NEW tx \in Entry
  PROVE  UnitsAfter(strategy, units, tx) \in Seq(Nat)
<1>1. /\ tx.kind \in {"BUY", "TRANSFER_IN", "SELL", "TRANSFER_OUT"}
      /\ tx.amount \in Nat /\ tx.price * Unit \in Nat
  BY EntryIs
<1>2. CASE tx.kind = "BUY"
  <2>1. UnitsAfter(strategy, units, tx) = units \o UnitsOf(tx.amount, tx.price * Unit)
    BY <1>2 DEF UnitsAfter, Disposing
  <2>2. PICK more \in Seq(Nat) : more = UnitsOf(tx.amount, tx.price * Unit)
    BY <1>1, UnitsOfAre
  <2>3. units \o more \in Seq(Nat)
    BY ConcatProperties
  <2>. QED BY <2>1, <2>2, <2>3
<1>3. CASE tx.kind = "TRANSFER_IN"
  <2>1. UnitsAfter(strategy, units, tx) = units \o UnitsOf(tx.amount, 0)
    BY <1>3 DEF UnitsAfter, Disposing
  <2>2. PICK more \in Seq(Nat) : more = UnitsOf(tx.amount, 0)
    BY <1>1, UnitsOfAre
  <2>3. units \o more \in Seq(Nat)
    BY ConcatProperties
  <2>. QED BY <2>1, <2>2, <2>3
<1>4. CASE tx.kind \in Disposing
  <2>1. UnitsAfter(strategy, units, tx) =
          IF strategy = "FIFO" THEN SubSeq(units, tx.amount + 1, Len(units))
          ELSE SubSeq(units, 1, Len(units) - tx.amount)
    BY <1>4 DEF UnitsAfter, Disposing
  <2>2. PICK n \in Nat, m \in Nat : n = Len(units) /\ m = tx.amount
    BY <1>1
  <2>3. (\A k \in (m + 1)..n : units[k] \in Nat) /\ (\A k \in 1..(n - m) : units[k] \in Nat)
    BY <2>2
  <2>4. m + 1 \in Int /\ n \in Int /\ n - m \in Int
    OBVIOUS
  <2>5. SubSeq(units, m + 1, n) \in Seq(Nat) /\ SubSeq(units, 1, n - m) \in Seq(Nat)
    BY <2>3, <2>4, SubSeqProperties
  <2>. QED BY <2>1, <2>2, <2>5
<1>. QED BY <1>1, <1>2, <1>3, <1>4 DEF Disposing

\* It starts with one.
LEMMA UnitsAtFirstAre ==
  ASSUME NEW balance \in Balance
  PROVE  UnitsAtFirst(balance) \in Seq(Nat)
<1>1. balance.quantity \in Nat /\ balance.cost * Unit \in Nat
  BY UnitAssumption DEF Balance
<1>2. CASE balance.quantity = 0
  BY <1>2, EmptySeq DEF UnitsAtFirst
<1>3. CASE balance.quantity # 0
  BY <1>1, <1>3, QuotientIs, UnitsOfAre DEF UnitsAtFirst
<1>. QED BY <1>2, <1>3

\* The units held, transaction by transaction.
LEMMA UnitsSteps ==
  ASSUME NEW strategy, NEW balance \in Balance
  PROVE  /\ UnitsHeld(strategy, balance, <<>>) = UnitsAtFirst(balance)
         /\ \A txs \in Seq(Entry), tx \in Entry :
              UnitsHeld(strategy, balance, Append(txs, tx))
                = UnitsAfter(strategy, UnitsHeld(strategy, balance, txs), tx)
<1>1. Closed("hold", strategy, Seq(Nat), Entry)
  BY UnitsStay DEF Closed, Does
<1>2. PICK base \in Seq(Nat) : base = UnitsAtFirst(balance)
  BY UnitsAtFirstAre
<1>3. Unfolds("hold", strategy, Seq(Nat), Entry, base)
  BY <1>1, FoldUnfolds
<1>4. \A txs : UnitsHeld(strategy, balance, txs) = Fold("hold", strategy, base, txs)
  BY <1>2, UnitsAreFold
<1>. QED BY <1>2, <1>3, <1>4 DEF Unfolds, Does

\* All units together are those of the lots, laid out one after the other.
LEMMA FlattenedAre ==
  ASSUME NEW lots \in Seq(Lot)
  PROVE  FlattenSeq([i \in DOMAIN lots |-> UnitsOf(lots[i].quantity, lots[i].unitCost)]) = Laid(lots)
<1>1. PICK n \in Nat : n = Len(lots) /\ DOMAIN lots = 1..n
  BY LenProperties
<1>2. PICK units : units = [i \in 1..n |-> UnitsOf(lots[i].quantity, lots[i].unitCost)]
  OBVIOUS
<1>3. \A i \in 1..n : units[i] = Unpacked(lots[i]) /\ units[i] \in Seq(Nat) /\ lots[i] \in Lot
  <2>1. ASSUME NEW i \in 1..n PROVE units[i] = Unpacked(lots[i]) /\ units[i] \in Seq(Nat) /\ lots[i] \in Lot
    <3>1. lots[i] \in Lot
      BY <1>1
    <3>2. units[i] = Unpacked(lots[i])
      BY <1>2 DEF Unpacked
    <3>. QED BY <3>1, <3>2, LaidOfOne
  <2>. QED BY <2>1
<1>4. units \in Seq(Seq(Nat)) /\ Len(units) = n
  <2>1. units \in [1..n -> Seq(Nat)]
    BY <1>2, <1>3
  <2>. QED BY <2>1
<1>5. CASE n = 0
  <2>1. units = <<>> /\ lots = <<>>
    BY <1>1, <1>4, <1>5, EmptySeq
  <2>2. FlattenSeq(units) = <<>>
    BY <1>4, <1>5, <2>1 DEF FlattenSeq
  <2>. QED BY <1>1, <1>2, <2>1, <2>2, LaidSteps
<1>6. CASE n # 0
  <2> DEFINE J(f) == f = [i \in 1..n |-> IF i = 1 THEN units[i] ELSE f[i - 1] \o units[i]]
             Lay == [i \in 1..n |-> Laid(SubSeq(lots, 1, i))]
  <2>1. FlattenSeq(units) = (CHOOSE f : J(f))[n]
    BY <1>4, <1>6 DEF FlattenSeq
  <2>2. \A i \in 1..n : Lay[i] = IF i = 1 THEN units[i] ELSE Lay[i - 1] \o units[i]
    <3>1. ASSUME NEW i \in 1..n
          PROVE  Lay[i] = IF i = 1 THEN units[i] ELSE Lay[i - 1] \o units[i]
      <4>1. CASE i = 1
        <5>1. SubSeq(lots, 1, 1) = SubSeq(lots, 1, 0) \o <<lots[1]>> /\ SubSeq(lots, 1, 0) = <<>>
          BY <1>1, <4>1, SubSeqRecursiveSecond, SubSeqEmpty
        <5>2. <<>> \o <<lots[1]>> = <<lots[1]>>
          BY <1>3, <4>1, ConcatEmptySeq
        <5>3. PICK x \in Lot : x = lots[1] /\ units[1] = Unpacked(x)
          BY <1>3, <4>1
        <5>4. Laid(<<x>>) = Unpacked(x)
          BY LaidOfOne
        <5>5. Lay[1] = Laid(SubSeq(lots, 1, 1))
          BY <4>1
        <5>. QED BY <4>1, <5>1, <5>2, <5>3, <5>4, <5>5
      <4>2. CASE i # 1
        <5>1. i - 1 \in 1..n /\ i \in Nat /\ i - 1 \in Nat
          BY <4>2
        <5>2. PICK p \in Seq(Lot) : p = SubSeq(lots, 1, i - 1)
          <6>1. \A k \in 1..(i - 1) : lots[k] \in Lot
            BY <1>3, <5>1
          <6>2. PICK m \in Int, k \in Int : m = 1 /\ k = i - 1
            BY <5>1
          <6>3. \A j \in m..k : lots[j] \in Lot
            BY <6>1, <6>2
          <6>4. SubSeq(lots, m, k) \in Seq(Lot)
            BY <6>3, SubSeqProperties
          <6>. QED BY <6>2, <6>4
        <5>3. SubSeq(lots, 1, i) = Append(p, lots[i])
          <6>1. SubSeq(lots, 1, i) = p \o <<lots[i]>>
            <7>1. i \in 1..Len(lots) /\ 1 \in 1..i
              BY <1>1, <4>2
            <7>. QED BY <5>2, <7>1, SubSeqRecursiveSecond
          <6>. QED BY <6>1
        <5>4. Laid(Append(p, lots[i])) = Laid(p) \o units[i]
          BY <1>3, LaidSteps
        <5>. QED BY <4>2, <5>1, <5>2, <5>3, <5>4
      <4>. QED BY <4>1, <4>2
    <3>. QED BY <3>1
  <2>3. J(Lay)
    BY <2>2
  <2>4. ASSUME NEW f, J(f) PROVE f[n] = Lay[n]
    <3> DEFINE Bad == {i \in Nat : i \in 1..n /\ f[i] # Lay[i]}
    <3>1. ASSUME Bad # {} PROVE FALSE
      <4>1. Bad \subseteq Nat
        OBVIOUS
      <4> HIDE DEF Bad
      <4>2. PICK i \in Bad : \A k \in Bad : i <= k
        BY <3>1, <4>1, LeastNatural
      <4>3. i \in 1..n /\ f[i] # Lay[i] /\ i \in Nat
        BY <4>2 DEF Bad
      <4>4. f[i] = IF i = 1 THEN units[i] ELSE f[i - 1] \o units[i]
        BY <2>4, <4>3
      <4> HIDE DEF Lay
      <4>5. i # 1
        BY <2>2, <4>3, <4>4
      <4>6. i - 1 \in 1..n /\ i - 1 \in Nat /\ ~(i <= i - 1)
        BY <4>3, <4>5
      <4>7. i - 1 \notin Bad
        BY <4>2, <4>6
      <4>8. f[i - 1] = Lay[i - 1]
        BY <4>6, <4>7 DEF Bad
      <4>. QED BY <2>2, <4>3, <4>4, <4>5, <4>8
    <3>2. n \in 1..n
      BY <1>6
    <3>. QED BY <3>1, <3>2
  <2>5. J(CHOOSE f : J(f))
    <3> HIDE DEF J, Lay
    <3>. QED BY <2>3
  <2>6. FlattenSeq(units) = Lay[n]
    <3> HIDE DEF J, Lay
    <3>. QED BY <2>1, <2>4, <2>5
  <2>7. Lay[n] = Laid(lots)
    <3>1. SubSeq(lots, 1, n) = lots
      BY <1>1, SubSeqFull
    <3>2. n \in 1..n
      BY <1>6
    <3>. QED BY <3>1, <3>2
  <2>. QED BY <1>1, <1>2, <2>6, <2>7
<1>. QED BY <1>5, <1>6

\* The position after acceptable transactions.
Right(strategy, balance, txs) ==
  LET s == Calculated(strategy, Opened(balance), txs)
      a == Calculated("AVERAGE", Opened(balance), txs)
  IN /\ s \in Whole(strategy)
     /\ s.quantity = HeldAfter(balance.quantity, txs)
     /\ ByLots(strategy) =>
          /\ Laid(s.lots) = UnitsHeld(strategy, balance, txs)
          /\ s.cost - Total(Laid(s.lots)) = balance.cost * Unit - Total(UnitsAtFirst(balance))
     /\ (\A i \in DOMAIN txs : txs[i].kind # "TRANSFER_OUT") =>
          Realized(s) - s.cost = Realized(a) - a.cost

\* Before any transaction the position is right.
LEMMA RightAtFirst ==
  ASSUME NEW strategy \in Strategies, NEW balance \in Balance
  PROVE  Right(strategy, balance, <<>>)
<1>1. "AVERAGE" \in Strategies
  BY DEF Strategies
<1>2. PICK s : s = Start(strategy, Opened(balance))
  OBVIOUS
<1>3. PICK a : a = Start("AVERAGE", Opened(balance))
  OBVIOUS
<1>4. /\ s \in Whole(strategy)
      /\ s.quantity = balance.quantity /\ s.cost = balance.cost * Unit /\ s.events = <<>>
      /\ ByLots(strategy) => Laid(s.lots) = UnitsAtFirst(balance)
  BY <1>2, OpenedIs
<1>5. a \in Whole("AVERAGE") /\ a.cost = balance.cost * Unit /\ a.events = <<>>
  BY <1>1, <1>3, OpenedIs
<1>6. Calculated(strategy, Opened(balance), <<>>) = s
  BY <1>2, <1>4, CalculatedSteps DEF States
<1>7. Calculated("AVERAGE", Opened(balance), <<>>) = a
  BY <1>1, <1>3, <1>5, CalculatedSteps DEF States
<1>8. HeldAfter(balance.quantity, <<>>) = balance.quantity
  BY HeldSteps DEF Balance
<1>9. UnitsHeld(strategy, balance, <<>>) = UnitsAtFirst(balance)
  BY UnitsSteps
<1>10. Realized(s) = Realized(a)
  BY <1>4, <1>5, GainSteps
<1>. QED BY <1>4, <1>5, <1>6, <1>7, <1>8, <1>9, <1>10 DEF Right

\* A transaction that fits keeps it right.
LEMMA RightStep ==
  ASSUME NEW strategy \in Strategies, NEW balance \in Balance, NEW txs \in Seq(Entry),
         NEW tx \in Entry, Right(strategy, balance, txs), Right("AVERAGE", balance, txs),
         Fits(HeldAfter(balance.quantity, txs), tx)
  PROVE  Right(strategy, balance, Append(txs, tx))
<1>1. "AVERAGE" \in Strategies
  BY DEF Strategies
<1>2. PICK s : s = Calculated(strategy, Opened(balance), txs)
  OBVIOUS
<1>3. PICK a : a = Calculated("AVERAGE", Opened(balance), txs)
  OBVIOUS
<1>4. /\ s \in Whole(strategy) /\ s.quantity = HeldAfter(balance.quantity, txs)
      /\ ByLots(strategy) =>
           /\ Laid(s.lots) = UnitsHeld(strategy, balance, txs)
           /\ s.cost - Total(Laid(s.lots)) = balance.cost * Unit - Total(UnitsAtFirst(balance))
      /\ (\A i \in DOMAIN txs : txs[i].kind # "TRANSFER_OUT") =>
           Realized(s) - s.cost = Realized(a) - a.cost
  BY <1>2, <1>3 DEF Right
<1>5. a \in Whole("AVERAGE") /\ a.quantity = HeldAfter(balance.quantity, txs)
  BY <1>3 DEF Right
<1>6. PICK s2 : s2 = Applied(strategy, s, tx)
  OBVIOUS
<1>7. PICK a2 : a2 = Applied("AVERAGE", a, tx)
  OBVIOUS
<1>8. Follows(strategy, s, tx, s2) /\ Follows("AVERAGE", a, tx, a2)
  BY <1>1, <1>4, <1>5, <1>6, <1>7, FittingFollows
<1>9. Start(strategy, Opened(balance)) \in States(strategy) /\ Start("AVERAGE", Opened(balance)) \in States("AVERAGE")
  BY <1>1, OpenedIs DEF States
<1>10. s2 = Calculated(strategy, Opened(balance), Append(txs, tx))
  BY <1>2, <1>6, <1>9, CalculatedSteps
<1>11. a2 = Calculated("AVERAGE", Opened(balance), Append(txs, tx))
  BY <1>1, <1>3, <1>7, <1>9, CalculatedSteps
<1>12. s2.quantity = HeldAfter(balance.quantity, Append(txs, tx))
  <2>1. HeldAfter(balance.quantity, Append(txs, tx)) = Moved(HeldAfter(balance.quantity, txs), tx)
    BY HeldSteps DEF Balance
  <2>. QED BY <1>4, <1>8, <2>1 DEF Follows
<1>13. ByLots(strategy) =>
         /\ Laid(s2.lots) = UnitsHeld(strategy, balance, Append(txs, tx))
         /\ s2.cost - Total(Laid(s2.lots)) = balance.cost * Unit - Total(UnitsAtFirst(balance))
  <2>1. UnitsHeld(strategy, balance, Append(txs, tx))
          = UnitsAfter(strategy, UnitsHeld(strategy, balance, txs), tx)
    BY UnitsSteps
  <2>. QED BY <1>4, <1>8, <2>1 DEF Follows
<1>14. ASSUME \A i \in DOMAIN Append(txs, tx) : Append(txs, tx)[i].kind # "TRANSFER_OUT"
       PROVE  Realized(s2) - s2.cost = Realized(a2) - a2.cost
  <2>1. PICK n \in Nat : n = Len(txs) /\ DOMAIN txs = 1..n
    BY LenProperties
  <2>2. PICK more \in Seq(Entry) : more = Append(txs, tx)
    BY AppendProperties
  <2>3. Len(more) = n + 1 /\ more[n + 1] = tx /\ \A k \in 1..n : more[k] = txs[k]
    BY <2>1, <2>2, AppendProperties
  <2>4. DOMAIN more = 1..(n + 1)
    BY <2>3, LenProperties
  <2>5. tx.kind # "TRANSFER_OUT"
    <3>1. n + 1 \in 1..(n + 1)
      OBVIOUS
    <3>. QED BY <1>14, <2>2, <2>3, <2>4, <3>1
  <2>6. \A i \in DOMAIN txs : txs[i].kind # "TRANSFER_OUT"
    <3>1. \A i \in 1..n : i \in 1..(n + 1)
      OBVIOUS
    <3>. QED BY <1>14, <2>1, <2>2, <2>3, <2>4, <3>1
  <2>. QED BY <1>4, <1>8, <2>5, <2>6 DEF Follows
<1>. QED BY <1>8, <1>10, <1>11, <1>12, <1>13, <1>14 DEF Right, Follows

\* The position after any acceptable transactions is right.
LEMMA AcceptableIsRight ==
  ASSUME NEW balance \in Balance
  PROVE  \A txs \in Seq(Entry) :
           Acceptable(balance, txs) => \A strategy \in Strategies : Right(strategy, balance, txs)
<1> DEFINE T == {txs \in Seq(Entry) :
                   Acceptable(balance, txs) => \A strategy \in Strategies : Right(strategy, balance, txs)}
<1>1. T \subseteq Seq(Entry)
  OBVIOUS
<1>2. <<>> \in T
  BY RightAtFirst, EmptySeq
<1>3. ASSUME NEW txs \in T, NEW tx \in Entry PROVE Append(txs, tx) \in T
  <2>1. txs \in Seq(Entry)
        /\ (Acceptable(balance, txs) => \A strategy \in Strategies : Right(strategy, balance, txs))
    OBVIOUS
  <2>2. Append(txs, tx) \in Seq(Entry)
    BY <2>1, AppendProperties
  <2>3. ASSUME Acceptable(balance, Append(txs, tx)), NEW strategy \in Strategies
        PROVE  Right(strategy, balance, Append(txs, tx))
    <3>1. Acceptable(balance, txs) /\ Fits(HeldAfter(balance.quantity, txs), tx)
      BY <2>1, <2>3, AcceptableStep
    <3>2. Right(strategy, balance, txs) /\ Right("AVERAGE", balance, txs)
      BY <2>1, <3>1 DEF Strategies
    <3>. QED BY <2>1, <3>1, <3>2, RightStep
  <2>. QED BY <2>2, <2>3
<1> HIDE DEF T
<1>4. T = Seq(Entry)
  BY <1>1, <1>2, <1>3, AppendInduction
<1>. QED BY <1>4 DEF T

\* The three strategies agree with the holdings, with the units and with each other.
LEMMA QuantitiesAgree ==
  ASSUME NEW strategy \in Strategies, NEW balance \in Balance, NEW txs \in Seq(Entry)
  PROVE  QuantityAgrees(strategy, balance, txs)
<1>1. ASSUME Acceptable(balance, txs)
      PROVE  /\ Calculated(strategy, Opened(balance), txs) # Failed
             /\ Calculated(strategy, Opened(balance), txs).quantity = HeldAfter(balance.quantity, txs)
  <2>1. PICK s : s = Calculated(strategy, Opened(balance), txs)
    OBVIOUS
  <2>2. Right(strategy, balance, txs)
    BY <1>1, AcceptableIsRight
  <2>3. s \in Whole(strategy) /\ s.quantity = HeldAfter(balance.quantity, txs)
    BY <2>1, <2>2 DEF Right
  <2>4. s # Failed
    BY <2>3, PositionIs DEF Whole
  <2>. QED BY <2>1, <2>3, <2>4
<1>. QED BY <1>1 DEF QuantityAgrees

\* Lots leave in their order and at their cost.
LEMMA UnitsAgree ==
  ASSUME NEW strategy \in Strategies, NEW balance \in Balance, NEW txs \in Seq(Entry)
  PROVE  UnitsAreRight(strategy, balance, txs)
<1>1. PICK s : s = Calculated(strategy, Opened(balance), txs)
  OBVIOUS
<1>2. PICK units : units = FlattenSeq([i \in DOMAIN s.lots |-> UnitsOf(s.lots[i].quantity, s.lots[i].unitCost)])
  OBVIOUS
<1>3. PICK first : first = UnitsHeld(strategy, balance, <<>>)
  OBVIOUS
<1>4. ASSUME ByLots(strategy), Acceptable(balance, txs)
      PROVE  /\ units = UnitsHeld(strategy, balance, txs)
             /\ s.cost - Total(units) = balance.cost * Unit - Total(first)
  <2>1. Right(strategy, balance, txs)
    BY <1>4, AcceptableIsRight
  <2>2. /\ s \in Whole(strategy)
        /\ Laid(s.lots) = UnitsHeld(strategy, balance, txs)
        /\ s.cost - Total(Laid(s.lots)) = balance.cost * Unit - Total(UnitsAtFirst(balance))
    BY <1>1, <1>4, <2>1 DEF Right
  <2>3. s.lots \in Seq(Lot)
    BY <2>2, PositionIs DEF Whole
  <2>4. units = Laid(s.lots)
    BY <1>2, <2>3, FlattenedAre
  <2>5. first = UnitsAtFirst(balance)
    BY <1>3, UnitsSteps
  <2>. QED BY <2>2, <2>4, <2>5
<1>. QED BY <1>1, <1>2, <1>3, <1>4 DEF UnitsAreRight, Total

\* The profit in all does not depend on the strategy, at any price.
LEMMA ProfitsAgree ==
  ASSUME NEW balance \in Balance, NEW txs \in Seq(Entry), Acceptable(balance, txs),
         \A i \in DOMAIN txs : txs[i].kind # "TRANSFER_OUT"
  PROVE  \A strategy \in Strategies, price \in Nat :
           TotalPnl(Calculated(strategy, Opened(balance), txs), price)
             = TotalPnl(Calculated("AVERAGE", Opened(balance), txs), price)
<1>1. "AVERAGE" \in Strategies
  BY DEF Strategies
<1>2. ASSUME NEW strategy \in Strategies, NEW price \in Nat
      PROVE  TotalPnl(Calculated(strategy, Opened(balance), txs), price)
               = TotalPnl(Calculated("AVERAGE", Opened(balance), txs), price)
  <2>1. PICK s : s = Calculated(strategy, Opened(balance), txs)
    OBVIOUS
  <2>2. PICK a : a = Calculated("AVERAGE", Opened(balance), txs)
    OBVIOUS
  <2>3. Right(strategy, balance, txs) /\ Right("AVERAGE", balance, txs)
    BY <1>1, <1>2, AcceptableIsRight
  <2>4. /\ s \in Whole(strategy) /\ a \in Whole("AVERAGE") /\ s.quantity = a.quantity
        /\ Realized(s) - s.cost = Realized(a) - a.cost
    BY <1>2, <2>1, <2>2, <2>3 DEF Right
  <2>5. s.quantity \in Nat /\ s.cost \in Nat /\ a.cost \in Nat
    BY <2>4, PositionIs DEF Whole
  <2>6. Realized(s) \in Int /\ Realized(a) \in Int
    BY <2>4, PositionIs, GainSteps DEF Whole
  <2>7. s.quantity * price \in Nat
    BY <2>5
  <2>8. PICK worth \in Nat : worth = s.quantity * price * Unit
    BY <2>7, UnitAssumption
  <2>9. TotalPnl(s, price) = Realized(s) + (worth - s.cost) /\ TotalPnl(a, price) = Realized(a) + (worth - a.cost)
    BY <2>4, <2>8 DEF TotalPnl
  <2>10. Realized(s) + (worth - s.cost) = Realized(a) + (worth - a.cost)
    <3>1. PICK g \in Int, h \in Int, c \in Nat, d \in Nat :
            g = Realized(s) /\ h = Realized(a) /\ c = s.cost /\ d = a.cost
      BY <2>5, <2>6
    <3>2. g - c = h - d
      BY <2>4, <3>1
    <3>3. g + (worth - c) = h + (worth - d)
      BY ONLY <3>2
    <3>. QED BY <3>1, <3>3
  <2>. QED BY <2>1, <2>2, <2>9, <2>10
<1>. QED BY <1>2

\* Whatever the opening balance and the transactions: resuming from any state is exact,
\* the quantity is that of the holdings, lots leave in their order and at their cost, and
\* the profit in all does not depend on the strategy (the calculators of
\* portfolio/domain/calculation and HoldingsCalculator).
THEOREM CalculatorsAgree ==
  ASSUME NEW balance \in Balance, NEW txs \in Seq(Entry)
  PROVE  /\ \A s \in Strategies :
              /\ Resumable(s, balance, txs)
              /\ QuantityAgrees(s, balance, txs)
              /\ UnitsAreRight(s, balance, txs)
         /\ ProfitAgrees(balance, txs)
<1>1. \A s \in Strategies : /\ Resumable(s, balance, txs)
                             /\ QuantityAgrees(s, balance, txs)
                             /\ UnitsAreRight(s, balance, txs)
  BY ResumesExactly, QuantitiesAgree, UnitsAgree
<1>2. \A price \in 0..2 : price \in Nat
  OBVIOUS
<1>3. ProfitAgrees(balance, txs)
  BY <1>2, ProfitsAgree DEF ProfitAgrees
<1>. QED BY <1>1, <1>3

-----------------------------------------------------------------------------
(* The transactions in their order *)

\* The rows that are there.
LEMMA LiveRows ==
  ASSUME NEW L \in Ledger
  PROVE  /\ IsFiniteSet(Live(L)) /\ Cardinality(Live(L)) \in Nat /\ Live(L) \subseteq Nat
         /\ \A t \in Live(L) : L[t] \in Entry /\ L[t].at \in Nat
<1>1. IsFiniteSet(Tx) /\ Tx \subseteq Nat
  BY LedgerAssumption, FS_Interval DEF Tx
<1>2. Live(L) \in SUBSET Tx
  BY DEF Live
<1>3. IsFiniteSet(Live(L)) /\ Cardinality(Live(L)) \in Nat
  BY <1>1, <1>2, FS_Subset, FS_CardinalityType
<1>4. ASSUME NEW t \in Live(L) PROVE L[t] \in Entry /\ L[t].at \in Nat
  <2>1. L[t] \in Entry \cup {Unused, Deleted} /\ L[t].kind \in Kind
    BY DEF Live, Ledger
  <2>2. L[t] \in Entry
    BY <2>1 DEF Unused, Deleted, Kind, Acquiring, Disposing
  <2>. QED BY <2>2 DEF Entry
<1>. QED BY <1>1, <1>2, <1>3, <1>4

\* Every place in the order is taken.
LEMMA OrderedIs ==
  ASSUME NEW L \in Ledger
  PROVE  Ordered(L) \in Seq(Live(L)) /\ Len(Ordered(L)) = Cardinality(Live(L))
<1> DEFINE S == Live(L)
           Earlier(t) == {u \in S : Before(L, u, t)}
           f == [t \in S |-> Cardinality(Earlier(t)) + 1]
           N == Cardinality(S)
<1>0. /\ IsFiniteSet(S) /\ N \in Nat /\ S \subseteq Nat
      /\ \A t \in S : L[t].at \in Nat
  BY LiveRows
<1>1. \A t, u, v \in S : /\ ~Before(L, t, t)
                         /\ t = u \/ Before(L, t, u) \/ Before(L, u, t)
                         /\ Before(L, t, u) /\ Before(L, u, v) => Before(L, t, v)
  <2>1. ASSUME NEW t \in S, NEW u \in S, NEW v \in S
        PROVE  /\ ~Before(L, t, t)
               /\ t = u \/ Before(L, t, u) \/ Before(L, u, t)
               /\ Before(L, t, u) /\ Before(L, u, v) => Before(L, t, v)
    <3>1. /\ t \in Nat /\ u \in Nat /\ v \in Nat
          /\ L[t].at \in Nat /\ L[u].at \in Nat /\ L[v].at \in Nat
      BY <1>0
    <3>. QED BY <3>1 DEF Before
  <2>. QED BY <2>1
<1>2. ASSUME NEW t \in S
      PROVE  IsFiniteSet(Earlier(t)) /\ Cardinality(Earlier(t)) \in Nat /\ Cardinality(Earlier(t)) < N
  <2>1. Earlier(t) \in SUBSET S /\ t \notin Earlier(t)
    BY <1>1
  <2>2. IsFiniteSet(Earlier(t)) /\ Cardinality(Earlier(t)) <= N /\ Cardinality(Earlier(t)) # N
    BY <1>0, <2>1, FS_Subset
  <2>3. Cardinality(Earlier(t)) \in Nat
    BY <2>2, FS_CardinalityType
  <2>. QED BY <1>0, <2>2, <2>3
<1>3. ASSUME NEW t \in S, NEW u \in S, Before(L, t, u)
      PROVE  Cardinality(Earlier(t)) < Cardinality(Earlier(u))
  <2>1. Earlier(t) \in SUBSET Earlier(u) /\ Earlier(t) # Earlier(u)
    BY <1>1, <1>3
  <2>2. Cardinality(Earlier(t)) <= Cardinality(Earlier(u)) /\ Cardinality(Earlier(t)) # Cardinality(Earlier(u))
    BY <1>2, <2>1, FS_Subset
  <2>3. Cardinality(Earlier(t)) \in Nat /\ Cardinality(Earlier(u)) \in Nat
    BY <1>2
  <2>. QED BY <2>2, <2>3
<1> HIDE DEF Earlier
<1>4. \A t \in S : f[t] \in 1..N
  BY <1>0, <1>2
<1>5. \A t, u \in S : Before(L, t, u) => f[t] < f[u]
  BY <1>2, <1>3
<1>6. \A t, u \in S : f[t] = f[u] => t = u
  <2> SUFFICES ASSUME NEW t \in S, NEW u \in S, f[t] = f[u], t # u PROVE FALSE
    OBVIOUS
  <2>1. Before(L, t, u) \/ Before(L, u, t)
    BY <1>1
  <2>. QED BY <1>4, <1>5, <2>1
<1>7. f \in Surjection(S, 1..N)
  <2>1. f \in Injection(S, 1..N)
    BY <1>4, <1>6 DEF Injection, IsInjective
  <2>2. IsFiniteSet(1..N) /\ Cardinality(1..N) = N
    BY <1>0, FS_Interval
  <2>. QED BY <1>0, <2>1, <2>2, FS_Injection
<1>a. \A t \in S : Place(L)[t] = Cardinality(Earlier(t))
  BY DEF Place, Earlier
<1>8. Ordered(L) = [n \in 1..N |-> CHOOSE t \in S : Place(L)[t] = n - 1]
  BY DEF Ordered
<1>9. ASSUME NEW n \in 1..N PROVE (CHOOSE t \in S : Place(L)[t] = n - 1) \in S
  <2>1. PICK t \in S : f[t] = n
    BY <1>7 DEF Surjection
  <2>2. Place(L)[t] = n - 1
    BY <1>2, <1>a, <2>1
  <2>. QED BY <2>2
<1>10. Ordered(L) \in [1..N -> S]
  BY <1>8, <1>9
<1>. QED BY <1>0, <1>10

\* The transactions after the first n.
LEMMA SuffixIs ==
  ASSUME NEW L \in Ledger, NEW n \in Nat
  PROVE  Suffix(L, n) \in Seq(Entry)
<1>1. PICK order \in Seq(Live(L)) : order = Ordered(L)
  BY OrderedIs
<1>2. PICK m \in Nat : m = Len(order) /\ DOMAIN order = 1..m
  BY LenProperties
<1>3. Suffix(L, n) = [i \in 1..(m - n) |-> L[order[n + i]]]
  BY <1>1, <1>2 DEF Suffix
<1>4. ASSUME NEW i \in 1..(m - n) PROVE L[order[n + i]] \in Entry
  <2>1. n + i \in 1..m
    BY <1>2
  <2>2. order[n + i] \in Live(L)
    BY <1>2, <2>1
  <2>. QED BY <2>2, LiveRows
<1>5. PICK k \in Nat : 1..(m - n) = 1..k
  <2>1. CASE m >= n
    <3>1. m - n \in Nat
      BY <2>1
    <3>. QED BY <3>1
  <2>2. CASE ~(m >= n)
    <3>1. 1..(m - n) = 1..0 /\ 0 \in Nat
      BY <2>2
    <3>. QED BY <3>1
  <2>. QED BY <2>1, <2>2
<1>6. Suffix(L, n) \in [1..k -> Entry]
  BY <1>3, <1>4, <1>5
<1>. QED BY <1>6

\* Ledgers with the same rows have the same order and replay to the same position.
LEMMA SameRows ==
  ASSUME NEW L \in Ledger, NEW M \in Ledger, Rows(L) = Rows(M)
  PROVE  /\ Live(L) = Live(M) /\ \A t \in Live(L) : L[t] = M[t]
         /\ \A last \in Live(L) : /\ IsLast(L, last) <=> IsLast(M, last)
                                  /\ SuffixStart(L, last) = SuffixStart(M, last)
         /\ \A o : Replay(L, o) = Replay(M, o)
<1>1. Live(L) = Live(M) /\ \A t \in Live(L) : L[t] = M[t]
  BY DEF Rows
<1>2. PICK S : S = Live(L) /\ S = Live(M) /\ \A t \in S : L[t] = M[t]
  BY <1>1
<1>3. \A t, u \in S : Before(L, t, u) <=> Before(M, t, u)
  BY <1>2 DEF Before
<1>4. \A last \in S : IsLast(L, last) <=> IsLast(M, last)
  BY <1>2, <1>3 DEF IsLast
<1>5. ASSUME NEW last \in S PROVE SuffixStart(L, last) = SuffixStart(M, last)
  <2>1. {t \in S : ~Before(L, last, t)} = {t \in S : ~Before(M, last, t)}
    BY <1>3
  <2>. QED BY <1>2, <2>1 DEF SuffixStart
<1>6. Place(L) = Place(M)
  <2>1. \A t \in S : {u \in S : Before(L, u, t)} = {u \in S : Before(M, u, t)}
    BY <1>3
  <2>2. Place(L) = [t \in S |-> Cardinality({u \in S : Before(L, u, t)})]
    BY <1>2 DEF Place
  <2>3. Place(M) = [t \in S |-> Cardinality({u \in S : Before(M, u, t)})]
    BY <1>2 DEF Place
  <2>. QED BY <2>1, <2>2, <2>3
<1>7. Ordered(L) = Ordered(M)
  BY <1>2, <1>6 DEF Ordered
<1>8. Suffix(L, 0) = Suffix(M, 0)
  <2>1. PICK order \in Seq(S) : order = Ordered(L) /\ order = Ordered(M)
    BY <1>2, <1>7, OrderedIs
  <2>2. PICK m \in Nat : m = Len(order) /\ DOMAIN order = 1..m
    BY LenProperties
  <2>3. Suffix(L, 0) = [i \in 1..(m - 0) |-> L[order[0 + i]]]
    BY <2>1, <2>2 DEF Suffix
  <2>4. Suffix(M, 0) = [i \in 1..(m - 0) |-> M[order[0 + i]]]
    BY <2>1, <2>2 DEF Suffix
  <2>5. ASSUME NEW i \in 1..(m - 0) PROVE L[order[0 + i]] = M[order[0 + i]]
    <3>1. 0 + i \in 1..m
      BY <2>2
    <3>2. order[0 + i] \in S
      BY <2>2, <3>1
    <3>. QED BY <1>2, <3>2
  <2>. QED BY <2>3, <2>4, <2>5
<1>9. ASSUME NEW o PROVE Replay(L, o) = Replay(M, o)
  BY <1>8 DEF Replay, Resume
<1>. QED BY <1>2, <1>4, <1>5, <1>9

\* A checkpoint with nothing after it leaves nothing to resume.
LEMMA AnchoredAtEnd ==
  ASSUME NEW L \in Ledger, NEW last, \A t \in Live(L) : ~Before(L, last, t)
  PROVE  SuffixStart(L, last) = Cardinality(Live(L))
<1>1. {t \in Live(L) : ~Before(L, last, t)} = Live(L)
  OBVIOUS
<1>. QED BY <1>1 DEF SuffixStart

\* Nothing is after the last transaction.
LEMMA LastIsLast ==
  ASSUME NEW L \in Ledger, NEW last, IsLast(L, last)
  PROVE  \A t \in Live(L) : ~Before(L, last, t)
<1>1. ASSUME NEW t \in Live(L) PROVE ~Before(L, last, t)
  <2>1. /\ last \in Live(L) /\ L[t].at \in Nat /\ L[last].at \in Nat
        /\ last \in Nat /\ t \in Nat
    BY LiveRows DEF IsLast
  <2>2. t = last \/ Before(L, t, last)
    BY <1>1 DEF IsLast
  <2>. QED BY <2>1, <2>2 DEF Before
<1>. QED BY <1>1

-----------------------------------------------------------------------------
(* Rounding *)

\* A rounded cost is a cost, and stays as it is when it is rounded again.
LEMMA NearestIs ==
  ASSUME NEW c \in Nat
  PROVE  Nearest(c) \in Nat /\ Nearest(Nearest(c)) = Nearest(c)
<1>1. PICK u \in Nat : u = Unit /\ u > 0
  BY UnitAssumption
<1>2. PICK h \in Nat : h = u \div 2 /\ h < u
  BY <1>1
<1>3. PICK k \in Nat : k = (c + h) \div u
  <2>1. (c + h) \div u \in Nat
    BY <1>1, <1>2, SMTT(20)
  <2>. QED BY <2>1
<1>4. PICK n \in Nat : n = u * k
  OBVIOUS
<1>5. Nearest(c) = n
  BY <1>1, <1>2, <1>3, <1>4 DEF Nearest
<1>6. (n + h) \div u = k
  <2>1. PICK q \in Nat : q = (n + h) \div u
    BY <1>1, SMTT(20)
  <2>2. u * q <= n + h /\ n + h < u * q + u
    BY <1>1, <2>1, SMTT(20)
  <2>3. u * q < u * k + u /\ u * k < u * q + u
    BY <1>1, <1>2, <1>4, <2>2
  <2>4. \A a, b \in Nat : a >= b + 1 => u * a >= u * b + u
    <3>1. ASSUME NEW a \in Nat, NEW b \in Nat, a >= b + 1 PROVE u * a >= u * b + u
      <4>1. PICK d \in Nat : a = b + 1 + d
        <5>1. a - (b + 1) \in Nat /\ a = b + 1 + (a - (b + 1))
          BY <3>1
        <5>. QED BY <5>1
      <4>2. u * a = u * b + u + u * d /\ u * d \in Nat /\ u * b \in Nat
        BY <4>1
      <4>. QED BY <4>2
    <3>. QED BY <3>1
  <2>5. u * q \in Nat /\ u * k \in Nat
    OBVIOUS
  <2>6. ~(q >= k + 1) /\ ~(k >= q + 1)
    BY <2>3, <2>4, <2>5
  <2>. QED BY <2>1, <2>6
<1>7. Nearest(n) = u * ((n + h) \div u)
  BY <1>1, <1>2 DEF Nearest
<1>. QED BY <1>4, <1>5, <1>6, <1>7

\* So a stored position is stored as it is.
LEMMA StoredIs ==
  ASSUME NEW s, s \in States(Strategy) \/ s \in Loose(Strategy) \cap Position
  PROVE  /\ s.cost \in Nat /\ Stored(Stored(s)) = Stored(s)
         /\ s \in Loose(Strategy) => Stored(s) \in Loose(Strategy) \cap Position
         /\ Presented(s) = s
<1>1. /\ s.cost \in Nat
      /\ s = [quantity |-> s.quantity, cost |-> s.cost, lots |-> s.lots, events |-> s.events]
  BY DEF States, Whole, Position, Failed
<1>2. PICK n \in Nat : n = Nearest(s.cost) /\ Nearest(n) = n
  BY <1>1, NearestIs
<1>3. Stored(s) = [quantity |-> s.quantity, cost |-> n, lots |-> s.lots, events |-> s.events]
  BY <1>1, <1>2 DEF Stored
<1>4. Stored(Stored(s)) = Stored(s)
  BY <1>2, <1>3 DEF Stored
<1>5. ASSUME s \in Loose(Strategy) PROVE Stored(s) \in Loose(Strategy) \cap Position
  <2>1. Stored(s) \in Rounded /\ Stored(s) \in Position
    BY <1>2, <1>3, <1>5 DEF Loose, Rounded, Position
  <2>2. Stored(s).quantity = s.quantity /\ Stored(s).lots = s.lots /\ Stored(s).cost >= 0
    BY <1>2, <1>3
  <2>. QED BY <1>5, <2>1, <2>2 DEF Loose
<1>6. Presented(s) = s
  BY <1>1 DEF Presented
<1>. QED BY <1>1, <1>4, <1>5, <1>6

-----------------------------------------------------------------------------
(* Types, and the calculators on every ledger that is reached *)

Row == Entry \cup {Unused, Deleted}

\* The positions that are shown and saved: the cost may have been rounded, and is none
\* below zero.
Kept == Loose(Strategy) \cap Position

TypeInv ==
  /\ ledger \in Ledger
  /\ opening \in Opening
  /\ checkpoint = NoCheckpoint \/
       checkpoint \in [last : 0..MaxTx, stamp : 0..MaxStamp, state : Kept]
  /\ write \in [Writer -> Request \cup {NoRequest}]
  /\ read \in [Reader -> {"idle", "ledger", "opening", "load", "save", "done"}]
  /\ seen \in [Reader -> Ledger]
  /\ seenOpening \in [Reader -> Opening]
  /\ answer \in [Reader -> Kept \cup {Failed, NoPosition}]
  /\ \A r \in Reader : read[r] = "save" => answer[r] \in Kept
  /\ restored \in BOOLEAN

\* An update of a row that is there leaves a row that is there.
LEMMA MergedRow ==
  ASSUME NEW old \in Row, old.kind \in Kind, NEW e \in Edit
  PROVE  Merged(old, e) \in Entry
<1>1. old \in Entry
  BY DEF Row, Unused, Deleted, Kind, Acquiring, Disposing
<1>2. /\ (IF e.kind = "keep" THEN old.kind ELSE e.kind) \in Kind
      /\ (IF e.amount = Keep THEN old.amount ELSE e.amount) \in Nat \ {0}
      /\ (IF e.price = Omitted THEN old.price ELSE e.price) \in Nat
      /\ (IF e.at = Keep THEN old.at ELSE e.at) \in Nat
  BY <1>1 DEF Entry, Edit, Keep, Omitted, Kind, Acquiring, Disposing
<1>3. QED
  BY <1>2 DEF Entry, Merged

\* So does a creation.
LEMMA RecordedRow ==
  ASSUME NEW offer \in Offer
  PROVE  Recorded(offer) \in Entry
<1>1. PICK price \in Nat : price = IF offer.kind \in Priced /\ offer.price # Omitted
                                  THEN offer.price ELSE NoPrice
  BY DEF Offer, Omitted, NoPrice
<1>2. Recorded(offer) = [kind |-> offer.kind, amount |-> offer.amount, price |-> price,
                         at |-> offer.at]
  BY <1>1 DEF Recorded, Offer
<1>. QED BY <1>2 DEF Offer, Entry

\* A row that is there is none of the others.
LEMMA EntryIsThere ==
  ASSUME NEW e \in Entry
  PROVE  e.kind \in Kind /\ e # Unused
  BY DEF Entry, Unused, Kind, Acquiring, Disposing

\* What a pending mutation carries.
LEMMA RequestData ==
  ASSUME NEW q \in Request \cup {NoRequest}
  PROVE  /\ q.op = "create" => q.data \in Offer
         /\ q.op = "update" => q.data \in Edit
  BY LedgerAssumption DEF Request, NoRequest

\* What a full replay is.
LEMMA ReplayIs ==
  ASSUME NEW L \in Ledger, NEW o \in Opening
  PROVE  Replay(L, o) \in States(Strategy)
<1>1. o.balance \in Balance /\ Strategy \in Strategies
  BY LedgerAssumption DEF Opening
<1>2. Start(Strategy, Opened(o.balance)) \in States(Strategy)
  BY <1>1, OpenedIs DEF States
<1>3. Suffix(L, 0) \in Seq(Entry)
  BY SuffixIs
<1>. QED BY <1>1, <1>2, <1>3, CalculatedSteps DEF Replay, Resume

\* What a request computes is a position, or the calculation fails.
LEMMA ComputedIs ==
  ASSUME NEW L \in Ledger, NEW o \in Opening, NEW cp,
         cp = NoCheckpoint \/ cp.state \in Kept
  PROVE  Presented(Computed(L, o, cp)) \in Kept \cup {Failed}
<1>1. Replay(L, o) \in LooseStates(Strategy)
  BY ReplayIs, WholeIsLoose
<1>2. ASSUME cp.state \in Kept, NEW n \in Nat
      PROVE  Resume(L, n, cp.state) \in LooseStates(Strategy)
  <2>1. cp.state \in Loose(Strategy) /\ Strategy \in Strategies
    BY <1>2, LedgerAssumption DEF Kept
  <2>2. Suffix(L, n) \in Seq(Entry)
    BY SuffixIs
  <2>. QED BY <2>1, <2>2, TakenUpLoosely DEF Resume
<1>3. SuffixStart(L, cp.last) \in Nat
  <2>1. {t \in Live(L) : ~Before(L, cp.last, t)} \in SUBSET Live(L)
    OBVIOUS
  <2>2. IsFiniteSet({t \in Live(L) : ~Before(L, cp.last, t)})
    BY <2>1, LiveRows, FS_Subset
  <2>. QED BY <2>2, FS_CardinalityType DEF SuffixStart
<1>4. Usable(L, o, cp) => cp.state \in Kept /\ cp.state \in LooseStates(Strategy)
  BY DEF Usable, Kept, LooseStates
<1>5. Computed(L, o, cp) \in LooseStates(Strategy)
  BY <1>1, <1>2, <1>3, <1>4 DEF Computed
<1>6. ASSUME NEW s \in LooseStates(Strategy) PROVE Presented(s) \in Kept \cup {Failed}
  <2>1. CASE s = Failed
    BY <2>1 DEF Presented, Failed
  <2>2. CASE s \in Loose(Strategy) /\ s.cost < 0
    BY <2>2 DEF Presented
  <2>3. CASE s \in Loose(Strategy) /\ ~(s.cost < 0)
    <3>1. s \in Position
      BY <2>3 DEF Loose, Rounded, Position
    <3>. QED BY <2>3, <3>1 DEF Presented, Kept
  <2>. QED BY <1>6, <2>1, <2>2, <2>3 DEF LooseStates
<1>. QED BY <1>5, <1>6

\* The rows before anything happens; no position is neither a position nor a failure.
LEMMA NoTypes ==
  /\ NoLedger \in Ledger /\ NoOpening \in Opening
  /\ NoPosition \notin Kept /\ Failed \notin Kept
<1>1. NoLedger \in Ledger
  BY DEF NoLedger, Ledger
<1>2. NoOpening \in Opening
  BY LedgerAssumption DEF NoOpening, Opening, Balance
<1>3. NoPosition.quantity = -2 /\ Failed.quantity = -1
  BY DEF NoPosition, Failed
<1>4. \A s \in Kept : s.quantity \in Nat
  BY PositionIs DEF Kept
<1>. QED BY <1>1, <1>2, <1>3, <1>4

\* The initial states are typed.
LEMMA TypeInvInit == Init => TypeInv
<1> SUFFICES ASSUME Init PROVE TypeInv
  OBVIOUS
<1>1. ledger \in Ledger /\ opening \in Opening /\ checkpoint = NoCheckpoint
  BY NoTypes DEF Init
<1>2. write \in [Writer -> Request \cup {NoRequest}]
  BY DEF Init
<1>3. /\ read \in [Reader -> {"idle", "ledger", "opening", "load", "save", "done"}]
      /\ \A r \in Reader : read[r] = "save" => answer[r] \in Kept
  BY DEF Init
<1>4. seen \in [Reader -> Ledger] /\ seenOpening \in [Reader -> Opening]
  BY NoTypes DEF Init
<1>5. answer \in [Reader -> Kept \cup {Failed, NoPosition}]
  BY DEF Init
<1>6. restored \in BOOLEAN
  BY DEF Init
<1>. QED BY <1>1, <1>2, <1>3, <1>4, <1>5, <1>6 DEF TypeInv

\* A writer's steps leave every request's reading alone.
LEMMA WriterKeepsTypes ==
  ASSUME TypeInv, UNCHANGED <<read, seen, seenOpening, answer>>,
         ledger' \in Ledger, opening' \in Opening,
         checkpoint' = checkpoint \/ checkpoint' = NoCheckpoint,
         write' \in [Writer -> Request \cup {NoRequest}], restored' \in BOOLEAN
  PROVE  TypeInv'
  BY DEF TypeInv

\* A P&L request's steps leave the tables alone.
LEMMA ReaderKeepsTypes ==
  ASSUME TypeInv, UNCHANGED <<ledger, opening, checkpoint, write, restored>>,
         read' \in [Reader -> {"idle", "ledger", "opening", "load", "save", "done"}],
         seen' \in [Reader -> Ledger], seenOpening' \in [Reader -> Opening],
         answer' \in [Reader -> Kept \cup {Failed, NoPosition}],
         \A r \in Reader : read'[r] = "save" => answer'[r] \in Kept
  PROVE  TypeInv'
  BY DEF TypeInv

\* Every step of a mutation keeps the types.
LEMMA WriterStepTypes ==
  ASSUME TypeInv, NEW w \in Writer, WriteNext(w)
  PROVE  TypeInv'
<1>0. /\ ledger \in Ledger /\ opening \in Opening /\ restored \in BOOLEAN
      /\ write \in [Writer -> Request \cup {NoRequest}]
  BY DEF TypeInv
<1>1. ASSUME NEW q \in Request, Validate(w, q) PROVE TypeInv'
  <2>1. write' \in [Writer -> Request \cup {NoRequest}]
    BY <1>0, <1>1 DEF Validate
  <2>. QED BY <1>0, <1>1, <2>1, WriterKeepsTypes DEF Validate, snap
<1>2. ASSUME NEW t \in Tx, CommitCreate(w, t) PROVE TypeInv'
  <2>1. Recorded(write[w].data) \in Entry
    BY <1>0, <1>2, RequestData, RecordedRow DEF CommitCreate
  <2>2. ledger' \in Ledger
    BY <1>0, <1>2, <2>1 DEF CommitCreate, Ledger
  <2>3. write' \in [Writer -> Request \cup {NoRequest}] /\ checkpoint' = NoCheckpoint
    BY <1>0, <1>2 DEF CommitCreate, Finish, Invalidated
  <2>. QED BY <1>0, <1>2, <2>2, <2>3, WriterKeepsTypes DEF CommitCreate, snap
<1>3. CASE CommitUpdate(w)
  <2>1. write[w].data \in Edit
    BY <1>0, <1>3, RequestData DEF CommitUpdate
  <2>2. ledger' \in Ledger
    <3>1. CASE write[w].tx \in Live(ledger)
      <4>1. ledger[write[w].tx] \in Row /\ ledger[write[w].tx].kind \in Kind
        BY <1>0, <3>1 DEF Live, Ledger, Row
      <4>2. Merged(ledger[write[w].tx], write[w].data) \in Row
        BY <2>1, <4>1, MergedRow DEF Row
      <4>. QED BY <1>0, <1>3, <3>1, <4>2 DEF CommitUpdate, Changed, Ledger, Row
    <3>2. CASE write[w].tx \notin Live(ledger)
      BY <1>0, <1>3, <3>2 DEF CommitUpdate, Changed
    <3>. QED BY <3>1, <3>2
  <2>3. write' \in [Writer -> Request \cup {NoRequest}] /\ checkpoint' = NoCheckpoint
    BY <1>0, <1>3 DEF CommitUpdate, Finish, Invalidated
  <2>4. restored' \in BOOLEAN
    BY <1>3 DEF CommitUpdate, Changed
  <2>. QED BY <1>0, <1>3, <2>2, <2>3, <2>4, WriterKeepsTypes DEF CommitUpdate, snap
<1>4. CASE CommitDelete(w)
  <2>1. ledger' \in Ledger
    BY <1>0, <1>4 DEF CommitDelete, Changed, Ledger
  <2>2. write' \in [Writer -> Request \cup {NoRequest}] /\ checkpoint' = NoCheckpoint
    BY <1>0, <1>4 DEF CommitDelete, Finish, Invalidated
  <2>3. restored' \in BOOLEAN
    BY <1>4 DEF CommitDelete, Changed
  <2>. QED BY <1>0, <1>4, <2>1, <2>2, <2>3, WriterKeepsTypes DEF CommitDelete, snap
<1>5. CASE CommitOpening(w)
  <2>1. write[w].data \in Balance
    BY <1>0, <1>5, LedgerAssumption DEF CommitOpening, Request, NoRequest
  <2>2. opening.stamp + 1 \in 0..MaxStamp
    BY <1>0, <1>5, LedgerAssumption DEF CommitOpening, Opening
  <2>3. opening' \in Opening
    BY <1>5, <2>1, <2>2 DEF CommitOpening, Opening
  <2>4. write' \in [Writer -> Request \cup {NoRequest}] /\ checkpoint' = NoCheckpoint
    BY <1>0, <1>5 DEF CommitOpening, Finish, Invalidated
  <2>. QED BY <1>0, <1>5, <2>3, <2>4, WriterKeepsTypes DEF CommitOpening, snap
<1>6. CASE Abandon(w)
  <2>1. write' \in [Writer -> Request \cup {NoRequest}]
    BY <1>0, <1>6 DEF Abandon
  <2>. QED BY <1>0, <1>6, <2>1, WriterKeepsTypes DEF Abandon, snap
<1>. QED BY <1>1, <1>2, <1>3, <1>4, <1>5, <1>6 DEF WriteNext

\* Every step of a P&L request keeps the types.
LEMMA ReaderStepTypes ==
  ASSUME TypeInv, NEW r \in Reader, ReadNext(r)
  PROVE  TypeInv'
<1>0. /\ ledger \in Ledger /\ opening \in Opening
      /\ read \in [Reader -> {"idle", "ledger", "opening", "load", "save", "done"}]
      /\ seen \in [Reader -> Ledger] /\ seenOpening \in [Reader -> Opening]
      /\ answer \in [Reader -> Kept \cup {Failed, NoPosition}]
      /\ \A o \in Reader : read[o] = "save" => answer[o] \in Kept
      /\ checkpoint = NoCheckpoint \/
           checkpoint \in [last : 0..MaxTx, stamp : 0..MaxStamp, state : Kept]
  BY DEF TypeInv
<1>1. CASE ReadLedger(r)
  <2>1. seen' \in [Reader -> Ledger]
    BY <1>0, <1>1 DEF ReadLedger
  <2>2. read' \in [Reader -> {"idle", "ledger", "opening", "load", "save", "done"}]
    BY <1>0, <1>1 DEF ReadLedger, Goto
  <2>3. \A o \in Reader : read'[o] = "save" => answer'[o] \in Kept
    BY <1>0, <1>1 DEF ReadLedger, Goto
  <2>. QED BY <1>0, <1>1, <2>1, <2>2, <2>3, ReaderKeepsTypes DEF ReadLedger
<1>2. CASE ReadOpening(r)
  <2>1. seenOpening' \in [Reader -> Opening]
    BY <1>0, <1>2 DEF ReadOpening
  <2>2. read' \in [Reader -> {"idle", "ledger", "opening", "load", "save", "done"}]
    BY <1>0, <1>2 DEF ReadOpening, Goto
  <2>3. \A o \in Reader : read'[o] = "save" => answer'[o] \in Kept
    BY <1>0, <1>2 DEF ReadOpening, Goto
  <2>. QED BY <1>0, <1>2, <2>1, <2>2, <2>3, ReaderKeepsTypes DEF ReadOpening
<1>3. CASE Load(r)
  <2>1. PICK result : result = IF NoGroup(r) THEN NoPosition
                               ELSE Presented(Computed(seen[r], seenOpening[r], checkpoint))
    OBVIOUS
  <2>2. Presented(Computed(seen[r], seenOpening[r], checkpoint)) \in Kept \cup {Failed}
    BY <1>0, ComputedIs
  <2>3. result \in Kept \cup {Failed, NoPosition}
    BY <2>1, <2>2
  <2>4. answer' = [answer EXCEPT ![r] = result]
    BY <1>3, <2>1 DEF Load
  <2>5. answer' \in [Reader -> Kept \cup {Failed, NoPosition}]
    BY <1>0, <2>3, <2>4
  <2>6. CASE Live(seen[r]) = {} \/ result = Failed
    <3>1. /\ read' = [read EXCEPT ![r] = "done"]
          /\ seen' = [seen EXCEPT ![r] = NoLedger]
          /\ seenOpening' = [seenOpening EXCEPT ![r] = NoOpening]
      BY <1>3, <2>1, <2>6 DEF Load, Goto, Forget
    <3>2. seen' \in [Reader -> Ledger] /\ seenOpening' \in [Reader -> Opening]
      BY <1>0, <3>1, NoTypes
    <3>3. read' \in [Reader -> {"idle", "ledger", "opening", "load", "save", "done"}]
      BY <1>0, <3>1
    <3>4. \A o \in Reader : read'[o] = "save" => answer'[o] \in Kept
      BY <1>0, <2>4, <3>1
    <3>. QED BY <1>3, <2>5, <3>2, <3>3, <3>4, ReaderKeepsTypes DEF Load
  <2>7. CASE ~(Live(seen[r]) = {} \/ result = Failed)
    <3>1. read' = [read EXCEPT ![r] = "save"] /\ UNCHANGED <<seen, seenOpening>>
      BY <1>3, <2>1, <2>7 DEF Load, Goto, snap
    <3>2. result \in Kept
      BY <2>1, <2>2, <2>7 DEF NoGroup
    <3>3. read' \in [Reader -> {"idle", "ledger", "opening", "load", "save", "done"}]
      BY <1>0, <3>1
    <3>4. \A o \in Reader : read'[o] = "save" => answer'[o] \in Kept
      BY <1>0, <2>4, <3>1, <3>2
    <3>. QED BY <1>0, <1>3, <2>5, <3>1, <3>3, <3>4, ReaderKeepsTypes DEF Load
  <2>. QED BY <2>6, <2>7
<1>4. ASSUME Respond(r)
      PROVE  /\ seen' \in [Reader -> Ledger] /\ seenOpening' \in [Reader -> Opening]
             /\ read' \in [Reader -> {"idle", "ledger", "opening", "load", "save", "done"}]
             /\ answer' \in [Reader -> Kept \cup {Failed, NoPosition}]
             /\ \A o \in Reader : read'[o] = "save" => answer'[o] \in Kept
  <2>1. seen' \in [Reader -> Ledger] /\ seenOpening' \in [Reader -> Opening]
    BY <1>0, <1>4, NoTypes DEF Respond, Forget
  <2>2. read' \in [Reader -> {"idle", "ledger", "opening", "load", "save", "done"}]
    BY <1>0, <1>4 DEF Respond, Goto
  <2>3. answer' \in [Reader -> Kept \cup {Failed, NoPosition}]
    BY <1>0, <1>4 DEF Respond
  <2>4. \A o \in Reader : read'[o] = "save" => answer'[o] \in Kept
    BY <1>0, <1>4 DEF Respond, Goto
  <2>. QED BY <2>1, <2>2, <2>3, <2>4
<1>5. ASSUME NEW t \in Tx, Save(r, t) PROVE TypeInv'
  <2>1. Respond(r) /\ UNCHANGED <<ledger, opening, write, restored>>
    BY <1>5 DEF Save
  <2>2. checkpoint' \in [last : 0..MaxTx, stamp : 0..MaxStamp, state : Kept]
    <3>1. t \in 0..MaxTx
      BY LedgerAssumption DEF Tx
    <3>2. seenOpening[r].stamp \in 0..MaxStamp
      BY <1>0 DEF Opening
    <3>3. Stored(answer[r]) \in Kept
      BY <1>0, <1>5, StoredIs DEF Save, Kept
    <3>. QED BY <1>5, <3>1, <3>2, <3>3 DEF Save
  <2>. QED BY <1>4, <2>1, <2>2 DEF TypeInv
<1>6. CASE SkipSave(r)
  BY <1>4, <1>6, ReaderKeepsTypes DEF SkipSave
<1>. QED BY <1>1, <1>2, <1>3, <1>5, <1>6 DEF ReadNext

\* So does every step.
LEMMA TypeInvStep == TypeInv /\ [Next]_vars => TypeInv'
<1> SUFFICES ASSUME TypeInv, [Next]_vars PROVE TypeInv'
  OBVIOUS
<1>1. ASSUME NEW w \in Writer, WriteNext(w) PROVE TypeInv'
  BY <1>1, WriterStepTypes
<1>2. ASSUME NEW r \in Reader, ReadNext(r) PROVE TypeInv'
  BY <1>2, ReaderStepTypes
<1>3. CASE UNCHANGED vars
  BY <1>3 DEF TypeInv, vars, snap
<1>. QED BY <1>1, <1>2, <1>3 DEF Next

\* The types hold throughout.
LEMMA TypeInvHolds == Spec => []TypeInv
  BY TypeInvInit, TypeInvStep, PTL DEF Spec

\* Rows, requests and answers are what they should be; above all a computed position is
\* a position or a failure, never a negative quantity or cost.
THEOREM TypeCorrect == Spec => []TypeOK
<1>1. TypeInv => TypeOK
  <2> SUFFICES ASSUME TypeInv PROVE TypeOK
    OBVIOUS
  <2>1. Kept \subseteq Position
    BY DEF Kept
  <2>2. checkpoint \in [last : 0..MaxTx, stamp : 0..MaxStamp, state : Position \cup {NoPosition}]
    <3>1. NoCheckpoint \in [last : 0..MaxTx, stamp : 0..MaxStamp, state : Position \cup {NoPosition}]
      BY LedgerAssumption DEF NoCheckpoint
    <3>. QED BY <2>1, <3>1 DEF TypeInv
  <2>3. answer \in [Reader -> Position \cup {NoPosition, Failed}]
    BY <2>1 DEF TypeInv
  <2>. QED BY <2>2, <2>3 DEF TypeInv, TypeOK
<1>. QED BY <1>1, TypeInvHolds, PTL

\* On every ledger that is reached and on its continuations, resuming from any state is
\* exact, the quantity is that of the holdings, lots leave in their order and at their
\* cost, and the profit in all does not depend on the strategy.
THEOREM CalculatorsStaySound == Spec => []CalculatorsSound
<1>1. TypeInv => CalculatorsSound
  <2> SUFFICES ASSUME TypeInv, NEW entry \in Further,
                      NEW txs, txs = Append(Suffix(ledger, 0), entry),
                      NEW balance, balance = opening.balance
               PROVE  /\ \A s \in Strategies :
                           /\ Resumable(s, balance, txs)
                           /\ QuantityAgrees(s, balance, txs)
                           /\ UnitsAreRight(s, balance, txs)
                      /\ ProfitAgrees(balance, txs)
    BY DEF CalculatorsSound
  <2>1. balance \in Balance
    BY DEF TypeInv, Opening
  <2>2. Suffix(ledger, 0) \in Seq(Entry) /\ entry \in Entry
    BY SuffixIs, LedgerAssumption DEF TypeInv
  <2>3. txs \in Seq(Entry)
    BY <2>2, AppendProperties
  <2>. QED BY <2>1, <2>3, CalculatorsAgree
<1>. QED BY <1>1, TypeInvHolds, PTL

-----------------------------------------------------------------------------
(* Checkpoints and answers *)

\* An opening balance that was read and has the present stamp is the present one.
OpeningSeen ==
  /\ opening.stamp = 0 => opening = NoOpening
  /\ \A r \in Reader :
       /\ seenOpening[r].stamp <= opening.stamp
       /\ seenOpening[r].stamp = opening.stamp => seenOpening[r] = opening

\* A row that was read was created: its id is not given out again.
IdsAreNew == \A r \in Reader, t \in Tx : ledger[t] = Unused => seen[r][t] = Unused

\* A computed position is, as it would be stored, the full replay of the present ledger
\* if that is what was read, unless what was read was brought back since.
AnswerMatches ==
  ~restored => \A r \in Reader : read[r] = "save" /\ LedgerMatches(r) =>
    Stored(answer[r]) = Stored(Replay(ledger, opening))

IInv ==
  /\ TypeInv
  /\ CheckpointCurrent
  /\ OpeningSeen
  /\ IdsAreNew
  /\ AnswerMatches
  /\ CheckpointFaithful

\* The initial states satisfy the inductive invariant.
LEMMA InitIInv == Init => IInv
<1> SUFFICES ASSUME Init PROVE IInv
  OBVIOUS
<1>1. TypeInv
  BY TypeInvInit
<1>2. CheckpointCurrent /\ CheckpointFaithful
  BY DEF Init, CheckpointCurrent, CheckpointFaithful
<1>3. OpeningSeen
  BY DEF Init, OpeningSeen, NoOpening
<1>4. IdsAreNew
  BY DEF Init, IdsAreNew, NoLedger
<1>5. AnswerMatches
  BY DEF Init, AnswerMatches
<1>. QED BY <1>1, <1>2, <1>3, <1>4, <1>5 DEF IInv

\* A step that changes no row, no opening balance and no request's reading.
LEMMA NothingRead ==
  ASSUME IInv, TypeInv', UNCHANGED <<ledger, opening, checkpoint, read, seen, seenOpening, answer, restored>>
  PROVE  IInv'
<1>1. CheckpointCurrent' /\ CheckpointFaithful' /\ OpeningSeen' /\ IdsAreNew'
  BY DEF IInv, CheckpointCurrent, CheckpointFaithful, OpeningSeen, IdsAreNew
<1>2. AnswerMatches'
  BY DEF IInv, AnswerMatches, LedgerMatches, Matches
<1>. QED BY <1>1, <1>2 DEF IInv

\* A creation is seen by no request that is running.
LEMMA CommitCreateIInv ==
  ASSUME IInv, TypeInv', NEW w \in Writer, NEW t \in Tx, CommitCreate(w, t)
  PROVE  IInv'
<1>0. /\ TypeInv /\ UNCHANGED <<opening, read, seen, seenOpening, answer, restored>>
      /\ checkpoint' = NoCheckpoint /\ ledger[t] = Unused
      /\ ledger' = [ledger EXCEPT ![t] = Recorded(write[w].data)]
  BY DEF IInv, CommitCreate, Finish, Invalidated, snap
<1>1. CheckpointCurrent' /\ CheckpointFaithful'
  BY <1>0 DEF CheckpointCurrent, CheckpointFaithful
<1>2. OpeningSeen'
  BY <1>0 DEF IInv, OpeningSeen
<1>3. ledger \in Ledger /\ ledger' \in Ledger
  BY <1>0 DEF TypeInv
<1>4. ledger'[t].kind \in Kind /\ ledger'[t] # Unused
  <2>1. write[w].data \in Offer
    BY <1>0, RequestData DEF TypeInv, CommitCreate
  <2>2. Recorded(write[w].data) \in Entry
    BY <2>1, RecordedRow
  <2>. QED BY <1>0, <1>3, <2>2, EntryIsThere DEF Ledger
<1>5. IdsAreNew'
  BY <1>0, <1>3, <1>4 DEF IInv, IdsAreNew, Ledger
<1>6. AnswerMatches'
  <2> SUFFICES ASSUME NEW q \in Reader, LedgerMatches(q)' PROVE FALSE
    BY DEF AnswerMatches
  <2>1. seen[q][t] = Unused
    BY <1>0 DEF IInv, IdsAreNew
  <2>2. t \notin Live(seen[q])
    BY <2>1 DEF Live, Unused, Kind, Acquiring, Disposing
  <2>3. t \in Live(ledger')
    BY <1>4 DEF Live
  <2>4. Rows(ledger') = Rows(seen[q])
    BY <1>0 DEF LedgerMatches, Matches
  <2>. QED BY <2>2, <2>3, <2>4 DEF Rows
<1>. QED BY <1>1, <1>2, <1>5, <1>6 DEF IInv

\* A row that is edited or deleted under a request no longer compares equal, or what the
\* request read is brought back.
LEMMA ChangedIInv ==
  ASSUME IInv, TypeInv', NEW t \in Tx, NEW entry, Changed(t, entry),
         t \in Live(ledger) => entry # Unused,
         checkpoint' = NoCheckpoint, UNCHANGED <<opening, read, seen, seenOpening, answer>>
  PROVE  IInv'
<1>0. /\ TypeInv /\ ledger \in Ledger /\ ledger' \in Ledger
      /\ ledger' = IF t \in Live(ledger) THEN [ledger EXCEPT ![t] = entry] ELSE ledger
      /\ restored' = (restored \/ BringsBack(ledger'))
  BY DEF IInv, TypeInv, Changed
<1>1. CheckpointCurrent' /\ CheckpointFaithful'
  BY DEF CheckpointCurrent, CheckpointFaithful
<1>2. OpeningSeen'
  BY DEF IInv, OpeningSeen
<1>3. IdsAreNew'
  BY <1>0 DEF IInv, IdsAreNew, Ledger
<1>4. AnswerMatches'
  <2> SUFFICES ASSUME ~restored', NEW q \in Reader, read[q] = "save", LedgerMatches(q)'
               PROVE  Stored(answer[q]) = Stored(Replay(ledger', opening))
    BY DEF AnswerMatches
  <2>1. ~restored /\ ~BringsBack(ledger')
    BY <1>0
  <2>2. Rows(ledger') = Rows(seen[q]) /\ opening.stamp = seenOpening[q].stamp
    BY DEF LedgerMatches, Matches
  <2>3. Matches(q, ledger)
    BY <2>1, <2>2 DEF BringsBack, Matches
  <2>4. Stored(answer[q]) = Stored(Replay(ledger, opening))
    BY <2>1, <2>3 DEF IInv, AnswerMatches, LedgerMatches
  <2>5. Rows(ledger) = Rows(ledger')
    BY <2>2, <2>3 DEF Matches
  <2>6. Replay(ledger, opening) = Replay(ledger', opening)
    BY <1>0, <2>5, SameRows
  <2>. QED BY <2>4, <2>6
<1>. QED BY <1>1, <1>2, <1>3, <1>4 DEF IInv

\* A new opening balance has a stamp that no request has seen.
LEMMA CommitOpeningIInv ==
  ASSUME IInv, TypeInv', NEW w \in Writer, CommitOpening(w)
  PROVE  IInv'
<1>0. /\ TypeInv /\ UNCHANGED <<ledger, read, seen, seenOpening, answer, restored>>
      /\ checkpoint' = NoCheckpoint
      /\ opening'.stamp = opening.stamp + 1 /\ opening.stamp \in Nat
      /\ \A r \in Reader : seenOpening[r].stamp \in Nat
  BY LedgerAssumption DEF IInv, TypeInv, Opening, CommitOpening, Finish, Invalidated, snap
<1>1. CheckpointCurrent' /\ CheckpointFaithful' /\ IdsAreNew'
  BY <1>0 DEF IInv, CheckpointCurrent, CheckpointFaithful, IdsAreNew
<1>2. \A r \in Reader : seenOpening[r].stamp < opening'.stamp
  BY <1>0 DEF IInv, OpeningSeen
<1>3. OpeningSeen'
  BY <1>0, <1>2 DEF OpeningSeen
<1>4. AnswerMatches'
  BY <1>0, <1>2 DEF AnswerMatches, LedgerMatches, Matches
<1>. QED BY <1>1, <1>3, <1>4 DEF IInv

\* Every step of a mutation preserves the inductive invariant.
LEMMA WriterStepIInv ==
  ASSUME IInv, TypeInv', NEW w \in Writer, WriteNext(w)
  PROVE  IInv'
<1>0. TypeInv /\ write \in [Writer -> Request \cup {NoRequest}] /\ ledger \in Ledger
  BY DEF IInv, TypeInv
<1>1. ASSUME NEW q \in Request, Validate(w, q) PROVE IInv'
  BY <1>1, NothingRead DEF Validate, snap
<1>2. ASSUME NEW t \in Tx, CommitCreate(w, t) PROVE IInv'
  BY <1>2, CommitCreateIInv
<1>3. CASE CommitUpdate(w)
  <2>1. write[w].data \in Edit /\ write[w].tx \in Tx
    BY <1>0, <1>3, RequestData DEF CommitUpdate, Request, NoRequest
  <2>2. PICK entry : entry = Merged(ledger[write[w].tx], write[w].data)
    OBVIOUS
  <2>3. ASSUME write[w].tx \in Live(ledger) PROVE entry # Unused
    <3>1. ledger[write[w].tx] \in Row /\ ledger[write[w].tx].kind \in Kind
      BY <1>0, <2>3 DEF Live, Ledger, Row
    <3>. QED BY <2>1, <2>2, <3>1, MergedRow, EntryIsThere
  <2>4. /\ checkpoint' = NoCheckpoint /\ UNCHANGED <<opening, read, seen, seenOpening, answer>>
        /\ Changed(write[w].tx, entry)
    BY <1>3, <2>2 DEF CommitUpdate, Finish, Invalidated, snap
  <2>. QED BY <2>1, <2>3, <2>4, ChangedIInv
<1>4. CASE CommitDelete(w)
  <2>1. write[w].tx \in Tx
    BY <1>0, <1>4 DEF CommitDelete, Request, NoRequest
  <2>2. Deleted # Unused
    BY DEF Deleted, Unused
  <2>3. /\ checkpoint' = NoCheckpoint /\ UNCHANGED <<opening, read, seen, seenOpening, answer>>
        /\ Changed(write[w].tx, Deleted)
    BY <1>4 DEF CommitDelete, Finish, Invalidated, snap
  <2>. QED BY <2>1, <2>2, <2>3, ChangedIInv
<1>5. CASE CommitOpening(w)
  BY <1>5, CommitOpeningIInv
<1>6. CASE Abandon(w)
  BY <1>6, NothingRead DEF Abandon, snap
<1>. QED BY <1>1, <1>2, <1>3, <1>4, <1>5, <1>6 DEF WriteNext

\* What a request has at hand concerns nobody else.
LEMMA OthersMatch ==
  ASSUME IInv, NEW r \in Reader, NEW q \in Reader, q # r,
         UNCHANGED <<ledger, opening, restored>>, ~restored,
         read'[q] = read[q], seen'[q] = seen[q], seenOpening'[q] = seenOpening[q],
         answer'[q] = answer[q], read'[q] = "save", LedgerMatches(q)'
  PROVE  Stored(answer'[q]) = Stored(Replay(ledger, opening))
<1>1. LedgerMatches(q)
  BY DEF LedgerMatches, Matches
<1>2. \A o \in Reader : read[o] = "save" /\ LedgerMatches(o) =>
        Stored(answer[o]) = Stored(Replay(ledger, opening))
  BY DEF IInv, AnswerMatches
<1>3. read[q] = "save"
  OBVIOUS
<1>4. Stored(answer[q]) = Stored(Replay(ledger, opening))
  BY <1>1, <1>2, <1>3
<1>. QED BY <1>4

\* Reading leaves nothing computed.
LEMMA ReadIInv ==
  ASSUME IInv, TypeInv', NEW r \in Reader, ReadLedger(r) \/ ReadOpening(r)
  PROVE  IInv'
<1>0. /\ TypeInv /\ UNCHANGED <<ledger, opening, checkpoint, answer, restored>>
      /\ read'[r] # "save"
      /\ seen'[r] \in {seen[r], ledger} /\ seenOpening'[r] \in {seenOpening[r], opening}
      /\ \A q \in Reader \ {r} : /\ read'[q] = read[q] /\ seen'[q] = seen[q]
                                 /\ seenOpening'[q] = seenOpening[q]
  BY DEF IInv, TypeInv, ReadLedger, ReadOpening, Goto
<1>1. CheckpointCurrent' /\ CheckpointFaithful'
  BY <1>0 DEF IInv, CheckpointCurrent, CheckpointFaithful
<1>2. OpeningSeen'
  <2>1. opening.stamp \in Nat
    BY <1>0, LedgerAssumption DEF TypeInv, Opening
  <2>. QED BY <1>0, <2>1 DEF IInv, OpeningSeen
<1>3. IdsAreNew'
  BY <1>0 DEF IInv, IdsAreNew
<1>4. AnswerMatches'
  BY <1>0, OthersMatch DEF AnswerMatches
<1>. QED BY <1>1, <1>2, <1>3, <1>4 DEF IInv

\* What a checkpoint gives to a request that nothing overtook is the present position.
LEMMA FromCheckpoint ==
  ASSUME IInv, ~restored, NEW L \in Ledger, NEW o \in Opening,
         Usable(L, o, checkpoint),
         \A t \in Live(L) : ~Before(L, checkpoint.last, t)
  PROVE  Computed(L, o, checkpoint) = Stored(Replay(ledger, opening))
<1>1. checkpoint # NoCheckpoint /\ checkpoint.state = Stored(Replay(ledger, opening))
  BY DEF IInv, Usable, CheckpointFaithful
<1>2. SuffixStart(L, checkpoint.last) = Cardinality(Live(L))
  BY AnchoredAtEnd
<1>. QED BY <1>1, <1>2 DEF Computed

\* The request computes from what it read.
LEMMA LoadIInv ==
  ASSUME IInv, TypeInv', NEW r \in Reader, Load(r)
  PROVE  IInv'
<1>0. /\ TypeInv /\ UNCHANGED <<ledger, opening, checkpoint, restored>>
      /\ ledger \in Ledger /\ opening \in Opening /\ seen[r] \in Ledger
      /\ seenOpening[r] \in Opening
      /\ \A q \in Reader \ {r} : /\ read'[q] = read[q] /\ seen'[q] = seen[q]
                                 /\ seenOpening'[q] = seenOpening[q] /\ answer'[q] = answer[q]
  BY DEF IInv, TypeInv, Load, Goto, Forget, snap
<1>1. CheckpointCurrent' /\ CheckpointFaithful'
  BY <1>0 DEF IInv, CheckpointCurrent, CheckpointFaithful
<1>a. seen'[r] \in {seen[r], NoLedger} /\ seenOpening'[r] \in {seenOpening[r], NoOpening}
  BY <1>0 DEF TypeInv, Load, Forget, snap
<1>2. OpeningSeen'
  <2>1. opening.stamp \in Nat /\ NoOpening.stamp = 0
    BY <1>0, LedgerAssumption DEF Opening, NoOpening
  <2>. QED BY <1>0, <1>a, <2>1 DEF IInv, OpeningSeen
<1>3. IdsAreNew'
  BY <1>0, <1>a DEF IInv, IdsAreNew, NoLedger
<1>4. ASSUME ~restored, read'[r] = "save", LedgerMatches(r)'
      PROVE  Stored(answer'[r]) = Stored(Replay(ledger, opening))
  <2>1. PICK s : s = Computed(seen[r], seenOpening[r], checkpoint)
    OBVIOUS
  <2>2. /\ Live(seen[r]) # {} /\ answer'[r] = Presented(s) /\ Presented(s) # Failed
        /\ seen'[r] = seen[r] /\ seenOpening'[r] = seenOpening[r]
    BY <1>0, <1>4, <2>1 DEF TypeInv, Load, Goto, NoGroup, snap
  <2>3. answer'[r] = s
    BY <2>2 DEF Presented
  <2>4. Rows(seen[r]) = Rows(ledger) /\ seenOpening[r] = opening
    BY <1>0, <1>4, <2>2 DEF LedgerMatches, Matches, IInv, OpeningSeen
  <2>5. /\ Live(seen[r]) = Live(ledger) /\ Replay(seen[r], opening) = Replay(ledger, opening)
        /\ \A last \in Live(seen[r]) : IsLast(seen[r], last) <=> IsLast(ledger, last)
    BY <1>0, <2>4, SameRows
  <2>6. CASE ~Usable(seen[r], seenOpening[r], checkpoint)
    BY <2>1, <2>3, <2>4, <2>5, <2>6 DEF Computed
  <2>7. CASE Usable(seen[r], seenOpening[r], checkpoint)
    <3>1. IsLast(seen[r], checkpoint.last)
      BY <2>5, <2>7 DEF Usable, IInv, CheckpointCurrent
    <3>2. \A t \in Live(seen[r]) : ~Before(seen[r], checkpoint.last, t)
      BY <1>0, <3>1, LastIsLast
    <3>3. s = Stored(Replay(ledger, opening))
      BY <1>0, <1>4, <2>1, <2>7, <3>2, FromCheckpoint
    <3>4. Replay(ledger, opening) \in States(Strategy)
      BY <1>0, ReplayIs
    <3>. QED BY <2>3, <3>3, <3>4, StoredIs
  <2>. QED BY <2>6, <2>7
<1>5. AnswerMatches'
  BY <1>0, <1>4, OthersMatch DEF AnswerMatches
<1>. QED BY <1>1, <1>2, <1>3, <1>5 DEF IInv

\* A request that ends has nothing at hand.
LEMMA RespondIInv ==
  ASSUME IInv, NEW r \in Reader, Respond(r), UNCHANGED <<ledger, opening, restored>>
  PROVE  OpeningSeen' /\ IdsAreNew' /\ AnswerMatches'
<1>0. /\ TypeInv /\ read'[r] # "save" /\ seen'[r] = NoLedger /\ seenOpening'[r] = NoOpening
      /\ \A q \in Reader \ {r} : /\ read'[q] = read[q] /\ seen'[q] = seen[q]
                                 /\ seenOpening'[q] = seenOpening[q] /\ answer'[q] = answer[q]
  BY DEF IInv, TypeInv, Respond, Goto, Forget
<1>1. OpeningSeen'
  <2>1. opening.stamp \in Nat /\ NoOpening.stamp = 0
    BY <1>0, LedgerAssumption DEF TypeInv, Opening, NoOpening
  <2>. QED BY <1>0, <2>1 DEF IInv, OpeningSeen
<1>2. IdsAreNew'
  BY <1>0 DEF IInv, IdsAreNew, NoLedger
<1>3. AnswerMatches'
  BY <1>0, OthersMatch DEF AnswerMatches
<1>. QED BY <1>1, <1>2, <1>3

\* A checkpoint is saved of the ledger that still reads as it did.
LEMMA SaveIInv ==
  ASSUME IInv, TypeInv', NEW r \in Reader, NEW t \in Tx, Save(r, t)
  PROVE  IInv'
<1>0. /\ TypeInv /\ ledger \in Ledger /\ seen[r] \in Ledger /\ LedgerMatches(r)
      /\ read[r] = "save" /\ IsLast(seen[r], t) /\ Respond(r)
      /\ UNCHANGED <<ledger, opening, restored>>
      /\ checkpoint' = [last |-> t, stamp |-> seenOpening[r].stamp, state |-> Stored(answer[r])]
  BY DEF IInv, TypeInv, Save
<1>1. CheckpointCurrent'
  <2>1. Rows(ledger) = Rows(seen[r]) /\ opening.stamp = seenOpening[r].stamp
    BY <1>0 DEF LedgerMatches, Matches
  <2>2. IsLast(ledger, t)
    <3>1. t \in Live(seen[r])
      BY <1>0 DEF IsLast
    <3>. QED BY <1>0, <2>1, <3>1, SameRows
  <2>. QED BY <1>0, <2>1, <2>2 DEF CheckpointCurrent
<1>2. CheckpointFaithful'
  BY <1>0 DEF IInv, AnswerMatches, CheckpointFaithful
<1>. QED BY <1>0, <1>1, <1>2, RespondIInv DEF IInv

\* Every step of a P&L request preserves the inductive invariant.
LEMMA ReaderStepIInv ==
  ASSUME IInv, TypeInv', NEW r \in Reader, ReadNext(r)
  PROVE  IInv'
<1>1. CASE ReadLedger(r) \/ ReadOpening(r)
  BY <1>1, ReadIInv
<1>2. CASE Load(r)
  BY <1>2, LoadIInv
<1>3. ASSUME NEW t \in Tx, Save(r, t) PROVE IInv'
  BY <1>3, SaveIInv
<1>4. CASE SkipSave(r)
  <2>1. OpeningSeen' /\ IdsAreNew' /\ AnswerMatches'
    BY <1>4, RespondIInv DEF SkipSave
  <2>2. CheckpointCurrent' /\ CheckpointFaithful'
    BY <1>4 DEF SkipSave, IInv, CheckpointCurrent, CheckpointFaithful
  <2>. QED BY <2>1, <2>2 DEF IInv
<1>. QED BY <1>1, <1>2, <1>3, <1>4 DEF ReadNext

\* So does every step.
LEMMA NextIInv == IInv /\ [Next]_vars => IInv'
<1> SUFFICES ASSUME IInv, [Next]_vars PROVE IInv'
  OBVIOUS
<1>0. TypeInv'
  BY TypeInvStep DEF IInv
<1>1. ASSUME NEW w \in Writer, WriteNext(w) PROVE IInv'
  BY <1>0, <1>1, WriterStepIInv
<1>2. ASSUME NEW r \in Reader, ReadNext(r) PROVE IInv'
  BY <1>0, <1>2, ReaderStepIInv
<1>3. CASE UNCHANGED vars
  BY <1>0, <1>3, NothingRead DEF vars, snap
<1>. QED BY <1>1, <1>2, <1>3 DEF Next

\* The inductive invariant holds throughout.
THEOREM Invariance == Spec => []IInv
<1>1. Init => IInv
  BY InitIInv
<1>2. IInv /\ [Next]_vars => IInv'
  BY NextIInv
<1>. QED BY <1>1, <1>2, PTL DEF Spec

\* No mutation is missing from a saved checkpoint, and its state is the full replay, as
\* the column holds it, whatever was edited and deleted while it was computed, unless
\* what a request had read was brought back under it.
THEOREM CheckpointsSound == Spec => []CheckpointSound
<1>1. IInv => CheckpointSound
  BY DEF IInv, CheckpointSound
<1>. QED BY <1>1, Invariance, PTL

\* Only the step that loads the checkpoint leaves the label "load".
LEMMA LeavesLoad ==
  ASSUME IInv, [Next]_vars, NEW r \in Reader, read[r] = "load", read'[r] # "load"
  PROVE  Load(r)
<1>1. ASSUME NEW w \in Writer, WriteNext(w) PROVE read' = read
  BY <1>1 DEF WriteNext, Validate, CommitCreate, CommitUpdate, CommitDelete,
     CommitOpening, Abandon
<1>2. ASSUME NEW q \in Reader, ReadNext(q), q # r PROVE read'[r] = read[r]
  BY <1>2 DEF ReadNext, ReadLedger, ReadOpening, Load, Save, SkipSave, Respond, Goto,
     IInv, TypeInv
<1>3. ASSUME ReadNext(r) PROVE Load(r)
  BY <1>3 DEF ReadNext, ReadLedger, ReadOpening, Save, SkipSave
<1>. QED BY <1>1, <1>2, <1>3 DEF Next, vars

\* Unless it was overtaken, a request computes the position of what it read or of the
\* present ledger.
LEMMA ComputedFromOneLedger ==
  ASSUME IInv, ~restored, NEW r \in Reader, ~Overtaken(r)
  PROVE  Presented(Computed(seen[r], seenOpening[r], checkpoint))
           \in {Replay(seen[r], seenOpening[r]), Stored(Replay(ledger, opening))}
<1>0. /\ seen[r] \in Ledger /\ seenOpening[r] \in Opening
      /\ checkpoint = NoCheckpoint \/ checkpoint.state \in Kept
  BY DEF IInv, TypeInv
<1>1. CASE ~Usable(seen[r], seenOpening[r], checkpoint)
  <2>1. Replay(seen[r], seenOpening[r]) \in States(Strategy)
    BY <1>0, ReplayIs
  <2>2. Presented(Replay(seen[r], seenOpening[r])) = Replay(seen[r], seenOpening[r])
    BY <2>1, StoredIs
  <2>. QED BY <1>1, <2>2 DEF Computed
<1>2. CASE Usable(seen[r], seenOpening[r], checkpoint)
  <2>1. IsLast(ledger, checkpoint.last) /\ checkpoint.last \in Live(seen[r])
    BY <1>2 DEF IInv, Usable, CheckpointCurrent
  <2>2. \A t \in Live(seen[r]) : ~Before(seen[r], checkpoint.last, t)
    BY <2>1 DEF Overtaken
  <2>3. Computed(seen[r], seenOpening[r], checkpoint) = Stored(Replay(ledger, opening))
    BY <1>0, <1>2, <2>2, FromCheckpoint
  <2>4. checkpoint.state = Stored(Replay(ledger, opening)) /\ checkpoint.state \in Kept
    BY <1>0, <1>2 DEF IInv, Usable, CheckpointFaithful
  <2>5. Presented(checkpoint.state) = checkpoint.state
    BY <2>4, StoredIs DEF Kept
  <2>. QED BY <2>3, <2>4, <2>5
<1>. QED BY <1>1, <1>2

\* Every answer is the position of one ledger, also when rows are edited and deleted
\* under the request: unless it was overtaken, or what was read was brought back, it
\* continues no checkpoint with transactions that do not belong after it.
THEOREM AnswersAreOfOneLedger == Spec => AnswersFromOneLedger
<1>1. ASSUME IInv, [Next]_vars, NEW r \in Reader, read[r] = "load", read'[r] # "load",
             ~NoGroup(r), ~restored, ~Overtaken(r)
      PROVE  answer'[r] \in {Replay(seen[r], seenOpening[r]), Stored(Replay(ledger, opening))}
  <2>1. Load(r)
    BY <1>1, LeavesLoad
  <2>2. answer'[r] = Presented(Computed(seen[r], seenOpening[r], checkpoint))
    BY <1>1, <2>1 DEF Load, IInv, TypeInv
  <2>. QED BY <1>1, <2>2, ComputedFromOneLedger
<1>2. IInv /\ [Next]_vars =>
        \A r \in Reader :
          read[r] = "load" /\ read'[r] # "load" /\ ~NoGroup(r) /\ ~restored /\ ~Overtaken(r) =>
          answer'[r] \in {Replay(seen[r], seenOpening[r]), Stored(Replay(ledger, opening))}
  BY <1>1
<1>. QED BY <1>2, Invariance, PTL DEF Spec, AnswersFromOneLedger
==============================================================================
