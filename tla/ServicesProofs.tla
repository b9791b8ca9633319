---------------------------- MODULE ServicesProofs ----------------------------
(***************************************************************************)
(* Theorems about the services that share no state with one another: rate *)
(* limiting, the asset and coin catalogues, paging, wallets, the market   *)
(* overview, the entry of transactions, the positions of a portfolio, the *)
(* histories and the path of a request.  Each part keeps its own          *)
(* specification and its own invariant; no step of one reads another, so  *)
(* side by side all hold.                                                 *)
(***************************************************************************)
EXTENDS Services, FiniteSetTheorems, SequenceTheorems, WellFoundedInduction, TLAPS

\* A set of numbers has a least one.
LEMMA LeastNatural ==
  ASSUME NEW T, T \subseteq Nat, T # {}
  PROVE  \E n \in T : \A m \in T : n <= m
<1>1. \E n \in T : \A m \in T : ~(<<m, n>> \in OpToRel(<, Nat))
  BY WFMin, NatLessThanWellFounded, Zenon
<1>2. PICK n \in T : \A m \in T : ~(m < n)
  BY <1>1, Zenon DEF OpToRel
<1>. QED
  BY <1>2, SMT

\* Of some subsets of a finite set, one is smallest.
LEMMA SmallestSubset ==
  ASSUME NEW S, IsFiniteSet(S), NEW B, B \subseteq SUBSET S, B # {}
  PROVE  \E s \in B : \A t \in B : ~(t \subseteq s /\ t # s)
<1> DEFINE T == {Cardinality(s) : s \in B}
<1>1. \A s \in SUBSET S : IsFiniteSet(s) /\ Cardinality(s) \in Nat
  BY FS_Subset, FS_CardinalityType
<1>2. T \subseteq Nat /\ T # {}
  BY <1>1
<1>3. PICK n \in T : \A m \in T : n <= m
  BY <1>2, LeastNatural
<1>4. PICK s \in B : n = Cardinality(s)
  BY <1>3
<1>5. ASSUME NEW t \in B, t \subseteq s, t # s PROVE FALSE
  <2>1. Cardinality(t) \in Nat /\ n \in Nat /\ n <= Cardinality(t)
    BY <1>1, <1>3, <1>4
  <2>2. Cardinality(t) <= Cardinality(s) /\ Cardinality(t) # Cardinality(s)
    BY <1>1, <1>5, FS_Subset
  <2>. QED BY <1>4, <2>1, <2>2
<1>. QED BY <1>4, <1>5

\* Each value of g and h follows alike from one with an element less.
Alike(S, g, h) ==
  /\ g[{}] = h[{}]
  /\ \A s \in SUBSET S : s # {} =>
       \E x \in s : g[s \ {x}] = h[s \ {x}] => g[s] = h[s]

\* Such functions of the subsets of a finite set agree.
LEMMA AgreeOnSubsets ==
  ASSUME NEW S, IsFiniteSet(S), NEW g, NEW h, Alike(S, g, h)
  PROVE  \A s \in SUBSET S : g[s] = h[s]
<1> DEFINE B == {s \in SUBSET S : g[s] # h[s]}
<1> SUFFICES ASSUME B # {} PROVE FALSE
  OBVIOUS
<1>0. B \subseteq SUBSET S
  OBVIOUS
<1> HIDE DEF B
<1>1. PICK s \in B : \A t \in B : ~(t \subseteq s /\ t # s)
  BY <1>0, SmallestSubset
<1> USE DEF B
<1>2. s # {}
  BY <1>1 DEF Alike
<1>3. PICK x \in s : g[s \ {x}] = h[s \ {x}] => g[s] = h[s]
  BY <1>2 DEF Alike
<1>4. s \ {x} \in SUBSET S /\ s \ {x} \subseteq s /\ s \ {x} # s
  BY <1>3
<1>5. s \ {x} \notin B
  BY <1>1, <1>4
<1>. QED BY <1>1, <1>3, <1>4, <1>5

\* c chooses an element of every subset, F is a step from a subset and a value of V.
Foldable(S, V, base, c, F) ==
  /\ base \in V
  /\ \A s \in SUBSET S : s # {} => c[s] \in s
  /\ F \in [(SUBSET S) \X V -> V]

FoldedBy(S, V, base, c, F, g) ==
  /\ g \in [SUBSET S -> V]
  /\ \A s \in SUBSET S : g[s] = IF s = {} THEN base ELSE F[<<s, g[s \ {c[s]}]>>]

\* A fold over a finite set is well defined, and stays in V when its step does.
LEMMA FoldExists ==
  ASSUME NEW S, IsFiniteSet(S), NEW V, NEW base, NEW c, NEW F, Foldable(S, V, base, c, F)
  PROVE  \E g : FoldedBy(S, V, base, c, F, g)
<1>0. /\ base \in V
      /\ \A s \in SUBSET S : s # {} => c[s] \in s
      /\ F \in [(SUBSET S) \X V -> V]
  BY DEF Foldable
<1> DEFINE Small(n) == {s \in SUBSET S : Cardinality(s) <= n}
           Solves(g, n) == \A s \in Small(n) :
             g[s] = IF s = {} THEN base ELSE F[<<s, g[s \ {c[s]}]>>]
           Bad == {n \in Nat : ~ \E g \in [SUBSET S -> V] : Solves(g, n)}
<1>1. \A s \in SUBSET S : IsFiniteSet(s) /\ Cardinality(s) \in Nat
  BY FS_Subset, FS_CardinalityType
<1>2. ASSUME NEW s \in SUBSET S, s # {}
      PROVE  s \ {c[s]} \in SUBSET S /\ Cardinality(s \ {c[s]}) = Cardinality(s) - 1
  BY <1>0, <1>1, <1>2, FS_RemoveElement
<1>3. ASSUME Bad # {} PROVE FALSE
  <2>1. PICK n \in Bad : \A m \in Bad : n <= m
    BY <1>3, LeastNatural
  <2>2. CASE n = 0
    <3>1. \A s \in Small(0) : s = {}
      BY <1>1, FS_EmptySet
    <3>2. [s \in SUBSET S |-> base] \in [SUBSET S -> V]
      BY <1>0
    <3>3. Solves([s \in SUBSET S |-> base], 0)
      BY <3>1
    <3>. QED BY <2>1, <2>2, <3>2, <3>3
  <2>3. CASE n # 0
    <3>0. n \in Nat
      OBVIOUS
    <3> HIDE DEF Bad
    <3>1. n - 1 \in Nat /\ n - 1 \notin Bad
      BY <2>1, <2>3, <3>0
    <3> USE DEF Bad
    <3>2. PICK g \in [SUBSET S -> V] : Solves(g, n - 1)
      BY <3>1
    <3> DEFINE h == [s \in SUBSET S |-> IF Cardinality(s) <= n - 1 THEN g[s]
                                        ELSE F[<<s, g[s \ {c[s]}]>>]]
    <3>3. ASSUME NEW s \in SUBSET S, s # {} PROVE <<s, g[s \ {c[s]}]>> \in (SUBSET S) \X V
      BY <1>2, <3>3
    <3>4. h \in [SUBSET S -> V]
      <4>1. ASSUME NEW s \in SUBSET S PROVE h[s] \in V
        <5>1. CASE s = {}
          BY <1>0, <1>1, <2>1, <2>3, <5>1, FS_EmptySet
        <5>2. CASE s # {}
          BY <1>0, <3>3, <5>2
        <5>. QED BY <5>1, <5>2
      <4>. QED BY <4>1
    <3>5. ASSUME NEW s \in Small(n)
          PROVE  h[s] = IF s = {} THEN base ELSE F[<<s, h[s \ {c[s]}]>>]
      <4>1. CASE s = {}
        <5>1. Cardinality(s) = 0
          BY <4>1, FS_EmptySet
        <5>2. s \in Small(n - 1) /\ h[s] = g[s]
          BY <2>1, <2>3, <5>1
        <5>. QED BY <3>2, <4>1, <5>2
      <4>2. CASE s # {}
        <5>1. Cardinality(s \ {c[s]}) = Cardinality(s) - 1 /\ s \ {c[s]} \in SUBSET S
          BY <1>2, <4>2
        <5>2. h[s \ {c[s]}] = g[s \ {c[s]}]
          BY <1>1, <2>1, <5>1
        <5>3. CASE Cardinality(s) <= n - 1
          <6>1. s \in Small(n - 1) /\ h[s] = g[s]
            BY <5>3
          <6>. QED BY <3>2, <4>2, <5>2, <6>1
        <5>4. CASE ~(Cardinality(s) <= n - 1)
          BY <4>2, <5>2, <5>4
        <5>. QED BY <5>3, <5>4
      <4>. QED BY <4>1, <4>2
    <3>6. Solves(h, n)
      BY <3>5
    <3>. QED BY <2>1, <3>4, <3>6
  <2>. QED BY <2>2, <2>3
<1>4. Cardinality(S) \in Nat /\ \A s \in SUBSET S : s \in Small(Cardinality(S))
  BY <1>1, FS_Subset
<1>5. PICK g \in [SUBSET S -> V] : Solves(g, Cardinality(S))
  BY <1>3, <1>4
<1>. QED BY <1>4, <1>5 DEF FoldedBy

\* i sums f over the subsets of T, as the community module's fold does.
Sums(f, T, i) ==
  i = [s \in SUBSET T |-> IF s = {} THEN 0
         ELSE f[CHOOSE x \in s : TRUE] + i[s \ {CHOOSE x \in s : TRUE}]]

\* A sum of natural numbers is the value of such a function.
LEMMA SumIsDefined ==
  ASSUME NEW T, IsFiniteSet(T), NEW f, \A s \in T : f[s] \in Nat
  PROVE  \E i : /\ Sums(f, T, i) /\ SumFunctionOnSet(f, T) = i[T]
                /\ \A s \in SUBSET T : i[s] \in Nat
<1>1. SumFunctionOnSet(f, T) = (CHOOSE i : Sums(f, T, i))[T]
  BY DEF SumFunctionOnSet, FoldFunctionOnSet, MapThenFoldSet, Sums
<1>a. PICK c : c = [s \in SUBSET T |-> CHOOSE x \in s : TRUE]
  OBVIOUS
<1>b. PICK F : F = [p \in (SUBSET T) \X Nat |-> IF p[1] = {} THEN 0 ELSE f[c[p[1]]] + p[2]]
  OBVIOUS
<1>2. \A s \in SUBSET T : s # {} => c[s] \in s
  BY <1>a
<1>3. F \in [(SUBSET T) \X Nat -> Nat]
  <2>1. ASSUME NEW p \in (SUBSET T) \X Nat PROVE (IF p[1] = {} THEN 0 ELSE f[c[p[1]]] + p[2]) \in Nat
    <3>1. p[1] \in SUBSET T /\ p[2] \in Nat
      OBVIOUS
    <3>2. CASE p[1] # {}
      <4>1. c[p[1]] \in p[1]
        BY <1>2, <3>1, <3>2
      <4>2. f[c[p[1]]] \in Nat
        BY <3>1, <4>1
      <4>. QED BY <3>1, <3>2, <4>2
    <3>. QED BY <3>2
  <2>. QED BY <1>b, <2>1
<1>c. Foldable(T, Nat, 0, c, F)
  BY <1>2, <1>3 DEF Foldable
<1>d. PICK g : FoldedBy(T, Nat, 0, c, F, g)
  BY <1>c, FoldExists
<1>4. /\ g \in [SUBSET T -> Nat]
      /\ \A s \in SUBSET T : g[s] = IF s = {} THEN 0 ELSE F[<<s, g[s \ {c[s]}]>>]
  BY <1>d DEF FoldedBy
<1>5. ASSUME NEW s \in SUBSET T, s # {}
      PROVE  g[s] = f[CHOOSE x \in s : TRUE] + g[s \ {CHOOSE x \in s : TRUE}]
  <2>1. g[s \ {c[s]}] \in Nat
    BY <1>4
  <2>2. F[<<s, g[s \ {c[s]}]>>] = f[c[s]] + g[s \ {c[s]}]
    BY <1>5, <1>b, <2>1
  <2>. QED BY <1>4, <1>5, <1>a, <2>2
<1>6. Sums(f, T, g)
  BY <1>4, <1>5 DEF Sums
<1>7. PICK sum : Sums(f, T, sum) /\ SumFunctionOnSet(f, T) = sum[T]
  BY <1>1, <1>6
<1>8. \A s \in SUBSET T : g[s] = sum[s]
  <2>1. g[{}] = sum[{}]
    BY <1>6, <1>7 DEF Sums
  <2>2. ASSUME NEW s \in SUBSET T, s # {}
        PROVE  \E x \in s : g[s \ {x}] = sum[s \ {x}] => g[s] = sum[s]
    <3>1. (CHOOSE x \in s : TRUE) \in s
      BY <2>2
    <3>2. sum[s] = f[CHOOSE x \in s : TRUE] + sum[s \ {CHOOSE x \in s : TRUE}]
      BY <1>7, <2>2 DEF Sums
    <3>. QED BY <1>5, <2>2, <3>1, <3>2
  <2>3. \A s \in SUBSET T : s # {} => \E x \in s : g[s \ {x}] = sum[s \ {x}] => g[s] = sum[s]
    BY <2>2
  <2>4. Alike(T, g, sum)
    BY <2>1, <2>3 DEF Alike
  <2>. QED BY <2>4, AgreeOnSubsets
<1>. QED BY <1>4, <1>7, <1>8

\* A sum of natural numbers is a natural number, and has an element that can be taken off.
LEMMA SumStep ==
  ASSUME NEW S, IsFiniteSet(S), NEW f, \A s \in S : f[s] \in Nat
  PROVE  /\ SumFunctionOnSet(f, S) \in Nat
         /\ S = {} => SumFunctionOnSet(f, S) = 0
         /\ S # {} => \E x \in S :
              SumFunctionOnSet(f, S) = f[x] + SumFunctionOnSet(f, S \ {x})
<1>1. PICK i : /\ Sums(f, S, i) /\ SumFunctionOnSet(f, S) = i[S]
               /\ \A s \in SUBSET S : i[s] \in Nat
  BY SumIsDefined
<1>2. S = {} => i[S] = 0
  BY <1>1 DEF Sums
<1>3. ASSUME S # {}
      PROVE  \E x \in S : SumFunctionOnSet(f, S) = f[x] + SumFunctionOnSet(f, S \ {x})
  <2>1. PICK x \in S : x = CHOOSE y \in S : TRUE
    BY <1>3
  <2>a. PICK T : T = S \ {x}
    OBVIOUS
  <2>2. i[S] = f[x] + i[T]
    BY <1>1, <1>3, <2>1, <2>a DEF Sums
  <2>3. IsFiniteSet(T) /\ \A s \in T : f[s] \in Nat
    BY <2>a, FS_Subset
  <2>4. PICK j : Sums(f, T, j) /\ SumFunctionOnSet(f, T) = j[T]
    BY <2>3, SumIsDefined
  <2>5. \A s \in SUBSET T : i[s] = j[s]
    <3>1. i[{}] = j[{}]
      BY <1>1, <2>4 DEF Sums
    <3>2. ASSUME NEW s \in SUBSET T, s # {}
          PROVE  \E y \in s : i[s \ {y}] = j[s \ {y}] => i[s] = j[s]
      <4>1. (CHOOSE y \in s : TRUE) \in s
        BY <3>2
      <4>2. s \in SUBSET S
        BY <2>a
      <4>3. i[s] = f[CHOOSE y \in s : TRUE] + i[s \ {CHOOSE y \in s : TRUE}]
        BY <1>1, <3>2, <4>2 DEF Sums
      <4>4. j[s] = f[CHOOSE y \in s : TRUE] + j[s \ {CHOOSE y \in s : TRUE}]
        BY <2>4, <3>2 DEF Sums
      <4>. QED BY <4>1, <4>3, <4>4
    <3>3. \A s \in SUBSET T : s # {} => \E y \in s : i[s \ {y}] = j[s \ {y}] => i[s] = j[s]
      BY <3>2
    <3>4. Alike(T, i, j)
      BY <3>1, <3>3 DEF Alike
    <3>. QED BY <2>3, <3>4, AgreeOnSubsets
  <2>. QED BY <1>1, <2>a, <2>1, <2>2, <2>4, <2>5
<1>. QED BY <1>1, <1>2, <1>3

\* Any element can be taken off.
LEMMA SumTakesOff ==
  ASSUME NEW S, IsFiniteSet(S), NEW f, \A s \in S : f[s] \in Nat, NEW y \in S
  PROVE  SumFunctionOnSet(f, S) = f[y] + SumFunctionOnSet(f, S \ {y})
<1> DEFINE B == {s \in SUBSET S : \E z \in s :
                   SumFunctionOnSet(f, s) # f[z] + SumFunctionOnSet(f, s \ {z})}
<1> SUFFICES ASSUME B # {} PROVE FALSE
  OBVIOUS
<1>1. B \subseteq SUBSET S
  OBVIOUS
<1> HIDE DEF B
<1>2. PICK s \in B : \A t \in B : ~(t \subseteq s /\ t # s)
  BY <1>1, SmallestSubset
<1>3. s \in SUBSET S
  BY <1>1
<1>4. PICK z \in s : SumFunctionOnSet(f, s) # f[z] + SumFunctionOnSet(f, s \ {z})
  BY <1>2 DEF B
<1>5. \A t \in SUBSET S : IsFiniteSet(t) /\ (\A a \in t : f[a] \in Nat)
  BY FS_Subset
<1>6. PICK x \in s : SumFunctionOnSet(f, s) = f[x] + SumFunctionOnSet(f, s \ {x})
  BY <1>3, <1>4, <1>5, SumStep
<1>7. x # z
  BY <1>4, <1>6
<1>8. s \ {x} \notin B /\ s \ {z} \notin B
  BY <1>2, <1>4, <1>6
<1>9. /\ SumFunctionOnSet(f, s \ {x}) = f[z] + SumFunctionOnSet(f, (s \ {x}) \ {z})
      /\ SumFunctionOnSet(f, s \ {z}) = f[x] + SumFunctionOnSet(f, (s \ {z}) \ {x})
  <2>1. s \ {x} \in SUBSET S /\ s \ {z} \in SUBSET S /\ z \in s \ {x} /\ x \in s \ {z}
    BY <1>3, <1>7
  <2>. QED BY <1>8, <2>1 DEF B
<1>10. (s \ {x}) \ {z} = (s \ {z}) \ {x}
  OBVIOUS
<1>11. SumFunctionOnSet(f, (s \ {x}) \ {z}) \in Nat /\ f[x] \in Nat /\ f[z] \in Nat
  <2>1. (s \ {x}) \ {z} \in SUBSET S
    BY <1>3
  <2>2. IsFiniteSet((s \ {x}) \ {z}) /\ (\A a \in (s \ {x}) \ {z} : f[a] \in Nat)
    BY <1>5, <2>1
  <2>. QED BY <1>3, <1>4, <1>6, <2>2, SumStep
<1>12. SumFunctionOnSet(f, s \ {z}) = f[x] + SumFunctionOnSet(f, (s \ {x}) \ {z})
  BY <1>9, <1>10
<1>13. SumFunctionOnSet(f, s) = f[x] + (f[z] + SumFunctionOnSet(f, (s \ {x}) \ {z}))
  BY <1>6, <1>9
<1>14. \A a, b, d \in Nat : a + (b + d) = b + (a + d)
  OBVIOUS
<1>15. SumFunctionOnSet(f, s) = f[z] + (f[x] + SumFunctionOnSet(f, (s \ {x}) \ {z}))
  BY <1>11, <1>13, <1>14
<1>. QED BY <1>4, <1>12, <1>15

\* A sum is at least the sum over a set that is mapped into it one to one.
LEMMA SumCovers ==
  ASSUME NEW S, IsFiniteSet(S), NEW f, \A s \in S : f[s] \in Nat,
         NEW T, IsFiniteSet(T), NEW g, \A t \in T : g[t] \in Nat,
         NEW m \in [T -> S], \A t, u \in T : m[t] = m[u] => t = u,
         \A t \in T : g[t] = f[m[t]]
  PROVE  SumFunctionOnSet(g, T) <= SumFunctionOnSet(f, S)
<1> DEFINE im(t) == {m[u] : u \in t}
           B == {t \in SUBSET T : ~(SumFunctionOnSet(g, t) <= SumFunctionOnSet(f, (S \ im(T)) \cup im(t)))}
<1> SUFFICES ASSUME B # {} PROVE FALSE
  <2>1. (S \ im(T)) \cup im(T) = S
    OBVIOUS
  <2>2. T \notin B
    OBVIOUS
  <2>. QED BY <2>1, <2>2
<1>1. B \subseteq SUBSET T
  OBVIOUS
<1> HIDE DEF B
<1>2. PICK t \in B : \A u \in B : ~(u \subseteq t /\ u # t)
  BY <1>1, SmallestSubset
<1> DEFINE R(u) == (S \ im(T)) \cup im(u)
<1>3. \A u \in SUBSET T : IsFiniteSet(u) /\ (\A a \in u : g[a] \in Nat)
  BY FS_Subset
<1>4. \A u \in SUBSET T : R(u) \in SUBSET S
  OBVIOUS
<1>5. \A u \in SUBSET T : IsFiniteSet(R(u)) /\ (\A a \in R(u) : f[a] \in Nat)
  BY <1>4, FS_Subset
<1>6. t \in SUBSET T
  BY <1>1
<1> HIDE DEF R
<1>7. SumFunctionOnSet(f, R(t)) \in Nat
  BY <1>5, <1>6, SumStep
<1>8. CASE t = {}
  <2>1. SumFunctionOnSet(g, t) = 0
    BY <1>3, <1>6, <1>8, SumStep
  <2>. QED BY <1>2, <1>7, <2>1 DEF B, R
<1>9. CASE t # {}
  <2>1. PICK x \in t : TRUE
    BY <1>9
  <2>2. SumFunctionOnSet(g, t) = g[x] + SumFunctionOnSet(g, t \ {x})
    BY <1>3, <1>6, SumTakesOff
  <2>3. m[x] \in R(t) /\ R(t) \ {m[x]} = R(t \ {x})
    BY <1>6 DEF R
  <2>4. SumFunctionOnSet(f, R(t)) = f[m[x]] + SumFunctionOnSet(f, R(t \ {x}))
    <3>1. IsFiniteSet(R(t)) /\ (\A a \in R(t) : f[a] \in Nat)
      BY <1>5, <1>6
    <3>2. SumFunctionOnSet(f, R(t)) = f[m[x]] + SumFunctionOnSet(f, R(t) \ {m[x]})
      BY <2>3, <3>1, SumTakesOff
    <3>. QED BY <2>3, <3>2
  <2>5. t \ {x} \notin B /\ t \ {x} \in SUBSET T
    BY <1>2, <1>6
  <2>6. SumFunctionOnSet(g, t \ {x}) <= SumFunctionOnSet(f, R(t \ {x}))
    BY <2>5 DEF B, R
  <2>7. SumFunctionOnSet(g, t \ {x}) \in Nat /\ SumFunctionOnSet(f, R(t \ {x})) \in Nat
    BY <1>3, <1>5, <2>5, SumStep
  <2>8. g[x] = f[m[x]] /\ g[x] \in Nat
    BY <1>6
  <2>9. SumFunctionOnSet(g, t) <= SumFunctionOnSet(f, R(t))
    BY <2>2, <2>4, <2>6, <2>7, <2>8
  <2>. QED BY <1>2, <2>9 DEF B, R
<1>. QED BY <1>8, <1>9

-------------------------------------------------------------------------------
(***************************************************************************)
(* Rate limiting: the store is a sliding window per bucket, and every bucket of a*)
(* route keeps its cooldown.                                               *)
(***************************************************************************)

(***************************************************************************)
(* The pace of one bucket of limit L, window W and block B.                *)
(***************************************************************************)

Rates(L, W, B) == L \in Nat \ {0} /\ W \in Nat \ {0} /\ B \in Nat /\ (B > 0 => B >= W)

\* n hits counted in a window with t ticks left, or held for k more, and the
\* m admissions of the last W ticks, newest first, f[i] ticks ago.
Paced(n, t, k, f, m, L, W, B) ==
  /\ n \in Nat /\ t \in 0..W /\ k \in 0..B /\ m \in Nat
  /\ n = 0 <=> t = 0
  /\ k > 0 => n = 0
  /\ \A i \in 1..m : f[i] \in Nat /\ f[i] < W
  /\ \A i, j \in 1..m : i <= j => f[i] <= f[j]
  /\ m < 2 * L
  /\ k > 0 => \A i \in 1..m : f[i] + k >= B
  /\ k = 0 /\ t = 0 => m < L /\ \A i \in 1..m : f[i] >= 1
  /\ t > 0 => /\ \A i \in 1..m : i > n \/ i > L => f[i] > W - t
              /\ \A i \in 1..m : i >= n \/ i >= L => f[i] >= W - t
              /\ m >= L => f[m - L + 1] <= W - t

LEMMA PacedAtFirst ==
  ASSUME NEW L, NEW W, NEW B, Rates(L, W, B), NEW f
  PROVE  Paced(0, 0, 0, f, 0, L, W, B)
BY DEF Rates, Paced

LEMMA PacedHit ==
  ASSUME NEW L, NEW W, NEW B, Rates(L, W, B),
         NEW n, NEW t, NEW f, NEW m, Paced(n, t, 0, f, m, L, W, B)
  PROVE  Paced(n + 1, IF t = 0 THEN W ELSE t, 0, f, m, L, W, B)
<1>1. CASE t = 0
  BY <1>1 DEF Rates, Paced
<1>2. CASE t # 0
  BY <1>2 DEF Rates, Paced
<1>. QED BY <1>1, <1>2

LEMMA PacedAdmission ==
  ASSUME NEW L, NEW W, NEW B, Rates(L, W, B),
         NEW n, NEW t, NEW f, NEW m, Paced(n, t, 0, f, m, L, W, B), n < L,
         NEW g, g[1] = 0, \A i \in 1..m : g[i + 1] = f[i]
  PROVE  Paced(n + 1, IF t = 0 THEN W ELSE t, 0, g, m + 1, L, W, B)
<1> USE DEF Rates, Paced
<1>1. ASSUME NEW i \in 1..m + 1, i # 1 PROVE i - 1 \in 1..m /\ g[i] = f[i - 1]
  BY <1>1
<1>2. \A i \in 1..m + 1 : g[i] \in Nat /\ g[i] < W
  BY <1>1
<1>3. \A i, j \in 1..m + 1 : i <= j => g[i] <= g[j]
  BY <1>1, <1>2
<1>4. CASE t = 0
  BY <1>1, <1>2, <1>3, <1>4
<1>5. CASE t # 0
  <2>1. /\ \A i \in 1..m + 1 : i > n + 1 \/ i > L => g[i] > W - t
        /\ \A i \in 1..m + 1 : i >= n + 1 \/ i >= L => g[i] >= W - t
    <3>1. SUFFICES ASSUME NEW i \in 1..m + 1
                   PROVE  /\ i > n + 1 \/ i > L => g[i] > W - t
                          /\ i >= n + 1 \/ i >= L => g[i] >= W - t
      OBVIOUS
    <3>2. CASE i = 1
      BY <1>5, <3>2
    <3>3. CASE i # 1
      BY <1>1, <1>5, <3>3
    <3>. QED BY <3>2, <3>3
  <2>2. m + 1 >= L => g[m + 1 - L + 1] <= W - t
    <3>1. CASE m + 1 = L
      BY <3>1
    <3>2. CASE m >= L
      <4>1. m - L + 1 \in 1..m /\ g[m - L + 1 + 1] = f[m - L + 1]
        BY <3>2
      <4>. QED BY <1>5, <3>2, <4>1
    <3>. QED BY <3>1, <3>2
  <2>3. m + 1 < 2 * L
    <3>1. SUFFICES ASSUME m + 1 = 2 * L PROVE FALSE
      OBVIOUS
    <3>2. m - L + 1 \in 1..m /\ m - L + 1 > n
      BY <3>1
    <3>. QED BY <1>5, <3>1, <3>2
  <2>. QED BY <1>2, <1>3, <1>5, <2>1, <2>2, <2>3
<1>. QED BY <1>4, <1>5

LEMMA PacedTrip ==
  ASSUME NEW L, NEW W, NEW B, Rates(L, W, B), B > 0,
         NEW n, NEW t, NEW f, NEW m, Paced(n, t, 0, f, m, L, W, B)
  PROVE  Paced(0, 0, B, f, m, L, W, B)
BY DEF Rates, Paced

Drop(t) == IF t > 1 THEN t - 1 ELSE 0

LEMMA PacedTick ==
  ASSUME NEW L, NEW W, NEW B, Rates(L, W, B),
         NEW n, NEW t, NEW k, NEW f, NEW m, Paced(n, t, k, f, m, L, W, B),
         NEW g, NEW q \in 0..m,
         \A i \in 1..q : g[i] = f[i] + 1 /\ f[i] + 1 < W,
         \A i \in q+1..m : f[i] + 1 >= W
  PROVE  Paced(IF t > 1 THEN n ELSE 0, Drop(t), Down(k), g, q, L, W, B)
<1> USE DEF Rates, Paced, Drop, Down
<1>1. /\ \A i \in 1..q : g[i] \in Nat /\ g[i] < W
      /\ \A i, j \in 1..q : i <= j => g[i] <= g[j]
  OBVIOUS
<1>2. CASE k > 0
  <2>1. k = 1 => q = 0
    <3>1. SUFFICES ASSUME k = 1, q > 0 PROVE FALSE
      OBVIOUS
    <3>2. 1 \in 1..q /\ 1 \in 1..m
      BY <3>1
    <3>3. f[1] + 1 >= B /\ f[1] + 1 < W
      BY <3>1, <3>2
    <3>. QED BY <3>1, <3>3
  <2>2. \A i \in 1..q : g[i] + k - 1 >= B
    BY <1>2
  <2>. QED BY <1>1, <1>2, <2>1, <2>2
<1>3. CASE k = 0 /\ t = 0
  BY <1>1, <1>3
<1>4. CASE k = 0 /\ t = 1
  <2>1. q < L
    <3>1. SUFFICES ASSUME q >= L PROVE FALSE
      OBVIOUS
    <3>2. L \in 1..q /\ L \in 1..m
      BY <3>1
    <3>3. f[L] >= W - 1 /\ f[L] + 1 < W
      BY <1>4, <3>2
    <3>. QED BY <3>2, <3>3
  <2>. QED BY <1>1, <1>4, <2>1
<1>5. CASE k = 0 /\ t > 1
  <2>1. q >= L => g[q - L + 1] <= W - (t - 1)
    <3>1. SUFFICES ASSUME q >= L PROVE f[q - L + 1] <= W - t /\ q - L + 1 \in 1..q
      BY <1>5
    <3>2. q - L + 1 \in 1..q /\ q - L + 1 \in 1..m /\ m - L + 1 \in 1..m /\ m >= L
      BY <3>1
    <3>3. f[q - L + 1] <= f[m - L + 1]
      BY <3>2
    <3>. QED BY <1>5, <3>1, <3>2, <3>3
  <2>2. /\ \A i \in 1..q : i > n \/ i > L => g[i] > W - (t - 1)
        /\ \A i \in 1..q : i >= n \/ i >= L => g[i] >= W - (t - 1)
    BY <1>5
  <2>. QED BY <1>1, <1>5, <2>1, <2>2
<1>. QED BY <1>2, <1>3, <1>4, <1>5

\* What is left of the ages is their head.
LEMMA OlderIsHead ==
  ASSUME NEW b, NEW ages \in Seq(Nat), Window[b[1]] \in Nat,
         \A i, j \in 1..Len(ages) : i <= j => ages[i] <= ages[j]
  PROVE  \E q \in 0..Len(ages) :
           /\ Older(ages, b) \in Seq(Nat) /\ Len(Older(ages, b)) = q
           /\ \A i \in 1..q : Older(ages, b)[i] = ages[i] + 1 /\ ages[i] + 1 < Window[b[1]]
           /\ \A i \in q+1..Len(ages) : ages[i] + 1 >= Window[b[1]]
<1> DEFINE m == Len(ages)
           young == {j \in DOMAIN ages : ages[j] + 1 < Window[b[1]]}
           out == {i \in 1..m + 1 : i \notin young}
<1>1. m \in Nat /\ DOMAIN ages = 1..m /\ \A i \in 1..m : ages[i] \in Nat
  OBVIOUS
<1>2. out \subseteq Nat /\ m + 1 \in out
  BY <1>1
<1>3. PICK n \in out : \A i \in out : n <= i
  BY <1>2, LeastNatural
<1>4. n \in 1..m + 1 /\ n \notin young
  OBVIOUS
<1>5. ASSUME NEW i \in 1..n-1 PROVE i \in young
  <2>1. i \in 1..m + 1 /\ ~(n <= i)
    BY <1>1, <1>4
  <2>2. i \notin out
    BY <1>3, <2>1
  <2>. QED BY <2>1, <2>2
<1>6. ASSUME NEW i \in n..m PROVE i \in 1..m /\ ages[i] + 1 >= Window[b[1]]
  <2>1. n \in 1..m /\ i \in 1..m /\ ages[n] <= ages[i]
    BY <1>1, <1>4
  <2>2. ages[n] + 1 >= Window[b[1]]
    BY <1>1, <1>4, <2>1
  <2>. QED BY <1>1, <2>1, <2>2
<1>7. young = 1..n-1
  <2>1. ASSUME NEW i \in young PROVE i \in 1..n-1
    <3>1. i \in 1..m /\ ages[i] + 1 < Window[b[1]]
      BY <1>1
    <3>2. i \notin n..m
      BY <1>1, <1>6, <3>1
    <3>. QED BY <1>1, <1>4, <3>1, <3>2
  <2>. QED BY <1>5, <2>1
<1>8. Older(ages, b) = [i \in 1..n-1 |-> ages[i] + 1]
  <2>1. Older(ages, b) = [i \in young |-> ages[i] + 1]
    BY DEF Older
  <2> HIDE DEF young
  <2>. QED BY <1>7, <2>1
<1>9. \A i \in 1..n-1 : ages[i] + 1 \in Nat /\ ages[i] + 1 < Window[b[1]]
  BY <1>1, <1>4, <1>5
<1>10. Older(ages, b) \in Seq(Nat) /\ Len(Older(ages, b)) = n - 1
  BY <1>4, <1>8, <1>9
<1>11. n - 1 \in 0..m /\ \A i \in 1..n-1 : Older(ages, b)[i] = ages[i] + 1
  BY <1>1, <1>4, <1>8
<1>12. PICK q \in 0..m : q = n - 1
  BY <1>11
<1>13. q + 1 = n /\ 1..q = 1..n-1
  BY <1>4, <1>12
<1> HIDE DEF young, out
<1>14. \A i \in q + 1..m : ages[i] + 1 >= Window[b[1]]
  BY <1>6, <1>13
<1>. QED BY <1>9, <1>10, <1>11, <1>12, <1>13, <1>14

(***************************************************************************)
(* The invariant.                                                          *)
(***************************************************************************)

LimitRequest == [at : {"idle", "asked"}, route : Route \cup {Nothing}, body : Body \cup {<<>>},
            next : Nat, by : Bucket \cup {NoBucket}, wait : Nat]

LimitShape ==
  /\ counter \in [Bucket -> [count : Nat, ttl : Nat]]
  /\ block \in [Bucket -> Nat]
  /\ caller \in [Caller -> LimitRequest]
  /\ recent \in [Bucket -> Seq(Nat)]

Pace(b) == Paced(counter[b].count, counter[b].ttl, block[b], recent[b], Len(recent[b]),
                 Limit[b[1]], Window[b[1]], Block[b[1]])

AskedWell(c) == caller[c].at = "asked" =>
                  /\ caller[c].route \in Route /\ caller[c].body \in Body
                  /\ caller[c].next >= 1 /\ caller[c].by = NoBucket

\* A refusal stands as long as the key that it is from.
BlockStands(c) ==
  LET b == caller[c].by
  IN b # NoBucket => IF Block[b[1]] > 0 THEN block[b] > 0 /\ block[b] <= caller[c].wait
                                        ELSE counter[b].ttl > 0 /\ counter[b].ttl <= caller[c].wait

LimitInv ==
  /\ LimitShape
  /\ \A b \in Bucket : Pace(b) /\ counter[b].count <= MaxCount
  /\ \A c \in Caller : AskedWell(c) /\ BlockStands(c)

LEMMA RatesOfBuckets ==
  ASSUME NEW b \in Bucket
  PROVE  /\ b[1] \in Rule /\ Rates(Limit[b[1]], Window[b[1]], Block[b[1]])
         /\ Limit[b[1]] <= MaxCount /\ MaxCount \in Nat
<1>1. b[1] \in Rule
  BY DEF Bucket
<1>. QED BY <1>1, RateLimitAssumption DEF Rates

LEMMA RulesAreLists == \A route \in Route : Len(Rules(route)) \in Nat
<1>1. \A route \in {"register", "login", "verify", "resend"} : Len(AuthGroup[route]) \in Nat
  BY DEF AuthGroup
<1>2. \A route \in {"refresh", "password", "alert", "sync"} : Len(UserGroup[route]) \in Nat
  BY DEF UserGroup
<1>3. \A route \in {"attempts", "hourly", "cooldown"} : Len(Imperative[route]) \in Nat
  BY DEF Imperative
<1>4. /\ DOMAIN AuthGroup = {"register", "login", "verify", "resend"}
      /\ DOMAIN UserGroup = {"refresh", "password", "alert", "sync"}
      /\ DOMAIN Imperative = {"attempts", "hourly", "cooldown"}
  BY DEF AuthGroup, UserGroup, Imperative
<1>. QED BY <1>1, <1>2, <1>3, <1>4, RateLimitAssumption DEF Rules

LEMMA AskedIsBucket ==
  ASSUME NEW c \in Caller, LimitShape, AskedWell(c), AtRule(c), Value(c) # Nothing
  PROVE  Asked(c) \in Bucket
<1> DEFINE route == caller[c].route
           i     == caller[c].next
           body  == caller[c].body
<1>1. route \in Route /\ body \in Body /\ i \in Nat /\ i >= 1 /\ i <= Len(Rules(route))
  BY DEF LimitShape, LimitRequest, AskedWell, AtRule
<1>2. Len(Rules(route)) \in Nat
  BY <1>1, RulesAreLists
<1>3. i \in 1..Len(Rules(route))
  BY <1>1, <1>2
<1>4. At(c) \in Rule
  BY <1>1, <1>3 DEF At, Rule
<1>5. <<At(c), body[At(c)[2]]>> \in {<<rule, x[rule[2]]>> : rule \in Rule, x \in Body}
  BY <1>1, <1>4
<1>. QED BY <1>5 DEF Asked, Value, Bucket

LEMMA CeilingCovers ==
  ASSUME NEW ticks \in Nat
  PROVE  RetryAfter(ticks) \in Nat /\ RetryAfter(ticks) >= ticks
BY RateLimitAssumption DEF RetryAfter

\* A script run without an admission keeps the pace of its bucket, leaves the
\* others alone, and neither prolongs what stands nor ends it.
LEMMA ConsumeKeepsPace ==
  ASSUME NEW b \in Bucket, LimitShape, Pace(b), counter[b].count <= MaxCount, Consume(b),
         Trips(b) \/ Count(b) <= MaxCount
  PROVE  /\ counter' \in [Bucket -> [count : Nat, ttl : Nat]]
         /\ block' \in [Bucket -> Nat]
         /\ \A x \in Bucket \ {b} : counter'[x] = counter[x] /\ block'[x] = block[x]
         /\ counter'[b].count <= MaxCount
         /\ Paced(counter'[b].count, counter'[b].ttl, block'[b], recent[b], Len(recent[b]),
                  Limit[b[1]], Window[b[1]], Block[b[1]])
         /\ block[b] > 0 => block'[b] = block[b]
         /\ counter[b].ttl > 0 /\ Block[b[1]] = 0 => counter'[b].ttl = counter[b].ttl
<1> DEFINE L == Limit[b[1]]
           W == Window[b[1]]
           B == Block[b[1]]
<1>1. Rates(L, W, B) /\ MaxCount \in Nat
  BY RatesOfBuckets
<1>2. counter[b] \in [count : Nat, ttl : Nat] /\ block[b] \in Nat
  BY DEF LimitShape
<1>3. CASE Held(b) /\ UNCHANGED <<counter, block>>
  BY <1>3 DEF LimitShape, Pace
<1>4. CASE /\ ~Held(b) /\ ~Trips(b)
           /\ counter' = [counter EXCEPT ![b] = Hit(b)]
           /\ UNCHANGED block
  <2>1. block[b] = 0
    BY <1>2, <1>4 DEF Held
  <2>2. Hit(b) = [count |-> counter[b].count + 1, ttl |-> IF counter[b].ttl = 0 THEN W ELSE counter[b].ttl]
    BY DEF Hit, Count, Ttl
  <2>3. Hit(b) \in [count : Nat, ttl : Nat]
    BY <1>1, <1>2, <2>2 DEF Rates
  <2>4. counter'[b] = Hit(b)
    BY <1>4 DEF LimitShape
  <2>5. Paced(counter[b].count, counter[b].ttl, 0, recent[b], Len(recent[b]), L, W, B)
    BY <2>1 DEF Pace
  <2>6. Paced(counter'[b].count, counter'[b].ttl, 0, recent[b], Len(recent[b]), L, W, B)
    <3> HIDE DEF L, W, B
    <3>1. Paced(counter[b].count + 1, IF counter[b].ttl = 0 THEN W ELSE counter[b].ttl, 0,
                recent[b], Len(recent[b]), L, W, B)
      BY <1>1, <2>5, PacedHit
    <3>. QED BY <2>2, <2>4, <3>1
  <2>7. counter'[b].count <= MaxCount
    BY <1>2, <1>4, <2>2, <2>4 DEF Count
  <2>8. counter[b].ttl > 0 => counter'[b].ttl = counter[b].ttl
    BY <1>2, <2>2, <2>4
  <2>. QED BY <1>4, <2>1, <2>3, <2>4, <2>6, <2>7, <2>8 DEF LimitShape
<1>5. CASE /\ ~Held(b) /\ Trips(b)
           /\ block' = [block EXCEPT ![b] = Block[b[1]]]
           /\ counter' = [counter EXCEPT ![b] = Absent]
  <2>1. block[b] = 0 /\ B > 0
    BY <1>1, <1>2, <1>5 DEF Held, Trips
  <2>2. counter'[b] = Absent /\ block'[b] = B /\ Absent \in [count : Nat, ttl : Nat]
    BY <1>5 DEF LimitShape, Absent
  <2>3. Paced(counter[b].count, counter[b].ttl, 0, recent[b], Len(recent[b]), L, W, B)
    BY <2>1 DEF Pace
  <2>4. Paced(0, 0, B, recent[b], Len(recent[b]), L, W, B)
    <3> HIDE DEF L, W, B
    <3>. QED BY <1>1, <2>1, <2>3, PacedTrip
  <2>5. Paced(counter'[b].count, counter'[b].ttl, block'[b], recent[b], Len(recent[b]), L, W, B)
    BY <2>2, <2>4 DEF Absent
  <2>. QED BY <1>1, <1>5, <2>1, <2>2, <2>5 DEF LimitShape, Rates, Absent
<1>. QED BY <1>3, <1>4, <1>5 DEF Consume

\* Refusals stand through a step that keeps what stands.
LEMMA RefusalsStand ==
  ASSUME NEW b \in Bucket, NEW c \in Caller, LimitShape, BlockStands(c),
         counter' \in [Bucket -> [count : Nat, ttl : Nat]], block' \in [Bucket -> Nat],
         \A x \in Bucket \ {b} : counter'[x] = counter[x] /\ block'[x] = block[x],
         block[b] > 0 => block'[b] = block[b],
         counter[b].ttl > 0 /\ Block[b[1]] = 0 => counter'[b].ttl = counter[b].ttl,
         caller'[c].by = caller[c].by, caller'[c].wait = caller[c].wait
  PROVE  BlockStands(c)'
<1>1. caller[c].by \in Bucket \cup {NoBucket}
  BY DEF LimitShape, LimitRequest
<1>2. CASE caller[c].by = NoBucket
  BY <1>2 DEF BlockStands
<1>3. CASE caller[c].by \in Bucket /\ caller[c].by # NoBucket
  <2> DEFINE x == caller[c].by
  <2>1. Block[x[1]] \in Nat
    BY <1>3, RatesOfBuckets DEF Rates
  <2>. QED BY <1>3, <2>1 DEF BlockStands
<1>. QED BY <1>1, <1>2, <1>3

LEMMA PassKeeps ==
  ASSUME LimitInv, NEW c \in Caller, Pass(c), NEW b \in Bucket, Asked(c) = b
  PROVE  LimitInv'
<1> DEFINE L == Limit[b[1]]
           W == Window[b[1]]
           B == Block[b[1]]
           n == counter[b].count
           t == counter[b].ttl
<1>1. b \in Bucket
  OBVIOUS
<1>2. Rates(L, W, B) /\ L <= MaxCount /\ MaxCount \in Nat
  BY <1>1, RatesOfBuckets
<1>3. /\ counter[b] \in [count : Nat, ttl : Nat] /\ block[b] = 0 /\ n < L
      /\ counter' = [counter EXCEPT ![b] = [count |-> n + 1, ttl |-> IF t = 0 THEN W ELSE t]]
      /\ block' = block
  <2>1. counter[b] \in [count : Nat, ttl : Nat] /\ block[b] \in Nat
    BY <1>1 DEF LimitInv, LimitShape
  <2>2. ~Held(b) /\ ~Over(b) /\ ~Trips(b) /\ Consume(b)
    BY DEF Pass, Allows, Trips
  <2>3. block[b] = 0 /\ n < L
    BY <1>2, <2>1, <2>2 DEF Held, Over, Count, Rates
  <2>. QED BY <2>1, <2>2, <2>3 DEF Consume, Hit, Count, Ttl
<1>4. /\ recent' = [recent EXCEPT ![b] = <<0>> \o recent[b]]
      /\ caller' = [caller EXCEPT ![c].next = caller[c].next + 1]
      /\ recent[b] \in Seq(Nat) /\ caller[c].at = "asked" /\ caller[c] \in LimitRequest
  BY <1>1 DEF Pass, ToNext, AtRule, LimitInv, LimitShape
<1>5. /\ counter'[b] = [count |-> n + 1, ttl |-> IF t = 0 THEN W ELSE t]
      /\ recent'[b] = <<0>> \o recent[b]
  BY <1>1, <1>3, <1>4 DEF LimitInv, LimitShape
<1>6. LimitShape'
  <2>1. counter' \in [Bucket -> [count : Nat, ttl : Nat]]
    <3>1. [count |-> n + 1, ttl |-> IF t = 0 THEN W ELSE t] \in [count : Nat, ttl : Nat]
      BY <1>2, <1>3 DEF Rates
    <3>. QED BY <1>1, <1>3, <3>1 DEF LimitInv, LimitShape
  <2>2. recent' \in [Bucket -> Seq(Nat)]
    <3>1. <<0>> \o recent[b] \in Seq(Nat)
      BY <1>4
    <3>. QED BY <1>4, <3>1 DEF LimitInv, LimitShape
  <2>3. caller' \in [Caller -> LimitRequest]
    <3>1. [caller[c] EXCEPT !.next = caller[c].next + 1] \in LimitRequest
      <4>1. caller[c].next + 1 \in Nat
        BY <1>4 DEF LimitRequest
      <4>. QED BY <1>4, <4>1 DEF LimitRequest
    <3>. QED BY <1>4, <3>1 DEF LimitInv, LimitShape
  <2>. QED BY <1>3, <2>1, <2>2, <2>3 DEF LimitInv, LimitShape
<1>7. Pace(b)' /\ counter'[b].count <= MaxCount
  <2>1. Paced(n, t, 0, recent[b], Len(recent[b]), L, W, B)
    BY <1>1, <1>3 DEF LimitInv, Pace
  <2>2. /\ Len(<<0>> \o recent[b]) = Len(recent[b]) + 1
        /\ (<<0>> \o recent[b])[1] = 0
        /\ \A i \in 1..Len(recent[b]) : (<<0>> \o recent[b])[i + 1] = recent[b][i]
    BY <1>4
  <2>3. Paced(n + 1, IF t = 0 THEN W ELSE t, 0, <<0>> \o recent[b], Len(recent[b]) + 1, L, W, B)
    <3> DEFINE f == recent[b]
               g == <<0>> \o recent[b]
               m == Len(recent[b])
    <3>1. n < L /\ Rates(L, W, B)
      BY <1>2, <1>3
    <3>2. g[1] = 0 /\ \A i \in 1..m : g[i + 1] = f[i]
      BY <2>2
    <3>3. Paced(n, t, 0, f, m, L, W, B)
      BY <2>1
    <3> HIDE DEF n, t, L, W, B, f, g, m
    <3>4. Paced(n + 1, IF t = 0 THEN W ELSE t, 0, g, m + 1, L, W, B)
      BY <3>1, <3>2, <3>3, PacedAdmission
    <3>. QED BY <3>4 DEF g, m
  <2>4. Paced(counter'[b].count, counter'[b].ttl, block'[b], recent'[b], Len(recent'[b]), L, W, B)
    BY <1>3, <1>5, <2>2, <2>3
  <2>5. Pace(b)'
    BY <2>4 DEF Pace
  <2>. QED BY <1>2, <1>3, <1>5, <2>5 DEF Rates
<1>8. ASSUME NEW x \in Bucket PROVE Pace(x)' /\ counter'[x].count <= MaxCount
  <2>1. CASE x = b
    BY <1>7, <2>1
  <2>2. CASE x # b
    BY <1>3, <1>4, <2>2 DEF LimitInv, LimitShape, Pace
  <2>. QED BY <2>1, <2>2
<1>9. ASSUME NEW x \in Caller PROVE AskedWell(x)' /\ BlockStands(x)'
  <2>1. /\ caller'[x].by = caller[x].by /\ caller'[x].wait = caller[x].wait
        /\ caller'[x].at = caller[x].at /\ caller'[x].route = caller[x].route
        /\ caller'[x].body = caller[x].body /\ caller'[x].next >= caller[x].next
        /\ caller[x].next \in Nat /\ caller'[x].next \in Nat
    BY <1>4 DEF LimitInv, LimitShape, LimitRequest
  <2>2. AskedWell(x)'
    <3>1. AskedWell(x)
      BY DEF LimitInv
    <3>2. caller[x].next >= 1 => caller'[x].next >= 1
      BY <2>1
    <3>. QED BY <2>1, <3>1, <3>2, Zenon DEF AskedWell
  <2>3. BlockStands(x)'
    <3>1. t > 0 => counter'[b].ttl = t
      BY <1>5
    <3>. QED BY <1>1, <1>3, <1>6, <2>1, <3>1, RefusalsStand DEF LimitInv, LimitShape
  <2>. QED BY <2>2, <2>3
<1>. QED BY <1>6, <1>8, <1>9 DEF LimitInv

LEMMA RefuseKeeps ==
  ASSUME LimitInv, NEW c \in Caller, Refuse(c), NEW b \in Bucket, Asked(c) = b
  PROVE  LimitInv'
<1>1. b \in Bucket
  OBVIOUS
<1>2. /\ ~Allows(b) /\ Consume(b) /\ (Trips(b) \/ Count(b) <= MaxCount)
      /\ caller' = Refused(c, b) /\ recent' = recent
  BY DEF Refuse
<1>3. Rates(Limit[b[1]], Window[b[1]], Block[b[1]]) /\ b[1] \in Rule
  BY <1>1, RatesOfBuckets
<1>4. LimitShape /\ Pace(b) /\ counter[b].count <= MaxCount /\ block[b] \in Nat
      /\ counter[b] \in [count : Nat, ttl : Nat]
  BY <1>1 DEF LimitInv, LimitShape
<1>5. /\ counter' \in [Bucket -> [count : Nat, ttl : Nat]]
      /\ block' \in [Bucket -> Nat]
      /\ \A x \in Bucket \ {b} : counter'[x] = counter[x] /\ block'[x] = block[x]
      /\ counter'[b].count <= MaxCount
      /\ Pace(b)'
      /\ block[b] > 0 => block'[b] = block[b]
      /\ counter[b].ttl > 0 /\ Block[b[1]] = 0 => counter'[b].ttl = counter[b].ttl
  BY <1>1, <1>2, <1>4, ConsumeKeepsPace DEF Pace
<1>6. /\ LastsFor(b) \in Nat
      /\ IF Block[b[1]] > 0 THEN block'[b] > 0 /\ block'[b] <= LastsFor(b)
                            ELSE counter'[b].ttl > 0 /\ counter'[b].ttl <= LastsFor(b)
  <2>1. CASE Held(b)
    <3>1. Block[b[1]] > 0
      BY <1>3, <1>4, <2>1 DEF Held, Pace, Paced, Rates
    <3>. QED BY <1>4, <1>5, <2>1, <3>1 DEF Held, LastsFor
  <2>2. CASE ~Held(b) /\ Trips(b)
    <3>1. block' = [block EXCEPT ![b] = Block[b[1]]]
      BY <1>2, <2>2 DEF Consume
    <3>2. block'[b] = Block[b[1]]
      BY <1>1, <1>4, <3>1 DEF LimitShape
    <3>. QED BY <1>3, <2>2, <3>2 DEF LastsFor, Trips, Rates
  <2>3. CASE ~Held(b) /\ ~Trips(b)
    <3>1. Block[b[1]] = 0
      BY <1>2, <1>3, <2>3 DEF Allows, Trips, Rates
    <3>2. counter'[b] = Hit(b)
      BY <1>1, <1>2, <1>4, <2>3 DEF Consume, LimitShape
    <3>3. Ttl(b) \in Nat /\ Ttl(b) > 0
      BY <1>3, <1>4 DEF Ttl, Rates
    <3>. QED BY <2>3, <3>1, <3>2, <3>3 DEF LastsFor, Hit
  <2>. QED BY <2>1, <2>2, <2>3
<1>7. RetryAfter(LastsFor(b)) \in Nat /\ RetryAfter(LastsFor(b)) >= LastsFor(b)
  BY <1>6, CeilingCovers
<1> DEFINE told == [NoRequest EXCEPT !.by = b, !.wait = RetryAfter(LastsFor(b))]
<1>8. /\ caller' = [caller EXCEPT ![c] = told] /\ told \in LimitRequest
      /\ told.by = b /\ told.wait = RetryAfter(LastsFor(b)) /\ told.at = "idle"
  BY <1>1, <1>2, <1>7 DEF Refused, NoRequest, LimitRequest
<1> HIDE DEF told
<1>9. caller'[c] = told
  BY <1>8, <1>4 DEF LimitShape
<1>10. LimitShape'
  BY <1>2, <1>4, <1>5, <1>8 DEF LimitShape
<1>11. ASSUME NEW x \in Bucket PROVE Pace(x)' /\ counter'[x].count <= MaxCount
  <2>1. CASE x = b
    BY <1>5, <2>1
  <2>2. CASE x # b
    BY <1>2, <1>5, <2>2 DEF LimitInv, Pace
  <2>. QED BY <2>1, <2>2
<1>12. ASSUME NEW x \in Caller PROVE AskedWell(x)' /\ BlockStands(x)'
  <2>1. CASE x = c
    <3>1. AskedWell(x)'
      BY <1>8, <1>9, <2>1 DEF AskedWell
    <3>2. block'[b] \in Nat /\ counter'[b].ttl \in Nat
      BY <1>1, <1>5
    <3>3. BlockStands(x)'
      BY <1>6, <1>7, <1>8, <1>9, <2>1, <3>2 DEF BlockStands
    <3>. QED BY <3>1, <3>3
  <2>2. CASE x # c
    <3>1. caller'[x] = caller[x]
      BY <1>4, <1>8, <2>2 DEF LimitShape
    <3>. QED BY <1>1, <1>4, <1>5, <3>1, RefusalsStand DEF LimitInv, AskedWell
  <2>. QED BY <2>1, <2>2
<1>. QED BY <1>10, <1>11, <1>12 DEF LimitInv

LEMMA DegradeKeeps ==
  ASSUME LimitInv, NEW c \in Caller, Degrade(c), NEW b \in Bucket, Asked(c) = b
  PROVE  LimitInv'
<1>1. Rates(Limit[b[1]], Window[b[1]], Block[b[1]]) /\ b[1] \in Rule
  BY RatesOfBuckets
<1>2. LimitShape /\ Pace(b) /\ counter[b].count <= MaxCount
  BY DEF LimitInv
<1>3. /\ counter' \in [Bucket -> [count : Nat, ttl : Nat]]
      /\ block' \in [Bucket -> Nat]
      /\ \A x \in Bucket \ {b} : counter'[x] = counter[x] /\ block'[x] = block[x]
      /\ counter'[b].count <= MaxCount
      /\ Pace(b)'
      /\ block[b] > 0 => block'[b] = block[b]
      /\ counter[b].ttl > 0 /\ Block[b[1]] = 0 => counter'[b].ttl = counter[b].ttl
  <2>1. recent' = recent
    BY DEF Degrade
  <2>2. CASE Consume(b)
    BY <1>2, <2>1, <2>2, ConsumeKeepsPace DEF Pace, Degrade
  <2>3. CASE UNCHANGED <<counter, block>>
    BY <1>2, <2>1, <2>3 DEF Pace, LimitShape
  <2>. QED BY <2>2, <2>3 DEF Degrade
<1>4. /\ caller[c] \in LimitRequest /\ caller[c].at = "asked" /\ recent' = recent
      /\ \/ caller' = [caller EXCEPT ![c] = NoRequest]
         \/ caller' = [caller EXCEPT ![c].next = caller[c].next + 1]
  BY DEF Degrade, Turned, ToNext, AtRule, LimitInv, LimitShape
<1>5. LimitShape'
  <2>1. NoRequest \in LimitRequest
    BY DEF NoRequest, LimitRequest
  <2>2. [caller[c] EXCEPT !.next = caller[c].next + 1] \in LimitRequest
    <3>1. caller[c].next + 1 \in Nat
      BY <1>4 DEF LimitRequest
    <3>. QED BY <1>4, <3>1 DEF LimitRequest
  <2>3. caller' \in [Caller -> LimitRequest]
    BY <1>4, <2>1, <2>2 DEF LimitInv, LimitShape
  <2>. QED BY <1>3, <1>4, <2>3 DEF LimitInv, LimitShape
<1>6. ASSUME NEW x \in Bucket PROVE Pace(x)' /\ counter'[x].count <= MaxCount
  <2>1. CASE x = b
    BY <1>3, <2>1
  <2>2. CASE x # b
    BY <1>3, <1>4, <2>2 DEF LimitInv, Pace
  <2>. QED BY <2>1, <2>2
<1>7. ASSUME NEW x \in Caller PROVE AskedWell(x)' /\ BlockStands(x)'
  <2>1. CASE caller'[x] = NoRequest
    BY <2>1 DEF AskedWell, BlockStands, NoRequest
  <2>2. CASE caller'[x] # NoRequest
    <3>1. /\ caller'[x].by = caller[x].by /\ caller'[x].wait = caller[x].wait
          /\ caller'[x].at = caller[x].at /\ caller'[x].route = caller[x].route
          /\ caller'[x].body = caller[x].body /\ caller'[x].next >= caller[x].next
          /\ caller[x].next \in Nat /\ caller'[x].next \in Nat
      <4>1. caller[x] \in LimitRequest /\ caller[x].next \in Nat
        BY DEF LimitInv, LimitShape, LimitRequest
      <4>2. CASE caller'[x] = caller[x]
        BY <4>1, <4>2
      <4>3. CASE x = c /\ caller'[x] = [caller[x] EXCEPT !.next = caller[x].next + 1]
        BY <4>1, <4>3 DEF LimitRequest
      <4>. QED BY <1>4, <2>2, <4>2, <4>3 DEF LimitInv, LimitShape
    <3>2. AskedWell(x)'
      <4>1. AskedWell(x)
        BY DEF LimitInv
      <4>2. caller[x].next >= 1 => caller'[x].next >= 1
        BY <3>1
      <4>. QED BY <3>1, <4>1, <4>2, Zenon DEF AskedWell
    <3>3. BlockStands(x)'
      BY <1>2, <1>3, <3>1, RefusalsStand DEF LimitInv
    <3>. QED BY <3>2, <3>3
  <2>. QED BY <2>1, <2>2
<1>. QED BY <1>5, <1>6, <1>7 DEF LimitInv

\* Keys that are gone take with them the refusals they were the cause of.
LEMMA ReleasedIsTyped ==
  ASSUME NEW callers \in [Caller -> LimitRequest], NEW gone
  PROVE  Released(callers, gone) \in [Caller -> LimitRequest]
BY DEF Released, NoRequest, LimitRequest

LEMMA ServeKeeps ==
  ASSUME LimitInv, NEW c \in Caller, Serve(c)
  PROVE  LimitInv'
<1>1. PICK cleared \in SUBSET Bucket :
        /\ counter' = [b \in Bucket |-> IF b \in cleared THEN Absent ELSE counter[b]]
        /\ block' = [b \in Bucket |-> IF b \in cleared THEN 0 ELSE block[b]]
        /\ recent' = [b \in Bucket |-> IF b \in cleared THEN <<>> ELSE recent[b]]
        /\ caller' = Released(Turned(c), cleared)
  BY DEF Serve
<1>2. Turned(c) \in [Caller -> LimitRequest]
  BY DEF Turned, LimitInv, LimitShape, NoRequest, LimitRequest
<1>3. LimitShape'
  <2>1. caller' \in [Caller -> LimitRequest]
    BY <1>1, <1>2, ReleasedIsTyped
  <2>. QED BY <1>1, <2>1 DEF LimitInv, LimitShape, Absent
<1>4. ASSUME NEW b \in Bucket PROVE Pace(b)' /\ counter'[b].count <= MaxCount
  <2>1. Rates(Limit[b[1]], Window[b[1]], Block[b[1]]) /\ MaxCount \in Nat
    BY RatesOfBuckets
  <2>2. CASE b \in cleared
    <3>1. counter'[b] = Absent /\ block'[b] = 0 /\ recent'[b] = <<>> /\ Len(<<>>) = 0
      BY <1>1, <2>2
    <3>2. Paced(0, 0, 0, <<>>, 0, Limit[b[1]], Window[b[1]], Block[b[1]])
      BY <2>1, PacedAtFirst
    <3>3. Pace(b)'
      BY <3>1, <3>2 DEF Pace, Absent
    <3>. QED BY <2>1, <3>1, <3>3 DEF Absent
  <2>3. CASE b \notin cleared
    BY <1>1, <2>3 DEF LimitInv, Pace
  <2>. QED BY <2>2, <2>3
<1>5. ASSUME NEW x \in Caller PROVE AskedWell(x)' /\ BlockStands(x)'
  <2>1. CASE caller'[x] = NoRequest
    BY <2>1 DEF AskedWell, BlockStands, NoRequest
  <2>2. CASE caller'[x] # NoRequest
    <3>1. caller'[x] = caller[x] /\ caller[x].by \notin cleared
      BY <1>1, <2>2 DEF Released, Turned, LimitInv, LimitShape
    <3>2. caller[x].by \in Bucket \cup {NoBucket}
      BY DEF LimitInv, LimitShape, LimitRequest
    <3>3. caller[x].by \in Bucket => /\ counter'[caller[x].by] = counter[caller[x].by]
                                     /\ block'[caller[x].by] = block[caller[x].by]
      BY <1>1, <3>1
    <3>. QED BY <3>1, <3>2, <3>3 DEF LimitInv, AskedWell, BlockStands
  <2>. QED BY <2>1, <2>2
<1>. QED BY <1>3, <1>4, <1>5 DEF LimitInv

LEMMA ElapseKeeps ==
  ASSUME LimitInv, Elapse
  PROVE  LimitInv'
<1> DEFINE waiting == [c \in Caller |-> [caller[c] EXCEPT !.wait = Down(caller[c].wait)]]
<1>1. /\ counter' = [b \in Bucket |-> IF counter[b].ttl > 1
                                        THEN [counter[b] EXCEPT !.ttl = counter[b].ttl - 1] ELSE Absent]
      /\ block' = [b \in Bucket |-> Down(block[b])]
      /\ recent' = [b \in Bucket |-> Older(recent[b], b)]
      /\ caller' = Released(waiting, Gone)
  BY DEF Elapse, Lasting
<1>2. waiting \in [Caller -> LimitRequest]
  <2>1. ASSUME NEW c \in Caller PROVE [caller[c] EXCEPT !.wait = Down(caller[c].wait)] \in LimitRequest
    <3>1. caller[c] \in LimitRequest
      BY DEF LimitInv, LimitShape
    <3>2. Down(caller[c].wait) \in Nat
      BY <3>1 DEF Down, LimitRequest
    <3>. QED BY <3>1, <3>2 DEF LimitRequest
  <2>. QED BY <2>1
<1>3. ASSUME NEW b \in Bucket
      PROVE  /\ counter'[b] \in [count : Nat, ttl : Nat] /\ block'[b] \in Nat
             /\ recent'[b] \in Seq(Nat)
             /\ Pace(b)' /\ counter'[b].count <= MaxCount
  <2> DEFINE n == counter[b].count
             t == counter[b].ttl
             k == block[b]
             f == recent[b]
             m == Len(recent[b])
             L == Limit[b[1]]
             W == Window[b[1]]
             B == Block[b[1]]
  <2>1. Rates(L, W, B) /\ MaxCount \in Nat
    BY RatesOfBuckets
  <2>2. /\ counter[b] \in [count : Nat, ttl : Nat] /\ k \in Nat /\ f \in Seq(Nat)
        /\ Paced(n, t, k, f, m, L, W, B) /\ n <= MaxCount
    BY DEF LimitInv, LimitShape, Pace
  <2>3. W \in Nat /\ \A i, j \in 1..m : i <= j => f[i] <= f[j]
    BY <2>1, <2>2 DEF Rates, Paced
  <2>4. PICK q \in 0..m : /\ Older(f, b) \in Seq(Nat) /\ Len(Older(f, b)) = q
                          /\ \A i \in 1..q : Older(f, b)[i] = f[i] + 1 /\ f[i] + 1 < W
                          /\ \A i \in q+1..m : f[i] + 1 >= W
    BY <2>2, <2>3, OlderIsHead
  <2>5. Paced(IF t > 1 THEN n ELSE 0, Drop(t), Down(k), Older(f, b), q, L, W, B)
    <3> DEFINE g == Older(f, b)
    <3>1. \A i \in 1..q : g[i] = f[i] + 1 /\ f[i] + 1 < W
      BY <2>4
    <3>2. \A i \in q+1..m : f[i] + 1 >= W
      BY <2>4
    <3>3. q \in 0..m /\ Rates(L, W, B) /\ Paced(n, t, k, f, m, L, W, B)
      BY <2>1, <2>2
    <3> HIDE DEF n, t, k, f, m, L, W, B, g
    <3>4. Paced(IF t > 1 THEN n ELSE 0, Drop(t), Down(k), g, q, L, W, B)
      BY <3>1, <3>2, <3>3, PacedTick
    <3>. QED BY <3>4 DEF g
  <2>6. /\ counter'[b] = IF t > 1 THEN [count |-> n, ttl |-> t - 1] ELSE [count |-> 0, ttl |-> 0]
        /\ block'[b] = Down(k) /\ recent'[b] = Older(f, b)
    BY <1>1, <2>2 DEF Absent
  <2>7. counter'[b].count = (IF t > 1 THEN n ELSE 0) /\ counter'[b].ttl = Drop(t)
    BY <2>6 DEF Drop
  <2>8. Pace(b)'
    BY <2>4, <2>5, <2>6, <2>7 DEF Pace
  <2>9. block'[b] \in Nat
    BY <2>2, <2>6 DEF Down
  <2>. QED BY <2>1, <2>2, <2>4, <2>6, <2>8, <2>9
<1>4. LimitShape'
  BY <1>1, <1>2, <1>3, ReleasedIsTyped DEF LimitShape
<1>5. ASSUME NEW x \in Caller PROVE AskedWell(x)' /\ BlockStands(x)'
  <2>1. CASE caller'[x] = NoRequest
    BY <2>1 DEF AskedWell, BlockStands, NoRequest
  <2>2. CASE caller'[x] # NoRequest
    <3>1. caller[x] \in LimitRequest /\ caller[x].wait \in Nat
      BY DEF LimitInv, LimitShape, LimitRequest
    <3>2. waiting[x].by = caller[x].by
      BY <3>1 DEF LimitRequest
    <3>3. caller'[x] = [caller[x] EXCEPT !.wait = Down(caller[x].wait)] /\ caller[x].by \notin Gone
      BY <1>1, <2>2, <3>2 DEF Released
    <3>4. AskedWell(x)'
      BY <3>1, <3>3 DEF LimitInv, AskedWell, LimitRequest
    <3>5. CASE caller[x].by = NoBucket
      <4>1. caller'[x].by = NoBucket
        BY <3>1, <3>3, <3>5 DEF LimitRequest
      <4>2. BlockStands(x)'
        BY <4>1, Zenon DEF BlockStands
      <4>. QED BY <3>4, <4>2
    <3>6. CASE caller[x].by # NoBucket
      <4> DEFINE b == caller[x].by
      <4>1. b \in Bucket /\ b \notin Gone /\ BlockStands(x)
        BY <3>1, <3>3, <3>6 DEF LimitInv, LimitRequest
      <4>2. /\ counter[b] \in [count : Nat, ttl : Nat] /\ block[b] \in 0..Block[b[1]]
            /\ Block[b[1]] \in Nat
        BY <4>1, RatesOfBuckets DEF LimitInv, LimitShape, Pace, Paced, Rates
      <4>3. caller'[x].by = b /\ caller'[x].wait = Down(caller[x].wait)
        BY <3>1, <3>3 DEF LimitRequest
      <4>4. CASE Block[b[1]] > 0
        <5>1. block[b] > 1 /\ block[b] <= caller[x].wait
          BY <3>6, <4>1, <4>2, <4>4 DEF BlockStands, Gone, Held
        <5>2. block'[b] = block[b] - 1
          BY <1>1, <4>1, <4>2, <5>1 DEF Down
        <5>. QED BY <3>1, <3>4, <3>6, <4>2, <4>3, <4>4, <5>1, <5>2 DEF BlockStands, Down
      <4>5. CASE Block[b[1]] = 0
        <5>1. counter[b].ttl > 1 /\ counter[b].ttl <= caller[x].wait
          BY <3>6, <4>1, <4>2, <4>5 DEF BlockStands, Gone, Held, Lasting
        <5>2. counter'[b].ttl = counter[b].ttl - 1
          BY <1>1, <4>1, <4>2, <5>1
        <5>. QED BY <3>1, <3>4, <3>6, <4>2, <4>3, <4>5, <5>1, <5>2 DEF BlockStands, Down
      <4>. QED BY <4>2, <4>4, <4>5
    <3>. QED BY <3>4, <3>5, <3>6
  <2>. QED BY <2>1, <2>2
<1>. QED BY <1>3, <1>4, <1>5 DEF LimitInv

LEMMA LimitInvInit == LimitInit => LimitInv
<1> SUFFICES ASSUME LimitInit PROVE LimitInv
  OBVIOUS
<1>1. LimitShape
  BY DEF LimitInit, LimitShape, Absent, NoRequest, LimitRequest
<1>2. ASSUME NEW b \in Bucket PROVE Pace(b) /\ counter[b].count <= MaxCount
  <2>1. Rates(Limit[b[1]], Window[b[1]], Block[b[1]]) /\ MaxCount \in Nat
    BY RatesOfBuckets
  <2>2. counter[b] = [count |-> 0, ttl |-> 0] /\ block[b] = 0 /\ recent[b] = <<>> /\ Len(<<>>) = 0
    BY DEF LimitInit, Absent
  <2>3. Paced(0, 0, 0, <<>>, 0, Limit[b[1]], Window[b[1]], Block[b[1]])
    BY <2>1, PacedAtFirst
  <2>4. Pace(b)
    BY <2>2, <2>3 DEF Pace
  <2>. QED BY <2>1, <2>2, <2>4
<1>3. \A c \in Caller : AskedWell(c) /\ BlockStands(c)
  BY DEF LimitInit, AskedWell, BlockStands, NoRequest
<1>. QED BY <1>1, <1>2, <1>3 DEF LimitInv

LEMMA LimitInvStep == LimitInv /\ [LimitNext]_limitVars => LimitInv'
<1> SUFFICES ASSUME LimitInv, [LimitNext]_limitVars PROVE LimitInv'
  OBVIOUS
<1>1. ASSUME NEW c \in Caller, NEW route \in Route, NEW body \in Body, Arrive(c, route, body)
      PROVE  LimitInv'
  <2> DEFINE new == [NoRequest EXCEPT !.at = "asked", !.route = route, !.body = body, !.next = 1]
  <2>1. /\ new \in LimitRequest /\ new.at = "asked" /\ new.route = route /\ new.body = body
        /\ new.next = 1 /\ new.by = NoBucket
    BY DEF NoRequest, LimitRequest
  <2>2. caller' = [caller EXCEPT ![c] = new] /\ UNCHANGED <<counter, block, recent>>
    BY <1>1 DEF Arrive
  <2> HIDE DEF new
  <2>3. LimitShape'
    BY <2>1, <2>2 DEF LimitInv, LimitShape
  <2>4. \A b \in Bucket : Pace(b)' /\ counter'[b].count <= MaxCount
    BY <2>2 DEF LimitInv, Pace
  <2>5. ASSUME NEW x \in Caller PROVE AskedWell(x)' /\ BlockStands(x)'
    <3>1. CASE x = c
      <4>1. caller'[x] = new
        BY <2>2, <3>1 DEF LimitInv, LimitShape
      <4>. QED BY <2>1, <4>1 DEF AskedWell, BlockStands
    <3>2. CASE x # c
      BY <2>2, <3>2 DEF LimitInv, LimitShape, AskedWell, BlockStands
    <3>. QED BY <3>1, <3>2
  <2>. QED BY <2>3, <2>4, <2>5 DEF LimitInv
<1>2. ASSUME NEW c \in Caller, Skip(c) PROVE LimitInv'
  <2>1. /\ caller[c] \in LimitRequest /\ caller[c].next \in Nat
        /\ caller' = [caller EXCEPT ![c].next = caller[c].next + 1]
        /\ UNCHANGED <<counter, block, recent>>
    BY <1>2 DEF Skip, ToNext, LimitInv, LimitShape, LimitRequest
  <2>2. [caller[c] EXCEPT !.next = caller[c].next + 1] \in LimitRequest
    BY <2>1 DEF LimitRequest
  <2>3. LimitShape'
    BY <2>1, <2>2 DEF LimitInv, LimitShape
  <2>4. \A b \in Bucket : Pace(b)' /\ counter'[b].count <= MaxCount
    BY <2>1 DEF LimitInv, Pace
  <2>5. ASSUME NEW x \in Caller PROVE AskedWell(x)' /\ BlockStands(x)'
    <3>1. CASE x = c
      <4>1. caller'[x] = [caller[x] EXCEPT !.next = caller[x].next + 1] /\ AskedWell(x) /\ BlockStands(x)
        BY <2>1, <3>1 DEF LimitInv, LimitShape
      <4>2. /\ caller'[x].by = caller[x].by /\ caller'[x].wait = caller[x].wait
            /\ caller'[x].at = caller[x].at /\ caller'[x].route = caller[x].route
            /\ caller'[x].body = caller[x].body
            /\ caller[x].next >= 1 => caller'[x].next >= 1
        BY <2>1, <3>1, <4>1 DEF LimitRequest
      <4>3. AskedWell(x)'
        BY <4>1, <4>2, Zenon DEF AskedWell
      <4>4. BlockStands(x)'
        BY <2>1, <4>1, <4>2 DEF BlockStands
      <4>. QED BY <4>3, <4>4
    <3>2. CASE x # c
      BY <2>1, <3>2 DEF LimitInv, LimitShape, AskedWell, BlockStands
    <3>. QED BY <3>1, <3>2
  <2>. QED BY <2>3, <2>4, <2>5 DEF LimitInv
<1>3. ASSUME NEW c \in Caller, Pass(c) PROVE LimitInv'
  <2>1. Asked(c) \in Bucket
    BY <1>3, AskedIsBucket DEF LimitInv, Pass
  <2>. QED BY <1>3, <2>1, PassKeeps
<1>4. ASSUME NEW c \in Caller, Refuse(c) PROVE LimitInv'
  <2>1. Asked(c) \in Bucket
    BY <1>4, AskedIsBucket DEF LimitInv, Refuse
  <2>. QED BY <1>4, <2>1, RefuseKeeps
<1>5. ASSUME NEW c \in Caller, Degrade(c) PROVE LimitInv'
  <2>1. Asked(c) \in Bucket
    BY <1>5, AskedIsBucket DEF LimitInv, Degrade
  <2>. QED BY <1>5, <2>1, DegradeKeeps
<1>6. ASSUME NEW c \in Caller, Serve(c) PROVE LimitInv'
  BY <1>6, ServeKeeps
<1>7. CASE Elapse
  BY <1>7, ElapseKeeps
<1>8. CASE UNCHANGED limitVars
  BY <1>8 DEF limitVars, LimitInv, LimitShape, Pace, AskedWell, BlockStands
<1>. QED BY <1>1, <1>2, <1>3, <1>4, <1>5, <1>6, <1>7, <1>8 DEF LimitNext

LEMMA LimitInvHolds == LimitSpec => []LimitInv
BY LimitInvInit, LimitInvStep, PTL DEF LimitSpec

\* Counters, keys and requests have their types, whatever Redis does.
THEOREM LimitsTyped == LimitSpec => []LimitTypeOK
<1>1. LimitInv => LimitTypeOK
  <2> SUFFICES ASSUME LimitInv PROVE LimitTypeOK
    OBVIOUS
  <2>1. ASSUME NEW b \in Bucket
        PROVE  /\ counter[b].count \in 0..MaxCount /\ counter[b].ttl \in 0..Window[b[1]]
               /\ counter[b].count = 0 <=> counter[b].ttl = 0
               /\ block[b] \in 0..Block[b[1]]
               /\ Held(b) => counter[b] = Absent
    <3>1. counter[b] \in [count : Nat, ttl : Nat] /\ counter[b].count <= MaxCount
      BY DEF LimitInv, LimitShape
    <3>2. /\ counter[b].count \in Nat /\ counter[b].ttl \in 0..Window[b[1]]
          /\ block[b] \in 0..Block[b[1]]
          /\ (counter[b].count = 0 <=> counter[b].ttl = 0)
          /\ (block[b] > 0 => counter[b].count = 0)
      BY DEF LimitInv, Pace, Paced
    <3>. QED BY <3>1, <3>2, RatesOfBuckets DEF Held, Absent
  <2>2. ASSUME NEW c \in Caller
        PROVE  /\ caller[c].at \in {"idle", "asked"} /\ caller[c].wait \in Nat
               /\ caller[c].by \in Bucket \cup {NoBucket}
    BY DEF LimitInv, LimitShape, LimitRequest
  <2>. QED BY <2>1, <2>2 DEF LimitTypeOK
<1>. QED BY <1>1, LimitInvHolds, PTL

\* No bucket admits twice its limit within a window, and no refused caller is
\* told to come back before the key that refused it is gone.
THEOREM LimitsHold == LimitSpec => []LimitsSound
<1>1. LimitInv => LimitsSound
  <2> SUFFICES ASSUME LimitInv PROVE LimitsSound
    OBVIOUS
  <2>1. BurstsBounded
    BY DEF LimitInv, Pace, Paced, BurstsBounded
  <2>2. ASSUME NEW c \in Caller, caller[c].by # NoBucket
        PROVE  LET b == caller[c].by
               IN (IF Held(b) THEN block[b] ELSE counter[b].ttl) <= caller[c].wait
    <3> DEFINE b == caller[c].by
    <3>1. b \in Bucket /\ BlockStands(c)
      BY <2>2 DEF LimitInv, LimitShape, LimitRequest
    <3>2. block[b] \in 0..Block[b[1]] /\ Block[b[1]] \in Nat
      BY <3>1, RatesOfBuckets DEF LimitInv, Pace, Paced, Rates
    <3>. QED BY <2>2, <3>1, <3>2 DEF BlockStands, Held
  <2>. QED BY <2>1, <2>2 DEF LimitsSound, WaitIsEnough
<1>. QED BY <1>1, LimitInvHolds, PTL

(***************************************************************************)
(* A rule of limit 1 without a block is the cooldown.                      *)
(***************************************************************************)

LEMMA SinglesAreCooldowns ==
  ASSUME LimitInv, NEW b \in Single
  PROVE  /\ b \in Bucket /\ Window[b[1]] \in Nat \ {0} /\ Limit[b[1]] = 1 /\ Block[b[1]] = 0
         /\ counter[b] \in [count : Nat, ttl : Nat] /\ block[b] = 0
         /\ counter[b].count = 0 <=> counter[b].ttl = 0
         /\ counter[b].ttl = 0 => recent[b] = <<>>
         /\ \/ recent[b] = <<>>
            \/ recent[b] = <<Window[b[1]] - counter[b].ttl>>
<1>1. b \in Bucket /\ Limit[b[1]] = 1 /\ b[1] \notin Blocking
  BY DEF Single
<1>2. b[1] \in Rule /\ Window[b[1]] \in Nat \ {0}
  BY <1>1, RatesOfBuckets DEF Rates
<1>3. Block[b[1]] = 0
  BY <1>1, <1>2, RateLimitAssumption
<1>4. /\ counter[b] \in [count : Nat, ttl : Nat] /\ block[b] \in Nat /\ recent[b] \in Seq(Nat)
      /\ Paced(counter[b].count, counter[b].ttl, block[b], recent[b], Len(recent[b]),
               1, Window[b[1]], 0)
  BY <1>1, <1>3 DEF LimitInv, LimitShape, Pace
<1>5. /\ block[b] = 0 /\ counter[b].ttl \in Nat /\ Len(recent[b]) \in {0, 1}
      /\ counter[b].ttl = 0 => Len(recent[b]) = 0
      /\ counter[b].count = 0 <=> counter[b].ttl = 0
  <2>1. Len(recent[b]) \in Nat /\ Len(recent[b]) < 2
    BY <1>4 DEF Paced
  <2>2. block[b] = 0 /\ counter[b].ttl \in Nat /\ (counter[b].count = 0 <=> counter[b].ttl = 0)
    BY <1>4 DEF Paced
  <2>3. counter[b].ttl = 0 => Len(recent[b]) < 1
    BY <1>4, <2>2 DEF Paced
  <2>4. Len(recent[b]) = 0 \/ Len(recent[b]) = 1
    <3>1. \A m \in Nat : m < 2 => m = 0 \/ m = 1
      OBVIOUS
    <3>. QED BY <2>1, <3>1, Zenon
  <2>5. counter[b].ttl = 0 => Len(recent[b]) = 0
    BY <2>3, <2>4
  <2>. QED BY <2>2, <2>4, <2>5, Zenon
<1>6. Len(recent[b]) = 1 => recent[b][1] = Window[b[1]] - counter[b].ttl
  <2>1. SUFFICES ASSUME Len(recent[b]) = 1 PROVE recent[b][1] = Window[b[1]] - counter[b].ttl
    OBVIOUS
  <2>2. counter[b].ttl > 0
    BY <1>5, <2>1
  <2>3. /\ recent[b][1] >= Window[b[1]] - counter[b].ttl
        /\ recent[b][1] <= Window[b[1]] - counter[b].ttl
        /\ recent[b][1] \in Nat
    BY <1>4, <2>1, <2>2 DEF Paced
  <2>. QED BY <1>2, <1>5, <2>3
<1>7. Len(recent[b]) = 0 => recent[b] = <<>>
  BY <1>4
<1>8. Len(recent[b]) = 1 => recent[b] = <<recent[b][1]>>
  BY <1>4
<1>. QED BY <1>1, <1>2, <1>3, <1>4, <1>5, <1>6, <1>7, <1>8

\* The counters and admissions of a bucket that is not single do not show.
LEMMA HitsOfOthersHide ==
  ASSUME NEW b \in Bucket \ Single, LimitShape,
         \A x \in Bucket \ {b} : counter'[x] = counter[x],
         \A x \in Bucket \ {b} : recent'[x] = recent[x]
  PROVE  UNCHANGED Cool!cooldownVars
<1>1. /\ [x \in Single |-> counter'[x].ttl] = [x \in Single |-> counter[x].ttl]
      /\ [x \in Single |-> recent'[x]] = [x \in Single |-> recent[x]]
  BY DEF Single
<1>. QED BY <1>1 DEF Cool!cooldownVars

LEMMA CooldownStep ==
  LimitInv /\ [LimitNext]_limitVars => [Cool!Next]_(Cool!cooldownVars)
<1> SUFFICES ASSUME LimitInv, [LimitNext]_limitVars PROVE [Cool!Next]_(Cool!cooldownVars)
  OBVIOUS
<1>0. LimitShape
  BY DEF LimitInv
<1>1. ASSUME UNCHANGED <<counter, recent>> PROVE UNCHANGED Cool!cooldownVars
  BY <1>1 DEF Cool!cooldownVars
<1>2. ASSUME NEW c \in Caller, NEW route \in Route, NEW body \in Body, Arrive(c, route, body)
      PROVE  UNCHANGED Cool!cooldownVars
  BY <1>1, <1>2 DEF Arrive
<1>3. ASSUME NEW c \in Caller, Skip(c) PROVE UNCHANGED Cool!cooldownVars
  BY <1>1, <1>3 DEF Skip
<1>4. ASSUME NEW c \in Caller, Pass(c), NEW b \in Bucket, b = Asked(c)
      PROVE  [Cool!Next]_(Cool!cooldownVars)
  <2>1. /\ ~Held(b) /\ ~Over(b) /\ Consume(b)
        /\ recent' = [recent EXCEPT ![b] = <<0>> \o recent[b]]
    BY <1>4 DEF Pass, Allows
  <2>2. counter' = [counter EXCEPT ![b] = Hit(b)]
    BY <2>1 DEF Consume, Trips
  <2>3. CASE b \in Single
    <3>1. counter[b].count = 0 /\ counter[b].ttl = 0 /\ recent[b] = <<>>
      BY <2>1, <2>3, SinglesAreCooldowns DEF Over, Count
    <3>2. counter'[b].ttl = Window[b[1]] /\ recent'[b] = <<0>>
      BY <1>0, <2>1, <2>2, <3>1 DEF Hit, Ttl, LimitShape
    <3>3. \A x \in Single : x # b => counter'[x] = counter[x] /\ recent'[x] = recent[x]
      BY <1>0, <2>1, <2>2 DEF Single, LimitShape
    <3>4. /\ [x \in Single |-> counter'[x].ttl] =
                [[x \in Single |-> counter[x].ttl] EXCEPT ![b] = [x \in Single |-> Window[x[1]]][b]]
          /\ [x \in Single |-> recent'[x]] = [[x \in Single |-> recent[x]] EXCEPT ![b] = <<0>>]
      BY <2>3, <3>2, <3>3
    <3>. QED BY <2>3, <3>1, <3>4 DEF Cool!Next, Cool!Grant
  <2>4. CASE b \notin Single
    <3>1. \A x \in Bucket \ {b} : counter'[x] = counter[x] /\ recent'[x] = recent[x]
      BY <1>0, <2>1, <2>2 DEF LimitShape
    <3>. QED BY <1>0, <1>4, <2>4, <3>1, HitsOfOthersHide
  <2>. QED BY <2>3, <2>4
<1>5. ASSUME NEW b \in Bucket, Consume(b) \/ UNCHANGED <<counter, block>>, recent' = recent
      PROVE  [Cool!Next]_(Cool!cooldownVars)
  <2>1. CASE UNCHANGED counter
    BY <1>1, <1>5, <2>1
  <2>2. CASE b \in Single /\ counter' # counter
    <3>1. Block[b[1]] = 0 /\ block[b] = 0
      BY <2>2, SinglesAreCooldowns
    <3>2. counter' = [counter EXCEPT ![b] = Hit(b)]
      BY <1>5, <2>2, <3>1 DEF Consume, Trips, Held
    <3>3. counter'[b].ttl = IF counter[b].ttl = 0 THEN Window[b[1]] ELSE counter[b].ttl
      BY <1>0, <3>2 DEF Hit, Ttl, LimitShape
    <3>4. \A x \in Single : x # b => counter'[x] = counter[x]
      BY <1>0, <3>2 DEF Single, LimitShape
    <3>5. CASE counter[b].ttl = 0
      <4>1. /\ [x \in Single |-> counter'[x].ttl] =
                [[x \in Single |-> counter[x].ttl] EXCEPT ![b] = [x \in Single |-> Window[x[1]]][b]]
            /\ [x \in Single |-> recent'[x]] = [x \in Single |-> recent[x]]
        BY <1>5, <2>2, <3>3, <3>4, <3>5
      <4>. QED BY <2>2, <3>5, <4>1 DEF Cool!Next, Cool!Waste
    <3>6. CASE counter[b].ttl # 0
      <4>1. [x \in Single |-> counter'[x].ttl] = [x \in Single |-> counter[x].ttl]
        BY <3>3, <3>4, <3>6
      <4>. QED BY <1>5, <4>1 DEF Cool!cooldownVars
    <3>. QED BY <3>5, <3>6
  <2>3. CASE b \notin Single
    <3>1. \A x \in Bucket \ {b} : counter'[x] = counter[x]
      BY <1>0, <1>5 DEF Consume, LimitShape
    <3>. QED BY <1>0, <1>5, <2>3, <3>1, HitsOfOthersHide
  <2>. QED BY <2>1, <2>2, <2>3
<1>6. ASSUME NEW c \in Caller, Serve(c) PROVE Cool!Next
  <2>1. PICK cleared \in SUBSET Bucket :
          /\ counter' = [b \in Bucket |-> IF b \in cleared THEN Absent ELSE counter[b]]
          /\ recent' = [b \in Bucket |-> IF b \in cleared THEN <<>> ELSE recent[b]]
    BY <1>6 DEF Serve
  <2>2. /\ [x \in Single |-> counter'[x].ttl] =
              [x \in Single |-> IF x \in cleared \cap Single THEN 0
                                ELSE [y \in Single |-> counter[y].ttl][x]]
        /\ [x \in Single |-> recent'[x]] =
              [x \in Single |-> IF x \in cleared \cap Single THEN <<>>
                                ELSE [y \in Single |-> recent[y]][x]]
    BY <2>1 DEF Single, Absent
  <2>3. cleared \cap Single \in SUBSET Single
    OBVIOUS
  <2>4. Cool!Clear(cleared \cap Single)
    BY <2>2 DEF Cool!Clear
  <2>. QED BY <2>3, <2>4 DEF Cool!Next
<1>7. CASE Elapse
  <2>1. ASSUME NEW b \in Single
        PROVE  /\ counter'[b].ttl = IF counter[b].ttl > 0 THEN counter[b].ttl - 1 ELSE 0
               /\ recent'[b] = IF counter[b].ttl > 1 /\ recent[b] # <<>>
                                 THEN <<recent[b][1] + 1>> ELSE <<>>
    <3> DEFINE t == counter[b].ttl
               W == Window[b[1]]
    <3>1. /\ b \in Bucket /\ W \in Nat \ {0} /\ counter[b] \in [count : Nat, ttl : Nat] /\ t \in Nat
          /\ t = 0 => recent[b] = <<>>
          /\ recent[b] = <<>> \/ recent[b] = <<W - t>>
      BY SinglesAreCooldowns
    <3>2. /\ counter'[b] = IF t > 1 THEN [counter[b] EXCEPT !.ttl = t - 1] ELSE Absent
          /\ recent'[b] = Older(recent[b], b)
      BY <1>7, <3>1 DEF Elapse, Lasting
    <3>3. counter'[b].ttl = IF t > 0 THEN t - 1 ELSE 0
      BY <3>1, <3>2 DEF Absent
    <3>4. CASE recent[b] = <<>>
      BY <3>2, <3>3, <3>4 DEF Older
    <3>5. CASE recent[b] = <<W - t>>
      <4>1. DOMAIN recent[b] = {1} /\ recent[b][1] = W - t /\ recent[b] # <<>> /\ t > 0
        BY <3>1, <3>5
      <4>2. CASE t > 1
        <5>1. {j \in DOMAIN recent[b] : recent[b][j] + 1 < Window[b[1]]} = {1}
          BY <3>1, <4>1, <4>2
        <5>2. Older(recent[b], b) = [i \in {1} |-> recent[b][i] + 1]
          BY <5>1 DEF Older
        <5>3. Older(recent[b], b) = <<recent[b][1] + 1>>
          BY <5>2
        <5>. QED BY <3>2, <3>3, <4>1, <4>2, <5>3
      <4>3. CASE t = 1
        <5>1. {j \in DOMAIN recent[b] : recent[b][j] + 1 < Window[b[1]]} = {}
          BY <3>1, <4>1, <4>3
        <5>2. Older(recent[b], b) = <<>>
          BY <5>1 DEF Older
        <5>. QED BY <3>2, <3>3, <4>3, <5>2
      <4>. QED BY <3>1, <4>1, <4>2, <4>3
    <3>. QED BY <3>1, <3>4, <3>5
  <2>2. /\ [x \in Single |-> counter'[x].ttl] =
              [x \in Single |-> IF [y \in Single |-> counter[y].ttl][x] > 0
                                  THEN [y \in Single |-> counter[y].ttl][x] - 1 ELSE 0]
        /\ [x \in Single |-> recent'[x]] =
              [x \in Single |-> IF /\ [y \in Single |-> counter[y].ttl][x] > 1
                                   /\ [y \in Single |-> recent[y]][x] # <<>>
                                  THEN <<[y \in Single |-> recent[y]][x][1] + 1>> ELSE <<>>]
    BY <2>1
  <2>. QED BY <2>2 DEF Cool!Next, Cool!Lapse
<1>8. ASSUME NEW c \in Caller, Pass(c) \/ Refuse(c) \/ Degrade(c) PROVE [Cool!Next]_(Cool!cooldownVars)
  <2>1. Asked(c) \in Bucket
    BY <1>8, AskedIsBucket DEF LimitInv, Pass, Refuse, Degrade
  <2>2. PICK b \in Bucket : b = Asked(c)
    BY <2>1
  <2>. QED BY <1>4, <1>5, <1>8, <2>2 DEF Refuse, Degrade
<1>9. CASE UNCHANGED limitVars
  BY <1>1, <1>9 DEF limitVars
<1>. QED BY <1>2, <1>3, <1>6, <1>7, <1>8, <1>9 DEF LimitNext

\* The rules of limit 1 are cooldowns, step by step, although they run on the
\* same script and expire by the same clock as the others.
THEOREM CooldownsHold == LimitSpec => ImplementsCooldown
<1>1. LimitInit => Cool!Init
  <2> SUFFICES ASSUME LimitInit PROVE Cool!Init
    OBVIOUS
  <2>1. \A b \in Single : counter[b].ttl = 0 /\ recent[b] = <<>>
    BY DEF LimitInit, Single, Absent
  <2>. QED BY <2>1 DEF Cool!Init
<1>. QED BY <1>1, CooldownStep, LimitInvHolds, PTL DEF LimitSpec, ImplementsCooldown, Cool!Spec

-------------------------------------------------------------------------------
(***************************************************************************)
(* Asset synchronisation: what a run writes is what it read, and rows move forward.*)
(***************************************************************************)

LEMMA FirstIs ==
  ASSUME NEW T, T \subseteq Nat, T # {}
  PROVE  FirstOf(T) \in T /\ \A m \in T : FirstOf(T) <= m
BY LeastNatural DEF FirstOf

LEMMA LastIs ==
  ASSUME NEW T, NEW n \in Nat, T \subseteq 1..n, T # {}
  PROVE  LastOf(T) \in T /\ \A m \in T : m <= LastOf(T)
<1> DEFINE U == {m \in Nat : \A k \in T : k <= m}
<1>1. n \in U
  OBVIOUS
<1>2. PICK m \in U : \A k \in U : m <= k
  BY <1>1, LeastNatural
<1>3. m \in T
  <2> SUFFICES ASSUME m \notin T PROVE FALSE
    OBVIOUS
  <2>1. PICK k \in T : k <= m
    BY <1>2
  <2>2. m # 0 /\ m - 1 \in Nat
    BY <1>2, <2>1
  <2>3. \A i \in T : i <= m - 1
    BY <1>2, <2>2
  <2>. QED BY <1>2, <2>2, <2>3
<1>. QED BY <1>2, <1>3 DEF LastOf

\* Nth counts a finite set of naturals out in order.
LEMMA NthIs ==
  ASSUME NEW T, T \subseteq Nat, IsFiniteSet(T)
  PROVE  /\ Cardinality(T) \in Nat
         /\ \A n \in 1..Cardinality(T) : Nth(T, n) \in T
         /\ \A n, m \in 1..Cardinality(T) : Nth(T, n) = Nth(T, m) => n = m
         /\ \A i \in T : \E n \in 1..Cardinality(T) : Nth(T, n) = i
<1> DEFINE upto(i) == {k \in T : k <= i}
           f == [i \in T |-> Cardinality(upto(i))]
           N == Cardinality(T)
<1>1. N \in Nat
  BY FS_CardinalityType
<1>2. ASSUME NEW i \in T PROVE IsFiniteSet(upto(i)) /\ f[i] \in 1..N
  <2>1. upto(i) \in SUBSET T /\ i \in upto(i)
    OBVIOUS
  <2>2. IsFiniteSet(upto(i)) /\ Cardinality(upto(i)) <= N /\ Cardinality(upto(i)) \in Nat
    BY <2>1, FS_Subset, FS_CardinalityType
  <2>3. Cardinality(upto(i)) # 0
    BY <2>1, <2>2, FS_EmptySet
  <2>. QED BY <1>1, <2>2, <2>3
<1>3. ASSUME NEW i \in T, NEW j \in T, i < j PROVE f[i] # f[j]
  <2>0. i \in Nat /\ j \in Nat /\ i < j /\ \A k \in T : k \in Nat
    BY <1>3
  <2>1. upto(i) \in SUBSET upto(j) /\ j \in upto(j) /\ j \notin upto(i)
    <3>1. \A k \in upto(i) : k \in upto(j)
      BY <2>0
    <3>2. j \in upto(j) /\ j \notin upto(i)
      BY <2>0
    <3>. QED BY <3>1, <3>2
  <2>2. Cardinality(upto(i)) # Cardinality(upto(j))
    BY <1>2, <2>1, FS_Subset
  <2>. QED BY <2>2
<1>4. \A i, j \in T : f[i] = f[j] => i = j
  BY <1>3
<1>5. f \in Injection(T, 1..N)
  BY <1>2, <1>4 DEF Injection, IsInjective
<1>6. IsFiniteSet(1..N) /\ Cardinality(1..N) = N
  BY <1>1, FS_Interval
<1>7. f \in Surjection(T, 1..N)
  BY <1>5, <1>6, FS_Injection
<1>8. ASSUME NEW n \in 1..N PROVE Nth(T, n) \in T /\ f[Nth(T, n)] = n
  <2>1. \E i \in T : Cardinality(upto(i)) = n
    BY <1>7 DEF Surjection
  <2>. QED BY <2>1 DEF Nth
<1>9. \A i \in T : Nth(T, f[i]) = i
  BY <1>2, <1>4, <1>8
<1>. QED BY <1>1, <1>2, <1>8, <1>9

-----------------------------------------------------------------------------

Reading == [coin : Asset, quoted : BOOLEAN, at : 0..MaxSyncClock]
Stamp   == {Never} \cup 0..MaxSyncClock
Stage   == {"idle", "fetching", "fetched", "writing", "done"}
JobRow  == [kind : {NoWorker, "manual", "scheduled"}, owner : Worker \cup {NoWorker},
            state : {"absent", "waiting", "active", "delayed", "completed", "failed"},
            made : 0..Attempts, refused : BOOLEAN, stalled : 0..MaxStalled + 1]
Run     == [at : Stage, job : Nat, page : Nat, attempt : Nat, read : Seq(Reading), todo : Seq(Reading),
            stamp : Stamp, alone : BOOLEAN]
AssetRow     == [price : Stamp, data : Stamp, stamp : Stamp]

LEMMA ReadingFields ==
  ASSUME NEW s \in Seq(Reading), NEW i \in DOMAIN s
  PROVE  s[i].coin \in Asset /\ s[i].quoted \in BOOLEAN /\ s[i].at \in Nat
<1>1. s[i] \in Reading
  OBVIOUS
<1>. QED BY <1>1 DEF Reading

LEMMA Lengths ==
  ASSUME NEW S, NEW s \in Seq(S)
  PROVE  Len(s) \in Nat /\ DOMAIN s = 1..Len(s) /\ \A i \in DOMAIN s : s[i] \in S
OBVIOUS

\* A page gives readings of its time.
LEMMA NormalizedIs ==
  ASSUME NEW page \in Page, NEW time \in 0..MaxSyncClock
  PROVE  /\ Normalized(page, time) \in Seq(Reading)
         /\ \A i \in DOMAIN Normalized(page, time) : Normalized(page, time)[i].at = time
<1> DEFINE T == {i \in DOMAIN page : page[i] # Malformed}
           N == Cardinality(T)
<1>1. page \in Seq(Record)
  BY PageAssumption
<1>2. /\ Len(page) \in Nat /\ DOMAIN page = 1..Len(page)
      /\ \A i \in DOMAIN page : page[i] \in Record
  BY <1>1
<1>3. T \in SUBSET (1..Len(page)) /\ IsFiniteSet(1..Len(page))
  BY <1>2, FS_Interval
<1>4. T \subseteq Nat /\ IsFiniteSet(T)
  BY <1>3, FS_Subset
<1>5. N \in Nat /\ \A n \in 1..N : Nth(T, n) \in T
  BY <1>4, NthIs
<1>6. \A i \in T : page[i].coin \in Asset /\ page[i].quoted \in BOOLEAN
  BY <1>2 DEF Record
<1> HIDE DEF T, N
<1>7. Normalized(page, time) = [n \in 1..N |->
        [coin |-> page[Nth(T, n)].coin, quoted |-> page[Nth(T, n)].quoted, at |-> time]]
  BY DEF Normalized, T, N
<1>8. ASSUME NEW n \in 1..N
      PROVE  [coin |-> page[Nth(T, n)].coin, quoted |-> page[Nth(T, n)].quoted, at |-> time] \in Reading
  BY <1>5, <1>6 DEF Reading
<1>. QED BY <1>5, <1>7, <1>8

\* One reading per coin, the last of it, and none is left out.
LEMMA OccursIs ==
  ASSUME NEW s \in Seq(Reading), NEW i \in DOMAIN s
  PROVE  /\ FirstOf(Occurs(s[i].coin, s)) \in DOMAIN s
         /\ s[FirstOf(Occurs(s[i].coin, s))].coin = s[i].coin
         /\ LastOf(Occurs(s[i].coin, s)) \in DOMAIN s
         /\ s[LastOf(Occurs(s[i].coin, s))].coin = s[i].coin
<1> DEFINE T == Occurs(s[i].coin, s)
<1>1. Len(s) \in Nat /\ DOMAIN s = 1..Len(s)
  OBVIOUS
<1>2. T \subseteq 1..Len(s) /\ T # {} /\ T \subseteq Nat /\ \A k \in T : s[k].coin = s[i].coin
  BY <1>1 DEF Occurs
<1> HIDE DEF T
<1>3. FirstOf(T) \in T /\ LastOf(T) \in T
  BY <1>1, <1>2, FirstIs, LastIs
<1>. QED BY <1>1, <1>2, <1>3 DEF T

Distinct(s)   == \A i, k \in DOMAIN s : s[i].coin = s[k].coin => i = k
AreLast(t, s) == \A n \in DOMAIN t : /\ t[n] = s[LastOf(Occurs(t[n].coin, s))]
                                     /\ \E i \in DOMAIN s : s[i] = t[n]
AllOf(t, s)   == \A i \in DOMAIN s : \E n \in DOMAIN t : t[n] = s[LastOf(Occurs(s[i].coin, s))]

LEMMA UniqueIs ==
  ASSUME NEW s \in Seq(Reading)
  PROVE  /\ Unique(s) \in Seq(Reading) /\ Distinct(Unique(s))
         /\ AreLast(Unique(s), s) /\ AllOf(Unique(s), s)
<1> DEFINE FirstAt(i) == FirstOf(Occurs(s[i].coin, s))
           LastAt(i)  == LastOf(Occurs(s[i].coin, s))
           T == {FirstAt(i) : i \in DOMAIN s}
           N == Cardinality(T)
           u == Unique(s)
<1>1. /\ Len(s) \in Nat /\ DOMAIN s = 1..Len(s) /\ \A i \in DOMAIN s : s[i] \in Reading
  OBVIOUS
<1>2. \A i \in DOMAIN s : /\ FirstAt(i) \in DOMAIN s /\ s[FirstAt(i)].coin = s[i].coin
                          /\ LastAt(i) \in DOMAIN s /\ s[LastAt(i)].coin = s[i].coin
  BY OccursIs
<1>3. T \in SUBSET (1..Len(s)) /\ IsFiniteSet(1..Len(s))
  BY <1>1, <1>2, FS_Interval
<1>4. T \subseteq Nat /\ IsFiniteSet(T)
  BY <1>3, FS_Subset
<1>5. /\ N \in Nat /\ \A n \in 1..N : Nth(T, n) \in T
      /\ \A n, m \in 1..N : Nth(T, n) = Nth(T, m) => n = m
      /\ \A i \in T : \E n \in 1..N : Nth(T, n) = i
  BY <1>4, NthIs
<1>6. u = [n \in 1..N |-> s[LastAt(Nth(T, n))]]
  BY DEF Unique
<1>7. \A i, k \in DOMAIN s : s[i].coin = s[k].coin => FirstAt(i) = FirstAt(k) /\ LastAt(i) = LastAt(k)
  OBVIOUS
<1>8. \A i \in DOMAIN s : FirstAt(i) \in T
  OBVIOUS
<1>9. \A i \in T : FirstAt(i) = i
  <2> SUFFICES ASSUME NEW k \in DOMAIN s PROVE FirstAt(FirstAt(k)) = FirstAt(k)
    OBVIOUS
  <2>. QED BY <1>2, <1>7
<1> HIDE DEF FirstAt, LastAt, T, N, u
<1>10. \A n \in 1..N : /\ Nth(T, n) \in DOMAIN s /\ u[n] = s[LastAt(Nth(T, n))]
                       /\ u[n].coin = s[Nth(T, n)].coin /\ u[n] \in Reading
  BY <1>1, <1>2, <1>3, <1>5, <1>6
<1>11. u \in Seq(Reading) /\ DOMAIN u = 1..N
  BY <1>5, <1>6, <1>10
<1>12. Distinct(u)
  <2> SUFFICES ASSUME NEW n \in 1..N, NEW m \in 1..N, u[n].coin = u[m].coin PROVE n = m
    BY <1>11 DEF Distinct
  <2>1. FirstAt(Nth(T, n)) = FirstAt(Nth(T, m))
    BY <1>7, <1>10
  <2>. QED BY <1>5, <1>9, <2>1
<1>13. AreLast(u, s)
  <2> SUFFICES ASSUME NEW n \in 1..N
               PROVE  u[n] = s[LastOf(Occurs(u[n].coin, s))] /\ \E i \in DOMAIN s : s[i] = u[n]
    BY <1>11 DEF AreLast
  <2>. QED BY <1>2, <1>10 DEF LastAt
<1>14. AllOf(u, s)
  <2> SUFFICES ASSUME NEW i \in DOMAIN s PROVE \E n \in 1..N : u[n] = s[LastAt(i)]
    BY <1>11 DEF AllOf, LastAt
  <2>1. PICK n \in 1..N : Nth(T, n) = FirstAt(i)
    BY <1>5, <1>8
  <2>2. LastAt(FirstAt(i)) = LastAt(i)
    BY <1>2, <1>7
  <2>. QED BY <1>10, <2>1, <2>2
<1>. QED BY <1>11, <1>12, <1>13, <1>14 DEF u

-----------------------------------------------------------------------------

JobSound(task) ==
  /\ task.state = "failed" => task.refused \/ task.made = Attempts \/ task.stalled > MaxStalled
  /\ task.state \in {"absent", "waiting", "active", "delayed"} =>
       task.made < Attempts /\ task.stalled <= MaxStalled
  /\ task.owner # NoWorker => task.state = "active"
Manual(task) == task.kind = "manual" /\ task.state \in {"waiting", "active", "delayed"}
JobsSound ==
  /\ job \in [Job -> JobRow]
  /\ \A j \in Job : JobSound(job[j])
  /\ \A j, k \in Job : Manual(job[j]) /\ Manual(job[k]) => j = k

\* The line holds each waiting job once, and nothing else.
LineFor(l, rows) ==
  /\ l \in Seq(Job)
  /\ \A i \in DOMAIN l : rows[l[i]].state = "waiting"
  /\ \A i, k \in DOMAIN l : l[i] = l[k] => i = k
  /\ \A j \in Job : rows[j].state = "waiting" => \E i \in DOMAIN l : l[i] = j
LineSound == LineFor(line, job)

RowSound(task, now) == task.price <= now /\ task.data <= task.stamp /\ task.stamp <= now

\* A run that nobody disturbs is ahead of the rows it will write, and what it
\* is not going to write any more is written.
Ahead(x, rows) ==
  /\ x.at \in {"fetching", "fetched"} =>
       \A i \in DOMAIN x.read, c \in Asset :
         x.read[i].at >= rows[c].price /\ x.read[i].at >= rows[c].data
  /\ x.at = "writing" =>
       /\ \A n \in DOMAIN x.todo : /\ x.todo[n].at >= rows[x.todo[n].coin].price
                                   /\ x.todo[n].at >= rows[x.todo[n].coin].data
       /\ \A c \in Asset : x.stamp >= rows[c].stamp
  /\ x.at \in {"writing", "done"} =>
       \A i \in DOMAIN x.read :
         \/ /\ rows[x.read[i].coin].data = x.read[LastOf(Occurs(x.read[i].coin, x.read))].at
            /\ rows[x.read[i].coin].stamp = x.stamp
         \/ \E n \in DOMAIN x.todo : x.todo[n] = x.read[LastOf(Occurs(x.read[i].coin, x.read))]

RunSound(x, rows, now) ==
  /\ x.at = "idle" => x = Free
  /\ x.at # "idle" => x.job \in Job
  /\ \A i \in DOMAIN x.read : x.read[i].at <= now
  /\ x.at # "writing" => x.todo = <<>>
  /\ x.at \in {"writing", "done"} =>
       x.stamp \in 0..now /\ \A i \in DOMAIN x.read : x.read[i].at <= x.stamp
  /\ Distinct(x.todo) /\ AreLast(x.todo, x.read)
  /\ x.alone => Ahead(x, rows)

AloneIsAlone == \A w, v \in Worker : worker[w].alone /\ v # w => worker[v] = Free

AssetInv ==
  /\ JobsSound /\ LineSound
  /\ worker \in [Worker -> Run] /\ \A w \in Worker : RunSound(worker[w], asset, syncClock)
  /\ AloneIsAlone
  /\ asset \in [Asset -> AssetRow] /\ \A c \in Asset : RowSound(asset[c], syncClock)
  /\ syncClock \in 0..MaxSyncClock
  /\ faults \in Nat

LEMMA RunFields ==
  ASSUME NEW x \in Run
  PROVE  /\ x.at \in Stage /\ x.job \in Nat /\ x.page \in Nat /\ x.attempt \in Nat
         /\ x.read \in Seq(Reading) /\ x.todo \in Seq(Reading) /\ x.stamp \in Stamp
         /\ x.alone \in BOOLEAN
BY DEF Run

LEMMA FreeIs ==
  /\ Free \in Run /\ Free.at = "idle" /\ ~Free.alone /\ Free.todo = <<>> /\ Free.read = <<>>
  /\ \A rows, now : RunSound(Free, rows, now)
<1>1. /\ Free.at = "idle" /\ Free.alone = FALSE /\ Free.todo = <<>> /\ Free.read = <<>> /\ Free.job = 0
      /\ Free.page = 0 /\ Free.attempt = 0 /\ Free.stamp = Never
  BY DEF Free
<1>2. <<>> \in Seq(Reading) /\ Never \in Stamp /\ "idle" \in Stage /\ 0 \in Nat
  BY DEF Stamp, Stage
<1>3. Free \in Run
  BY <1>2 DEF Free, Run
<1>4. Distinct(<<>>) /\ AreLast(<<>>, <<>>)
  BY DEF Distinct, AreLast
<1>5. DOMAIN Free.read = {}
  BY <1>1
<1>6. ASSUME NEW rows, NEW now PROVE RunSound(Free, rows, now)
  BY <1>1, <1>4, <1>5 DEF RunSound
<1>. QED BY <1>1, <1>3, <1>6

LEMMA NoJobIs ==
  /\ NoJob \in JobRow /\ JobSound(NoJob) /\ ~Manual(NoJob)
  /\ NoJob.made = 0 /\ NoJob.owner = NoWorker /\ ~NoJob.refused /\ NoJob.state = "absent"
  /\ NoJob.stalled = 0
<1>1. 0 \in 0..Attempts /\ 0 \in 0..MaxStalled + 1 /\ 0 <= MaxStalled /\ NoWorker \in Worker \cup {NoWorker} /\ 0 < Attempts
  BY CatalogueAssumption
<1>2. NoJob \in JobRow
  BY <1>1 DEF NoJob, JobRow
<1>3. /\ NoJob.made = 0 /\ NoJob.owner = NoWorker /\ NoJob.refused = FALSE /\ NoJob.state = "absent"
      /\ NoJob.kind = NoWorker /\ NoJob.stalled = 0
  BY DEF NoJob
<1>. QED BY <1>1, <1>2, <1>3 DEF JobSound, Manual

LEMMA AssetsStart == AssetInit => AssetInv
<1> SUFFICES ASSUME AssetInit PROVE AssetInv
  OBVIOUS
<1> USE DEF AssetInit
<1>1. JobsSound /\ LineSound
  <2>1. \A j \in Job : job[j].state # "waiting"
    BY NoJobIs
  <2>2. line \in Seq(Job) /\ DOMAIN line = {}
    OBVIOUS
  <2>. QED BY <2>1, <2>2, NoJobIs DEF JobsSound, LineSound, LineFor
<1>2. /\ worker \in [Worker -> Run] /\ \A w \in Worker : RunSound(worker[w], asset, syncClock)
      /\ AloneIsAlone
  BY FreeIs DEF AloneIsAlone
<1>3. NoRow \in AssetRow /\ RowSound(NoRow, 0)
  BY DEF NoRow, AssetRow, Stamp, RowSound, Never
<1>. QED BY <1>1, <1>2, <1>3, CatalogueAssumption DEF AssetInv

\* One job moves.
LEMMA OneJobMoves ==
  ASSUME JobsSound, NEW j \in Job, NEW x \in JobRow, JobSound(x), job' = [job EXCEPT ![j] = x],
         Manual(x) => Manual(job[j]) \/ \A k \in Job : ~Manual(job[k])
  PROVE  JobsSound'
<1>1. \A k \in Job : job'[k] = IF k = j THEN x ELSE job[k]
  BY DEF JobsSound
<1>2. job' \in [Job -> JobRow] /\ \A k \in Job : JobSound(job'[k])
  BY <1>1 DEF JobsSound
<1>3. \A k, i \in Job : Manual(job'[k]) /\ Manual(job'[i]) => k = i
  BY <1>1 DEF JobsSound
<1>. QED BY <1>2, <1>3 DEF JobsSound

\* A job that does not wait before or after leaves the line as it is, one that
\* comes to wait joins it at either end, and one that is taken is its first.
LEMMA LineStays ==
  ASSUME NEW l, NEW rows \in [Job -> JobRow], LineFor(l, rows), NEW j \in Job, NEW x,
         rows[j].state # "waiting", x.state # "waiting"
  PROVE  LineFor(l, [rows EXCEPT ![j] = x])
<1> DEFINE new == [rows EXCEPT ![j] = x]
<1>1. \A k \in Job : new[k] = IF k = j THEN x ELSE rows[k]
  OBVIOUS
<1>2. l \in Seq(Job) /\ \A i \in DOMAIN l : l[i] \in Job
  BY DEF LineFor
<1>3. \A k \in Job : new[k].state = "waiting" <=> rows[k].state = "waiting"
  BY <1>1
<1> HIDE DEF new
<1>4. LineFor(l, new)
  BY <1>2, <1>3 DEF LineFor
<1>. QED BY <1>4 DEF new

LEMMA LineGrows ==
  ASSUME NEW l, NEW rows \in [Job -> JobRow], LineFor(l, rows), NEW j \in Job, NEW x,
         rows[j].state # "waiting", x.state = "waiting"
  PROVE  /\ LineFor(Append(l, j), [rows EXCEPT ![j] = x])
         /\ LineFor(<<j>> \o l, [rows EXCEPT ![j] = x])
<1> DEFINE new == [rows EXCEPT ![j] = x]
           M == Len(l)
<1>1. \A k \in Job : new[k] = IF k = j THEN x ELSE rows[k]
  OBVIOUS
<1>2. /\ l \in Seq(Job) /\ M \in Nat /\ DOMAIN l = 1..M /\ \A i \in 1..M : l[i] \in Job /\ l[i] # j
      /\ \A i, k \in 1..M : l[i] = l[k] => i = k
  BY DEF LineFor
<1>3. \A k \in Job : new[k].state = "waiting" <=> k = j \/ \E i \in 1..M : l[i] = k
  BY <1>1, <1>2 DEF LineFor
<1> HIDE DEF new
<1>4. LineFor(Append(l, j), new)
  <2> DEFINE a == Append(l, j)
  <2>1. a \in Seq(Job) /\ DOMAIN a = 1..M + 1 /\ a[M + 1] = j /\ \A i \in 1..M : a[i] = l[i]
    BY <1>2
  <2> HIDE DEF a, M
  <2>2. \A i \in 1..M + 1 : i = M + 1 \/ i \in 1..M
    BY <1>2
  <2>3. \A i \in 1..M + 1 : new[a[i]].state = "waiting"
    BY <1>2, <1>3, <2>1, <2>2
  <2>4. \A i, k \in 1..M + 1 : a[i] = a[k] => i = k
    BY <1>2, <2>1, <2>2
  <2>5. \A k \in Job : new[k].state = "waiting" => \E i \in 1..M + 1 : a[i] = k
    <3>1. M + 1 \in 1..M + 1 /\ \A i \in 1..M : i \in 1..M + 1
      BY <1>2
    <3>. QED BY <1>3, <2>1, <3>1
  <2>6. LineFor(a, new)
    BY <2>1, <2>3, <2>4, <2>5 DEF LineFor
  <2>. QED BY <2>6 DEF a
<1>5. LineFor(<<j>> \o l, new)
  <2> DEFINE a == <<j>> \o l
  <2>1. a \in Seq(Job) /\ DOMAIN a = 1..M + 1 /\ a[1] = j /\ \A i \in 1..M : a[i + 1] = l[i]
    BY <1>2
  <2> HIDE DEF a, M
  <2>2. \A i \in 1..M + 1 : i = 1 \/ (i - 1 \in 1..M /\ a[i] = l[i - 1])
    <3> SUFFICES ASSUME NEW i \in 1..M + 1, i # 1 PROVE i - 1 \in 1..M /\ a[i] = l[i - 1]
      OBVIOUS
    <3>1. i - 1 \in 1..M /\ (i - 1) + 1 = i
      BY <1>2
    <3>. QED BY <2>1, <3>1
  <2>3. \A i \in 1..M + 1 : new[a[i]].state = "waiting"
    BY <1>2, <1>3, <2>1, <2>2
  <2>4. \A i, k \in 1..M + 1 : a[i] = a[k] => i = k
    <3> SUFFICES ASSUME NEW i \in 1..M + 1, NEW k \in 1..M + 1, a[i] = a[k] PROVE i = k
      OBVIOUS
    <3>1. CASE i = 1
      BY <1>2, <2>1, <2>2, <3>1
    <3>2. CASE k = 1
      BY <1>2, <2>1, <2>2, <3>2
    <3>3. CASE i # 1 /\ k # 1
      <4>1. i - 1 = k - 1
        BY <1>2, <2>2, <3>3
      <4>. QED BY <1>2, <4>1
    <3>. QED BY <3>1, <3>2, <3>3
  <2>5. \A k \in Job : new[k].state = "waiting" => \E i \in 1..M + 1 : a[i] = k
    <3>1. 1 \in 1..M + 1 /\ \A i \in 1..M : i + 1 \in 1..M + 1
      BY <1>2
    <3>. QED BY <1>3, <2>1, <3>1
  <2>6. LineFor(a, new)
    BY <2>1, <2>3, <2>4, <2>5 DEF LineFor
  <2>. QED BY <2>6 DEF a
<1>. QED BY <1>4, <1>5 DEF new

LEMMA LineMoves ==
  ASSUME NEW l, NEW rows \in [Job -> JobRow], LineFor(l, rows), l # <<>>, NEW x, x.state # "waiting"
  PROVE  /\ Head(l) \in Job /\ rows[Head(l)].state = "waiting"
         /\ LineFor(Tail(l), [rows EXCEPT ![Head(l)] = x])
<1> DEFINE j == Head(l)
           new == [rows EXCEPT ![j] = x]
           M == Len(l)
           t == Tail(l)
<1>1. /\ l \in Seq(Job) /\ M \in Nat \ {0} /\ DOMAIN l = 1..M /\ \A i \in 1..M : l[i] \in Job
      /\ \A i, k \in 1..M : l[i] = l[k] => i = k
      /\ \A i \in 1..M : rows[l[i]].state = "waiting"
      /\ \A k \in Job : rows[k].state = "waiting" => \E i \in 1..M : l[i] = k
  BY DEF LineFor
<1>2. j = l[1] /\ 1 \in 1..M
  BY <1>1
<1>3. t \in Seq(Job) /\ DOMAIN t = 1..M - 1 /\ \A i \in 1..M - 1 : t[i] = l[i + 1]
  BY <1>1
<1> HIDE DEF j, t, M
<1>4. j \in Job /\ rows[j].state = "waiting" /\ \A k \in Job : new[k] = IF k = j THEN x ELSE rows[k]
  BY <1>1, <1>2
<1> HIDE DEF new
<1>5. \A i \in 1..M - 1 : i + 1 \in 1..M /\ t[i] \in Job /\ t[i] # j
  <2> SUFFICES ASSUME NEW i \in 1..M - 1 PROVE i + 1 \in 1..M /\ t[i] \in Job /\ t[i] # j
    OBVIOUS
  <2>1. i + 1 \in 1..M /\ i + 1 # 1
    BY <1>1
  <2>. QED BY <1>1, <1>2, <1>3, <2>1
<1>6. \A i \in 1..M - 1 : new[t[i]].state = "waiting"
  BY <1>1, <1>3, <1>4, <1>5
<1>7. \A i, k \in 1..M - 1 : t[i] = t[k] => i = k
  <2> SUFFICES ASSUME NEW i \in 1..M - 1, NEW k \in 1..M - 1, t[i] = t[k] PROVE i = k
    OBVIOUS
  <2>1. i + 1 = k + 1
    BY <1>1, <1>3, <1>5
  <2>. QED BY <1>1, <2>1
<1>8. ASSUME NEW k \in Job, new[k].state = "waiting" PROVE \E i \in 1..M - 1 : t[i] = k
  <2>1. k # j /\ rows[k].state = "waiting"
    BY <1>4, <1>8
  <2>2. PICK i \in 1..M : l[i] = k
    BY <1>1, <2>1
  <2>3. i - 1 \in 1..M - 1 /\ (i - 1) + 1 = i
    BY <1>1, <1>2, <2>1, <2>2
  <2>. QED BY <1>3, <2>2, <2>3
<1>9. LineFor(t, new)
  BY <1>3, <1>6, <1>7, <1>8 DEF LineFor
<1>. QED BY <1>4, <1>9 DEF j, t, new

\* The queue moves and nothing else does.
LEMMA QueueMoves ==
  ASSUME AssetInv, JobsSound', LineSound', UNCHANGED <<worker, asset, syncClock>>, faults' \in Nat
  PROVE  AssetInv'
BY DEF AssetInv, AloneIsAlone

\* A slot is free again.
LEMMA SlotIsFreed ==
  ASSUME AssetInv, NEW w \in Worker, JobsSound', LineSound', worker' = [worker EXCEPT ![w] = Free],
         UNCHANGED <<asset, syncClock>>, faults' \in Nat
  PROVE  AssetInv'
<1>1. \A v \in Worker : worker'[v] = IF v = w THEN Free ELSE worker[v]
  BY DEF AssetInv
<1>2. worker' \in [Worker -> Run] /\ \A v \in Worker : RunSound(worker'[v], asset, syncClock)
  BY <1>1, FreeIs DEF AssetInv
<1>3. AloneIsAlone'
  BY <1>1, FreeIs DEF AssetInv, AloneIsAlone
<1>. QED BY <1>2, <1>3 DEF AssetInv

\* A slot moves on within its run.
LEMMA SlotMoves ==
  ASSUME AssetInv, NEW w \in Worker, NEW y \in Run, RunSound(y, asset, syncClock),
         y.alone = worker[w].alone, worker[w] # Free,
         worker' = [worker EXCEPT ![w] = y], UNCHANGED <<job, line, asset, syncClock, faults>>
  PROVE  AssetInv'
<1>1. \A v \in Worker : worker'[v] = IF v = w THEN y ELSE worker[v]
  BY DEF AssetInv
<1>2. worker' \in [Worker -> Run] /\ \A v \in Worker : RunSound(worker'[v], asset, syncClock)
  BY <1>1 DEF AssetInv
<1>3. AloneIsAlone'
  BY <1>1 DEF AssetInv, AloneIsAlone
<1>4. JobsSound' /\ LineSound'
  BY DEF AssetInv, JobsSound, LineSound
<1>. QED BY <1>2, <1>3, <1>4 DEF AssetInv

LEMMA AddKeeps ==
  ASSUME AssetInv, NEW j \in Job, EnqueueManualSync(j) \/ Repeat(j)
  PROVE  AssetInv'
<1>1. ASSUME NEW kind \in {"manual", "scheduled"}, Add(j, kind),
             kind = "manual" => \A k \in Job : ~Manual(job[k])
      PROVE  AssetInv'
  <2> DEFINE x == [NoJob EXCEPT !.kind = kind, !.state = "waiting"]
  <2>1. /\ x \in JobRow /\ x.kind = kind /\ x.state = "waiting" /\ x.made = 0 /\ x.owner = NoWorker
        /\ x.stalled = 0
    BY NoJobIs DEF JobRow
  <2>2. /\ job' = [job EXCEPT ![j] = x] /\ line' = Append(line, j) /\ job[j] = NoJob
        /\ UNCHANGED <<worker, asset, syncClock, faults>>
    BY <1>1 DEF Add, NextJob
  <2> HIDE DEF x
  <2>3. JobSound(x) /\ (Manual(x) => \A k \in Job : ~Manual(job[k]))
    BY <1>1, <2>1, CatalogueAssumption DEF JobSound, Manual
  <2>4. JobsSound'
    BY <2>1, <2>2, <2>3, OneJobMoves DEF AssetInv
  <2>5. LineSound'
    <3>1. LineFor(line, job) /\ job \in [Job -> JobRow] /\ job[j].state # "waiting"
      BY <2>2, NoJobIs DEF AssetInv, LineSound, JobsSound
    <3>2. LineFor(Append(line, j), [job EXCEPT ![j] = x])
      BY <2>1, <3>1, LineGrows
    <3>. QED BY <2>2, <3>2 DEF LineSound
  <2>. QED BY <2>2, <2>4, <2>5, QueueMoves DEF AssetInv
<1>2. EnqueueManualSync(j) => \A k \in Job : ~Manual(job[k])
  BY DEF EnqueueManualSync, Pending, Manual
<1>. QED BY <1>1, <1>2 DEF EnqueueManualSync, Repeat

LEMMA PromoteKeeps ==
  ASSUME AssetInv, NEW j \in Job, Promote(j)
  PROVE  AssetInv'
<1> DEFINE x == [job[j] EXCEPT !.state = "waiting"]
<1>1. /\ job[j].state = "delayed" /\ job[j] \in JobRow /\ JobSound(job[j])
      /\ job' = [job EXCEPT ![j] = x] /\ line' = Append(line, j)
      /\ UNCHANGED <<worker, asset, syncClock, faults>>
  BY DEF Promote, AssetInv, JobsSound
<1>2. /\ x \in JobRow /\ x.kind = job[j].kind /\ x.state = "waiting" /\ x.made = job[j].made
      /\ x.owner = job[j].owner /\ x.stalled = job[j].stalled
  BY <1>1 DEF JobRow
<1> HIDE DEF x
<1>3. JobSound(x) /\ (Manual(x) => Manual(job[j]))
  BY <1>1, <1>2 DEF JobSound, Manual
<1>4. JobsSound'
  BY <1>1, <1>2, <1>3, OneJobMoves DEF AssetInv
<1>5. LineSound'
  <2>1. LineFor(line, job) /\ job \in [Job -> JobRow] /\ job[j].state # "waiting"
    BY <1>1 DEF AssetInv, LineSound, JobsSound
  <2>2. LineFor(Append(line, j), [job EXCEPT ![j] = x])
    BY <1>2, <2>1, LineGrows
  <2>. QED BY <1>1, <2>2 DEF LineSound
<1>. QED BY <1>1, <1>4, <1>5, QueueMoves DEF AssetInv

LEMMA ReclaimKeeps ==
  ASSUME AssetInv, NEW j \in Job, Reclaim(j)
  PROVE  AssetInv'
<1> DEFINE stalled == job[j].stalled + 1
           state == IF stalled > MaxStalled THEN "failed" ELSE "waiting"
           x == [job[j] EXCEPT !.stalled = stalled, !.owner = NoWorker, !.state = state]
<1>1. /\ job[j].state = "active" /\ job[j] \in JobRow /\ JobSound(job[j])
      /\ job' = [job EXCEPT ![j] = x] /\ UNCHANGED <<worker, asset, syncClock>>
      /\ line' = IF stalled > MaxStalled THEN line ELSE <<j>> \o line
  BY DEF Reclaim, AssetInv, JobsSound
<1>2. job[j].stalled \in Nat /\ job[j].stalled <= MaxStalled /\ MaxStalled \in Nat /\ job[j].made < Attempts
  BY <1>1, CatalogueAssumption DEF JobSound, JobRow
<1>3. stalled \in 0..MaxStalled + 1 /\ (stalled > MaxStalled \/ stalled <= MaxStalled)
  BY <1>2
<1>4. state \in {"failed", "waiting"} /\ (state = "failed" <=> stalled > MaxStalled)
  OBVIOUS
<1> HIDE DEF stalled, state
<1>5. /\ x \in JobRow /\ x.kind = job[j].kind /\ x.state = state /\ x.made = job[j].made
      /\ x.owner = NoWorker /\ x.stalled = stalled
  BY <1>1, <1>3, <1>4 DEF JobRow
<1> HIDE DEF x
<1>6. JobSound(x) /\ (Manual(x) => Manual(job[j]))
  BY <1>1, <1>2, <1>3, <1>4, <1>5 DEF JobSound, Manual
<1>7. JobsSound'
  BY <1>1, <1>5, <1>6, OneJobMoves DEF AssetInv
<1>8. LineSound'
  <2>1. LineFor(line, job) /\ job \in [Job -> JobRow] /\ job[j].state # "waiting"
    BY <1>1 DEF AssetInv, LineSound, JobsSound
  <2>2. CASE stalled > MaxStalled
    <3>1. LineFor(line, [job EXCEPT ![j] = x])
      BY <1>4, <1>5, <2>1, <2>2, LineStays
    <3>. QED BY <1>1, <2>2, <3>1 DEF LineSound
  <2>3. CASE ~(stalled > MaxStalled)
    <3>1. LineFor(<<j>> \o line, [job EXCEPT ![j] = x])
      BY <1>4, <1>5, <2>1, <2>3, LineGrows
    <3>. QED BY <1>1, <2>3, <3>1 DEF LineSound
  <2>. QED BY <2>2, <2>3
<1>9. faults' \in Nat
  BY DEF Reclaim, AssetInv
<1>. QED BY <1>1, <1>7, <1>8, <1>9, QueueMoves

LEMMA TakeKeeps ==
  ASSUME AssetInv, NEW w \in Worker, NEW j \in Job, Take(w, j)
  PROVE  AssetInv'
<1> DEFINE x == [job[j] EXCEPT !.state = "active", !.owner = w]
           nobody == \A u \in Worker : worker[u] = Free
           y == [Free EXCEPT !.at = "fetching", !.job = j, !.page = 1, !.attempt = 1, !.alone = nobody]
<1>0. /\ line # <<>> /\ Head(line) = j /\ LineFor(line, job) /\ job \in [Job -> JobRow]
      /\ line' = Tail(line) /\ x.state # "waiting"
  BY DEF Take, AssetInv, LineSound, JobsSound, JobRow
<1>1a. job[j].state = "waiting" /\ LineFor(Tail(line), [job EXCEPT ![j] = x])
  <2> HIDE DEF x
  <2>. QED BY <1>0, LineMoves
<1>1. /\ worker[w] = Free /\ job[j].state = "waiting" /\ job[j] \in JobRow /\ JobSound(job[j])
      /\ job' = [job EXCEPT ![j] = x] /\ UNCHANGED <<asset, syncClock, faults>>
      /\ worker' = [v \in Worker |-> IF v = w THEN y ELSE [worker[v] EXCEPT !.alone = FALSE]]
  BY <1>1a DEF Take, AssetInv, JobsSound
<1>2. /\ x \in JobRow /\ x.kind = job[j].kind /\ x.state = "active" /\ x.made = job[j].made
      /\ x.stalled = job[j].stalled
  BY <1>1 DEF JobRow
<1>3. nobody \in BOOLEAN
  OBVIOUS
<1>4. /\ y \in Run /\ y.at = "fetching" /\ y.job = j /\ y.read = <<>> /\ y.todo = <<>>
      /\ y.alone <=> nobody
  <2> HIDE DEF nobody
  <2>1. j \in Nat
    BY DEF Job
  <2>2. y \in Run
    BY <1>3, <2>1, FreeIs DEF Run, Stage
  <2>3. y.at = "fetching" /\ y.job = j /\ y.read = <<>> /\ y.todo = <<>> /\ (y.alone <=> nobody)
    BY <1>3, FreeIs DEF Run
  <2>. QED BY <2>2, <2>3
<1> HIDE DEF x, y
<1>5. JobsSound'
  <2>1. JobSound(x) /\ (Manual(x) => Manual(job[j]))
    BY <1>1, <1>2 DEF JobSound, Manual
  <2>. QED BY <1>1, <1>2, <2>1, OneJobMoves DEF AssetInv
<1>6. RunSound(y, asset, syncClock)
  <2>1. DOMAIN y.read = {} /\ DOMAIN y.todo = {}
    BY <1>4
  <2>. QED BY <1>4, <2>1 DEF RunSound, Ahead, Distinct, AreLast
<1>7. ASSUME NEW v \in Worker
      PROVE  LET z == [worker[v] EXCEPT !.alone = FALSE]
             IN  z \in Run /\ RunSound(z, asset, syncClock) /\ ~z.alone /\ (worker[v] = Free => z = Free)
  <2> DEFINE z == [worker[v] EXCEPT !.alone = FALSE]
  <2>1. worker[v] \in Run /\ RunSound(worker[v], asset, syncClock)
    BY DEF AssetInv
  <2>2. /\ z \in Run /\ z.at = worker[v].at /\ z.job = worker[v].job /\ z.read = worker[v].read
        /\ z.todo = worker[v].todo /\ z.stamp = worker[v].stamp /\ z.alone = FALSE
    BY <2>1 DEF Run
  <2>3. worker[v] = Free => z = Free
    <3>1. /\ Free = [i \in DOMAIN Free |-> Free[i]] /\ "alone" \in DOMAIN Free
          /\ Free["alone"] = FALSE
      BY DEF Free
    <3>2. [Free EXCEPT !.alone = FALSE] = Free
      BY <3>1
    <3>. QED BY <3>2
  <2> HIDE DEF z
  <2>4. RunSound(z, asset, syncClock)
    BY <2>1, <2>2, <2>3 DEF RunSound
  <2>. QED BY <2>2, <2>3, <2>4 DEF z
<1>8. worker' \in [Worker -> Run] /\ \A v \in Worker : RunSound(worker'[v], asset, syncClock)
  BY <1>1, <1>4, <1>6, <1>7
<1>9. AloneIsAlone'
  BY <1>1, <1>4, <1>7 DEF AloneIsAlone
<1>10. LineSound'
  BY <1>0, <1>1, <1>1a DEF LineSound
<1>. QED BY <1>1, <1>5, <1>8, <1>9, <1>10 DEF AssetInv

\* The run of a slot has thrown.
LEMMA ThrowKeeps ==
  ASSUME AssetInv, NEW w \in Worker, NEW permanent \in BOOLEAN, Throw(w, permanent), worker[w].at # "idle"
  PROVE  AssetInv'
<1>1. /\ worker' = [worker EXCEPT ![w] = Free] /\ UNCHANGED <<asset, syncClock, faults>>
  BY DEF Throw
<1>2. worker[w].job \in Job
  BY DEF AssetInv, RunSound
<1>3. JobsSound' /\ LineSound'
  <2>1. CASE ~Owns(w)
    BY <2>1 DEF Throw, AssetInv, JobsSound, LineSound
  <2>2. ASSUME Owns(w), NEW j \in Job, j = worker[w].job PROVE JobsSound' /\ LineSound'
    <3> DEFINE made  == job[j].made + 1
               state == IF permanent \/ made >= Attempts THEN "failed" ELSE "delayed"
               x == [job[j] EXCEPT !.made = made, !.owner = NoWorker, !.refused = permanent,
                                   !.state = state]
    <3>1. /\ job[j] \in JobRow /\ JobSound(job[j]) /\ job[j].owner = w
      BY <2>2 DEF Owns, AssetInv, JobsSound
    <3>2. job[j].state = "active" /\ job[j].made \in Nat /\ job[j].made < Attempts
          /\ job[j].stalled <= MaxStalled
      BY <3>1, NoWorkerAssumption DEF JobSound, JobRow
    <3>3. made \in 0..Attempts /\ (made >= Attempts <=> made = Attempts)
      BY <3>2, CatalogueAssumption
    <3>4. job' = [job EXCEPT ![j] = x] /\ line' = line
      BY <2>2 DEF Throw, AssetInv, JobsSound
    <3>5. state \in {"failed", "delayed"} /\ (state = "failed" <=> permanent \/ made = Attempts)
      BY <3>3
    <3> HIDE DEF made, state
    <3>6. /\ x \in JobRow /\ x.kind = job[j].kind /\ x.state = state /\ x.made = made
          /\ x.owner = NoWorker /\ (x.refused <=> permanent) /\ x.stalled = job[j].stalled
      BY <3>1, <3>3, <3>5 DEF JobRow
    <3> HIDE DEF x
    <3>7. JobSound(x) /\ (Manual(x) => Manual(job[j]))
      BY <3>2, <3>3, <3>5, <3>6, CatalogueAssumption DEF JobSound, Manual
    <3>8. LineFor(line, job) /\ job \in [Job -> JobRow] /\ job[j].state # "waiting"
      BY <3>2 DEF AssetInv, LineSound, JobsSound
    <3>9. LineFor(line, [job EXCEPT ![j] = x])
      BY <3>5, <3>6, <3>8, LineStays
    <3>. QED BY <3>4, <3>6, <3>7, <3>9, OneJobMoves DEF AssetInv, LineSound
  <2>. QED BY <1>2, <2>1, <2>2
<1>4. faults' \in Nat
  BY <1>1 DEF AssetInv
<1>. QED BY <1>1, <1>3, <1>4, SlotIsFreed

LEMMA CompleteKeeps ==
  ASSUME AssetInv, NEW w \in Worker, Complete(w)
  PROVE  AssetInv'
<1>1. /\ worker' = [worker EXCEPT ![w] = Free] /\ UNCHANGED <<asset, syncClock, faults>>
  BY DEF Complete
<1>2. worker[w].job \in Job
  BY DEF Complete, AssetInv, RunSound
<1>3. JobsSound' /\ LineSound'
  <2>1. CASE ~Owns(w)
    BY <2>1 DEF Complete, AssetInv, JobsSound, LineSound
  <2>2. ASSUME Owns(w), NEW j \in Job, j = worker[w].job PROVE JobsSound' /\ LineSound'
    <3> DEFINE x == [job[j] EXCEPT !.state = "completed", !.owner = NoWorker]
    <3>1. /\ job[j] \in JobRow /\ job' = [job EXCEPT ![j] = x] /\ line' = line
          /\ job[j].owner = w /\ JobSound(job[j])
      BY <2>2 DEF Complete, Owns, AssetInv, JobsSound
    <3>2. x \in JobRow /\ x.state = "completed" /\ x.owner = NoWorker
      BY <3>1 DEF JobRow
    <3> HIDE DEF x
    <3>3. JobSound(x) /\ ~Manual(x)
      BY <3>2 DEF JobSound, Manual
    <3>4. LineFor(line, job) /\ job \in [Job -> JobRow] /\ job[j].state = "active"
      BY <3>1, NoWorkerAssumption DEF AssetInv, LineSound, JobsSound, JobSound
    <3>5. LineFor(line, [job EXCEPT ![j] = x])
      BY <3>2, <3>4, LineStays
    <3>. QED BY <3>1, <3>2, <3>3, <3>5, OneJobMoves DEF AssetInv, LineSound
  <2>. QED BY <1>2, <2>1, <2>2
<1>4. faults' \in Nat
  BY <1>1 DEF AssetInv
<1>. QED BY <1>1, <1>3, <1>4, SlotIsFreed

LEMMA CrashKeeps ==
  ASSUME AssetInv, NEW w \in Worker, WorkerCrash(w)
  PROVE  AssetInv'
<1>1. JobsSound' /\ LineSound'
  BY DEF WorkerCrash, AssetInv, JobsSound, LineSound
<1>2. faults' \in Nat
  BY CatalogueAssumption DEF WorkerCrash, AssetInv
<1>. QED BY <1>1, <1>2, SlotIsFreed DEF WorkerCrash

LEMMA SyncTickKeeps ==
  ASSUME AssetInv, SyncTick
  PROVE  AssetInv'
<1>1. syncClock' \in 0..MaxSyncClock /\ syncClock' = syncClock + 1 /\ syncClock \in Nat
  BY CatalogueAssumption DEF SyncTick, AssetInv
<1>2. UNCHANGED <<job, line, worker, asset, faults>>
  BY DEF SyncTick
<1>3. ASSUME NEW c \in Asset PROVE RowSound(asset[c], syncClock')
  <2>1. asset[c] \in AssetRow /\ RowSound(asset[c], syncClock)
    BY DEF AssetInv
  <2>2. asset[c].price \in Int /\ asset[c].data \in Int /\ asset[c].stamp \in Int
    BY <2>1 DEF AssetRow, Stamp, Never
  <2>. QED BY <1>1, <2>1, <2>2 DEF RowSound
<1>4. ASSUME NEW w \in Worker PROVE RunSound(worker[w], asset, syncClock')
  <2> DEFINE x == worker[w]
  <2>1. x \in Run /\ RunSound(x, asset, syncClock)
    BY DEF AssetInv
  <2> HIDE DEF x
  <2>2. \A i \in DOMAIN x.read : x.read[i].at \in Nat
    BY <2>1, RunFields, ReadingFields
  <2>3. x.stamp \in 0..syncClock => x.stamp \in 0..syncClock'
    BY <1>1
  <2>4. RunSound(x, asset, syncClock')
    BY <1>1, <2>1, <2>2, <2>3 DEF RunSound
  <2>. QED BY <2>4 DEF x
<1>5. JobsSound' /\ LineSound' /\ AloneIsAlone'
  BY <1>2 DEF AssetInv, JobsSound, LineSound, AloneIsAlone
<1>. QED BY <1>1, <1>2, <1>3, <1>4, <1>5 DEF AssetInv

LEMMA RowFields ==
  ASSUME NEW r \in AssetRow
  PROVE  r.price \in Int /\ r.data \in Int /\ r.stamp \in Int
BY DEF AssetRow, Stamp, Never

LEMMA FetchFailsKeeps ==
  ASSUME AssetInv, NEW w \in Worker, FetchFails(w)
  PROVE  AssetInv'
<1>1. worker[w].at = "fetching" /\ worker[w] \in Run /\ RunSound(worker[w], asset, syncClock)
  BY DEF FetchFails, AssetInv
<1>2. CASE worker[w].attempt <= PageRetries
  <2> DEFINE y == [worker[w] EXCEPT !.attempt = @ + 1]
  <2>1. worker' = [worker EXCEPT ![w] = y] /\ UNCHANGED <<job, line, asset, syncClock, faults>>
    BY <1>2 DEF FetchFails
  <2>2. /\ y \in Run /\ y.at = worker[w].at /\ y.job = worker[w].job /\ y.read = worker[w].read
        /\ y.todo = worker[w].todo /\ y.stamp = worker[w].stamp /\ y.alone = worker[w].alone
    BY <1>1 DEF Run
  <2> HIDE DEF y
  <2>3. RunSound(y, asset, syncClock)
    BY <1>1, <2>2 DEF RunSound, Ahead
  <2>. QED BY <1>1, <2>1, <2>2, <2>3, FreeIs, SlotMoves
<1>3. CASE ~(worker[w].attempt <= PageRetries)
  BY <1>1, <1>3, ThrowKeeps DEF FetchFails
<1>. QED BY <1>2, <1>3

LEMMA FetchPageKeeps ==
  ASSUME AssetInv, NEW w \in Worker, NEW page \in Page, FetchPage(w, page)
  PROVE  AssetInv'
<1> DEFINE x     == worker[w]
           more  == Normalized(page, syncClock)
           read  == x.read \o more
           stage == IF LastPage(w, more) THEN "fetched" ELSE "fetching"
           next  == IF LastPage(w, more) THEN x.page ELSE x.page + 1
           y == [x EXCEPT !.read = read, !.at = stage, !.page = next, !.attempt = 1]
<1>1. /\ x.at = "fetching" /\ x \in Run /\ RunSound(x, asset, syncClock)
      /\ worker' = [worker EXCEPT ![w] = y] /\ UNCHANGED <<job, line, asset, syncClock, faults>>
  BY DEF FetchPage, AssetInv
<1>2. /\ more \in Seq(Reading) /\ \A i \in DOMAIN more : more[i].at = syncClock
      /\ x.read \in Seq(Reading) /\ x.page \in Nat
  BY <1>1, NormalizedIs, RunFields DEF AssetInv
<1>3. stage \in {"fetched", "fetching"} /\ next \in Nat
  BY <1>2
<1> HIDE DEF more, stage, next
<1>4. /\ read \in Seq(Reading)
      /\ \A i \in DOMAIN read : (\E k \in DOMAIN x.read : read[i] = x.read[k]) \/ read[i].at = syncClock
  <2> DEFINE s == x.read
  <2> HIDE DEF x
  <2>1. /\ s \in Seq(Reading) /\ Len(s) \in Nat /\ Len(more) \in Nat /\ DOMAIN s = 1..Len(s)
        /\ DOMAIN more = 1..Len(more)
    BY <1>2
  <2> HIDE DEF s
  <2>2. /\ s \o more \in Seq(Reading) /\ Len(s \o more) = Len(s) + Len(more)
        /\ DOMAIN (s \o more) = 1..Len(s) + Len(more)
        /\ \A i \in 1..Len(s) + Len(more) : (s \o more)[i] = IF i <= Len(s) THEN s[i] ELSE more[i - Len(s)]
    BY <1>2, <2>1
  <2>3. ASSUME NEW i \in DOMAIN (s \o more)
        PROVE  (\E k \in DOMAIN s : (s \o more)[i] = s[k]) \/ (s \o more)[i].at = syncClock
    <3>1. CASE i <= Len(s)
      BY <2>1, <2>2, <2>3, <3>1
    <3>2. CASE ~(i <= Len(s))
      <4>1. i - Len(s) \in DOMAIN more
        BY <2>1, <2>2, <2>3, <3>2
      <4>. QED BY <1>2, <2>2, <2>3, <3>2, <4>1
    <3>. QED BY <3>1, <3>2
  <2>. QED BY <2>2, <2>3 DEF s
<1> HIDE DEF read
<1>5. /\ y \in Run /\ y.at = stage /\ y.job = x.job /\ y.read = read /\ y.todo = x.todo
      /\ y.alone = x.alone
  BY <1>1, <1>3, <1>4 DEF Run, Stage
<1> HIDE DEF y
<1>6. syncClock \in Nat /\ \A c \in Asset : syncClock >= asset[c].price /\ syncClock >= asset[c].data
  <2> SUFFICES ASSUME NEW c \in Asset
               PROVE  syncClock \in Nat /\ syncClock >= asset[c].price /\ syncClock >= asset[c].data
    BY DEF AssetInv
  <2>1. asset[c] \in AssetRow /\ RowSound(asset[c], syncClock) /\ syncClock \in Nat
    BY DEF AssetInv
  <2>. QED BY <2>1, RowFields DEF RowSound
<1>7. \A i \in DOMAIN read : read[i].at <= syncClock
  BY <1>1, <1>4, <1>6 DEF RunSound
<1>8. x.todo = <<>> /\ AreLast(<<>>, read)
  BY <1>1 DEF RunSound, AreLast
<1>9. x.alone => \A i \in DOMAIN read, c \in Asset : read[i].at >= asset[c].price /\ read[i].at >= asset[c].data
  BY <1>1, <1>4, <1>6 DEF RunSound, Ahead
<1>10. RunSound(y, asset, syncClock)
  BY <1>1, <1>3, <1>5, <1>7, <1>8, <1>9 DEF RunSound, Ahead
<1>. QED BY <1>1, <1>5, <1>10, FreeIs, SlotMoves

LEMMA ToSyncDataKeeps ==
  ASSUME AssetInv, NEW w \in Worker, ToSyncData(w)
  PROVE  AssetInv'
<1> DEFINE x == worker[w]
           todo == Unique(x.read)
           y == [x EXCEPT !.at = "writing", !.todo = todo, !.stamp = syncClock]
<1>1. /\ x.at = "fetched" /\ x \in Run /\ RunSound(x, asset, syncClock)
      /\ worker' = [worker EXCEPT ![w] = y] /\ UNCHANGED <<job, line, asset, syncClock, faults>>
  BY DEF ToSyncData, AssetInv
<1>2. x.read \in Seq(Reading) /\ syncClock \in 0..MaxSyncClock /\ syncClock \in Nat
  BY <1>1, RunFields DEF AssetInv
<1>3. todo \in Seq(Reading) /\ Distinct(todo) /\ AreLast(todo, x.read) /\ AllOf(todo, x.read)
  BY <1>2, UniqueIs
<1> HIDE DEF todo
<1>4. /\ y \in Run /\ y.at = "writing" /\ y.job = x.job /\ y.read = x.read /\ y.todo = todo
      /\ y.stamp = syncClock /\ y.alone = x.alone
  BY <1>1, <1>2, <1>3 DEF Run, Stage, Stamp
<1> HIDE DEF y
<1>5. \A c \in Asset : syncClock >= asset[c].stamp
  BY RowFields DEF AssetInv, RowSound
<1>6. \A n \in DOMAIN todo : todo[n].coin \in Asset /\ \E i \in DOMAIN x.read : x.read[i] = todo[n]
  BY <1>3, ReadingFields DEF AreLast
<1>7. x.alone => \A n \in DOMAIN todo : /\ todo[n].at >= asset[todo[n].coin].price
                                        /\ todo[n].at >= asset[todo[n].coin].data
  BY <1>1, <1>6 DEF RunSound, Ahead
<1>8. x.alone => Ahead(y, asset)
  BY <1>3, <1>4, <1>5, <1>7 DEF Ahead, AllOf
<1>9. \A i \in DOMAIN x.read : x.read[i].at <= syncClock
  BY <1>1 DEF RunSound
<1>10. RunSound(y, asset, syncClock)
  BY <1>1, <1>2, <1>3, <1>4, <1>8, <1>9 DEF RunSound
<1>. QED BY <1>1, <1>4, <1>10, FreeIs, SlotMoves

-----------------------------------------------------------------------------

\* The rows after the first m readings of a run are written.
Upserted(x, m, rows, new) ==
  \A c \in Asset :
    \/ \E n \in 1..m : x.todo[n].coin = c /\ new[c] = Merged(rows[c], x.todo[n], x.stamp)
    \/ new[c] = rows[c] /\ \A n \in 1..m : x.todo[n].coin # c

LEMMA MergedIs ==
  ASSUME NEW task \in AssetRow, NEW r \in Reading, NEW stamp \in 0..MaxSyncClock
  PROVE  /\ Merged(task, r, stamp) \in AssetRow
         /\ Merged(task, r, stamp).price = IF r.quoted THEN r.at ELSE task.price
         /\ Merged(task, r, stamp).data = r.at /\ Merged(task, r, stamp).stamp = stamp
BY DEF Merged, AssetRow, Reading, Stamp

LEMMA SplitIs ==
  ASSUME NEW S, NEW s \in Seq(S), NEW m \in 0..Len(s)
  PROVE  /\ SubSeq(s, 1, m) \in Seq(S) /\ Len(SubSeq(s, 1, m)) = m
         /\ \A i \in 1..m : SubSeq(s, 1, m)[i] = s[i]
         /\ SubSeq(s, m + 1, Len(s)) \in Seq(S) /\ Len(SubSeq(s, m + 1, Len(s))) = Len(s) - m
         /\ \A i \in 1..Len(s) - m : SubSeq(s, m + 1, Len(s))[i] = s[m + i]
<1>1. Len(s) \in Nat /\ m \in Nat /\ m <= Len(s)
  OBVIOUS
<1>2. /\ SubSeq(s, 1, m) \in Seq(S) /\ Len(SubSeq(s, 1, m)) = m
      /\ \A i \in 1..m : SubSeq(s, 1, m)[i] = s[i]
  BY <1>1
<1>3. /\ SubSeq(s, m + 1, Len(s)) \in Seq(S) /\ Len(SubSeq(s, m + 1, Len(s))) = Len(s) - m
      /\ \A i \in 1..Len(s) - m : SubSeq(s, m + 1, Len(s))[i] = s[m + i]
  BY <1>1
<1>. QED BY <1>2, <1>3

\* The step of a batch on its rows, and what it leaves of the run.
LEMMA BatchIsWritten ==
  ASSUME NEW now \in 0..MaxSyncClock, NEW x \in Run, x.at = "writing",
         NEW rows \in [Asset -> AssetRow], RunSound(x, rows, now), \A c \in Asset : RowSound(rows[c], now),
         NEW m \in 0..Len(x.todo), NEW new \in [Asset -> AssetRow], Upserted(x, m, rows, new),
         NEW y \in Run, y.at = (IF m = Len(x.todo) THEN "done" ELSE "writing"),
         y.todo = SubSeq(x.todo, m + 1, Len(x.todo)), y.job = x.job, y.read = x.read,
         y.stamp = x.stamp, y.alone = x.alone
  PROVE  /\ RunSound(y, new, now) /\ \A c \in Asset : RowSound(new[c], now)
         /\ \A c \in Asset :
              /\ rows[c].price # Never => new[c].price # Never
              /\ x.alone => /\ new[c].price >= rows[c].price /\ new[c].data >= rows[c].data
                            /\ new[c].stamp >= rows[c].stamp
<1> DEFINE s == x.todo
           t == y.todo
           M == Len(s)
<1>1. s \in Seq(Reading) /\ M \in Nat /\ DOMAIN s = 1..M /\ m \in Nat /\ m <= M /\ x.read \in Seq(Reading)
  BY RunFields
<1>2. /\ t \in Seq(Reading) /\ Len(t) = M - m /\ DOMAIN t = 1..M - m
      /\ \A i \in 1..M - m : t[i] = s[m + i]
  <2>1. t = SubSeq(s, m + 1, M) /\ m \in 0..M
    OBVIOUS
  <2> HIDE DEF t
  <2>2. /\ SubSeq(s, m + 1, M) \in Seq(Reading) /\ Len(SubSeq(s, m + 1, M)) = M - m
        /\ \A i \in 1..M - m : SubSeq(s, m + 1, M)[i] = s[m + i]
    BY <1>1, <2>1, SplitIs
  <2>3. t \in Seq(Reading) /\ Len(t) = M - m /\ \A i \in 1..M - m : t[i] = s[m + i]
    BY <2>1, <2>2
  <2>4. DOMAIN t = 1..M - m
    BY <2>3
  <2>. QED BY <2>3, <2>4
<1>3. \A n \in 1..M : s[n] \in Reading /\ s[n].coin \in Asset /\ s[n].at \in Nat
  BY <1>1, ReadingFields
<1>4. /\ x.job \in Job /\ x.stamp \in 0..now /\ x.stamp \in 0..MaxSyncClock /\ x.stamp \in Nat /\ now \in Nat
      /\ \A i \in DOMAIN x.read : x.read[i].at <= now /\ x.read[i].at <= x.stamp
      /\ Distinct(s) /\ AreLast(s, x.read)
      /\ x.alone => Ahead(x, rows)
  BY CatalogueAssumption DEF RunSound
<1>5. \A n \in 1..M : s[n].at <= x.stamp
  BY <1>1, <1>4 DEF AreLast
<1> HIDE DEF s, t, M
<1>6. ASSUME NEW c \in Asset, NEW n \in 1..m, s[n].coin = c,
             new[c] = Merged(rows[c], s[n], x.stamp)
      PROVE  /\ new[c].price = (IF s[n].quoted THEN s[n].at ELSE rows[c].price)
             /\ new[c].data = s[n].at /\ new[c].stamp = x.stamp
  <2>1. n \in 1..M
    BY <1>1
  <2>. QED BY <1>3, <1>4, <1>6, <2>1, MergedIs
<1>7. ASSUME NEW c \in Asset
      PROVE  \/ \E n \in 1..m : /\ s[n].coin = c
                                /\ new[c].price = (IF s[n].quoted THEN s[n].at ELSE rows[c].price)
                                /\ new[c].data = s[n].at /\ new[c].stamp = x.stamp
             \/ new[c] = rows[c] /\ \A n \in 1..m : s[n].coin # c
  BY <1>6 DEF Upserted, s
<1>8. \A c \in Asset : RowSound(new[c], now)
  <2> SUFFICES ASSUME NEW c \in Asset PROVE RowSound(new[c], now)
    OBVIOUS
  <2>1. RowSound(rows[c], now) /\ rows[c] \in AssetRow
    OBVIOUS
  <2>2. ASSUME NEW n \in 1..m, s[n].coin = c,
               new[c].price = (IF s[n].quoted THEN s[n].at ELSE rows[c].price),
               new[c].data = s[n].at, new[c].stamp = x.stamp
        PROVE  RowSound(new[c], now)
    <3>1. n \in 1..M /\ s[n].at \in Nat /\ s[n].at <= x.stamp
      BY <1>1, <1>3, <1>5
    <3>. QED BY <1>4, <2>1, <2>2, <3>1, RowFields DEF RowSound
  <2>. QED BY <1>7, <2>1, <2>2
<1>9. \A c \in Asset : rows[c].price # Never => new[c].price # Never
  <2> SUFFICES ASSUME NEW c \in Asset, rows[c].price # Never PROVE new[c].price # Never
    OBVIOUS
  <2>1. \A n \in 1..m : s[n].at # Never
    BY <1>1, <1>3 DEF Never
  <2>. QED BY <1>7, <2>1
<1>10. ASSUME x.alone, NEW c \in Asset
       PROVE  /\ new[c].price >= rows[c].price /\ new[c].data >= rows[c].data
              /\ new[c].stamp >= rows[c].stamp
  <2>1. rows[c].price \in Int /\ rows[c].data \in Int /\ rows[c].stamp \in Int
    BY RowFields
  <2>2. /\ \A n \in 1..M : s[n].at >= rows[s[n].coin].price /\ s[n].at >= rows[s[n].coin].data
        /\ x.stamp >= rows[c].stamp
    BY <1>1, <1>4, <1>10 DEF Ahead, s
  <2>3. \A n \in 1..m : n \in 1..M
    BY <1>1
  <2>. QED BY <1>7, <2>1, <2>2, <2>3
<1>11. Distinct(t)
  <2> SUFFICES ASSUME NEW i \in 1..M - m, NEW k \in 1..M - m, t[i].coin = t[k].coin PROVE i = k
    BY <1>2 DEF Distinct
  <2>1. m + i \in 1..M /\ m + k \in 1..M
    BY <1>1
  <2>2. s[m + i].coin = s[m + k].coin
    BY <1>2
  <2>3. m + i = m + k
    BY <1>1, <1>4, <2>1, <2>2 DEF Distinct
  <2>. QED BY <1>1, <2>3
<1>12. AreLast(t, x.read)
  <2> SUFFICES ASSUME NEW i \in 1..M - m
               PROVE  /\ t[i] = x.read[LastOf(Occurs(t[i].coin, x.read))]
                      /\ \E k \in DOMAIN x.read : x.read[k] = t[i]
    BY <1>2 DEF AreLast
  <2>1. m + i \in 1..M /\ t[i] = s[m + i]
    BY <1>1, <1>2
  <2>. QED BY <1>1, <1>4, <2>1 DEF AreLast
<1>13. ASSUME x.alone PROVE Ahead(y, new)
  <2>1. ASSUME y.at = "writing", NEW i \in 1..M - m
        PROVE  t[i].at >= new[t[i].coin].price /\ t[i].at >= new[t[i].coin].data
    <3>1. m + i \in 1..M /\ t[i] = s[m + i]
      BY <1>1, <1>2
    <3>2. s[m + i].coin \in Asset /\ \A n \in 1..m : s[n].coin # s[m + i].coin
      <4>1. \A n \in 1..m : n \in 1..M /\ n # m + i
        BY <1>1
      <4>. QED BY <1>1, <1>3, <1>4, <3>1, <4>1 DEF Distinct
    <3>3. new[t[i].coin] = rows[t[i].coin]
      BY <1>7, <3>1, <3>2
    <3>4. s[m + i].at >= rows[s[m + i].coin].price /\ s[m + i].at >= rows[s[m + i].coin].data
      BY <1>1, <1>4, <1>13, <3>1 DEF Ahead, s
    <3>. QED BY <3>1, <3>3, <3>4
  <2>2. ASSUME NEW c \in Asset PROVE x.stamp >= new[c].stamp
    <3>1. x.stamp >= rows[c].stamp
      BY <1>4, <1>13 DEF Ahead
    <3>. QED BY <1>4, <1>7, <3>1
  <2>3. ASSUME NEW i \in DOMAIN x.read, NEW last, last = x.read[LastOf(Occurs(x.read[i].coin, x.read))]
        PROVE  \/ /\ new[x.read[i].coin].data = last.at
                  /\ new[x.read[i].coin].stamp = x.stamp
               \/ \E n \in DOMAIN t : t[n] = last
    <3> DEFINE c == x.read[i].coin
    <3>1. c \in Asset /\ last.coin = c
      BY <1>1, <2>3, OccursIs, ReadingFields
    <3>2. ASSUME rows[c].data = last.at, rows[c].stamp = x.stamp PROVE new[c].data = last.at /\ new[c].stamp = x.stamp
      <4>1. ASSUME NEW n \in 1..m, s[n].coin = c PROVE s[n].at = last.at
        <5>1. n \in DOMAIN s
          BY <1>1
        <5>2. s[n] = x.read[LastOf(Occurs(s[n].coin, x.read))]
          BY <1>4, <5>1 DEF AreLast
        <5>. QED BY <2>3, <4>1, <5>2
      <4>. QED BY <1>7, <3>1, <3>2, <4>1
    <3>3. ASSUME NEW n \in 1..M, s[n] = last
          PROVE  (new[c].data = last.at /\ new[c].stamp = x.stamp) \/ \E k \in DOMAIN t : t[k] = last
      <4>1. CASE n <= m
        <5>1. n \in 1..m
          BY <4>1
        <5>2. \A k \in 1..m : s[k].coin = c => k = n
          <6>1. n \in DOMAIN s /\ \A k \in 1..m : k \in DOMAIN s
            BY <1>1
          <6>. QED BY <1>4, <3>1, <3>3, <6>1 DEF Distinct
        <5>. QED BY <1>7, <3>1, <3>3, <5>1, <5>2
      <4>2. CASE ~(n <= m)
        <5>1. n - m \in 1..M - m /\ m + (n - m) = n
          BY <1>1, <4>2
        <5>. QED BY <1>2, <3>3, <5>1
      <4>. QED BY <4>1, <4>2
    <3>4. \/ rows[c].data = last.at /\ rows[c].stamp = x.stamp
          \/ \E n \in 1..M : s[n] = last
      BY <1>1, <1>4, <1>13, <2>3 DEF Ahead, s
    <3>. QED BY <3>2, <3>3, <3>4
  <2>4. y.at \in {"writing", "done"}
    OBVIOUS
  <2>5. y.at = "writing" =>
          /\ \A n \in DOMAIN y.todo : /\ y.todo[n].at >= new[y.todo[n].coin].price
                                      /\ y.todo[n].at >= new[y.todo[n].coin].data
          /\ \A c \in Asset : y.stamp >= new[c].stamp
    BY <1>2, <2>1, <2>2 DEF t
  <2>6. \A i \in DOMAIN y.read :
          \/ /\ new[y.read[i].coin].data = y.read[LastOf(Occurs(y.read[i].coin, y.read))].at
             /\ new[y.read[i].coin].stamp = y.stamp
          \/ \E n \in DOMAIN y.todo : y.todo[n] = y.read[LastOf(Occurs(y.read[i].coin, y.read))]
    BY <2>3 DEF t
  <2>. QED BY <2>4, <2>5, <2>6 DEF Ahead
<1>14. y.at # "writing" => t = <<>>
  <2> SUFFICES ASSUME m = M PROVE t = <<>>
    BY DEF M, s
  <2>. QED BY <1>1, <1>2
<1>15. RunSound(y, new, now)
  <2>1. y.at \in {"writing", "done"}
    OBVIOUS
  <2>. QED BY <1>4, <1>11, <1>12, <1>13, <1>14, <2>1 DEF RunSound, t
<1>. QED BY <1>8, <1>9, <1>10, <1>15

LEMMA UpsertBatchKeeps ==
  ASSUME AssetInv, NEW w \in Worker, UpsertBatch(w)
  PROVE  /\ AssetInv'
         /\ \A v \in Worker : v # w => worker'[v] = worker[v]
         /\ \A c \in Asset :
              /\ asset[c].price # Never => asset'[c].price # Never
              /\ worker[w].alone =>
                   /\ asset'[c].price >= asset[c].price /\ asset'[c].data >= asset[c].data
                   /\ asset'[c].stamp >= asset[c].stamp
<1> DEFINE x == worker[w]
           s == x.todo
           m == IF Len(s) < BatchSize THEN Len(s) ELSE BatchSize
           b == SubSeq(s, 1, m)
           t == SubSeq(s, m + 1, Len(s))
           stage == IF m = Len(s) THEN "done" ELSE "writing"
           y == [x EXCEPT !.todo = t, !.at = stage]
           Hits(c) == {i \in DOMAIN b : b[i].coin = c}
           new == [c \in Asset |-> IF Hits(c) = {} THEN asset[c]
                                   ELSE Merged(asset[c], b[CHOOSE i \in Hits(c) : TRUE], x.stamp)]
<1>1. /\ x.at = "writing" /\ x \in Run /\ RunSound(x, asset, syncClock)
      /\ syncClock \in 0..MaxSyncClock /\ asset \in [Asset -> AssetRow]
      /\ \A c \in Asset : RowSound(asset[c], syncClock)
  BY DEF UpsertBatch, AssetInv
<1>2. s \in Seq(Reading) /\ Len(s) \in Nat /\ m \in 0..Len(s)
  BY <1>1, RunFields, CatalogueAssumption
<1>3. b = Batch(w)
  BY DEF Batch
<1> HIDE DEF m
<1>4. b \in Seq(Reading) /\ Len(b) = m /\ DOMAIN b = 1..m /\ \A i \in 1..m : b[i] = s[i]
  BY <1>2, SplitIs
<1>4a. t \in Seq(Reading)
  BY <1>2, SplitIs
<1>5. /\ asset' = new /\ UNCHANGED <<job, line, syncClock, faults>>
      /\ worker' = [worker EXCEPT ![w] = y]
  <2>1. asset' = new
    <3> HIDE DEF b
    <3>. QED BY <1>3 DEF UpsertBatch
  <2>2. worker' = [worker EXCEPT ![w] = [x EXCEPT !.todo = SubSeq(s, Len(b) + 1, Len(s)),
                                                  !.at = IF Len(b) = Len(s) THEN "done" ELSE x.at]]
    <3> HIDE DEF b
    <3>. QED BY <1>3 DEF UpsertBatch, AssetInv
  <2>3. SubSeq(s, Len(b) + 1, Len(s)) = t /\ (IF Len(b) = Len(s) THEN "done" ELSE x.at) = stage
    BY <1>1, <1>4
  <2>. QED BY <2>1, <2>2, <2>3 DEF UpsertBatch
<1>6. stage \in {"done", "writing"}
  OBVIOUS
<1>7. /\ y \in Run /\ y.at = stage /\ y.todo = t /\ y.job = x.job /\ y.read = x.read
      /\ y.stamp = x.stamp /\ y.alone = x.alone
  <2> HIDE DEF t, stage, x
  <2>1. y \in Run
    <3>1. x \in Run
      BY <1>1
    <3>2. t \in Seq(Reading)
      BY <1>4a
    <3>3. stage \in Stage
      BY <1>6 DEF Stage
    <3>. QED BY <3>1, <3>2, <3>3 DEF Run
  <2>2. /\ y.at = stage /\ y.todo = t /\ y.job = x.job /\ y.read = x.read /\ y.stamp = x.stamp
    BY <1>1 DEF Run
  <2>3. y.alone = x.alone
    BY <1>1 DEF Run
  <2>. QED BY <2>1, <2>2, <2>3
<1>8. x.stamp \in 0..MaxSyncClock
  BY <1>1, CatalogueAssumption DEF RunSound
<1> HIDE DEF y, b, t, x, Hits
<1>9. ASSUME NEW c \in Asset
      PROVE  /\ new[c] \in AssetRow
             /\ \/ \E n \in 1..m : s[n].coin = c /\ new[c] = Merged(asset[c], s[n], x.stamp)
                \/ new[c] = asset[c] /\ \A n \in 1..m : s[n].coin # c
  <2>1. CASE Hits(c) = {}
    BY <1>1, <1>4, <2>1 DEF Hits
  <2>2. CASE Hits(c) # {}
    <3>1. PICK i \in Hits(c) : i = CHOOSE k \in Hits(c) : TRUE
      BY <2>2
    <3>2. i \in 1..m /\ b[i] = s[i] /\ s[i].coin = c /\ s[i] \in Reading
      BY <1>2, <1>4, <3>1 DEF Hits
    <3>3. new[c] = Merged(asset[c], s[i], x.stamp)
      BY <2>2, <3>1, <3>2
    <3> HIDE DEF new
    <3>4. new[c] \in AssetRow
      BY <1>1, <1>8, <3>2, <3>3, MergedIs
    <3>. QED BY <3>2, <3>3, <3>4
  <2>. QED BY <2>1, <2>2
<1>10. new \in [Asset -> AssetRow]
  BY <1>9
<1>11. Upserted(x, m, asset, new)
  BY <1>9 DEF Upserted
<1> HIDE DEF new
<1>12. /\ RunSound(y, new, syncClock) /\ \A c \in Asset : RowSound(new[c], syncClock)
       /\ \A c \in Asset :
            /\ asset[c].price # Never => new[c].price # Never
            /\ x.alone => /\ new[c].price >= asset[c].price /\ new[c].data >= asset[c].data
                          /\ new[c].stamp >= asset[c].stamp
  BY <1>1, <1>2, <1>7, <1>10, <1>11, BatchIsWritten DEF t
<1>13. \A v \in Worker : worker'[v] = IF v = w THEN y ELSE worker[v]
  BY <1>5 DEF AssetInv
<1>14. \A v \in Worker : v # w => ~worker[v].alone
  BY <1>1, FreeIs DEF AssetInv, AloneIsAlone, x
<1>15. worker' \in [Worker -> Run] /\ \A v \in Worker : RunSound(worker'[v], asset', syncClock')
  <2>1. \A v \in Worker : v # w => RunSound(worker[v], new, syncClock)
    BY <1>14 DEF AssetInv, RunSound
  <2>. QED BY <1>5, <1>7, <1>12, <1>13, <2>1 DEF AssetInv
<1>16. AloneIsAlone'
  BY <1>7, <1>13, <1>14 DEF AssetInv, AloneIsAlone, x
<1>17. JobsSound' /\ LineSound'
  BY <1>5 DEF AssetInv, JobsSound, LineSound
<1>18. AssetInv'
  BY <1>5, <1>10, <1>12, <1>15, <1>16, <1>17 DEF AssetInv
<1>. QED BY <1>5, <1>12, <1>13, <1>18 DEF x

LEMMA AssetSteps == AssetInv /\ [AssetNext]_assetVars => AssetInv'
<1> SUFFICES ASSUME AssetInv, [AssetNext]_assetVars PROVE AssetInv'
  OBVIOUS
<1>1. ASSUME NEW j \in Job, EnqueueManualSync(j) \/ Repeat(j) PROVE AssetInv'
  BY <1>1, AddKeeps
<1>2. ASSUME NEW j \in Job, Promote(j) \/ Reclaim(j) PROVE AssetInv'
  BY <1>2, PromoteKeeps, ReclaimKeeps
<1>3. ASSUME NEW j \in Job, NEW w \in Worker, Take(w, j) PROVE AssetInv'
  BY <1>3, TakeKeeps
<1>4. ASSUME NEW w \in Worker, NEW page \in Page, FetchPage(w, page) PROVE AssetInv'
  BY <1>4, FetchPageKeeps
<1>5. ASSUME NEW w \in Worker, FetchFails(w) PROVE AssetInv'
  BY <1>5, FetchFailsKeeps
<1>6. ASSUME NEW w \in Worker, FetchRefused(w) \/ EmptySync(w) \/ UpsertFails(w) PROVE AssetInv'
  BY <1>6, ThrowKeeps DEF FetchRefused, EmptySync, UpsertFails
<1>7. ASSUME NEW w \in Worker, ToSyncData(w) PROVE AssetInv'
  BY <1>7, ToSyncDataKeeps
<1>8. ASSUME NEW w \in Worker, UpsertBatch(w) PROVE AssetInv'
  BY <1>8, UpsertBatchKeeps
<1>9. ASSUME NEW w \in Worker, Complete(w) PROVE AssetInv'
  BY <1>9, CompleteKeeps
<1>10. ASSUME NEW w \in Worker, WorkerCrash(w) PROVE AssetInv'
  BY <1>10, CrashKeeps
<1>11. ASSUME SyncTick PROVE AssetInv'
  BY <1>11, SyncTickKeeps
<1>12. CASE UNCHANGED assetVars
  <2>1. JobsSound' /\ LineSound'
    BY <1>12 DEF assetVars, AssetInv, JobsSound, LineSound
  <2>. QED BY <1>12, <2>1, QueueMoves DEF assetVars, AssetInv
<1>. QED BY <1>1, <1>2, <1>3, <1>4, <1>5, <1>6, <1>7, <1>8, <1>9, <1>10, <1>11, <1>12 DEF AssetNext

\* Whatever workers crash, one owner's sync at most is pending (EnqueueManualSync
\* looks before it adds, and a reclaimed or repeated job does not count twice),
\* and the columns of a task are no younger than its stamp.
THEOREM AssetsTyped == AssetSpec => []AssetTypeOK
<1>1. AssetInv => AssetTypeOK
  <2> SUFFICES ASSUME AssetInv PROVE AssetTypeOK
    OBVIOUS
  <2>1. \A j \in Job : /\ job[j].state \in {"absent", "waiting", "active", "delayed", "completed",
                                            "failed"}
                       /\ job[j].made \in 0..Attempts /\ job[j].stalled \in 0..MaxStalled + 1
                       /\ job[j].owner \in Worker \cup {NoWorker}
    BY DEF AssetInv, JobsSound, JobRow
  <2>2. Cardinality({j \in Job : Pending(j) /\ job[j].kind = "manual"}) <= 1
    <3> DEFINE T == {j \in Job : Pending(j) /\ job[j].kind = "manual"}
    <3>1. \A j, k \in T : j = k
      BY DEF Pending, Manual, AssetInv, JobsSound
    <3>2. CASE T = {}
      BY <3>2, FS_EmptySet
    <3>3. ASSUME NEW j \in T PROVE Cardinality(T) <= 1
      <4>1. T = {j}
        BY <3>1
      <4>. QED BY <4>1, FS_Singleton
    <3>. QED BY <3>2, <3>3
  <2>3. \A c \in Asset : /\ asset[c].price <= syncClock
                         /\ asset[c].data <= asset[c].stamp /\ asset[c].stamp <= syncClock
    BY DEF AssetInv, RowSound
  <2>. QED BY <2>1, <2>2, <2>3 DEF AssetTypeOK
<1>. QED BY <1>1, AssetsStart, AssetSteps, PTL DEF AssetSpec

LEMMA WrittenIsRead == AssetInv => RunsWriteWhatTheyRead
<1> SUFFICES ASSUME AssetInv PROVE RunsWriteWhatTheyRead
  OBVIOUS
<1>1. ASSUME NEW w \in Worker, NEW i \in DOMAIN Batch(w), NEW k \in DOMAIN Batch(w),
             Batch(w)[i].coin = Batch(w)[k].coin
      PROVE  i = k
  <2> DEFINE s == worker[w].todo
             m == IF Len(s) < BatchSize THEN Len(s) ELSE BatchSize
  <2>1. s \in Seq(Reading) /\ Distinct(s) /\ Len(s) \in Nat /\ DOMAIN s = 1..Len(s)
    BY RunFields DEF AssetInv, RunSound
  <2>2. m \in 0..Len(s)
    BY <2>1, CatalogueAssumption
  <2>3. Batch(w) = SubSeq(s, 1, m)
    BY DEF Batch
  <2> HIDE DEF s, m
  <2>4. DOMAIN Batch(w) = 1..m /\ \A n \in 1..m : Batch(w)[n] = s[n] /\ n \in DOMAIN s
    BY <2>1, <2>2, <2>3, SplitIs
  <2>. QED BY <1>1, <2>1, <2>4 DEF Distinct
<1>2. ASSUME NEW w \in Worker, worker[w].at = "done", worker[w].alone, NEW i \in DOMAIN worker[w].read
      PROVE  /\ asset[worker[w].read[i].coin].data
                  = worker[w].read[LastOf(Occurs(worker[w].read[i].coin, worker[w].read))].at
             /\ asset[worker[w].read[i].coin].stamp = worker[w].stamp
  <2>1. worker[w].todo = <<>> /\ Ahead(worker[w], asset)
    BY <1>2 DEF AssetInv, RunSound
  <2>2. DOMAIN worker[w].todo = {}
    BY <2>1
  <2>. QED BY <1>2, <2>1, <2>2 DEF Ahead
<1>3. \A j \in Job : job[j].state = "failed" =>
        job[j].refused \/ job[j].made = Attempts \/ job[j].stalled > MaxStalled
  BY DEF AssetInv, JobsSound, JobSound
<1>. QED BY <1>1, <1>2, <1>3 DEF RunsWriteWhatTheyRead

\* Only a batch changes a task.
LEMMA RowsAreLeftAlone ==
  ASSUME AssetNext, asset' # asset
  PROVE  \E w \in Worker : UpsertBatch(w)
<1>1. ASSUME NEW j \in Job, EnqueueManualSync(j) \/ Repeat(j) \/ Promote(j) \/ Reclaim(j)
      PROVE  FALSE
  BY <1>1 DEF EnqueueManualSync, Repeat, Add, Promote, Reclaim
<1>2. ASSUME NEW j \in Job, NEW w \in Worker, Take(w, j) PROVE FALSE
  BY <1>2 DEF Take
<1>3. ASSUME NEW w \in Worker, NEW page \in Page, FetchPage(w, page) PROVE FALSE
  BY <1>3 DEF FetchPage, Throw
<1>4. ASSUME NEW w \in Worker, FetchFails(w) \/ FetchRefused(w) \/ UpsertFails(w) PROVE FALSE
  BY <1>4 DEF FetchFails, FetchRefused, UpsertFails, Throw
<1>5. ASSUME NEW w \in Worker, ToSyncData(w) \/ EmptySync(w) \/ Complete(w) \/ WorkerCrash(w) PROVE FALSE
  <2>1. ~ToSyncData(w)
    BY DEF ToSyncData
  <2>2. ~EmptySync(w)
    BY DEF EmptySync, Throw
  <2>3. ~Complete(w)
    BY DEF Complete
  <2>4. ~WorkerCrash(w)
    BY DEF WorkerCrash
  <2>. QED BY <1>5, <2>1, <2>2, <2>3, <2>4
<1>. QED BY <1>1, <1>2, <1>3, <1>4, <1>5 DEF AssetNext, SyncTick

\* A statement of the synchronisation never names a coin twice, a run that is
\* through has left the last reading of every coin it took, a job fails only when
\* refused, spent or stalled too often, and while one run is under way no column goes back
\* (SyncAssetsUseCase.execute, AssetRepository.upsertMany).
THEOREM AssetsStaySound == AssetSpec => AssetsSound
<1>1. AssetInv /\ [AssetNext]_assetVars =>
        [\A c \in Asset :
           /\ asset[c].price # Never => asset'[c].price # Never
           /\ asset'[c] # asset[c] =>
                \A w \in Worker : worker'[w].todo # worker[w].todo /\ worker[w].alone =>
                  /\ asset'[c].price >= asset[c].price
                  /\ asset'[c].data >= asset[c].data /\ asset'[c].stamp >= asset[c].stamp]_assetVars
  <2> SUFFICES ASSUME AssetInv, AssetNext, NEW c \in Asset
               PROVE  /\ asset[c].price # Never => asset'[c].price # Never
                      /\ asset'[c] # asset[c] =>
                           \A w \in Worker : worker'[w].todo # worker[w].todo /\ worker[w].alone =>
                             /\ asset'[c].price >= asset[c].price
                             /\ asset'[c].data >= asset[c].data /\ asset'[c].stamp >= asset[c].stamp
    OBVIOUS
  <2>1. CASE asset' = asset
    BY <2>1
  <2>2. ASSUME NEW v \in Worker, UpsertBatch(v)
        PROVE  /\ asset[c].price # Never => asset'[c].price # Never
               /\ \A w \in Worker : worker'[w].todo # worker[w].todo /\ worker[w].alone =>
                    /\ asset'[c].price >= asset[c].price
                    /\ asset'[c].data >= asset[c].data /\ asset'[c].stamp >= asset[c].stamp
    BY <2>2, UpsertBatchKeeps
  <2>. QED BY <2>1, <2>2, RowsAreLeftAlone
<1>. QED BY <1>1, WrittenIsRead, AssetsStart, AssetSteps, PTL DEF AssetSpec, AssetsSound, RowsMoveForward

-------------------------------------------------------------------------------
(***************************************************************************)
(* The coin catalogue: what is shown as active is one report.              *)
(***************************************************************************)

Stages == {"idle", "fetching", "begun", "deactivating", "deactivated", "upserted", "committed"}

RunRecord == [at : Stages, list : SUBSET Coin, seen : SUBSET Coin, locked : SUBSET Coin, met : BOOLEAN]

CoinShape ==
  /\ lock \in Replica \cup {NoReplica}
  /\ run \in [Replica -> RunRecord]
  /\ active \subseteq Coin /\ stray \subseteq Replica
  /\ shown \in [list : SUBSET Coin, mixed : BOOLEAN]

\* Whoever runs holds the lock, unless it has run out under it.
LockGuards == \A r \in Replica : Running(r) /\ r \notin stray => lock = r

RowsApart == \A r, o \in Replica : r # o => run[r].locked \cap run[o].locked = {}

\* A transaction that has met no other is alone, and has seen what is active.
AloneSeesAll ==
  \A r \in Replica : Open(r) /\ ~run[r].met => /\ active \subseteq run[r].seen
                                               /\ \A o \in Others(r) : ~Open(o)

CoinInv == CoinShape /\ LockGuards /\ RowsApart /\ AloneSeesAll
           /\ (~shown.mixed => active = shown.list)

\* The updates of a run are runs.
LEMMA RunLists ==
  ASSUME NEW x \in RunRecord, NEW at \in Stages, NEW A \in SUBSET Coin
  PROVE  [x EXCEPT !.at = at, !.list = A] \in RunRecord
BY DEF RunRecord

LEMMA RunSees ==
  ASSUME NEW x \in RunRecord, NEW at \in Stages, NEW A \in SUBSET Coin, NEW m \in BOOLEAN
  PROVE  [x EXCEPT !.at = at, !.seen = A, !.met = m] \in RunRecord
BY DEF RunRecord

LEMMA RunLocks ==
  ASSUME NEW x \in RunRecord, NEW at \in Stages, NEW A \in SUBSET Coin
  PROVE  /\ [x EXCEPT !.at = at, !.locked = A] \in RunRecord
         /\ [x EXCEPT !.at = at, !.locked = A, !.seen = A] \in RunRecord
BY DEF RunRecord

LEMMA RunMeets ==
  ASSUME NEW x \in RunRecord, NEW m \in BOOLEAN
  PROVE  [x EXCEPT !.met = m] \in RunRecord
BY DEF RunRecord

LEMMA CoinInvInit == CoinInit => CoinInv
<1> SUFFICES ASSUME CoinInit PROVE CoinInv
  OBVIOUS
<1>1. CoinShape
  BY DEF CoinInit, CoinShape, RunRecord, Stages, Idle
<1>. QED BY <1>1 DEF CoinInit, CoinInv, LockGuards, RowsApart, AloneSeesAll, Running, Open, Idle

\* A run that ends, whatever it does to the lock.
LEMMA LeavingKeeps ==
  ASSUME CoinInv, NEW r \in Replica, NEW released \in BOOLEAN, Leave(r, released),
         UNCHANGED <<active, shown>>
  PROVE  CoinInv'
<1>1. /\ run' = [run EXCEPT ![r] = Idle] /\ stray' = stray \ {r}
      /\ lock' = IF released /\ lock = r THEN NoReplica ELSE lock
      /\ active' = active /\ shown' = shown
  BY DEF Leave
<1>2. CoinShape
  BY DEF CoinInv
<1>3. Idle \in RunRecord /\ Idle.at = "idle" /\ Idle.locked = {}
  BY DEF Idle, RunRecord, Stages
<1>4. run'[r] = Idle /\ \A o \in Replica : o # r => run'[o] = run[o]
  BY <1>1, <1>2 DEF CoinShape
<1>5. CoinShape'
  BY <1>1, <1>2, <1>3 DEF CoinShape
<1>6. LockGuards'
  BY <1>1, <1>3, <1>4 DEF CoinInv, LockGuards, Running
<1>7. RowsApart'
  BY <1>3, <1>4 DEF CoinInv, RowsApart
<1>8. AloneSeesAll'
  BY <1>1, <1>3, <1>4 DEF CoinInv, AloneSeesAll, Open, Others
<1>. QED BY <1>1, <1>5, <1>6, <1>7, <1>8 DEF CoinInv

LEMMA CoinInvStep == CoinInv /\ [CoinNext]_coinVars => CoinInv'
<1> SUFFICES ASSUME CoinInv, [CoinNext]_coinVars PROVE CoinInv'
  OBVIOUS
<1>0. /\ CoinShape /\ LockGuards /\ RowsApart /\ AloneSeesAll
      /\ \A r \in Replica : run[r] \in RunRecord
  BY DEF CoinInv, CoinShape
<1>1. ASSUME NEW r \in Replica, Acquire(r) PROVE CoinInv'
  <2>1. /\ ~Running(r) /\ lock = NoReplica /\ lock' = r
        /\ run' = [run EXCEPT ![r].at = "fetching"] /\ stray' = stray \ {r}
        /\ active' = active /\ shown' = shown
    BY <1>1 DEF Acquire
  <2>2. /\ run'[r] = [run[r] EXCEPT !.at = "fetching"] /\ run'[r] \in RunRecord
        /\ run'[r].at = "fetching" /\ run'[r].locked = run[r].locked
        /\ \A o \in Replica : o # r => run'[o] = run[o]
    BY <1>0, <2>1 DEF CoinShape, RunRecord, Stages
  <2>3. CoinShape'
    BY <1>0, <2>1, <2>2 DEF CoinShape
  <2>4. LockGuards'
    <3>1. ASSUME NEW o \in Replica, o # r, Running(o) PROVE o \in stray
      BY <1>0, <2>1, <3>1, CoinAssumption DEF LockGuards
    <3>. QED BY <2>1, <2>2, <3>1 DEF LockGuards, Running
  <2>5. RowsApart'
    BY <1>0, <2>2 DEF RowsApart
  <2>6. AloneSeesAll'
    BY <1>0, <2>1, <2>2 DEF AloneSeesAll, Open, Others
  <2>. QED BY <2>1, <2>3, <2>4, <2>5, <2>6 DEF CoinInv
<1>2. ASSUME NEW r \in Replica, NEW list \in Report, GetCoins(r, list) PROVE CoinInv'
  <2>1. /\ run[r].at = "fetching" /\ list \subseteq Coin
        /\ run' = [run EXCEPT ![r].at = "begun", ![r].list = list]
        /\ UNCHANGED <<lock, active, stray, shown>>
    BY <1>2, CoinAssumption DEF GetCoins
  <2>0. /\ run'[r] = [run[r] EXCEPT !.at = "begun", !.list = list]
        /\ \A o \in Replica : o # r => run'[o] = run[o]
    BY <1>0, <2>1 DEF CoinShape
  <2>2. /\ run'[r] \in RunRecord
        /\ run'[r].at = "begun" /\ run'[r].locked = run[r].locked
        /\ \A o \in Replica : o # r => run'[o] = run[o]
    <3>1. "begun" \in Stages
      BY DEF Stages
    <3>2. run'[r] \in RunRecord
      <4>1. run[r] \in RunRecord /\ list \in SUBSET Coin
        BY <1>0, <2>1
      <4>2. [run[r] EXCEPT !.at = "begun", !.list = list] \in RunRecord
        BY <3>1, <4>1, RunLists
      <4>. QED BY <2>0, <4>2
    <3>. QED BY <1>0, <2>0, <3>2 DEF RunRecord
  <2>3. CoinShape'
    BY <1>0, <2>1, <2>2 DEF CoinShape
  <2>. QED BY <1>0, <2>1, <2>2, <2>3 DEF CoinInv, LockGuards, RowsApart, AloneSeesAll, Open, Others, Running
<1>3. ASSUME NEW r \in Replica, Fail(r) \/ Release(r) \/ Crash(r) PROVE CoinInv'
  BY <1>3, LeavingKeeps DEF Fail, Release, Crash
<1>4. ASSUME NEW r \in Replica, StartDeactivating(r) PROVE CoinInv'
  <2>1. /\ run[r].at = "begun"
        /\ UNCHANGED <<lock, active, stray, shown>>
        /\ run'[r] = [run[r] EXCEPT !.at = "deactivating", !.seen = active,
                                    !.met = \E p \in Others(r) : Open(p)]
        /\ \A o \in Replica : o # r => run'[o] = [run[o] EXCEPT !.met = Open(o)]
    BY <1>4 DEF StartDeactivating
  <2>2. /\ run'[r] \in RunRecord
        /\ run'[r].at = "deactivating" /\ run'[r].locked = run[r].locked /\ run'[r].seen = active
        /\ run'[r].met <=> \E p \in Others(r) : Open(p)
    BY <1>0, <2>1 DEF CoinShape, RunRecord, Stages
  <2>3. ASSUME NEW o \in Replica, o # r
        PROVE /\ run'[o] \in RunRecord
              /\ run'[o].at = run[o].at /\ run'[o].locked = run[o].locked /\ run'[o].met = Open(o)
    <3>1. Open(o) \in BOOLEAN
      BY DEF Open
    <3>2. run'[o] \in RunRecord
      <4>1. [run[o] EXCEPT !.met = Open(o)] \in RunRecord
        BY <1>0, <3>1, RunMeets
      <4>. QED BY <2>1, <2>3, <4>1
    <3>3. run'[o] = [run[o] EXCEPT !.met = Open(o)] /\ run[o] \in RunRecord
      BY <1>0, <2>1, <2>3
    <3>. QED BY <3>2, <3>3 DEF RunRecord
  <2>4. CoinShape'
    <3>1. run' = [o \in Replica |-> run'[o]]
      BY <1>4 DEF StartDeactivating
    <3>. QED BY <1>0, <2>1, <2>2, <2>3, <3>1 DEF CoinShape
  <2>5. AloneSeesAll'
    BY <2>1, <2>2, <2>3 DEF AloneSeesAll, Open, Others
  <2>6. LockGuards'
    BY <1>0, <2>1, <2>2, <2>3 DEF LockGuards, Running
  <2>7. RowsApart'
    BY <1>0, <2>2, <2>3 DEF RowsApart
  <2>. QED BY <2>1, <2>4, <2>5, <2>6, <2>7 DEF CoinInv
<1>5. ASSUME NEW r \in Replica, DeactivateAll(r) PROVE CoinInv'
  <2>1. /\ run[r].at = "deactivating" /\ ~InWay(r, run[r].seen)
        /\ UNCHANGED <<lock, active, stray, shown>>
        /\ run' = [run EXCEPT ![r].at = "deactivated", ![r].locked = run[r].seen \cap active,
                        ![r].seen = run[r].seen \cap active]
    BY <1>5 DEF DeactivateAll
  <2>0. /\ run'[r] = [run[r] EXCEPT !.at = "deactivated", !.locked = run[r].seen \cap active,
                                    !.seen = run[r].seen \cap active]
        /\ \A o \in Replica : o # r => run'[o] = run[o]
    BY <1>0, <2>1 DEF CoinShape
  <2>2. /\ run'[r] \in RunRecord
        /\ run'[r].at = "deactivated" /\ run'[r].locked = run[r].seen \cap active
        /\ run'[r].seen = run[r].seen \cap active /\ run'[r].met = run[r].met
        /\ \A o \in Replica : o # r => run'[o] = run[o]
    <3>1. "deactivated" \in Stages /\ run[r].seen \cap active \in SUBSET Coin
      BY <1>0 DEF Stages, CoinShape
    <3>2. run'[r] \in RunRecord
      <4>1. [run[r] EXCEPT !.at = "deactivated", !.locked = run[r].seen \cap active,
                           !.seen = run[r].seen \cap active] \in RunRecord
        BY <1>0, <3>1, RunLocks
      <4>. QED BY <2>0, <4>1
    <3>. QED BY <1>0, <2>0, <3>2 DEF RunRecord
  <2>3. CoinShape'
    BY <1>0, <2>1, <2>2 DEF CoinShape
  <2>4. RowsApart'
    <3>1. ASSUME NEW o \in Replica, o # r PROVE run'[r].locked \cap run'[o].locked = {}
      BY <1>0, <2>1, <2>2, <3>1 DEF RowsApart, InWay, Others
    <3>. QED BY <1>0, <2>2, <3>1 DEF RowsApart
  <2>5. AloneSeesAll'
    BY <1>0, <2>1, <2>2 DEF AloneSeesAll, Open, Others
  <2>. QED BY <1>0, <2>1, <2>2, <2>3, <2>4, <2>5 DEF CoinInv, LockGuards, Running
<1>6. ASSUME NEW r \in Replica, UpsertMany(r) PROVE CoinInv'
  <2>1. /\ run[r].at = "deactivated" /\ ~InWay(r, run[r].list)
        /\ UNCHANGED <<lock, active, stray, shown>>
        /\ run' = [run EXCEPT ![r].at = "upserted", ![r].locked = run[r].locked \cup run[r].list]
    BY <1>6 DEF UpsertMany
  <2>0. /\ run'[r] = [run[r] EXCEPT !.at = "upserted", !.locked = run[r].locked \cup run[r].list]
        /\ \A o \in Replica : o # r => run'[o] = run[o]
    BY <1>0, <2>1 DEF CoinShape
  <2>2. /\ run'[r] \in RunRecord
        /\ run'[r].at = "upserted" /\ run'[r].locked = run[r].locked \cup run[r].list
        /\ run'[r].seen = run[r].seen /\ run'[r].met = run[r].met
        /\ \A o \in Replica : o # r => run'[o] = run[o]
    <3>1. "upserted" \in Stages /\ run[r].locked \cup run[r].list \in SUBSET Coin
      BY <1>0 DEF Stages, RunRecord
    <3>2. run'[r] \in RunRecord
      <4>1. [run[r] EXCEPT !.at = "upserted", !.locked = run[r].locked \cup run[r].list] \in RunRecord
        BY <1>0, <3>1, RunLocks
      <4>. QED BY <2>0, <4>1
    <3>. QED BY <1>0, <2>0, <3>2 DEF RunRecord
  <2>3. CoinShape'
    BY <1>0, <2>1, <2>2 DEF CoinShape
  <2>4. RowsApart'
    <3>1. ASSUME NEW o \in Replica, o # r PROVE run'[r].locked \cap run'[o].locked = {}
      BY <1>0, <2>1, <2>2, <3>1 DEF RowsApart, InWay, Others
    <3>. QED BY <1>0, <2>2, <3>1 DEF RowsApart
  <2>5. AloneSeesAll'
    BY <1>0, <2>1, <2>2 DEF AloneSeesAll, Open, Others
  <2>. QED BY <1>0, <2>1, <2>2, <2>3, <2>4, <2>5 DEF CoinInv, LockGuards, Running
<1>7. ASSUME NEW r \in Replica, Commit(r) PROVE CoinInv'
  <2>1. /\ run[r].at = "upserted"
        /\ active' = (active \ run[r].seen) \cup run[r].list
        /\ shown' = [list |-> run[r].list, mixed |-> run[r].met]
        /\ run' = [run EXCEPT ![r] = [Idle EXCEPT !.at = "committed"]]
        /\ UNCHANGED <<lock, stray>>
    BY <1>7 DEF Commit
  <2>2. /\ run'[r] \in RunRecord
        /\ run'[r].at = "committed" /\ run'[r].locked = {}
        /\ \A o \in Replica : o # r => run'[o] = run[o]
    BY <1>0, <2>1 DEF CoinShape, RunRecord, Stages, Idle
  <2>3. CoinShape'
    BY <1>0, <2>1, <2>2 DEF CoinShape, RunRecord
  <2>4. AloneSeesAll'
    BY <1>0, <2>1, <2>2 DEF AloneSeesAll, Open, Others
  <2>5. ~shown'.mixed => active' = shown'.list
    BY <1>0, <2>1 DEF AloneSeesAll, Open
  <2>. QED BY <1>0, <2>1, <2>2, <2>3, <2>4, <2>5 DEF CoinInv, LockGuards, RowsApart, Running
<1>8. CASE LockRunsOut
  <2>1. /\ lock # NoReplica /\ lock' = NoReplica
        /\ stray' = IF Running(lock) THEN stray \cup {lock} ELSE stray
        /\ UNCHANGED <<run, active, shown>>
    BY <1>8 DEF LockRunsOut
  <2>2. CoinShape'
    BY <1>0, <2>1 DEF CoinShape
  <2>3. LockGuards'
    BY <1>0, <2>1 DEF LockGuards, Running
  <2>. QED BY <1>0, <2>1, <2>2, <2>3 DEF CoinInv, RowsApart, AloneSeesAll, Open
<1>9. CASE UNCHANGED coinVars
  BY <1>9 DEF coinVars, CoinInv, CoinShape, LockGuards, RowsApart, AloneSeesAll, Open, Running
<1>. QED BY <1>1, <1>2, <1>3, <1>4, <1>5, <1>6, <1>7, <1>8, <1>9 DEF CoinNext

LEMMA CoinInvHolds == CoinSpec => []CoinInv
BY CoinInvInit, CoinInvStep, PTL DEF CoinSpec

\* Rows written by one transaction are not written by another.
THEOREM CoinsTyped == CoinSpec => []CoinTypeOK
<1>1. CoinInv => CoinTypeOK
  BY DEF CoinInv, CoinShape, CoinTypeOK, RunRecord, RowsApart, InWay, Others
<1>. QED BY <1>1, CoinInvHolds, PTL

\* Readers find one list of the provider active, whatever crashes, as long as
\* no lock has run out under a transaction that another one met.
THEOREM ActiveListIsOneReport == CoinSpec => []ActiveIsOneReport
<1>1. CoinInv => ActiveIsOneReport
  BY DEF CoinInv, LockGuards, ActiveIsOneReport, Others, Running, Open
<1>. QED BY <1>1, CoinInvHolds, PTL

-------------------------------------------------------------------------------
(***************************************************************************)
(* Keyset paging: a walk shows every row that stays, once.                 *)
(***************************************************************************)

Spot(l) == [key : Keys(l), id : RowId]

LEMMA KeysAreNumbers ==
  ASSUME NEW l \in Listing
  PROVE  /\ Keys(l) \subseteq Int /\ Missing \notin Keys(l)
         /\ l.sort # "ranked" => Keys(l) \subseteq Nat
<1>1. SortKey \subseteq Nat /\ Unranked = -1 /\ Missing = -2
  BY PagingAssumption DEF Unranked, Missing
<1>. QED BY <1>1 DEF Keys

\* The order of a list is a strict linear order of its places, and the
\* condition on the cursor is that order.
LEMMA OrderIsStrict ==
  ASSUME NEW l \in Listing, NEW p \in Spot(l), NEW q \in Spot(l)
  PROVE  /\ ~Precedes(l, p, p)
         /\ Precedes(l, p, q) => ~Precedes(l, q, p)
         /\ p = q \/ Precedes(l, p, q) \/ Precedes(l, q, p)
         /\ After(l, p, q) <=> Precedes(l, p, q)
<1>1. /\ p.key \in Int /\ q.key \in Int /\ p.id \in Nat /\ q.id \in Nat
      /\ p.key \in Keys(l) /\ q.key \in Keys(l)
  BY KeysAreNumbers, PagingAssumption DEF Spot
<1>2. p.key = q.key /\ p.id = q.id => p = q
  BY DEF Spot
<1>3. l.sort \in {"newest", "oldest", "id", "ranked"}
  BY ListingAssumption
<1>4. CASE l.sort = "newest"
  BY <1>1, <1>2, <1>4 DEF Precedes, After, NewestFirst, OlderThan
<1>5. CASE l.sort = "oldest"
  BY <1>1, <1>2, <1>5 DEF Precedes, After, OldestFirst, YoungerThan
<1>6. CASE l.sort = "id"
  <2>1. p.key = q.key
    BY <1>1, <1>6 DEF Keys
  <2>. QED BY <1>1, <1>2, <1>6, <2>1 DEF Precedes, After, ById, GreaterId
<1>7. CASE l.sort = "ranked"
  <2>1. /\ Precedes(l, p, q) <=> NullsLast(p, q)
        /\ Precedes(l, q, p) <=> NullsLast(q, p)
        /\ Precedes(l, p, p) <=> NullsLast(p, p)
        /\ After(l, p, q) <=> LowerRanked(p, q)
    BY <1>7 DEF Precedes, After
  <2>2. LowerRanked(p, q) <=> IF p.key = -1 THEN q.key = -1 /\ q.id > p.id
                              ELSE q.key = -1 \/ q.key > p.key \/ (q.key = p.key /\ q.id > p.id)
    BY <1>1 DEF LowerRanked, YoungerThan, Unranked
  <2>3. p.key = q.key /\ ~(p.id < q.id) /\ ~(q.id < p.id) => p = q
    BY <1>1, <1>2
  <2>. QED BY <1>1, <2>1, <2>2, <2>3 DEF NullsLast, OldestFirst, Unranked
<1>. QED BY <1>3, <1>4, <1>5, <1>6, <1>7

LEMMA OrderIsTransitive ==
  ASSUME NEW l \in Listing, NEW p \in Spot(l), NEW q \in Spot(l), NEW r \in Spot(l),
         Precedes(l, p, q), Precedes(l, q, r)
  PROVE  Precedes(l, p, r)
<1>1. /\ p.key \in Int /\ q.key \in Int /\ r.key \in Int /\ p.id \in Nat /\ q.id \in Nat /\ r.id \in Nat
  BY KeysAreNumbers, PagingAssumption DEF Spot
<1>3. l.sort \in {"newest", "oldest", "id", "ranked"}
  BY ListingAssumption
<1>4. CASE l.sort = "newest"
  BY <1>1, <1>4 DEF Precedes, NewestFirst
<1>5. CASE l.sort = "oldest"
  BY <1>1, <1>5 DEF Precedes, OldestFirst
<1>6. CASE l.sort = "id"
  BY <1>1, <1>6 DEF Precedes, ById
<1>7. CASE l.sort = "ranked"
  BY <1>1, <1>7 DEF Precedes, NullsLast, OldestFirst, Unranked
<1>. QED BY <1>3, <1>4, <1>5, <1>6, <1>7

\* Sorted lists a finite set once, in order.
LEMMA SortedIs ==
  ASSUME NEW l \in Listing, NEW S, S \subseteq Spot(l), IsFiniteSet(S), NEW o, o = Sorted(l, S)
  PROVE  /\ Cardinality(S) \in Nat /\ o \in Seq(S) /\ Len(o) = Cardinality(S)
         /\ \A p \in S : \E n \in 1..Cardinality(S) : o[n] = p
         /\ \A n, m \in 1..Cardinality(S) : n < m => Precedes(l, o[n], o[m])
<1> DEFINE Before(p) == {q \in S : Precedes(l, q, p)}
           f == [p \in S |-> Cardinality(Before(p)) + 1]
           N == Cardinality(S)
<1>1. N \in Nat
  BY FS_CardinalityType
<1>2. ASSUME NEW p \in S
      PROVE  IsFiniteSet(Before(p)) /\ Cardinality(Before(p)) \in Nat /\ Cardinality(Before(p)) < N
  <2>1. Before(p) \in SUBSET S /\ p \notin Before(p)
    BY OrderIsStrict
  <2>2. IsFiniteSet(Before(p)) /\ Cardinality(Before(p)) <= N /\ Cardinality(Before(p)) # N
    BY <2>1, FS_Subset
  <2>3. Cardinality(Before(p)) \in Nat
    BY <2>2, FS_CardinalityType
  <2>. QED BY <1>1, <2>2, <2>3
<1>3. ASSUME NEW p \in S, NEW q \in S, Precedes(l, p, q)
      PROVE  Cardinality(Before(p)) < Cardinality(Before(q))
  <2>1. \A r \in Before(p) : r \in Before(q)
    BY <1>3, OrderIsTransitive
  <2>2. p \in Before(q) /\ p \notin Before(p)
    BY <1>3, OrderIsStrict
  <2>3. Before(p) \in SUBSET Before(q) /\ Before(p) # Before(q)
    BY <2>1, <2>2
  <2>4. Cardinality(Before(p)) <= Cardinality(Before(q)) /\ Cardinality(Before(p)) # Cardinality(Before(q))
    BY <1>2, <2>3, FS_Subset
  <2>5. Cardinality(Before(p)) \in Nat /\ Cardinality(Before(q)) \in Nat
    BY <1>2
  <2>. QED BY <2>4, <2>5
<1> HIDE DEF Before
<1>4. \A p \in S : f[p] \in 1..N
  BY <1>1, <1>2
<1>5. \A p, q \in S : Precedes(l, p, q) => f[p] < f[q]
  BY <1>2, <1>3
<1>6. \A p, q \in S : f[p] = f[q] => p = q
  <2> SUFFICES ASSUME NEW p \in S, NEW q \in S, f[p] = f[q], p # q PROVE FALSE
    OBVIOUS
  <2>1. Precedes(l, p, q) \/ Precedes(l, q, p)
    BY OrderIsStrict
  <2>. QED BY <1>4, <1>5, <2>1
<1>7. f \in Surjection(S, 1..N)
  <2>1. f \in Injection(S, 1..N)
    BY <1>4, <1>6 DEF Injection, IsInjective
  <2>2. IsFiniteSet(1..N) /\ Cardinality(1..N) = N
    BY <1>1, FS_Interval
  <2>. QED BY <2>1, <2>2, FS_Injection
<1>8. o = [n \in 1..N |-> CHOOSE p \in S : Cardinality(Before(p)) = n - 1]
  BY DEF Sorted, Before
<1>9. ASSUME NEW n \in 1..N PROVE o[n] \in S /\ f[o[n]] = n
  <2>1. PICK p \in S : f[p] = n
    BY <1>7 DEF Surjection
  <2>2. Cardinality(Before(p)) = n - 1
    BY <1>2, <2>1
  <2>3. o[n] = CHOOSE r \in S : Cardinality(Before(r)) = n - 1
    BY <1>8
  <2>4. o[n] \in S /\ Cardinality(Before(o[n])) = n - 1
    BY <2>2, <2>3
  <2>. QED BY <1>2, <2>4
<1> HIDE DEF f, N
<1>10. \A p \in S : f[p] \in 1..N /\ o[f[p]] = p
  BY <1>4, <1>6, <1>9
<1>11. ASSUME NEW n \in 1..N, NEW m \in 1..N, n < m PROVE Precedes(l, o[n], o[m])
  <2>1. o[n] = o[m] \/ Precedes(l, o[n], o[m]) \/ Precedes(l, o[m], o[n])
    BY <1>9, OrderIsStrict
  <2>2. ~(o[n] = o[m])
    BY <1>9, <1>11
  <2>3. ~Precedes(l, o[m], o[n])
    BY <1>5, <1>9, <1>11
  <2>. QED BY <2>1, <2>2, <2>3
<1>12. o \in Seq(S) /\ Len(o) = N
  BY <1>1, <1>8, <1>9
<1>. QED BY <1>1, <1>10, <1>11, <1>12 DEF N

\* A page of k rows shows a row once if it is among them, else not at all; the
\* rows among them are those that are not after the last one.
LEMMA PageShows ==
  ASSUME NEW l \in Listing, NEW S, S \subseteq Spot(l), IsFiniteSet(S),
         \A p, q \in S : p.id = q.id => p = q,
         NEW o, o = Sorted(l, S), NEW k \in 0..Cardinality(S), NEW i \in RowId
  PROVE  /\ Cardinality({n \in 1..k : o[n].id = i}) \in {0, 1}
         /\ (\A p \in S : p.id # i) => Cardinality({n \in 1..k : o[n].id = i}) = 0
         /\ \A p \in S : p.id = i =>
              (Cardinality({n \in 1..k : o[n].id = i}) = 1 <=> (k # 0 /\ ~After(l, o[k], p)))
<1> DEFINE N == Cardinality(S)
           at == {n \in 1..k : o[n].id = i}
<1>1. /\ N \in Nat
      /\ \A p \in S : \E n \in 1..N : o[n] = p
      /\ \A n \in 1..N : o[n] \in S
      /\ \A n, m \in 1..N : n < m => Precedes(l, o[n], o[m])
  <2>1. /\ N \in Nat /\ o \in Seq(S) /\ Len(o) = N
        /\ \A p \in S : \E n \in 1..N : o[n] = p
        /\ \A n, m \in 1..N : n < m => Precedes(l, o[n], o[m])
    BY SortedIs
  <2>2. \A n \in 1..N : o[n] \in S
    BY <2>1
  <2>. QED BY <2>1, <2>2
<1>2. k \in Nat /\ k <= N
  BY <1>1
<1>3. \A n, m \in 1..N : o[n] = o[m] => n = m
  <2> SUFFICES ASSUME NEW n \in 1..N, NEW m \in 1..N, o[n] = o[m], n < m PROVE FALSE
    BY <1>1
  <2>. QED BY <1>1, OrderIsStrict
<1>4. Cardinality({}) = 0
  BY FS_EmptySet
<1>5. ASSUME \A p \in S : p.id # i PROVE at = {}
  BY <1>1, <1>2, <1>5
<1>6. ASSUME NEW p \in S, p.id = i
      PROVE  /\ Cardinality(at) \in {0, 1}
             /\ Cardinality(at) = 1 <=> (k # 0 /\ ~After(l, o[k], p))
  <2>1. PICK n \in 1..N : o[n] = p
    BY <1>1
  <2>2. \A m \in 1..N : o[m].id = i <=> m = n
    BY <1>1, <1>3, <1>6, <2>1
  <2>3. CASE n <= k
    <3>1. at = {n}
      <4>1. \A m \in 1..k : m \in 1..N
        BY <1>1, <1>2
      <4>2. n \in 1..k
        BY <1>2, <2>3
      <4>. QED BY <2>2, <4>1, <4>2
    <3>2. Cardinality(at) = 1
      BY <3>1, FS_Singleton
    <3>3. k # 0 /\ k \in 1..N /\ (n = k \/ n < k)
      BY <1>2, <2>3
    <3>4. p = o[k] \/ Precedes(l, p, o[k])
      BY <1>1, <2>1, <3>3
    <3>5. o[k] \in Spot(l) /\ p \in Spot(l)
      BY <1>1, <3>3
    <3>6. ~After(l, o[k], p)
      BY <3>4, <3>5, OrderIsStrict
    <3>. QED BY <3>2, <3>3, <3>6
  <2>4. CASE ~(n <= k)
    <3>1. at = {}
      <4>1. \A m \in 1..k : m \in 1..N /\ m # n
        BY <1>1, <1>2, <2>4
      <4>. QED BY <2>2, <4>1
    <3>2. ASSUME k # 0 PROVE After(l, o[k], p)
      <4>1. k \in 1..N /\ k < n
        BY <1>2, <2>4, <3>2
      <4>2. Precedes(l, o[k], p) /\ o[k] \in Spot(l) /\ p \in Spot(l)
        BY <1>1, <2>1, <4>1
      <4>. QED BY <4>2, OrderIsStrict
    <3>3. Cardinality(at) = 0
      BY <1>4, <3>1
    <3>. QED BY <3>2, <3>3
  <2>. QED BY <2>3, <2>4
<1>7. (\A p \in S : p.id # i) \/ \E p \in S : p.id = i
  OBVIOUS
<1> HIDE DEF at
<1>8. Cardinality(at) \in {0, 1} /\ ((\A p \in S : p.id # i) => Cardinality(at) = 0)
  BY <1>4, <1>5, <1>6, <1>7
<1>. QED BY <1>6, <1>8 DEF at

\* What the walk has passed.
Seen(i) == cursor # WalkStart /\ (cursor = WalkEnd \/ ~After(listing, cursor, Position(i)))

\* The rows that stay have been shown once if the walk has passed them and not
\* at all before; a row that moves only towards the end is not passed unseen.
PagingInv ==
  /\ listing \in Listing
  /\ PagingTypeOK
  /\ cursor \in {WalkStart, WalkEnd} \cup Spot(listing)
  /\ \A i \in steady : (Seen(i) => times[i] = 1) /\ (~Seen(i) => times[i] = 0)
  /\ listing.moves = "later" => \A i \in present : Seen(i) => times[i] >= 1

LEMMA CursorsAreApart ==
  ASSUME NEW l \in Listing
  PROVE  WalkStart \notin Spot(l) /\ WalkEnd \notin Spot(l) /\ WalkStart # WalkEnd
<1>1. -1 \notin RowId /\ -2 \notin RowId
  BY PagingAssumption
<1>. QED BY <1>1 DEF WalkStart, WalkEnd, Spot

LEMMA PositionsArePlaces ==
  ASSUME PagingInv, NEW i \in Shown
  PROVE  i \in RowId /\ Position(i) \in Spot(listing) /\ Position(i).id = i
<1>1. i \in RowId /\ row[i] \in Keys(listing)
  BY DEF PagingInv, PagingTypeOK, Shown
<1>. QED BY <1>1 DEF Position, Spot

\* A page shows exactly what the walk passes with it.
LEMMA PagePasses ==
  ASSUME PagingInv, NextPage
  PROVE  /\ cursor' \in {WalkEnd} \cup Spot(listing)
         /\ times' \in [RowId -> Nat]
         /\ \A i \in Shown :
              /\ Seen(i) => Seen(i)'
              /\ ~Seen(i) /\ Seen(i)' => times'[i] = times[i] + 1
              /\ (Seen(i) \/ ~Seen(i)') => times'[i] = times[i]
<1> DEFINE S == Matching
           o == InOrder
           N == Cardinality(S)
           k == IF N > PageLimit THEN PageLimit ELSE N
           page == SubSeq(Fetched, 1, IF HasMore(Fetched) THEN PageLimit ELSE Len(Fetched))
<1>1. /\ listing \in Listing /\ listing' = listing /\ row' = row
      /\ cursor # WalkEnd /\ cursor \in {WalkStart} \cup Spot(listing)
      /\ times \in [RowId -> Nat] /\ PageLimit \in Nat \ {0}
  BY PagingAssumption DEF PagingInv, PagingTypeOK, NextPage
<1>2. /\ S \subseteq Spot(listing) /\ IsFiniteSet(S)
      /\ \A p, q \in S : p.id = q.id => p = q
      /\ \A p \in S : p.id \in Shown /\ p = Position(p.id)
  <2>1. \A p \in S : p.id \in Shown /\ p = Position(p.id) /\ p \in Spot(listing)
    BY PositionsArePlaces DEF Matching
  <2>2. IsFiniteSet(S)
    <3> DEFINE f == [p \in S |-> p.id]
    <3>1. f \in Injection(S, RowId)
      <4>1. \A p \in S : p.id \in RowId
        BY <2>1 DEF Shown
      <4>. QED BY <2>1, <4>1 DEF Injection, IsInjective
    <3>2. IsFiniteSet(RowId)
      BY PagingAssumption
    <3>. QED BY <3>1, <3>2, FS_Injection
  <2>. QED BY <2>1, <2>2
<1>3. \A i \in Shown : Position(i) \in S <=> ~Seen(i)
  <2> SUFFICES ASSUME NEW i \in Shown PROVE Position(i) \in S <=> ~Seen(i)
    OBVIOUS
  <2>1. ~Seen(i) <=> (cursor = WalkStart \/ After(listing, cursor, Position(i)))
    BY <1>1 DEF Seen
  <2>2. ASSUME Position(i) \in S PROVE cursor = WalkStart \/ After(listing, cursor, Position(i))
    <3>1. PICK j \in Shown : Position(i) = Position(j) /\ (cursor = WalkStart \/ After(listing, cursor, Position(j)))
      BY <2>2 DEF Matching
    <3>. QED BY <3>1
  <2>3. ASSUME cursor = WalkStart \/ After(listing, cursor, Position(i)) PROVE Position(i) \in S
    BY <2>3 DEF Matching
  <2>. QED BY <2>1, <2>2, <2>3
<1>4. o = Sorted(listing, S)
  BY DEF InOrder
<1>5. /\ N \in Nat /\ o \in Seq(S) /\ Len(o) = N
      /\ \A p \in S : \E n \in 1..N : o[n] = p
  BY <1>1, <1>2, <1>4, SortedIs
<1>6. k \in Nat /\ k \in 0..N /\ (N > PageLimit => k = PageLimit) /\ (~(N > PageLimit) => k = N)
  BY <1>1, <1>5
<1> HIDE DEF S, o, N, k
<1>7. /\ DOMAIN page = 1..k /\ Len(page) = k /\ \A n \in 1..k : page[n] = o[n]
      /\ HasMore(Fetched) <=> N > PageLimit
  <2>1. Fetched = SubSeq(o, 1, IF N <= PageLimit THEN N ELSE PageLimit + 1)
    BY <1>5 DEF Fetched, o
  <2>2. CASE N > PageLimit
    <3>1. Fetched = SubSeq(o, 1, PageLimit + 1) /\ PageLimit + 1 <= N
      BY <1>1, <1>5, <2>1, <2>2
    <3>2. /\ Len(Fetched) = PageLimit + 1 /\ Fetched \in Seq(S)
          /\ \A n \in 1..(PageLimit + 1) : Fetched[n] = o[n]
      BY <1>1, <1>5, <3>1
    <3>3. HasMore(Fetched)
      BY <1>1, <3>2 DEF HasMore
    <3>4. page = SubSeq(Fetched, 1, PageLimit)
      BY <3>3
    <3>5. Len(page) = PageLimit /\ DOMAIN page = 1..PageLimit /\ \A n \in 1..PageLimit : page[n] = Fetched[n]
      BY <1>1, <3>2, <3>4
    <3>. QED BY <1>1, <1>6, <2>2, <3>2, <3>3, <3>5
  <2>3. CASE ~(N > PageLimit)
    <3>1. Fetched = SubSeq(o, 1, N)
      BY <1>1, <1>5, <2>1, <2>3
    <3>2. Len(Fetched) = N /\ Fetched \in Seq(S) /\ \A n \in 1..N : Fetched[n] = o[n]
      BY <1>5, <3>1
    <3>3. ~HasMore(Fetched)
      BY <2>3, <3>2 DEF HasMore
    <3>4. page = SubSeq(Fetched, 1, N)
      BY <3>2, <3>3
    <3>5. Len(page) = N /\ DOMAIN page = 1..N /\ \A n \in 1..N : page[n] = Fetched[n]
      <4>1. N \in Nat /\ Len(Fetched) = N /\ Fetched \in Seq(S)
        BY <1>5, <3>2
      <4>2. SubSeq(Fetched, 1, N) = Fetched
        BY <4>1
      <4>3. page = Fetched
        BY <3>4, <4>2
      <4>4. DOMAIN Fetched = 1..N
        BY <4>1
      <4>. QED BY <3>2, <4>3, <4>4
    <3>. QED BY <1>6, <2>3, <3>2, <3>3, <3>5
  <2>. QED BY <2>2, <2>3
<1>8. /\ cursor' = IF HasMore(Fetched) THEN page[Len(page)] ELSE WalkEnd
      /\ times' = [i \in RowId |-> times[i] + Cardinality({n \in DOMAIN page : page[n].id = i})]
  BY DEF NextPage
<1>9. \A i \in RowId : {n \in DOMAIN page : page[n].id = i} = {n \in 1..k : o[n].id = i}
  BY <1>7
<1> HIDE DEF page
<1>10. \A i \in RowId : times'[i] = times[i] + Cardinality({n \in 1..k : o[n].id = i})
  BY <1>8, <1>9
<1>11. \A i \in RowId :
         /\ Cardinality({n \in 1..k : o[n].id = i}) \in {0, 1}
         /\ \A p \in S : p.id = i =>
               (Cardinality({n \in 1..k : o[n].id = i}) = 1 <=> (k # 0 /\ ~After(listing, o[k], p)))
         /\ (\A p \in S : p.id # i) => Cardinality({n \in 1..k : o[n].id = i}) = 0
  BY <1>1, <1>2, <1>4, <1>6, PageShows DEF N
<1>12. N > PageLimit => cursor' = o[k] /\ k # 0 /\ o[k] \in S /\ o[k] \in Spot(listing)
  BY <1>1, <1>2, <1>5, <1>6, <1>7, <1>8
<1>13. ~(N > PageLimit) => cursor' = WalkEnd
  BY <1>7, <1>8
<1>14. cursor' \in {WalkEnd} \cup Spot(listing)
  BY <1>12, <1>13
<1>15. times' \in [RowId -> Nat]
  <2>1. \A i \in RowId : times[i] + Cardinality({n \in 1..k : o[n].id = i}) \in Nat
    BY <1>1, <1>11
  <2>. QED BY <1>8, <1>9, <2>1
<1>16. ASSUME NEW i \in Shown
       PROVE  /\ Seen(i) => Seen(i)'
              /\ ~Seen(i) /\ Seen(i)' => times'[i] = times[i] + 1
              /\ (Seen(i) \/ ~Seen(i)') => times'[i] = times[i]
  <2> DEFINE c == Cardinality({n \in 1..k : o[n].id = i})
  <2>1. i \in RowId /\ Position(i) \in Spot(listing) /\ Position(i).id = i /\ times[i] \in Nat
    BY <1>1, PositionsArePlaces
  <2>2. c \in {0, 1} /\ times'[i] = times[i] + c
    BY <1>10, <1>11, <2>1
  <2>3. Seen(i) => c = 0
    <3> SUFFICES ASSUME Seen(i) PROVE \A p \in S : p.id # i
      BY <1>11, <2>1
    <3>. QED BY <1>2, <1>3
  <2>4. ~Seen(i) => (c = 1 <=> (k # 0 /\ ~After(listing, o[k], Position(i))))
    BY <1>3, <1>11, <2>1
  <2>5. Position(i)' = Position(i)
    BY <1>1 DEF Position
  <2>6. CASE N > PageLimit
    <3>1. cursor' # WalkStart /\ cursor' # WalkEnd
      BY <1>1, <1>12, <2>6, CursorsAreApart
    <3>2. Seen(i)' <=> ~After(listing, o[k], Position(i))
      BY <1>1, <1>12, <2>5, <2>6, <3>1 DEF Seen
    <3>3. Seen(i) => Seen(i)'
      <4> SUFFICES ASSUME Seen(i), After(listing, o[k], Position(i)) PROVE FALSE
        BY <3>2
      <4>1. cursor \in Spot(listing) /\ cursor # WalkStart /\ ~After(listing, cursor, Position(i))
        BY <1>1 DEF Seen
      <4>2. PICK j \in Shown : o[k] = Position(j) /\ After(listing, cursor, Position(j))
        BY <1>12, <2>6, <4>1 DEF S, Matching
      <4>3. o[k] \in Spot(listing) /\ Precedes(listing, cursor, o[k]) /\ Precedes(listing, o[k], Position(i))
        BY <1>1, <1>12, <2>1, <2>6, <4>1, <4>2, OrderIsStrict
      <4>4. Precedes(listing, cursor, Position(i))
        BY <1>1, <2>1, <4>1, <4>3, OrderIsTransitive
      <4>. QED BY <1>1, <2>1, <4>1, <4>4, OrderIsStrict
    <3>4. ~Seen(i) => (c = 1 <=> Seen(i)')
      BY <1>12, <2>4, <2>6, <3>2
    <3>. QED BY <2>1, <2>2, <2>3, <3>3, <3>4
  <2>7. CASE ~(N > PageLimit)
    <3>1. Seen(i)'
      BY <1>1, <1>13, <2>7, CursorsAreApart DEF Seen
    <3>2. ~Seen(i) => c = 1
      <4> SUFFICES ASSUME ~Seen(i) PROVE k # 0 /\ ~After(listing, o[k], Position(i))
        BY <2>4
      <4>1. PICK n \in 1..N : o[n] = Position(i)
        BY <1>3, <1>5
      <4>2. k = N /\ k # 0 /\ n \in 1..k
        BY <1>5, <1>6, <2>7
      <4>3. n \in {m \in 1..k : o[m].id = i}
        BY <2>1, <4>1, <4>2
      <4>4. c # 0
        <5> SUFFICES ASSUME c = 0 PROVE FALSE
          OBVIOUS
        <5>1. IsFiniteSet(1..k)
          BY <1>6, FS_Interval
        <5>2. IsFiniteSet({m \in 1..k : o[m].id = i})
          BY <5>1, FS_Subset
        <5>. QED BY <4>3, <5>2, FS_EmptySet
      <4>. QED BY <2>2, <2>4, <4>4
    <3>. QED BY <2>1, <2>2, <2>3, <3>1, <3>2
  <2>. QED BY <2>6, <2>7
<1>. QED BY <1>14, <1>15, <1>16

\* A row comes, goes or moves.
LEMMA ChangesKeep ==
  ASSUME PagingInv, NEW i \in RowId, Appears(i) \/ Vanishes(i) \/ Moves(i)
  PROVE  PagingInv'
<1>1. PICK key \in Keys(listing) \cup {Missing} :
        /\ Becomes(i, key)
        /\ key # Missing /\ listing.moves = "later" => i \notin Shown \/ key > row[i]
  <2>1. CASE Appears(i)
    BY <2>1 DEF Appears
  <2>2. CASE Vanishes(i)
    BY <2>2 DEF Vanishes
  <2>3. CASE Moves(i)
    BY <2>3 DEF Moves
  <2>. QED BY <2>1, <2>2, <2>3
<1>2. /\ listing \in Listing /\ row \in [RowId -> Keys(listing) \cup {Missing}]
      /\ times \in [RowId -> Nat] /\ steady \subseteq present /\ present \subseteq Shown
      /\ cursor \in {WalkStart} \cup Spot(listing) /\ cursor # WalkEnd
      /\ listing' = listing /\ cursor' = cursor /\ times' = times
      /\ row' = [row EXCEPT ![i] = key] /\ steady' = steady \ {i}
      /\ present' = IF key # Missing /\ listing.moves = "later" THEN present ELSE present \ {i}
  BY <1>1 DEF PagingInv, PagingTypeOK, Becomes
<1>3. \A j \in RowId : j # i => row'[j] = row[j]
  BY <1>2
<1>4. row'[i] = key
  BY <1>2
<1>5. \A j \in Shown : j # i => j \in Shown'
  BY <1>3 DEF Shown
<1>6. key # Missing => i \in Shown'
  BY <1>4 DEF Shown
<1>7. PagingTypeOK'
  <2>1. row' \in [RowId -> Keys(listing) \cup {Missing}]'
    BY <1>2
  <2>2. steady' \subseteq present'
    BY <1>2
  <2>3. present' \subseteq Shown'
    BY <1>2, <1>5, <1>6
  <2>. QED BY <1>2, <2>1, <2>2, <2>3 DEF PagingTypeOK
<1>8. \A j \in RowId : j # i => (Seen(j)' <=> Seen(j))
  BY <1>2, <1>3 DEF Seen, Position
<1>9. \A j \in steady' : (Seen(j)' => times'[j] = 1) /\ (~Seen(j)' => times'[j] = 0)
  <2>1. \A j \in steady' : j \in steady /\ j # i /\ j \in RowId
    BY <1>2 DEF Shown
  <2>. QED BY <1>2, <1>8, <2>1 DEF PagingInv
<1>10. ASSUME listing.moves = "later", NEW j \in present', Seen(j)' PROVE times'[j] >= 1
  <2>1. j \in present /\ j \in RowId /\ j \in Shown
    BY <1>2 DEF Shown
  <2>2. CASE j # i
    BY <1>2, <1>8, <1>10, <2>1, <2>2 DEF PagingInv
  <2>3. CASE j = i
    <3>1. key # Missing /\ i \in Shown /\ key > row[i] /\ key \in Keys(listing) /\ row[i] \in Keys(listing)
      BY <1>1, <1>2, <1>10, <2>1, <2>3 DEF Shown
    <3>2. listing.sort = "oldest"
      BY <1>2, <1>10, ListingAssumption
    <3>3. cursor \in Spot(listing) /\ cursor # WalkStart /\ ~After(listing, cursor, [key |-> key, id |-> i])
      BY <1>2, <1>4, <1>10, <2>3 DEF Seen, Position
    <3>4. cursor.key \in Int /\ key \in Int /\ row[i] \in Int /\ cursor.id \in Int /\ i \in Int
      BY <1>2, <3>1, <3>3, KeysAreNumbers, PagingAssumption DEF Spot
    <3>5. ~After(listing, cursor, [key |-> row[i], id |-> i])
      BY <3>1, <3>2, <3>3, <3>4 DEF After, YoungerThan
    <3>6. Seen(i)
      BY <3>3, <3>5 DEF Seen, Position
    <3>. QED BY <1>2, <1>10, <2>1, <2>3, <3>6 DEF PagingInv
  <2>. QED BY <2>2, <2>3
<1>. QED BY <1>2, <1>7, <1>9, <1>10 DEF PagingInv

LEMMA PagingInvHolds == PagingSpec => []PagingInv
<1>1. PagingInit => PagingInv
  <2> SUFFICES ASSUME PagingInit PROVE PagingInv
    OBVIOUS
  <2>1. \A i \in RowId : ~Seen(i)
    BY DEF PagingInit, Seen
  <2>2. PagingTypeOK
    BY DEF PagingInit, PagingTypeOK
  <2>3. \A i \in Shown : i \in RowId /\ times[i] = 0
    BY DEF PagingInit, Shown
  <2>. QED BY <2>1, <2>2, <2>3 DEF PagingInit, PagingInv
<1>2. PagingInv /\ [PagingNext]_pagingVars => PagingInv'
  <2> SUFFICES ASSUME PagingInv, [PagingNext]_pagingVars PROVE PagingInv'
    OBVIOUS
  <2>1. CASE NextPage
    <3>1. /\ listing' = listing /\ row' = row /\ steady' = steady /\ present' = present
          /\ listing \in Listing /\ PagingTypeOK
      BY <2>1 DEF NextPage, PagingInv
    <3>2. Shown' = Shown
      BY <3>1 DEF Shown
    <3>3. PagingTypeOK'
      BY <2>1, <3>1, <3>2, PagePasses DEF PagingTypeOK
    <3>4. \A i \in steady' : (Seen(i)' => times'[i] = 1) /\ (~Seen(i)' => times'[i] = 0)
      <4> SUFFICES ASSUME NEW i \in steady
                   PROVE  (Seen(i)' => times'[i] = 1) /\ (~Seen(i)' => times'[i] = 0)
        BY <3>1
      <4>1. i \in Shown
        BY <3>1 DEF PagingTypeOK
      <4>2. (Seen(i) => times[i] = 1) /\ (~Seen(i) => times[i] = 0)
        BY DEF PagingInv
      <4>. QED BY <2>1, <4>1, <4>2, PagePasses
    <3>5. ASSUME listing.moves = "later", NEW i \in present, Seen(i)' PROVE times'[i] >= 1
      <4>1. i \in Shown /\ i \in RowId /\ times[i] \in Nat
        BY <3>1 DEF PagingTypeOK, Shown
      <4>2. Seen(i) => times[i] >= 1
        BY <3>5 DEF PagingInv
      <4>. QED BY <2>1, <3>5, <4>1, <4>2, PagePasses
    <3>. QED BY <2>1, <3>1, <3>3, <3>4, <3>5, PagePasses DEF PagingInv
  <2>2. CASE \E i \in RowId : Appears(i) \/ Vanishes(i) \/ Moves(i)
    BY <2>2, ChangesKeep
  <2>3. CASE UNCHANGED pagingVars
    BY <2>3 DEF pagingVars, PagingInv, PagingTypeOK, Seen, Position, Shown
  <2>. QED BY <2>1, <2>2, <2>3 DEF PagingNext
<1>. QED BY <1>1, <1>2, PTL DEF PagingSpec

\* What is known of a walk is about rows of the list, whatever comes and goes.
THEOREM PagingTyped == PagingSpec => []PagingTypeOK
<1>1. PagingInv => PagingTypeOK
  BY DEF PagingInv
<1>. QED BY <1>1, PagingInvHolds, PTL

\* A client that follows the cursors of a list to its end has seen every row
\* that stayed where it was exactly once, and where rows move only towards the end
\* every row that stayed at least once: the condition on the cursor of each
\* repository is the order of its statement, ties and missing ranks included.
THEOREM WalksShowAll == PagingSpec => []WalksAreComplete
<1>1. PagingInv => WalksAreComplete
  <2> SUFFICES ASSUME PagingInv, cursor = WalkEnd
               PROVE  /\ \A i \in steady : times[i] = 1
                      /\ listing.moves = "later" => \A i \in present : times[i] >= 1
    BY DEF WalksAreComplete
  <2>1. \A i \in RowId : Seen(i)
    BY CursorsAreApart DEF PagingInv, Seen
  <2>2. steady \subseteq RowId /\ present \subseteq RowId
    BY DEF PagingInv, PagingTypeOK, Shown
  <2>. QED BY <2>1, <2>2 DEF PagingInv
<1>. QED BY <1>1, PagingInvHolds, PTL

-------------------------------------------------------------------------------
(***************************************************************************)
(* Wallets: the sets of addresses, the count of the named ones, and the updates.*)
(***************************************************************************)

Address == {set[n] : set \in AddressSet, n \in Network} \cup {Blank}
Rows    == [id : Int, address : Address]
Update  == [at : {"idle", "owned", "found", "writing", "counted", "naming"}, rename : BOOLEAN,
            next : [Network -> Address], found : [Network -> Rows], todo : SUBSET Network,
            wrote : [Network -> Rows], met : BOOLEAN]

WalletShape ==
  /\ wallet \in {"none", "stored", "deleted"}
  /\ address \in [Network -> Rows]
  /\ named \in 0..MaxNamed
  /\ request \in [Client -> Update]
  /\ kept \in [set : [Network -> Address], mixed : BOOLEAN]

\* Nobody writes before there is a wallet, nor before the rows were looked at.
NobodyEarly ==
  \A c \in Client : /\ wallet = "none" => request[c].at = "idle"
                    /\ request[c].at # "writing" => \A n \in Network : request[c].wrote[n] = Untouched

WritesApart ==
  \A c, d \in Client : \A n \in Network :
    c # d => request[c].wrote[n] = Untouched \/ request[d].wrote[n] = Untouched

RenamesApart ==
  \A c, d \in Client : c # d /\ wallet = "stored" =>
    ~(InUpdate(c) /\ request[c].rename /\ InUpdate(d) /\ request[d].rename)

\* What a network will hold when this update is stored.
Coming(c, n) == IF request[c].wrote[n] # Untouched THEN request[c].wrote[n] ELSE address[n]

\* An update that has met no other has found what is stored, and a network it
\* has no more to write to will hold what it was asked to store.
AloneReconciles ==
  \A c \in Client : InUpdate(c) /\ ~request[c].met /\ wallet = "stored" =>
    /\ request[c].found = address
    /\ request[c].at = "writing" =>
         \A n \in Network :
           IF n \in request[c].todo THEN Listed(c, n) ELSE Coming(c, n).address = request[c].next[n]

WalletInv ==
  /\ WalletShape /\ NobodyEarly /\ WritesApart /\ RenamesApart /\ AloneReconciles
  /\ WalletsSound

LEMMA SetsAreTyped == AddressSet \subseteq [Network -> Address]
<1> SUFFICES ASSUME NEW set \in AddressSet PROVE set \in [Network -> Address]
  OBVIOUS
<1>1. set = [n \in Network |-> set[n]]
  BY WalletAssumption
<1>2. \A n \in Network : set[n] \in Address
  BY DEF Address
<1> DEFINE f == [n \in Network |-> set[n]]
<1>3. f \in [Network -> Address]
  BY <1>2
<1> HIDE DEF f
<1>4. set = f
  BY <1>1 DEF f
<1>. QED BY <1>3, <1>4

\* There is an id that is not known, whatever is.
LEMMA FreshIdsAreNew ==
  ASSUME NEW n \in Network
  PROVE  /\ FreshId(n) \in Nat \ {0}
         /\ FreshId(n) # address[n].id
         /\ \A c \in Client : FreshId(n) # request[c].found[n].id
<1> DEFINE others == {request[c].found[n].id : c \in Client}
           known  == {address[n].id} \cup others
           k      == Cardinality(known)
<1>1. IsFiniteSet(known) /\ k \in Nat
  <2>1. IsFiniteSet(others)
    <3> DEFINE f == [c \in Client |-> request[c].found[n].id]
    <3>1. f \in Surjection(Client, others)
      BY DEF Surjection
    <3>. QED BY <3>1, WalletAssumption, FS_Surjection
  <2>2. IsFiniteSet({address[n].id})
    BY FS_Singleton
  <2>. QED BY <2>1, <2>2, FS_Union, FS_CardinalityType
<1>2. \E id \in 1..k + 1 : id \notin known
  <2> SUFFICES ASSUME 1..k + 1 \subseteq known PROVE FALSE
    OBVIOUS
  <2>1. Cardinality(1..k + 1) <= k
    BY <1>1, FS_Subset
  <2>2. Cardinality(1..k + 1) = k + 1
    BY <1>1, FS_Interval
  <2>. QED BY <1>1, <2>1, <2>2
<1>3. FreshId(n) = CHOOSE id \in 1..k + 1 : id \notin known
  BY DEF FreshId
<1>4. FreshId(n) \in 1..k + 1 /\ FreshId(n) \notin known
  <2> HIDE DEF known, k
  <2>. QED BY <1>2, <1>3
<1>. QED BY <1>1, <1>4

LEMMA RowsDiffer ==
  ASSUME NEW id, NEW where
  PROVE  /\ Row(id, where).id = id /\ Row(id, where).address = where
         /\ where # Blank => Row(id, where) # Untouched /\ Row(id, where) # Vacant
         /\ Vacant # Untouched
         /\ Vacant.address = Blank
BY DEF Row, Vacant, Untouched

LEMMA RowsAreTyped ==
  /\ \A id \in Int, where \in Address : Row(id, where) \in Rows
  /\ Vacant \in Rows /\ Untouched \in Rows /\ Blank \in Address
BY DEF Row, Rows, Vacant, Untouched, Address

LEMMA IdleIsTyped == NoUpdate \in Update /\ NoUpdate.at = "idle" /\ ~NoUpdate.rename
                     /\ \A n \in Network : NoUpdate.wrote[n] = Untouched
BY RowsAreTyped DEF NoUpdate, Update, NoRows

\* The updates of a request.
LEMMA Begun ==
  ASSUME NEW x \in Update, NEW set \in [Network -> Address], NEW b \in BOOLEAN
  PROVE  [x EXCEPT !.at = "owned", !.next = set, !.rename = b] \in Update
BY DEF Update

LEMMA Found ==
  ASSUME NEW x \in Update, NEW rows \in [Network -> Rows]
  PROVE  [x EXCEPT !.at = "found", !.found = rows] \in Update
BY DEF Update

LEMMA Started ==
  ASSUME NEW x \in Update, NEW rows \in [Network -> Rows], NEW todo \in SUBSET Network
  PROVE  [x EXCEPT !.at = "writing", !.wrote = rows, !.todo = todo] \in Update
BY DEF Update

LEMMA Written ==
  ASSUME NEW x \in Update, NEW n \in Network, NEW record \in Rows
  PROVE  [x EXCEPT !.wrote[n] = record, !.todo = x.todo \ {n}] \in Update
BY DEF Update

LEMMA Staged ==
  ASSUME NEW x \in Update
  PROVE  /\ [x EXCEPT !.at = "counted"] \in Update
         /\ [x EXCEPT !.at = "naming"] \in Update
         /\ [x EXCEPT !.met = TRUE] \in Update
BY DEF Update

LEMMA UpdateFields ==
  ASSUME NEW x \in Update
  PROVE  /\ x.at \in {"idle", "owned", "found", "writing", "counted", "naming"}
         /\ x.rename \in BOOLEAN /\ x.met \in BOOLEAN
         /\ x.next \in [Network -> Address] /\ x.found \in [Network -> Rows]
         /\ x.wrote \in [Network -> Rows] /\ x.todo \in SUBSET Network
BY DEF Update

LEMMA WalletStarts == WalletInit => WalletInv
<1> SUFFICES ASSUME WalletInit PROVE WalletInv
  OBVIOUS
<1> USE DEF WalletInit
<1>1. WalletShape
  <2>1. NoRows \in [Network -> Rows] /\ AsSet(NoRows) \in [Network -> Address]
    BY RowsAreTyped DEF NoRows, AsSet, Rows
  <2>2. named \in 0..MaxNamed
    BY WalletAssumption
  <2>. QED BY <2>1, <2>2, IdleIsTyped DEF WalletShape
<1>2. \A c \in Client : request[c] = NoUpdate
  OBVIOUS
<1>3. NobodyEarly
  BY <1>2, IdleIsTyped DEF NobodyEarly
<1>4. WritesApart /\ RenamesApart /\ AloneReconciles
  BY <1>2, IdleIsTyped DEF WritesApart, RenamesApart, AloneReconciles, InUpdate
<1>5. WalletsSound
  BY DEF WalletsSound
<1>. QED BY <1>1, <1>3, <1>4, <1>5 DEF WalletInv

\* Who is not at an update keeps every promise about updates.
LEMMA OutOfUpdates ==
  ASSUME WalletInv, NEW c \in Client,
         request' \in [Client -> Update],
         \A d \in Client : d # c => request'[d] = request[d],
         request'[c].at \notin {"found", "writing"},
         wallet = "none" => request'[c].at = "idle",
         \A n \in Network : request'[c].wrote[n] = Untouched,
         UNCHANGED <<wallet, address>>
  PROVE  NobodyEarly' /\ WritesApart' /\ RenamesApart' /\ AloneReconciles'
<1> USE DEF WalletInv
<1>1. NobodyEarly'
  BY DEF NobodyEarly
<1>2. WritesApart'
  BY DEF WritesApart
<1>3. RenamesApart'
  BY DEF RenamesApart, InUpdate
<1>4. AloneReconciles'
  BY DEF AloneReconciles, InUpdate, Listed, Coming
<1>. QED BY <1>1, <1>2, <1>3, <1>4

LEMMA WalletStays == WalletInv /\ UNCHANGED walletVars => WalletInv'
BY DEF WalletInv, walletVars, WalletShape, NobodyEarly, WritesApart, RenamesApart,
       AloneReconciles, WalletsSound, InUpdate, Listed, Coming, AsSet

LEMMA CreateWalletKeeps ==
  ASSUME WalletInv, NEW set \in AddressSet, CreateWallet(set)
  PROVE  WalletInv'
<1> USE DEF WalletInv, CreateWallet
<1>1. set \in [Network -> Address]
  BY SetsAreTyped
<1>2. \A c \in Client : request'[c].at = "idle"
  BY DEF NobodyEarly
<1>3. WalletShape'
  <2> DEFINE rows == [n \in Network |-> IF set[n] = Blank THEN Vacant ELSE Row(1, set[n])]
  <2>1. rows \in [Network -> Rows]
    BY <1>1, RowsAreTyped
  <2>. QED BY <1>1, <2>1 DEF WalletShape
<1>4. NobodyEarly' /\ WritesApart' /\ RenamesApart' /\ AloneReconciles'
  BY <1>2 DEF NobodyEarly, WritesApart, RenamesApart, AloneReconciles, InUpdate
<1>5. WalletsSound'
  <2>1. \A n \in Network : address'[n].address = set[n]
    BY RowsDiffer
  <2>2. AsSet(address)' = set
    BY <1>1, <2>1 DEF AsSet
  <2>3. kept'.set = set
    OBVIOUS
  <2>. QED BY <2>2, <2>3 DEF WalletsSound
<1>. QED BY <1>3, <1>4, <1>5

LEMMA BeginUpdateKeeps ==
  ASSUME WalletInv, NEW c \in Client, NEW set \in AddressSet, NEW rename \in BOOLEAN,
         BeginUpdate(c, set, rename)
  PROVE  WalletInv'
<1> USE DEF WalletInv, BeginUpdate
<1>0. set \in [Network -> Address] /\ request[c] \in Update
  BY SetsAreTyped DEF WalletShape
<1> DEFINE x == [request[c] EXCEPT !.at = "owned", !.next = set, !.rename = rename]
<1>1. x \in Update
  BY <1>0, Begun
<1>2. request' = [request EXCEPT ![c] = x]
  BY DEF WalletShape
<1>3. x.at = "owned" /\ x.wrote = request[c].wrote
  BY <1>0 DEF Update
<1> HIDE DEF x
<1>4. WalletShape'
  BY <1>1, <1>2 DEF WalletShape
<1>5. \A n \in Network : request'[c].wrote[n] = Untouched
  BY <1>2, <1>3 DEF WalletShape, NobodyEarly
<1>6. NobodyEarly' /\ WritesApart' /\ RenamesApart' /\ AloneReconciles'
  BY <1>2, <1>3, <1>4, <1>5, OutOfUpdates DEF WalletShape
<1>7. WalletsSound'
  BY DEF WalletsSound, AsSet
<1>. QED BY <1>4, <1>6, <1>7

LEMMA FindExistingKeeps ==
  ASSUME WalletInv, NEW c \in Client, FindExisting(c)
  PROVE  WalletInv'
<1> USE DEF WalletInv
<1>b. /\ request[c].at = "owned" /\ UNCHANGED <<wallet, address, named, kept>>
      /\ request[c].rename /\ wallet = "stored" => \A d \in Client : ~(InUpdate(d) /\ request[d].rename)
  BY DEF FindExisting
<1>0. request[c] \in Update /\ address \in [Network -> Rows]
  BY DEF WalletShape
<1> DEFINE x == [request[c] EXCEPT !.at = "found", !.found = address]
<1>1. x \in Update
  BY <1>0, Found
<1>2. request' = [request EXCEPT ![c] = x]
  BY DEF WalletShape, FindExisting
<1>3. /\ x.at = "found" /\ x.wrote = request[c].wrote /\ x.found = address
      /\ x.rename = request[c].rename
  BY <1>0 DEF Update
<1> HIDE DEF x
<1>4. WalletShape'
  BY <1>b, <1>1, <1>2 DEF WalletShape
<1>a. request'[c] = x /\ \A d \in Client : d # c => request'[d] = request[d]
  BY <1>2 DEF WalletShape
<1>5. NobodyEarly'
  BY <1>a, <1>b, <1>3 DEF NobodyEarly
<1>6. WritesApart'
  BY <1>a, <1>b, <1>3 DEF WritesApart
<1>7. RenamesApart'
  BY <1>a, <1>b, <1>3 DEF RenamesApart, InUpdate
<1>8. AloneReconciles'
  BY <1>a, <1>b, <1>3 DEF AloneReconciles, InUpdate, Listed, Coming
<1>9. WalletsSound'
  BY <1>b DEF WalletsSound, AsSet
<1>. QED BY <1>4, <1>5, <1>6, <1>7, <1>8, <1>9

LEMMA DeleteRemovedKeeps ==
  ASSUME WalletInv, NEW c \in Client, DeleteRemoved(c)
  PROVE  WalletInv'
<1> USE DEF WalletInv
<1>0. request[c] \in Update /\ address \in [Network -> Rows]
  BY DEF WalletShape
<1> DEFINE gone == {n \in Removed(c) : Stands(c, n)}
           rows == [n \in Network |-> IF n \in gone THEN Vacant ELSE Untouched]
           todo == {n \in Network : Listed(c, n) /\ request[c].next[n] # request[c].found[n].address}
           x    == [request[c] EXCEPT !.at = "writing", !.wrote = rows, !.todo = todo]
<1>1. x \in Update
  <2>1. rows \in [Network -> Rows] /\ todo \in SUBSET Network
    BY RowsAreTyped
  <2> HIDE DEF rows, todo
  <2>. QED BY <1>0, <2>1, Started
<1>2. request' = [request EXCEPT ![c] = x]
  BY DEF WalletShape, DeleteRemoved
<1>3. /\ x.at = "writing" /\ x.wrote = rows /\ x.todo = todo
      /\ x.rename = request[c].rename /\ x.found = request[c].found
      /\ x.next = request[c].next /\ x.met = request[c].met
  BY <1>0 DEF Update
<1>b. request[c].at = "found" /\ ~Waits(c, Removed(c)) /\ UNCHANGED <<wallet, address, named, kept>>
  BY DEF DeleteRemoved
<1>c. \A n \in Network : rows[n] # Untouched => n \in Removed(c)
  OBVIOUS
<1>d. \A n \in Network : rows[n] = IF n \in gone THEN Vacant ELSE Untouched
  OBVIOUS
<1>e. \A n \in Network : n \in todo <=> Listed(c, n) /\ request[c].next[n] # request[c].found[n].address
  OBVIOUS
<1>f. \A n \in Network : n \in gone <=> Existed(c, n) /\ ~Listed(c, n) /\ Stands(c, n)
  BY DEF Removed
<1> HIDE DEF x, rows, todo, gone
<1>4. WalletShape'
  BY <1>1, <1>2, <1>b DEF WalletShape
<1>a. request'[c] = x /\ \A d \in Client : d # c => request'[d] = request[d]
  BY <1>2 DEF WalletShape
<1>5. NobodyEarly'
  BY <1>a, <1>3, <1>b DEF NobodyEarly
<1>6. WritesApart'
  <2>1. \A d \in Client : d # c => \A n \in Removed(c) : request[d].wrote[n] = Untouched
    BY <1>b DEF Waits, Writes, InUpdate, NobodyEarly, Removed
  <2>. QED BY <1>a, <1>3, <1>c, <2>1 DEF WritesApart
<1>7. RenamesApart'
  BY <1>a, <1>3, <1>b DEF RenamesApart, InUpdate
<1>8. AloneReconciles'
  <2> SUFFICES ASSUME NEW d \in Client, (InUpdate(d) /\ ~request[d].met /\ wallet = "stored")'
               PROVE  /\ (request[d].found = address)'
                      /\ (request[d].at = "writing")' =>
                           \A n \in Network :
                             IF n \in request'[d].todo THEN Listed(d, n)'
                             ELSE Coming(d, n)'.address = request'[d].next[n]
    BY DEF AloneReconciles
  <2>1. CASE d # c
    <3>1. request'[d] = request[d] /\ address' = address /\ wallet' = wallet
      BY <1>a, <1>b, <2>1
    <3>. QED BY <3>1 DEF AloneReconciles, InUpdate, Listed, Coming
  <2>2. CASE d = c
    <3>1. request[c].found = address /\ address' = address
      BY <1>a, <1>3, <1>b, <2>2 DEF AloneReconciles, InUpdate
    <3>2. ASSUME NEW n \in Network
          PROVE  IF n \in todo THEN request[c].next[n] # Blank
                 ELSE (IF rows[n] # Untouched THEN rows[n] ELSE address[n]).address = request[c].next[n]
      <4>1. CASE n \in todo
        BY <4>1, <1>e DEF Listed
      <4>2. CASE n \notin todo /\ ~Listed(c, n)
        <5>1. request[c].next[n] = Blank
          BY <4>2 DEF Listed
        <5>2. CASE n \in gone
          BY <5>1, <5>2, <1>d, <4>2, RowsDiffer
        <5>3. CASE n \notin gone
          <6>1. Stands(c, n)
            BY <3>1 DEF Stands
          <6>2. address[n] = Vacant
            BY <5>3, <1>f, <4>2, <6>1, <3>1 DEF Existed
          <6>. QED BY <6>2, <5>1, <5>3, <1>d, <4>2, RowsDiffer
        <5>. QED BY <5>2, <5>3
      <4>3. CASE n \notin todo /\ Listed(c, n)
        BY <4>3, <1>d, <1>e, <1>f, <3>1
      <4>. QED BY <4>1, <4>2, <4>3
    <3>. QED BY <3>1, <3>2, <1>a, <1>3, <2>2 DEF Listed, Coming
  <2>. QED BY <2>1, <2>2
<1>9. WalletsSound'
  BY <1>b DEF WalletsSound, AsSet
<1>. QED BY <1>4, <1>5, <1>6, <1>7, <1>8, <1>9

\* A statement of its own turn, whatever record it writes: if an update that has
\* met no other writes the address it was sent, the promises stand.
LEMMA WroteKeeps ==
  ASSUME WalletInv, NEW c \in Client, NEW n \in Network, NEW record \in Rows,
         Turn(c, n), Wrote(c, n, record),
         ~request[c].met /\ wallet = "stored" => record # Untouched /\ record.address = request[c].next[n]
  PROVE  WalletInv'
<1> USE DEF WalletInv
<1>0. request[c] \in Update /\ address \in [Network -> Rows]
  BY DEF WalletShape
<1> DEFINE x == [request[c] EXCEPT !.wrote[n] = record, !.todo = request[c].todo \ {n}]
<1>1. x \in Update
  BY <1>0, Written
<1>2. request' = [request EXCEPT ![c] = x]
  BY DEF WalletShape, Wrote
<1>3. /\ x.at = request[c].at /\ x.wrote = [request[c].wrote EXCEPT ![n] = record]
      /\ x.todo = request[c].todo \ {n}
      /\ x.rename = request[c].rename /\ x.found = request[c].found
      /\ x.next = request[c].next /\ x.met = request[c].met
  BY <1>0 DEF Update
<1>b. /\ request[c].at = "writing" /\ n \in request[c].todo /\ ~Waits(c, {n})
      /\ UNCHANGED <<wallet, address, named, kept>>
  BY DEF Turn, Wrote
<1>c. \A m \in Network : x.wrote[m] = IF m = n THEN record ELSE request[c].wrote[m]
  BY <1>0, <1>3 DEF Update
<1> HIDE DEF x
<1>a. request'[c] = x /\ \A d \in Client : d # c => request'[d] = request[d]
  BY <1>2 DEF WalletShape
<1>4. WalletShape'
  BY <1>1, <1>2, <1>b DEF WalletShape
<1>5. NobodyEarly'
  BY <1>a, <1>3, <1>b DEF NobodyEarly
<1>6. WritesApart'
  <2>1. \A d \in Client : d # c => request[d].wrote[n] = Untouched
    BY <1>b DEF Waits, Writes, InUpdate, NobodyEarly
  <2>. QED BY <1>a, <1>c, <2>1 DEF WritesApart
<1>7. RenamesApart'
  BY <1>a, <1>3, <1>b DEF RenamesApart, InUpdate
<1>8. AloneReconciles'
  <2> SUFFICES ASSUME NEW d \in Client, (InUpdate(d) /\ ~request[d].met /\ wallet = "stored")'
               PROVE  /\ (request[d].found = address)'
                      /\ (request[d].at = "writing")' =>
                           \A m \in Network :
                             IF m \in request'[d].todo THEN Listed(d, m)'
                             ELSE Coming(d, m)'.address = request'[d].next[m]
    BY DEF AloneReconciles
  <2>1. CASE d # c
    <3>1. request'[d] = request[d] /\ address' = address /\ wallet' = wallet
      BY <1>a, <1>b, <2>1
    <3>. QED BY <3>1 DEF AloneReconciles, InUpdate, Listed, Coming
  <2>2. CASE d = c
    <3>1. InUpdate(c) /\ ~request[c].met /\ wallet = "stored" /\ address' = address
      BY <1>a, <1>3, <1>b, <2>2 DEF InUpdate
    <3>2. request[c].found = address
      BY <3>1 DEF AloneReconciles
    <3>3. \A m \in Network : IF m \in request[c].todo THEN request[c].next[m] # Blank
             ELSE (IF request[c].wrote[m] # Untouched THEN request[c].wrote[m] ELSE address[m]).address
                    = request[c].next[m]
      BY <3>1, <1>b DEF AloneReconciles, Listed, Coming
    <3>4. record # Untouched /\ record.address = request[c].next[n]
      BY <3>1
    <3>5. \A m \in Network : IF m \in x.todo THEN x.next[m] # Blank
             ELSE (IF x.wrote[m] # Untouched THEN x.wrote[m] ELSE address[m]).address = x.next[m]
      BY <3>3, <3>4, <1>3, <1>c
    <3>. QED BY <3>1, <3>2, <3>5, <1>a, <1>3, <2>2 DEF Listed, Coming
  <2>. QED BY <2>1, <2>2
<1>9. WalletsSound'
  BY <1>b DEF WalletsSound, AsSet
<1>. QED BY <1>4, <1>5, <1>6, <1>7, <1>8, <1>9

LEMMA InsertAddressKeeps ==
  ASSUME WalletInv, NEW c \in Client, NEW n \in Network, InsertAddress(c, n)
  PROVE  WalletInv'
<1>1. request[c] \in Update
  BY DEF WalletInv, WalletShape
<1> DEFINE record == Row(FreshId(n), request[c].next[n])
<1>2. record \in Rows
  BY <1>1, FreshIdsAreNew, RowsAreTyped, UpdateFields
<1>3. Turn(c, n) /\ Wrote(c, n, record)
  BY DEF InsertAddress
<1>4. ~request[c].met /\ wallet = "stored" => request[c].next[n] # Blank
  BY <1>1, <1>3, UpdateFields DEF Turn, WalletInv, AloneReconciles, InUpdate, Listed
<1>5. ~request[c].met /\ wallet = "stored" => record # Untouched /\ record.address = request[c].next[n]
  BY <1>4, RowsDiffer
<1> HIDE DEF record
<1>. QED BY <1>2, <1>3, <1>5, WroteKeeps

LEMMA UpdateAddressKeeps ==
  ASSUME WalletInv, NEW c \in Client, NEW n \in Network, UpdateAddress(c, n)
  PROVE  WalletInv'
<1>1. request[c] \in Update /\ address \in [Network -> Rows]
  BY DEF WalletInv, WalletShape
<1> DEFINE record == IF Stands(c, n) THEN Row(address[n].id, request[c].next[n]) ELSE Untouched
<1>2. record \in Rows
  <2>1. address[n].id \in Int /\ request[c].next[n] \in Address
    BY <1>1, UpdateFields DEF Rows
  <2>. QED BY <2>1, RowsAreTyped
<1>3. Turn(c, n) /\ Wrote(c, n, record)
  BY DEF UpdateAddress
<1>4. ~request[c].met /\ wallet = "stored" => request[c].next[n] # Blank /\ Stands(c, n)
  BY <1>1, <1>3, UpdateFields DEF Turn, WalletInv, AloneReconciles, InUpdate, Listed, Stands
<1>5. ~request[c].met /\ wallet = "stored" => record # Untouched /\ record.address = request[c].next[n]
  BY <1>4, RowsDiffer
<1> HIDE DEF record
<1>. QED BY <1>2, <1>3, <1>5, WroteKeeps

\* A request that is done with.
LEMMA EndedIs ==
  ASSUME WalletShape, NEW c \in Client
  PROVE  /\ Ended(c) \in [Client -> Update]
         /\ Ended(c)[c] = NoUpdate
         /\ \A d \in Client : d # c => Ended(c)[d] = request[d]
BY IdleIsTyped DEF WalletShape, Ended

LEMMA StoreWalletKeeps ==
  ASSUME WalletInv, NEW c \in Client, StoreWallet(c)
  PROVE  WalletInv'
<1> USE DEF WalletInv
<1>0. request \in [Client -> Update] /\ address \in [Network -> Rows]
  BY DEF WalletShape
<1>b. /\ request[c].at = "writing" /\ request[c].todo = {}
      /\ address' = [n \in Network |-> IF Writes(c, n) THEN request[c].wrote[n] ELSE address[n]]
      /\ kept' = [set |-> request[c].next, mixed |-> request[c].met]
      /\ UNCHANGED <<wallet, named>>
  BY DEF StoreWallet
<1>1. request' = [d \in Client |-> IF d # c /\ InUpdate(d) THEN [request[d] EXCEPT !.met = TRUE]
                                                          ELSE Ended(c)[d]]
  BY DEF StoreWallet
<1>2. /\ request'[c] = NoUpdate
      /\ \A d \in Client : d # c =>
           request'[d] = IF InUpdate(d) THEN [request[d] EXCEPT !.met = TRUE] ELSE request[d]
  BY <1>1, EndedIs
<1>3. \A d \in Client : request'[d] \in Update
  BY <1>0, <1>2, Staged, IdleIsTyped
<1>4. \A d \in Client : d # c =>
        /\ request'[d].at = request[d].at /\ request'[d].wrote = request[d].wrote
        /\ request'[d].rename = request[d].rename
        /\ InUpdate(d) => request'[d].met
  BY <1>0, <1>2 DEF Update
<1>5. \A n \in Network : address'[n] = Coming(c, n)
  BY <1>b DEF Writes, InUpdate, Coming
<1>6. WalletShape'
  <2>1. \A n \in Network : Coming(c, n) \in Rows
    BY <1>0, UpdateFields DEF Coming
  <2>2. address' \in [Network -> Rows]
    BY <1>b, <1>5, <2>1
  <2>3. kept' \in [set : [Network -> Address], mixed : BOOLEAN]
    BY <1>0, <1>b, UpdateFields
  <2>4. request' \in [Client -> Update]
    BY <1>1, <1>3
  <2>. QED BY <1>b, <2>2, <2>3, <2>4 DEF WalletShape
<1>7. NobodyEarly'
  BY <1>2, <1>4, <1>b, IdleIsTyped DEF NobodyEarly
<1>8. WritesApart'
  BY <1>2, <1>4, IdleIsTyped DEF WritesApart
<1>9. RenamesApart'
  BY <1>2, <1>4, <1>b, IdleIsTyped DEF RenamesApart, InUpdate
<1>10. AloneReconciles'
  <2>1. \A d \in Client : InUpdate(d)' => request'[d].met
    BY <1>2, <1>4, IdleIsTyped DEF InUpdate
  <2>. QED BY <2>1 DEF AloneReconciles
<1>11. WalletsSound'
  <2>1. ASSUME wallet = "stored", ~request[c].met
        PROVE  AsSet(address)' = request[c].next
    <3>1. \A n \in Network : Coming(c, n).address = request[c].next[n]
      BY <1>b, <2>1 DEF AloneReconciles, InUpdate
    <3>2. \A n \in Network : address'[n].address = request[c].next[n]
      BY <1>5, <3>1
    <3>3. request[c].next \in [Network -> Address]
      BY <1>0, UpdateFields
    <3>. QED BY <3>2, <3>3 DEF AsSet
  <2>. QED BY <2>1, <1>b DEF WalletsSound
<1>. QED BY <1>6, <1>7, <1>8, <1>9, <1>10, <1>11

\* A step that only ends a request, or takes it to a stage outside of updates.
LEMMA StageKeeps ==
  ASSUME WalletInv, NEW c \in Client, NEW x \in Update,
         x.at \notin {"found", "writing"}, wallet = "none" => x.at = "idle",
         \A n \in Network : x.wrote[n] = Untouched,
         request' = [request EXCEPT ![c] = x],
         UNCHANGED <<wallet, address, kept>>, named' \in 0..MaxNamed,
         named' > 0 => wallet = "stored"
  PROVE  WalletInv'
<1> USE DEF WalletInv
<1>1. WalletShape'
  BY DEF WalletShape
<1>2. request'[c] = x /\ \A d \in Client : d # c => request'[d] = request[d]
  BY DEF WalletShape
<1>3. NobodyEarly' /\ WritesApart' /\ RenamesApart' /\ AloneReconciles'
  BY <1>1, <1>2, OutOfUpdates DEF WalletShape
<1>4. WalletsSound'
  BY DEF WalletsSound, AsSet
<1>. QED BY <1>1, <1>3, <1>4

LEMMA RollBackKeeps ==
  ASSUME WalletInv, NEW c \in Client, RollBack(c)
  PROVE  WalletInv'
<1>1. request' = [request EXCEPT ![c] = NoUpdate] /\ UNCHANGED <<wallet, address, named, kept>>
  BY DEF RollBack, Ended
<1>2. named \in 0..MaxNamed /\ (named > 0 => wallet = "stored")
  BY DEF WalletInv, WalletShape, WalletsSound
<1>. QED BY <1>1, <1>2, IdleIsTyped, StageKeeps

LEMMA StagedKeeps ==
  ASSUME WalletInv, NEW c \in Client, CountReferences(c) \/ FindWallet(c)
  PROVE  WalletInv'
<1>0. request[c] \in Update
  BY DEF WalletInv, WalletShape
<1>1. PICK stage \in {"counted", "naming"} : request' = [request EXCEPT ![c].at = stage]
  BY DEF CountReferences, FindWallet
<1>2. request[c].at = "idle" /\ wallet = "stored" /\ UNCHANGED <<wallet, address, named, kept>>
  BY DEF CountReferences, FindWallet
<1> DEFINE x == [request[c] EXCEPT !.at = stage]
<1>3. x \in Update
  BY <1>0, <1>1, Staged
<1>4. x.at = stage /\ x.wrote = request[c].wrote
  BY <1>0 DEF Update
<1>5. request' = [request EXCEPT ![c] = x]
  BY <1>1 DEF WalletInv, WalletShape
<1>6. \A n \in Network : request[c].wrote[n] = Untouched
  BY <1>2 DEF WalletInv, NobodyEarly
<1>7. named \in 0..MaxNamed /\ (named > 0 => wallet = "stored")
  BY DEF WalletInv, WalletShape, WalletsSound
<1>8. x.at \notin {"found", "writing"}
  BY <1>4
<1> HIDE DEF x
<1>. QED BY <1>2, <1>3, <1>4, <1>5, <1>6, <1>7, <1>8, StageKeeps

LEMMA DeleteWalletKeeps ==
  ASSUME WalletInv, NEW c \in Client, DeleteWallet(c)
  PROVE  WalletInv'
<1>1. request' = [request EXCEPT ![c] = NoUpdate] /\ UNCHANGED <<named, kept>>
  BY DEF DeleteWallet, Ended
<1>2. named \in 0..MaxNamed /\ (named > 0 => wallet = "stored")
  BY DEF WalletInv, WalletShape, WalletsSound
<1>3. CASE wallet = "stored" /\ Deletable
  <2>1. wallet' = "deleted" /\ address' = NoRows /\ named = 0
    BY <1>3 DEF DeleteWallet, Deletable
  <2>2. /\ request' \in [Client -> Update] /\ request'[c] = NoUpdate
        /\ \A d \in Client : d # c => request'[d] = request[d]
    BY <1>1, IdleIsTyped DEF WalletInv, WalletShape
  <2>3. WalletShape'
    <3>1. NoRows \in [Network -> Rows]
      BY RowsAreTyped DEF NoRows
    <3>. QED BY <1>1, <2>1, <2>2, <3>1 DEF WalletInv, WalletShape
  <2>4. NobodyEarly' /\ WritesApart'
    BY <2>1, <2>2, IdleIsTyped DEF WalletInv, NobodyEarly, WritesApart
  <2>5. RenamesApart' /\ AloneReconciles' /\ WalletsSound'
    BY <1>1, <2>1 DEF RenamesApart, AloneReconciles, WalletsSound
  <2>. QED BY <2>3, <2>4, <2>5 DEF WalletInv
<1>4. CASE ~(wallet = "stored" /\ Deletable)
  <2>1. UNCHANGED <<wallet, address>>
    BY <1>4 DEF DeleteWallet
  <2>. QED BY <1>1, <1>2, <2>1, IdleIsTyped, StageKeeps
<1>. QED BY <1>3, <1>4

LEMMA RecordTransferKeeps ==
  ASSUME WalletInv, NEW c \in Client, RecordTransfer(c)
  PROVE  WalletInv'
<1>1. request' = [request EXCEPT ![c] = NoUpdate] /\ UNCHANGED <<wallet, address, kept>>
  BY DEF RecordTransfer, Ended
<1>2. named \in 0..MaxNamed /\ (named > 0 => wallet = "stored")
  BY DEF WalletInv, WalletShape, WalletsSound
<1>3. named' \in 0..MaxNamed /\ (named' > 0 => wallet = "stored")
  BY <1>2, WalletAssumption DEF RecordTransfer
<1>. QED BY <1>1, <1>3, IdleIsTyped, StageKeeps

LEMMA DeleteTransferKeeps ==
  ASSUME WalletInv, DeleteTransfer
  PROVE  WalletInv'
<1> USE DEF WalletInv, DeleteTransfer
<1>1. WalletShape'
  BY WalletAssumption DEF WalletShape
<1>2. NobodyEarly' /\ WritesApart' /\ RenamesApart' /\ AloneReconciles'
  BY DEF NobodyEarly, WritesApart, RenamesApart, AloneReconciles, InUpdate, Listed, Coming
<1>3. WalletsSound'
  BY DEF WalletsSound, AsSet
<1>. QED BY <1>1, <1>2, <1>3

LEMMA WalletNextKeeps == WalletInv /\ [WalletNext]_walletVars => WalletInv'
<1> SUFFICES ASSUME WalletInv, [WalletNext]_walletVars PROVE WalletInv'
  OBVIOUS
<1>1. CASE UNCHANGED walletVars
  BY <1>1, WalletStays
<1>2. ASSUME NEW set \in AddressSet, CreateWallet(set) PROVE WalletInv'
  BY <1>2, CreateWalletKeeps
<1>3. ASSUME NEW c \in Client, NEW set \in AddressSet, NEW rename \in BOOLEAN,
             BeginUpdate(c, set, rename)
      PROVE  WalletInv'
  BY <1>3, BeginUpdateKeeps
<1>4. ASSUME NEW c \in Client, FindExisting(c) PROVE WalletInv'
  BY <1>4, FindExistingKeeps
<1>5. ASSUME NEW c \in Client, DeleteRemoved(c) PROVE WalletInv'
  BY <1>5, DeleteRemovedKeeps
<1>6. ASSUME NEW c \in Client, NEW n \in Network, InsertAddress(c, n) PROVE WalletInv'
  BY <1>6, InsertAddressKeeps
<1>7. ASSUME NEW c \in Client, NEW n \in Network, UpdateAddress(c, n) PROVE WalletInv'
  BY <1>7, UpdateAddressKeeps
<1>8. ASSUME NEW c \in Client, StoreWallet(c) PROVE WalletInv'
  BY <1>8, StoreWalletKeeps
<1>9. ASSUME NEW c \in Client, RollBack(c) PROVE WalletInv'
  BY <1>9, RollBackKeeps
<1>10. ASSUME NEW c \in Client, CountReferences(c) \/ FindWallet(c) PROVE WalletInv'
  BY <1>10, StagedKeeps
<1>11. ASSUME NEW c \in Client, DeleteWallet(c) PROVE WalletInv'
  BY <1>11, DeleteWalletKeeps
<1>12. ASSUME NEW c \in Client, RecordTransfer(c) PROVE WalletInv'
  BY <1>12, RecordTransferKeeps
<1>13. ASSUME DeleteTransfer PROVE WalletInv'
  BY <1>13, DeleteTransferKeeps
<1>. QED
  BY <1>1, <1>2, <1>3, <1>4, <1>5, <1>6, <1>7, <1>8, <1>9, <1>10, <1>11, <1>12, <1>13, Zenon
  DEF WalletNext

\* The invariant says all that the two properties say.
LEMMA WalletInvSaysAll == WalletInv => WalletTypeOK /\ WalletsSound
<1> SUFFICES ASSUME WalletInv PROVE WalletTypeOK
  BY DEF WalletInv
<1> USE DEF WalletInv
<1>1. wallet \in {"none", "stored", "deleted"} /\ named \in 0..MaxNamed
  BY DEF WalletShape
<1>2. ASSUME NEW c \in Client
      PROVE  /\ request[c].todo \subseteq Network
             /\ ~Waits(c, {n \in Network : Writes(c, n)})
             /\ InUpdate(c) /\ request[c].rename /\ wallet = "stored" =>
                  \A d \in Client \ {c} : ~(InUpdate(d) /\ request[d].rename)
  <2>1. request[c] \in Update
    BY DEF WalletShape
  <2>2. ~Waits(c, {n \in Network : Writes(c, n)})
    BY DEF Waits, Writes, WritesApart
  <2>. QED BY <2>1, <2>2, UpdateFields DEF RenamesApart
<1>. QED BY <1>1, <1>2 DEF WalletTypeOK

\* No network is written by two transactions at once, and the renames of a
\* wallet run one after the other (UpdateWalletUseCase under its record locks).
THEOREM WalletsTyped == WalletSpec => []WalletTypeOK
<1>1. WalletSpec => []WalletInv
  BY WalletStarts, WalletNextKeeps, PTL DEF WalletSpec
<1>. QED BY <1>1, WalletInvSaysAll, PTL

\* A wallet that a transaction names is there, and its addresses are one set
\* that was asked for, unless the last update met another
\* (WalletRepository.reconcileAddresses, DeleteWalletUseCase).
THEOREM WalletsStaySound == WalletSpec => []WalletsSound
<1>1. WalletSpec => []WalletInv
  BY WalletStarts, WalletNextKeeps, PTL DEF WalletSpec
<1>. QED BY <1>1, WalletInvSaysAll, PTL

-------------------------------------------------------------------------------
(***************************************************************************)
(* The market overview: what an answer holds was asked for it.             *)
(***************************************************************************)

Inquiry == [at : {"asking", "replied", "backoff"}, feed : Feed, index : Nat,
           attempt : 1..Retries + 1, asked : 0..MaxClock, read : -1..MaxClock]
Failures == [transient : 0..Retries + 1, permanent : BOOLEAN]
NoFailure == [transient |-> 0, permanent |-> FALSE]

\* An entry was read after the call was sent and inCache when it arrived, and no
\* arrival is later than a call lasts.
CacheSound(entry, now) ==
  entry # NoEntry => /\ entry.read <= entry.fetchedAt /\ entry.fetchedAt <= now
                     /\ entry.expiresAt = entry.fetchedAt + EntryTtl
                     /\ entry.fetchedAt - entry.read <= Timeout
                     /\ entry.price = Rate(entry.read)

\* A request's x: what was cached when it came is still cached or has been
\* replaced; the venues before its present one are done with, the present one
\* has failed once per attempt, and the ones after it have not been asked.
RequestSound(x, began, met, now, inCache) ==
  IF x.at = "idle" THEN x = Unasked /\ began = -1 /\ met = NothingGiven
  ELSE LET chain == Chain(x.feed) IN
       /\ began <= inCache[x.feed].fetchedAt
       /\ x.asked <= now
       /\ x.at = "replied" => x.asked <= x.read /\ x.read <= now
       /\ x.at = "backoff" => x.attempt <= Retries
       /\ x.index \in 1..Len(chain)
       /\ \A i \in 1..x.index - 1 : Spent(met[chain[i]])
       /\ met[chain[x.index]] = [transient |-> IF x.at = "backoff" THEN x.attempt ELSE x.attempt - 1,
                                 permanent |-> FALSE]
       /\ \A i \in x.index + 1..Len(chain) : met[chain[i]] = NoFailure

MarketShape ==
  /\ clock \in 0..MaxClock
  /\ cache \in [Feed -> Entry \cup {NoEntry}]
  /\ req \in [Request -> Inquiry \cup {Unasked}]
  /\ answer \in [kind : {"none", "live", "cached", "stale", "failed"}, entry : Entry \cup {NoEntry}]
  /\ start \in [Request -> -1..MaxClock]
  /\ given \in [Request -> [Venue -> Failures]]

MarketInv ==
  /\ MarketShape
  /\ \A f \in Feed : CacheSound(cache[f], clock)
  /\ \A r \in Request : RequestSound(req[r], start[r], given[r], clock, cache)

\* A chain is the venues of the feed, each once.
LEMMA ChainsAreOrders ==
  ASSUME NEW f \in Feed
  PROVE  /\ Len(Chain(f)) = Len(Order[f]) /\ Len(Chain(f)) \in Nat \ {0}
         /\ \A i \in 1..Len(Chain(f)) : Chain(f)[i] \in Venue
         /\ \A i, j \in 1..Len(Chain(f)) : Chain(f)[i] = Chain(f)[j] => i = j
<1> DEFINE n == Len(Order[f])
<1>1. /\ Order[f] \in Seq(VenuesOf(f)) /\ n > 0
      /\ \A i, j \in DOMAIN Order[f] : Order[f][i] = Order[f][j] => i = j
  BY MarketAssumption
<1>2. n \in Nat \ {0} /\ DOMAIN Order[f] = 1..n
  BY <1>1
<1>3. \A i \in 1..n : Order[f][i] \in Venue
  BY DEF Venue, VenuesOf
<1>4. CASE Preferred \notin VenuesOf(f)
  BY <1>1, <1>2, <1>3, <1>4 DEF Chain
<1>5. CASE Preferred \in VenuesOf(f)
  <2> DEFINE place == CHOOSE i \in DOMAIN Order[f] : Order[f][i] = Preferred
             at(i) == IF i = 1 THEN Preferred ELSE Order[f][IF i <= place THEN i - 1 ELSE i]
             places == [i \in 1..n |-> at(i)]
  <2>1. place \in 1..n /\ Order[f][place] = Preferred
    BY <1>2, <1>5 DEF VenuesOf
  <2> HIDE DEF place
  <2>2. \A i \in 1..n : at(i) \in Venue
    BY <2>1, <1>2, <1>3
  <2>3. \A i, j \in 1..n : at(i) = at(j) => i = j
    BY <2>1, <1>1, <1>2
  <2>4. Chain(f) = places
    BY <1>2, <1>5 DEF Chain, place
  <2>5. places \in [1..n -> Venue]
    BY <2>2
  <2>6. \A i \in 1..n : places[i] = at(i)
    OBVIOUS
  <2> HIDE DEF at, places
  <2>7. Len(places) = n
    BY <2>5, <1>2
  <2>. QED BY <2>2, <2>3, <2>4, <2>6, <2>7, <1>2
<1>. QED BY <1>4, <1>5

LEMMA NotEntries == NoEntry \notin Entry /\ NoEntry.fetchedAt = -1 /\ Unasked.at = "idle"
BY DEF NoEntry, Entry, Unasked

LEMMA NothingIsTyped ==
  /\ NothingGiven \in [Venue -> Failures] /\ \A v \in Venue : NothingGiven[v] = NoFailure
  /\ NoAnswer \in [kind : {"none", "live", "cached", "stale", "failed"}, entry : Entry \cup {NoEntry}]
BY MarketAssumption DEF NothingGiven, Failures, NoFailure, NoAnswer

LEMMA AskingIs ==
  ASSUME NEW x \in Inquiry \cup {Unasked}
  PROVE  /\ x.at \in {"idle", "asking", "replied", "backoff"}
         /\ x.at = "idle" <=> x = Unasked
         /\ x.at # "idle" => /\ x.feed \in Feed /\ x.index \in Nat /\ x.attempt \in 1..Retries + 1
                             /\ x.asked \in 0..MaxClock /\ x.read \in -1..MaxClock
                             /\ x \in Inquiry
BY DEF Inquiry, Unasked

LEMMA EntryFields ==
  ASSUME NEW e \in Entry
  PROVE  /\ e.read \in 0..MaxClock /\ e.fetchedAt \in 0..MaxClock /\ e.price \in Nat
         /\ e.expiresAt \in EntryTtl..MaxClock + EntryTtl
BY MarketAssumption DEF Entry

LEMMA MarketStarts == MarketInit => MarketInv
<1> SUFFICES ASSUME MarketInit PROVE MarketInv
  OBVIOUS
<1> USE DEF MarketInit
<1>1. MarketShape
  BY MarketAssumption, NothingIsTyped DEF MarketShape
<1>2. \A f \in Feed : CacheSound(cache[f], clock)
  BY DEF CacheSound
<1>3. \A r \in Request : RequestSound(req[r], start[r], given[r], clock, cache)
  BY NotEntries DEF RequestSound
<1>. QED BY <1>1, <1>2, <1>3 DEF MarketInv

\* What was true of a request stays true as time passes and entries are replaced.
LEMMA SoundStays ==
  ASSUME NEW x \in Inquiry \cup {Unasked}, NEW began \in Int, NEW met,
         NEW now \in Int, NEW later \in Int, now <= later,
         NEW inCache, NEW newer,
         \A f \in Feed : /\ inCache[f].fetchedAt \in Int /\ newer[f].fetchedAt \in Int
                         /\ inCache[f].fetchedAt <= newer[f].fetchedAt,
         RequestSound(x, began, met, now, inCache)
  PROVE  RequestSound(x, began, met, later, newer)
<1>1. CASE x.at = "idle"
  BY <1>1 DEF RequestSound
<1>2. CASE x.at # "idle"
  <2>1. x.asked \in Int /\ x.read \in Int /\ x.feed \in Feed
    BY <1>2, AskingIs
  <2>2. began <= newer[x.feed].fetchedAt
    BY <1>2, <2>1 DEF RequestSound
  <2>3. x.asked <= later /\ (x.at = "replied" => x.asked <= x.read /\ x.read <= later)
    BY <1>2, <2>1 DEF RequestSound
  <2>. QED BY <1>2, <2>2, <2>3 DEF RequestSound
<1>. QED BY <1>1, <1>2

\* A step of one request: it is enough to look at that request.
LEMMA OneRequestMoves ==
  ASSUME MarketInv, NEW r \in Request,
         NEW x \in Inquiry \cup {Unasked}, NEW began \in -1..MaxClock, NEW met \in [Venue -> Failures],
         req' = [req EXCEPT ![r] = x], start' = [start EXCEPT ![r] = began],
         given' = [given EXCEPT ![r] = met], clock' = clock,
         answer' \in [kind : {"none", "live", "cached", "stale", "failed"}, entry : Entry \cup {NoEntry}],
         cache' \in [Feed -> Entry \cup {NoEntry}],
         \A f \in Feed : CacheSound(cache'[f], clock) /\ cache[f].fetchedAt <= cache'[f].fetchedAt,
         RequestSound(x, began, met, clock, cache')
  PROVE  MarketInv'
<1>1. MarketShape'
  BY DEF MarketInv, MarketShape
<1>2. \A f \in Feed : CacheSound(cache'[f], clock')
  OBVIOUS
<1>3. \A f \in Feed : /\ cache[f].fetchedAt \in Int /\ cache'[f].fetchedAt \in Int
                       /\ cache[f].fetchedAt <= cache'[f].fetchedAt
  BY NotEntries, EntryFields DEF MarketInv, MarketShape
<1>4. ASSUME NEW q \in Request
      PROVE  RequestSound(req'[q], start'[q], given'[q], clock', cache')
  <2>1. CASE q = r
    <3>1. req'[q] = x /\ start'[q] = began /\ given'[q] = met
      BY <2>1 DEF MarketInv, MarketShape
    <3>. QED BY <3>1
  <2>2. CASE q # r
    <3>1. req'[q] = req[q] /\ start'[q] = start[q] /\ given'[q] = given[q]
      BY <2>2 DEF MarketInv, MarketShape
    <3>2. req[q] \in Inquiry \cup {Unasked} /\ start[q] \in Int /\ clock \in Int
      BY DEF MarketInv, MarketShape
    <3>3. RequestSound(req[q], start[q], given[q], clock, cache)
      BY DEF MarketInv
    <3>4. RequestSound(req[q], start[q], given[q], clock, cache')
      <4>1. clock <= clock
        BY <3>2
      <4>. QED BY <1>3, <3>2, <3>3, <4>1, SoundStays
    <3>. QED BY <3>1, <3>4
  <2>. QED BY <2>1, <2>2
<1>5. \A q \in Request : RequestSound(req[q], start[q], given[q], clock, cache)'
  BY <1>4
<1>. QED BY <1>1, <1>2, <1>5 DEF MarketInv

\* The entries are kept as they were.
LEMMA SameEntries ==
  ASSUME MarketInv, UNCHANGED cache
  PROVE  /\ cache' \in [Feed -> Entry \cup {NoEntry}]
         /\ \A f \in Feed : CacheSound(cache'[f], clock) /\ cache[f].fetchedAt <= cache'[f].fetchedAt
<1>1. \A f \in Feed : cache[f].fetchedAt \in Int
  BY NotEntries, EntryFields DEF MarketInv, MarketShape
<1>. QED BY <1>1 DEF MarketInv, MarketShape

LEMMA FieldsNow ==
  ASSUME MarketInv, NEW r \in Request
  PROVE  /\ req[r] \in Inquiry \cup {Unasked} /\ start[r] \in -1..MaxClock
         /\ given[r] \in [Venue -> Failures] /\ clock \in 0..MaxClock
         /\ RequestSound(req[r], start[r], given[r], clock, cache)
         /\ \A f \in Feed : cache[f] \in Entry \cup {NoEntry} /\ CacheSound(cache[f], clock)
         /\ Retries \in Nat /\ EntryTtl \in Nat \ {0} /\ Timeout \in Nat
BY MarketAssumption DEF MarketInv, MarketShape

LEMMA NobodyIsSound ==
  \A now, inCache : RequestSound(Unasked, -1, NothingGiven, now, inCache)
BY NotEntries DEF RequestSound

\* A request that is answered, over entries that are sound.
LEMMA GiveKeeps ==
  ASSUME MarketInv, NEW r \in Request, NEW entry \in Entry \cup {NoEntry},
         NEW kind \in {"live", "cached", "stale", "failed"}, Give(r, kind, entry),
         clock' = clock, cache' \in [Feed -> Entry \cup {NoEntry}],
         \A f \in Feed : CacheSound(cache'[f], clock) /\ cache[f].fetchedAt <= cache'[f].fetchedAt
  PROVE  MarketInv'
<1>1. /\ req' = [req EXCEPT ![r] = Unasked] /\ start' = [start EXCEPT ![r] = -1]
      /\ given' = [given EXCEPT ![r] = NothingGiven]
      /\ answer' \in [kind : {"none", "live", "cached", "stale", "failed"}, entry : Entry \cup {NoEntry}]
  BY DEF Give
<1>2. Unasked \in Inquiry \cup {Unasked} /\ -1 \in -1..MaxClock
  BY MarketAssumption
<1>3. RequestSound(Unasked, -1, NothingGiven, clock, cache')
  BY NobodyIsSound
<1>. QED BY <1>1, <1>2, <1>3, NothingIsTyped, OneRequestMoves

LEMMA StartKeeps ==
  ASSUME MarketInv, NEW r \in Request, NEW f \in Feed, Start(r, f)
  PROVE  MarketInv'
<1>1. req[r] = Unasked /\ clock' = clock /\ cache' = cache
  BY DEF Start
<1>2. CASE Live(f)
  BY <1>1, <1>2, FieldsNow, SameEntries, GiveKeeps DEF Start
<1>3. CASE ~Live(f)
  <2> DEFINE x == [at |-> "asking", feed |-> f, index |-> 1, attempt |-> 1, asked |-> clock, read |-> -1]
  <2>1. req' = [req EXCEPT ![r] = x] /\ start' = [start EXCEPT ![r] = cache[f].fetchedAt]
        /\ given' = given /\ answer' = NoAnswer
    BY <1>3 DEF Start, Ask
  <2>2. given[r] = NothingGiven /\ given' = [given EXCEPT ![r] = given[r]]
    BY <1>1, <2>1, FieldsNow, NotEntries DEF RequestSound, MarketInv, MarketShape
  <2>3. x \in Inquiry
    <3>1. clock \in 0..MaxClock /\ 1 \in 1..Retries + 1 /\ -1 \in -1..MaxClock /\ 1 \in Nat
      BY FieldsNow, MarketAssumption
    <3>. QED BY <3>1 DEF Inquiry
  <2>4. cache[f].fetchedAt \in -1..MaxClock
    <3>1. cache[f] \in Entry \cup {NoEntry} /\ -1 \in -1..MaxClock
      BY FieldsNow, MarketAssumption
    <3>2. CASE cache[f] \in Entry
      <4>1. cache[f].fetchedAt \in 0..MaxClock
        BY <3>2, EntryFields
      <4>. QED BY <4>1
    <3>3. CASE cache[f] = NoEntry
      BY <3>1, <3>3, NotEntries
    <3>. QED BY <3>1, <3>2, <3>3
  <2>5. RequestSound(x, cache[f].fetchedAt, given[r], clock, cache')
    <3> DEFINE chain == Chain(f)
    <3>1. 1 \in 1..Len(chain)
      BY ChainsAreOrders
    <3>2. \A i \in 1..Len(chain) : given[r][chain[i]] = NoFailure
      BY <2>2, ChainsAreOrders, NothingIsTyped
    <3>3. cache[f].fetchedAt <= cache'[f].fetchedAt /\ clock <= clock
      BY <1>1, <2>4, FieldsNow
    <3>4. Len(chain) \in Nat
      BY ChainsAreOrders
    <3> HIDE DEF chain
    <3>5. given[r][chain[1]] = [transient |-> 0, permanent |-> FALSE]
      BY <3>1, <3>2 DEF NoFailure
    <3>6. \A i \in 1 + 1..Len(chain) : given[r][chain[i]] = NoFailure
      BY <3>2, <3>4
    <3>. QED BY <3>1, <3>3, <3>5, <3>6 DEF RequestSound, chain
  <2> HIDE DEF x
  <2>. QED BY <1>1, <2>1, <2>2, <2>3, <2>4, <2>5, FieldsNow, SameEntries, NothingIsTyped, OneRequestMoves
<1>. QED BY <1>2, <1>3

LEMMA VenueAnswersKeeps ==
  ASSUME MarketInv, NEW r \in Request, VenueAnswers(r)
  PROVE  MarketInv'
<1> DEFINE x == [req[r] EXCEPT !.at = "replied", !.read = clock]
<1>1. req[r].at = "asking" /\ clock' = clock /\ cache' = cache /\ start' = start /\ given' = given
      /\ answer' = NoAnswer
  BY DEF VenueAnswers
<1>2. req[r] \in Inquiry
  BY <1>1, FieldsNow, NotEntries
<1>3. req' = [req EXCEPT ![r] = x]
  BY DEF VenueAnswers, MarketInv, MarketShape
<1>4. x \in Inquiry
  <2>1. clock \in -1..MaxClock
    BY FieldsNow
  <2>. QED BY <1>2, <2>1 DEF Inquiry
<1>5. /\ x.at = "replied" /\ x.read = clock /\ x.feed = req[r].feed /\ x.index = req[r].index
      /\ x.attempt = req[r].attempt /\ x.asked = req[r].asked
  BY <1>2 DEF Inquiry
<1> HIDE DEF x
<1>6. RequestSound(x, start[r], given[r], clock, cache')
  <2>1. clock <= clock
    BY FieldsNow
  <2>. QED BY <1>1, <1>5, <2>1, FieldsNow DEF RequestSound
<1>7. start' = [start EXCEPT ![r] = start[r]] /\ given' = [given EXCEPT ![r] = given[r]]
  BY <1>1 DEF MarketInv, MarketShape
<1>. QED BY <1>1, <1>3, <1>4, <1>6, <1>7, FieldsNow, SameEntries, NothingIsTyped, OneRequestMoves

\* What the present venue of r has failed with, this call included.
MetThere(r, permanent) ==
  [transient |-> IF permanent THEN req[r].attempt - 1 ELSE req[r].attempt, permanent |-> permanent]

LEMMA PresentVenue ==
  ASSUME MarketInv, NEW r \in Request, req[r].at # "idle"
  PROVE  /\ req[r] \in Inquiry /\ req[r].feed \in Feed
         /\ req[r].index \in 1..Len(Chain(req[r].feed))
         /\ VenueOf(r) \in Venue /\ VenueOf(r) = Chain(req[r].feed)[req[r].index]
<1>1. req[r] \in Inquiry /\ req[r].feed \in Feed /\ req[r].index \in 1..Len(Chain(req[r].feed))
  BY FieldsNow, AskingIs DEF RequestSound
<1>. QED BY <1>1, ChainsAreOrders DEF VenueOf

LEMMA MetIs ==
  ASSUME MarketInv, NEW r \in Request, req[r].at \in {"asking", "replied"}, NEW permanent \in BOOLEAN
  PROVE  /\ Met(r, permanent) =
              [given EXCEPT ![r] = [given[r] EXCEPT ![VenueOf(r)] = MetThere(r, permanent)]]
         /\ MetThere(r, permanent) \in Failures
<1> DEFINE seen == given[r][VenueOf(r)]
<1>1. /\ req[r].attempt \in 1..Retries + 1 /\ Retries \in Nat
      /\ seen = [transient |-> req[r].attempt - 1, permanent |-> FALSE]
  BY FieldsNow, AskingIs DEF RequestSound, VenueOf
<1>2. MetThere(r, permanent) \in Failures
  BY <1>1 DEF MetThere, Failures
<1>3. seen.transient + (IF permanent THEN 0 ELSE 1)
        = IF permanent THEN req[r].attempt - 1 ELSE req[r].attempt
  BY <1>1
<1>4. (seen.permanent \/ permanent) = permanent
  BY <1>1
<1>5. [transient |-> seen.transient + (IF permanent THEN 0 ELSE 1),
       permanent |-> seen.permanent \/ permanent] = MetThere(r, permanent)
  BY <1>3, <1>4, Zenon DEF MetThere
<1>6. Met(r, permanent) = [given EXCEPT ![r][VenueOf(r)] = [transient |-> seen.transient + (IF permanent THEN 0 ELSE 1),
       permanent |-> seen.permanent \/ permanent]]
  BY DEF Met
<1>. QED BY <1>2, <1>5, <1>6

\* A call that fails and is made again after a pause.
LEMMA RetriedKeeps ==
  ASSUME MarketInv, NEW r \in Request, req[r].at \in {"asking", "replied"},
         NEW permanent \in BOOLEAN, Retried(r, permanent),
         req' = [req EXCEPT ![r].at = "backoff", ![r].read = -1],
         given' = Met(r, permanent), answer' = NoAnswer, UNCHANGED <<start, clock, cache>>
  PROVE  MarketInv'
<1> DEFINE f == req[r].feed
           v == VenueOf(r)
           x == [req[r] EXCEPT !.at = "backoff", !.read = -1]
           met == [given[r] EXCEPT ![v] = MetThere(r, permanent)]
<1>1. ~permanent /\ req[r].attempt <= Retries
  BY DEF Retried
<1>2. /\ req[r] \in Inquiry /\ f \in Feed /\ req[r].index \in 1..Len(Chain(f))
      /\ v \in Venue /\ v = Chain(f)[req[r].index]
  BY PresentVenue
<1>3. req' = [req EXCEPT ![r] = x]
  BY DEF MarketInv, MarketShape
<1>4. x \in Inquiry
  <2>1. -1 \in -1..MaxClock
    BY MarketAssumption
  <2>. QED BY <1>2, <2>1 DEF Inquiry
<1>5. /\ x.at = "backoff" /\ x.read = -1 /\ x.feed = f /\ x.index = req[r].index
      /\ x.attempt = req[r].attempt /\ x.asked = req[r].asked
  BY <1>2 DEF Inquiry
<1>6. given' = [given EXCEPT ![r] = met] /\ MetThere(r, permanent) \in Failures
  BY MetIs
<1>7. met \in [Venue -> Failures]
  BY <1>6, FieldsNow
<1>8. \A w \in Venue : met[w] = IF w = v THEN MetThere(r, permanent) ELSE given[r][w]
  BY FieldsNow
<1>9. start' = [start EXCEPT ![r] = start[r]]
  BY DEF MarketInv, MarketShape
<1>10. MetThere(r, permanent) = [transient |-> req[r].attempt, permanent |-> FALSE]
  BY <1>1 DEF MetThere
<1> HIDE DEF x, met
<1>11. RequestSound(x, start[r], met, clock, cache')
  <2> DEFINE chain == Chain(f)
  <2>1. /\ Len(chain) \in Nat
        /\ \A i \in 1..Len(chain) : chain[i] \in Venue
        /\ \A i, j \in 1..Len(chain) : chain[i] = chain[j] => i = j
    BY <1>2, ChainsAreOrders
  <2>2. /\ start[r] <= cache[f].fetchedAt /\ req[r].asked <= clock
        /\ \A i \in 1..req[r].index - 1 : Spent(given[r][chain[i]])
        /\ \A i \in req[r].index + 1..Len(chain) : given[r][chain[i]] = NoFailure
    BY FieldsNow DEF RequestSound
  <2>3. chain[req[r].index] = v /\ req[r].index \in 1..Len(chain)
    BY <1>2
  <2> HIDE DEF chain
  <2>4. \A i \in 1..Len(chain) : i # req[r].index => met[chain[i]] = given[r][chain[i]]
    BY <2>1, <2>3, <1>8
  <2>5. \A i \in 1..req[r].index - 1 : Spent(met[chain[i]])
    BY <2>1, <2>2, <2>3, <2>4
  <2>6. \A i \in req[r].index + 1..Len(chain) : met[chain[i]] = NoFailure
    BY <2>1, <2>2, <2>3, <2>4
  <2>7. met[chain[req[r].index]] = [transient |-> req[r].attempt, permanent |-> FALSE]
    BY <1>2, <1>8, <1>10, <2>3
  <2>. QED BY <1>1, <1>5, <2>2, <2>3, <2>5, <2>6, <2>7 DEF RequestSound, chain
<1>. QED BY <1>3, <1>4, <1>6, <1>7, <1>9, <1>11, FieldsNow, SameEntries, NothingIsTyped, OneRequestMoves

\* A venue that is done with, and the next one of the chain.
LEMMA PassedOverKeeps ==
  ASSUME MarketInv, NEW r \in Request, req[r].at \in {"asking", "replied"},
         NEW permanent \in BOOLEAN, ~Retried(r, permanent),
         req[r].index < Len(Chain(req[r].feed)),
         Ask(r, req[r].feed, req[r].index + 1, 1),
         given' = Met(r, permanent), UNCHANGED <<start, clock, cache>>
  PROVE  MarketInv' /\ Spent(given'[r][VenueOf(r)])
<1> DEFINE f == req[r].feed
           v == VenueOf(r)
           x == [at |-> "asking", feed |-> f, index |-> req[r].index + 1, attempt |-> 1,
                 asked |-> clock, read |-> -1]
           met == [given[r] EXCEPT ![v] = MetThere(r, permanent)]
<1>2. /\ req[r] \in Inquiry /\ f \in Feed /\ req[r].index \in 1..Len(Chain(f))
      /\ v \in Venue /\ v = Chain(f)[req[r].index]
  BY PresentVenue
<1>1. permanent \/ req[r].attempt = Retries + 1
  BY <1>2, AskingIs, FieldsNow DEF Retried, Inquiry
<1>3. req' = [req EXCEPT ![r] = x] /\ answer' = NoAnswer
  BY DEF Ask
<1>4. x \in Inquiry
  <2>1. clock \in 0..MaxClock /\ 1 \in 1..Retries + 1 /\ -1 \in -1..MaxClock
    BY FieldsNow, MarketAssumption
  <2>2. req[r].index + 1 \in Nat
    BY <1>2 DEF Inquiry
  <2>. QED BY <1>2, <2>1, <2>2 DEF Inquiry
<1>5. /\ x.at = "asking" /\ x.feed = f /\ x.index = req[r].index + 1
      /\ x.attempt = 1 /\ x.asked = clock
  OBVIOUS
<1>6. given' = [given EXCEPT ![r] = met] /\ MetThere(r, permanent) \in Failures
  BY MetIs
<1>7. met \in [Venue -> Failures]
  BY <1>6, FieldsNow
<1>8. \A w \in Venue : met[w] = IF w = v THEN MetThere(r, permanent) ELSE given[r][w]
  BY FieldsNow
<1>9. start' = [start EXCEPT ![r] = start[r]]
  BY DEF MarketInv, MarketShape
<1>10. Spent(MetThere(r, permanent))
  BY <1>1 DEF MetThere, Spent
<1> HIDE DEF x, met
<1>11. RequestSound(x, start[r], met, clock, cache')
  <2> DEFINE chain == Chain(f)
  <2>1. /\ Len(chain) \in Nat
        /\ \A i \in 1..Len(chain) : chain[i] \in Venue
        /\ \A i, j \in 1..Len(chain) : chain[i] = chain[j] => i = j
    BY <1>2, ChainsAreOrders
  <2>2. /\ start[r] <= cache[f].fetchedAt
        /\ \A i \in 1..req[r].index - 1 : Spent(given[r][chain[i]])
        /\ \A i \in req[r].index + 1..Len(chain) : given[r][chain[i]] = NoFailure
    BY FieldsNow DEF RequestSound
  <2>3. chain[req[r].index] = v /\ req[r].index \in 1..Len(chain) /\ req[r].index < Len(chain)
    BY <1>2
  <2> HIDE DEF chain
  <2>4. \A i \in 1..Len(chain) : i # req[r].index => met[chain[i]] = given[r][chain[i]]
    BY <2>1, <2>3, <1>8
  <2>5. \A i \in 1..req[r].index : Spent(met[chain[i]])
    <3> SUFFICES ASSUME NEW i \in 1..req[r].index PROVE Spent(met[chain[i]])
      OBVIOUS
    <3>1. i \in 1..Len(chain) /\ (i = req[r].index \/ i \in 1..req[r].index - 1)
      BY <2>1, <2>3
    <3>2. CASE i = req[r].index
      <4>1. chain[i] = v /\ v \in Venue
        BY <2>1, <2>3, <3>1, <3>2
      <4>2. met[chain[i]] = MetThere(r, permanent)
        BY <1>8, <4>1
      <4>. QED BY <1>10, <4>2
    <3>3. CASE i \in 1..req[r].index - 1
      <4>1. i # req[r].index
        BY <2>3, <3>3
      <4>2. met[chain[i]] = given[r][chain[i]]
        BY <2>4, <3>1, <4>1
      <4>. QED BY <2>2, <3>3, <4>2
    <3>. QED BY <3>1, <3>2, <3>3
  <2>6. \A i \in req[r].index + 1..Len(chain) : met[chain[i]] = NoFailure
    BY <2>1, <2>2, <2>3, <2>4
  <2>7. /\ req[r].index + 1 \in 1..Len(chain)
        /\ \A i \in 1..(req[r].index + 1) - 1 : Spent(met[chain[i]])
        /\ \A i \in (req[r].index + 1) + 1..Len(chain) : met[chain[i]] = NoFailure
        /\ met[chain[req[r].index + 1]] = [transient |-> 1 - 1, permanent |-> FALSE]
    BY <2>1, <2>3, <2>5, <2>6 DEF NoFailure
  <2>8. clock <= clock
    BY FieldsNow
  <2>. QED BY <1>5, <2>2, <2>7, <2>8 DEF RequestSound, chain
<1>12. MarketInv'
  BY <1>3, <1>4, <1>6, <1>7, <1>9, <1>11, FieldsNow, SameEntries, NothingIsTyped, OneRequestMoves
<1>13. given'[r] = met
  BY <1>6 DEF MarketInv, MarketShape
<1>. QED BY <1>2, <1>8, <1>10, <1>12, <1>13

LEMMA ExhaustedKeeps ==
  ASSUME MarketInv, NEW r \in Request, req[r].at # "idle", Exhausted(r), UNCHANGED <<clock, cache>>
  PROVE  MarketInv'
<1>1. req[r].feed \in Feed
  BY PresentVenue
<1>2. CASE Bridgeable(req[r].feed)
  BY <1>1, <1>2, FieldsNow, SameEntries, GiveKeeps DEF Exhausted
<1>3. CASE ~Bridgeable(req[r].feed)
  BY <1>3, SameEntries, GiveKeeps DEF Exhausted
<1>. QED BY <1>2, <1>3

LEMMA FailsKeeps ==
  ASSUME MarketInv, NEW r \in Request, req[r].at \in {"asking", "replied"},
         NEW permanent \in BOOLEAN, Fails(r, permanent)
  PROVE  MarketInv'
<1>1. UNCHANGED <<clock, cache>>
  BY DEF Fails
<1>2. CASE Retried(r, permanent)
  BY <1>1, <1>2, RetriedKeeps DEF Fails
<1>3. CASE ~Retried(r, permanent) /\ req[r].index < Len(Chain(req[r].feed))
  <2>1. Ask(r, req[r].feed, req[r].index + 1, 1) /\ given' = Met(r, permanent) /\ UNCHANGED start
    BY <1>3, PresentVenue, ChainsAreOrders DEF Fails
  <2>. QED BY <1>1, <1>3, <2>1, PassedOverKeeps
<1>4. CASE ~Retried(r, permanent) /\ ~(req[r].index < Len(Chain(req[r].feed)))
  BY <1>1, <1>4, ExhaustedKeeps DEF Fails
<1>. QED BY <1>2, <1>3, <1>4

\* What a venue has answered in time makes a sound entry.
LEMMA FreshIsSound ==
  ASSUME MarketInv, NEW r \in Request, req[r].at = "replied", clock - req[r].asked <= Timeout
  PROVE  LET entry == Fresh(VenueOf(r), req[r].read) IN
         /\ entry \in Entry /\ CacheSound(entry, clock)
         /\ entry.fetchedAt = clock /\ entry.read = req[r].read /\ entry # NoEntry
<1> DEFINE entry == Fresh(VenueOf(r), req[r].read)
           read == req[r].read
<1>1. /\ req[r].asked \in 0..MaxClock /\ read \in Int /\ clock \in 0..MaxClock
      /\ req[r].asked <= read /\ read <= clock
      /\ EntryTtl \in Nat \ {0} /\ MaxClock \in Nat /\ Timeout \in Nat
  <2>1. req[r].asked \in 0..MaxClock /\ req[r].read \in Int
    BY PresentVenue DEF Inquiry
  <2>2. req[r].asked <= read /\ read <= clock
    BY FieldsNow DEF RequestSound
  <2>. QED BY <2>1, <2>2, FieldsNow, MarketAssumption
<1>2. Normal(VenueOf(r), Quote(VenueOf(r), read)) = read + 1
  <2>1. QuotedPerToman(VenueOf(r)) = 1 \/ QuotedPerToman(VenueOf(r)) = 10
    BY DEF QuotedPerToman, RialPerToman
  <2>2. ((read + 1) * 1) \div 1 = read + 1 /\ ((read + 1) * 10) \div 10 = read + 1
    BY <1>1
  <2>. QED BY <2>1, <2>2 DEF Normal, Quote, Rate
<1>3. entry = [read |-> read, price |-> read + 1, fetchedAt |-> clock,
               expiresAt |-> clock + EntryTtl, venue |-> VenueOf(r)]
  BY <1>2 DEF Fresh
<1>4. VenueOf(r) \in Venue
  BY PresentVenue
<1>5. entry \in Entry
  BY <1>1, <1>3, <1>4 DEF Entry
<1>6. CacheSound(entry, clock)
  BY <1>1, <1>3 DEF CacheSound, Rate
<1>. QED BY <1>3, <1>5, <1>6, NotEntries

LEMMA AnswerArrivesKeeps ==
  ASSUME MarketInv, NEW r \in Request, AnswerArrives(r)
  PROVE  MarketInv'
<1>1. req[r].at = "replied" /\ clock - req[r].asked <= Timeout
  BY DEF AnswerArrives
<1> DEFINE entry == Fresh(VenueOf(r), req[r].read)
<1>2. entry \in Entry /\ CacheSound(entry, clock) /\ entry.fetchedAt = clock
  BY <1>1, FreshIsSound
<1>3. CASE Fails(r, TRUE)
  BY <1>1, <1>3, FailsKeeps
<1>4. CASE /\ cache' = [cache EXCEPT ![req[r].feed] = entry]
           /\ Give(r, "live", entry) /\ clock' = clock
  <2> HIDE DEF entry
  <2>1. \A f \in Feed : cache'[f] = IF f = req[r].feed THEN entry ELSE cache[f]
    BY <1>4 DEF MarketInv, MarketShape
  <2>2. \A f \in Feed : cache[f].fetchedAt \in Int /\ cache[f].fetchedAt <= clock
    BY FieldsNow, NotEntries, EntryFields DEF CacheSound
  <2>3. \A f \in Feed : CacheSound(cache'[f], clock) /\ cache[f].fetchedAt <= cache'[f].fetchedAt
    BY <2>1, <2>2, <1>2, FieldsNow
  <2>4. cache' \in [Feed -> Entry \cup {NoEntry}]
    BY <1>2, <1>4 DEF MarketInv, MarketShape
  <2>. QED BY <1>2, <1>4, <2>3, <2>4, GiveKeeps
<1>. QED BY <1>3, <1>4 DEF AnswerArrives

LEMMA RetryKeeps ==
  ASSUME MarketInv, NEW r \in Request, Retry(r)
  PROVE  MarketInv'
<1> DEFINE f == req[r].feed
           x == [at |-> "asking", feed |-> f, index |-> req[r].index, attempt |-> req[r].attempt + 1,
                 asked |-> clock, read |-> -1]
<1>1. /\ req[r].at = "backoff" /\ req' = [req EXCEPT ![r] = x] /\ answer' = NoAnswer
      /\ UNCHANGED <<clock, cache, start, given>>
  BY DEF Retry, Ask
<1>2. /\ req[r] \in Inquiry /\ f \in Feed /\ req[r].attempt \in 1..Retries
      /\ RequestSound(req[r], start[r], given[r], clock, cache)
  <2>1. req[r] \in Inquiry /\ f \in Feed /\ req[r].attempt \in 1..Retries + 1
    BY <1>1, FieldsNow, AskingIs
  <2>2. req[r].attempt <= Retries
    BY <1>1, FieldsNow DEF RequestSound
  <2>. QED BY <2>1, <2>2, FieldsNow
<1>3. x \in Inquiry
  <2>1. clock \in 0..MaxClock /\ req[r].attempt + 1 \in 1..Retries + 1 /\ -1 \in -1..MaxClock
    BY <1>2, FieldsNow, MarketAssumption
  <2>2. req[r].index \in Nat
    BY <1>2 DEF Inquiry
  <2>. QED BY <1>2, <2>1, <2>2 DEF Inquiry
<1>4. RequestSound(x, start[r], given[r], clock, cache')
  <2>1. (req[r].attempt + 1) - 1 = req[r].attempt /\ clock <= clock
    BY <1>2, FieldsNow
  <2>2. /\ x.at = "asking" /\ x.feed = f /\ x.index = req[r].index
        /\ x.attempt = req[r].attempt + 1 /\ x.asked = clock
    OBVIOUS
  <2> HIDE DEF x
  <2>. QED BY <1>1, <1>2, <2>1, <2>2 DEF RequestSound
<1>5. start' = [start EXCEPT ![r] = start[r]] /\ given' = [given EXCEPT ![r] = given[r]]
  BY <1>1 DEF MarketInv, MarketShape
<1> HIDE DEF x
<1>. QED BY <1>1, <1>3, <1>4, <1>5, FieldsNow, SameEntries, NothingIsTyped, OneRequestMoves

LEMMA TickKeeps ==
  ASSUME MarketInv, Tick
  PROVE  MarketInv'
<1>1. /\ clock' = clock + 1 /\ clock' \in 0..MaxClock /\ clock \in 0..MaxClock /\ answer' = NoAnswer
      /\ UNCHANGED <<cache, req, start, given>>
  BY MarketAssumption DEF Tick, MarketInv, MarketShape
<1>2. MarketShape'
  BY <1>1, NothingIsTyped DEF MarketInv, MarketShape
<1>3. \A f \in Feed : cache[f].fetchedAt \in Int
  <2> SUFFICES ASSUME NEW f \in Feed PROVE cache[f].fetchedAt \in Int
    OBVIOUS
  <2>1. cache[f] \in Entry \cup {NoEntry}
    BY DEF MarketInv, MarketShape
  <2>. QED BY <2>1, NotEntries, EntryFields
<1>4. \A f \in Feed : CacheSound(cache[f], clock')
  BY <1>1, <1>3 DEF MarketInv, CacheSound
<1>5. ASSUME NEW q \in Request PROVE RequestSound(req[q], start[q], given[q], clock', cache)
  <2>1. clock <= clock' /\ \A f \in Feed : cache[f].fetchedAt <= cache[f].fetchedAt
    BY <1>1, <1>3
  <2>2. req[q] \in Inquiry \cup {Unasked} /\ start[q] \in Int /\ clock \in Int /\ clock' \in Int
    BY <1>1 DEF MarketInv, MarketShape
  <2>3. RequestSound(req[q], start[q], given[q], clock, cache)
    BY DEF MarketInv
  <2>. QED BY <1>3, <2>1, <2>2, <2>3, SoundStays
<1>6. \A f \in Feed : CacheSound(cache[f], clock)'
  BY <1>1, <1>4
<1>7. \A q \in Request : RequestSound(req[q], start[q], given[q], clock, cache)'
  BY <1>1, <1>5
<1>. QED BY <1>2, <1>6, <1>7 DEF MarketInv

LEMMA MarketStays == MarketInv /\ UNCHANGED marketVars => MarketInv'
BY DEF MarketInv, MarketShape, marketVars

LEMMA MarketNextKeeps == MarketInv /\ [MarketNext]_marketVars => MarketInv'
<1> SUFFICES ASSUME MarketInv, [MarketNext]_marketVars PROVE MarketInv'
  OBVIOUS
<1>1. CASE UNCHANGED marketVars
  BY <1>1, MarketStays
<1>2. CASE Tick
  BY <1>2, TickKeeps
<1>3. ASSUME NEW r \in Request, NEW f \in Feed, Start(r, f) PROVE MarketInv'
  BY <1>3, StartKeeps
<1>4. ASSUME NEW r \in Request, VenueAnswers(r) PROVE MarketInv'
  BY <1>4, VenueAnswersKeeps
<1>5. ASSUME NEW r \in Request, AnswerArrives(r) PROVE MarketInv'
  BY <1>5, AnswerArrivesKeeps
<1>6. ASSUME NEW r \in Request, VenueRefuses(r) PROVE MarketInv'
  <2>1. PICK permanent \in BOOLEAN : req[r].at = "asking" /\ Fails(r, permanent)
    BY <1>6 DEF VenueRefuses, Permanent
  <2>. QED BY <2>1, FailsKeeps
<1>7. ASSUME NEW r \in Request, VenueTimesOut(r) PROVE MarketInv'
  <2>1. req[r].at \in {"asking", "replied"} /\ Fails(r, FALSE)
    BY <1>7 DEF VenueTimesOut, Permanent
  <2>. QED BY <2>1, FailsKeeps
<1>8. ASSUME NEW r \in Request, Retry(r) PROVE MarketInv'
  BY <1>8, RetryKeeps
<1>. QED BY <1>1, <1>2, <1>3, <1>4, <1>5, <1>6, <1>7, <1>8 DEF MarketNext

LEMMA MarketInvTypes == MarketInv => MarketTypeOK
<1> SUFFICES ASSUME MarketInv PROVE MarketTypeOK
  OBVIOUS
<1>1. ASSUME NEW r \in Request
      PROVE  \/ req[r] = Unasked /\ start[r] = -1 /\ given[r] = NothingGiven
             \/ /\ req[r].at \in {"asking", "replied", "backoff"}
                /\ req[r].feed \in Feed
                /\ req[r].index \in 1..Len(Chain(req[r].feed))
                /\ req[r].attempt \in 1..Retries + 1
                /\ req[r].asked \in 0..MaxClock
                /\ req[r].read \in -1..MaxClock
  <2>1. CASE req[r].at = "idle"
    BY <2>1, FieldsNow DEF RequestSound
  <2>2. CASE req[r].at # "idle"
    BY <2>2, PresentVenue DEF Inquiry
  <2>. QED BY <2>1, <2>2
<1>2. /\ answer.kind \in {"none", "live", "cached", "stale", "failed"}
      /\ answer.entry \in Entry \cup {NoEntry}
  BY DEF MarketInv, MarketShape
<1>. QED BY <1>1, <1>2 DEF MarketInv, MarketShape, MarketTypeOK, Failures

\* A request asks a venue of the chain of its feed, no more often than it may
\* (FailoverUsdtTomanProvider, the retries of the clients).
THEOREM MarketTyped == MarketSpec => []MarketTypeOK
<1>1. MarketSpec => []MarketInv
  BY MarketStarts, MarketNextKeeps, PTL DEF MarketSpec
<1>. QED BY <1>1, MarketInvTypes, PTL

\* What a step that answers r says, and when it may say so.
AnswerIsSound ==
  /\ NotStaleIsRecent /\ NothingLost /\ InToman

OrderIsKept ==
  \A r \in Request : req[r] # Unasked =>
    LET chain == Chain(req[r].feed) IN
      /\ \A i \in 1..req[r].index - 1 : Spent(given[r][chain[i]])
      /\ Answers(r) /\ answer'.kind \in {"stale", "failed"} => req[r].index = Len(chain)
      /\ ~Answers(r) /\ req'[r].index # req[r].index => Spent(given'[r][VenueOf(r)])

\* A step that answers no request says nothing about answers.
LEMMA SilentIsSound ==
  ASSUME MarketInv, answer' = NoAnswer, \A r \in Request : ~Answers(r)
  PROVE  AnswerIsSound
BY DEF AnswerIsSound, NotStaleIsRecent, NothingLost, InToman, NoAnswer

\* An answer with an entry that is sound: a live one now, or the one in the
\* cache, which has not expired or is marked.
LEMMA GivenIsSound ==
  ASSUME MarketInv, NEW r \in Request, NEW entry \in Entry, NEW kind \in {"live", "cached", "stale"},
         Give(r, kind, entry), CacheSound(entry, clock),
         kind \in {"live", "cached"} => clock < entry.expiresAt,
         req[r] # Unasked => start[r] <= entry.fetchedAt
  PROVE  AnswerIsSound
<1>1. /\ answer' = [kind |-> kind, entry |-> entry] /\ req' = [req EXCEPT ![r] = Unasked]
      /\ clock \in Int /\ EntryTtl \in Nat /\ Timeout \in Nat /\ entry # NoEntry
  BY FieldsNow, NotEntries DEF Give
<1>2. /\ entry.read \in Int /\ entry.fetchedAt \in Int /\ entry.expiresAt = entry.fetchedAt + EntryTtl
      /\ entry.fetchedAt - entry.read <= Timeout /\ entry.price = Rate(entry.read)
  BY <1>1, EntryFields DEF CacheSound
<1>3. NotStaleIsRecent
  BY <1>1, <1>2 DEF NotStaleIsRecent
<1>4. NothingLost
  <2>1. \A q \in Request : q # r => req'[q] = req[q]
    BY <1>1 DEF MarketInv, MarketShape
  <2>. QED BY <1>1, <2>1 DEF NothingLost, Answers
<1>5. InToman
  BY <1>1, <1>2 DEF InToman
<1>. QED BY <1>3, <1>4, <1>5 DEF AnswerIsSound

\* Of a request that is neither answered nor was at rest, the place moves only
\* when the venue there is done with.
LEMMA OrderOfOne ==
  ASSUME MarketInv, NEW r \in Request,
         \A q \in Request : q # r => req'[q] = req[q],
         Answers(r) /\ answer'.kind \in {"stale", "failed"} => req[r].index = Len(Chain(req[r].feed)),
         req[r] # Unasked /\ ~Answers(r) /\ req'[r].index # req[r].index => Spent(given'[r][VenueOf(r)])
  PROVE  OrderIsKept
<1>1. \A q \in Request : req[q] # Unasked =>
        \A i \in 1..req[q].index - 1 : Spent(given[q][Chain(req[q].feed)[i]])
  BY FieldsNow, AskingIs DEF RequestSound
<1>2. \A q \in Request : q # r => ~Answers(q) /\ req'[q].index = req[q].index
  BY DEF Answers
<1>. QED BY <1>1, <1>2 DEF OrderIsKept

LEMMA OthersStay ==
  ASSUME MarketInv, NEW r \in Request, NEW x, req' = [req EXCEPT ![r] = x]
  PROVE  req'[r] = x /\ \A q \in Request : q # r => req'[q] = req[q]
BY DEF MarketInv, MarketShape

LEMMA FailsIsSound ==
  ASSUME MarketInv, NEW r \in Request, req[r].at \in {"asking", "replied"},
         NEW permanent \in BOOLEAN, Fails(r, permanent)
  PROVE  AnswerIsSound /\ OrderIsKept
<1> DEFINE f == req[r].feed
<1>1. /\ req[r] \in Inquiry /\ f \in Feed /\ req[r].index \in 1..Len(Chain(f))
      /\ Len(Chain(f)) \in Nat /\ req[r] # Unasked
  BY PresentVenue, ChainsAreOrders, NotEntries
<1>2. CASE Retried(r, permanent)
  <2>1. req' = [req EXCEPT ![r] = [req[r] EXCEPT !.at = "backoff", !.read = -1]] /\ answer' = NoAnswer
    BY <1>2 DEF Fails, MarketInv, MarketShape
  <2>2. /\ req'[r] = [req[r] EXCEPT !.at = "backoff", !.read = -1]
        /\ \A q \in Request : q # r => req'[q] = req[q]
    BY <2>1, OthersStay
  <2>3. req'[r].at = "backoff" /\ req'[r].index = req[r].index
    BY <1>1, <2>2 DEF Inquiry
  <2>4. \A q \in Request : ~Answers(q)
    BY <2>2, <2>3, NotEntries DEF Answers
  <2>. QED BY <2>1, <2>2, <2>3, <2>4, SilentIsSound, OrderOfOne
<1>3. CASE ~Retried(r, permanent) /\ req[r].index < Len(Chain(f))
  <2>1. Ask(r, f, req[r].index + 1, 1) /\ given' = Met(r, permanent) /\ UNCHANGED start
    BY <1>1, <1>3 DEF Fails
  <2>2. Spent(given'[r][VenueOf(r)])
    BY <1>3, <2>1, PassedOverKeeps DEF Fails
  <2> DEFINE x == [at |-> "asking", feed |-> f, index |-> req[r].index + 1, attempt |-> 1,
                   asked |-> clock, read |-> -1]
  <2>a. req' = [req EXCEPT ![r] = x] /\ answer' = NoAnswer
    BY <2>1 DEF Ask
  <2>b. x.at = "asking"
    OBVIOUS
  <2> HIDE DEF x
  <2>3. /\ req'[r].at = "asking" /\ answer' = NoAnswer
        /\ \A q \in Request : q # r => req'[q] = req[q]
    BY <2>a, <2>b, OthersStay
  <2>4. \A q \in Request : ~Answers(q)
    BY <2>3, NotEntries DEF Answers
  <2>. QED BY <2>2, <2>3, <2>4, SilentIsSound, OrderOfOne
<1>4. CASE ~Retried(r, permanent) /\ ~(req[r].index < Len(Chain(f)))
  <2>1. Exhausted(r) /\ req[r].index = Len(Chain(f))
    BY <1>1, <1>4 DEF Fails
  <2>2. req' = [req EXCEPT ![r] = Unasked]
    BY <2>1 DEF Exhausted, Give
  <2>3. req'[r] = Unasked /\ \A q \in Request : q # r => req'[q] = req[q]
    BY <2>2, OthersStay
  <2>4. OrderIsKept
    BY <2>1, <2>3, OrderOfOne DEF Answers
  <2>5. start[r] <= cache[f].fetchedAt
    BY <1>1, FieldsNow, AskingIs DEF RequestSound
  <2>6. AnswerIsSound
    <3>1. CASE Bridgeable(f)
      <4>1. cache[f] \in Entry /\ CacheSound(cache[f], clock) /\ Give(r, "stale", cache[f])
        BY <1>1, <2>1, <3>1, FieldsNow DEF Exhausted, Bridgeable
      <4>. QED BY <2>5, <4>1, GivenIsSound
    <3>2. CASE ~Bridgeable(f)
      <4>1. answer' = [kind |-> "failed", entry |-> NoEntry] /\ cache[f] = NoEntry
        BY <2>1, <3>2 DEF Exhausted, Give, Bridgeable
      <4>2. start[r] \in Int /\ ~(start[r] >= 0)
        BY <2>5, <4>1, NotEntries, FieldsNow
      <4>3. NothingLost
        BY <2>3, <4>2 DEF NothingLost, Answers
      <4>. QED BY <4>1, <4>3 DEF AnswerIsSound, NotStaleIsRecent, InToman
    <3>. QED BY <3>1, <3>2
  <2>. QED BY <2>4, <2>6
<1>. QED BY <1>2, <1>3, <1>4

LEMMA StartIsSound ==
  ASSUME MarketInv, NEW r \in Request, NEW f \in Feed, Start(r, f)
  PROVE  AnswerIsSound /\ OrderIsKept
<1>1. req[r] = Unasked
  BY DEF Start
<1>2. CASE Live(f)
  <2>1. Give(r, "cached", cache[f]) /\ cache[f] \in Entry /\ CacheSound(cache[f], clock)
    BY <1>2, FieldsNow DEF Start, Live
  <2>2. clock < cache[f].expiresAt
    <3>1. clock \in Int /\ cache[f].expiresAt \in Int
      BY <2>1, FieldsNow, MarketAssumption DEF Entry
    <3>. QED BY <1>2, <3>1 DEF Live
  <2>3. \A q \in Request : q # r => req'[q] = req[q]
    BY <2>1, OthersStay DEF Give
  <2>. QED BY <1>1, <2>1, <2>2, <2>3, GivenIsSound, OrderOfOne DEF Answers
<1>3. CASE ~Live(f)
  <2>1. Ask(r, f, 1, 1)
    BY <1>3 DEF Start
  <2>2. answer' = NoAnswer /\ \A q \in Request : q # r => req'[q] = req[q]
    BY <2>1, OthersStay DEF Ask
  <2>3. \A q \in Request : ~Answers(q)
    BY <1>1, <2>2 DEF Answers
  <2>. QED BY <1>1, <2>2, <2>3, SilentIsSound, OrderOfOne
<1>. QED BY <1>2, <1>3

LEMMA VenueAnswersIsSound ==
  ASSUME MarketInv, NEW r \in Request, VenueAnswers(r)
  PROVE  AnswerIsSound /\ OrderIsKept
<1>1. /\ req[r].at = "asking" /\ answer' = NoAnswer /\ req[r] \in Inquiry
      /\ req' = [req EXCEPT ![r] = [req[r] EXCEPT !.at = "replied", !.read = clock]]
  BY FieldsNow, NotEntries DEF VenueAnswers, MarketInv, MarketShape
<1>2. /\ req'[r] = [req[r] EXCEPT !.at = "replied", !.read = clock]
      /\ \A q \in Request : q # r => req'[q] = req[q]
  BY <1>1, OthersStay
<1>3. req'[r].at = "replied" /\ req'[r].index = req[r].index
  <2>1. ASSUME NEW x \in Inquiry, NEW now
        PROVE  /\ [x EXCEPT !.at = "replied", !.read = now].at = "replied"
               /\ [x EXCEPT !.at = "replied", !.read = now].index = x.index
    BY DEF Inquiry
  <2>2. /\ [req[r] EXCEPT !.at = "replied", !.read = clock].at = "replied"
        /\ [req[r] EXCEPT !.at = "replied", !.read = clock].index = req[r].index
    BY <1>1, <2>1
  <2>. QED BY <1>2, <2>2
<1>4. \A q \in Request : ~Answers(q)
  BY <1>2, <1>3, NotEntries DEF Answers
<1>. QED BY <1>1, <1>2, <1>3, <1>4, SilentIsSound, OrderOfOne

LEMMA AnswerArrivesIsSound ==
  ASSUME MarketInv, NEW r \in Request, AnswerArrives(r)
  PROVE  AnswerIsSound /\ OrderIsKept
<1>1. req[r].at = "replied" /\ clock - req[r].asked <= Timeout
  BY DEF AnswerArrives
<1> DEFINE entry == Fresh(VenueOf(r), req[r].read)
<1>2. CASE Fails(r, TRUE)
  BY <1>1, <1>2, FailsIsSound
<1>3. CASE Give(r, "live", entry)
  <2>1. entry \in Entry /\ CacheSound(entry, clock) /\ entry.fetchedAt = clock /\ entry # NoEntry
    BY <1>1, FreshIsSound
  <2>2. clock \in Int /\ EntryTtl \in Nat \ {0} /\ entry.expiresAt = clock + EntryTtl
    BY <2>1, FieldsNow DEF CacheSound
  <2>3. clock < entry.expiresAt
    BY <2>2
  <2>4. start[r] <= entry.fetchedAt
    <3>1. start[r] <= cache[req[r].feed].fetchedAt /\ req[r].feed \in Feed /\ start[r] \in Int
      <4>1. RequestSound(req[r], start[r], given[r], clock, cache) /\ req[r].at # "idle"
        BY <1>1, FieldsNow
      <4>2. start[r] <= cache[req[r].feed].fetchedAt
        BY <4>1 DEF RequestSound
      <4>3. req[r].feed \in Feed
        BY <4>1, PresentVenue
      <4>4. start[r] \in -1..MaxClock
        BY FieldsNow
      <4>. QED BY <4>2, <4>3, <4>4
    <3>2. cache[req[r].feed] \in Entry \cup {NoEntry} /\ CacheSound(cache[req[r].feed], clock)
      BY <3>1, FieldsNow
    <3>3. cache[req[r].feed].fetchedAt \in Int /\ cache[req[r].feed].fetchedAt <= clock
      <4>1. CASE cache[req[r].feed] \in Entry
        BY <3>2, <4>1, NotEntries, EntryFields DEF CacheSound
      <4>2. CASE cache[req[r].feed] = NoEntry
        BY <4>2, <2>2, NotEntries, FieldsNow
      <4>. QED BY <3>2, <4>1, <4>2
    <3>. QED BY <2>1, <2>2, <3>1, <3>3
  <2> HIDE DEF entry
  <2>5. answer'.kind = "live"
    BY <1>3 DEF Give
  <2>6. \A q \in Request : q # r => req'[q] = req[q]
    BY <1>3, OthersStay DEF Give
  <2>7. req'[r] = Unasked /\ req[r] # Unasked
    BY <1>1, <1>3, OthersStay, NotEntries DEF Give
  <2>8. OrderIsKept
    BY <2>5, <2>6, <2>7, OrderOfOne DEF Answers
  <2>. QED BY <1>3, <2>1, <2>3, <2>4, <2>8, GivenIsSound
<1>. QED BY <1>2, <1>3 DEF AnswerArrives

LEMMA RetryIsSound ==
  ASSUME MarketInv, NEW r \in Request, Retry(r)
  PROVE  AnswerIsSound /\ OrderIsKept
<1>1. Ask(r, req[r].feed, req[r].index, req[r].attempt + 1)
  BY DEF Retry
<1> DEFINE x == [at |-> "asking", feed |-> req[r].feed, index |-> req[r].index,
                 attempt |-> req[r].attempt + 1, asked |-> clock, read |-> -1]
<1>a. req' = [req EXCEPT ![r] = x] /\ answer' = NoAnswer
  BY <1>1 DEF Ask
<1>b. x.at = "asking" /\ x.index = req[r].index
  OBVIOUS
<1> HIDE DEF x
<1>2. /\ answer' = NoAnswer /\ req'[r].at = "asking" /\ req'[r].index = req[r].index
      /\ \A q \in Request : q # r => req'[q] = req[q]
  BY <1>a, <1>b, OthersStay
<1>3. \A q \in Request : ~Answers(q)
  BY <1>2, NotEntries DEF Answers
<1>. QED BY <1>2, <1>3, SilentIsSound, OrderOfOne

LEMMA MarketStepIsSound == MarketInv /\ MarketNext => AnswerIsSound /\ OrderIsKept
<1> SUFFICES ASSUME MarketInv, MarketNext PROVE AnswerIsSound /\ OrderIsKept
  OBVIOUS
<1>2. ASSUME Tick PROVE AnswerIsSound /\ OrderIsKept
  <2>1. answer' = NoAnswer /\ req' = req
    BY <1>2 DEF Tick
  <2>2. \A q \in Request : ~Answers(q)
    BY <2>1 DEF Answers
  <2>3. \A q \in Request : req[q] # Unasked =>
          \A i \in 1..req[q].index - 1 : Spent(given[q][Chain(req[q].feed)[i]])
    BY FieldsNow, AskingIs DEF RequestSound
  <2>. QED BY <2>1, <2>2, <2>3, SilentIsSound DEF OrderIsKept
<1>3. ASSUME NEW r \in Request, NEW f \in Feed, Start(r, f) PROVE AnswerIsSound /\ OrderIsKept
  BY <1>3, StartIsSound
<1>4. ASSUME NEW r \in Request, VenueAnswers(r) PROVE AnswerIsSound /\ OrderIsKept
  BY <1>4, VenueAnswersIsSound
<1>5. ASSUME NEW r \in Request, AnswerArrives(r) PROVE AnswerIsSound /\ OrderIsKept
  BY <1>5, AnswerArrivesIsSound
<1>6. ASSUME NEW r \in Request, VenueRefuses(r) PROVE AnswerIsSound /\ OrderIsKept
  <2>1. PICK permanent \in BOOLEAN : req[r].at = "asking" /\ Fails(r, permanent)
    BY <1>6 DEF VenueRefuses, Permanent
  <2>. QED BY <2>1, FailsIsSound
<1>7. ASSUME NEW r \in Request, VenueTimesOut(r) PROVE AnswerIsSound /\ OrderIsKept
  <2>1. req[r].at \in {"asking", "replied"} /\ Fails(r, FALSE)
    BY <1>7 DEF VenueTimesOut, Permanent
  <2>. QED BY <2>1, FailsIsSound
<1>8. ASSUME NEW r \in Request, Retry(r) PROVE AnswerIsSound /\ OrderIsKept
  BY <1>8, RetryIsSound
<1>. QED BY <1>2, <1>3, <1>4, <1>5, <1>6, <1>7, <1>8 DEF MarketNext

\* An answer that is not marked stale is recent, a value known when a request
\* came is not lost to it, the rate is in Toman, and a venue is passed over only
\* when its attempts are spent or its failure is for good
\* (FailoverUsdtTomanProvider, ExchangeUsdtTomanProvider and the cache services).
THEOREM MarketAnswersSound == MarketSpec => MarketSound
<1>1. MarketSpec => []MarketInv
  BY MarketStarts, MarketNextKeeps, PTL DEF MarketSpec
<1>2. MarketInv /\ [MarketNext]_marketVars => [NotStaleIsRecent /\ NothingLost /\ InToman]_marketVars
  BY MarketStepIsSound DEF AnswerIsSound
<1>3. MarketInv /\ [MarketNext]_marketVars => [OrderIsKept]_marketVars
  BY MarketStepIsSound
<1>. QED BY <1>1, <1>2, <1>3, PTL DEF MarketSpec, MarketSound, AnswersSound, FallbackInOrder, OrderIsKept

-------------------------------------------------------------------------------
(***************************************************************************)
(* Transactions as they are entered and edited: the price columns of a row agree.*)
(***************************************************************************)

Digits == Nat \cup {Null}
Trade  == [type : TradeType \cup {"none"}, price : Digits, currency : Currency,
           entered : Digits, rate : (Nat \ {0}) \cup {Null}]
Edit   == [at : {"read", "priced"}, patch : Patch, existing : Trade, pricing : Trade, raced : BOOLEAN]

\* The columns of one record agree.
Coherent(record) ==
  IF record.currency = "USD" THEN record.entered = Null /\ record.rate = Null
  ELSE /\ record.rate # Null
       /\ \/ record.price = TomanToUsd(Exact(record.entered), record.rate)
          \/ record.entered = Column(UsdToToman(record.price, record.rate), Unit)

\* What a patch leaves alone when old becomes new.
Carries(patch, old, new) ==
  patch.price = Omitted =>
    IF old.currency = "TOMAN" /\ new.currency = "TOMAN" THEN new.entered = old.entered
                                                        ELSE new.price = old.price

Sets(patch)         == patch.price # Omitted \/ patch.fee \/ patch.currency # "omitted"
Buys(patch, old)    == Priced(Or(patch.type, "omitted", old.type))

EntryShape ==
  /\ trade \in Trade /\ trade.price \in {Null} \cup 1..MaxPrice
  /\ edit \in [Editor -> Edit \cup {NoEdit}]
  /\ muddled \in BOOLEAN

\* An edit that no other has met has read the record as it is, and what it has
\* worked out is a whole record that keeps what was not sent.
EditSound(x, record) ==
  x # NoEdit =>
    /\ x.at = "read" /\ ~x.raced => x.existing = record
    /\ ~x.raced /\ Buys(x.patch, record) => Or(x.patch.price, Omitted, record.price) # Null
    /\ x.at = "read" => Coherent(x.existing)
    /\ x.at = "priced" /\ Sets(x.patch) =>
         /\ Coherent(x.pricing)
         /\ ~x.raced => Carries(x.patch, record, x.pricing)
         /\ ~x.raced /\ Buys(x.patch, record) => x.pricing.price # Null

EntryInv ==
  /\ EntryShape
  /\ EntriesSound
  /\ \A e \in Editor : EditSound(edit[e], trade)

LEMMA QuotientIs ==
  ASSUME NEW a \in Nat \ {0}, NEW q \in Nat, NEW rest \in 0..a - 1
  PROVE  (a * q + rest) \div a = q
OBVIOUS

LEMMA QuotientIsNat ==
  ASSUME NEW n \in Nat, NEW d \in Nat \ {0}
  PROVE  n \div d \in Nat
OBVIOUS

\* A column keeps what it can hold.
LEMMA ColumnIs ==
  ASSUME NEW d \in Nat \ {0}
  PROVE  /\ \A n \in Digits : Column(n, d) \in Digits /\ (Column(n, d) = Null <=> n = Null)
         /\ \A p \in Nat : Column(p * d, d) = p
<1>0. Null \notin Nat
  BY DEF Null
<1>1. ASSUME NEW n \in Digits PROVE Column(n, d) \in Digits /\ (Column(n, d) = Null <=> n = Null)
  <2>1. CASE n = Null
    BY <2>1 DEF Column, Digits
  <2>2. CASE n \in Nat
    <3>1. 2 * n + d \in Nat /\ 2 * d \in Nat \ {0}
      BY <2>2
    <3>2. (2 * n + d) \div (2 * d) \in Nat
      BY <3>1, QuotientIsNat
    <3>. QED BY <1>0, <2>2, <3>2 DEF Column, Digits
  <2>. QED BY <2>1, <2>2 DEF Digits
<1>2. ASSUME NEW p \in Nat PROVE Column(p * d, d) = p
  <2>1. p * d \in Nat /\ 2 * d \in Nat \ {0} /\ d \in 0..2 * d - 1
    OBVIOUS
  <2>2. 2 * (p * d) + d = (2 * d) * p + d
    OBVIOUS
  <2>3. ((2 * d) * p + d) \div (2 * d) = p
    BY <2>1, QuotientIs
  <2>. QED BY <1>0, <2>1, <2>2, <2>3 DEF Column
<1>. QED BY <1>1, <1>2

LEMMA ProductIsWhole ==
  ASSUME NEW p \in Nat, NEW d \in Nat \ {0}
  PROVE  Finite(p * d, d)
<1>1. 1 \in 1..d /\ ((p * d) * 1) % d = 0
  <2>1. p * d \in Nat /\ (p * d) * 1 = d * p + 0
    OBVIOUS
  <2>2. (d * p) % d = 0
    OBVIOUS
  <2>. QED BY <2>1, <2>2
<1>2. \A k \in 2..1 : 1 % k = 0 => k % 2 = 0 \/ k % 5 = 0
  OBVIOUS
<1>. QED BY <1>1, <1>2 DEF Finite

\* The conversions are of digits to digits, and the dollars that were restated in
\* Toman come back.
LEMMA ConversionsAreTyped ==
  ASSUME NEW v \in Digits, NEW d \in Nat \ {0}
  PROVE  /\ TomanToUsd(v, d) \in Digits /\ UsdToToman(v, d) \in Digits /\ Exact(v) \in Digits
         /\ TomanToUsd(v, d) = Null <=> v = Null
         /\ UsdToToman(v, d) = Null <=> v = Null
         /\ Exact(v) = Null <=> v = Null
         /\ TomanToUsd(UsdToToman(v, d), d) = v
         /\ Column(Exact(v), Unit) = v
<1>0. Null \notin Nat /\ Null \in Digits /\ Unit \in Nat \ {0}
  BY EntryAssumption DEF Null, Digits
<1>1. CASE v = Null
  BY <1>0, <1>1 DEF TomanToUsd, UsdToToman, Exact, Column
<1>2. CASE v \in Nat
  <2>1. v * d \in Nat /\ v * Unit \in Nat /\ UsdToToman(v, d) = v * d /\ Exact(v) = v * Unit
    BY <1>0, <1>2 DEF UsdToToman, Exact
  <2>2. Column(v, d) \in Digits /\ Column(v, d) # Null /\ v \div d \in Nat
    BY <1>0, <1>2, ColumnIs, QuotientIsNat DEF Digits
  <2>3. TomanToUsd(v, d) \in Digits /\ TomanToUsd(v, d) # Null
    BY <1>0, <1>2, <2>2 DEF TomanToUsd, Digits
  <2>4. TomanToUsd(v * d, d) = v
    BY <1>0, <1>2, <2>1, ColumnIs, ProductIsWhole DEF TomanToUsd
  <2>5. Column(v * Unit, Unit) = v
    BY <1>0, <1>2, ColumnIs
  <2>. QED BY <1>0, <1>2, <2>1, <2>3, <2>4, <2>5 DEF Digits
<1>. QED BY <1>1, <1>2 DEF Digits

LEMMA PricesAreWhole ==
  ASSUME NEW type \in TradeType \cup {"none"}, NEW price \in Digits, NEW currency \in Currency,
         NEW rate \in TomanRate, NEW value,
         value = Exact(price) \/ (currency # "USD" /\ value = UsdToToman(price, rate)),
         NEW record, record = NormalizedPrice(type, value, currency, rate)
  PROVE  /\ record \in Trade /\ Coherent(record) /\ record.type = type /\ record.currency = currency
         /\ record.price = Null <=> price = Null
         /\ currency = "USD" => record.price = price
         /\ currency # "USD" /\ value = Exact(price) => record.entered = price
         /\ currency # "USD" /\ value = UsdToToman(price, rate) => record.price = price
<1>1. rate \in Nat \ {0} /\ rate # Null /\ Null \in Digits /\ Unit \in Nat \ {0}
  BY EntryAssumption DEF Null, Digits
<1>2. /\ Exact(price) \in Digits /\ (Exact(price) = Null <=> price = Null) /\ Column(Exact(price), Unit) = price
      /\ UsdToToman(price, rate) \in Digits /\ (UsdToToman(price, rate) = Null <=> price = Null)
      /\ TomanToUsd(UsdToToman(price, rate), rate) = price
  BY <1>1, ConversionsAreTyped
<1>3. value \in Digits /\ (value = Null <=> price = Null)
  BY <1>2
<1>4. CASE currency = "USD"
  <2>1. record = [type |-> type, price |-> price, currency |-> currency, entered |-> Null, rate |-> Null]
    BY <1>2, <1>4 DEF NormalizedPrice
  <2>. QED BY <1>1, <1>4, <2>1 DEF Trade, Coherent
<1>5. CASE currency # "USD"
  <2> DEFINE usd == TomanToUsd(value, rate)
             carried == Column(value, Unit)
  <2>1. usd \in Digits /\ (usd = Null <=> price = Null) /\ carried \in Digits
    BY <1>1, <1>3, ConversionsAreTyped, ColumnIs
  <2>2. record = [type |-> type, price |-> usd, currency |-> currency, entered |-> carried, rate |-> rate]
    BY <1>5 DEF NormalizedPrice
  <2>3. value = Exact(price) => carried = price
    BY <1>2
  <2>4. value = UsdToToman(price, rate) => usd = price
    BY <1>2
  <2>5. usd = TomanToUsd(Exact(carried), rate) \/ carried = Column(UsdToToman(usd, rate), Unit)
    BY <1>2, <1>5
  <2> HIDE DEF usd, carried
  <2>6. record \in Trade /\ record.type = type /\ record.currency = currency /\ record.price = usd
        /\ record.entered = carried /\ record.rate = rate
    BY <1>1, <2>1, <2>2 DEF Trade
  <2>. QED BY <1>1, <1>5, <2>1, <2>3, <2>4, <2>5, <2>6 DEF Coherent
<1>. QED BY <1>4, <1>5

LEMMA NoTradeIs == NoTrade \in Trade /\ Coherent(NoTrade) /\ ~Priced(NoTrade.type) /\ NoTrade.price = Null
BY DEF NoTrade, Trade, Coherent, Priced, Digits, Currency

LEMMA NotAnEdit == NoEdit \notin Edit /\ NoEdit.at = "idle" /\ ~NoEdit.raced
BY DEF NoEdit, Edit

LEMMA EditFields ==
  ASSUME NEW x \in Edit \cup {NoEdit}, x # NoEdit
  PROVE  /\ x \in Edit /\ x.at \in {"read", "priced"} /\ x.patch \in Patch /\ x.existing \in Trade
         /\ x.pricing \in Trade /\ x.raced \in BOOLEAN
         /\ x.patch.type \in TradeType \cup {"omitted"} /\ x.patch.price \in Nat \cup {Null, Omitted}
         /\ x.patch.fee \in BOOLEAN /\ x.patch.currency \in Currency \cup {"omitted"}
<1>1. x \in Edit
  OBVIOUS
<1>2. x.patch \in Patch
  BY <1>1 DEF Edit
<1>3. x.patch \in [type : TradeType \cup {"omitted"}, price : Nat \cup {Null, Omitted},
                   fee : BOOLEAN, currency : Currency \cup {"omitted"}]
  BY <1>2, EntryAssumption
<1>. QED BY <1>1, <1>2, <1>3 DEF Edit

LEMMA EditsNow ==
  ASSUME EntryInv, NEW e \in Editor
  PROVE  /\ edit[e] \in Edit \cup {NoEdit} /\ EditSound(edit[e], trade)
         /\ edit[e].at = "idle" <=> edit[e] = NoEdit
BY NotAnEdit DEF EntryInv, EntryShape, Edit

LEMMA EntryStarts == EntryInit => EntryInv
<1> SUFFICES ASSUME EntryInit PROVE EntryInv
  OBVIOUS
<1> USE DEF EntryInit
<1>1. EntryShape
  BY NoTradeIs DEF EntryShape
<1>2. EntriesSound
  BY NoTradeIs DEF EntriesSound, Coherent
<1>3. \A e \in Editor : EditSound(edit[e], trade)
  BY DEF EditSound
<1>. QED BY <1>1, <1>2, <1>3 DEF EntryInv

\* Who has been raced has promised little.
LEMMA RacedIsSound ==
  ASSUME EntryInv, NEW record
  PROVE  /\ Race \in [Editor -> Edit \cup {NoEdit}]
         /\ \A e \in Editor : /\ EditSound(Race[e], record)
                              /\ edit[e] # NoEdit => Race[e] # NoEdit
<1> SUFFICES ASSUME NEW e \in Editor
             PROVE  /\ Race[e] \in Edit \cup {NoEdit} /\ EditSound(Race[e], record)
                    /\ edit[e] # NoEdit => Race[e] # NoEdit
  BY DEF Race
<1>1. CASE edit[e] = NoEdit
  <2>1. Race[e] = [NoEdit EXCEPT !.raced = FALSE]
    BY <1>1, NotAnEdit DEF Race
  <2>2. Race[e] = NoEdit
    BY <2>1 DEF NoEdit
  <2>. QED BY <1>1, <2>2 DEF EditSound
<1>2. CASE edit[e] # NoEdit
  <2>1. edit[e] \in Edit /\ edit[e].at # "idle" /\ EditSound(edit[e], trade)
    BY <1>2, EditsNow
  <2>2. Race[e] = [edit[e] EXCEPT !.raced = TRUE]
    BY <2>1 DEF Race
  <2>3. /\ Race[e] \in Edit /\ Race[e].raced /\ Race[e].at = edit[e].at /\ Race[e].patch = edit[e].patch
        /\ Race[e].existing = edit[e].existing /\ Race[e].pricing = edit[e].pricing
    BY <2>1, <2>2 DEF Edit
  <2>4. EditSound(Race[e], record)
    BY <1>2, <2>1, <2>3 DEF EditSound
  <2>. QED BY <2>3, <2>4, NotAnEdit
<1>. QED BY <1>1, <1>2

LEMMA CreateKeeps ==
  ASSUME EntryInv, NEW type \in TradeType, NEW price \in SentPrice \cup {Null, Omitted},
         NEW currency \in Currency, NEW rate \in TomanRate, Create(type, price, currency, rate)
  PROVE  EntryInv'
<1> DEFINE sent == IF price = Omitted THEN Null ELSE price
           record == NormalizedPrice(type, Exact(sent), currency, rate)
<1>1. sent \in Digits
  BY EntryAssumption DEF Digits
<1>2. /\ trade' = record /\ edit' = Race /\ muddled' = (Priced(type) /\ price = Null)
      /\ Priced(type) => price # Omitted
      /\ record.price # 0 /\ record.price <= MaxPrice
  BY DEF Create, Storable
<1> HIDE DEF sent
<1>3. record \in Trade /\ Coherent(record) /\ record.type = type /\ (record.price = Null <=> sent = Null)
  BY <1>1, PricesAreWhole
<1>4. (price = Null \/ price = Omitted) <=> sent = Null
  BY EntryAssumption DEF sent, Null, Omitted
<1> HIDE DEF record
<1>5. EntryShape'
  <2>1. record.price \in {Null} \cup 1..MaxPrice
    BY <1>2, <1>3, EntryAssumption DEF Trade, Digits, Null
  <2>2. muddled' \in BOOLEAN
    BY <1>2 DEF Priced
  <2>. QED BY <1>2, <1>3, <2>1, <2>2, RacedIsSound DEF EntryShape
<1>6. EntriesSound'
  BY <1>2, <1>3, <1>4 DEF EntriesSound, Coherent
<1>7. \A e \in Editor : EditSound(edit'[e], trade')
  BY <1>2, RacedIsSound
<1>. QED BY <1>5, <1>6, <1>7 DEF EntryInv

LEMMA ReadExistingKeeps ==
  ASSUME EntryInv, NEW e \in Editor, NEW patch \in Patch, ReadExisting(e, patch)
  PROVE  EntryInv'
<1> DEFINE x == [NoEdit EXCEPT !.at = "read", !.patch = patch, !.existing = trade]
<1>1. /\ edit' = [edit EXCEPT ![e] = x] /\ trade' = trade /\ muddled' = muddled
      /\ Buys(patch, trade) => Or(patch.price, Omitted, trade.price) # Null
  BY DEF ReadExisting, Buys
<1>2. /\ x \in Edit /\ x.at = "read" /\ x.patch = patch /\ x.existing = trade /\ ~x.raced
  <2>0. trade \in Trade
    BY DEF EntryInv, EntryShape
  <2>1. ASSUME NEW none, NEW old \in Trade,
               NEW base \in [at : {"idle", "read", "priced"}, patch : Patch \cup {none},
                             existing : Trade, pricing : Trade, raced : BOOLEAN]
        PROVE  /\ [base EXCEPT !.at = "read", !.patch = patch, !.existing = old]
                    \in [at : {"idle", "read", "priced"}, patch : Patch \cup {none},
                         existing : Trade, pricing : Trade, raced : BOOLEAN]
               /\ [base EXCEPT !.at = "read", !.patch = patch, !.existing = old].at = "read"
               /\ [base EXCEPT !.at = "read", !.patch = patch, !.existing = old].patch = patch
               /\ [base EXCEPT !.at = "read", !.patch = patch, !.existing = old].existing = old
               /\ [base EXCEPT !.at = "read", !.patch = patch, !.existing = old].raced = base.raced
    OBVIOUS
  <2>2. NoEdit \in [at : {"idle", "read", "priced"}, patch : Patch \cup {<<>>},
                    existing : Trade, pricing : Trade, raced : BOOLEAN]
    BY NoTradeIs DEF NoEdit
  <2>3. /\ x \in [at : {"idle", "read", "priced"}, patch : Patch \cup {<<>>},
                  existing : Trade, pricing : Trade, raced : BOOLEAN]
        /\ x.at = "read" /\ x.patch = patch /\ x.existing = trade /\ x.raced = NoEdit.raced
    BY <2>0, <2>1, <2>2
  <2> HIDE DEF x
  <2>. QED BY <2>3, NotAnEdit DEF Edit
<1>3. Coherent(trade)
  BY DEF EntryInv, EntriesSound, Coherent
<1> HIDE DEF x
<1>4. EditSound(x, trade)
  BY <1>1, <1>2, <1>3 DEF EditSound
<1>5. EntryShape' /\ EntriesSound'
  BY <1>1, <1>2 DEF EntryInv, EntryShape, EntriesSound
<1>6. \A d \in Editor : edit'[d] = IF d = e THEN x ELSE edit[d]
  BY <1>1 DEF EntryInv, EntryShape
<1>7. \A d \in Editor : EditSound(edit'[d], trade')
  BY <1>1, <1>4, <1>6, EditsNow
<1>. QED BY <1>5, <1>7 DEF EntryInv

\* What the price comes to when it is worked out from a record that is whole.
LEMMA CarriedIsSound ==
  ASSUME NEW patch \in Patch, NEW old \in Trade, Coherent(old), NEW rate \in TomanRate,
         Sets(patch)
  PROVE  LET currency == Or(patch.currency, "omitted", old.currency)
             carried  == IF patch.price # Omitted THEN Exact(patch.price)
                         ELSE IF currency = old.currency THEN Exact(Or(old.entered, Null, old.price))
                         ELSE IF currency = "USD" THEN Exact(old.price)
                         ELSE UsdToToman(old.price, rate)
             type     == Or(patch.type, "omitted", old.type)
             new      == NormalizedPrice(type, carried, currency, rate) IN
         /\ new \in Trade /\ Coherent(new) /\ Carries(patch, old, new)
         /\ Or(patch.price, Omitted, old.price) # Null => new.price # Null
<1> DEFINE currency == Or(patch.currency, "omitted", old.currency)
           price    == IF patch.price # Omitted THEN patch.price
                       ELSE IF currency = old.currency THEN Or(old.entered, Null, old.price)
                       ELSE old.price
           restated == patch.price = Omitted /\ currency # old.currency /\ currency # "USD"
           carried  == IF patch.price # Omitted THEN Exact(patch.price)
                       ELSE IF currency = old.currency THEN Exact(Or(old.entered, Null, old.price))
                       ELSE IF currency = "USD" THEN Exact(old.price)
                       ELSE UsdToToman(old.price, rate)
           type     == Or(patch.type, "omitted", old.type)
           new      == NormalizedPrice(type, carried, currency, rate)
<1>0. /\ patch.type \in TradeType \cup {"omitted"} /\ patch.price \in Nat \cup {Null, Omitted}
      /\ patch.currency \in Currency \cup {"omitted"} /\ rate \in Nat \ {0}
      /\ old.type \in TradeType \cup {"none"} /\ old.price \in Digits /\ old.entered \in Digits
      /\ old.rate \in (Nat \ {0}) \cup {Null} /\ old.currency \in Currency
  BY EntryAssumption DEF Trade
<1>1. currency \in Currency /\ type \in TradeType \cup {"none"}
  BY <1>0 DEF Or
<1>2. price \in Digits
  BY <1>0 DEF Or, Digits
<1>3. carried = IF restated THEN UsdToToman(price, rate) ELSE Exact(price)
  OBVIOUS
<1> HIDE DEF carried, currency, type, price
<1>4. /\ new \in Trade /\ Coherent(new) /\ new.currency = currency
      /\ new.price = Null <=> price = Null
      /\ currency = "USD" => new.price = price
      /\ currency # "USD" /\ ~restated => new.entered = price
      /\ restated => new.price = price
  <2>1. new = NormalizedPrice(type, carried, currency, rate)
    OBVIOUS
  <2>2. restated => currency # "USD"
    OBVIOUS
  <2> HIDE DEF new, restated
  <2>3. carried = Exact(price) \/ (currency # "USD" /\ carried = UsdToToman(price, rate))
    BY <1>3, <2>2
  <2>. QED BY <2>1, <2>2, <2>3, <1>1, <1>2, <1>3, PricesAreWhole
<1> HIDE DEF new
<1>5. old.currency # "USD" => (old.entered = Null <=> old.price = Null)
  <2> SUFFICES ASSUME old.currency # "USD" PROVE old.entered = Null <=> old.price = Null
    OBVIOUS
  <2>1. old.rate \in Nat \ {0}
    BY <1>0 DEF Coherent
  <2>2. /\ Exact(old.entered) \in Digits /\ (Exact(old.entered) = Null <=> old.entered = Null)
        /\ UsdToToman(old.price, old.rate) \in Digits
        /\ (UsdToToman(old.price, old.rate) = Null <=> old.price = Null)
    BY <1>0, <2>1, ConversionsAreTyped
  <2>3. TomanToUsd(Exact(old.entered), old.rate) = Null <=> old.entered = Null
    BY <2>1, <2>2, ConversionsAreTyped
  <2>4. Column(UsdToToman(old.price, old.rate), Unit) = Null <=> old.price = Null
    BY <2>2, ColumnIs, EntryAssumption
  <2>. QED BY <2>3, <2>4 DEF Coherent
<1>6. Or(patch.price, Omitted, old.price) # Null => new.price # Null
  BY <1>0, <1>4, <1>5 DEF price, Or, Coherent
<1>7. Carries(patch, old, new)
  <2> SUFFICES ASSUME patch.price = Omitted
               PROVE  IF old.currency = "TOMAN" /\ new.currency = "TOMAN" THEN new.entered = old.entered
                                                                          ELSE new.price = old.price
    BY DEF Carries
  <2>1. CASE old.currency = "USD" /\ currency = "USD"
    <3>1. old.entered = Null
      BY <2>1 DEF Coherent
    <3>. QED BY <2>1, <3>1, <1>4 DEF price, Or
  <2>2. CASE old.currency = "USD" /\ currency = "TOMAN"
    BY <2>2, <1>4 DEF price
  <2>3. CASE old.currency = "TOMAN" /\ currency = "USD"
    BY <2>3, <1>4 DEF price
  <2>4. CASE old.currency = "TOMAN" /\ currency = "TOMAN"
    BY <2>4, <1>4, <1>5 DEF price, Or
  <2>. QED BY <1>0, <1>1, <2>1, <2>2, <2>3, <2>4 DEF Currency
<1>. QED BY <1>4, <1>6, <1>7 DEF carried, currency, type, new

LEMMA NormalizeUpdateKeeps ==
  ASSUME EntryInv, NEW e \in Editor, NEW rate \in TomanRate, NormalizeUpdate(e, rate)
  PROVE  EntryInv'
<1> DEFINE patch   == edit[e].patch
           old     == edit[e].existing
           pricing == IF Monetary(e) THEN NormalizedPrice(NewType(e), Carried(e, rate), NewCurrency(e), rate)
                                     ELSE NoTrade
           x       == [edit[e] EXCEPT !.at = "priced", !.existing = NoTrade, !.pricing = pricing]
<1>1. edit[e].at = "read" /\ trade' = trade /\ muddled' = muddled
  BY DEF NormalizeUpdate
<1>2. /\ edit[e] \in Edit /\ edit[e] # NoEdit /\ EditSound(edit[e], trade)
      /\ patch \in Patch /\ old \in Trade /\ edit[e].raced \in BOOLEAN /\ Coherent(old)
      /\ ~edit[e].raced => old = trade
      /\ ~edit[e].raced /\ Buys(patch, trade) => Or(patch.price, Omitted, trade.price) # Null
  BY <1>1, EditsNow, NotAnEdit, EditFields DEF EditSound
<1>3. /\ pricing \in Trade
      /\ Sets(patch) => /\ Coherent(pricing) /\ Carries(patch, old, pricing)
                        /\ Or(patch.price, Omitted, old.price) # Null => pricing.price # Null
  <2>1. Sets(patch) <=> Monetary(e)
    BY DEF Sets, Monetary
  <2>2. CASE ~Monetary(e)
    BY <2>1, <2>2, NoTradeIs
  <2>3. CASE Monetary(e)
    BY <1>2, <2>1, <2>3, CarriedIsSound DEF NewType, Carried, NewCurrency
  <2>. QED BY <2>2, <2>3
<1> HIDE DEF pricing
<1>4. edit' = [edit EXCEPT ![e] = x]
  BY DEF NormalizeUpdate, pricing, EntryInv, EntryShape
<1>5. /\ x \in Edit /\ x.at = "priced" /\ x.patch = patch /\ x.pricing = pricing
      /\ x.raced = edit[e].raced
  <2>2. NoTrade \in Trade /\ pricing \in Trade /\ edit[e] \in Edit
    BY <1>2, <1>3, NoTradeIs
  <2>3. x \in Edit /\ x.at = "priced" /\ x.patch = edit[e].patch /\ x.pricing = pricing
    BY <2>2 DEF Edit
  <2>4. x.raced <=> edit[e].raced
    BY <2>2 DEF Edit
  <2>5. x.raced = edit[e].raced
    <3> HIDE DEF x
    <3>1. x.raced \in BOOLEAN /\ edit[e].raced \in BOOLEAN
      BY <2>2, <2>3 DEF Edit
    <3>. QED BY <2>4, <3>1
  <2>. QED BY <2>3, <2>5
<1> HIDE DEF x
<1>6. EditSound(x, trade)
  <2>1. ~x.raced /\ Buys(x.patch, trade) => Or(x.patch.price, Omitted, trade.price) # Null
    BY <1>2, <1>5
  <2>2. Sets(x.patch) => /\ Coherent(x.pricing) /\ (~x.raced => Carries(x.patch, trade, x.pricing))
                         /\ ~x.raced /\ Buys(x.patch, trade) => x.pricing.price # Null
    BY <1>2, <1>3, <1>5
  <2>. QED BY <1>5, <2>1, <2>2 DEF EditSound
<1>7. EntryShape' /\ EntriesSound'
  BY <1>1, <1>4, <1>5 DEF EntryInv, EntryShape, EntriesSound
<1>8. \A d \in Editor : edit'[d] = IF d = e THEN x ELSE edit[d]
  BY <1>4 DEF EntryInv, EntryShape
<1>9. \A d \in Editor : EditSound(edit'[d], trade')
  BY <1>1, <1>6, <1>8, EditsNow
<1>. QED BY <1>7, <1>9 DEF EntryInv

\* Edits that are raced, but for one that is done with.
LEMMA DoneIsSound ==
  ASSUME EntryInv, NEW e \in Editor, NEW record, edit' = [Race EXCEPT ![e] = NoEdit]
  PROVE  /\ edit' \in [Editor -> Edit \cup {NoEdit}]
         /\ \A d \in Editor : EditSound(edit'[d], record)
         /\ \A d \in Editor : d # e => edit'[d] = Race[d]
<1>1. Race \in [Editor -> Edit \cup {NoEdit}]
  BY RacedIsSound
<1>2. \A d \in Editor : edit'[d] = IF d = e THEN NoEdit ELSE Race[d]
  BY <1>1
<1>3. EditSound(NoEdit, record)
  BY DEF EditSound
<1>4. edit' \in [Editor -> Edit \cup {NoEdit}]
  BY <1>1
<1>. QED BY <1>2, <1>3, <1>4, RacedIsSound

\* What an edit writes: a record that is whole and, if no other edit met it, one
\* that keeps what was not sent and has a price if it needs one.
LEMMA UpdatedIsSound ==
  ASSUME EntryInv, NEW e \in Editor, edit[e].at = "priced", trade # NoTrade
  PROVE  /\ Updated(e) \in Trade /\ Coherent(Updated(e))
         /\ edit[e].patch.type = "omitted" => Updated(e).type = trade.type
         /\ ~edit[e].raced => /\ Carries(edit[e].patch, trade, Updated(e))
                              /\ Priced(Updated(e).type) => Updated(e).price # Null
<1> DEFINE patch == edit[e].patch
           type  == Or(patch.type, "omitted", trade.type)
<1>1. /\ edit[e] \in Edit /\ edit[e] # NoEdit /\ EditSound(edit[e], trade)
      /\ patch \in Patch /\ patch.type \in TradeType \cup {"omitted"} /\ edit[e].pricing \in Trade
      /\ edit[e].raced \in BOOLEAN /\ trade \in Trade /\ Coherent(trade)
  <2>1. trade \in Trade /\ Coherent(trade)
    BY DEF EntryInv, EntryShape, EntriesSound, Coherent
  <2>. QED BY <2>1, EditsNow, NotAnEdit, EditFields
<1>2. type \in TradeType \cup {"none"}
  BY <1>1 DEF Or, Trade
<1>3. patch.type = "omitted" => type = trade.type
  BY DEF Or
<1>4. ASSUME NEW record \in Trade
      PROVE  /\ [record EXCEPT !.type = type] \in Trade
             /\ [record EXCEPT !.type = type].type = type
             /\ [record EXCEPT !.type = type].price = record.price
             /\ [record EXCEPT !.type = type].currency = record.currency
             /\ [record EXCEPT !.type = type].entered = record.entered
             /\ [record EXCEPT !.type = type].rate = record.rate
  BY <1>2 DEF Trade
<1>5. Priced(type) <=> Buys(patch, trade)
  BY DEF Buys
<1>6. Sets(patch) <=> Monetary(e)
  BY DEF Sets, Monetary
<1>7. CASE Monetary(e)
  <2> DEFINE record == edit[e].pricing
  <2>1. Updated(e) = [record EXCEPT !.type = type]
    BY <1>7 DEF Updated
  <2>2. /\ Coherent(record) /\ (~edit[e].raced => Carries(patch, trade, record))
        /\ ~edit[e].raced /\ Buys(patch, trade) => record.price # Null
    BY <1>1, <1>6, <1>7 DEF EditSound
  <2> HIDE DEF record, type, patch
  <2>3. Coherent(Updated(e))
    BY <1>1, <1>4, <2>1, <2>2 DEF Coherent, record
  <2>4. Carries(patch, trade, record) => Carries(patch, trade, Updated(e))
    BY <1>1, <1>4, <2>1 DEF Carries, record
  <2>5. Updated(e) \in Trade /\ Updated(e).type = type /\ Updated(e).price = record.price
    BY <1>1, <1>4, <2>1 DEF record
  <2>. QED BY <1>3, <1>5, <2>2, <2>3, <2>4, <2>5 DEF patch
<1>8. CASE ~Monetary(e)
  <2>1. Updated(e) = [trade EXCEPT !.type = type]
    BY <1>8 DEF Updated
  <2>2. patch.price = Omitted
    BY <1>8 DEF Monetary
  <2>3. ~edit[e].raced /\ Buys(patch, trade) => trade.price # Null
    BY <1>1, <2>2 DEF EditSound, Or
  <2> HIDE DEF type, patch
  <2>4. Coherent(Updated(e))
    BY <1>1, <1>4, <2>1 DEF Coherent
  <2>5. Carries(patch, trade, Updated(e))
    BY <1>1, <1>4, <2>1 DEF Carries
  <2>6. Updated(e) \in Trade /\ Updated(e).type = type /\ Updated(e).price = trade.price
    BY <1>1, <1>4, <2>1
  <2>. QED BY <1>3, <1>5, <2>3, <2>4, <2>5, <2>6 DEF patch
<1>. QED BY <1>7, <1>8

LEMMA UpdateTradeKeeps ==
  ASSUME EntryInv, NEW e \in Editor, UpdateTrade(e)
  PROVE  EntryInv'
<1>1. edit[e].at = "priced" /\ edit' = [Race EXCEPT ![e] = NoEdit]
  BY DEF UpdateTrade
<1>2. edit' \in [Editor -> Edit \cup {NoEdit}] /\ \A d \in Editor : EditSound(edit'[d], trade')
  BY <1>1, DoneIsSound
<1>3. CASE trade = NoTrade
  <2>1. trade' = trade /\ muddled' = muddled
    BY <1>3 DEF UpdateTrade
  <2>. QED BY <1>2, <2>1 DEF EntryInv, EntryShape, EntriesSound
<1>4. CASE trade # NoTrade
  <2>1. trade' = Updated(e) /\ muddled' = edit[e].raced /\ Storable(Updated(e))
    BY <1>4 DEF UpdateTrade
  <2>2. /\ trade' \in Trade /\ Coherent(trade') /\ muddled' \in BOOLEAN
        /\ ~muddled' /\ Priced(trade'.type) => trade'.price # Null
    BY <1>1, <1>4, <2>1, UpdatedIsSound, EditsNow, EditFields, NotAnEdit
  <2>3. trade'.price \in {Null} \cup 1..MaxPrice
    <3>1. trade'.price \in Digits /\ trade'.price # 0 /\ trade'.price <= MaxPrice
      BY <2>1, <2>2 DEF Storable, Trade
    <3>. QED BY <3>1, EntryAssumption DEF Digits, Null
  <2>4. EntriesSound'
    BY <2>2 DEF EntriesSound, Coherent
  <2>. QED BY <1>2, <2>2, <2>3, <2>4 DEF EntryInv, EntryShape
<1>. QED BY <1>3, <1>4

LEMMA GiveUpKeeps ==
  ASSUME EntryInv, NEW e \in Editor, GiveUp(e)
  PROVE  EntryInv'
<1>1. edit' = [edit EXCEPT ![e] = NoEdit] /\ trade' = trade /\ muddled' = muddled
  BY DEF GiveUp
<1>2. EntryShape' /\ EntriesSound'
  BY <1>1 DEF EntryInv, EntryShape, EntriesSound
<1>3. \A d \in Editor : edit'[d] = IF d = e THEN NoEdit ELSE edit[d]
  BY <1>1 DEF EntryInv, EntryShape
<1>4. \A d \in Editor : EditSound(edit'[d], trade')
  BY <1>1, <1>3, EditsNow DEF EditSound
<1>. QED BY <1>2, <1>4 DEF EntryInv

LEMMA DeleteTradeKeeps ==
  ASSUME EntryInv, DeleteTrade
  PROVE  EntryInv'
<1>1. trade' = NoTrade /\ edit' = Race /\ muddled' = FALSE
  BY DEF DeleteTrade
<1>2. EntryShape'
  BY <1>1, RacedIsSound, NoTradeIs DEF EntryShape
<1>3. EntriesSound'
  BY <1>1, NoTradeIs DEF EntriesSound, Coherent
<1>4. \A d \in Editor : EditSound(edit'[d], trade')
  BY <1>1, RacedIsSound
<1>. QED BY <1>2, <1>3, <1>4 DEF EntryInv

LEMMA EntryNextKeeps == EntryInv /\ [EntryNext]_entryVars => EntryInv'
<1> SUFFICES ASSUME EntryInv, [EntryNext]_entryVars PROVE EntryInv'
  OBVIOUS
<1>1. CASE UNCHANGED entryVars
  BY <1>1 DEF entryVars, EntryInv, EntryShape, EntriesSound
<1>2. ASSUME NEW type \in TradeType, NEW price \in SentPrice \cup {Null, Omitted},
             NEW currency \in Currency, NEW rate \in TomanRate, Create(type, price, currency, rate)
      PROVE  EntryInv'
  BY <1>2, CreateKeeps
<1>3. ASSUME NEW e \in Editor, NEW patch \in Patch, ReadExisting(e, patch) PROVE EntryInv'
  BY <1>3, ReadExistingKeeps
<1>4. ASSUME NEW e \in Editor, NEW rate \in TomanRate, NormalizeUpdate(e, rate) PROVE EntryInv'
  BY <1>4, NormalizeUpdateKeeps
<1>5. ASSUME NEW e \in Editor, UpdateTrade(e) PROVE EntryInv'
  BY <1>5, UpdateTradeKeeps
<1>6. ASSUME NEW e \in Editor, GiveUp(e) PROVE EntryInv'
  BY <1>6, GiveUpKeeps
<1>7. ASSUME DeleteTrade PROVE EntryInv'
  BY <1>7, DeleteTradeKeeps
<1>. QED BY <1>1, <1>2, <1>3, <1>4, <1>5, <1>6, <1>7, Zenon DEF EntryNext

\* The step that ends an edit which no other has met.
LEMMA EditKeepsTheRest ==
  ASSUME EntryInv, EntryNext, NEW e \in Editor,
         edit[e].at = "priced", trade' # trade, ~edit[e].raced, trade' # NoTrade, edit'[e] = NoEdit
  PROVE  /\ edit[e].patch.type = "omitted" => trade'.type = trade.type
         /\ Carries(edit[e].patch, trade, trade')
<1>0. edit[e] # NoEdit /\ Race[e] # NoEdit
  BY NotAnEdit, RacedIsSound
<1>1. CASE \E type \in TradeType, price \in SentPrice \cup {Null, Omitted}, currency \in Currency,
              rate \in TomanRate : Create(type, price, currency, rate)
  BY <1>0, <1>1 DEF Create
<1>2. CASE \E d \in Editor : \/ \E patch \in Patch : ReadExisting(d, patch)
                             \/ \E rate \in TomanRate : NormalizeUpdate(d, rate)
                             \/ GiveUp(d)
  BY <1>2 DEF ReadExisting, NormalizeUpdate, GiveUp
<1>3. CASE DeleteTrade
  BY <1>3 DEF DeleteTrade
<1>4. ASSUME NEW d \in Editor, UpdateTrade(d)
      PROVE  /\ edit[e].patch.type = "omitted" => trade'.type = trade.type
             /\ Carries(edit[e].patch, trade, trade')
  <2>1. d = e
    <3>1. edit' = [Race EXCEPT ![d] = NoEdit]
      BY <1>4 DEF UpdateTrade
    <3>. QED BY <3>1, <1>0, DoneIsSound
  <2>2. trade # NoTrade /\ trade' = Updated(e)
    BY <1>4, <2>1 DEF UpdateTrade
  <2>. QED BY <2>2, UpdatedIsSound
<1>. QED BY <1>1, <1>2, <1>3, <1>4 DEF EntryNext

\* A stored price is missing or positive, and an edit is read before it is priced
\* (TransactionPriceNormalizerService).
THEOREM EntriesTyped == EntrySpec => []EntryTypeOK
<1>1. EntrySpec => []EntryInv
  BY EntryStarts, EntryNextKeeps, PTL DEF EntrySpec
<1>2. EntryInv => EntryTypeOK
  <2> SUFFICES ASSUME EntryInv PROVE EntryTypeOK
    OBVIOUS
  <2>1. \A e \in Editor : edit[e].at \in {"idle", "read", "priced"}
    BY EditsNow, EditFields
  <2>2. trade.type \in TradeType \cup {"none"}
    BY DEF EntryInv, EntryShape, Trade
  <2>. QED BY <2>1, <2>2 DEF EntryInv, EntryShape, EntryTypeOK
<1>. QED BY <1>1, <1>2, PTL

\* The price columns of a transaction tell one story whatever edits meet on the
\* record, and an edit that met no other keeps what it was not about
\* (TransactionPriceNormalizerService, UpdatePortfolioTransactionUseCase).
THEOREM EntriesStaySound == EntrySpec => EntrySound
<1>1. EntrySpec => []EntryInv
  BY EntryStarts, EntryNextKeeps, PTL DEF EntrySpec
<1> DEFINE Rest == \A e \in Editor :
       edit[e].at = "priced" /\ trade' # trade /\ ~edit[e].raced /\ trade' # NoTrade
         /\ edit'[e] = NoEdit =>
           /\ edit[e].patch.type = "omitted" => trade'.type = trade.type
           /\ edit[e].patch.price = Omitted =>
                IF trade.currency = "TOMAN" /\ trade'.currency = "TOMAN"
                  THEN trade'.entered = trade.entered
                  ELSE trade'.price = trade.price
<1>2. EntryInv /\ [EntryNext]_entryVars => [Rest]_entryVars
  BY EditKeepsTheRest DEF Carries
<1>3. EntryInv => EntriesSound
  BY DEF EntryInv
<1>. QED BY <1>1, <1>2, <1>3, PTL DEF EntrySpec, EntrySound, OnlyWhatWasSent
-------------------------------------------------------------------------------
(***************************************************************************)
(* Positions: a viewer's reads are current for what has not changed since, *)
(* so the answer is; the total is a sum over the items that have a price.  *)
(***************************************************************************)

TradeRow  == [kind : {"in", "out"}, amount : Amount]
HeldRow == [id : Nat, amount : Nat]
Quoted == [price : MarketPrice \cup {Unpriced}, at : 0..MaxPriceSync]
OpeningHeld == Amount \cup {Unopened}

PositionCall ==
  [kind : {"positions"}, portfolio : Portfolio, left : SUBSET Tables,
   entries : [HeldAsset -> Seq(TradeRow)], opening : [HeldAsset -> OpeningHeld],
   holding : [HeldAsset -> HeldRow], quote : [HeldAsset -> [price : MarketPrice \cup {Unpriced}, at : Nat]],
   fetched : SUBSET HeldAsset]

ChangeCall ==
       [kind : {"create"}, at : Place, amount : Amount, step : {"find", "insert"}]
  \cup [kind : {"update"}, at : Place, id : Nat, amount : Amount, step : {"write", "reread"}]
  \cup [kind : {"rename"}, portfolio : Portfolio, step : {"write", "reread"}]

HoldingTyped ==
  /\ holding \in [Place -> HeldRow]
  /\ entries \in [Place -> Seq(TradeRow)]
  /\ balance \in [Place -> OpeningHeld]
  /\ quote \in [HeldAsset -> Quoted]
  /\ call \in [Investor \cup Viewer -> {NoCall} \cup ChangeCall \cup PositionCall]
  /\ settled \in [Viewer -> SUBSET HeldAsset]

\* What a request has read of an asset that has not changed since is what the tables say.
ReadIsCurrent(c) ==
  LET r == call[c] IN
  /\ \A a \in settled[c] :
       /\ "transaction" \notin r.left => r.entries[a] = entries[<<r.portfolio, a>>]
       /\ "opening" \notin r.left => r.opening[a] = balance[<<r.portfolio, a>>]
       /\ "holding" \notin r.left => r.holding[a] = holding[<<r.portfolio, a>>]
       /\ "holding" \notin r.left => r.quote[a] = quote[a]
  /\ \A a \in HeldAsset : r.quote[a].at <= quote[a].at

HoldingInv == HoldingTyped /\ \A c \in Viewer : Asking(c) => ReadIsCurrent(c)

\* The lesser of two natural numbers.
LEMMA MinOfTwo ==
  ASSUME NEW a \in Nat, NEW b \in Nat
  PROVE  Min({a, b}) \in Nat /\ Min({a, b}) <= a
<1>1. \E x \in {a, b} : \A y \in {a, b} : x =< y
  OBVIOUS
<1>. QED BY <1>1 DEF Min

\* The least of some natural numbers is one of them.
LEMMA MinOfNaturals ==
  ASSUME NEW T, T \subseteq Nat, T # {}
  PROVE  Min(T) \in T /\ \A y \in T : Min(T) <= y
<1>1. \E x \in T : \A y \in T : x =< y
  BY LeastNatural
<1>. QED BY <1>1 DEF Min

\* So is the greatest, if they have a bound.
LEMMA MaxOfNaturals ==
  ASSUME NEW T, T \subseteq Nat, T # {}, NEW n \in Nat, \A x \in T : x <= n
  PROVE  Max(T) \in T /\ \A y \in T : y <= Max(T)
<1> DEFINE U == {n - x : x \in T}
<1>1. U \subseteq Nat /\ U # {}
  <2>1. \A x \in T : n - x \in Nat
    OBVIOUS
  <2>. QED BY <2>1
<1>2. PICK u \in U : \A v \in U : u <= v
  BY <1>1, LeastNatural
<1>3. PICK x \in T : u = n - x
  BY <1>2
<1>4. \A y \in T : x >= y
  BY <1>2, <1>3
<1>. QED BY <1>3, <1>4 DEF Max

\* The quantity that a ledger leaves is never negative.
LEMMA QuantityIsNatural ==
  ASSUME NEW trades \in Seq(TradeRow), NEW opening \in OpeningHeld
  PROVE  Quantity(trades, opening) \in Nat
<1>1. PICK n \in Nat : n = Len(trades)
  OBVIOUS
<1>2. PICK T : T = 1..n
  OBVIOUS
<1>3. PICK base \in Nat : base = IF opening = Unopened THEN 0 ELSE opening
  BY HoldingsAssumption DEF OpeningHeld
<1>4. PICK c : c = [s \in SUBSET T |-> Max(s)]
  OBVIOUS
<1>5. PICK F : F = [p \in (SUBSET T) \X Nat |->
                      IF p[1] = {} THEN 0 ELSE QuantityAfter(p[2], trades[c[p[1]]])]
  OBVIOUS
<1>6. ASSUME NEW s \in SUBSET T, s # {} PROVE Max(s) \in s
  <2>1. s \subseteq Nat /\ \A x \in s : x <= n
    BY <1>2
  <2>. QED BY <1>6, <2>1, MaxOfNaturals
<1>7. \A v \in Nat, i \in T : QuantityAfter(v, trades[i]) \in Nat
  <2> SUFFICES ASSUME NEW v \in Nat, NEW i \in T PROVE QuantityAfter(v, trades[i]) \in Nat
    OBVIOUS
  <2>1. PICK t \in TradeRow : t = trades[i]
    BY <1>1, <1>2
  <2>2. t.amount \in Nat
    BY HoldingsAssumption DEF TradeRow
  <2>3. v + t.amount \in Nat /\ v - Min({v, t.amount}) \in Nat
    BY <2>2, MinOfTwo
  <2>. QED BY <2>1, <2>3 DEF QuantityAfter
<1>8. Foldable(T, Nat, base, c, F)
  <2>1. ASSUME NEW p \in (SUBSET T) \X Nat
        PROVE  (IF p[1] = {} THEN 0 ELSE QuantityAfter(p[2], trades[c[p[1]]])) \in Nat
    <3>1. p[1] \in SUBSET T /\ p[2] \in Nat
      OBVIOUS
    <3>2. CASE p[1] # {}
      BY <1>4, <1>6, <1>7, <3>1, <3>2
    <3>. QED BY <3>2
  <2>2. F \in [(SUBSET T) \X Nat -> Nat]
    BY <1>5, <2>1
  <2>. QED BY <1>4, <1>6, <2>2 DEF Foldable
<1>9. IsFiniteSet(T)
  BY <1>2, FS_Interval
<1>10. PICK g : FoldedBy(T, Nat, base, c, F, g)
  BY <1>8, <1>9, FoldExists
<1> DEFINE Eq(i) == i = [s \in SUBSET T |-> IF s = {} THEN base
                           ELSE QuantityAfter(i[s \ {Max(s)}], trades[Max(s)])]
<1>11. DOMAIN trades = T
  BY <1>1, <1>2
<1>12. Quantity(trades, opening) = (CHOOSE i : Eq(i))[T]
  BY <1>3, <1>11 DEF Quantity, FoldLeft, MapThenFoldSet
<1>13. ASSUME NEW s \in SUBSET T, s # {}
       PROVE  g[s] = QuantityAfter(g[s \ {Max(s)}], trades[Max(s)])
  <2>1. g[s \ {Max(s)}] \in Nat
    BY <1>10 DEF FoldedBy
  <2>2. F[<<s, g[s \ {Max(s)}]>>] = QuantityAfter(g[s \ {Max(s)}], trades[c[s]])
    BY <1>5, <1>13, <2>1
  <2>. QED BY <1>4, <1>10, <1>13, <2>2 DEF FoldedBy
<1>14. Eq(g)
  BY <1>10, <1>13 DEF FoldedBy
<1>15. PICK i : Eq(i) /\ Quantity(trades, opening) = i[T]
  BY <1>12, <1>14
<1>16. Alike(T, g, i)
  <2>1. g[{}] = i[{}]
    BY <1>14, <1>15
  <2>2. ASSUME NEW s \in SUBSET T, s # {}
        PROVE  \E x \in s : g[s \ {x}] = i[s \ {x}] => g[s] = i[s]
    <3>1. i[s] = QuantityAfter(i[s \ {Max(s)}], trades[Max(s)])
      BY <1>15, <2>2
    <3>. QED BY <1>6, <1>13, <2>2, <3>1
  <2>3. \A s \in SUBSET T : s # {} => \E x \in s : g[s \ {x}] = i[s \ {x}] => g[s] = i[s]
    BY <2>2
  <2>. QED BY <2>1, <2>3 DEF Alike
<1>17. g[T] = i[T]
  BY <1>9, <1>16, AgreeOnSubsets
<1>. QED BY <1>10, <1>15, <1>17 DEF FoldedBy

\* What is answered about an asset that did not change is what the tables say.
LEMMA AnswerIsCurrent ==
  ASSUME HoldingInv, NEW c \in Viewer, AnswerPositions(c), NEW a \in settled[c]
  PROVE  LET r == call[c] IN
         /\ r \in PositionCall /\ a \in HeldAsset
         /\ HeldNow(r.portfolio, a) \in Nat
         /\ r.quote[a] = quote[a]
         /\ a \in Derived(r) => Quantity(r.entries[a], r.opening[a]) = HeldNow(r.portfolio, a)
         /\ a \in ByHand(r) => r.holding[a].amount = HeldNow(r.portfolio, a)
         /\ HeldNow(r.portfolio, a) > 0 => a \in Derived(r) \cup ByHand(r)
<1> DEFINE r == call[c]
           here == <<r.portfolio, a>>
<1>1. r \in PositionCall /\ r.left = {} /\ a \in HeldAsset
  <2>1. r.kind = "positions" /\ r.left = {} /\ r \in {NoCall} \cup ChangeCall \cup PositionCall
    BY DEF AnswerPositions, Asking, HoldingInv, HoldingTyped
  <2>. QED BY <2>1 DEF NoCall, ChangeCall, HoldingInv, HoldingTyped
<1>2. here \in Place
  BY <1>1 DEF Place, PositionCall
<1>3. ReadIsCurrent(c)
  BY DEF HoldingInv, AnswerPositions
<1>4. /\ r.entries[a] = entries[here] /\ r.opening[a] = balance[here]
      /\ r.holding[a] = holding[here] /\ r.quote[a] = quote[a]
  BY <1>1, <1>3 DEF ReadIsCurrent
<1>5. entries[here] \in Seq(TradeRow) /\ balance[here] \in OpeningHeld /\ holding[here] \in HeldRow
  BY <1>2 DEF HoldingInv, HoldingTyped
<1>6. Quantity(entries[here], balance[here]) \in Nat /\ holding[here].amount \in Nat
  BY <1>5, QuantityIsNatural DEF HeldRow
<1>7. a \in Derived(r) <=> ~(entries[here] = <<>> /\ balance[here] = Unopened)
  BY <1>1, <1>4 DEF Derived
<1>8. a \in ByHand(r) <=> a \notin Derived(r) /\ holding[here] # NoHolding
  BY <1>1, <1>4 DEF ByHand
<1>9. HeldNow(r.portfolio, a) = IF a \in Derived(r) THEN Quantity(entries[here], balance[here])
                                ELSE holding[here].amount
  BY <1>7 DEF HeldNow
<1>10. NoHolding.amount = 0
  BY DEF NoHolding
<1>. QED BY <1>1, <1>4, <1>6, <1>8, <1>9, <1>10 DEF ByHand

\* The items of a request, one by one.
LEMMA ItemsOf ==
  ASSUME NEW r, NEW i
  PROVE  i \in Items(r) <=>
           \E a \in HeldAsset :
             /\ i.amount # 0
             /\ \/ a \in Derived(r) /\ i = Item(a, Quantity(r.entries[a], r.opening[a]), r.quote[a])
                \/ a \in ByHand(r) /\ i = Item(a, r.holding[a].amount, r.quote[a])
  BY DEF Items, Derived, ByHand

\* An asset has at most one item, and one that has not changed has what the tables say.
LEMMA ItemsAreCurrent ==
  ASSUME HoldingInv, NEW c \in Viewer, AnswerPositions(c)
  PROVE  LET r == call[c]
             Of(a) == {i \in Items(r) : i.asset = a}
             unmoved == {a \in settled[c] : HeldNow(r.portfolio, a) > 0}
         IN /\ \A i, j \in Items(r) : i.asset = j.asset => i = j
            /\ \A a \in unmoved : Of(a) = {Item(a, HeldNow(r.portfolio, a), quote[a])}
            /\ \A a \in settled[c] \ unmoved : Of(a) = {}
<1> DEFINE r == call[c]
           Of(a) == {i \in Items(r) : i.asset = a}
           unmoved == {a \in settled[c] : HeldNow(r.portfolio, a) > 0}
<1>1. \A a, amount, q : Item(a, amount, q).asset = a /\ Item(a, amount, q).amount = amount
  BY DEF Item
<1>2. \A a : ~(a \in Derived(r) /\ a \in ByHand(r))
  BY DEF ByHand
<1>3. ASSUME NEW i \in Items(r), NEW j \in Items(r), i.asset = j.asset PROVE i = j
  <2>1. PICK a \in HeldAsset :
          \/ a \in Derived(r) /\ i = Item(a, Quantity(r.entries[a], r.opening[a]), r.quote[a])
          \/ a \in ByHand(r) /\ i = Item(a, r.holding[a].amount, r.quote[a])
    BY ItemsOf
  <2>2. PICK b \in HeldAsset :
          \/ b \in Derived(r) /\ j = Item(b, Quantity(r.entries[b], r.opening[b]), r.quote[b])
          \/ b \in ByHand(r) /\ j = Item(b, r.holding[b].amount, r.quote[b])
    BY ItemsOf
  <2>3. a = b
    BY <1>1, <1>3, <2>1, <2>2
  <2>. QED BY <1>2, <2>1, <2>2, <2>3
<1>4. ASSUME NEW a \in settled[c], NEW i \in Of(a)
      PROVE  i = Item(a, HeldNow(r.portfolio, a), quote[a]) /\ HeldNow(r.portfolio, a) > 0
  <2>1. /\ HeldNow(r.portfolio, a) \in Nat /\ r.quote[a] = quote[a]
        /\ a \in Derived(r) => Quantity(r.entries[a], r.opening[a]) = HeldNow(r.portfolio, a)
        /\ a \in ByHand(r) => r.holding[a].amount = HeldNow(r.portfolio, a)
    BY AnswerIsCurrent
  <2>2. PICK b \in HeldAsset :
          /\ i.amount # 0
          /\ \/ b \in Derived(r) /\ i = Item(b, Quantity(r.entries[b], r.opening[b]), r.quote[b])
             \/ b \in ByHand(r) /\ i = Item(b, r.holding[b].amount, r.quote[b])
    BY ItemsOf
  <2>3. i.asset = a
    OBVIOUS
  <2>4. b = a
    BY <1>1, <2>2, <2>3
  <2>5. i = Item(a, HeldNow(r.portfolio, a), quote[a])
    BY <2>1, <2>2, <2>4
  <2>6. HeldNow(r.portfolio, a) # 0
    BY <1>1, <2>2, <2>5
  <2>. QED BY <2>1, <2>5, <2>6
<1>5. ASSUME NEW a \in unmoved PROVE Item(a, HeldNow(r.portfolio, a), quote[a]) \in Of(a)
  <2>1. /\ a \in HeldAsset /\ HeldNow(r.portfolio, a) \in Nat /\ r.quote[a] = quote[a]
        /\ a \in Derived(r) => Quantity(r.entries[a], r.opening[a]) = HeldNow(r.portfolio, a)
        /\ a \in ByHand(r) => r.holding[a].amount = HeldNow(r.portfolio, a)
        /\ a \in Derived(r) \cup ByHand(r)
    BY AnswerIsCurrent
  <2>2. HeldNow(r.portfolio, a) # 0
    BY <2>1
  <2>3. Item(a, HeldNow(r.portfolio, a), quote[a]) \in Items(r)
    BY <1>1, <2>1, <2>2, ItemsOf
  <2>. QED BY <1>1, <2>3
<1>6. \A a \in unmoved : Of(a) = {Item(a, HeldNow(r.portfolio, a), quote[a])}
  BY <1>4, <1>5
<1>7. \A a \in settled[c] \ unmoved : Of(a) = {}
  BY <1>4
<1>. QED BY <1>3, <1>6, <1>7

\* The items that have a price are finitely many, with natural numbers.
LEMMA ValuedIsFinite ==
  ASSUME HoldingInv, NEW c \in Viewer, AnswerPositions(c)
  PROVE  LET r == call[c] IN
         /\ IsFiniteSet(Valued(r))
         /\ \A i \in Valued(r) :
              /\ i.amount \in Nat /\ i.price \in Nat /\ i.at \in Nat
              /\ i.asset \in HeldAsset /\ i.at = r.quote[i.asset].at
<1> DEFINE r == call[c]
<1>1. r \in PositionCall
  <2>1. r.kind = "positions" /\ r \in {NoCall} \cup ChangeCall \cup PositionCall
    BY DEF AnswerPositions, Asking, HoldingInv, HoldingTyped
  <2>. QED BY <2>1 DEF NoCall, ChangeCall
<1>2. ASSUME NEW i \in Valued(r)
      PROVE  /\ i.amount \in Nat /\ i.price \in Nat /\ i.at \in Nat
             /\ i.asset \in HeldAsset /\ i.at = r.quote[i.asset].at
  <2>1. i \in Items(r) /\ i.price # Unpriced
    BY DEF Valued
  <2>2. PICK a \in HeldAsset :
          \/ i = Item(a, Quantity(r.entries[a], r.opening[a]), r.quote[a])
          \/ i = Item(a, r.holding[a].amount, r.quote[a])
    BY <2>1, ItemsOf
  <2>3. /\ r.entries[a] \in Seq(TradeRow) /\ r.opening[a] \in OpeningHeld
        /\ r.holding[a].amount \in Nat
        /\ r.quote[a].price \in MarketPrice \cup {Unpriced} /\ r.quote[a].at \in Nat
    BY <1>1 DEF PositionCall, HeldRow
  <2>4. Quantity(r.entries[a], r.opening[a]) \in Nat
    BY <2>3, QuantityIsNatural
  <2>5. /\ i.asset = a /\ i.price = r.quote[a].price /\ i.at = r.quote[a].at
        /\ i.amount = Quantity(r.entries[a], r.opening[a]) \/ i.amount = r.holding[a].amount
    BY <2>2 DEF Item
  <2>6. i.price \in Nat
    BY <2>1, <2>3, <2>5, HoldingsAssumption
  <2>. QED BY <2>3, <2>4, <2>5, <2>6
<1>3. \A i, j \in Items(r) : i.asset = j.asset => i = j
  BY ItemsAreCurrent
<1>4. [i \in Valued(r) |-> i.asset] \in Injection(Valued(r), HeldAsset)
  BY <1>2, <1>3 DEF Injection, IsInjective, Valued
<1>5. IsFiniteSet(Valued(r))
  BY <1>4, HoldingsAssumption, FS_Injection
<1>. QED BY <1>2, <1>5

\* The total, the age and the status of a valuation.
LEMMA ValuationIsCurrent ==
  ASSUME HoldingInv, NEW c \in Viewer, AnswerPositions(c)
  PROVE  LET r == call[c]
             unmoved == {a \in settled[c] : HeldNow(r.portfolio, a) > 0}
         IN /\ \A i \in Valued(r) : PricedAt(r) <= quote[i.asset].at
            /\ TotalValue(r) >= SumFunction([a \in {b \in unmoved : quote[b].price # Unpriced}
                                              |-> HeldNow(r.portfolio, a) * quote[a].price])
            /\ ValuationStatus(r) = "COMPLETE" => \A a \in unmoved : quote[a].price # Unpriced
<1> DEFINE r == call[c]
           unmoved == {a \in settled[c] : HeldNow(r.portfolio, a) > 0}
           valued == {b \in unmoved : quote[b].price # Unpriced}
           Here(a) == Item(a, HeldNow(r.portfolio, a), quote[a])
<1>1. IsFiniteSet(Valued(r)) /\ \A i \in Valued(r) :
        /\ i.amount \in Nat /\ i.price \in Nat /\ i.at \in Nat
        /\ i.asset \in HeldAsset /\ i.at = r.quote[i.asset].at
  BY ValuedIsFinite
<1>2. \A a \in unmoved : Here(a) \in Items(r)
  BY ItemsAreCurrent
<1>3. \A a \in unmoved : a \in HeldAsset /\ HeldNow(r.portfolio, a) \in Nat
  BY AnswerIsCurrent
<1>4. ASSUME NEW i \in Valued(r) PROVE PricedAt(r) <= quote[i.asset].at
  <2>1. {j.at : j \in Valued(r)} \subseteq Nat /\ i.at \in {j.at : j \in Valued(r)}
    BY <1>1
  <2>2. PricedAt(r) \in Nat /\ PricedAt(r) <= i.at
    BY <2>1, MinOfNaturals DEF PricedAt
  <2>3. r.quote[i.asset].at <= quote[i.asset].at
    BY <1>1 DEF HoldingInv, ReadIsCurrent, AnswerPositions
  <2>4. quote[i.asset].at \in Nat /\ i.at \in Nat /\ i.at = r.quote[i.asset].at
    BY <1>1, HoldingsAssumption DEF HoldingInv, HoldingTyped, Quoted
  <2>. QED BY <2>2, <2>3, <2>4
<1>5. TotalValue(r) >= SumFunction([a \in valued |-> HeldNow(r.portfolio, a) * quote[a].price])
  <2>1. PICK S : S = Valued(r)
    OBVIOUS
  <2>2. PICK T : T = valued
    OBVIOUS
  <2>3. PICK f : f = [i \in S |-> i.amount * i.price]
    OBVIOUS
  <2>4. PICK g : g = [a \in T |-> HeldNow(r.portfolio, a) * quote[a].price]
    OBVIOUS
  <2>5. PICK m : m = [a \in T |-> Here(a)]
    OBVIOUS
  <2>6. \A a \in T : m[a] \in S /\ m[a].asset = a /\ m[a].amount = HeldNow(r.portfolio, a)
                     /\ m[a].price = quote[a].price
    BY <1>2, <2>1, <2>2, <2>5 DEF Item, Valued
  <2>7. IsFiniteSet(S) /\ IsFiniteSet(T)
    <3>1. T \subseteq HeldAsset
      BY <1>3, <2>2
    <3>. QED BY <1>1, <2>1, <3>1, HoldingsAssumption, FS_Subset
  <2>8. \A i \in S : f[i] \in Nat
    <3>1. \A x, y \in Nat : x * y \in Nat
      OBVIOUS
    <3>. QED BY <1>1, <2>1, <2>3, <3>1
  <2>9. \A a \in T : g[a] = f[m[a]]
    BY <2>3, <2>4, <2>6
  <2>10. \A a \in T : g[a] \in Nat
    BY <2>6, <2>8, <2>9
  <2>11. m \in [T -> S] /\ \A a, b \in T : m[a] = m[b] => a = b
    BY <2>5, <2>6
  <2>12. SumFunctionOnSet(g, T) <= SumFunctionOnSet(f, S)
    BY <2>7, <2>8, <2>9, <2>10, <2>11, SumCovers
  <2>13. SumFunctionOnSet(g, T) \in Nat /\ SumFunctionOnSet(f, S) \in Nat
    BY <2>7, <2>8, <2>10, SumStep
  <2>14. TotalValue(r) = SumFunctionOnSet(f, S)
    BY <2>1, <2>3 DEF TotalValue, SumFunction
  <2>15. SumFunction([a \in valued |-> HeldNow(r.portfolio, a) * quote[a].price])
           = SumFunctionOnSet(g, T)
    BY <2>2, <2>4 DEF SumFunction
  <2>. QED BY <2>12, <2>13, <2>14, <2>15
<1>6. ASSUME ValuationStatus(r) = "COMPLETE", NEW a \in unmoved PROVE quote[a].price # Unpriced
  <2>1. Valued(r) = Items(r)
    BY <1>6 DEF ValuationStatus
  <2>2. Here(a).price # Unpriced
    BY <1>2, <2>1 DEF Valued
  <2>. QED BY <2>2 DEF Item
<1>. QED BY <1>4, <1>5, <1>6

\* What a viewer has read stays right while only what has changed is taken off its list.
LEMMA KeepsReads ==
  ASSUME HoldingInv, HoldingTyped',
         \A d \in Viewer : Asking(d)' => call'[d] = call[d],
         \A d \in Viewer : settled'[d] \subseteq settled[d],
         \A d \in Viewer : \A a \in settled'[d] :
           /\ quote'[a] = quote[a]
           /\ \A p \in Portfolio : /\ entries'[<<p, a>>] = entries[<<p, a>>]
                                   /\ balance'[<<p, a>>] = balance[<<p, a>>]
                                   /\ holding'[<<p, a>>] = holding[<<p, a>>],
         \A a \in HeldAsset : quote[a].at <= quote'[a].at
  PROVE  HoldingInv'
<1> SUFFICES ASSUME NEW d \in Viewer, Asking(d)' PROVE ReadIsCurrent(d)'
  BY DEF HoldingInv
<1>1. call'[d] = call[d] /\ Asking(d)
  BY DEF Asking
<1>2. call[d] \in PositionCall
  BY <1>1 DEF HoldingInv, HoldingTyped, Asking, NoCall, ChangeCall
<1>3. call[d].portfolio \in Portfolio /\ \A a \in HeldAsset : call[d].quote[a].at \in Nat
  BY <1>2 DEF PositionCall
<1>4. ReadIsCurrent(d)
  BY <1>1 DEF HoldingInv
<1>5. \A a \in HeldAsset : quote[a].at \in Nat /\ quote'[a].at \in Nat
  BY HoldingsAssumption DEF HoldingInv, HoldingTyped, Quoted
<1>. QED BY <1>1, <1>3, <1>4, <1>5 DEF ReadIsCurrent

\* A viewer that reads on is in a call of its own.
LEMMA ViewerReads ==
  ASSUME HoldingInv, NEW c \in Viewer, Asking(c)
  PROVE  call[c] \in PositionCall /\ ReadIsCurrent(c)
  BY DEF HoldingInv, HoldingTyped, Asking, NoCall, ChangeCall

\* Reading one of the three tables.
LEMMA ReadTableInv ==
  ASSUME HoldingInv, NEW c \in Viewer, NEW table \in Tables, ReadTable(c, table)
  PROVE  HoldingInv'
<1> DEFINE r == call[c]
           Of(f) == [a \in HeldAsset |-> f[<<r.portfolio, a>>]]
           q == [r EXCEPT !.left = @ \ {table}]
<1>1. r \in PositionCall /\ ReadIsCurrent(c) /\ table \in r.left
  BY ViewerReads DEF ReadTable
<1>2. /\ UNCHANGED <<portfolio, holding, entries, balance, quote, settled>>
      /\ \/ table = "transaction" /\ call' = [call EXCEPT ![c] = [q EXCEPT !.entries = Of(entries)]]
         \/ table = "opening" /\ call' = [call EXCEPT ![c] = [q EXCEPT !.opening = Of(balance)]]
         \/ table = "holding" /\ call' = [call EXCEPT ![c] = [q EXCEPT !.holding = Of(holding),
                                                                        !.quote = quote]]
  BY DEF ReadTable, Goes, heldRows
<1>3. \A a \in HeldAsset : <<r.portfolio, a>> \in Place
  BY <1>1 DEF PositionCall, Place
<1>4. /\ Of(entries) \in [HeldAsset -> Seq(TradeRow)]
      /\ Of(balance) \in [HeldAsset -> OpeningHeld]
      /\ Of(holding) \in [HeldAsset -> HeldRow]
      /\ quote \in [HeldAsset -> [price : MarketPrice \cup {Unpriced}, at : Nat]]
  BY <1>3, HoldingsAssumption DEF HoldingInv, HoldingTyped, Quoted
<1>5. q \in PositionCall /\ q.left = r.left \ {table}
      /\ q.entries = r.entries /\ q.opening = r.opening /\ q.holding = r.holding
      /\ q.quote = r.quote /\ q.portfolio = r.portfolio /\ q.kind = r.kind
  BY <1>1 DEF PositionCall
<1> HIDE DEF q, Of
<1>6. PICK n : call' = [call EXCEPT ![c] = n]
        /\ \/ table = "transaction" /\ n = [q EXCEPT !.entries = Of(entries)]
           \/ table = "opening" /\ n = [q EXCEPT !.opening = Of(balance)]
           \/ table = "holding" /\ n = [q EXCEPT !.holding = Of(holding), !.quote = quote]
  BY <1>2
<1>7. /\ n \in PositionCall /\ n.left = r.left \ {table} /\ n.portfolio = r.portfolio
      /\ n.entries = IF table = "transaction" THEN Of(entries) ELSE r.entries
      /\ n.opening = IF table = "opening" THEN Of(balance) ELSE r.opening
      /\ n.holding = IF table = "holding" THEN Of(holding) ELSE r.holding
      /\ n.quote = IF table = "holding" THEN quote ELSE r.quote
  BY <1>4, <1>5, <1>6 DEF PositionCall
<1>8. HoldingTyped'
  BY <1>2, <1>6, <1>7 DEF HoldingInv, HoldingTyped
<1>9. call'[c] = n
  BY <1>6 DEF HoldingInv, HoldingTyped
<1>10. \A a \in HeldAsset : quote[a].at \in Nat
  BY HoldingsAssumption DEF HoldingInv, HoldingTyped, Quoted
<1>11. ReadIsCurrent(c)'
  <2>1. /\ \A a \in settled[c] :
           /\ "transaction" \notin n.left => n.entries[a] = entries[<<n.portfolio, a>>]
           /\ "opening" \notin n.left => n.opening[a] = balance[<<n.portfolio, a>>]
           /\ "holding" \notin n.left => n.holding[a] = holding[<<n.portfolio, a>>]
           /\ "holding" \notin n.left => n.quote[a] = quote[a]
        /\ \A a \in HeldAsset : n.quote[a].at <= quote[a].at
    <3>1. \A a \in settled[c] : a \in HeldAsset
      BY DEF HoldingInv, HoldingTyped
    <3>. QED BY <1>1, <1>7, <1>10, <3>1 DEF ReadIsCurrent, Of
  <2>. QED BY <1>2, <1>9, <2>1 DEF ReadIsCurrent
<1>12. ASSUME NEW d \in Viewer, Asking(d)', d # c PROVE ReadIsCurrent(d)'
  <2>1. call'[d] = call[d] /\ Asking(d)
    BY <1>6, <1>12 DEF HoldingInv, HoldingTyped, Asking
  <2>. QED BY <1>2, <2>1 DEF HoldingInv, ReadIsCurrent
<1>. QED BY <1>8, <1>11, <1>12 DEF HoldingInv

\* Reading the quote of a derived asset.
LEMMA FindAssetInv ==
  ASSUME HoldingInv, NEW c \in Viewer, NEW b \in HeldAsset, FindAsset(c, b)
  PROVE  HoldingInv'
<1> DEFINE r == call[c]
<1>1. r \in PositionCall /\ ReadIsCurrent(c)
  BY ViewerReads DEF FindAsset
<1>2. /\ UNCHANGED <<portfolio, holding, entries, balance, quote, settled>>
      /\ call' = [call EXCEPT ![c] = [r EXCEPT !.quote = [r.quote EXCEPT ![b] = quote[b]],
                                              !.fetched = r.fetched \cup {b}]]
  BY DEF FindAsset, Goes, heldRows
<1>3. [r.quote EXCEPT ![b] = quote[b]] \in [HeldAsset -> [price : MarketPrice \cup {Unpriced}, at : Nat]]
  <2>1. quote[b] \in [price : MarketPrice \cup {Unpriced}, at : Nat]
    BY HoldingsAssumption DEF HoldingInv, HoldingTyped, Quoted
  <2>. QED BY <1>1, <2>1 DEF PositionCall
<1>4. PICK n : n = [r EXCEPT !.quote = [r.quote EXCEPT ![b] = quote[b]],
                             !.fetched = r.fetched \cup {b}]
  OBVIOUS
<1>5. /\ n \in PositionCall /\ n.left = r.left /\ n.portfolio = r.portfolio
      /\ n.entries = r.entries /\ n.opening = r.opening /\ n.holding = r.holding
      /\ n.quote = [r.quote EXCEPT ![b] = quote[b]]
  BY <1>1, <1>3, <1>4 DEF PositionCall
<1>6. HoldingTyped'
  BY <1>2, <1>4, <1>5 DEF HoldingInv, HoldingTyped
<1>7. call' = [call EXCEPT ![c] = n] /\ call'[c] = n
      /\ UNCHANGED <<holding, entries, balance, quote, settled>>
  BY <1>2, <1>4 DEF HoldingInv, HoldingTyped
<1>8. \A a \in HeldAsset : quote[a].at \in Nat /\ n.quote[a] = IF a = b THEN quote[a] ELSE r.quote[a]
  BY <1>1, <1>5, HoldingsAssumption DEF HoldingInv, HoldingTyped, Quoted, PositionCall
<1>9. ReadIsCurrent(c)'
  <2>1. \A a \in settled[c] : a \in HeldAsset
    BY DEF HoldingInv, HoldingTyped
  <2>2. /\ \A a \in settled[c] :
           /\ "transaction" \notin n.left => n.entries[a] = entries[<<n.portfolio, a>>]
           /\ "opening" \notin n.left => n.opening[a] = balance[<<n.portfolio, a>>]
           /\ "holding" \notin n.left => n.holding[a] = holding[<<n.portfolio, a>>]
           /\ "holding" \notin n.left => n.quote[a] = quote[a]
        /\ \A a \in HeldAsset : n.quote[a].at <= quote[a].at
    BY <1>1, <1>5, <1>8, <2>1 DEF ReadIsCurrent
  <2>. QED BY <1>7, <2>2 DEF ReadIsCurrent
<1>10. ASSUME NEW d \in Viewer, Asking(d)', d # c PROVE ReadIsCurrent(d)'
  <2>1. call'[d] = call[d] /\ Asking(d)
    BY <1>7, <1>10 DEF HoldingInv, HoldingTyped, Asking
  <2>. QED BY <1>7, <2>1 DEF HoldingInv, ReadIsCurrent
<1>. QED BY <1>6, <1>9, <1>10 DEF HoldingInv

\* A new request for the positions of a portfolio.
LEMMA AskPositionsInv ==
  ASSUME HoldingInv, NEW c \in Viewer, NEW p \in Portfolio, NEW kind, AskPositions(c, p, kind)
  PROVE  HoldingInv'
<1>1. PICK n : n = [kind |-> "positions", portfolio |-> p, left |-> Tables,
              entries |-> [a \in HeldAsset |-> <<>>], opening |-> [a \in HeldAsset |-> Unopened],
              holding |-> [a \in HeldAsset |-> NoHolding], quote |-> [a \in HeldAsset |-> NoQuote],
              fetched |-> {}]
  OBVIOUS
<1>2. /\ UNCHANGED <<portfolio, holding, entries, balance, quote>>
      /\ call' = [call EXCEPT ![c] = n] /\ settled' = [settled EXCEPT ![c] = HeldAsset]
  BY <1>1 DEF AskPositions, Goes, heldRows
<1>3. /\ n \in PositionCall /\ n.left = Tables /\ \A a \in HeldAsset : n.quote[a].at = 0
  BY <1>1 DEF PositionCall, NoHolding, NoQuote, OpeningHeld, HeldRow
<1>4. HoldingTyped'
  BY <1>2, <1>3 DEF HoldingInv, HoldingTyped
<1>5. call'[c] = n
  BY <1>2 DEF HoldingInv, HoldingTyped
<1>6. \A a \in HeldAsset : quote[a].at \in Nat
  BY HoldingsAssumption DEF HoldingInv, HoldingTyped, Quoted
<1>7. ReadIsCurrent(c)'
  BY <1>2, <1>3, <1>5, <1>6 DEF ReadIsCurrent, Tables
<1>8. ASSUME NEW d \in Viewer, Asking(d)', d # c PROVE ReadIsCurrent(d)'
  <2>1. call'[d] = call[d] /\ Asking(d) /\ settled'[d] = settled[d]
    BY <1>2, <1>8 DEF HoldingInv, HoldingTyped, Asking
  <2>. QED BY <1>2, <2>1 DEF HoldingInv, ReadIsCurrent
<1>. QED BY <1>4, <1>7, <1>8 DEF HoldingInv

\* A step that only takes a request on, and not to a new reading of positions.
LEMMA GoesInv ==
  ASSUME HoldingInv, UNCHANGED <<holding, entries, balance, quote, settled>>,
         NEW c \in Investor \cup Viewer, NEW n \in {NoCall} \cup ChangeCall, Goes(c, n)
  PROVE  HoldingInv'
<1>1. HoldingTyped'
  BY DEF HoldingInv, HoldingTyped, Goes
<1>2. ASSUME NEW d \in Viewer, Asking(d)' PROVE call'[d] = call[d]
  <2>1. n.kind # "positions"
    BY DEF NoCall, ChangeCall
  <2>2. d # c
    BY <1>2, <2>1 DEF Goes, Asking, HoldingInv, HoldingTyped
  <2>. QED BY <2>2 DEF Goes, HoldingInv, HoldingTyped
<1>3. \A a \in HeldAsset : quote[a].at <= quote[a].at
  BY HoldingsAssumption DEF HoldingInv, HoldingTyped, Quoted
<1>. QED BY <1>1, <1>2, <1>3, KeepsReads

\* A change of the rows of one place, with at most one request that goes on.
LEMMA RowsChangeInv ==
  ASSUME HoldingInv, UNCHANGED quote, NEW at \in Place, Changed({at[2]}),
         holding' \in [Place -> HeldRow], entries' \in [Place -> Seq(TradeRow)],
         balance' \in [Place -> OpeningHeld],
         \A o \in Place : o # at => /\ holding'[o] = holding[o] /\ entries'[o] = entries[o]
                                    /\ balance'[o] = balance[o],
         \/ UNCHANGED call
         \/ \E c \in Investor, n \in {NoCall} \cup ChangeCall : Goes(c, n)
  PROVE  HoldingInv'
<1>1. settled' = [c \in Viewer |-> settled[c] \ {at[2]}]
  BY DEF Changed
<1>2. HoldingTyped'
  BY <1>1 DEF HoldingInv, HoldingTyped, Goes
<1>3. ASSUME NEW d \in Viewer, Asking(d)' PROVE call'[d] = call[d]
  <2>1. CASE UNCHANGED call
    BY <2>1
  <2>2. ASSUME NEW c \in Investor, NEW n \in {NoCall} \cup ChangeCall, Goes(c, n)
        PROVE  call'[d] = call[d]
    <3>1. n.kind # "positions"
      BY DEF NoCall, ChangeCall
    <3>2. d # c
      BY <1>3, <2>2, <3>1 DEF Goes, Asking, HoldingInv, HoldingTyped
    <3>. QED BY <2>2, <3>2 DEF Goes, HoldingInv, HoldingTyped
  <2>. QED BY <2>1, <2>2
<1>4. \A a \in HeldAsset : quote[a].at <= quote[a].at
  BY HoldingsAssumption DEF HoldingInv, HoldingTyped, Quoted
<1>5. \A d \in Viewer : settled'[d] = settled[d] \ {at[2]}
  BY <1>1
<1>6. \A d \in Viewer : \A a \in settled'[d] : \A p \in Portfolio :
        <<p, a>> \in Place /\ <<p, a>> # at
  <2> SUFFICES ASSUME NEW d \in Viewer, NEW a \in settled'[d], NEW p \in Portfolio
               PROVE  <<p, a>> \in Place /\ <<p, a>> # at
    OBVIOUS
  <2>1. a \in HeldAsset /\ a # at[2]
    BY <1>5 DEF HoldingInv, HoldingTyped
  <2>. QED BY <2>1 DEF Place
<1>7. \A d \in Viewer : settled'[d] \subseteq settled[d]
  BY <1>5
<1>. QED BY <1>2, <1>3, <1>4, <1>6, <1>7, KeepsReads

\* The requests of an investor, up to what they write.
LEMMA InvestorInv ==
  ASSUME HoldingInv, NEW c \in Investor,
         \/ \E at \in Place, amount \in Amount : CreateHolding(c, at, amount) \/ UpdateHolding(c, at, amount)
         \/ \E p \in Portfolio : UpdatePortfolio(c, p)
         \/ FindHolding(c) \/ FindUpdated(c)
  PROVE  HoldingInv'
<1>1. ASSUME NEW at \in Place, NEW amount \in Amount, CreateHolding(c, at, amount) PROVE HoldingInv'
  <2>1. [kind |-> "create", at |-> at, amount |-> amount, step |-> "find"] \in ChangeCall
    BY DEF ChangeCall
  <2>. QED BY <1>1, <2>1, GoesInv DEF CreateHolding, heldRows
<1>2. ASSUME NEW at \in Place, NEW amount \in Amount, UpdateHolding(c, at, amount) PROVE HoldingInv'
  <2>1. holding[at].id \in Nat
    BY DEF HoldingInv, HoldingTyped, HeldRow
  <2>2. [kind |-> "update", at |-> at, id |-> holding[at].id, amount |-> amount, step |-> "write"] \in ChangeCall
    BY <2>1 DEF ChangeCall
  <2>. QED BY <1>2, <2>2, GoesInv DEF UpdateHolding, heldRows
<1>3. ASSUME NEW p \in Portfolio, UpdatePortfolio(c, p) PROVE HoldingInv'
  <2>1. [kind |-> "rename", portfolio |-> p, step |-> "write"] \in ChangeCall
    BY DEF ChangeCall
  <2>. QED BY <1>3, <2>1, GoesInv DEF UpdatePortfolio, heldRows
<1>4. CASE FindHolding(c)
  <2>1. call[c] \in ChangeCall /\ call[c].kind = "create"
    BY <1>4 DEF FindHolding, HoldingInv, HoldingTyped, NoCall, PositionCall
  <2>2. [call[c] EXCEPT !.step = "insert"] \in ChangeCall
    BY <2>1 DEF ChangeCall
  <2>3. (IF holding[call[c].at] = NoHolding THEN [call[c] EXCEPT !.step = "insert"] ELSE NoCall)
          \in {NoCall} \cup ChangeCall
    BY <2>2
  <2>. QED BY <1>4, <2>3, GoesInv DEF FindHolding, heldRows
<1>5. CASE FindUpdated(c)
  BY <1>5, GoesInv DEF FindUpdated, heldRows
<1>. QED BY <1>1, <1>2, <1>3, <1>4, <1>5

\* The insertion of a row entered by hand.
LEMMA InsertHoldingInv ==
  ASSUME HoldingInv, NEW c \in Investor, InsertHolding(c)
  PROVE  HoldingInv'
<1> DEFINE at == call[c].at
<1>0. call[c] \in ChangeCall /\ call[c].kind = "create"
  BY DEF InsertHolding, HoldingInv, HoldingTyped, NoCall, PositionCall
<1>1. at \in Place /\ call[c].amount \in Nat
  BY <1>0, HoldingsAssumption DEF ChangeCall
<1>2. Goes(c, NoCall) /\ UNCHANGED <<entries, balance, quote>>
  BY DEF InsertHolding
<1>3. CASE UNCHANGED <<holding, settled>>
  BY <1>2, <1>3, GoesInv
<1>4. CASE ~UNCHANGED <<holding, settled>>
  <2>1. /\ UnusedIds # {} /\ Changed({at[2]})
        /\ holding' = [holding EXCEPT ![at] = [id |-> Min(UnusedIds), amount |-> call[c].amount]]
    BY <1>4 DEF InsertHolding
  <2>2. UnusedIds \subseteq Nat
    BY HoldingsAssumption DEF UnusedIds
  <2>3. Min(UnusedIds) \in Nat
    BY <2>1, <2>2, MinOfNaturals
  <2>4. holding' \in [Place -> HeldRow] /\ \A o \in Place : o # at => holding'[o] = holding[o]
    BY <1>1, <2>1, <2>3 DEF HoldingInv, HoldingTyped, HeldRow
  <2>5. entries' \in [Place -> Seq(TradeRow)] /\ balance' \in [Place -> OpeningHeld]
    BY <1>2 DEF HoldingInv, HoldingTyped
  <2> HIDE DEF at
  <2>. QED BY <1>1, <1>2, <2>1, <2>4, <2>5, RowsChangeInv
<1>. QED BY <1>3, <1>4

\* The change of a row entered by hand.
LEMMA WriteHoldingInv ==
  ASSUME HoldingInv, NEW c \in Investor, WriteHolding(c)
  PROVE  HoldingInv'
<1> DEFINE at == call[c].at
           n == [call[c] EXCEPT !.step = "reread"]
<1>1. call[c] \in ChangeCall /\ call[c].kind = "update"
  BY DEF WriteHolding, HoldingInv, HoldingTyped, NoCall, PositionCall
<1>2. at \in Place /\ call[c].amount \in Nat /\ n \in ChangeCall
  BY <1>1, HoldingsAssumption DEF ChangeCall
<1>3. Goes(c, n) /\ UNCHANGED <<entries, balance, quote>>
  BY DEF WriteHolding
<1>4. CASE UNCHANGED <<holding, settled>>
  BY <1>2, <1>3, <1>4, GoesInv
<1>5. CASE ~UNCHANGED <<holding, settled>>
  <2>1. /\ Changed({at[2]})
        /\ holding' = [holding EXCEPT ![at] = [holding[at] EXCEPT !.amount = call[c].amount]]
    BY <1>5 DEF WriteHolding
  <2>2. [holding[at] EXCEPT !.amount = call[c].amount] \in HeldRow
    BY <1>2 DEF HoldingInv, HoldingTyped, HeldRow
  <2>3. holding' \in [Place -> HeldRow] /\ \A o \in Place : o # at => holding'[o] = holding[o]
    BY <1>2, <2>1, <2>2 DEF HoldingInv, HoldingTyped
  <2>4. entries' \in [Place -> Seq(TradeRow)] /\ balance' \in [Place -> OpeningHeld]
    BY <1>3 DEF HoldingInv, HoldingTyped
  <2> HIDE DEF at, n
  <2>. QED BY <1>2, <1>3, <2>1, <2>3, <2>4, RowsChangeInv
<1>. QED BY <1>4, <1>5

\* The renaming of a portfolio.
LEMMA WritePortfolioInv ==
  ASSUME HoldingInv, NEW c \in Investor, WritePortfolio(c)
  PROVE  HoldingInv'
<1> DEFINE n == [call[c] EXCEPT !.step = "reread"]
<1>1. call[c] \in ChangeCall /\ call[c].kind = "rename"
  BY DEF WritePortfolio, HoldingInv, HoldingTyped, NoCall, PositionCall
<1>2. n \in ChangeCall
  BY <1>1 DEF ChangeCall
<1>3. Goes(c, n) /\ UNCHANGED <<holding, entries, balance, quote>>
  BY DEF WritePortfolio
<1>4. UNCHANGED settled
  BY DEF WritePortfolio, Changed, HoldingInv, HoldingTyped
<1> HIDE DEF n
<1>. QED BY <1>2, <1>3, <1>4, GoesInv

\* What is deleted, traded and opened.
LEMMA RowsInv ==
  ASSUME HoldingInv, NEW at \in Place,
         \/ DeleteHolding(at) \/ RemoveTrade(at)
         \/ \E amount \in Amount : \/ SetOpening(at, amount)
                                   \/ \E kind \in {"in", "out"} : RecordTrade(at, kind, amount)
  PROVE  HoldingInv'
<1>1. CASE DeleteHolding(at)
  <2>1. holding' \in [Place -> HeldRow] /\ \A o \in Place : o # at => holding'[o] = holding[o]
    BY <1>1 DEF DeleteHolding, HoldingInv, HoldingTyped, HeldRow, NoHolding
  <2>. QED BY <1>1, <2>1, RowsChangeInv DEF DeleteHolding, HoldingInv, HoldingTyped
<1>2. CASE RemoveTrade(at)
  <2>1. PICK i \in DOMAIN entries[at] : entries' = [entries EXCEPT ![at] = RemoveAt(entries[at], i)]
    BY <1>2 DEF RemoveTrade
  <2>2. RemoveAt(entries[at], i) \in Seq(TradeRow)
    <3>1. entries[at] \in Seq(TradeRow) /\ i \in 1..Len(entries[at])
      BY DEF HoldingInv, HoldingTyped
    <3>2. \A s \in Seq(TradeRow) : \A j \in 1..Len(s) : RemoveAt(s, j) \in Seq(TradeRow)
      BY DEF RemoveAt
    <3>. QED BY <3>1, <3>2
  <2>3. entries' \in [Place -> Seq(TradeRow)] /\ \A o \in Place : o # at => entries'[o] = entries[o]
    BY <2>1, <2>2 DEF HoldingInv, HoldingTyped
  <2>. QED BY <1>2, <2>3, RowsChangeInv DEF RemoveTrade, HoldingInv, HoldingTyped
<1>3. ASSUME NEW amount \in Amount, SetOpening(at, amount) PROVE HoldingInv'
  <2>1. balance' \in [Place -> OpeningHeld] /\ \A o \in Place : o # at => balance'[o] = balance[o]
    BY <1>3 DEF SetOpening, HoldingInv, HoldingTyped, OpeningHeld
  <2>. QED BY <1>3, <2>1, RowsChangeInv DEF SetOpening, HoldingInv, HoldingTyped
<1>4. ASSUME NEW amount \in Amount, NEW kind \in {"in", "out"}, RecordTrade(at, kind, amount)
      PROVE  HoldingInv'
  <2>1. PICK i \in 1..Len(entries[at]) + 1 :
          entries' = [entries EXCEPT ![at] = InsertAt(entries[at], i, [kind |-> kind, amount |-> amount])]
    BY <1>4 DEF RecordTrade
  <2>2. InsertAt(entries[at], i, [kind |-> kind, amount |-> amount]) \in Seq(TradeRow)
    <3>1. entries[at] \in Seq(TradeRow) /\ [kind |-> kind, amount |-> amount] \in TradeRow
      BY DEF HoldingInv, HoldingTyped, TradeRow
    <3>2. \A s \in Seq(TradeRow), t \in TradeRow : \A j \in 1..Len(s) + 1 : InsertAt(s, j, t) \in Seq(TradeRow)
      BY DEF InsertAt
    <3>. QED BY <3>1, <3>2
  <2>3. entries' \in [Place -> Seq(TradeRow)] /\ \A o \in Place : o # at => entries'[o] = entries[o]
    BY <2>1, <2>2 DEF HoldingInv, HoldingTyped
  <2>. QED BY <1>4, <2>3, RowsChangeInv DEF RecordTrade, HoldingInv, HoldingTyped
<1>. QED BY <1>1, <1>2, <1>3, <1>4

\* A price synchronisation gives the youngest quote.
LEMMA SyncPriceInv ==
  ASSUME HoldingInv, NEW b \in HeldAsset, SyncPrice(b)
  PROVE  HoldingInv'
<1> DEFINE T == {quote[a].at : a \in HeldAsset}
<1>1. \A a \in HeldAsset : quote[a].at \in 0..MaxPriceSync /\ quote[a].at \in Nat
  BY HoldingsAssumption DEF HoldingInv, HoldingTyped, Quoted
<1>2. T \subseteq Nat /\ quote[b].at \in T /\ (\A x \in T : x <= MaxPriceSync) /\ MaxPriceSync \in Nat
  BY <1>1, HoldingsAssumption
<1> HIDE DEF T
<1>3. Max(T) \in Nat /\ quote[b].at <= Max(T)
  BY <1>2, MaxOfNaturals
<1>4. PICK p \in MarketPrice \cup {quote[b].price} :
        /\ Max(T) + 1 <= MaxPriceSync
        /\ quote' = [quote EXCEPT ![b] = [price |-> p, at |-> Max(T) + 1]]
  BY DEF SyncPrice, T
<1>5. [price |-> p, at |-> Max(T) + 1] \in Quoted
  BY <1>2, <1>3, <1>4 DEF HoldingInv, HoldingTyped, Quoted
<1>6. quote' \in [HeldAsset -> Quoted] /\ \A a \in HeldAsset : quote[a].at <= quote'[a].at
  BY <1>1, <1>3, <1>4, <1>5 DEF HoldingInv, HoldingTyped
<1>7. \A d \in Viewer : settled'[d] = settled[d] \ {b}
  BY DEF SyncPrice, Changed
<1>8. UNCHANGED <<holding, entries, balance, call>>
  BY DEF SyncPrice
<1>9. HoldingTyped'
  BY <1>6, <1>8 DEF HoldingInv, HoldingTyped, SyncPrice, Changed
<1>10. \A d \in Viewer : \A a \in settled'[d] : quote'[a] = quote[a]
  BY <1>4, <1>7 DEF HoldingInv, HoldingTyped
<1>11. \A d \in Viewer : settled'[d] \subseteq settled[d]
  BY <1>7
<1>. QED BY <1>6, <1>8, <1>9, <1>10, <1>11, KeepsReads

\* Every step keeps the invariant.
LEMMA StepHoldingInv == HoldingInv /\ [HoldingNext]_holdingVars => HoldingInv'
<1> SUFFICES ASSUME HoldingInv, [HoldingNext]_holdingVars PROVE HoldingInv'
  OBVIOUS
<1>1. \A a \in HeldAsset : quote[a].at <= quote[a].at
  BY HoldingsAssumption DEF HoldingInv, HoldingTyped, Quoted
<1>2. ASSUME NEW p \in Portfolio, CreatePortfolio(p) \/ DeletePortfolio(p) PROVE HoldingInv'
  <2>1. UNCHANGED <<holding, entries, balance, quote, call, settled>>
    BY <1>2 DEF CreatePortfolio, DeletePortfolio, Changed, HoldingInv, HoldingTyped
  <2>2. HoldingTyped'
    BY <2>1 DEF HoldingInv, HoldingTyped
  <2>. QED BY <1>1, <2>1, <2>2, KeepsReads
<1>3. ASSUME NEW c \in Viewer, AnswerPositions(c) PROVE HoldingInv'
  BY <1>3, GoesInv DEF AnswerPositions, heldRows
<1>4. CASE UNCHANGED holdingVars
  <2>1. HoldingTyped'
    BY <1>4 DEF holdingVars, HoldingInv, HoldingTyped
  <2>2. UNCHANGED <<holding, entries, balance, quote, call, settled>>
    BY <1>4 DEF holdingVars
  <2>. QED BY <1>1, <2>1, <2>2, KeepsReads
<1>. QED BY <1>2, <1>3, <1>4, RowsInv, SyncPriceInv, InvestorInv, InsertHoldingInv, WriteHoldingInv,
     WritePortfolioInv, AskPositionsInv, ReadTableInv, FindAssetInv DEF HoldingNext

\* It holds in the beginning.
LEMMA InitHoldingInv == HoldingInit => HoldingInv
<1> SUFFICES ASSUME HoldingInit PROVE HoldingInv
  OBVIOUS
<1>1. holding \in [Place -> HeldRow] /\ entries \in [Place -> Seq(TradeRow)] /\ balance \in [Place -> OpeningHeld]
  BY DEF HoldingInit, HeldRow, NoHolding, OpeningHeld
<1>2. quote \in [HeldAsset -> Quoted]
  BY HoldingsAssumption DEF HoldingInit, Quoted
<1>3. call \in [Investor \cup Viewer -> {NoCall} \cup ChangeCall \cup PositionCall]
      /\ settled \in [Viewer -> SUBSET HeldAsset]
  BY DEF HoldingInit
<1>4. \A c \in Viewer : ~Asking(c)
  BY DEF HoldingInit, Asking, NoCall
<1>. QED BY <1>1, <1>2, <1>3, <1>4 DEF HoldingInv, HoldingTyped

\* However the tables change between the reads of a request, a position is counted once,
\* one that did not change is answered as the tables have it, and the age, the total and
\* the status of a valuation follow (holdings.service.ts, get-portfolio-valuation.use-case.ts).
THEOREM PositionsStaySound == HoldingSpec => PositionsSound
<1>1. HoldingInv /\ [HoldingNext]_holdingVars =>
        \A c \in Viewer : AnswerPositions(c) =>
          LET r     == call[c]
              Of(a) == {i \in Items(r) : i.asset = a}
              unmoved  == {a \in settled[c] : HeldNow(r.portfolio, a) > 0}
          IN
          /\ \A i, j \in Items(r) : i.asset = j.asset => i = j
          /\ \A a \in unmoved : Of(a) = {Item(a, HeldNow(r.portfolio, a), quote[a])}
          /\ \A a \in settled[c] \ unmoved : Of(a) = {}
          /\ \A i \in Valued(r) : PricedAt(r) <= quote[i.asset].at
          /\ TotalValue(r) >= SumFunction([a \in {b \in unmoved : quote[b].price # Unpriced}
                                            |-> HeldNow(r.portfolio, a) * quote[a].price])
          /\ ValuationStatus(r) = "COMPLETE" => \A a \in unmoved : quote[a].price # Unpriced
  BY ItemsAreCurrent, ValuationIsCurrent
<1>2. HoldingInv /\ [HoldingNext]_holdingVars => HoldingInv'
  BY StepHoldingInv
<1>3. QED
  BY <1>1, <1>2, InitHoldingInv, PTL DEF HoldingSpec, PositionsSound

-------------------------------------------------------------------------------
(***************************************************************************)
(* Histories: every use case tells of a success only after its commit, and *)
(* a record is told, lost or past its days.                                *)
(***************************************************************************)

Failure(r) == r.store = "audit" /\ ~r.success

\* A use case tells of a success only after its commit, of a sign-in only at its end and
\* of a failure only in a refusal before it has committed anything, or when it refuses an
\* account that waits for its code.
Honest(s) ==
  \A i \in 1..Len(s) :
    /\ \A r \in s[i].tells :
         /\ Recordable(r) /\ (Failure(r) => s \in PendingLogins)
         /\ Succeeded(r) => \/ \E j \in 1..i : s[j].does = "commit"
                            \/ s = ChangePasswordTells /\ r = SignedOutElsewhere
         /\ r = Activity("SECURITY", "LOGIN") => i = Len(s)
    /\ \A r \in s[i].refused : Failure(r) /\ \A j \in 1..i - 1 : s[j].does # "commit"

\* What the catalogue of activities holds.
LEMMA Catalogued ==
  /\ {"LOGIN", "LOGOUT", "PASSWORD_CHANGED", "SESSION_CREATED", "SESSION_REVOKED"}
       = ACTIVITY_CATALOG["SECURITY"]
  /\ {"CREATED", "UPDATED", "DELETED"} = ACTIVITY_CATALOG["PORTFOLIO"]
  /\ {"CREATED", "UPDATED", "DELETED"} = ACTIVITY_CATALOG["TRANSACTION"]
  /\ {"CREATED", "UPDATED", "DELETED"} \subseteq ACTIVITY_CATALOG["PRICE_ALERT"]
  /\ "PROFILE_UPDATED" \in ACTIVITY_CATALOG["ACCOUNT"]
  BY DEF ACTIVITY_CATALOG

\* Every use case is honest.
LEMMA UseCasesAreHonest == \A s \in UseCases : Honest(s) /\ Len(s) \in Nat \ {0}
<1> USE Catalogued DEF Honest, Looks, Works, Commits, Wait, Activity, Audit, AuditOf, AuditFailure,
           Deed, SessionCreated, SignedOutElsewhere, Recordable, Failure, Succeeded,
           Credentials, LoginRefused
<1>1. Honest(LoginTells) /\ Len(LoginTells) \in Nat \ {0}
  BY DEF LoginTells
<1>2. Honest(ChangePasswordTells) /\ Len(ChangePasswordTells) \in Nat \ {0}
  BY DEF ChangePasswordTells
<1>3. Honest(TerminateOthersTells) /\ Len(TerminateOthersTells) \in Nat \ {0}
  BY DEF TerminateOthersTells
<1>4. Honest(RevokeOwnedTells) /\ Len(RevokeOwnedTells) \in Nat \ {0}
  BY DEF RevokeOwnedTells
<1>5. Honest(RevokeTells) /\ Len(RevokeTells) \in Nat \ {0}
  BY DEF RevokeTells
<1>6. Honest(InitiateRegistrationTells) /\ Len(InitiateRegistrationTells) \in Nat \ {0}
  BY DEF InitiateRegistrationTells
<1>7. Honest(VerifyEmailTells) /\ Len(VerifyEmailTells) \in Nat \ {0}
  BY DEF VerifyEmailTells
<1>8. Honest(ResendTells) /\ Len(ResendTells) \in Nat \ {0}
  BY DEF ResendTells
<1>9. Honest(UpdateProfileTells) /\ Len(UpdateProfileTells) \in Nat \ {0}
  BY DEF UpdateProfileTells
<1>10. Honest(DeleteAccountTells) /\ Len(DeleteAccountTells) \in Nat \ {0}
  BY DEF DeleteAccountTells
<1>11. Honest(CreatePortfolioTells) /\ Len(CreatePortfolioTells) \in Nat \ {0}
  BY DEF CreatePortfolioTells
<1>12. Honest(UpdatePortfolioTells) /\ Len(UpdatePortfolioTells) \in Nat \ {0}
  BY DEF UpdatePortfolioTells
<1>13. Honest(DeletePortfolioTells) /\ Len(DeletePortfolioTells) \in Nat \ {0}
  BY DEF DeletePortfolioTells
<1>14. Honest(CreateHoldingTells) /\ Len(CreateHoldingTells) \in Nat \ {0}
  BY DEF CreateHoldingTells
<1>15. Honest(UpdateHoldingTells) /\ Len(UpdateHoldingTells) \in Nat \ {0}
  BY DEF UpdateHoldingTells
<1>16. Honest(DeleteHoldingTells) /\ Len(DeleteHoldingTells) \in Nat \ {0}
  BY DEF DeleteHoldingTells
<1>17. Honest(CreateTransactionTells) /\ Len(CreateTransactionTells) \in Nat \ {0}
  BY DEF CreateTransactionTells
<1>18. Honest(UpdateTransactionTells) /\ Len(UpdateTransactionTells) \in Nat \ {0}
  BY DEF UpdateTransactionTells
<1>19. Honest(DeleteTransactionTells) /\ Len(DeleteTransactionTells) \in Nat \ {0}
  BY DEF DeleteTransactionTells
<1>20. Honest(CreateAlertTells) /\ Len(CreateAlertTells) \in Nat \ {0}
  BY DEF CreateAlertTells
<1>21. Honest(UpdateAlertTells) /\ Len(UpdateAlertTells) \in Nat \ {0}
  BY DEF UpdateAlertTells
<1>22. Honest(CancelAlertTells) /\ Len(CancelAlertTells) \in Nat \ {0}
  BY DEF CancelAlertTells
<1>23. Honest(ResendSkippedTells) /\ Len(ResendSkippedTells) \in Nat \ {0}
  BY DEF ResendSkippedTells
<1>24. Honest(OverdueLoginTells) /\ Len(OverdueLoginTells) \in Nat \ {0}
  <2>1. OverdueLoginTells \in PendingLogins
    BY DEF PendingLogins
  <2>. QED BY <2>1 DEF OverdueLoginTells
<1>25. Honest(PendingLoginTells) /\ Len(PendingLoginTells) \in Nat \ {0}
  <2>1. PendingLoginTells \in PendingLogins
    BY DEF PendingLogins
  <2>. QED BY <2>1 DEF PendingLoginTells
<1> HIDE DEF Honest, Looks, Works, Commits, Wait, Activity, Audit, AuditOf, AuditFailure,
           Deed, SessionCreated, SignedOutElsewhere, Recordable, Failure, Succeeded,
           Credentials, LoginRefused
<1>26. QED
  BY <1>23, <1>24, <1>25, <1>1, <1>2, <1>3, <1>4, <1>5, <1>6, <1>7, <1>8, <1>9, <1>10, <1>11, <1>12, <1>13, <1>14, <1>15, <1>16, <1>17, <1>18, <1>19, <1>20, <1>21, <1>22
  DEF UseCases, PendingLogins

Whats(records) == {r.what : r \in records}

HistoryTyped ==
  /\ script \in UseCases /\ reached \in Nat /\ reached <= Len(script)
  /\ committed \in BOOLEAN /\ day \in Nat
  /\ outcome \in {"running", "done", "refused", "broken", "crashed"}
  /\ outcome = "done" <=> reached = Len(script)
  /\ \A r \in Known : r.at \in 0..day

\* What has been sent belongs to a wait that is over, to the refusal or to the failure.
Traced ==
  \A r \in Told :
    \/ \E i \in 1..reached : r \in script[i].tells
    \/ outcome = "refused" /\ r \in Current.refused
    \/ outcome = "broken" /\ r = System("UNHANDLED_EXCEPTION")

\* The commits that are over are committed, and nothing else is while the use case lives.
CommitsCounted ==
  /\ (\E i \in 1..reached : script[i].does = "commit") => committed
  /\ committed /\ outcome # "crashed" => \E i \in 1..reached : script[i].does = "commit"

\* What a wait that is over tells is known, or run out.
Delivered ==
  \A i \in 1..reached : \A r \in script[i].tells :
    r \in Whats(Known) \/ (r.store = "activity" /\ day > Retention)

FailureKept == outcome = "broken" => System("UNHANDLED_EXCEPTION") \in Whats(Known)

HistoryInv == HistoryTyped /\ Traced /\ CommitsCounted /\ Delivered /\ FailureKept

\* What is told is true, from the invariant and the honesty of the use cases.
LEMMA HistoryInvSound == HistoryInv => HistorySound
<1> SUFFICES ASSUME HistoryInv PROVE HistorySound
  OBVIOUS
<1> USE DEF HistoryInv
<1>1. Honest(script) /\ Len(script) \in Nat \ {0}
  BY UseCasesAreHonest DEF HistoryTyped
<1>2. ASSUME NEW r \in Told, Succeeded(r)
      PROVE  committed \/ (script = ChangePasswordTells /\ r = SignedOutElsewhere)
  <2>1. CASE \E i \in 1..reached : r \in script[i].tells
    <3>1. PICK i \in 1..reached : r \in script[i].tells
      BY <2>1
    <3>2. i \in 1..Len(script)
      BY <1>1 DEF HistoryTyped
    <3>3. (\E j \in 1..i : script[j].does = "commit")
            \/ (script = ChangePasswordTells /\ r = SignedOutElsewhere)
      BY <1>1, <1>2, <3>1, <3>2 DEF Honest
    <3>4. \A j \in 1..i : j \in 1..reached
      BY DEF HistoryTyped
    <3>5. QED
      BY <3>3, <3>4 DEF CommitsCounted
  <2>2. CASE outcome = "refused" /\ r \in Current.refused
    <3>1. reached + 1 \in 1..Len(script)
      BY <1>1, <2>2 DEF HistoryTyped
    <3>2. Failure(r)
      BY <1>1, <2>2, <3>1 DEF Honest, Current
    <3>3. QED
      BY <1>2, <3>2 DEF Failure, Succeeded
  <2>3. CASE r = System("UNHANDLED_EXCEPTION")
    BY <1>2, <2>3 DEF System, Succeeded
  <2>4. QED
    BY <1>2, <2>1, <2>2, <2>3 DEF Traced
<1>3. ASSUME NEW r \in Told, r = Activity("SECURITY", "LOGIN") PROVE outcome = "done"
  <2>1. CASE \E i \in 1..reached : r \in script[i].tells
    <3>1. PICK i \in 1..reached : r \in script[i].tells
      BY <2>1
    <3>2. i \in 1..Len(script)
      BY <1>1 DEF HistoryTyped
    <3>3. i = Len(script)
      BY <1>1, <1>3, <3>1, <3>2 DEF Honest
    <3>4. QED
      BY <1>1, <3>3 DEF HistoryTyped
  <2>2. CASE outcome = "refused" /\ r \in Current.refused
    <3>1. reached + 1 \in 1..Len(script)
      BY <1>1, <2>2 DEF HistoryTyped
    <3>2. Failure(r)
      BY <1>1, <2>2, <3>1 DEF Honest, Current
    <3>3. QED
      BY <1>3, <3>2 DEF Failure, Activity
  <2>3. CASE r = System("UNHANDLED_EXCEPTION")
    BY <1>3, <2>3 DEF System, Activity
  <2>4. QED
    BY <1>3, <2>1, <2>2, <2>3 DEF Traced
<1>4. ASSUME NEW r \in Told, Failure(r), script \notin PendingLogins PROVE ~committed
  <2>1. ~(\E i \in 1..reached : r \in script[i].tells)
    <3> SUFFICES ASSUME NEW i \in 1..reached, r \in script[i].tells PROVE FALSE
      OBVIOUS
    <3>1. i \in 1..Len(script)
      BY <1>1 DEF HistoryTyped
    <3>2. QED
      BY <1>1, <1>4, <3>1 DEF Honest
  <2>2. CASE outcome = "refused" /\ r \in Current.refused
    <3>1. reached + 1 \in 1..Len(script)
      BY <1>1, <2>2 DEF HistoryTyped
    <3>2. \A j \in 1..(reached + 1) - 1 : script[j].does # "commit"
      BY <1>1, <2>2, <3>1 DEF Honest, Current
    <3>3. (reached + 1) - 1 = reached
      BY DEF HistoryTyped
    <3>4. QED
      BY <2>2, <3>2, <3>3 DEF CommitsCounted
  <2>3. CASE r = System("UNHANDLED_EXCEPTION")
    BY <1>4, <2>3 DEF System, Failure
  <2>4. QED
    BY <1>4, <2>1, <2>2, <2>3 DEF Traced
<1>5. TellsWhatHappened
  BY <1>2, <1>3, <1>4 DEF TellsWhatHappened, Failure
<1>6. TellsAll
  <2>1. DOMAIN script = 1..Len(script)
    <3>1. script \in UseCases
      BY DEF HistoryTyped
    <3>2. QED
      BY <3>1, UseCasesAreHonest
  <2>2. QED
    BY <1>1, <2>1 DEF TellsAll, HistoryTyped, Delivered, FailureKept, Whats
<1>7. QED
  BY <1>5, <1>6 DEF HistorySound

\* It holds when a use case begins.
LEMMA InitHistoryInv == HistoryInit => HistoryInv
<1> SUFFICES ASSUME HistoryInit PROVE HistoryInv
  OBVIOUS
<1> USE DEF HistoryInit
<1>1. HistoryTyped
  <2>1. Len(script) \in Nat \ {0}
    BY UseCasesAreHonest
  <2>2. Known = {} /\ reached = 0 /\ day = 0 /\ outcome = "running" /\ committed = FALSE
    BY DEF Known
  <2>3. script \in UseCases
    OBVIOUS
  <2> HIDE DEF HistoryInit
  <2>4. reached \in Nat /\ reached <= Len(script) /\ reached # Len(script)
    BY <2>1, <2>2
  <2>5. QED
    BY <2>2, <2>3, <2>4 DEF HistoryTyped
<1>2. Traced /\ CommitsCounted /\ Delivered /\ FailureKept
  BY DEF Traced, CommitsCounted, Delivered, FailureKept, Told
<1>3. QED
  BY <1>1, <1>2 DEF HistoryInv

\* What is sent is in flight, and nothing else is new.
LEMMA SendAdds ==
  ASSUME NEW records, Send(records), \A r \in records : Recordable(r),
         UNCHANGED <<stored, lost>>
  PROVE  /\ Told' = Told \cup records
         /\ Whats(Known)' = Whats(Known) \cup records
<1>1. flight' = flight \cup {[what |-> r, at |-> day] : r \in records}
  BY DEF Send
<1>2. {k.what : k \in flight'} = {k.what : k \in flight} \cup records
  <2>1. ASSUME NEW r \in records PROVE \E k \in flight' : r = k.what
    <3>1. [what |-> r, at |-> day] \in flight'
      BY <1>1, <2>1
    <3>2. QED
      BY <3>1
  <2>2. QED
    BY <1>1, <2>1
<1>3. Told = {k.what : k \in flight} \cup {k.what : k \in stored}
  BY DEF Told
<1>4. Told' = {k.what : k \in flight'} \cup {k.what : k \in stored}
  BY DEF Told
<1>5. Whats(Known) = {k.what : k \in flight} \cup {k.what : k \in stored} \cup {k.what : k \in lost}
  BY DEF Whats, Known
<1>6. Whats(Known)' = {k.what : k \in flight'} \cup {k.what : k \in stored} \cup {k.what : k \in lost}
  BY DEF Whats, Known
<1>7. QED
  BY <1>2, <1>3, <1>4, <1>5, <1>6

\* A step that sends something keeps the ages of the records.
LEMMA SendDated ==
  ASSUME HistoryTyped, NEW records, Send(records), UNCHANGED <<stored, lost, day>>
  PROVE  \A r \in Known' : r.at \in 0..day
  BY DEF HistoryTyped, Send, Known

\* A wait that ends keeps the invariant.
LEMMA ProceedHistoryInv == HistoryInv /\ Proceed => HistoryInv'
<1> SUFFICES ASSUME HistoryInv, Proceed PROVE HistoryInv'
  OBVIOUS
<1> DEFINE records == Current.tells
<1>1. Honest(script) /\ Len(script) \in Nat \ {0} /\ reached \in Nat
  BY UseCasesAreHonest DEF HistoryInv, HistoryTyped
<1>2. reached < Len(script) /\ reached' = reached + 1 /\ outcome # "done"
  BY <1>1 DEF HistoryInv, HistoryTyped, Proceed
<1>3. reached + 1 \in 1..Len(script) /\ 1..reached' = 1..reached \cup {reached + 1}
  BY <1>1, <1>2
<1>4. \A r \in records : Recordable(r)
  BY <1>1, <1>3 DEF Honest, Current
<1>5. Send(records) /\ UNCHANGED <<script, stored, lost, day>>
  BY DEF Proceed
<1> HIDE DEF records
<1>6. Told' = Told \cup records /\ Whats(Known)' = Whats(Known) \cup records
  BY <1>4, <1>5, SendAdds
<1>7. \A r \in Known' : r.at \in 0..day
  BY <1>5, SendDated DEF HistoryInv
<1>8. outcome' \in {"running", "done"} /\ (outcome' = "done" <=> reached' = Len(script))
  BY DEF Proceed
<1>9. HistoryTyped'
  BY <1>1, <1>2, <1>3, <1>5, <1>7, <1>8 DEF HistoryInv, HistoryTyped, Proceed
<1>10. Traced'
  <2> SUFFICES ASSUME NEW r \in Told' PROVE \E i \in 1..reached' : r \in script[i].tells
    BY <1>5 DEF Traced
  <2>1. CASE r \in records
    BY <1>3, <2>1 DEF records, Current
  <2>2. CASE r \in Told
    BY <1>3, <2>2 DEF HistoryInv, Traced, Proceed
  <2>3. QED
    BY <1>6, <2>1, <2>2
<1>11. CommitsCounted'
  <2>1. committed' = (committed \/ script[reached + 1].does = "commit")
    BY DEF Proceed, Current
  <2>2. outcome # "crashed"
    BY DEF Proceed
  <2>3. committed <=> \E i \in 1..reached : script[i].does = "commit"
    BY <2>2 DEF HistoryInv, CommitsCounted, HistoryTyped
  <2>4. committed' <=> \E i \in 1..reached' : script[i].does = "commit"
    BY <1>3, <2>1, <2>3
  <2>5. QED
    BY <1>5, <2>4 DEF CommitsCounted
<1>12. Delivered'
  <2>1. ASSUME NEW i \in 1..reached', NEW r \in script[i].tells
        PROVE  r \in Whats(Known)' \/ (r.store = "activity" /\ day > Retention)
    <3>1. CASE i = reached + 1
      BY <1>6, <2>1, <3>1 DEF records, Current
    <3>2. CASE i \in 1..reached
      BY <1>6, <2>1, <3>2 DEF HistoryInv, Delivered
    <3>3. QED
      BY <1>3, <3>1, <3>2
  <2>2. QED
    BY <1>5, <2>1 DEF Delivered
<1>13. FailureKept'
  BY <1>8 DEF FailureKept
<1>14. QED
  BY <1>9, <1>10, <1>11, <1>12, <1>13 DEF HistoryInv

\* A refusal sends what its wait has for it, and a failure its system log.
LEMMA EndHistoryInv ==
  ASSUME HistoryInv, Refusal \/ Breaks PROVE HistoryInv'
<1> DEFINE records == IF outcome' = "refused" THEN Current.refused
                      ELSE {System("UNHANDLED_EXCEPTION")}
<1>1. Honest(script) /\ Len(script) \in Nat \ {0} /\ reached \in Nat
  BY UseCasesAreHonest DEF HistoryInv, HistoryTyped
<1>2. reached < Len(script) /\ outcome = "running"
  BY <1>1 DEF HistoryInv, HistoryTyped, Refusal, Breaks
<1>3. Send(records) /\ UNCHANGED <<script, reached, committed, stored, lost, day>>
  BY DEF Refusal, Breaks
<1>4. outcome' \in {"refused", "broken"}
  BY DEF Refusal, Breaks
<1>5. reached + 1 \in 1..Len(script)
  BY <1>1, <1>2
<1>6. \A r \in records : Recordable(r)
  <2>1. Recordable(System("UNHANDLED_EXCEPTION"))
    BY DEF System, Recordable
  <2>2. \A r \in Current.refused : Failure(r)
    BY <1>1, <1>5 DEF Honest, Current
  <2>3. QED
    BY <2>1, <2>2 DEF Failure, Recordable
<1> HIDE DEF records
<1>7. Told' = Told \cup records /\ Whats(Known)' = Whats(Known) \cup records
  BY <1>3, <1>6, SendAdds
<1>8. \A r \in Known' : r.at \in 0..day
  BY <1>3, SendDated DEF HistoryInv
<1>9. HistoryTyped'
  BY <1>1, <1>2, <1>3, <1>4, <1>8 DEF HistoryInv, HistoryTyped
<1>10. Current' = Current
  BY <1>3 DEF Current
<1>11. Traced'
  BY <1>2, <1>3, <1>4, <1>7, <1>10 DEF HistoryInv, Traced, records
<1>12. CommitsCounted'
  BY <1>2, <1>3 DEF HistoryInv, CommitsCounted
<1>13. Delivered'
  BY <1>3, <1>7 DEF HistoryInv, Delivered
<1>14. FailureKept'
  BY <1>4, <1>7 DEF FailureKept, records
<1>15. QED
  BY <1>9, <1>11, <1>12, <1>13, <1>14 DEF HistoryInv

\* A crash loses what was on its way.
LEMMA DiesHistoryInv == HistoryInv /\ Dies => HistoryInv'
<1> SUFFICES ASSUME HistoryInv, Dies PROVE HistoryInv'
  OBVIOUS
<1>1. Len(script) \in Nat \ {0} /\ reached < Len(script)
  BY UseCasesAreHonest DEF HistoryInv, HistoryTyped, Dies
<1>2. Known' = Known
  BY DEF Known, Dies
<1>3. HistoryTyped'
  <2>1. committed' \in BOOLEAN
    BY DEF Dies, HistoryInv, HistoryTyped
  <2>2. QED
    BY <1>1, <1>2, <2>1 DEF HistoryInv, HistoryTyped, Dies
<1>4. Traced'
  <2>1. Told' \subseteq Told
    BY DEF Told, Dies
  <2>2. QED
    BY <2>1 DEF HistoryInv, Traced, Dies
<1>5. CommitsCounted'
  BY DEF HistoryInv, HistoryTyped, CommitsCounted, Dies
<1>6. Delivered'
  BY <1>2 DEF HistoryInv, Delivered, Dies, Whats
<1>7. FailureKept'
  BY DEF FailureKept, Dies
<1>8. QED
  BY <1>3, <1>4, <1>5, <1>6, <1>7 DEF HistoryInv

\* What happens to the records by themselves: none is forgotten but an activity whose
\* days are over.
LEMMA RecordsHistoryInv ==
  ASSUME HistoryInv,
         UNCHANGED <<script, reached, outcome, committed>>,
         day' \in Nat, day <= day', Told' \subseteq Told, Known' \subseteq Known,
         \A r \in Known \ Known' : r.what.store = "activity" /\ day' > Retention
  PROVE  HistoryInv'
<1>1. HistoryTyped'
  <2>1. \A r \in Known' : r.at \in 0..day'
    BY DEF HistoryInv, HistoryTyped
  <2>2. QED
    BY <2>1 DEF HistoryInv, HistoryTyped
<1>2. Traced'
  BY DEF HistoryInv, Traced, Current
<1>3. CommitsCounted'
  BY DEF HistoryInv, CommitsCounted
<1>4. \A k \in Whats(Known) : k \in Whats(Known)' \/ (k.store = "activity" /\ day' > Retention)
  <2> SUFFICES ASSUME NEW k \in Whats(Known), k \notin Whats(Known)'
               PROVE  k.store = "activity" /\ day' > Retention
    OBVIOUS
  <2>1. PICK r \in Known : k = r.what
    BY DEF Whats
  <2>2. r \notin Known'
    BY <2>1 DEF Whats
  <2>3. QED
    BY <2>1, <2>2
<1>5. Delivered'
  <2>1. Retention \in Nat /\ day \in Nat
    BY HistoryAssumption DEF HistoryInv, HistoryTyped
  <2>2. day > Retention => day' > Retention
    BY <2>1
  <2>3. QED
    BY <1>4, <2>2 DEF HistoryInv, Delivered
<1>6. FailureKept'
  BY <1>4 DEF HistoryInv, FailureKept, System
<1>7. QED
  BY <1>1, <1>2, <1>3, <1>5, <1>6 DEF HistoryInv

\* Every step keeps the invariant.
LEMMA StepHistoryInv == HistoryInv /\ [HistoryNext]_historyVars => HistoryInv'
<1> SUFFICES ASSUME HistoryInv, [HistoryNext]_historyVars PROVE HistoryInv'
  OBVIOUS
<1>1. day \in Nat /\ Retention \in Nat
  BY HistoryAssumption DEF HistoryInv, HistoryTyped
<1>2. ASSUME NEW r \in flight, Lands(r) \/ GoesAstray(r) PROVE HistoryInv'
  <2>1. Known' = Known /\ Told' \subseteq Told
    BY <1>2 DEF Known, Told, Lands, GoesAstray
  <2>2. UNCHANGED <<script, reached, outcome, committed, day>>
    BY <1>2 DEF Lands, GoesAstray
  <2>3. QED
    BY <1>1, <2>1, <2>2, RecordsHistoryInv
<1>3. ASSUME NEW r \in stored, RunsOut(r) PROVE HistoryInv'
  <2>1. Known' \subseteq Known /\ Told' \subseteq Told /\ Known \ Known' \subseteq {r}
    BY <1>3 DEF Known, Told, RunsOut
  <2>2. r.what.store = "activity" /\ day > Retention
    <3>1. r.at \in Nat
      BY <1>3 DEF HistoryInv, HistoryTyped, Known
    <3>2. r.what.store = "activity" /\ r.at + Retention < day
      BY <1>3 DEF RunsOut, ExpiresAt
    <3>3. QED
      BY <1>1, <3>1, <3>2
  <2>3. UNCHANGED <<script, reached, outcome, committed, day>>
    BY <1>3 DEF RunsOut
  <2>4. QED
    BY <1>1, <2>1, <2>2, <2>3, RecordsHistoryInv
<1>4. CASE NextDay \/ UNCHANGED historyVars
  <2>1. UNCHANGED <<script, reached, outcome, committed>> /\ day' \in Nat /\ day <= day'
    BY <1>1, <1>4 DEF NextDay, historyVars
  <2>2. Known' = Known /\ Told' = Told
    BY <1>4 DEF NextDay, historyVars, Known, Told
  <2>3. QED
    BY <2>1, <2>2, RecordsHistoryInv
<1>5. QED
  BY <1>2, <1>3, <1>4, ProceedHistoryInv, EndHistoryInv, DiesHistoryInv DEF HistoryNext

\* A history never tells of what has not happened, and leaves nothing out that was
\* answered as done but what MongoDB did not take and what is past its days
\* (user-activity-recorder.service.ts, audit-log.service.ts, the exception filter).
THEOREM HistoriesStaySound == HistorySpec => []HistorySound
<1>1. HistoryInv /\ [HistoryNext]_historyVars => HistoryInv'
  BY StepHistoryInv
<1>2. QED
  BY <1>1, InitHistoryInv, HistoryInvSound, PTL DEF HistorySpec

-------------------------------------------------------------------------------
(***************************************************************************)
(* The path of a request.                                                  *)
(***************************************************************************)

\* What a handler declares beyond the permissions, it or its class.
LEMMA DeclaredMarks ==
  ASSUME NEW own, NEW class, NEW mark \in {"write", "public", "no csrf", "limited", "owner"}
  PROVE  mark \in Declared(own, class) <=> mark \in own \/ mark \in class
<1>1. mark \notin Permissions
  BY DEF Permissions, OwnerOnly
<1>2. \A kind \in Kinds : mark \in kind <=> kind = {mark}
  BY <1>1 DEF Kinds
<1>3. {mark} \in Kinds
  BY DEF Kinds
<1>4. ASSUME mark \in Declared(own, class) PROVE mark \in own \/ mark \in class
  BY <1>4 DEF Declared
<1>5. ASSUME mark \in own PROVE mark \in Declared(own, class)
  <2>1. own \cap {mark} # {} /\ mark \in own \cap {mark}
    BY <1>5
  <2>. QED BY <1>3, <2>1 DEF Declared
<1>6. ASSUME mark \in class, mark \notin own PROVE mark \in Declared(own, class)
  <2>1. own \cap {mark} = {} /\ mark \in class \cap {mark}
    BY <1>6
  <2>. QED BY <1>3, <2>1 DEF Declared
<1>. QED BY <1>4, <1>5, <1>6

\* A handler that skips the CSRF check is open to all, with or without a limit.
Plain  == {Get, Write} \cup {ReadsWith(p) : p \in Permissions} \cup {WritesWith(p) : p \in Permissions}
Posts  == {OpenPost, OpenPost \cup {"limited"}}
Special == {Write \cup {"limited"}, Write \cup {"owner", "limited"}}
Plainly(controller) == \A h \in DOMAIN controller : controller[h] \in Plain \cup Posts \cup Special

\* A handler that skips the check is open.
LEMMA PlainIsShut == \A own \in Plain \cup Posts \cup Special : "no csrf" \in own => "public" \in own
<1>1. \A p \in Permissions : p # "no csrf"
  BY DEF Permissions, OwnerOnly
<1>2. "no csrf" \notin Get /\ "no csrf" \notin Write
  BY DEF Get, Write
<1>3. \A p \in Permissions : "no csrf" \notin ReadsWith(p) /\ "no csrf" \notin WritesWith(p)
  BY <1>1 DEF ReadsWith, WritesWith
<1>4. \A own \in Plain : "no csrf" \notin own
  BY <1>2, <1>3 DEF Plain
<1>5. \A own \in Special : "no csrf" \notin own
  <2>1. "no csrf" \notin Write \cup {"limited"} /\ "no csrf" \notin Write \cup {"owner", "limited"}
    BY <1>2
  <2>. QED BY <2>1 DEF Special
<1>6. "public" \in OpenPost
  BY DEF OpenPost
<1>7. \A own \in Posts : "public" \in own
  BY <1>6 DEF Posts
<1>. QED BY <1>4, <1>5, <1>7

\* No controller declares anything else.
LEMMA AllPlain == \A c \in DOMAIN Controllers : Plainly(Controllers[c])
<1>1. Plainly(AuthController)
  BY DEF Plainly, AuthController, Plain, Posts, Special, Permissions, OwnerOnly
<1>2. Plainly(SessionsController)
  BY DEF Plainly, SessionsController, Plain, Permissions, OwnerOnly
<1>3. Plainly(UsersController)
  BY DEF Plainly, UsersController, Plain, Permissions, OwnerOnly
<1>4. Plainly(AdminUsersController)
  BY DEF Plainly, AdminUsersController, Plain, Permissions, OwnerOnly
<1>5. Plainly(AdminAccountsController)
  BY DEF Plainly, AdminAccountsController, Plain, Permissions, OwnerOnly
<1>6. Plainly(AdminInvitationsController)
  BY DEF Plainly, AdminInvitationsController, Plain, Posts, Permissions, OwnerOnly
<1>7. Plainly(PermissionsController)
  BY DEF Plainly, PermissionsController, Plain, Permissions, OwnerOnly
<1>8. Plainly(RolesController)
  BY DEF Plainly, RolesController, Plain, Permissions, OwnerOnly
<1>9. Plainly(UserRolesController)
  BY DEF Plainly, UserRolesController, Plain, Permissions, OwnerOnly
<1>10. Plainly(LogsController)
  BY DEF Plainly, LogsController, Plain, Permissions, OwnerOnly
<1>11. Plainly(UserActivityController)
  BY DEF Plainly, UserActivityController, Plain, Permissions, OwnerOnly
<1>12. Plainly(AssetsController)
  BY DEF Plainly, AssetsController, Plain, Permissions, OwnerOnly
<1>13. Plainly(AssetSyncController)
  BY DEF Plainly, AssetSyncController, Plain, Special, Permissions, OwnerOnly
<1>14. Plainly(CoinsController)
  BY DEF Plainly, CoinsController, Plain, Permissions, OwnerOnly
<1>15. Plainly(PriceAlertsController)
  BY DEF Plainly, PriceAlertsController, Plain, Permissions, OwnerOnly
<1>16. Plainly(WalletsController)
  BY DEF Plainly, WalletsController, Plain, Permissions, OwnerOnly
<1>17. Plainly(PortfoliosController)
  BY DEF Plainly, PortfoliosController, Plain, Permissions, OwnerOnly
<1>18. Plainly(HoldingsController)
  BY DEF Plainly, HoldingsController, Plain, Permissions, OwnerOnly
<1>19. Plainly(PortfolioTransactionsController)
  BY DEF Plainly, PortfolioTransactionsController, Plain, Permissions, OwnerOnly
<1>20. Plainly(PortfolioOpeningBalancesController)
  BY DEF Plainly, PortfolioOpeningBalancesController, Plain, Permissions, OwnerOnly
<1>21. Plainly(PortfolioPnlController)
  BY DEF Plainly, PortfolioPnlController, Plain, Permissions, OwnerOnly
<1>22. Plainly(MarketOverviewController)
  BY DEF Plainly, MarketOverviewController, Plain, Permissions, OwnerOnly
<1>23. Plainly(BitcoinMarketController)
  BY DEF Plainly, BitcoinMarketController, Plain, Permissions, OwnerOnly
<1>24. Plainly(EthereumMarketController)
  BY DEF Plainly, EthereumMarketController, Plain, Permissions, OwnerOnly
<1>25. Plainly(UsdtTomanController)
  BY DEF Plainly, UsdtTomanController, Plain, Permissions, OwnerOnly
<1>26. Plainly(MarketSentimentController)
  BY DEF Plainly, MarketSentimentController, Plain, Permissions, OwnerOnly
<1>. QED
  BY <1>1, <1>2, <1>3, <1>4, <1>5, <1>6, <1>7, <1>8, <1>9, <1>10, <1>11, <1>12, <1>13, <1>14,
     <1>15, <1>16, <1>17, <1>18, <1>19, <1>20, <1>21, <1>22, <1>23, <1>24, <1>25, <1>26 DEF Controllers

\* No class declares that its handlers skip the check, or are open.
LEMMA WritesAreChecked ==
  \A r \in AllRoutes : "write" \in Marks[r] /\ "public" \notin Marks[r] => Checked(r)
<1> SUFFICES ASSUME NEW r \in AllRoutes, "public" \notin Marks[r] PROVE "no csrf" \notin Marks[r]
  BY DEF Checked
<1>1. PICK c \in DOMAIN Controllers : \E h \in DOMAIN Controllers[c] : r = <<c, h>>
  BY DEF AllRoutes
<1>h. PICK h \in DOMAIN Controllers[c] : r = <<c, h>>
  BY <1>1
<1>2. Marks[r] = Declared(Controllers[c][h], OfClass(c))
  BY <1>h DEF Marks
<1>3. "no csrf" \notin OfClass(c)
  BY DEF OfClass
<1>4. "public" \notin Controllers[c][h]
  BY <1>2, DeclaredMarks
<1>5. "no csrf" \notin Controllers[c][h]
  BY <1>4, AllPlain, PlainIsShut DEF Plainly
<1>. QED BY <1>2, <1>3, <1>5, DeclaredMarks

\* The routes that touch the cookies are routes, and signing out asks who is there.
LEMMA NamedRoutes == {Login, Rotate, Logout} \subseteq AllRoutes /\ Guarded(Logout)
<1>1. "auth" \in DOMAIN Controllers /\ "sessions" \in DOMAIN Controllers
  BY DEF Controllers
<1>2. Controllers["auth"] = AuthController /\ Controllers["sessions"] = SessionsController
  BY DEF Controllers
<1>3. {"loginUser", "refreshTokens"} \subseteq DOMAIN AuthController
  BY DEF AuthController
<1>4. "revokeSession" \in DOMAIN SessionsController /\ SessionsController["revokeSession"] = {"write"}
  BY DEF SessionsController, Write
<1>5. {Login, Rotate, Logout} \subseteq AllRoutes
  BY <1>1, <1>2, <1>3, <1>4 DEF AllRoutes, Login, Rotate, Logout
<1>6. Marks[Logout] = Declared({"write"}, OfClass("sessions"))
  BY <1>2, <1>4, <1>5 DEF Marks, Logout
<1>7. OfClass("sessions") = {}
  BY DEF OfClass
<1>8. "public" \notin Marks[Logout]
  BY <1>6, <1>7, DeclaredMarks
<1>. QED BY <1>5, <1>8 DEF Guarded

\* What a row answers for, at a time.
WasBegun(rows, s)    == rows[s].owner # Nobody
ActiveIn(rows, s, t) == rows[s].owner # Nobody /\ ~rows[s].over /\ rows[s].until > t

\* A cookie is of a session that was begun.
CookieOK(c, rows) == c \in CookieType /\ (c # NoCookie => WasBegun(rows, c.session))

\* The access token and the CSRF token come, go and count together.
PairSent(r, t) ==
  /\ r.set["access"] # NoCookie <=> r.set["csrf"] # NoCookie
  /\ "access" \in r.clear <=> "csrf" \in r.clear
  /\ r.set["access"] # NoCookie =>
       /\ r.set["access"].session = r.set["csrf"].session
       /\ r.set["access"].exp <= r.set["csrf"].exp /\ r.set["access"].exp <= t + RefreshLife
       /\ r.set["csrf"].age = RefreshLife
PairKept(j, t) ==
  j["access"] # NoCookie /\ j["access"].exp > t =>
    /\ j["csrf"] # NoCookie /\ j["access"].session = j["csrf"].session
    /\ j["access"].exp <= j["csrf"].exp /\ j["access"].exp <= j["csrf"].age
    /\ j["csrf"].age # AtClose

\* What the guards have established of a request, by how far it is.
Guards(v) ==
  /\ v.at = "reading" => v.cookies["access"] # NoCookie
  /\ v.at \in {"known", "ranked", "handled"} /\ Guarded(v.route) =>
       v.cookies["access"] # NoCookie /\ v.session # NoSession /\ v.role # Unread
  /\ v.at = "handled" =>
       /\ "write" \in Marks[v.route] /\ "public" \notin Marks[v.route] =>
            v.session = v.header.session
       /\ Marks[v.route] \cap Permissions \cap OwnerOnly # {} => v.role = "OWNER"

\* An answer clears what is spent.
SpentIn(c, rows, t) == ~(c # NoCookie /\ c.exp > t) \/ ~ActiveIn(rows, c.session, t)
ClearsSpent(v, rows, t) ==
  v.at = "answered" /\ v.reply.clear # {} =>
    IF v.route = Logout THEN v.session \in SessionId /\ ~ActiveIn(rows, v.session, t)
    ELSE SpentIn(v.cookies["refresh"], rows, t)

VisitOK(v, rows, t) ==
  /\ v \in VisitType
  /\ CookieOK(v.header, rows)
  /\ \A n \in CookieName : CookieOK(v.cookies[n], rows) /\ CookieOK(v.reply.set[n], rows)
  /\ v.session # NoSession => WasBegun(rows, v.session)
  /\ Guards(v) /\ ClearsSpent(v, rows, t) /\ PairSent(v.reply, t)

RequestInv ==
  /\ RequestTypeOK
  /\ \A n \in CookieName : CookieOK(jar[n], session)
  /\ PairKept(jar, instant)
  /\ \A p \in Tab : VisitOK(visit[p], session, instant)

\* The invariant gives the four properties.
LEMMA RequestInvSound == RequestInv => RequestsSound
<1> SUFFICES ASSUME RequestInv PROVE RequestsSound
  OBVIOUS
<1>1. MeantIsServed
  BY DEF RequestInv, VisitOK, Guards, MeantIsServed, MarksOf
<1>2. SignedInCanAct
  BY DEF RequestInv, RequestTypeOK, PairKept, SignedInCanAct, Counts, CookieType, Cookie, NoCookie, CookieName
<1>3. ClearedIsSpent
  BY DEF RequestInv, VisitOK, ClearsSpent, SpentIn, ActiveIn, ClearedIsSpent, SpentToken, Counts, Active,
         Offered, Presented
<1>4. ReservedToOwner
  BY DEF RequestInv, VisitOK, Guards, ReservedToOwner, Needs, MarksOf
<1>. QED BY <1>1, <1>2, <1>3, <1>4 DEF RequestsSound

\* No cookie is sound,
LEMMA NoCookieOK == NoCookie \in CookieType /\ \A rows : CookieOK(NoCookie, rows)
  BY DEF CookieType, CookieOK

\* and so is a page that asks for nothing.
LEMMA NoVisitOK ==
  ASSUME NEW rows, NEW t
  PROVE  VisitOK(NoVisit, rows, t)
<1>1. NoJar \in [CookieName -> CookieType] /\ \A n \in CookieName : NoJar[n] = NoCookie
  BY NoCookieOK DEF NoJar
<1>2. Silent \in [set : [CookieName -> CookieType], clear : SUBSET CookieName]
  BY <1>1 DEF Silent
<1>3. NoVisit \in VisitType
  BY <1>1, <1>2, NoCookieOK, NamedRoutes DEF NoVisit, VisitType
<1>4. CookieOK(NoVisit.header, rows) /\ NoVisit.session = NoSession
  BY NoCookieOK DEF NoVisit
<1>5. \A n \in CookieName : CookieOK(NoVisit.cookies[n], rows) /\ CookieOK(NoVisit.reply.set[n], rows)
  BY <1>1, NoCookieOK DEF NoVisit, Silent
<1>6. Guards(NoVisit) /\ ClearsSpent(NoVisit, rows, t)
  BY DEF NoVisit, Guards, ClearsSpent
<1>7. PairSent(NoVisit.reply, t)
  BY <1>1 DEF NoVisit, Silent, PairSent, CookieName
<1>. QED BY <1>3, <1>4, <1>5, <1>6, <1>7 DEF VisitOK

\* It holds before the first request.
LEMMA InitRequestInv == RequestInit => RequestInv
<1> SUFFICES ASSUME RequestInit PROVE RequestInv
  OBVIOUS
<1>1. jar \in [CookieName -> CookieType] /\ \A n \in CookieName : jar[n] = NoCookie
  BY NoCookieOK DEF RequestInit, NoJar
<1>2. \A p \in Tab : VisitOK(visit[p], session, instant)
  BY NoVisitOK DEF RequestInit
<1>3. visit \in [Tab -> VisitType]
  BY <1>2 DEF RequestInit, VisitOK
<1>4. session \in [SessionId -> RowType]
  BY RequestAssumption DEF RequestInit, NotStarted, RowType
<1>5. account \in [Account -> Standing]
  <2>1. \A a \in Account : Standings[a] \subseteq Standing
    BY RequestAssumption
  <2>2. account \in [Account -> UNION {Standings[a] : a \in Account}]
          /\ \A a \in Account : account[a] \in Standings[a]
    BY DEF RequestInit
  <2>. QED BY <2>1, <2>2
<1>6. issues \in 0..MaxIssues /\ instant \in 1..(MaxInstant + 1)
  BY RequestAssumption DEF RequestInit
<1>7. PairKept(jar, instant)
  BY <1>1 DEF PairKept, CookieName
<1>8. \A n \in CookieName : CookieOK(jar[n], session)
  BY <1>1, NoCookieOK
<1>. QED BY <1>1, <1>2, <1>3, <1>4, <1>5, <1>6, <1>7, <1>8 DEF RequestInv, RequestTypeOK

\* Rows only begin and end: what was begun stays so, and what is over stays so.
Grown(rows, next, t, u) ==
  /\ t \in Nat /\ u \in Nat /\ t <= u
  /\ \A s \in SessionId : WasBegun(rows, s) =>
       WasBegun(next, s) /\ (~ActiveIn(rows, s, t) => ~ActiveIn(next, s, u))

\* Rows grow: a cookie stays sound, and a spent one spent,
LEMMA CookieStaysOK ==
  ASSUME NEW rows, NEW next, NEW t, NEW u, Grown(rows, next, t, u), NEW c, CookieOK(c, rows)
  PROVE  CookieOK(c, next) /\ (SpentIn(c, rows, t) => SpentIn(c, next, u))
<1>1. CASE c = NoCookie
  BY <1>1, NoCookieOK DEF SpentIn
<1>2. CASE c # NoCookie
  <2>1. c.session \in SessionId /\ c.exp \in Nat /\ WasBegun(rows, c.session)
    BY <1>2 DEF CookieOK, CookieType
  <2>. QED BY <2>1 DEF CookieOK, Grown, SpentIn
<1>. QED BY <1>1, <1>2

\* and a request stays sound.
LEMMA VisitStaysOK ==
  ASSUME NEW rows, NEW next, NEW t, NEW u, Grown(rows, next, t, u), NEW v, VisitOK(v, rows, t)
  PROVE  VisitOK(v, next, u)
<1>1. /\ CookieOK(v.header, next)
      /\ \A n \in CookieName : CookieOK(v.cookies[n], next) /\ CookieOK(v.reply.set[n], next)
  BY CookieStaysOK DEF VisitOK
<1>2. v.session # NoSession => v.session \in SessionId /\ WasBegun(next, v.session)
  BY DEF VisitOK, VisitType, Grown
<1>3. ClearsSpent(v, next, u)
  <2>1. "refresh" \in CookieName
    BY DEF CookieName
  <2>2. SpentIn(v.cookies["refresh"], rows, t) => SpentIn(v.cookies["refresh"], next, u)
    BY <2>1, CookieStaysOK DEF VisitOK
  <2>3. v.session \in SessionId => v.session # NoSession
    BY RequestAssumption
  <2>4. v.session \in SessionId /\ ~ActiveIn(rows, v.session, t) => ~ActiveIn(next, v.session, u)
    BY <2>3 DEF Grown, VisitOK
  <2>. QED BY <2>2, <2>4 DEF ClearsSpent, VisitOK
<1>4. PairSent(v.reply, u)
  <2>1. v.reply.set["access"] # NoCookie => v.reply.set["access"].exp \in Nat
    BY DEF VisitOK, VisitType, CookieType, CookieName
  <2>. QED BY <2>1, RequestAssumption DEF VisitOK, PairSent, Grown
<1>. QED BY <1>1, <1>2, <1>3, <1>4 DEF VisitOK

\* Time goes on: the pair in the jar stays together.
LEMMA PairStaysKept ==
  ASSUME NEW j \in [CookieName -> CookieType], NEW t \in Nat, NEW u \in Nat, t <= u, PairKept(j, t)
  PROVE  PairKept(j, u)
<1>1. j["access"] # NoCookie => j["access"].exp \in Nat
  BY DEF CookieType, CookieName
<1>. QED BY <1>1 DEF PairKept

\* The parts of a step: a page moves on to a sound request, rows grow, and the rest is typed.
LEMMA KeepsRequestInv ==
  ASSUME RequestInv, Grown(session, session', instant, instant'),
         session' \in [SessionId -> RowType], account' \in [Account -> Standing],
         issues' \in 0..MaxIssues, instant' \in 1..(MaxInstant + 1),
         jar' \in [CookieName -> CookieType], PairKept(jar', instant'),
         \A n \in CookieName : CookieOK(jar'[n], session'),
         visit' \in [Tab -> VisitType],
         \A p \in Tab : visit'[p] = visit[p] \/ VisitOK(visit'[p], session', instant')
  PROVE  RequestInv'
<1>1. \A p \in Tab : VisitOK(visit[p], session', instant')
  BY VisitStaysOK DEF RequestInv
<1>2. \A p \in Tab : VisitOK(visit'[p], session', instant')
  BY <1>1
<1>. QED BY <1>2 DEF RequestInv, RequestTypeOK

\* Nothing but a request moves.
LEMMA OnlyVisitKeeps ==
  ASSUME RequestInv, OnlyVisit, NEW p \in Tab, NEW v, VisitOK(v, session, instant),
         visit' = [visit EXCEPT ![p] = v]
  PROVE  RequestInv'
<1>1. v \in VisitType
  BY DEF VisitOK
<1>2. visit' \in [Tab -> VisitType]
  BY <1>1 DEF RequestInv, RequestTypeOK
<1>3. \A q \in Tab : visit'[q] = visit[q] \/ visit'[q] = v
  BY DEF RequestInv, RequestTypeOK
<1>4. Grown(session, session', instant, instant')
  BY DEF OnlyVisit, Grown, ActiveIn, RequestInv, RequestTypeOK
<1>5. /\ session' = session /\ account' = account /\ issues' = issues /\ instant' = instant
      /\ jar' = jar
  BY DEF OnlyVisit
<1>6. \A q \in Tab : visit'[q] = visit[q] \/ VisitOK(visit'[q], session', instant')
  BY <1>3, <1>5
<1>. QED BY <1>2, <1>4, <1>5, <1>6, KeepsRequestInv DEF RequestInv, RequestTypeOK

\* A request that is refused, served or lost.
LEMMA DroppedKeeps ==
  ASSUME RequestInv, OnlyVisit, NEW p \in Tab, Dropped(p)
  PROVE  RequestInv'
  BY NoVisitOK, OnlyVisitKeeps DEF Dropped

\* A request that goes on, past what its guards ask.
LEMMA ReachesKeeps ==
  ASSUME RequestInv, OnlyVisit, NEW p \in Tab,
         NEW v \in VisitType, v.header = visit[p].header, v.cookies = visit[p].cookies,
         v.reply = visit[p].reply, v.session # NoSession => WasBegun(session, v.session),
         v.at # "answered", Guards(v), visit' = [visit EXCEPT ![p] = v]
  PROVE  RequestInv'
<1>1. VisitOK(visit[p], session, instant)
  BY DEF RequestInv
<1>2. ClearsSpent(v, session, instant)
  BY DEF ClearsSpent
<1>3. VisitOK(v, session, instant)
  BY <1>1, <1>2 DEF VisitOK
<1>. QED BY <1>3, OnlyVisitKeeps

\* One lemma for each step of a page, from here on.  A page reads the CSRF token.
LEMMA CopyTokenInv ==
  ASSUME RequestInv, NEW p \in Tab, NEW route \in Taken[p], CopyToken(p, route)
  PROVE  RequestInv'
<1> DEFINE v == [NoVisit EXCEPT !.at = "ready", !.route = route,
                   !.header = IF Checked(route) THEN jar["csrf"] ELSE NoCookie]
<1>1. route \in AllRoutes
  BY RequestAssumption
<1>2. CookieOK(v.header, session)
  BY NoCookieOK DEF RequestInv, CookieName, NoVisit
<1>3. VisitOK(NoVisit, session, instant)
  BY NoVisitOK
<1>4. v \in VisitType
  BY <1>1, <1>2, <1>3 DEF VisitOK, VisitType, CookieOK
<1>5. /\ v.at = "ready" /\ v.cookies = NoVisit.cookies /\ v.reply = NoVisit.reply
      /\ v.session = NoVisit.session
  BY <1>3 DEF VisitOK, VisitType
<1>6. Guards(v) /\ ClearsSpent(v, session, instant)
  BY <1>5 DEF Guards, ClearsSpent
<1> HIDE DEF v
<1>7. VisitOK(v, session, instant)
  BY <1>2, <1>3, <1>4, <1>5, <1>6 DEF VisitOK
<1>8. OnlyVisit /\ visit' = [visit EXCEPT ![p] = v]
  BY DEF CopyToken, v
<1>. QED BY <1>7, <1>8, OnlyVisitKeeps

\* It sends with the cookies the jar has.
LEMMA SendsInv ==
  ASSUME RequestInv, NEW p \in Tab, Sends(p)
  PROVE  RequestInv'
<1> DEFINE sent == [n \in CookieName |-> IF n \in Attached(visit[p].route) THEN jar[n] ELSE NoCookie]
           v    == [visit[p] EXCEPT !.at = "sent", !.cookies = sent]
<1>1. VisitOK(visit[p], session, instant)
  BY DEF RequestInv
<1>2. sent \in [CookieName -> CookieType] /\ \A n \in CookieName : CookieOK(sent[n], session)
  BY NoCookieOK DEF RequestInv, CookieOK
<1> HIDE DEF sent
<1>3. /\ v \in VisitType /\ v.at = "sent" /\ v.header = visit[p].header /\ v.cookies = sent
      /\ v.session = visit[p].session /\ v.reply = visit[p].reply
  BY <1>1, <1>2 DEF VisitOK, VisitType
<1>4. Guards(v) /\ ClearsSpent(v, session, instant)
  BY <1>3 DEF Guards, ClearsSpent
<1> HIDE DEF v
<1>5. VisitOK(v, session, instant)
  BY <1>1, <1>2, <1>3, <1>4 DEF VisitOK
<1>6. OnlyVisit /\ visit' = [visit EXCEPT ![p] = v]
  BY DEF Sends, v, sent, RequestInv, RequestTypeOK, VisitType
<1>. QED BY <1>5, <1>6, OnlyVisitKeeps

\* What a request carries as it goes on.
LEMMA GoneOn ==
  ASSUME RequestInv, NEW p \in Tab,
         NEW at \in {"known", "reading", "ranked", "handled"}, Reaches(p, at),
         OnlyVisit, NEW v, v = [visit[p] EXCEPT !.at = at], Guards(v)
  PROVE  RequestInv'
<1>1. VisitOK(visit[p], session, instant)
  BY DEF RequestInv
<1>2. /\ v \in VisitType /\ v.at = at /\ v.header = visit[p].header
      /\ v.cookies = visit[p].cookies /\ v.reply = visit[p].reply /\ v.session = visit[p].session
  BY <1>1 DEF VisitOK, VisitType
<1>3. v.session # NoSession => WasBegun(session, v.session)
  BY <1>1, <1>2 DEF VisitOK
<1>4. visit' = [visit EXCEPT ![p] = v]
  BY DEF Reaches, RequestInv, RequestTypeOK
<1>. QED BY <1>2, <1>3, <1>4, ReachesKeeps

\* The access token counts, or the request is refused.
LEMMA VerifyAccessInv ==
  ASSUME RequestInv, NEW p \in Tab, VerifyAccess(p)
  PROVE  RequestInv'
<1> DEFINE On(at) == [visit[p] EXCEPT !.at = at]
<1>1. VisitOK(visit[p], session, instant) /\ OnlyVisit
  BY DEF RequestInv, VerifyAccess
<1>2. ASSUME NEW at \in {"known", "reading"}
      PROVE  On(at).at = at /\ On(at).cookies = visit[p].cookies /\ On(at).route = visit[p].route
  BY <1>1 DEF VisitOK, VisitType
<1>3. CASE ~Guarded(visit[p].route)
  <2>1. Reaches(p, "known") /\ Guards(On("known"))
    BY <1>2, <1>3 DEF VerifyAccess, Guards
  <2>. QED BY <1>1, <2>1, GoneOn
<1>4. CASE Guarded(visit[p].route) /\ Counts(Presented(p, "access"))
  <2>1. Reaches(p, "reading") /\ Guards(On("reading"))
    BY <1>2, <1>4 DEF VerifyAccess, Guards, Counts, Presented
  <2>. QED BY <1>1, <2>1, GoneOn
<1>5. CASE Guarded(visit[p].route) /\ ~Counts(Presented(p, "access"))
  BY <1>1, <1>5, DroppedKeeps DEF VerifyAccess
<1>. QED BY <1>3, <1>4, <1>5

\* The account of a token is one that signed in.
LEMMA SubjectSignedIn ==
  ASSUME RequestInv, NEW p \in Tab, Presented(p, "access") # NoCookie
  PROVE  /\ Presented(p, "access").session \in SessionId
         /\ WasBegun(session, Presented(p, "access").session) /\ Subject(p) \in Account
<1>1. CookieOK(Presented(p, "access"), session)
  BY DEF RequestInv, VisitOK, Presented, CookieName
<1>2. Presented(p, "access").session \in SessionId /\ WasBegun(session, Presented(p, "access").session)
  BY <1>1 DEF CookieOK, CookieType
<1>. QED BY <1>2 DEF Subject, WasBegun, RequestInv, RequestTypeOK, RowType

\* The account is read.
LEMMA ReadUserInv ==
  ASSUME RequestInv, NEW p \in Tab, ReadUser(p)
  PROVE  RequestInv'
<1>1. VisitOK(visit[p], session, instant) /\ OnlyVisit /\ visit[p].at = "reading"
  BY DEF RequestInv, ReadUser
<1>2. Presented(p, "access") # NoCookie
  BY <1>1 DEF VisitOK, Guards, Presented
<1>3. account[Subject(p)].role \in Role /\ Unread \notin Role
  BY <1>2, SubjectSignedIn DEF RequestInv, RequestTypeOK, Standing, Unread, Role
<1>4. CASE account[Subject(p)].active
  <2> DEFINE at == IF visit[p].session = NoSession THEN "reading" ELSE "known"
             v  == [visit[p] EXCEPT !.role = account[Subject(p)].role, !.at = at]
  <2>1. /\ v \in VisitType /\ v.at = at /\ v.header = visit[p].header /\ v.route = visit[p].route
        /\ v.cookies = visit[p].cookies /\ v.reply = visit[p].reply /\ v.session = visit[p].session
        /\ v.role = account[Subject(p)].role
    BY <1>1, <1>3 DEF VisitOK, VisitType
  <2>2. visit' = [visit EXCEPT ![p] = v]
    BY <1>1, <1>4 DEF ReadUser, RequestInv, RequestTypeOK, VisitType
  <2>3. Guards(v)
    BY <1>2, <1>3, <2>1 DEF Guards, Presented
  <2>4. v.at # "answered" /\ (v.session # NoSession => WasBegun(session, v.session))
    BY <1>1, <2>1 DEF VisitOK
  <2> HIDE DEF v
  <2>. QED BY <1>1, <2>1, <2>2, <2>3, <2>4, ReachesKeeps
<1>5. CASE ~account[Subject(p)].active
  BY <1>1, <1>5, DroppedKeeps DEF ReadUser
<1>. QED BY <1>4, <1>5

\* The session is read.
LEMMA ReadSessionInv ==
  ASSUME RequestInv, NEW p \in Tab, ReadSession(p)
  PROVE  RequestInv'
<1>1. VisitOK(visit[p], session, instant) /\ OnlyVisit /\ visit[p].at = "reading"
  BY DEF RequestInv, ReadSession
<1>2. Presented(p, "access") # NoCookie
  BY <1>1 DEF VisitOK, Guards, Presented
<1>3. CASE Active(Presented(p, "access").session)
  <2> DEFINE s  == Presented(p, "access").session
             at == IF visit[p].role = Unread THEN "reading" ELSE "known"
             v  == [visit[p] EXCEPT !.session = s, !.at = at]
  <2>0. s \in SessionId /\ s # NoSession /\ WasBegun(session, s)
    BY <1>2, SubjectSignedIn, RequestAssumption
  <2> HIDE DEF s
  <2>1. /\ v \in VisitType /\ v.at = at /\ v.header = visit[p].header /\ v.route = visit[p].route
        /\ v.cookies = visit[p].cookies /\ v.reply = visit[p].reply /\ v.session = s
        /\ v.role = visit[p].role
    BY <1>1, <2>0 DEF VisitOK, VisitType
  <2>2. visit' = [visit EXCEPT ![p] = v]
    BY <1>1, <1>3 DEF ReadSession, RequestInv, RequestTypeOK, VisitType, s
  <2>3. Guards(v)
    BY <1>2, <2>0, <2>1 DEF Guards, Presented
  <2>4. v.at # "answered"
    BY <2>1
  <2> HIDE DEF v
  <2>. QED BY <1>1, <2>0, <2>1, <2>2, <2>3, <2>4, ReachesKeeps
<1>4. CASE ~Active(Presented(p, "access").session)
  BY <1>1, <1>4, DroppedKeeps DEF ReadSession
<1>. QED BY <1>3, <1>4

\* The limit and the rank.
LEMMA LimitAndRoleInv ==
  ASSUME RequestInv, NEW p \in Tab, LimitAndRole(p)
  PROVE  RequestInv'
<1>1. VisitOK(visit[p], session, instant) /\ OnlyVisit /\ visit[p].at = "known"
  BY DEF RequestInv, LimitAndRole
<1>2. CASE Reaches(p, "ranked")
  <2> DEFINE v == [visit[p] EXCEPT !.at = "ranked"]
  <2>1. /\ v.at = "ranked" /\ v.route = visit[p].route /\ v.cookies = visit[p].cookies
        /\ v.session = visit[p].session /\ v.role = visit[p].role
    BY <1>1 DEF VisitOK, VisitType
  <2>2. Guards(v)
    BY <1>1, <2>1 DEF Guards, VisitOK
  <2>. QED BY <1>1, <1>2, <2>2, GoneOn
<1>3. CASE Dropped(p)
  BY <1>1, <1>3, DroppedKeeps
<1>. QED BY <1>2, <1>3 DEF LimitAndRole

\* The permission and the CSRF token: what a handler may rely on is established here.
LEMMA AuthoriseInv ==
  ASSUME RequestInv, NEW p \in Tab, Authorise(p)
  PROVE  RequestInv'
<1>1. VisitOK(visit[p], session, instant) /\ OnlyVisit /\ visit[p].at = "ranked"
  BY DEF RequestInv, Authorise
<1>2. CASE Can(p) /\ CsrfPasses(p)
  <2> DEFINE v == [visit[p] EXCEPT !.at = "handled"]
  <2>1. /\ v.at = "handled" /\ v.route = visit[p].route /\ v.cookies = visit[p].cookies
        /\ v.session = visit[p].session /\ v.role = visit[p].role /\ v.header = visit[p].header
        /\ v.route \in AllRoutes
    BY <1>1 DEF VisitOK, VisitType
  <2>2. "write" \in Marks[v.route] /\ "public" \notin Marks[v.route] => v.session = v.header.session
    BY <1>2, <2>1, WritesAreChecked DEF CsrfPasses, CsrfValid, Matches
  <2>3. Marks[v.route] \cap Permissions \cap OwnerOnly # {} => v.role = "OWNER"
    BY <1>2, <2>1 DEF Can, Needs, MarksOf
  <2>4. Guarded(v.route) => v.cookies["access"] # NoCookie /\ v.session # NoSession /\ v.role # Unread
    BY <1>1, <2>1 DEF Guards, VisitOK
  <2>5. Guards(v)
    BY <2>1, <2>2, <2>3, <2>4 DEF Guards
  <2>6. Reaches(p, "handled")
    BY <1>2 DEF Authorise
  <2>. QED BY <1>1, <2>5, <2>6, GoneOn
<1>3. CASE ~(Can(p) /\ CsrfPasses(p))
  BY <1>1, <1>3, DroppedKeeps DEF Authorise
<1>. QED BY <1>2, <1>3

\* An answer, and what its handler made of the rows.
LEMMA AnswerKeeps ==
  ASSUME RequestInv, NEW p \in Tab, NEW reply, Answer(p, reply),
         visit[p].at = "handled",
         reply \in [set : [CookieName -> CookieType], clear : SUBSET CookieName],
         \A n \in CookieName : CookieOK(reply.set[n], session'), PairSent(reply, instant),
         reply.clear # {} =>
           IF visit[p].route = Logout
           THEN visit[p].session \in SessionId /\ ~ActiveIn(session', visit[p].session, instant)
           ELSE SpentIn(visit[p].cookies["refresh"], session', instant),
         Grown(session, session', instant, instant), session' \in [SessionId -> RowType],
         issues' \in 0..MaxIssues, UNCHANGED <<jar, account, instant>>
  PROVE  RequestInv'
<1> DEFINE v == [visit[p] EXCEPT !.at = "answered", !.reply = reply, !.header = NoCookie, !.role = Unread]
<1>1. VisitOK(visit[p], session, instant) /\ VisitOK(visit[p], session', instant)
  BY VisitStaysOK DEF RequestInv
<1>2. /\ v \in VisitType /\ v.at = "answered" /\ v.header = NoCookie /\ v.route = visit[p].route
      /\ v.cookies = visit[p].cookies /\ v.reply = reply /\ v.session = visit[p].session
  BY <1>1, NoCookieOK DEF VisitOK, VisitType
<1>3. visit' = [visit EXCEPT ![p] = v]
  BY DEF Answer, RequestInv, RequestTypeOK, VisitType
<1> HIDE DEF v
<1>4. Guards(v) /\ ClearsSpent(v, session', instant)
  BY <1>2 DEF Guards, ClearsSpent
<1>5. VisitOK(v, session', instant)
  BY <1>1, <1>2, <1>4, NoCookieOK DEF VisitOK
<1>6. visit' \in [Tab -> VisitType]
  BY <1>2, <1>3 DEF RequestInv, RequestTypeOK
<1>7. \A q \in Tab : visit'[q] = visit[q] \/ visit'[q] = v
  BY <1>3 DEF RequestInv, RequestTypeOK
<1>8. \A n \in CookieName : CookieOK(jar'[n], session')
  BY CookieStaysOK DEF RequestInv
<1>. QED BY <1>5, <1>6, <1>7, <1>8, KeepsRequestInv DEF RequestInv, RequestTypeOK

\* The tokens an answer brings are of a session that was begun.
LEMMA TokensOK ==
  ASSUME NEW s \in SessionId, NEW rows, WasBegun(rows, s), NEW issue \in 0..(2 * MaxIssues),
         NEW nonce \in 0..(2 * MaxIssues), NEW now \in Nat
  PROVE  LET reply == Brings(Tokens(s, issue, now, now, nonce)) IN
         /\ reply \in [set : [CookieName -> CookieType], clear : SUBSET CookieName]
         /\ \A n \in CookieName : CookieOK(reply.set[n], rows)
         /\ PairSent(reply, now) /\ reply.clear = {}
<1> DEFINE tokens == Tokens(s, issue, now, now, nonce)
           reply  == Brings(tokens)
<1> USE RequestAssumption
<1>1. AccessLife \in Nat /\ RefreshLife \in Nat /\ s # NoSession
  OBVIOUS
<1>2. /\ tokens["access"] = Cookie(s, issue, now + AccessLife, AccessLife)
      /\ tokens["refresh"] = Cookie(s, issue, now + RefreshLife, RefreshLife)
      /\ tokens["csrf"] = Cookie(s, nonce, now + RefreshLife, RefreshLife)
      /\ DOMAIN tokens = CookieName
  BY DEF Tokens, MaxAge, CookieName
<1>3. ASSUME NEW i \in 0..(2 * MaxIssues), NEW e \in Nat, NEW a \in Nat
      PROVE  /\ Cookie(s, i, e, a) \in CookieType /\ Cookie(s, i, e, a).session = s
             /\ Cookie(s, i, e, a) # NoCookie
  BY <1>1 DEF Cookie, CookieType, NoCookie
<1>4. \A n \in CookieName : tokens[n] \in CookieType /\ CookieOK(tokens[n], rows)
  BY <1>1, <1>2, <1>3 DEF CookieName, CookieOK
<1>5. tokens \in [CookieName -> CookieType]
  BY <1>2, <1>4 DEF Tokens, CookieName
<1>6. reply.set = tokens /\ reply.clear = {}
  BY DEF Brings
<1>7. reply \in [set : [CookieName -> CookieType], clear : SUBSET CookieName]
  BY <1>5 DEF Brings
<1>8. PairSent(reply, now)
  <2>1. now + AccessLife <= now + RefreshLife
    OBVIOUS
  <2>2. /\ tokens["access"].session = s /\ tokens["access"].exp = now + AccessLife
        /\ tokens["csrf"].session = s /\ tokens["csrf"].exp = now + RefreshLife
        /\ tokens["csrf"].age = RefreshLife /\ tokens["access"] # NoCookie /\ tokens["csrf"] # NoCookie
    BY <1>1, <1>2, <1>3 DEF Cookie
  <2> HIDE DEF tokens, reply
  <2>. QED BY <1>6, <2>1, <2>2 DEF PairSent
<1>. QED BY <1>4, <1>6, <1>7, <1>8

\* An answer that clears brings nothing.
LEMMA ClearsOK ==
  ASSUME NEW names \in {{"refresh"}, CookieName}, NEW rows, NEW t
  PROVE  LET reply == Clears(names) IN
         /\ reply \in [set : [CookieName -> CookieType], clear : SUBSET CookieName]
         /\ \A n \in CookieName : CookieOK(reply.set[n], rows)
         /\ PairSent(reply, t)
<1>1. NoJar \in [CookieName -> CookieType] /\ \A n \in CookieName : NoJar[n] = NoCookie
  BY NoCookieOK DEF NoJar
<1>2. {"refresh"} \subseteq CookieName
  BY DEF CookieName
<1>3. Clears(names) = [set |-> NoJar, clear |-> names]
  BY DEF Clears
<1>4. PairSent(Clears(names), t)
  BY <1>1, <1>3 DEF PairSent, CookieName
<1>. QED BY <1>1, <1>2, <1>3, <1>4, NoCookieOK

\* A session begins.
LEMMA SignInInv ==
  ASSUME RequestInv, NEW p \in Tab, NEW a \in Account, NEW s \in SessionId, SignIn(p, a, s)
  PROVE  RequestInv'
<1> DEFINE newRow == [owner |-> a, over |-> FALSE, until |-> instant + RefreshLife, issue |-> issues + 1,
                   last |-> 0, at |-> instant]
<1>1. /\ visit[p].at = "handled" /\ session[s] = NotStarted /\ session' = [session EXCEPT ![s] = newRow]
      /\ Answer(p, NewTokens(s)) /\ issues' = issues + 1 /\ issues < MaxIssues
      /\ UNCHANGED <<jar, account, instant>>
  BY DEF SignIn
<1>2. issues + 1 \in 0..MaxIssues /\ issues + 1 \in 0..(2 * MaxIssues) /\ instant \in Nat
  BY <1>1, RequestAssumption DEF RequestInv, RequestTypeOK
<1>3. newRow \in RowType /\ newRow.owner # Nobody
  BY <1>2, RequestAssumption DEF RowType
<1> HIDE DEF newRow
<1>4. /\ session' \in [SessionId -> RowType] /\ session'[s] = newRow
      /\ \A r \in SessionId : r # s => session'[r] = session[r]
  BY <1>1, <1>3 DEF RequestInv, RequestTypeOK
<1>5. Grown(session, session', instant, instant')
  BY <1>1, <1>2, <1>4 DEF Grown, ActiveIn, WasBegun, NotStarted
<1>6. WasBegun(session', s)
  BY <1>3, <1>4 DEF WasBegun
<1>. QED BY <1>1, <1>2, <1>4, <1>5, <1>6, TokensOK, AnswerKeeps DEF NewTokens

\* The refresh token of a request is of a session that was begun.
LEMMA OfferedIsBegun ==
  ASSUME RequestInv, NEW p \in Tab, Backed(p)
  PROVE  /\ Offered(p) # NoCookie /\ Offered(p).session \in SessionId
         /\ Offered(p).issue \in 0..(2 * MaxIssues) /\ WasBegun(session, Offered(p).session)
<1>1. CookieOK(Offered(p), session) /\ Offered(p) # NoCookie
  BY DEF RequestInv, VisitOK, Offered, Presented, CookieName, Backed, Counts
<1>. QED BY <1>1 DEF CookieOK, CookieType

\* A token is exchanged.
LEMMA RotatesInv ==
  ASSUME RequestInv, NEW p \in Tab, Rotates(p)
  PROVE  RequestInv'
<1> DEFINE s   == Offered(p).session
           newRow == [session[s] EXCEPT !.until = instant + RefreshLife, !.issue = issues + 1,
                                     !.last = Offered(p).issue, !.at = instant]
<1>1. /\ visit[p].at = "handled" /\ Backed(p) /\ Answer(p, NewTokens(s)) /\ issues' = issues + 1
      /\ Offered(p).issue = session[s].issue /\ issues < MaxIssues /\ UNCHANGED <<jar, account, instant>>
  BY DEF Rotates, Refreshes
<1>2. s \in SessionId /\ WasBegun(session, s) /\ ActiveIn(session, s, instant)
  BY <1>1, OfferedIsBegun DEF Backed, Active, ActiveIn
<1>3. session' = [session EXCEPT ![s] = newRow]
  BY <1>2 DEF Rotates, RequestInv, RequestTypeOK, RowType
<1>4. issues + 1 \in 0..MaxIssues /\ issues + 1 \in 0..(2 * MaxIssues) /\ instant \in Nat
  BY <1>1, RequestAssumption DEF RequestInv, RequestTypeOK
<1>5. session[s] \in RowType
  BY <1>2 DEF RequestInv, RequestTypeOK
<1>a. Offered(p).issue \in 0..MaxIssues /\ instant + RefreshLife \in Nat /\ issues' \in 0..MaxIssues
  BY <1>1, <1>4, <1>5, RequestAssumption DEF RowType
<1>b. issues + 1 = issues'
  BY <1>1
<1> HIDE DEF s
<1>6. newRow \in RowType /\ newRow.owner = session[s].owner
  BY <1>a, <1>b, <1>4, <1>5 DEF RowType
<1> HIDE DEF newRow
<1>7. /\ session' \in [SessionId -> RowType] /\ session'[s] = newRow
      /\ \A r \in SessionId : r # s => session'[r] = session[r]
  BY <1>2, <1>3, <1>6 DEF RequestInv, RequestTypeOK
<1>8. Grown(session, session', instant, instant')
  BY <1>1, <1>2, <1>4, <1>6, <1>7 DEF Grown, ActiveIn, WasBegun
<1>9. WasBegun(session', s)
  BY <1>2, <1>6, <1>7 DEF WasBegun
<1>. QED BY <1>1, <1>2, <1>4, <1>7, <1>8, <1>9, TokensOK, AnswerKeeps DEF NewTokens

\* A step that leaves the rows alone.
LEMMA StillGrown ==
  ASSUME RequestInv, OnlyVisit
  PROVE  /\ Grown(session, session', instant, instant') /\ session' \in [SessionId -> RowType]
         /\ issues' \in 0..MaxIssues /\ UNCHANGED <<jar, account, instant>>
  BY DEF RequestInv, RequestTypeOK, OnlyVisit, Grown, ActiveIn, WasBegun

\* The tokens of the rotation that won.
LEMMA ReplaysInv ==
  ASSUME RequestInv, NEW p \in Tab, Replays(p)
  PROVE  RequestInv'
<1> DEFINE s == Offered(p).session
<1>1. /\ visit[p].at = "handled" /\ Backed(p) /\ session[s].at = instant /\ OnlyVisit
      /\ Answer(p, Brings(Tokens(s, session[s].issue, instant, instant, Nonce(s))))
  BY DEF Replays, Refreshes
<1>2. s \in SessionId /\ WasBegun(session, s)
  BY <1>1, OfferedIsBegun
<1>3. session[s].issue \in 0..(2 * MaxIssues) /\ Nonce(s) \in 0..(2 * MaxIssues) /\ instant \in Nat
  BY <1>2, RequestAssumption DEF RequestInv, RequestTypeOK, RowType, Nonce
<1>4. session' = session
  BY <1>1 DEF OnlyVisit
<1> HIDE DEF s
<1> DEFINE reply == Brings(Tokens(s, session[s].issue, instant, instant, Nonce(s)))
<1>5. /\ reply \in [set : [CookieName -> CookieType], clear : SUBSET CookieName]
      /\ \A n \in CookieName : CookieOK(reply.set[n], session)
      /\ PairSent(reply, instant) /\ reply.clear = {}
  BY <1>2, <1>3, TokensOK
<1>6. Answer(p, reply)
  BY <1>1
<1> HIDE DEF reply
<1>. QED BY <1>1, <1>4, <1>5, <1>6, StillGrown, AnswerKeeps

\* A session ends.
LEMMA EndedGrown ==
  ASSUME RequestInv, NEW s \in SessionId, session' = [session EXCEPT ![s].over = TRUE],
         instant' = instant
  PROVE  /\ Grown(session, session', instant, instant') /\ session' \in [SessionId -> RowType]
         /\ ~ActiveIn(session', s, instant)
<1>1. \A r \in SessionId : session[r] \in RowType
  BY DEF RequestInv, RequestTypeOK
<1> DEFINE newRow == [session[s] EXCEPT !.over = TRUE]
<1>2. newRow \in RowType /\ newRow.owner = session[s].owner /\ newRow.over = TRUE /\ newRow.until = session[s].until
  BY <1>1 DEF RowType
<1> HIDE DEF newRow
<1>3. /\ session' \in [SessionId -> RowType] /\ session'[s] = newRow
      /\ \A r \in SessionId : r # s => session'[r] = session[r]
  BY <1>2 DEF RequestInv, RequestTypeOK, newRow
<1>4. instant \in Nat
  BY RequestAssumption DEF RequestInv, RequestTypeOK
<1>. QED BY <1>2, <1>3, <1>4 DEF Grown, ActiveIn, WasBegun

\* Two routes.
LEMMA RotateIsNoLogout == Rotate # Logout
  BY DEF Rotate, Logout

\* A spent token ends its session.
LEMMA ReusesTokenInv ==
  ASSUME RequestInv, NEW p \in Tab, ReusesToken(p)
  PROVE  RequestInv'
<1>1. /\ visit[p].at = "handled" /\ visit[p].route # Logout /\ Backed(p)
      /\ Answer(p, Clears({"refresh"})) /\ UNCHANGED <<jar, account, issues, instant>>
      /\ session' = [session EXCEPT ![Offered(p).session].over = TRUE]
  BY RotateIsNoLogout DEF ReusesToken, Refreshes
<1>2. Offered(p).session \in SessionId
  BY <1>1, OfferedIsBegun
<1>3. /\ Grown(session, session', instant, instant') /\ session' \in [SessionId -> RowType]
      /\ ~ActiveIn(session', Offered(p).session, instant)
  BY <1>1, <1>2, EndedGrown
<1>4. SpentIn(visit[p].cookies["refresh"], session', instant)
  BY <1>3 DEF SpentIn, Offered, Presented
<1>5. issues' \in 0..MaxIssues
  BY <1>1 DEF RequestInv, RequestTypeOK
<1>. QED BY <1>1, <1>3, <1>4, <1>5, ClearsOK, AnswerKeeps

\* A token that is no good is cleared.
LEMMA RefusesTokenInv ==
  ASSUME RequestInv, NEW p \in Tab, RefusesToken(p)
  PROVE  RequestInv'
<1>1. /\ visit[p].at = "handled" /\ visit[p].route # Logout /\ ~Backed(p) /\ OnlyVisit
      /\ Answer(p, Clears({"refresh"}))
  BY RotateIsNoLogout DEF RefusesToken, Refreshes
<1>2. SpentIn(visit[p].cookies["refresh"], session', instant)
  BY <1>1 DEF SpentIn, ActiveIn, Backed, Counts, Active, Offered, Presented, OnlyVisit
<1>. QED BY <1>1, <1>2, StillGrown, ClearsOK, AnswerKeeps

\* Signing out ends the session of the caller.
LEMMA SignOutInv ==
  ASSUME RequestInv, NEW p \in Tab, SignOut(p)
  PROVE  RequestInv'
<1>1. /\ visit[p].at = "handled" /\ visit[p].route = Logout /\ Answer(p, Clears(CookieName))
      /\ session' = [session EXCEPT ![visit[p].session].over = TRUE]
      /\ UNCHANGED <<jar, account, issues, instant>>
  BY DEF SignOut
<1>2. visit[p].session \in SessionId
  BY <1>1, NamedRoutes DEF RequestInv, VisitOK, VisitType, Guards
<1>3. /\ Grown(session, session', instant, instant') /\ session' \in [SessionId -> RowType]
      /\ ~ActiveIn(session', visit[p].session, instant)
  BY <1>1, <1>2, EndedGrown
<1>4. issues' \in 0..MaxIssues
  BY <1>1 DEF RequestInv, RequestTypeOK
<1>. QED BY <1>1, <1>2, <1>3, <1>4, ClearsOK, AnswerKeeps

\* The jar keeps the pair of an answer together.
LEMMA ReceiveInv ==
  ASSUME RequestInv, NEW p \in Tab, Receive(p)
  PROVE  RequestInv'
<1> DEFINE r == visit[p].reply
<1>1. /\ VisitOK(visit[p], session, instant) /\ instant \in Nat
      /\ r \in [set : [CookieName -> CookieType], clear : SUBSET CookieName]
  BY RequestAssumption DEF RequestInv, RequestTypeOK, VisitOK, VisitType
<1>2. ASSUME NEW c, CookieOK(c, session), c # NoCookie
      PROVE  /\ CookieOK(Stored(c), session) /\ Stored(c) # NoCookie /\ Stored(c).session = c.session
             /\ Stored(c).exp = c.exp /\ (c.age # AtClose => Stored(c).age = instant + c.age)
  <2>1. c \in [session : SessionId, issue : 0..(2 * MaxIssues), exp : Nat, age : Nat]
    BY <1>2 DEF CookieOK, CookieType
  <2>2. Stored(c) \in [session : SessionId, issue : 0..(2 * MaxIssues), exp : Nat, age : Nat]
          /\ Stored(c).session = c.session /\ Stored(c).exp = c.exp
          /\ (c.age # AtClose => Stored(c).age = instant + c.age)
    BY <1>1, <2>1 DEF Stored, AtClose
  <2>3. Stored(c) # NoCookie
    BY <2>2, RequestAssumption DEF NoCookie, Cookie
  <2>. QED BY <1>2, <2>2, <2>3 DEF CookieOK, CookieType
<1>3. \A n \in CookieName : jar'[n] = IF n \in r.clear THEN NoCookie
                                     ELSE IF r.set[n] # NoCookie THEN Stored(r.set[n]) ELSE jar[n]
  BY DEF Receive
<1>4. \A n \in CookieName : CookieOK(r.set[n], session) /\ CookieOK(jar[n], session)
  BY <1>1 DEF VisitOK, RequestInv
<1> HIDE DEF r
<1>5. \A n \in CookieName : CookieOK(jar'[n], session)
  BY <1>2, <1>3, <1>4, NoCookieOK
<1>6. jar' \in [CookieName -> CookieType]
  BY <1>5 DEF Receive, CookieOK
<1>7. PairSent(r, instant) /\ PairKept(jar, instant)
  BY <1>1 DEF VisitOK, RequestInv, r
<1>8. PairKept(jar', instant)
  <2> SUFFICES ASSUME jar'["access"] # NoCookie, jar'["access"].exp > instant
               PROVE  /\ jar'["csrf"] # NoCookie /\ jar'["access"].session = jar'["csrf"].session
                      /\ jar'["access"].exp <= jar'["csrf"].exp /\ jar'["access"].exp <= jar'["csrf"].age
                      /\ jar'["csrf"].age # AtClose
    BY DEF PairKept
  <2>1. "access" \in CookieName /\ "csrf" \in CookieName
    BY DEF CookieName
  <2>2. "access" \notin r.clear /\ "csrf" \notin r.clear
    BY <1>3, <1>7, <2>1 DEF PairSent
  <2>3. CASE r.set["access"] # NoCookie
    <3>1. /\ r.set["csrf"] # NoCookie /\ r.set["access"].session = r.set["csrf"].session
          /\ r.set["access"].exp <= r.set["csrf"].exp /\ r.set["access"].exp <= instant + RefreshLife
          /\ r.set["csrf"].age = RefreshLife
      BY <1>7, <2>3 DEF PairSent
    <3>2. RefreshLife # AtClose /\ RefreshLife \in Nat /\ RefreshLife > 0
      BY RequestAssumption DEF AtClose
    <3>3. /\ jar'["access"] = Stored(r.set["access"]) /\ jar'["csrf"] = Stored(r.set["csrf"])
          /\ Stored(r.set["csrf"]) # NoCookie
          /\ Stored(r.set["csrf"]).session = r.set["csrf"].session
          /\ Stored(r.set["csrf"]).exp = r.set["csrf"].exp
          /\ Stored(r.set["csrf"]).age = instant + RefreshLife
      BY <1>2, <1>3, <1>4, <2>1, <2>2, <2>3, <3>1, <3>2
    <3>4. Stored(r.set["access"]).session = r.set["access"].session
            /\ Stored(r.set["access"]).exp = r.set["access"].exp
      BY <1>2, <1>4, <2>1, <2>3
    <3>5. instant + RefreshLife # AtClose
      BY <1>1, <3>2 DEF AtClose
    <3>. QED BY <3>1, <3>3, <3>4, <3>5
  <2>4. CASE r.set["access"] = NoCookie
    <3>1. r.set["csrf"] = NoCookie
      BY <1>7, <2>4 DEF PairSent
    <3>2. jar'["access"] = jar["access"] /\ jar'["csrf"] = jar["csrf"]
      BY <1>3, <2>1, <2>2, <2>4, <3>1
    <3>. QED BY <1>7, <3>2 DEF PairKept
  <2>. QED BY <2>3, <2>4
<1>9. /\ UNCHANGED <<session, account, issues, instant>> /\ Grown(session, session', instant, instant')
      /\ visit' = [visit EXCEPT ![p] = NoVisit]
  BY <1>1 DEF Receive, Dropped, Grown, WasBegun, ActiveIn
<1>10. /\ visit' \in [Tab -> VisitType]
       /\ \A q \in Tab : visit'[q] = visit[q] \/ visit'[q] = NoVisit
  BY <1>9, NoVisitOK DEF VisitOK, RequestInv, RequestTypeOK
<1>. QED BY <1>5, <1>6, <1>8, <1>9, <1>10, NoVisitOK, KeepsRequestInv DEF RequestInv, RequestTypeOK

\* What sets no cookie.
LEMMA OthersInv ==
  ASSUME RequestInv, NEW p \in Tab, Breaks5xx(p) \/ Serves(p) \/ Loses(p)
  PROVE  RequestInv'
  BY DroppedKeeps DEF Breaks5xx, Serves, Loses

\* The browser is closed: a cookie without a maxAge goes, and the CSRF token has one.
LEMMA CloseBrowserInv == RequestInv /\ CloseBrowser => RequestInv'
<1> SUFFICES ASSUME RequestInv, CloseBrowser PROVE RequestInv'
  OBVIOUS
<1>1. /\ UNCHANGED <<session, account, issues, instant>> /\ Grown(session, session', instant, instant')
  BY RequestAssumption DEF CloseBrowser, Grown, WasBegun, ActiveIn, RequestInv, RequestTypeOK
<1>2. \A n \in CookieName : jar'[n] = IF jar[n].age = AtClose THEN NoCookie ELSE jar[n]
  BY DEF CloseBrowser
<1>3. \A n \in CookieName : CookieOK(jar'[n], session)
  BY <1>2, NoCookieOK DEF RequestInv
<1>4. jar' \in [CookieName -> CookieType]
  BY <1>3 DEF CloseBrowser, CookieOK
<1>5. PairKept(jar', instant)
  <2>1. "access" \in CookieName /\ "csrf" \in CookieName
    BY DEF CookieName
  <2>2. PairKept(jar, instant)
    BY DEF RequestInv
  <2>. QED BY <1>2, <2>1, <2>2 DEF PairKept
<1>6. \A p \in Tab : visit'[p] = visit[p] \/ visit'[p] = NoVisit
  BY DEF CloseBrowser
<1>7. visit' \in [Tab -> VisitType]
  BY <1>6, NoVisitOK DEF CloseBrowser, VisitOK, RequestInv, RequestTypeOK
<1>. QED BY <1>1, <1>3, <1>4, <1>5, <1>6, <1>7, NoVisitOK, KeepsRequestInv DEF RequestInv, RequestTypeOK

\* A session ends elsewhere.
LEMMA EndsElsewhereInv ==
  ASSUME RequestInv, NEW s \in SessionId, EndsElsewhere(s)
  PROVE  RequestInv'
<1>1. /\ session' = [session EXCEPT ![s].over = TRUE]
      /\ UNCHANGED <<jar, visit, account, issues, instant>>
  BY DEF EndsElsewhere
<1>2. Grown(session, session', instant, instant') /\ session' \in [SessionId -> RowType]
  BY <1>1, EndedGrown
<1>3. \A n \in CookieName : CookieOK(jar'[n], session')
  BY <1>1, <1>2, CookieStaysOK DEF RequestInv
<1>. QED BY <1>1, <1>2, <1>3, KeepsRequestInv DEF RequestInv, RequestTypeOK

\* A standing changes.
LEMMA ChangesStandingInv ==
  ASSUME RequestInv, NEW a \in Account, ChangesStanding(a)
  PROVE  RequestInv'
<1>1. UNCHANGED <<jar, visit, session, issues, instant>>
  BY DEF ChangesStanding
<1>2. PICK standing \in Standings[a] : account' = [account EXCEPT ![a] = standing]
  BY DEF ChangesStanding
<1>3. standing \in Standing
  BY RequestAssumption
<1>4. account' \in [Account -> Standing]
  BY <1>2, <1>3 DEF RequestInv, RequestTypeOK
<1>5. Grown(session, session', instant, instant')
  BY <1>1, RequestAssumption DEF Grown, WasBegun, ActiveIn, RequestInv, RequestTypeOK
<1>. QED BY <1>1, <1>4, <1>5, KeepsRequestInv DEF RequestInv, RequestTypeOK

\* Time goes on: the CSRF token outlives the access token.
LEMMA TicksInv == RequestInv /\ Ticks => RequestInv'
<1> SUFFICES ASSUME RequestInv, Ticks PROVE RequestInv'
  OBVIOUS
<1>1. /\ UNCHANGED <<visit, session, account, issues>> /\ instant' = instant + 1
      /\ instant \in Nat /\ instant' \in 1..(MaxInstant + 1) /\ instant' \in Nat /\ instant <= instant'
  BY RequestAssumption DEF Ticks, RequestInv, RequestTypeOK
<1>2. Grown(session, session', instant, instant')
  <2>1. \A s \in SessionId : session[s].until \in Nat
    BY DEF RequestInv, RequestTypeOK, RowType
  <2>. QED BY <1>1, <2>1 DEF Grown, WasBegun, ActiveIn
<1>3. \A n \in CookieName : jar'[n] = IF jar[n].age # AtClose /\ jar[n].age <= instant'
                                     THEN NoCookie ELSE jar[n]
  BY DEF Ticks
<1>4. \A n \in CookieName : CookieOK(jar'[n], session)
  BY <1>3, NoCookieOK DEF RequestInv
<1>5. jar' \in [CookieName -> CookieType]
  BY <1>4 DEF Ticks, CookieOK
<1>6. PairKept(jar', instant')
  <2>1. "access" \in CookieName /\ "csrf" \in CookieName
    BY DEF CookieName
  <2>2. PairKept(jar, instant')
    BY <1>1, PairStaysKept DEF RequestInv, RequestTypeOK
  <2>3. \A n \in CookieName : jar[n] # NoCookie => jar[n].exp \in Nat /\ jar[n].age \in Nat
    BY DEF RequestInv, RequestTypeOK, CookieType
  <2> SUFFICES ASSUME jar'["access"] # NoCookie, jar'["access"].exp > instant'
               PROVE  /\ jar'["csrf"] # NoCookie /\ jar'["access"].session = jar'["csrf"].session
                      /\ jar'["access"].exp <= jar'["csrf"].exp /\ jar'["access"].exp <= jar'["csrf"].age
                      /\ jar'["csrf"].age # AtClose
    BY DEF PairKept
  <2>4. jar'["access"] = jar["access"] /\ jar["access"].exp \in Nat
    BY <1>3, <2>1, <2>3
  <2>5. /\ jar["csrf"] # NoCookie /\ jar["access"].session = jar["csrf"].session
        /\ jar["access"].exp <= jar["csrf"].exp /\ jar["access"].exp <= jar["csrf"].age
        /\ jar["csrf"].age # AtClose
    BY <2>2, <2>4 DEF PairKept
  <2>6. ~(jar["csrf"].age <= instant')
    BY <1>1, <2>1, <2>3, <2>4, <2>5
  <2>7. jar'["csrf"] = jar["csrf"]
    BY <1>3, <2>1, <2>6
  <2>. QED BY <2>4, <2>5, <2>7
<1>. QED BY <1>1, <1>2, <1>4, <1>5, <1>6, KeepsRequestInv DEF RequestInv, RequestTypeOK

\* Every step keeps the invariant.
LEMMA StepRequestInv == RequestInv /\ [RequestNext]_requestVars => RequestInv'
<1> SUFFICES ASSUME RequestInv, [RequestNext]_requestVars PROVE RequestInv'
  OBVIOUS
<1>1. ASSUME NEW p \in Tab, NEW route \in Taken[p], CopyToken(p, route) PROVE RequestInv'
  BY <1>1, CopyTokenInv
<1>2. ASSUME NEW p \in Tab, Sends(p) \/ VerifyAccess(p) \/ ReadUser(p) \/ ReadSession(p) PROVE RequestInv'
  BY <1>2, SendsInv, VerifyAccessInv, ReadUserInv, ReadSessionInv
<1>3. ASSUME NEW p \in Tab, LimitAndRole(p) \/ Authorise(p) \/ Breaks5xx(p) \/ Serves(p) \/ Loses(p)
      PROVE  RequestInv'
  BY <1>3, LimitAndRoleInv, AuthoriseInv, OthersInv
<1>4. ASSUME NEW p \in Tab, NEW a \in Account, NEW s \in SessionId, SignIn(p, a, s) PROVE RequestInv'
  BY <1>4, SignInInv
<1>5. ASSUME NEW p \in Tab, Rotates(p) \/ Replays(p) \/ ReusesToken(p) \/ RefusesToken(p) \/ SignOut(p)
      PROVE  RequestInv'
  BY <1>5, RotatesInv, ReplaysInv, ReusesTokenInv, RefusesTokenInv, SignOutInv
<1>6. ASSUME NEW p \in Tab, Receive(p) PROVE RequestInv'
  BY <1>6, ReceiveInv
<1>7. CASE CloseBrowser \/ Ticks
  BY <1>7, CloseBrowserInv, TicksInv
<1>8. ASSUME NEW s \in SessionId, EndsElsewhere(s) PROVE RequestInv'
  BY <1>8, EndsElsewhereInv
<1>9. ASSUME NEW a \in Account, ChangesStanding(a) PROVE RequestInv'
  BY <1>9, ChangesStandingInv
<1>10. CASE UNCHANGED requestVars
  <2>1. UNCHANGED <<jar, visit, session, account, issues, instant>>
    BY <1>10 DEF requestVars
  <2>2. Grown(session, session', instant, instant')
    BY <2>1, RequestAssumption DEF Grown, RequestInv, RequestTypeOK
  <2>. QED BY <2>1, <2>2, KeepsRequestInv DEF RequestInv, RequestTypeOK
<1>. QED BY <1>1, <1>2, <1>3, <1>4, <1>5, <1>6, <1>7, <1>8, <1>9, <1>10 DEF RequestNext

\* Whatever the pages receive and in what order, a change is made for the session it
\* was composed under, a browser that is signed in can make one, a refresh token is
\* taken only when spent, and what is the owner's has the owner as its caller
\* (CsrfGuard, PermissionGuard, AuthCookieService and the clearing interceptors).
THEOREM RequestsStaySound == RequestSpec => []RequestsSound
  BY InitRequestInv, StepRequestInv, RequestInvSound, PTL DEF RequestSpec

\* Cookies, requests, rows and standings keep their types.
THEOREM RequestsTyped == RequestSpec => []RequestTypeOK
<1>1. RequestInv => RequestTypeOK
  BY DEF RequestInv
<1>. QED BY <1>1, InitRequestInv, StepRequestInv, PTL DEF RequestSpec

-------------------------------------------------------------------------------
(***************************************************************************)
(* The services side by side: while one is at work the others stutter, so  *)
(* each of them follows its own specification and keeps what is proved of  *)
(* it above.                                                               *)
(***************************************************************************)

\* The bounds on positions: rows and changes.
HoldingBounded ==
  /\ portfolio \in [Portfolio -> {"unborn", "stored", "renamed", "deleted"}]
  /\ holding \in [Place -> {NoHolding} \cup [id : 1..MaxHoldings, amount : Amount]]
  /\ \A at \in Place : Len(entries[at]) <= MaxTrades
  /\ changes \in 0..MaxChanges

\* An update names a row that there has been.
NamesRow == \A c \in Investor \cup Viewer : call[c].kind = "update" => call[c].id \in 1..MaxHoldings

\* A change is counted.
LEMMA ChangedIsCounted ==
  ASSUME HoldingBounded, NEW assets, Changed(assets)
  PROVE  changes' \in 0..MaxChanges
  BY HoldingsAssumption DEF HoldingBounded, Changed

\* The ids left for a row are within the bound.
LEMMA UnusedIdIsBounded ==
  ASSUME UnusedIds # {}
  PROVE  Min(UnusedIds) \in 1..MaxHoldings
<1>1. UnusedIds \subseteq 1..MaxHoldings
  BY DEF UnusedIds
<1>2. UnusedIds \subseteq Nat
  BY <1>1
<1>3. Min(UnusedIds) \in UnusedIds
  BY <1>2, MinOfNaturals
<1>. QED BY <1>1, <1>3

\* Every step keeps the bounds.
LEMMA StepBounded == HoldingInv /\ HoldingBounded /\ NamesRow /\ [HoldingNext]_holdingVars => HoldingBounded'
<1> SUFFICES ASSUME HoldingInv, HoldingBounded, NamesRow, [HoldingNext]_holdingVars PROVE HoldingBounded'
  OBVIOUS
<1>1. ASSUME NEW p \in Portfolio, CreatePortfolio(p) \/ DeletePortfolio(p) PROVE HoldingBounded'
  <2>1. changes' \in 0..MaxChanges
    BY <1>1, ChangedIsCounted DEF CreatePortfolio, DeletePortfolio
  <2>. QED BY <1>1, <2>1 DEF HoldingBounded, CreatePortfolio, DeletePortfolio
<1>2. ASSUME NEW at \in Place, DeleteHolding(at) PROVE HoldingBounded'
  <2>1. changes' \in 0..MaxChanges
    BY <1>2, ChangedIsCounted DEF DeleteHolding
  <2>. QED BY <1>2, <2>1 DEF HoldingBounded, DeleteHolding
<1>3. ASSUME NEW at \in Place, RemoveTrade(at) PROVE HoldingBounded'
  <2>1. changes' \in 0..MaxChanges
    BY <1>3, ChangedIsCounted DEF RemoveTrade
  <2>2. PICK i \in DOMAIN entries[at] : entries' = [entries EXCEPT ![at] = RemoveAt(@, i)]
    BY <1>3 DEF RemoveTrade
  <2>3. entries[at] \in Seq(TradeRow) /\ Len(entries[at]) <= MaxTrades
    BY DEF HoldingInv, HoldingTyped, HoldingBounded
  <2>4. Len(RemoveAt(entries[at], i)) <= MaxTrades
    BY <2>2, <2>3, HoldingsAssumption DEF RemoveAt
  <2>5. \A b \in Place : Len(entries'[b]) <= MaxTrades
    BY <2>2, <2>4 DEF HoldingInv, HoldingTyped, HoldingBounded
  <2>. QED BY <1>3, <2>1, <2>5 DEF HoldingBounded, RemoveTrade
<1>4. ASSUME NEW at \in Place, NEW amount \in Amount, SetOpening(at, amount) PROVE HoldingBounded'
  <2>1. changes' \in 0..MaxChanges
    BY <1>4, ChangedIsCounted DEF SetOpening
  <2>. QED BY <1>4, <2>1 DEF HoldingBounded, SetOpening
<1>5. ASSUME NEW at \in Place, NEW amount \in Amount, NEW kind \in {"in", "out"}, RecordTrade(at, kind, amount)
      PROVE  HoldingBounded'
  <2>1. changes' \in 0..MaxChanges
    BY <1>5, ChangedIsCounted DEF RecordTrade
  <2>2. PICK i \in 1..Len(entries[at]) + 1 :
          entries' = [entries EXCEPT ![at] = InsertAt(@, i, [kind |-> kind, amount |-> amount])]
    BY <1>5 DEF RecordTrade
  <2>3. entries[at] \in Seq(TradeRow) /\ Len(entries[at]) < MaxTrades
    BY <1>5 DEF HoldingInv, HoldingTyped, RecordTrade
  <2>4. Len(InsertAt(entries[at], i, [kind |-> kind, amount |-> amount])) <= MaxTrades
    <3>1. [kind |-> kind, amount |-> amount] \in TradeRow
      BY DEF TradeRow
    <3>2. ASSUME NEW s \in Seq(TradeRow), NEW t \in TradeRow, NEW j \in 1..Len(s) + 1
          PROVE  Len(InsertAt(s, j, t)) = Len(s) + 1
      <4>1. SubSeq(s, 1, j - 1) \in Seq(TradeRow) /\ Len(SubSeq(s, 1, j - 1)) = j - 1
        OBVIOUS
      <4>2. SubSeq(s, j, Len(s)) \in Seq(TradeRow) /\ Len(SubSeq(s, j, Len(s))) = Len(s) - j + 1
        OBVIOUS
      <4>3. SubSeq(s, 1, j - 1) \o <<t>> \in Seq(TradeRow) /\ Len(SubSeq(s, 1, j - 1) \o <<t>>) = j
        BY <4>1
      <4>4. PICK a \in Seq(TradeRow) : a = SubSeq(s, 1, j - 1) \o <<t>>
        BY <4>3
      <4>5. PICK b \in Seq(TradeRow) : b = SubSeq(s, j, Len(s))
        BY <4>2
      <4>6. Len(a) = j /\ Len(b) = Len(s) - j + 1 /\ Len(a \o b) = Len(a) + Len(b)
        BY <4>2, <4>3, <4>4, <4>5
      <4>7. InsertAt(s, j, t) = a \o b
        BY <4>4, <4>5 DEF InsertAt
      <4>. QED BY <4>6, <4>7
    <3>3. Len(InsertAt(entries[at], i, [kind |-> kind, amount |-> amount])) = Len(entries[at]) + 1
      BY <2>3, <3>1, <3>2
    <3>. QED BY <2>3, <3>3, HoldingsAssumption
  <2>5. \A b \in Place : Len(entries'[b]) <= MaxTrades
    BY <2>2, <2>4 DEF HoldingInv, HoldingTyped, HoldingBounded
  <2>. QED BY <1>5, <2>1, <2>5 DEF HoldingBounded, RecordTrade
<1>6. ASSUME NEW a \in HeldAsset, SyncPrice(a) PROVE HoldingBounded'
  <2>1. changes' \in 0..MaxChanges
    BY <1>6, ChangedIsCounted DEF SyncPrice
  <2>. QED BY <1>6, <2>1 DEF HoldingBounded, SyncPrice
<1>7. ASSUME NEW c \in Investor, InsertHolding(c) PROVE HoldingBounded'
  <2>1. changes' \in 0..MaxChanges
    BY <1>7, ChangedIsCounted DEF InsertHolding, HoldingBounded
  <2>2. CASE UNCHANGED holding
    BY <1>7, <2>1, <2>2 DEF HoldingBounded, InsertHolding
  <2>3. CASE ~(UNCHANGED holding)
    <3>1. /\ UnusedIds # {}
          /\ holding' = [holding EXCEPT ![call[c].at] = [id |-> Min(UnusedIds), amount |-> call[c].amount]]
      BY <1>7, <2>3 DEF InsertHolding
    <3>2. call[c] \in ChangeCall /\ call[c].kind = "create"
      BY <1>7 DEF InsertHolding, HoldingInv, HoldingTyped, NoCall, PositionCall
    <3>3. call[c].amount \in Amount
      BY <3>2 DEF ChangeCall
    <3>4. Min(UnusedIds) \in 1..MaxHoldings
      BY <3>1, UnusedIdIsBounded
    <3>5. holding' \in [Place -> {NoHolding} \cup [id : 1..MaxHoldings, amount : Amount]]
      BY <3>1, <3>3, <3>4 DEF HoldingBounded
    <3>. QED BY <1>7, <2>1, <3>5 DEF HoldingBounded, InsertHolding
  <2>. QED BY <2>2, <2>3
<1>8. ASSUME NEW c \in Investor, WriteHolding(c) PROVE HoldingBounded'
  <2>1. changes' \in 0..MaxChanges
    BY <1>8, ChangedIsCounted DEF WriteHolding, HoldingBounded
  <2>2. CASE UNCHANGED holding
    BY <1>8, <2>1, <2>2 DEF HoldingBounded, WriteHolding
  <2>3. CASE ~(UNCHANGED holding)
    <3>1. call[c] \in ChangeCall /\ call[c].kind = "update"
      BY <1>8 DEF WriteHolding, HoldingInv, HoldingTyped, NoCall, PositionCall
    <3>2. call[c].amount \in Amount /\ call[c].at \in Place /\ call[c].id \in Nat
      BY <3>1 DEF ChangeCall
    <3>3. PICK at \in Place : at = call[c].at
      BY <3>2
    <3>4. holding[at].id = call[c].id /\ holding' = [holding EXCEPT ![at] = [holding[at] EXCEPT !.amount = call[c].amount]]
      BY <1>8, <2>3, <3>3 DEF WriteHolding
    <3>5. call[c].id \in 1..MaxHoldings
      BY <3>1 DEF NamesRow
    <3>6. [holding[at] EXCEPT !.amount = call[c].amount] \in [id : 1..MaxHoldings, amount : Amount]
      BY <3>2, <3>4, <3>5 DEF HoldingBounded, NoHolding
    <3>7. holding' \in [Place -> {NoHolding} \cup [id : 1..MaxHoldings, amount : Amount]]
      BY <3>4, <3>6 DEF HoldingBounded
    <3>. QED BY <1>8, <2>1, <3>7 DEF HoldingBounded, WriteHolding
  <2>. QED BY <2>2, <2>3
<1>9. ASSUME NEW c \in Investor, WritePortfolio(c) PROVE HoldingBounded'
  <2>1. changes' \in 0..MaxChanges
    BY <1>9, ChangedIsCounted DEF WritePortfolio, HoldingBounded
  <2>. QED BY <1>9, <2>1 DEF HoldingBounded, WritePortfolio
<1>10. ASSUME UNCHANGED <<heldRows, changes>> PROVE HoldingBounded'
  BY <1>10 DEF heldRows, HoldingBounded
<1>11. ASSUME NEW c \in Investor,
              \/ \E at \in Place, amount \in Amount : CreateHolding(c, at, amount) \/ UpdateHolding(c, at, amount)
              \/ \E p \in Portfolio : UpdatePortfolio(c, p)
              \/ FindHolding(c) \/ FindUpdated(c)
       PROVE  HoldingBounded'
  BY <1>10, <1>11 DEF CreateHolding, UpdateHolding, UpdatePortfolio, FindHolding, FindUpdated
<1>12. ASSUME NEW c \in Viewer,
              \/ \E p \in Portfolio, kind \in {"valuation", "list"} : AskPositions(c, p, kind)
              \/ \E table \in Tables : ReadTable(c, table)
              \/ \E a \in HeldAsset : FindAsset(c, a)
              \/ AnswerPositions(c)
       PROVE  HoldingBounded'
  BY <1>10, <1>12 DEF AskPositions, ReadTable, FindAsset, AnswerPositions
<1>13. CASE UNCHANGED holdingVars
  BY <1>10, <1>13 DEF holdingVars, heldRows
<1>. QED BY <1>1, <1>2, <1>3, <1>4, <1>5, <1>6, <1>7, <1>8, <1>9, <1>11, <1>12, <1>13 DEF HoldingNext

\* What a request becomes names a row if it is an update.
LEMMA GoesNames ==
  ASSUME HoldingInv, NamesRow, NEW c \in Investor \cup Viewer, NEW state, Goes(c, state),
         state.kind = "update" => state.id \in 1..MaxHoldings
  PROVE  NamesRow'
  BY DEF HoldingInv, HoldingTyped, NamesRow, Goes

\* Every step keeps the names.
LEMMA StepNamesRow == HoldingInv /\ HoldingBounded /\ NamesRow /\ [HoldingNext]_holdingVars => NamesRow'
<1> SUFFICES ASSUME HoldingInv, HoldingBounded, NamesRow, [HoldingNext]_holdingVars PROVE NamesRow'
  OBVIOUS
<1>1. ASSUME UNCHANGED call PROVE NamesRow'
  BY <1>1 DEF NamesRow
<1>2. ASSUME NEW c \in Investor, NEW at \in Place, NEW amount \in Amount, CreateHolding(c, at, amount) PROVE NamesRow'
  BY <1>2, GoesNames DEF CreateHolding
<1>3. ASSUME NEW c \in Investor, NEW at \in Place, NEW amount \in Amount, UpdateHolding(c, at, amount) PROVE NamesRow'
  <2>1. holding[at].id \in 1..MaxHoldings
    BY <1>3 DEF UpdateHolding, HoldingBounded
  <2>. QED BY <1>3, <2>1, GoesNames DEF UpdateHolding
<1>4. ASSUME NEW c \in Investor, NEW p \in Portfolio, UpdatePortfolio(c, p) PROVE NamesRow'
  BY <1>4, GoesNames DEF UpdatePortfolio
<1>5. ASSUME NEW c \in Investor, FindHolding(c) \/ FindUpdated(c) \/ InsertHolding(c) PROVE NamesRow'
  <2>1. NoCall.kind # "update"
    BY DEF NoCall
  <2>2. ASSUME FindHolding(c) PROVE [call[c] EXCEPT !.step = "insert"].kind # "update"
    <3>1. call[c] \in ChangeCall /\ call[c].kind = "create"
      BY <2>2 DEF FindHolding, HoldingInv, HoldingTyped, NoCall, PositionCall
    <3>. QED BY <3>1 DEF ChangeCall
  <2>. QED BY <1>5, <2>1, <2>2, GoesNames DEF FindHolding, FindUpdated, InsertHolding
<1>6. ASSUME NEW c \in Investor, WriteHolding(c) \/ WritePortfolio(c) PROVE NamesRow'
  <2>1. call[c] \in ChangeCall /\ call[c].kind \in {"update", "rename"}
    BY <1>6 DEF WriteHolding, WritePortfolio, HoldingInv, HoldingTyped, NoCall, PositionCall
  <2>2. PICK state : state = [call[c] EXCEPT !.step = "reread"]
    OBVIOUS
  <2>3. state.kind = call[c].kind /\ (state.kind = "update" => state.id = call[c].id)
    BY <2>1, <2>2 DEF ChangeCall
  <2>4. Goes(c, state)
    BY <1>6, <2>2 DEF WriteHolding, WritePortfolio
  <2>. QED BY <2>3, <2>4, GoesNames DEF NamesRow
<1>7. ASSUME NEW c \in Viewer,
             \/ \E p \in Portfolio, kind \in {"valuation", "list"} : AskPositions(c, p, kind)
             \/ \E table \in Tables : ReadTable(c, table)
             \/ \E a \in HeldAsset : FindAsset(c, a)
             \/ AnswerPositions(c)
      PROVE  NamesRow'
  <2>1. ASSUME NEW p \in Portfolio, NEW kind \in {"valuation", "list"}, AskPositions(c, p, kind) PROVE NamesRow'
    BY <2>1, GoesNames DEF AskPositions
  <2>2. ASSUME Asking(c) PROVE call[c] \in PositionCall
    BY <2>2 DEF Asking, HoldingInv, HoldingTyped, NoCall, ChangeCall
  <2>3. ASSUME NEW table \in Tables, ReadTable(c, table) PROVE NamesRow'
    <3>1. PICK q : q = [call[c] EXCEPT !.left = @ \ {table}]
      OBVIOUS
    <3>2. PICK x, y : Goes(c, [q EXCEPT !.entries = x]) \/ Goes(c, [q EXCEPT !.opening = x])
                        \/ Goes(c, [q EXCEPT !.holding = x, !.quote = y])
      BY <2>3, <3>1, Zenon DEF ReadTable
    <3>3. q \in PositionCall
      BY <2>2, <2>3, <3>1 DEF ReadTable, PositionCall
    <3>4. /\ [q EXCEPT !.entries = x].kind = "positions" /\ [q EXCEPT !.opening = x].kind = "positions"
          /\ [q EXCEPT !.holding = x, !.quote = y].kind = "positions"
      BY <3>3 DEF PositionCall
    <3>. QED BY <3>2, <3>4, GoesNames
  <2>4. ASSUME NEW a \in HeldAsset, FindAsset(c, a) PROVE NamesRow'
    <3>1. PICK x, y : Goes(c, [call[c] EXCEPT !.quote = x, !.fetched = y])
      BY <2>4, Zenon DEF FindAsset
    <3>2. [call[c] EXCEPT !.quote = x, !.fetched = y].kind = "positions"
      BY <2>2, <2>4 DEF FindAsset, Asking, PositionCall
    <3>. QED BY <3>1, <3>2, GoesNames
  <2>5. ASSUME AnswerPositions(c) PROVE NamesRow'
    BY <2>5, GoesNames DEF AnswerPositions, NoCall
  <2>. QED BY <1>7, <2>1, <2>3, <2>4, <2>5
<1>. QED BY <1>1, <1>2, <1>3, <1>4, <1>5, <1>6, <1>7
     DEF HoldingNext, CreatePortfolio, DeletePortfolio, DeleteHolding, RemoveTrade, SetOpening, RecordTrade,
         SyncPrice, holdingVars

\* Holdings, ledger, balances, prices and changes keep their types and bounds.
THEOREM HoldingsTyped == HoldingSpec => []HoldingTypeOK
<1>1. HoldingInit => HoldingBounded /\ NamesRow
  <2> SUFFICES ASSUME HoldingInit PROVE HoldingBounded /\ NamesRow
    OBVIOUS
  <2>1. HoldingBounded
    BY HoldingsAssumption DEF HoldingInit, HoldingBounded
  <2>2. NamesRow
    BY DEF HoldingInit, NamesRow, NoCall
  <2>. QED BY <2>1, <2>2
<1>2. HoldingInv /\ HoldingBounded => HoldingTypeOK
  BY DEF HoldingInv, HoldingTyped, HoldingBounded, HoldingTypeOK, OpeningHeld, Quoted
<1>. QED BY <1>1, <1>2, InitHoldingInv, StepHoldingInv, StepBounded, StepNamesRow, PTL DEF HoldingSpec

\* A use case goes as far as its waits and the days as far as their bound.
THEOREM HistoriesTyped == HistorySpec => []HistoryTypeOK
<1>1. HistoryInit => day \in 0..MaxDay
  BY HistoryAssumption DEF HistoryInit
<1>2. day \in 0..MaxDay /\ [HistoryNext]_historyVars => (day \in 0..MaxDay)'
  BY HistoryAssumption DEF HistoryNext, Proceed, Refusal, Breaks, Dies, NextDay, Lands, GoesAstray, RunsOut, historyVars
<1>3. HistoryInv /\ day \in 0..MaxDay => HistoryTypeOK
  <2> SUFFICES ASSUME HistoryInv, day \in 0..MaxDay PROVE HistoryTypeOK
    OBVIOUS
  <2>1. Len(script) \in Nat
    BY UseCasesAreHonest DEF HistoryInv, HistoryTyped
  <2>2. \A r \in flight \cup stored \cup lost : r.at \in 0..day
    BY DEF HistoryInv, HistoryTyped, Known
  <2>. QED BY <2>1, <2>2 DEF HistoryInv, HistoryTyped, HistoryTypeOK
<1>. QED BY <1>1, <1>2, <1>3, InitHistoryInv, StepHistoryInv, PTL DEF HistorySpec

\* A step is one of the service at work, and the others stutter.
LEMMA StepsApart ==
  [Next]_vars =>
    /\ [MarketNext]_marketVars /\ [LimitNext]_limitVars /\ [AssetNext]_assetVars
    /\ [CoinNext]_coinVars /\ [PagingNext]_pagingVars /\ [WalletNext]_walletVars
    /\ [EntryNext]_entryVars /\ [HoldingNext]_holdingVars /\ [HistoryNext]_historyVars
    /\ [RequestNext]_requestVars
<1> USE DEF Next, Frame, Still, vars, MarketStep, LimitStep, AssetStep, CoinStep, PagingStep, WalletStep,
            EntryStep, HoldingStep, HistoryStep, RequestStep
<1>1. [Next]_vars => [MarketNext]_marketVars
  OBVIOUS
<1>2. [Next]_vars => [LimitNext]_limitVars
  OBVIOUS
<1>3. [Next]_vars => [AssetNext]_assetVars
  OBVIOUS
<1>4. [Next]_vars => [CoinNext]_coinVars
  OBVIOUS
<1>5. [Next]_vars => [PagingNext]_pagingVars
  OBVIOUS
<1>6. [Next]_vars => [WalletNext]_walletVars
  OBVIOUS
<1>7. [Next]_vars => [EntryNext]_entryVars
  OBVIOUS
<1>8. [Next]_vars => [HoldingNext]_holdingVars
  OBVIOUS
<1>9. [Next]_vars => [HistoryNext]_historyVars
  OBVIOUS
<1>10. [Next]_vars => [RequestNext]_requestVars
  OBVIOUS
<1>. QED BY <1>1, <1>2, <1>3, <1>4, <1>5, <1>6, <1>7, <1>8, <1>9, <1>10

\* Side by side, every service follows its own specification.
THEOREM ServicesApart ==
  Spec => /\ MarketSpec /\ LimitSpec /\ AssetSpec /\ CoinSpec /\ PagingSpec /\ WalletSpec
          /\ EntrySpec /\ HoldingSpec /\ HistorySpec /\ RequestSpec
<1>1. Init => /\ MarketInit /\ LimitInit /\ AssetInit /\ CoinInit /\ PagingInit /\ WalletInit
              /\ EntryInit /\ HoldingInit /\ HistoryInit /\ RequestInit
  BY DEF Init
<1>. QED BY <1>1, StepsApart, PTL DEF Spec, MarketSpec, LimitSpec, AssetSpec, CoinSpec, PagingSpec, WalletSpec,
                                   EntrySpec, HoldingSpec, HistorySpec, RequestSpec

\* The service at work keeps its types, and so do the others.
THEOREM ServicesTyped == Spec => []TypesOK
<1>1. MarketTypeOK /\ LimitTypeOK /\ AssetTypeOK /\ CoinTypeOK /\ PagingTypeOK /\ WalletTypeOK
        /\ EntryTypeOK /\ HoldingTypeOK /\ HistoryTypeOK /\ RequestTypeOK => TypesOK
  BY DEF TypesOK
<1>. QED BY <1>1, ServicesApart, MarketTyped, LimitsTyped, AssetsTyped, CoinsTyped, PagingTyped, WalletsTyped,
            EntriesTyped, HoldingsTyped, HistoriesTyped, RequestsTyped, PTL

\* What is let through at the door stays sound: what the limits promise of their
\* windows, and what the guards and the cookies promise of a request.
THEOREM AdmissionHolds == Spec => []AdmissionSound
<1>1. LimitsSound /\ RequestsSound => AdmissionSound
  BY DEF AdmissionSound
<1>. QED BY <1>1, ServicesApart, LimitsHold, RequestsStaySound, PTL

===============================================================================
