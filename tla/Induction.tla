----------------------------- MODULE Induction ------------------------------
(***************************************************************************)
(* Induction over data without an operator as a parameter: a property of   *)
(* every number up to n becomes a set of numbers, whose complement has a   *)
(* least element. With it, folds and sums over sets, which the community   *)
(* modules define by recursive functions, are shown to exist and to be     *)
(* what their equations say.                                               *)
(***************************************************************************)
EXTENDS Integers, Sequences, FiniteSetsExt, SequencesExt,
        FiniteSetTheorems, WellFoundedInduction, TLAPS

\* Every set of numbers has a least one: the induction used below.
LEMMA LeastNat == ASSUME NEW T, T \subseteq Nat, T # {}
                  PROVE \E m \in T : \A n \in T : m <= n
<1> DEFINE R == OpToRel(<, Nat)
<1>1. IsWellFoundedOn(R, Nat)
  BY NatLessThanWellFounded
<1>2. \E x \in T : \A y \in T : ~ (<<y, x>> \in R)
  <2> HIDE DEF R
  <2> QED BY <1>1, WFMin
<1>3. \A x, y \in Nat : <<y, x>> \in R <=> y < x
  BY DEF OpToRel
<1> HIDE DEF R
<1>4. PICK m \in T : \A y \in T : ~ (<<y, m>> \in R)
  BY <1>2
<1>5. \A y \in T : ~ (y < m)
  BY <1>3, <1>4
<1>6. \A y \in T : m <= y
  BY <1>5
<1> QED
  BY <1>6

\* Induction from 0 up to n: a set with 0 and the successors of its members.
LEMMA CountUp ==
  ASSUME NEW n \in Nat, NEW S, 0 \in S,
         \A k \in 0 .. n - 1 : k \in S => k + 1 \in S
  PROVE  0 .. n \subseteq S
<1> DEFINE T == (0 .. n) \ S
<1> SUFFICES ASSUME T # {} PROVE FALSE
  OBVIOUS
<1>1. PICK m \in T : \A k \in T : m <= k
  <2>1. T \subseteq Nat
    OBVIOUS
  <2> HIDE DEF T
  <2> QED BY <2>1, LeastNat
<1>2. m - 1 \in 0 .. n - 1 /\ m - 1 \in S
  BY <1>1
<1> QED
  BY <1>1, <1>2

\* Induction from n down to 0.
LEMMA CountDown ==
  ASSUME NEW n \in Nat, NEW S, n \in S,
         \A k \in 0 .. n - 1 : k + 1 \in S => k \in S
  PROVE  0 .. n \subseteq S
<1> DEFINE T == {k \in 0 .. n : n - k \in S}
<1>1. 0 \in T
  OBVIOUS
<1>2. ASSUME NEW k \in 0 .. n - 1, k \in T PROVE k + 1 \in T
  <2>1. n - (k + 1) \in 0 .. n - 1 /\ (n - (k + 1)) + 1 = n - k
    OBVIOUS
  <2> QED BY <1>2, <2>1
<1>3. 0 .. n \subseteq T
  <2> HIDE DEF T
  <2> QED BY <1>1, <1>2, CountUp
<1>4. ASSUME NEW k \in 0 .. n PROVE k \in S
  <2>1. n - k \in T
    BY <1>3
  <2> QED BY <2>1
<1> QED
  BY <1>4

\* A set of folds
FoldFrom(V, f, g, base, n) ==
  /\ f \in [SUBSET (1 .. n) -> V]
  /\ \A s \in SUBSET (1 .. n) :
       f[s] = IF s = {} THEN base ELSE g[f[s \ {Max(s)}], Max(s)]

\* n + 1 is the largest element of a set that holds it.
LEMMA MaxBelow ==
  ASSUME NEW n \in Nat, NEW s \in SUBSET (1 .. n + 1), n + 1 \in s
  PROVE  Max(s) = n + 1
<1>1. \A y \in s : n + 1 >= y
  OBVIOUS
<1>2. \A x \in s : (\A y \in s : x >= y) => x = n + 1
  OBVIOUS
<1> QED
  BY <1>1, <1>2 DEF Max

\* A set of positions has a largest element.
LEMMA MaxIsMember ==
  ASSUME NEW n \in Nat, NEW s \in SUBSET (1 .. n), s # {}
  PROVE  Max(s) \in s /\ \A y \in s : y <= Max(s)
<1> DEFINE Q == {n - y : y \in s}
<1>1. Q \subseteq Nat /\ Q # {}
  <2>1. PICK y \in s : TRUE
    OBVIOUS
  <2>2. n - y \in Q
    BY <2>1
  <2>3. ASSUME NEW z \in s PROVE n - z \in Nat
    OBVIOUS
  <2> QED BY <2>2, <2>3
<1>2. PICK m \in Q : \A k \in Q : m <= k
  <2> HIDE DEF Q
  <2> QED BY <1>1, LeastNat
<1>3. PICK x \in s : m = n - x
  BY <1>2
<1>4. ASSUME NEW y \in s PROVE x >= y
  <2>1. m <= n - y
    BY <1>2
  <2> QED BY <1>3, <2>1
<1>5. \E x1 \in s : \A y \in s : x1 >= y
  BY <1>4
<1>6. Max(s) \in s /\ \A y \in s : Max(s) >= y
  BY <1>5 DEF Max
<1> QED
  BY <1>6

\* There is a fold of every function.
LEMMA FoldsExist ==
  ASSUME NEW V, NEW base \in V, NEW n \in Nat, NEW g \in [V \X (1 .. n) -> V]
  PROVE  \E f : FoldFrom(V, f, g, base, n)
<1> DEFINE T == {k \in 0 .. n : \E f : FoldFrom(V, f, g, base, k)}
<1>1. 0 \in T
  <2> DEFINE f0 == [s \in SUBSET (1 .. 0) |-> base]
  <2>1. SUBSET (1 .. 0) = {{}}
    OBVIOUS
  <2>2. FoldFrom(V, f0, g, base, 0)
    BY <2>1 DEF FoldFrom
  <2> QED BY <2>2
<1>2. ASSUME NEW k \in 0 .. n - 1, k \in T PROVE k + 1 \in T
  <2>1. PICK f : FoldFrom(V, f, g, base, k)
    BY <1>2
  <2> DEFINE h == [s \in SUBSET (1 .. k + 1) |->
                     IF k + 1 \in s THEN g[f[s \ {k + 1}], k + 1] ELSE f[s]]
  <2>2. ASSUME NEW s \in SUBSET (1 .. k + 1)
        PROVE  /\ h[s] \in V
               /\ h[s] = IF s = {} THEN base ELSE g[h[s \ {Max(s)}], Max(s)]
    <3>1. CASE k + 1 \in s
      <4>1. Max(s) = k + 1
        BY <3>1, MaxBelow
      <4>2. s \ {k + 1} \in SUBSET (1 .. k) /\ k + 1 \notin s \ {k + 1} /\ s # {}
        BY <3>1
      <4>3. h[s \ {k + 1}] = f[s \ {k + 1}] /\ f[s \ {k + 1}] \in V
        BY <2>1, <4>2 DEF FoldFrom
      <4>4. h[s] = g[f[s \ {k + 1}], k + 1]
        BY <3>1
      <4>5. g[f[s \ {k + 1}], k + 1] \in V
        <5>1. f[s \ {k + 1}] \in V
          BY <2>1, <4>2 DEF FoldFrom
        <5>2. k + 1 \in 1 .. n
          OBVIOUS
        <5> HIDE DEF h
        <5> QED BY <5>1, <5>2
      <4> HIDE DEF h
      <4> QED BY <4>1, <4>2, <4>3, <4>4, <4>5
    <3>2. CASE k + 1 \notin s
      <4>1. s \in SUBSET (1 .. k)
        BY <3>2
      <4>2. h[s] = f[s]
        BY <3>2
      <4>3. ASSUME s # {} PROVE h[s \ {Max(s)}] = f[s \ {Max(s)}]
        BY <3>2, <4>1
      <4>4. f[s] \in V /\ f[s] = IF s = {} THEN base ELSE g[f[s \ {Max(s)}], Max(s)]
        BY <2>1, <4>1 DEF FoldFrom
      <4> HIDE DEF h
      <4> QED BY <4>2, <4>3, <4>4
    <3> QED BY <3>1, <3>2
  <2>3. h \in [SUBSET (1 .. k + 1) -> V]
    BY <2>2
  <2>4. FoldFrom(V, h, g, base, k + 1)
    <3> HIDE DEF h
    <3> QED BY <2>2, <2>3 DEF FoldFrom
  <2> HIDE DEF h
  <2> QED BY <2>4
<1>3. n \in T
  <2> HIDE DEF T
  <2> QED BY <1>1, <1>2, CountUp
<1> QED
  BY <1>3

\* f gives each element of the finite set T a number.
Summable(f, T) == IsFiniteSet(T) /\ f \in [T -> Int]

\* h is the sum of f over each subset of T, taken an element at a time.
SumOver(h, f, T) ==
  /\ h \in [SUBSET T -> Int]
  /\ \A s \in SUBSET T :
       h[s] = IF s = {} THEN 0
              ELSE f[CHOOSE x \in s : TRUE] + h[s \ {CHOOSE x \in s : TRUE}]

\* There is such a sum.
LEMMA SumExists ==
  ASSUME NEW T, NEW f, Summable(f, T)
  PROVE  \E h : SumOver(h, f, T)
<1> USE DEF Summable
<1> DEFINE Small(k) == {s \in SUBSET T : Cardinality(s) <= k}
           Sums(h, k) == /\ h \in [Small(k) -> Int]
                         /\ \A s \in Small(k) :
                              h[s] = IF s = {} THEN 0
                                     ELSE f[CHOOSE x \in s : TRUE] + h[s \ {CHOOSE x \in s : TRUE}]
           n == Cardinality(T)
           P == {k \in 0 .. n : \E h : Sums(h, k)}
<1>1. n \in Nat
  BY FS_CardinalityType
<1>2. ASSUME NEW s \in SUBSET T
      PROVE  /\ Cardinality(s) \in Nat /\ Cardinality(s) <= n
             /\ s = {} <=> Cardinality(s) = 0
             /\ \A x \in s : Cardinality(s \ {x}) = Cardinality(s) - 1
  BY FS_Subset, FS_CardinalityType, FS_EmptySet, FS_RemoveElement
<1>3. 0 \in P
  <2> DEFINE h0 == [s \in Small(0) |-> 0]
  <2>1. \A s \in Small(0) : s = {}
    BY <1>2
  <2>2. Sums(h0, 0)
    BY <2>1
  <2> HIDE DEF h0
  <2>3. 0 \in 0 .. n
    BY <1>1
  <2> QED BY <2>2, <2>3
<1>4. ASSUME NEW k \in 0 .. n - 1, k \in P PROVE k + 1 \in P
  <2>1. PICK h : Sums(h, k)
    BY <1>4
  <2> DEFINE x(s) == CHOOSE y \in s : TRUE
             g == [s \in Small(k + 1) |-> IF s = {} THEN 0 ELSE f[x(s)] + h[s \ {x(s)}]]
  <2>2. ASSUME NEW s \in Small(k + 1), s # {}
        PROVE  x(s) \in s /\ s \ {x(s)} \in Small(k) /\ s \ {x(s)} \in Small(k + 1)
    <3>1. x(s) \in s
      BY <2>2
    <3>2. Cardinality(s \ {x(s)}) = Cardinality(s) - 1
      BY <1>2, <3>1
    <3> HIDE DEF x
    <3> QED BY <1>2, <3>1, <3>2
  <2>3. ASSUME NEW s \in Small(k) PROVE g[s] = h[s]
    <3>1. s \in Small(k + 1)
      BY <1>2
    <3> QED BY <2>1, <3>1
  <2>4. ASSUME NEW s \in Small(k + 1)
        PROVE  g[s] \in Int /\ g[s] = IF s = {} THEN 0 ELSE f[x(s)] + g[s \ {x(s)}]
    <3>1. g[s] = IF s = {} THEN 0 ELSE f[x(s)] + h[s \ {x(s)}]
      OBVIOUS
    <3>2. ASSUME s # {}
          PROVE  f[x(s)] \in Int /\ h[s \ {x(s)}] \in Int /\ g[s \ {x(s)}] = h[s \ {x(s)}]
      <4> HIDE DEF x, g
      <4> QED BY <2>1, <2>2, <2>3, <3>2
    <3> HIDE DEF x, g
    <3> QED BY <3>1, <3>2
  <2>5. g \in [Small(k + 1) -> Int]
    BY <2>4
  <2>6. Sums(g, k + 1)
    <3> HIDE DEF g, Small
    <3> QED BY <2>4, <2>5
  <2> HIDE DEF g, Sums
  <2>7. k + 1 \in 0 .. n
    BY <1>1
  <2> QED BY <2>6, <2>7
<1>5. n \in P
  <2> HIDE DEF P, n
  <2> QED BY <1>1, <1>3, <1>4, CountUp
<1>6. PICK h : Sums(h, n)
  BY <1>5
<1>7. Small(n) = SUBSET T
  BY <1>2
<1> QED
  BY <1>6, <1>7 DEF SumOver

\* The sum does not depend on the order: any element may be taken first.
LEMMA SumSplits ==
  ASSUME NEW T, NEW f, NEW h, Summable(f, T), SumOver(h, f, T),
         NEW s \in SUBSET T, NEW x \in s
  PROVE  h[s] = f[x] + h[s \ {x}]
<1> USE DEF Summable
<1> DEFINE n == Cardinality(T)
           Splits(u) == \A y \in u : h[u] = f[y] + h[u \ {y}]
           P == {k \in 0 .. n : \A u \in SUBSET T : Cardinality(u) <= k => Splits(u)}
<1>1. n \in Nat
  BY FS_CardinalityType
<1>2. ASSUME NEW u \in SUBSET T
      PROVE  /\ Cardinality(u) \in Nat /\ Cardinality(u) <= n
             /\ u = {} <=> Cardinality(u) = 0
             /\ \A y \in u : Cardinality(u \ {y}) = Cardinality(u) - 1
  BY FS_Subset, FS_CardinalityType, FS_EmptySet, FS_RemoveElement
<1>3. 0 \in P
  <2>1. \A u \in SUBSET T : Cardinality(u) <= 0 => u = {}
    BY <1>2
  <2> QED BY <1>1, <2>1
<1>4. ASSUME NEW k \in 0 .. n - 1, k \in P PROVE k + 1 \in P
  <2>1. ASSUME NEW u \in SUBSET T, Cardinality(u) <= k + 1, NEW y \in u
        PROVE  h[u] = f[y] + h[u \ {y}]
    <3> DEFINE c == CHOOSE z \in u : TRUE
    <3>1. c \in u /\ h[u] = f[c] + h[u \ {c}]
      BY DEF SumOver
    <3> HIDE DEF c
    <3>2. CASE c = y
      BY <3>1, <3>2
    <3>3. CASE c # y
      <4>1. Cardinality(u \ {c}) <= k /\ Cardinality(u \ {y}) <= k
        BY <1>1, <1>2, <2>1, <3>1
      <4>2. h[u \ {c}] = f[y] + h[(u \ {c}) \ {y}]
        BY <1>4, <3>3, <4>1
      <4>3. h[u \ {y}] = f[c] + h[(u \ {y}) \ {c}]
        BY <1>4, <3>1, <3>3, <4>1
      <4>4. (u \ {c}) \ {y} = (u \ {y}) \ {c} /\ (u \ {y}) \ {c} \in SUBSET T
        OBVIOUS
      <4>5. f[c] \in Int /\ f[y] \in Int /\ h[(u \ {y}) \ {c}] \in Int
        BY <3>1, <4>4 DEF SumOver
      <4>6. h[u \ {c}] = f[y] + h[(u \ {y}) \ {c}]
        BY <4>2, <4>4
      <4>7. f[c] + (f[y] + h[(u \ {y}) \ {c}]) = f[y] + (f[c] + h[(u \ {y}) \ {c}])
        BY <4>5
      <4> QED BY <3>1, <4>3, <4>6, <4>7
    <3> QED BY <3>2, <3>3
  <2>2. k + 1 \in 0 .. n
    BY <1>1
  <2> QED BY <2>1, <2>2
<1>5. n \in P
  <2> HIDE DEF P, n
  <2> QED BY <1>1, <1>3, <1>4, CountUp
<1> QED
  BY <1>2, <1>5

\* The equation of the recursive function that sums.
SumEquation(h, f, T) ==
  h = [s \in SUBSET T |->
         IF s = {} THEN 0
         ELSE f[CHOOSE x \in s : TRUE] + h[s \ {CHOOSE x \in s : TRUE}]]

\* A solution of the equation is a sum.
LEMMA SumUnfolds ==
  ASSUME NEW T, NEW f, NEW c, Summable(f, T), SumEquation(c, f, T)
  PROVE  SumOver(c, f, T)
<1> USE DEF Summable
<1> DEFINE n == Cardinality(T)
           x(s) == CHOOSE y \in s : TRUE
           P == {k \in 0 .. n : \A u \in SUBSET T : Cardinality(u) <= k => c[u] \in Int}
<1>1. n \in Nat
  BY FS_CardinalityType
<1>2. ASSUME NEW u \in SUBSET T
      PROVE  /\ Cardinality(u) \in Nat /\ Cardinality(u) <= n
             /\ u = {} <=> Cardinality(u) = 0
             /\ \A y \in u : Cardinality(u \ {y}) = Cardinality(u) - 1
  BY FS_Subset, FS_CardinalityType, FS_EmptySet, FS_RemoveElement
<1>3. \A s \in SUBSET T : c[s] = IF s = {} THEN 0 ELSE f[x(s)] + c[s \ {x(s)}]
  BY DEF SumEquation
<1>4. \A s \in SUBSET T : s # {} => x(s) \in s
  OBVIOUS
<1> HIDE DEF x
<1>5. 0 \in P
  <2>1. \A u \in SUBSET T : Cardinality(u) <= 0 => u = {}
    BY <1>2
  <2> QED BY <1>1, <1>3, <2>1
<1>6. ASSUME NEW k \in 0 .. n - 1, k \in P PROVE k + 1 \in P
  <2>1. ASSUME NEW u \in SUBSET T, Cardinality(u) <= k + 1, u # {} PROVE c[u] \in Int
    <3>1. x(u) \in u /\ c[u] = f[x(u)] + c[u \ {x(u)}]
      BY <1>3, <1>4, <2>1
    <3>2. Cardinality(u \ {x(u)}) <= k
      BY <1>1, <1>2, <2>1, <3>1
    <3>3. c[u \ {x(u)}] \in Int
      BY <1>6, <3>2
    <3> QED BY <3>1, <3>3
  <2>2. k + 1 \in 0 .. n
    BY <1>1
  <2>3. c[{}] \in Int
    BY DEF SumEquation
  <2> QED BY <2>1, <2>2, <2>3
<1>7. n \in P
  <2> HIDE DEF P, n
  <2> QED BY <1>1, <1>5, <1>6, CountUp
<1>8. \A s \in SUBSET T : c[s] \in Int
  BY <1>2, <1>7
<1>9. c \in [SUBSET T -> Int]
  BY <1>8 DEF SumEquation
<1> QED
  BY <1>3, <1>9 DEF SumOver, x

\* The function CHOOSE finds solves the equation.
LEMMA SumEquationSolved ==
  ASSUME NEW T, NEW f, Summable(f, T)
  PROVE  SumEquation(CHOOSE h : SumEquation(h, f, T), f, T)
<1>1. PICK h : SumOver(h, f, T)
  BY SumExists
<1>2. SumEquation(h, f, T)
  BY <1>1 DEF SumOver, SumEquation
<1> QED
  BY <1>2

\* It is a sum.
LEMMA SumChosen ==
  ASSUME NEW T, NEW f, Summable(f, T)
  PROVE  SumOver(CHOOSE h : SumEquation(h, f, T), f, T)
<1> DEFINE c == CHOOSE h : SumEquation(h, f, T)
<1>1. SumEquation(c, f, T)
  BY SumEquationSolved
<1> HIDE DEF c
<1> QED
  BY <1>1, SumUnfolds

\* Sums over a set agree when what they sum agrees on it.
LEMMA SumsAgree ==
  ASSUME NEW T, NEW U, NEW f, NEW g, NEW h, NEW k, Summable(f, T), Summable(g, U),
         SumOver(h, f, T), SumOver(k, g, U), NEW s \in SUBSET (T \cap U),
         \A x \in s : f[x] = g[x]
  PROVE  h[s] = k[s]
<1> USE DEF Summable
<1> DEFINE n == Cardinality(s)
           P == {i \in 0 .. n : \A u \in SUBSET s : Cardinality(u) <= i => h[u] = k[u]}
<1>1. IsFiniteSet(s) /\ n \in Nat
  BY FS_Subset, FS_CardinalityType
<1>2. ASSUME NEW u \in SUBSET s
      PROVE  /\ Cardinality(u) \in Nat /\ Cardinality(u) <= n
             /\ u = {} <=> Cardinality(u) = 0
             /\ \A y \in u : Cardinality(u \ {y}) = Cardinality(u) - 1
  BY <1>1, FS_Subset, FS_CardinalityType, FS_EmptySet, FS_RemoveElement
<1>3. 0 \in P
  <2>1. \A u \in SUBSET s : Cardinality(u) <= 0 => u = {}
    BY <1>2
  <2>2. h[{}] = 0 /\ k[{}] = 0
    BY DEF SumOver
  <2> QED BY <1>1, <2>1, <2>2
<1>4. ASSUME NEW i \in 0 .. n - 1, i \in P PROVE i + 1 \in P
  <2>1. ASSUME NEW u \in SUBSET s, Cardinality(u) <= i + 1, u # {} PROVE h[u] = k[u]
    <3>1. PICK x \in u : TRUE
      BY <2>1
    <3>2. h[u] = f[x] + h[u \ {x}] /\ k[u] = g[x] + k[u \ {x}]
      BY SumSplits
    <3>3. h[u \ {x}] = k[u \ {x}]
      BY <1>1, <1>2, <1>4, <2>1
    <3> QED BY <3>2, <3>3
  <2>2. h[{}] = k[{}]
    BY DEF SumOver
  <2>3. i + 1 \in 0 .. n
    BY <1>1
  <2> QED BY <2>1, <2>2, <2>3
<1>5. n \in P
  <2> HIDE DEF P, n
  <2> QED BY <1>1, <1>3, <1>4, CountUp
<1> QED
  BY <1>2, <1>5

\* What MapThenSumSet of the community modules gives for the values of f.
Total(f, T) == (CHOOSE h : SumEquation(h, f, T))[T]

\* A total over T is what any sum that agrees on T gives for T.
LEMMA TotalIs ==
  ASSUME NEW T, NEW f, Summable(f, T), NEW U, NEW g, NEW k, Summable(g, U), SumOver(k, g, U),
         T \subseteq U, \A x \in T : f[x] = g[x]
  PROVE  Total(f, T) = k[T]
<1> DEFINE c == CHOOSE h : SumEquation(h, f, T)
<1>1. SumOver(c, f, T)
  BY SumChosen
<1> HIDE DEF c
<1>2. T \in SUBSET (T \cap U)
  OBVIOUS
<1>3. c[T] = k[T]
  BY <1>1, <1>2, SumsAgree
<1> QED
  BY <1>3 DEF Total, c

\* A total is a number, and nothing for no elements.
LEMMA TotalType ==
  ASSUME NEW T, NEW f, Summable(f, T)
  PROVE  Total(f, T) \in Int /\ (T = {} => Total(f, T) = 0)
<1> DEFINE c == CHOOSE h : SumEquation(h, f, T)
<1>1. SumOver(c, f, T)
  BY SumChosen
<1> HIDE DEF c
<1> QED
  BY <1>1 DEF Total, c, SumOver

\* Totals of the same values are the same.
LEMMA TotalAgrees ==
  ASSUME NEW T, NEW f, NEW g, Summable(f, T), Summable(g, T), \A x \in T : f[x] = g[x]
  PROVE  Total(f, T) = Total(g, T)
<1> DEFINE c == CHOOSE h : SumEquation(h, g, T)
<1>1. SumOver(c, g, T)
  BY SumChosen
<1> HIDE DEF c
<1>2. Total(f, T) = c[T]
  BY <1>1, TotalIs
<1> QED
  BY <1>2 DEF Total, c

\* Any element may be taken out of a total.
LEMMA TotalSplits ==
  ASSUME NEW T, NEW f, Summable(f, T), NEW x \in T, NEW g, Summable(g, T \ {x}),
         \A y \in T \ {x} : g[y] = f[y]
  PROVE  Total(f, T) = f[x] + Total(g, T \ {x})
<1> DEFINE c == CHOOSE h : SumEquation(h, f, T)
<1>1. SumOver(c, f, T)
  BY SumChosen
<1> HIDE DEF c
<1>2. c[T] = f[x] + c[T \ {x}]
  BY <1>1, SumSplits
<1>3. T \ {x} \subseteq T
  OBVIOUS
<1>4. Total(g, T \ {x}) = c[T \ {x}]
  BY <1>1, <1>3, TotalIs
<1> QED
  BY <1>2, <1>4 DEF Total, c

\* What sums multiples of m is one.
LEMMA TotalOfMultiples ==
  ASSUME NEW T, NEW f, Summable(f, T), NEW m \in Int, \A x \in T : \E k \in Int : f[x] = m * k
  PROVE  \E k \in Int : Total(f, T) = m * k
<1> USE DEF Summable
<1> DEFINE h == CHOOSE g : SumEquation(g, f, T)
           n == Cardinality(T)
           Multiple(a) == \E k \in Int : a = m * k
           P == {k \in 0 .. n : \A u \in SUBSET T : Cardinality(u) <= k => Multiple(h[u])}
<1>1. SumOver(h, f, T) /\ Total(f, T) = h[T]
  BY SumChosen DEF Total
<1> HIDE DEF h
<1>2. n \in Nat
  BY FS_CardinalityType
<1>3. ASSUME NEW u \in SUBSET T
      PROVE  /\ Cardinality(u) \in Nat /\ Cardinality(u) <= n
             /\ u = {} <=> Cardinality(u) = 0
             /\ \A y \in u : Cardinality(u \ {y}) = Cardinality(u) - 1
  BY FS_Subset, FS_CardinalityType, FS_EmptySet, FS_RemoveElement
<1>4. Multiple(h[{}])
  <2>1. h[{}] = 0 /\ 0 = m * 0
    BY <1>1 DEF SumOver
  <2> QED BY <2>1
<1>5. 0 \in P
  <2>1. \A u \in SUBSET T : Cardinality(u) <= 0 => u = {}
    BY <1>3
  <2>2. \A u \in SUBSET T : Cardinality(u) <= 0 => Multiple(h[u])
    BY <1>4, <2>1
  <2> HIDE DEF Multiple
  <2> QED BY <1>2, <2>2
<1>6. ASSUME NEW k \in 0 .. n - 1, k \in P PROVE k + 1 \in P
  <2>1. ASSUME NEW u \in SUBSET T, Cardinality(u) <= k + 1, u # {} PROVE Multiple(h[u])
    <3>1. PICK y \in u : h[u] = f[y] + h[u \ {y}]
      BY <1>1, <2>1 DEF SumOver
    <3>2. Cardinality(u \ {y}) <= k
      BY <1>2, <1>3, <2>1, <3>1
    <3>3. PICK i \in Int : h[u \ {y}] = m * i
      BY <1>6, <3>2
    <3>4. PICK j \in Int : f[y] = m * j
      OBVIOUS
    <3>5. h[u] = m * (j + i) /\ j + i \in Int
      BY <3>1, <3>3, <3>4
    <3> QED BY <3>5
  <2>2. k + 1 \in 0 .. n
    BY <1>2
  <2> HIDE DEF Multiple
  <2> QED BY <1>4, <2>1, <2>2
<1>7. n \in P
  <2> HIDE DEF P, n
  <2> QED BY <1>2, <1>5, <1>6, CountUp
<1> QED
  BY <1>1, <1>3, <1>7
=============================================================================
