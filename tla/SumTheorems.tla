---------------------------- MODULE SumTheorems -----------------------------
(***************************************************************************)
(* What SumFunctionOnSet of the community modules computes on a finite set,*)
(* for the theorems that add up amounts, and that a recursion of finitely  *)
(* many steps has a solution.  The library's induction rules take a        *)
(* predicate as a parameter; here a set of counterexamples takes its       *)
(* place, and has a smallest member.                                       *)
(***************************************************************************)
EXTENDS Integers, FiniteSets, Functions, FiniteSetTheorems, WellFoundedInduction, TLAPS

\* A nonempty set of natural numbers has a least member.
LEMMA Least ==
    ASSUME NEW T, T \subseteq Nat, T # {}
    PROVE  \E x \in T : \A y \in T : x <= y
<1> DEFINE R == {ss \in Nat \X Nat : ss[1] < ss[2]}
<1>1. IsWellFoundedOn(R, Nat)
  BY NatLessThanWellFounded DEF OpToRel
<1>2. \A x, y \in Nat : <<x, y>> \in R <=> x < y
  OBVIOUS
<1> HIDE DEF R
<1>3. PICK x \in T : \A y \in T : ~(<<y, x>> \in R)
  BY <1>1, WFMin
<1>4. ASSUME NEW y \in T
      PROVE  x <= y
  <2>1. x \in Nat /\ y \in Nat /\ ~(y < x)
    BY <1>2, <1>3
  <2> QED
    BY <2>1
<1> QED
  BY <1>4

\* Induction on the natural numbers, on a set.
LEMMA CountUp ==
    ASSUME NEW N, 0 \in N, \A n \in Nat : n \in N => n + 1 \in N
    PROVE  Nat \subseteq N
<1> DEFINE T == Nat \ N
<1> SUFFICES ASSUME T # {} PROVE FALSE
  OBVIOUS
<1>1. PICK x \in T : \A y \in T : x <= y
  BY Least
<1>2. x # 0 /\ x - 1 \in Nat /\ x - 1 \notin T
  BY <1>1
<1> QED
  BY <1>2

\* The numbers up to n.
LEMMA UpTo ==
    ASSUME NEW n \in Nat
    PROVE  IsFiniteSet(1 .. n) /\ Cardinality(1 .. n) = n /\ IsFiniteSet(0 .. n)
<1>1. 0 \in Int /\ 1 \in Int /\ n \in Int
  OBVIOUS
<1>2. IsFiniteSet(0 .. n)
  BY <1>1, FS_Interval
<1>3. IsFiniteSet(1 .. n) /\ Cardinality(1 .. n) = IF 1 > n THEN 0 ELSE n - 1 + 1
  BY <1>1, FS_Interval
<1>4. Cardinality(1 .. n) = n
  BY <1>3
<1> QED
  BY <1>2, <1>3, <1>4

\* F is the step of a recursion within V, and h what it leads to from v.
StepWithin(F, n, V) == F \in [(1 .. n) \X V -> V]
LeadsTo(F, n, V, v, h) ==
    h \in [0 .. n -> V] /\ h[0] = v /\ \A i \in 1 .. n : h[i] = F[<<i, h[i - 1]>>]

\* A recursion of n steps within a set has a solution within that set.
LEMMA StepsExist ==
    ASSUME NEW n \in Nat, NEW V, NEW v \in V, NEW F, StepWithin(F, n, V)
    PROVE  \E h : LeadsTo(F, n, V, v, h)
<1>0. F \in [(1 .. n) \X V -> V]
  BY DEF StepWithin
<1> DEFINE Good(h, m) ==
             h \in [0 .. m -> V] /\ h[0] = v /\ \A i \in 1 .. m : h[i] = F[<<i, h[i - 1]>>]
           N == {m \in Nat : m <= n => \E h : Good(h, m)}
<1>1. 0 \in N
  <2> DEFINE h == [i \in 0 .. 0 |-> v]
  <2>1. Good(h, 0)
    OBVIOUS
  <2> QED
    BY <2>1
<1>2. ASSUME NEW m \in Nat, m \in N PROVE m + 1 \in N
  <2> SUFFICES ASSUME m + 1 <= n PROVE \E h : Good(h, m + 1)
    OBVIOUS
  <2>1. PICK h : Good(h, m)
    BY <1>2
  <2> DEFINE k == [i \in 0 .. m + 1 |-> IF i = m + 1 THEN F[<<m + 1, h[m]>>] ELSE h[i]]
  <2>2. h[m] \in V /\ m + 1 \in 1 .. n
    BY <2>1
  <2>3. F[<<m + 1, h[m]>>] \in V
    BY <1>0, <2>2
  <2>4. \A i \in 0 .. m + 1 : k[i] \in V
    BY <2>1, <2>3
  <2>5. \A i \in 1 .. m + 1 : k[i] = F[<<i, k[i - 1]>>]
    <3> SUFFICES ASSUME NEW i \in 1 .. m + 1 PROVE k[i] = F[<<i, k[i - 1]>>]
      OBVIOUS
    <3>1. CASE i = m + 1
      <4>1. k[i] = F[<<m + 1, h[m]>>] /\ i - 1 = m /\ k[m] = h[m]
        BY <3>1
      <4> QED
        BY <3>1, <4>1
    <3>2. CASE i \in 1 .. m
      <4>1. k[i] = h[i] /\ k[i - 1] = h[i - 1]
        BY <3>2
      <4> QED
        BY <2>1, <3>2, <4>1
    <3> QED
      BY <3>1, <3>2
  <2>6. k[0] = v
    BY <2>1
  <2>7. k \in [0 .. m + 1 -> V]
    BY <2>4
  <2>8. Good(k, m + 1)
    BY <2>5, <2>6, <2>7
  <2> QED
    BY <2>8
<1> HIDE DEF N
<1>3. n \in N
  BY <1>1, <1>2, CountUp
<1> QED
  BY <1>3 DEF N, LeadsTo

\* ... and, when every step stays in the set, any solution is within it.
LEMMA StepsStay ==
    ASSUME NEW n \in Nat, NEW V, NEW h, h[0] \in V,
           \A i \in 1 .. n : h[i - 1] \in V => h[i] \in V
    PROVE  h[n] \in V
<1> DEFINE N == {m \in Nat : m <= n => h[m] \in V}
<1>1. 0 \in N
  OBVIOUS
<1>2. \A m \in Nat : m \in N => m + 1 \in N
  <2> SUFFICES ASSUME NEW m \in Nat, m \in N, m + 1 <= n PROVE h[m + 1] \in V
    OBVIOUS
  <2>1. m + 1 \in 1 .. n /\ (m + 1) - 1 = m /\ h[m] \in V
    OBVIOUS
  <2> QED
    BY <2>1
<1> HIDE DEF N
<1>3. n \in N
  BY <1>1, <1>2, CountUp
<1> QED
  BY <1>3 DEF N

\* Of some subsets of a finite set one is smallest: no element can be dropped.
LEMMA Smallest ==
    ASSUME NEW S, IsFiniteSet(S), NEW B \in SUBSET (SUBSET S), B # {}
    PROVE  \E s \in B : \A x \in s : s \ {x} \notin B
<1> DEFINE T == {Cardinality(s) : s \in B}
<1>1. \A s \in B : IsFiniteSet(s) /\ Cardinality(s) \in Nat
  BY FS_Subset, FS_CardinalityType
<1>2. PICK n \in T : \A m \in T : n <= m
  <2>1. T \subseteq Nat /\ T # {}
    BY <1>1
  <2> HIDE DEF T
  <2> QED
    BY <2>1, Least
<1>3. PICK s \in B : n = Cardinality(s)
  BY <1>2
<1>4. ASSUME NEW x \in s, s \ {x} \in B
      PROVE  FALSE
  <2>1. Cardinality(s \ {x}) = Cardinality(s) - 1
    BY <1>1, FS_RemoveElement
  <2> QED
    BY <1>1, <1>2, <1>3, <1>4, <2>1
<1> QED
  BY <1>4
-----------------------------------------------------------------------------
(* The recursion the sum is chosen by.                                      *)

Pick(s) == CHOOSE x \in s : TRUE

\* One step of the recursion: the value at s from the values g has.
Unfold(g, f, s) == IF s = {} THEN 0 ELSE f[Pick(s)] + g[s \ {Pick(s)}]

Unfolds(g, f, S) == g = [s \in SUBSET S |-> Unfold(g, f, s)]

LEMMA SumChosen ==
    ASSUME NEW f, NEW S
    PROVE  SumFunctionOnSet(f, S) = (CHOOSE g : Unfolds(g, f, S))[S]
BY DEF SumFunctionOnSet, FoldFunctionOnSet, MapThenFoldSet, Unfolds, Unfold, Pick

LEMMA PickIn == ASSUME NEW s, s # {} PROVE Pick(s) \in s
BY DEF Pick

\* The subsets of S with at most n elements.
Layer(S, n) == {s \in SUBSET S : Cardinality(s) <= n}

\* There is a function that satisfies the recursion: it is built layer by layer.
LEMMA RecursionExists ==
    ASSUME NEW f, NEW S, IsFiniteSet(S)
    PROVE  \E g : Unfolds(g, f, S)
<1> DEFINE N == {n \in Nat : \E g : g = [s \in Layer(S, n) |-> Unfold(g, f, s)]}
<1>1. \A s \in SUBSET S : /\ IsFiniteSet(s) /\ Cardinality(s) \in Nat
                          /\ Cardinality(s) <= Cardinality(S)
                          /\ Cardinality(s) = 0 => s = {}
                          /\ s # {} => Cardinality(s \ {Pick(s)}) = Cardinality(s) - 1
  BY FS_Subset, FS_CardinalityType, FS_EmptySet, FS_RemoveElement, PickIn
<1>2. 0 \in N
  <2>1. ASSUME NEW s \in Layer(S, 0)
        PROVE  s = {}
    <3>1. s \in SUBSET S /\ Cardinality(s) <= 0
      BY DEF Layer
    <3>2. Cardinality(s) \in Nat
      BY <1>1, <3>1
    <3>3. Cardinality(s) = 0
      BY <3>1, <3>2
    <3> QED
      BY <1>1, <3>1, <3>3
  <2> DEFINE g == [s \in Layer(S, 0) |-> 0]
  <2>2. g = [s \in Layer(S, 0) |-> Unfold(g, f, s)]
    BY <2>1 DEF Unfold
  <2> QED
    BY <2>2
<1>3. ASSUME NEW n \in Nat, n \in N
      PROVE  n + 1 \in N
  <2>1. PICK g : g = [s \in Layer(S, n) |-> Unfold(g, f, s)]
    BY <1>3
  <2> DEFINE h == [s \in Layer(S, n + 1) |-> Unfold(g, f, s)]
  <2>2. ASSUME NEW s \in Layer(S, n + 1)
        PROVE  Unfold(g, f, s) = Unfold(h, f, s)
    <3>1. CASE s = {}
      BY <3>1 DEF Unfold
    <3>2. CASE s # {}
      <4> DEFINE t == s \ {Pick(s)}
      <4>1. t \in Layer(S, n) /\ t \in Layer(S, n + 1)
        BY <1>1, <2>2, <3>2 DEF Layer
      <4>2. g[t] = Unfold(g, f, t)
        BY <2>1, <4>1
      <4>3. h[t] = Unfold(g, f, t)
        BY <4>1
      <4> HIDE DEF h
      <4> QED
        BY <3>2, <4>2, <4>3 DEF Unfold
    <3> QED
      BY <3>1, <3>2
  <2>3. h = [s \in Layer(S, n + 1) |-> Unfold(h, f, s)]
    BY <2>2
  <2> HIDE DEF h
  <2>4. \E k : k = [s \in Layer(S, n + 1) |-> Unfold(k, f, s)]
    BY <2>3
  <2> QED
    BY <2>4
<1>4. Cardinality(S) \in N
  <2> HIDE DEF N
  <2>1. Nat \subseteq N
    BY <1>2, <1>3, CountUp
  <2> QED
    BY <2>1, FS_CardinalityType
<1>5. Layer(S, Cardinality(S)) = SUBSET S
  BY <1>1 DEF Layer
<1> QED
  BY <1>4, <1>5 DEF Unfolds

\* Two functions that satisfy it agree on the subsets both are defined on.
LEMMA RecursionUnique ==
    ASSUME NEW f, NEW S, IsFiniteSet(S), NEW T \in SUBSET S, NEW g, NEW h,
           Unfolds(g, f, S), Unfolds(h, f, T)
    PROVE  \A s \in SUBSET T : g[s] = h[s]
<1> DEFINE B == {s \in SUBSET T : g[s] # h[s]}
<1> SUFFICES ASSUME B # {} PROVE FALSE
  OBVIOUS
<1>1. PICK s \in B : \A x \in s : s \ {x} \notin B
  BY Smallest
<1>2. g[s] = Unfold(g, f, s) /\ h[s] = Unfold(h, f, s)
  BY DEF Unfolds
<1>3. CASE s = {}
  BY <1>2, <1>3 DEF Unfold
<1>4. CASE s # {}
  <2>1. g[s \ {Pick(s)}] = h[s \ {Pick(s)}]
    BY <1>1, <1>4, PickIn
  <2> QED
    BY <1>2, <1>4, <2>1 DEF Unfold
<1> QED
  BY <1>3, <1>4

\* So the function chosen for a set has the sums of all its subsets.
LEMMA SumBelow ==
    ASSUME NEW f, NEW S, IsFiniteSet(S), NEW g, g = CHOOSE k : Unfolds(k, f, S)
    PROVE  Unfolds(g, f, S) /\ \A T \in SUBSET S : g[T] = SumFunctionOnSet(f, T)
<1>1. Unfolds(g, f, S)
  BY RecursionExists
<1>2. ASSUME NEW T \in SUBSET S
      PROVE  g[T] = SumFunctionOnSet(f, T)
  <2>1. PICK h : h = CHOOSE k : Unfolds(k, f, T)
    OBVIOUS
  <2>2. Unfolds(h, f, T)
    BY <2>1, FS_Subset, RecursionExists
  <2>3. \A s \in SUBSET T : g[s] = h[s]
    BY <1>1, <2>2, RecursionUnique
  <2>4. h[T] = SumFunctionOnSet(f, T)
    BY <2>1, SumChosen
  <2> QED
    BY <2>3, <2>4
<1> QED
  BY <1>1, <1>2

\* The sum unfolds.
LEMMA SumUnfolds ==
    ASSUME NEW f, NEW S, IsFiniteSet(S)
    PROVE  SumFunctionOnSet(f, S) =
               IF S = {} THEN 0 ELSE f[Pick(S)] + SumFunctionOnSet(f, S \ {Pick(S)})
<1>1. PICK g : g = CHOOSE k : Unfolds(k, f, S)
  OBVIOUS
<1>2. Unfolds(g, f, S) /\ \A T \in SUBSET S : g[T] = SumFunctionOnSet(f, T)
  BY <1>1, SumBelow
<1>3. g[S] = Unfold(g, f, S)
  BY <1>2 DEF Unfolds
<1>4. g[S] = SumFunctionOnSet(f, S)
      /\ g[S \ {Pick(S)}] = SumFunctionOnSet(f, S \ {Pick(S)})
  BY <1>2
<1> QED
  BY <1>3, <1>4 DEF Unfold

LEMMA SumEmpty == ASSUME NEW f PROVE SumFunctionOnSet(f, {}) = 0
BY FS_EmptySet, SumUnfolds
-----------------------------------------------------------------------------
(* The laws of finite sums, for a function with integer values.             *)

LEMMA SumType ==
    ASSUME NEW f, NEW S, IsFiniteSet(S), \A x \in S : f[x] \in Int
    PROVE  SumFunctionOnSet(f, S) \in Int
<1> DEFINE B == {s \in SUBSET S : SumFunctionOnSet(f, s) \notin Int}
<1> SUFFICES ASSUME B # {} PROVE FALSE
  OBVIOUS
<1>1. PICK s \in B : \A x \in s : s \ {x} \notin B
  BY Smallest
<1>2. IsFiniteSet(s)
  BY FS_Subset
<1>3. CASE s = {}
  BY <1>3, SumEmpty
<1>4. CASE s # {}
  <2>1. SumFunctionOnSet(f, s) = f[Pick(s)] + SumFunctionOnSet(f, s \ {Pick(s)})
    BY <1>2, <1>4, SumUnfolds
  <2>2. f[Pick(s)] \in Int /\ SumFunctionOnSet(f, s \ {Pick(s)}) \in Int
    BY <1>1, <1>4, PickIn
  <2> QED
    BY <2>1, <2>2
<1> QED
  BY <1>3, <1>4

\* Any element may be taken out first: the order does not matter.
LEMMA SumRemove ==
    ASSUME NEW f, NEW S, IsFiniteSet(S), \A x \in S : f[x] \in Int, NEW a \in S
    PROVE  SumFunctionOnSet(f, S) = f[a] + SumFunctionOnSet(f, S \ {a})
<1> DEFINE B == {s \in SUBSET S :
                  \E x \in s : SumFunctionOnSet(f, s) # f[x] + SumFunctionOnSet(f, s \ {x})}
<1> SUFFICES ASSUME B # {} PROVE FALSE
  OBVIOUS
<1>1. PICK s \in B : \A x \in s : s \ {x} \notin B
  BY Smallest
<1>2. PICK x \in s : SumFunctionOnSet(f, s) # f[x] + SumFunctionOnSet(f, s \ {x})
  OBVIOUS
<1> DEFINE p == Pick(s)
<1>3. IsFiniteSet(s) /\ p \in s
  BY FS_Subset, PickIn
<1>4. SumFunctionOnSet(f, s) = f[p] + SumFunctionOnSet(f, s \ {p})
  BY <1>2, <1>3, SumUnfolds
<1>5. CASE p = x
  BY <1>2, <1>4, <1>5
<1>6. CASE p # x
  <2> DEFINE t == s \ {p, x}
  <2>1. (s \ {p}) \ {x} = t /\ (s \ {x}) \ {p} = t
    OBVIOUS
  <2>2. /\ s \ {p} \in SUBSET S /\ s \ {p} \notin B /\ x \in s \ {p}
        /\ s \ {x} \in SUBSET S /\ s \ {x} \notin B /\ p \in s \ {x}
    BY <1>1, <1>3, <1>6
  <2>3. /\ SumFunctionOnSet(f, s \ {p}) = f[x] + SumFunctionOnSet(f, (s \ {p}) \ {x})
        /\ SumFunctionOnSet(f, s \ {x}) = f[p] + SumFunctionOnSet(f, (s \ {x}) \ {p})
    BY <2>2
  <2>4. f[x] \in Int /\ f[p] \in Int /\ SumFunctionOnSet(f, t) \in Int
    <3>1. IsFiniteSet(t) /\ t \subseteq S
      BY <1>3, FS_Subset
    <3> HIDE DEF t
    <3> QED
      BY <1>3, <3>1, SumType
  <2>5. /\ SumFunctionOnSet(f, s \ {p}) = f[x] + SumFunctionOnSet(f, t)
        /\ SumFunctionOnSet(f, s \ {x}) = f[p] + SumFunctionOnSet(f, t)
    BY <2>1, <2>3
  <2> HIDE DEF t, p, B
  <2> QED
    BY <1>2, <1>4, <2>4, <2>5
<1> QED
  BY <1>5, <1>6

\* One more summand.
LEMMA SumAdd ==
    ASSUME NEW f, NEW S, IsFiniteSet(S), NEW a, a \notin S, \A x \in S \cup {a} : f[x] \in Int
    PROVE  SumFunctionOnSet(f, S \cup {a}) = SumFunctionOnSet(f, S) + f[a]
<1>1. IsFiniteSet(S \cup {a}) /\ (S \cup {a}) \ {a} = S
  BY FS_AddElement
<1>2. SumFunctionOnSet(f, S \cup {a}) = f[a] + SumFunctionOnSet(f, S)
  BY <1>1, SumRemove
<1>3. SumFunctionOnSet(f, S) \in Int /\ f[a] \in Int
  BY SumType
<1> QED
  BY <1>1, <1>2, <1>3

\* Only the values on the set matter.
LEMMA SumSame ==
    ASSUME NEW f, NEW g, NEW S, IsFiniteSet(S), \A x \in S : f[x] = g[x]
    PROVE  SumFunctionOnSet(f, S) = SumFunctionOnSet(g, S)
<1> DEFINE B == {s \in SUBSET S : SumFunctionOnSet(f, s) # SumFunctionOnSet(g, s)}
<1> SUFFICES ASSUME B # {} PROVE FALSE
  OBVIOUS
<1>1. PICK s \in B : \A x \in s : s \ {x} \notin B
  BY Smallest
<1>2. IsFiniteSet(s)
  BY FS_Subset
<1>3. CASE s = {}
  BY <1>3, SumEmpty
<1>4. CASE s # {}
  <2>1. /\ SumFunctionOnSet(f, s) = f[Pick(s)] + SumFunctionOnSet(f, s \ {Pick(s)})
        /\ SumFunctionOnSet(g, s) = g[Pick(s)] + SumFunctionOnSet(g, s \ {Pick(s)})
    BY <1>2, <1>4, SumUnfolds
  <2>2. /\ f[Pick(s)] = g[Pick(s)]
        /\ SumFunctionOnSet(f, s \ {Pick(s)}) = SumFunctionOnSet(g, s \ {Pick(s)})
    BY <1>1, <1>4, PickIn
  <2> QED
    BY <2>1, <2>2
<1> QED
  BY <1>3, <1>4

\* One summand is replaced.
LEMMA SumChange ==
    ASSUME NEW f, NEW g, NEW S, IsFiniteSet(S), NEW a \in S, \A x \in S : f[x] \in Int,
           g[a] \in Int, \A x \in S : x # a => g[x] = f[x]
    PROVE  SumFunctionOnSet(g, S) = SumFunctionOnSet(f, S) - f[a] + g[a]
<1> DEFINE T == S \ {a}
<1>1. IsFiniteSet(T) /\ \A x \in T : f[x] \in Int /\ f[x] = g[x]
  BY FS_Subset
<1>2. SumFunctionOnSet(f, S) = f[a] + SumFunctionOnSet(f, T)
  BY SumRemove
<1>3. SumFunctionOnSet(g, S) = g[a] + SumFunctionOnSet(g, T)
  BY SumRemove
<1> HIDE DEF T
<1>4. SumFunctionOnSet(f, T) = SumFunctionOnSet(g, T) /\ SumFunctionOnSet(f, T) \in Int
  BY <1>1, SumSame, SumType
<1> QED
  BY <1>2, <1>3, <1>4

\* Fewer and smaller summands, none negative, sum to no more.
LEMMA SumLess ==
    ASSUME NEW f, NEW g, NEW S, IsFiniteSet(S), NEW T \in SUBSET S,
           \A x \in S : f[x] \in Nat, \A x \in T : g[x] \in Nat /\ g[x] <= f[x]
    PROVE  SumFunctionOnSet(g, T) <= SumFunctionOnSet(f, S)
<1> DEFINE B == {s \in SUBSET S :
                  ~(SumFunctionOnSet(g, T \cap s) <= SumFunctionOnSet(f, s))}
<1> SUFFICES ASSUME B # {} PROVE FALSE
  BY T \cap S = T
<1>1. PICK s \in B : \A x \in s : s \ {x} \notin B
  BY Smallest
<1>2. IsFiniteSet(s) /\ IsFiniteSet(T \cap s)
  BY FS_Subset
<1>3. CASE s = {}
  <2>1. T \cap s = {}
    BY <1>3
  <2> QED
    BY <1>3, <2>1, SumEmpty
<1>4. CASE s # {}
  <2>1. PICK x : x \in s
    BY <1>4
  <2> DEFINE r == s \ {x}
  <2>2. SumFunctionOnSet(g, T \cap r) <= SumFunctionOnSet(f, r)
    BY <1>1, <2>1
  <2>3. SumFunctionOnSet(f, s) = f[x] + SumFunctionOnSet(f, r)
    BY <1>2, <2>1, SumRemove
  <2>4. IsFiniteSet(r) /\ IsFiniteSet(T \cap r) /\ r \in SUBSET S
    BY <1>2, FS_Subset
  <2>5. SumFunctionOnSet(f, r) \in Int /\ SumFunctionOnSet(g, T \cap r) \in Int
    <3> HIDE DEF r
    <3> QED
      BY <2>4, SumType
  <2>6. CASE x \in T
    <3>1. (T \cap s) \ {x} = T \cap r /\ x \in T \cap s
      BY <2>1, <2>6
    <3>2. SumFunctionOnSet(g, T \cap s) = g[x] + SumFunctionOnSet(g, T \cap r)
      BY <1>2, <3>1, SumRemove
    <3>3. g[x] \in Nat /\ f[x] \in Nat /\ g[x] <= f[x]
      BY <2>1, <2>6
    <3> HIDE DEF r
    <3>4. SumFunctionOnSet(g, T \cap s) <= SumFunctionOnSet(f, s)
      BY <2>2, <2>3, <2>5, <3>2, <3>3
    <3> QED
      BY <3>4
  <2>7. CASE x \notin T
    <3>1. T \cap s = T \cap r
      BY <2>7
    <3>2. f[x] \in Nat
      BY <2>1
    <3> HIDE DEF r
    <3> QED
      BY <2>2, <2>3, <2>5, <3>1, <3>2
  <2> QED
    BY <2>6, <2>7
<1> QED
  BY <1>3, <1>4

\* What one summand loses another gains.
LEMMA SumMove ==
    ASSUME NEW f, NEW g, NEW S, IsFiniteSet(S), NEW a \in S, NEW b \in S, a # b, NEW d \in Int,
           \A x \in S : f[x] \in Int, g[a] = f[a] - d, g[b] = f[b] + d,
           \A x \in S : x # a /\ x # b => g[x] = f[x]
    PROVE  SumFunctionOnSet(g, S) = SumFunctionOnSet(f, S)
<1> DEFINE h == [x \in S |-> IF x = a THEN g[a] ELSE f[x]]
<1>1. /\ \A x \in S : h[x] \in Int
      /\ h[a] = g[a] /\ h[b] = f[b] /\ g[a] \in Int /\ g[b] \in Int
      /\ \A x \in S : x # a => h[x] = f[x]
      /\ \A x \in S : x # b => g[x] = h[x]
  OBVIOUS
<1> HIDE DEF h
<1>2. SumFunctionOnSet(h, S) = SumFunctionOnSet(f, S) - f[a] + h[a]
  BY <1>1, SumChange
<1>3. SumFunctionOnSet(g, S) = SumFunctionOnSet(h, S) - h[b] + g[b]
  BY <1>1, SumChange
<1>4. SumFunctionOnSet(f, S) \in Int
  BY SumType
<1> QED
  BY <1>1, <1>2, <1>3, <1>4

\* The same amount for some, nothing for the others.
LEMMA SumUniform ==
    ASSUME NEW S, IsFiniteSet(S), NEW T \in SUBSET S, NEW c \in Nat, NEW f,
           \A x \in S : f[x] = IF x \in T THEN c ELSE 0
    PROVE  SumFunctionOnSet(f, S) = c * Cardinality(T)
<1> DEFINE B == {s \in SUBSET S : SumFunctionOnSet(f, s) # c * Cardinality(T \cap s)}
<1> SUFFICES ASSUME B # {} PROVE FALSE
  BY T \cap S = T
<1>1. PICK s \in B : \A x \in s : s \ {x} \notin B
  BY Smallest
<1>2. IsFiniteSet(s) /\ IsFiniteSet(T \cap s)
  BY FS_Subset
<1>3. CASE s = {}
  <2>1. T \cap s = {} /\ SumFunctionOnSet(f, s) = 0
    BY <1>3, SumEmpty
  <2> QED
    BY <2>1, FS_EmptySet
<1>4. CASE s # {}
  <2>1. PICK x : x \in s
    BY <1>4
  <2> DEFINE r == s \ {x}
  <2>2. SumFunctionOnSet(f, r) = c * Cardinality(T \cap r)
    BY <1>1, <2>1
  <2>3. SumFunctionOnSet(f, s) = f[x] + SumFunctionOnSet(f, r)
    BY <1>2, <2>1, SumRemove
  <2>4. IsFiniteSet(T \cap r)
    BY <1>2, FS_Subset
  <2>5. Cardinality(T \cap r) \in Nat
    BY <2>4, FS_CardinalityType
  <2>6. CASE x \in T
    <3>1. (T \cap s) \ {x} = T \cap r /\ x \in T \cap s
      BY <2>1, <2>6
    <3>2. Cardinality(T \cap r) = Cardinality(T \cap s) - 1 /\ Cardinality(T \cap s) \in Nat
      BY <1>2, <3>1, FS_RemoveElement, FS_CardinalityType
    <3> HIDE DEF r
    <3>3. Cardinality(T \cap s) = Cardinality(T \cap r) + 1
      BY <2>5, <3>2
    <3>4. c * (Cardinality(T \cap r) + 1) = c * Cardinality(T \cap r) + c
      BY <2>5
    <3>5. f[x] = c
      BY <2>1, <2>6
    <3>6. SumFunctionOnSet(f, s) = c * Cardinality(T \cap s)
      BY <2>2, <2>3, <2>5, <3>3, <3>4, <3>5
    <3> QED
      BY <3>6
  <2>7. CASE x \notin T
    <3>1. T \cap s = T \cap r /\ f[x] = 0
      BY <2>1, <2>7
    <3> HIDE DEF r
    <3>2. SumFunctionOnSet(f, r) \in Int
      BY <2>2, <2>5
    <3>3. SumFunctionOnSet(f, s) = SumFunctionOnSet(f, r)
      BY <2>3, <3>1, <3>2
    <3> QED
      BY <2>2, <3>1, <3>3
  <2> QED
    BY <2>6, <2>7
<1> QED
  BY <1>3, <1>4

\* Summands that are zero can be left out.
LEMMA SumSupport ==
    ASSUME NEW f, NEW S, IsFiniteSet(S), NEW T \in SUBSET S, \A x \in S : f[x] \in Nat,
           \A x \in S : x \notin T => f[x] = 0
    PROVE  SumFunctionOnSet(f, S) = SumFunctionOnSet(f, T)
<1> DEFINE B == {s \in SUBSET S : SumFunctionOnSet(f, s) # SumFunctionOnSet(f, T \cap s)}
<1> SUFFICES ASSUME B # {} PROVE FALSE
  BY T \cap S = T
<1>1. PICK s \in B : \A x \in s : s \ {x} \notin B
  BY Smallest
<1>2. IsFiniteSet(s) /\ IsFiniteSet(T \cap s) /\ \A x \in s : f[x] \in Int
  BY FS_Subset
<1>3. CASE s \subseteq T
  BY <1>3, T \cap s = s
<1>4. CASE ~(s \subseteq T)
  <2>1. PICK x : x \in s /\ x \notin T
    BY <1>4
  <2> DEFINE r == s \ {x}
  <2>2. T \cap r = T \cap s /\ f[x] = 0 /\ IsFiniteSet(r) /\ \A y \in r : f[y] \in Int
    BY <1>2, <2>1, FS_Subset
  <2>3. SumFunctionOnSet(f, r) = SumFunctionOnSet(f, T \cap r)
    BY <1>1, <2>1
  <2>4. SumFunctionOnSet(f, s) = f[x] + SumFunctionOnSet(f, r)
    BY <1>2, <2>1, SumRemove
  <2> HIDE DEF r
  <2>5. SumFunctionOnSet(f, r) \in Int
    BY <2>2, SumType
  <2>6. SumFunctionOnSet(f, s) = SumFunctionOnSet(f, r)
    BY <2>2, <2>4, <2>5
  <2> QED
    BY <2>2, <2>3, <2>6
<1> QED
  BY <1>3, <1>4

\* A sum over two parts.
LEMMA SumUnion ==
    ASSUME NEW f, NEW S, IsFiniteSet(S), NEW T, IsFiniteSet(T), S \cap T = {},
           \A x \in S \cup T : f[x] \in Int
    PROVE  SumFunctionOnSet(f, S \cup T) = SumFunctionOnSet(f, S) + SumFunctionOnSet(f, T)
<1> DEFINE B == {s \in SUBSET T :
                  SumFunctionOnSet(f, S \cup s) # SumFunctionOnSet(f, S) + SumFunctionOnSet(f, s)}
<1> SUFFICES ASSUME B # {} PROVE FALSE
  OBVIOUS
<1>1. PICK s \in B : \A x \in s : s \ {x} \notin B
  BY Smallest
<1>2. IsFiniteSet(s) /\ IsFiniteSet(S \cup s)
  BY FS_Subset, FS_Union
<1>3. SumFunctionOnSet(f, S) \in Int
  BY SumType
<1>4. CASE s = {}
  <2>1. S \cup s = S /\ SumFunctionOnSet(f, s) = 0
    BY <1>4, SumEmpty
  <2> QED
    BY <1>3, <2>1
<1>5. CASE s # {}
  <2>1. PICK x : x \in s
    BY <1>5
  <2> DEFINE r == s \ {x}
             u == S \cup s
  <2>2. SumFunctionOnSet(f, S \cup r) = SumFunctionOnSet(f, S) + SumFunctionOnSet(f, r)
    BY <1>1, <2>1
  <2>3. /\ S \cup r = u \ {x} /\ x \in u /\ IsFiniteSet(u)
        /\ \A y \in u : f[y] \in Int
        /\ \A y \in s : f[y] \in Int
        /\ \A y \in r : f[y] \in Int
        /\ IsFiniteSet(r)
    BY <1>2, <2>1, FS_Subset
  <2>4. SumFunctionOnSet(f, s) = f[x] + SumFunctionOnSet(f, r)
    BY <1>2, <2>1, <2>3, SumRemove
  <2> HIDE DEF r, u
  <2>5. SumFunctionOnSet(f, u) = f[x] + SumFunctionOnSet(f, S \cup r)
    BY <2>3, SumRemove
  <2>6. SumFunctionOnSet(f, r) \in Int /\ f[x] \in Int
    BY <2>3, SumType
  <2>7. SumFunctionOnSet(f, u) = SumFunctionOnSet(f, S) + SumFunctionOnSet(f, s)
    BY <1>3, <2>2, <2>4, <2>5, <2>6
  <2> QED
    BY <2>7 DEF u
<1> QED
  BY <1>4, <1>5

\* A sum of natural numbers is one.
LEMMA SumNat ==
    ASSUME NEW f, NEW S, IsFiniteSet(S), \A x \in S : f[x] \in Nat
    PROVE  SumFunctionOnSet(f, S) \in Nat
<1>1. \A x \in S : f[x] \in Int
  OBVIOUS
<1>2. SumFunctionOnSet(f, S) \in Int
  BY <1>1, SumType
<1>3. SumFunctionOnSet(f, {}) <= SumFunctionOnSet(f, S)
  BY SumLess
<1> QED
  BY <1>2, <1>3, SumEmpty
=============================================================================
