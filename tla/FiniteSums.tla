----------------------------- MODULE FiniteSums -----------------------------
(***************************************************************************)
(* Facts about SumFunction of the community modules: the sum of integers   *)
(* over a finite set is an integer, over no element it is zero, and it     *)
(* grows by what an element adds to it, whatever order it is summed in; so *)
(* what one more or one changed element does to it, and its sign, follow   *)
(* from the elements.                                                      *)
(*                                                                         *)
(* SumFunction is a recursive function on the subsets of the set, so the   *)
(* facts need induction. That strict inclusion of finite sets is well-     *)
(* founded gives it for subsets, and through the intervals 0 .. n for      *)
(* natural numbers, in a form that is stated of sets; least and greatest   *)
(* members and an induction on sequences follow from it.                   *)
(***************************************************************************)
EXTENDS Integers, Sequences, FiniteSets, Functions, FiniteSetTheorems, SequenceTheorems,
        WellFoundedInduction, TLAPS

(* A set of finite subsets has a member that contains no other. *)
LEMMA SmallestSubset ==
  ASSUME NEW S, NEW T \in SUBSET (FiniteSubsetsOf(S)), T # {}
  PROVE  \E x \in T : \A y \in T : ~(y \subseteq x /\ y # x)
<1>1. IsWellFoundedOn(StrictSubsetOrdering(S), FiniteSubsetsOf(S))
  BY FS_StrictSubsetOrderingWellFounded
<1> DEFINE R == StrictSubsetOrdering(S)
<1>2. PICK x \in T : \A y \in T : <<y, x>> \notin R
  <2> HIDE DEF R
  <2>1. IsWellFoundedOn(R, FiniteSubsetsOf(S))  BY <1>1 DEF R
  <2>2. T \subseteq FiniteSubsetsOf(S) OBVIOUS
  <2> QED BY <2>1, <2>2, WFMin
<1>3. \A y \in T : y \in SUBSET S
  BY DEF FiniteSubsetsOf
<1> QED BY <1>2, <1>3 DEF StrictSubsetOrdering

(* What holds of 0 and of the successor of each of its members holds of    *)
(* every natural number.                                                   *)
LEMMA NaturalInduction ==
  ASSUME NEW G \in SUBSET Nat, 0 \in G, \A n \in G : n + 1 \in G
  PROVE  G = Nat
<1> SUFFICES ASSUME NEW m \in Nat, m \notin G PROVE FALSE
  OBVIOUS
<1> DEFINE T == {0 .. n : n \in Nat \ G}
<1>1. T \in SUBSET FiniteSubsetsOf(Nat)
  BY FS_Interval DEF FiniteSubsetsOf
<1>2. 0 .. m \in T
  OBVIOUS
<1>3. PICK x \in T : \A y \in T : ~(y \subseteq x /\ y # x)
  <2> HIDE DEF T
  <2> QED BY <1>1, <1>2, SmallestSubset
<1>4. PICK n \in Nat \ G : x = 0 .. n
  BY <1>3
<1>5. n - 1 \in Nat \ G
  BY <1>4
<1>6. 0 .. (n - 1) \in T
  BY <1>5
<1>7. 0 .. (n - 1) \subseteq 0 .. n /\ n \in 0 .. n /\ n \notin 0 .. (n - 1)
  BY <1>4
<1> QED BY <1>3, <1>4, <1>6, <1>7

(* A set of natural numbers has a least member. *)
LEMMA LeastMember ==
  ASSUME NEW T \in SUBSET Nat, T # {}
  PROVE  \E m \in T : \A n \in T : m <= n
<1> SUFFICES ASSUME \A m \in T : \E n \in T : n < m PROVE FALSE
  OBVIOUS
<1> DEFINE G == {n \in Nat : \A m \in 0 .. n : m \notin T}
<1>1. 0 \in G
  OBVIOUS
<1>2. ASSUME NEW n \in G PROVE n + 1 \in G
  OBVIOUS
<1>3. G = Nat
  <2>1. G \in SUBSET Nat
    OBVIOUS
  <2> HIDE DEF G
  <2> QED BY <1>1, <1>2, <2>1, NaturalInduction
<1>4. PICK m \in T : TRUE
  OBVIOUS
<1>5. m \in G /\ m \in 0 .. m
  BY <1>3
<1> QED BY <1>4, <1>5

-----------------------------------------------------------------------------
(* The element that SumFunction takes away first *)
Chosen(s) == CHOOSE x \in s : TRUE

(* The body of the recursive function, of which f is the rest *)
SumStep(g, f, s) == IF s = {} THEN 0 ELSE g[Chosen(s)] + f[s \ {Chosen(s)}]

(* The sums over all subsets of S *)
Partial(g, S) == CHOOSE f : f = [s \in SUBSET S |-> SumStep(g, f, s)]

(* SumFunctionOnSet, with its folds expanded. *)
LEMMA SumIsPartial ==
  ASSUME NEW g, NEW S
  PROVE  SumFunctionOnSet(g, S) = Partial(g, S)[S]
BY DEF SumFunctionOnSet, FoldFunctionOnSet, MapThenFoldSet, Partial, SumStep, Chosen

(* The recursive function exists: one that is defined on the subsets of at *)
(* most n elements extends to those of n + 1.                              *)
LEMMA PartialExists ==
  ASSUME NEW S, IsFiniteSet(S), NEW g \in [S -> Int]
  PROVE  Partial(g, S) = [s \in SUBSET S |-> SumStep(g, Partial(g, S), s)]
<1> DEFINE Small(n) == {s \in SUBSET S : Cardinality(s) <= n}
           Solves(f, n) == f = [s \in Small(n) |-> SumStep(g, f, s)]
           G == {n \in Nat : \E f : Solves(f, n)}
<1>card. \A s \in SUBSET S : IsFiniteSet(s) /\ Cardinality(s) \in Nat
  BY FS_Subset, FS_CardinalityType
<1>less. ASSUME NEW s \in SUBSET S, s # {}
         PROVE  /\ Chosen(s) \in s /\ s \ {Chosen(s)} \in SUBSET S
                /\ Cardinality(s \ {Chosen(s)}) = Cardinality(s) - 1
  <2>1. Chosen(s) \in s
    BY <1>less DEF Chosen
  <2> QED
    BY <2>1, <1>card, FS_RemoveElement
<1>1. 0 \in G
  <2> DEFINE f == [s \in Small(0) |-> 0]
  <2>1. \A s \in Small(0) : s = {}
    BY <1>card, FS_EmptySet
  <2>2. Solves(f, 0)
    BY <2>1 DEF SumStep
  <2> QED BY <2>2
<1>2. ASSUME NEW n \in G PROVE n + 1 \in G
  <2>1. PICK f : Solves(f, n)
    OBVIOUS
  <2> DEFINE h == [s \in Small(n + 1) |-> SumStep(g, f, s)]
  <2>2. ASSUME NEW s \in Small(n + 1) PROVE SumStep(g, h, s) = SumStep(g, f, s)
    <3>1. CASE s = {}
      BY <3>1 DEF SumStep
    <3>2. CASE s # {}
      <4> DEFINE t == s \ {Chosen(s)}
      <4>1. t \in Small(n) /\ t \in Small(n + 1)
        BY <3>2, <1>less, <1>card
      <4>2. f[t] = SumStep(g, f, t)
        BY <2>1, <4>1
      <4>3. h[t] = SumStep(g, f, t)
        BY <4>1
      <4> QED BY <4>2, <4>3, <3>2 DEF SumStep
    <3> QED BY <3>1, <3>2
  <2>3. Solves(h, n + 1)
    BY <2>2
  <2>4. \E k : Solves(k, n + 1)
    <3> HIDE DEF h, Solves
    <3> QED BY <2>3
  <2>5. n + 1 \in Nat
    OBVIOUS
  <2> HIDE DEF Solves
  <2> QED BY <2>4, <2>5
<1>3. G = Nat
  <2>1. G \in SUBSET Nat
    OBVIOUS
  <2> HIDE DEF G
  <2> QED BY <2>1, <1>1, <1>2, NaturalInduction
<1>4. Small(Cardinality(S)) = SUBSET S
  BY FS_Subset
<1>5. Cardinality(S) \in G
  BY <1>3, <1>card
<1>6. \E f : f = [s \in SUBSET S |-> SumStep(g, f, s)]
  BY <1>4, <1>5
<1> QED BY <1>6 DEF Partial

(* A set of integers that is closed under addition and holds 0 also holds  *)
(* every finite sum of its members: a smallest subset whose sum is outside *)
(* would have a smaller one.                                               *)
LEMMA SumsStayWithin ==
  ASSUME NEW S, IsFiniteSet(S), NEW V \in SUBSET Int, NEW g \in [S -> V],
         0 \in V, \A m, n \in V : m + n \in V
  PROVE  SumFunctionOnSet(g, S) \in V
<1> DEFINE p == Partial(g, S)
           T == {s \in SUBSET S : p[s] \notin V}
<1>0. g \in [S -> Int]
  OBVIOUS
<1>1. \A s \in SUBSET S : p[s] = SumStep(g, p, s)
  BY <1>0, PartialExists
<1> HIDE DEF p
<1>2. T = {}
  <2> SUFFICES ASSUME T # {} PROVE FALSE
    OBVIOUS
  <2>1. T \in SUBSET FiniteSubsetsOf(S)
    BY FS_Subset DEF FiniteSubsetsOf
  <2>2. PICK x \in T : \A y \in T : ~(y \subseteq x /\ y # x)
    <3> HIDE DEF T
    <3> QED BY <2>1, SmallestSubset
  <2>3. x # {}
    <3>1. p[{}] = 0
      BY <1>1 DEF SumStep
    <3> QED BY <3>1
  <2>4. Chosen(x) \in x
    BY <2>3 DEF Chosen
  <2>5. x \ {Chosen(x)} \notin T
    BY <2>2, <2>4
  <2>6. x \ {Chosen(x)} \in SUBSET S /\ p[x \ {Chosen(x)}] \in V /\ g[Chosen(x)] \in V
    BY <2>4, <2>5
  <2>7. p[x] = g[Chosen(x)] + p[x \ {Chosen(x)}]
    BY <1>1, <2>3 DEF SumStep
  <2> QED BY <2>6, <2>7
<1> QED BY <1>2, SumIsPartial DEF p

(* The sum over the empty set is zero. *)
LEMMA SumOfNothing == ASSUME NEW g PROVE SumFunctionOnSet(g, {}) = 0
<1> DEFINE p == Partial(g, {})
<1>1. \E f : f = [s \in SUBSET {} |-> SumStep(g, f, s)]
  <2>1. [s \in SUBSET {} |-> 0] = [s \in SUBSET {} |-> SumStep(g, [t \in SUBSET {} |-> 0], s)]
    BY DEF SumStep
  <2> QED BY <2>1
<1>2. p = [s \in SUBSET {} |-> SumStep(g, p, s)]
  BY <1>1 DEF Partial
<1> HIDE DEF p
<1>3. p[{}] = 0
  BY <1>2 DEF SumStep
<1> QED BY <1>3, SumIsPartial DEF p

-----------------------------------------------------------------------------
(* The facts for SumFunction, which sums over its argument's domain. *)
LEMMA TotalIsInteger ==
  ASSUME NEW S, IsFiniteSet(S), NEW g \in [S -> Int]
  PROVE  SumFunction(g) \in Int
<1>1. DOMAIN g = S /\ 0 \in Int /\ \A m, n \in Int : m + n \in Int
  OBVIOUS
<1> QED
  BY <1>1, SumsStayWithin DEF SumFunction

(* Of zeros, the sum is zero. *)
LEMMA TotalOfZeros ==
  ASSUME NEW S, IsFiniteSet(S), NEW g \in [S -> {0}]
  PROVE  SumFunction(g) = 0
<1>1. DOMAIN g = S /\ {0} \in SUBSET Int /\ 0 \in {0} /\ \A m, n \in {0} : m + n \in {0}
  OBVIOUS
<1>2. SumFunctionOnSet(g, S) \in {0}
  BY <1>1, SumsStayWithin
<1> QED
  BY <1>1, <1>2 DEF SumFunction

(* Of nothing, whatever it would be, it is zero as well. *)
LEMMA TotalOfNothing ==
  ASSUME NEW g, DOMAIN g = {}
  PROVE  SumFunction(g) = 0
BY SumOfNothing DEF SumFunction

-----------------------------------------------------------------------------
(* A set of natural numbers up to a bound has a greatest member. *)
LEMMA GreatestMember ==
  ASSUME NEW b \in Nat, NEW T \in SUBSET (0 .. b), T # {}
  PROVE  \E m \in T : \A n \in T : n <= m
<1> DEFINE U == {n \in Nat : b - n \in T}
<1>1. U \in SUBSET Nat /\ U # {}
  <2>1. PICK t \in T : TRUE
    OBVIOUS
  <2>2. b - t \in Nat /\ b - (b - t) = t
    OBVIOUS
  <2> QED
    BY <2>1, <2>2
<1>2. PICK m \in U : \A n \in U : m <= n
  <2> HIDE DEF U
  <2> QED
    BY <1>1, LeastMember
<1>3. \A t \in T : b - t \in U
  OBVIOUS
<1>4. \A t \in T : t <= b - m
  BY <1>2, <1>3
<1> QED
  BY <1>2, <1>4

(* What holds of the empty sequence and is kept by appending an element    *)
(* holds of every sequence.                                                *)
LEMMA SequenceInduction ==
  ASSUME NEW S, NEW G \in SUBSET Seq(S), <<>> \in G,
         \A s \in G, x \in S : Append(s, x) \in G
  PROVE  G = Seq(S)
<1> DEFINE H == {n \in Nat : \A s \in Seq(S) : Len(s) = n => s \in G}
<1>1. 0 \in H
  OBVIOUS
<1>2. ASSUME NEW n \in H PROVE n + 1 \in H
  <2> SUFFICES ASSUME NEW s \in Seq(S), Len(s) = n + 1 PROVE s \in G
    OBVIOUS
  <2> DEFINE front == SubSeq(s, 1, n)
  <2>1. front \in Seq(S) /\ Len(front) = n /\ s[n + 1] \in S
    OBVIOUS
  <2>2. s = Append(front, s[n + 1])
    <3>1. Append(front, s[n + 1]) \in Seq(S) /\ Len(Append(front, s[n + 1])) = n + 1
      BY <2>1
    <3>2. \A k \in 1 .. n + 1 : Append(front, s[n + 1])[k] = s[k]
      OBVIOUS
    <3> HIDE DEF front
    <3> QED
      BY <3>1, <3>2, SeqEqual
  <2>3. front \in G
    BY <2>1
  <2> HIDE DEF front
  <2> QED
    BY <2>1, <2>2, <2>3
<1>3. H = Nat
  <2>1. H \in SUBSET Nat
    OBVIOUS
  <2> HIDE DEF H
  <2> QED
    BY <1>1, <1>2, <2>1, NaturalInduction
<1>4. ASSUME NEW s \in Seq(S) PROVE s \in G
  <2>1. Len(s) \in H
    <3> HIDE DEF H
    <3> QED
      BY <1>3
  <2> QED
    BY <2>1
<1> QED
  BY <1>4

-----------------------------------------------------------------------------
(* Sums over a subset are the same whatever set it is a subset of. *)
LEMMA PartialAgrees ==
  ASSUME NEW S, NEW T, IsFiniteSet(T), S \subseteq T, NEW g \in [S -> Int], NEW h \in [T -> Int],
         \A x \in S : g[x] = h[x]
  PROVE  \A s \in SUBSET S : Partial(g, S)[s] = Partial(h, T)[s]
<1> DEFINE p == Partial(g, S)
           q == Partial(h, T)
           X == {s \in SUBSET S : p[s] # q[s]}
<1>0. IsFiniteSet(S)
  BY FS_Subset
<1>1. \A s \in SUBSET S : p[s] = SumStep(g, p, s) /\ q[s] = SumStep(h, q, s)
  BY <1>0, PartialExists
<1> HIDE DEF p, q
<1>2. X = {}
  <2> SUFFICES ASSUME X # {} PROVE FALSE
    OBVIOUS
  <2>1. X \in SUBSET FiniteSubsetsOf(S)
    BY <1>0, FS_Subset DEF FiniteSubsetsOf
  <2>2. PICK x \in X : \A y \in X : ~(y \subseteq x /\ y # x)
    <3> HIDE DEF X
    <3> QED BY <2>1, SmallestSubset
  <2>3. x # {}
    <3>1. p[{}] = 0 /\ q[{}] = 0
      BY <1>1 DEF SumStep
    <3> QED BY <3>1
  <2>4. Chosen(x) \in x
    BY <2>3 DEF Chosen
  <2>5. x \ {Chosen(x)} \in SUBSET S /\ p[x \ {Chosen(x)}] = q[x \ {Chosen(x)}]
    BY <2>2, <2>4
  <2>6. /\ p[x] = g[Chosen(x)] + p[x \ {Chosen(x)}]
        /\ q[x] = h[Chosen(x)] + q[x \ {Chosen(x)}]
    BY <1>1, <2>3 DEF SumStep
  <2> QED BY <2>4, <2>5, <2>6
<1> QED BY <1>2 DEF p, q

LEMMA PartialIsInteger ==
  ASSUME NEW S, IsFiniteSet(S), NEW g \in [S -> Int], NEW s \in SUBSET S
  PROVE  Partial(g, S)[s] \in Int
<1> DEFINE h == [x \in s |-> g[x]]
<1>1. IsFiniteSet(s) /\ h \in [s -> Int] /\ \A x \in s : h[x] = g[x]
  BY FS_Subset
<1> HIDE DEF h
<1>2. Partial(h, s)[s] = Partial(g, S)[s]
  BY <1>1, PartialAgrees
<1>3. SumFunctionOnSet(h, s) \in Int
  <2>1. 0 \in Int /\ \A m, n \in Int : m + n \in Int
    OBVIOUS
  <2> QED BY <1>1, <2>1, SumsStayWithin
<1> QED BY <1>2, <1>3, SumIsPartial

(* Any element may be taken away first. *)
LEMMA PartialCommutes ==
  ASSUME NEW S, IsFiniteSet(S), NEW g \in [S -> Int]
  PROVE  \A s \in SUBSET S : \A x \in s : Partial(g, S)[s] = g[x] + Partial(g, S)[s \ {x}]
<1> DEFINE p == Partial(g, S)
           X == {s \in SUBSET S : \E x \in s : p[s] # g[x] + p[s \ {x}]}
<1>1. \A s \in SUBSET S : p[s] = SumStep(g, p, s)
  BY PartialExists
<1>int. \A s \in SUBSET S : p[s] \in Int
  BY PartialIsInteger
<1> HIDE DEF p
<1>2. X = {}
  <2> SUFFICES ASSUME X # {} PROVE FALSE
    OBVIOUS
  <2>1. X \in SUBSET FiniteSubsetsOf(S)
    BY FS_Subset DEF FiniteSubsetsOf
  <2>2. PICK s \in X : \A t \in X : ~(t \subseteq s /\ t # s)
    <3> HIDE DEF X
    <3> QED BY <2>1, SmallestSubset
  <2>3. s \in SUBSET S
    BY <2>2
  <2>4. PICK x \in s : p[s] # g[x] + p[s \ {x}]
    BY <2>2
  <2> DEFINE y == Chosen(s)
  <2>5. y \in s /\ p[s] = g[y] + p[s \ {y}]
    BY <1>1, <2>3, <2>4 DEF SumStep, Chosen
  <2> HIDE DEF y
  <2>6. x # y
    BY <2>4, <2>5
  <2>7. s \ {x} \notin X /\ s \ {y} \notin X
    BY <2>2, <2>4, <2>5
  <2>8. /\ p[s \ {y}] = g[x] + p[(s \ {y}) \ {x}]
        /\ p[s \ {x}] = g[y] + p[(s \ {x}) \ {y}]
    BY <2>3, <2>4, <2>5, <2>6, <2>7
  <2>9. (s \ {y}) \ {x} = (s \ {x}) \ {y}
    OBVIOUS
  <2>10. g[x] \in Int /\ g[y] \in Int /\ p[(s \ {x}) \ {y}] \in Int
    BY <1>int, <2>3, <2>4, <2>5
  <2> HIDE DEF X
  <2>11. p[s \ {x}] = g[y] + p[(s \ {x}) \ {y}]
    BY <2>8
  <2>12. p[s] = g[y] + (g[x] + p[(s \ {x}) \ {y}])
    BY <2>5, <2>8, <2>9
  <2> QED BY <2>4, <2>10, <2>11, <2>12
<1> QED BY <1>2 DEF p

(* One element more adds its value to the sum. *)
LEMMA TotalWithOneMore ==
  ASSUME NEW S, IsFiniteSet(S), NEW x, x \notin S,
         NEW g \in [S -> Int], NEW h \in [S \cup {x} -> Int], \A y \in S : g[y] = h[y]
  PROVE  SumFunction(h) = SumFunction(g) + h[x]
<1> DEFINE T == S \cup {x}
<1>1. IsFiniteSet(T)
  BY FS_AddElement
<1>2. Partial(h, T)[T] = h[x] + Partial(h, T)[T \ {x}]
  BY <1>1, PartialCommutes
<1>3. T \ {x} = S
  OBVIOUS
<1>8. Partial(h, T)[T] = h[x] + Partial(h, T)[S]
  BY <1>2, <1>3
<1>4. Partial(g, S)[S] = Partial(h, T)[S]
  BY <1>1, PartialAgrees
<1>5. DOMAIN h = T /\ DOMAIN g = S
  OBVIOUS
<1>6. SumFunction(h) = Partial(h, T)[T] /\ SumFunction(g) = Partial(g, S)[S]
  BY <1>5, SumIsPartial DEF SumFunction
<1>7. SumFunction(g) \in Int /\ h[x] \in Int
  BY TotalIsInteger
<1>9. SumFunction(h) = h[x] + SumFunction(g)
  BY <1>4, <1>6, <1>8
<1> QED
  BY <1>7, <1>9

(* When the value of one element changes, the sum changes by as much. *)
LEMMA TotalWithOneChanged ==
  ASSUME NEW S, IsFiniteSet(S), NEW x \in S, NEW g \in [S -> Int], NEW h \in [S -> Int],
         \A y \in S \ {x} : g[y] = h[y]
  PROVE  SumFunction(h) = SumFunction(g) - g[x] + h[x]
<1> DEFINE rest == [y \in S \ {x} |-> g[y]]
<1>1. IsFiniteSet(S \ {x}) /\ x \notin S \ {x} /\ (S \ {x}) \cup {x} = S
  BY FS_Subset
<1>2. rest \in [S \ {x} -> Int] /\ \A y \in S \ {x} : rest[y] = g[y] /\ rest[y] = h[y]
  OBVIOUS
<1> HIDE DEF rest
<1>3. SumFunction(g) = SumFunction(rest) + g[x]
  BY <1>1, <1>2, TotalWithOneMore
<1>4. SumFunction(h) = SumFunction(rest) + h[x]
  BY <1>1, <1>2, TotalWithOneMore
<1>5. SumFunction(rest) \in Int /\ g[x] \in Int /\ h[x] \in Int
  BY <1>1, <1>2, TotalIsInteger
<1> QED
  BY <1>3, <1>4, <1>5

LEMMA TotalOfOne ==
  ASSUME NEW x, NEW g \in [{x} -> Int]
  PROVE  SumFunction(g) = g[x]
<1> DEFINE none == [y \in {} |-> 0]
           S == {}
<1>1. IsFiniteSet(S) /\ none \in [S -> Int] /\ x \notin S /\ g \in [S \cup {x} -> Int]
      /\ \A y \in S : none[y] = g[y]
  BY FS_EmptySet
<1>2. SumFunction(none) = 0 /\ g[x] \in Int
  BY TotalOfNothing
<1> HIDE DEF none, S
<1>3. SumFunction(g) = SumFunction(none) + g[x]
  BY <1>1, TotalWithOneMore, SMTT(30)
<1> QED
  BY <1>2, <1>3

(* A total of natural numbers is one. *)
LEMMA TotalIsNatural ==
  ASSUME NEW S, IsFiniteSet(S), NEW g \in [S -> Nat]
  PROVE  SumFunction(g) \in Nat
<1>1. DOMAIN g = S /\ Nat \in SUBSET Int /\ 0 \in Nat /\ \A m, n \in Nat : m + n \in Nat
  OBVIOUS
<1> QED
  BY <1>1, SumsStayWithin DEF SumFunction

LEMMA TotalIsNotPositive ==
  ASSUME NEW S, IsFiniteSet(S), NEW g \in [S -> {n \in Int : n <= 0}]
  PROVE  SumFunction(g) \in Int /\ SumFunction(g) <= 0
<1> DEFINE N == {n \in Int : n <= 0}
<1>1. DOMAIN g = S /\ N \in SUBSET Int /\ 0 \in N /\ \A m, n \in N : m + n \in N
  OBVIOUS
<1>2. g \in [S -> N]
  OBVIOUS
<1> HIDE DEF N
<1>3. SumFunction(g) \in N
  BY <1>1, <1>2, SumsStayWithin DEF SumFunction
<1> QED
  BY <1>3 DEF N

(* Elements that add zero may be left out. *)
LEMMA TotalWithoutZeros ==
  ASSUME NEW T, IsFiniteSet(T), NEW S \in SUBSET T, NEW g \in [S -> Int], NEW h \in [T -> Int],
         \A x \in S : g[x] = h[x], \A x \in T \ S : h[x] = 0
  PROVE  SumFunction(h) = SumFunction(g)
<1> DEFINE q == Partial(h, T)
           X == {s \in SUBSET (T \ S) : q[S \cup s] # q[S]}
<1>1. \A s \in SUBSET T : \A x \in s : q[s] = h[x] + q[s \ {x}]
  BY PartialCommutes, ZenonT(30)
<1>int. \A s \in SUBSET T : q[s] \in Int
  BY PartialIsInteger
<1>sum. SumFunction(h) = q[T] /\ SumFunction(g) = q[S]
  <2>1. DOMAIN h = T /\ DOMAIN g = S
    OBVIOUS
  <2>2. Partial(g, S)[S] = Partial(h, T)[S]
    BY PartialAgrees
  <2> QED
    BY <2>1, <2>2, SumIsPartial DEF SumFunction
<1> HIDE DEF q
<1>2. X = {}
  <2> SUFFICES ASSUME X # {} PROVE FALSE
    OBVIOUS
  <2>1. X \in SUBSET FiniteSubsetsOf(T)
    BY FS_Subset DEF FiniteSubsetsOf
  <2>2. PICK s \in X : \A y \in X : ~(y \subseteq s /\ y # s)
    <3> HIDE DEF X
    <3> QED BY <2>1, SmallestSubset
  <2>3. s # {}
    OBVIOUS
  <2>4. PICK x \in s : TRUE
    BY <2>3
  <2>5. s \ {x} \notin X
    BY <2>2, <2>4
  <2>6. s \ {x} \in SUBSET (T \ S) /\ q[S \cup (s \ {x})] = q[S]
    BY <2>5
  <2>7. (S \cup s) \ {x} = S \cup (s \ {x}) /\ h[x] = 0
    OBVIOUS
  <2>8. q[S \cup s] = h[x] + q[(S \cup s) \ {x}]
    BY <1>1
  <2>9. q[S \cup s] = 0 + q[S] /\ q[S] \in Int
    BY <1>int, <2>6, <2>7, <2>8
  <2> QED
    BY <2>9
<1>3. T \ S \notin X /\ S \cup (T \ S) = T
  BY <1>2
<1> QED
  BY <1>3, <1>sum

(* A part of natural numbers totals no more than all of them. *)
LEMMA TotalOfPart ==
  ASSUME NEW T, IsFiniteSet(T), NEW S \in SUBSET T, NEW g \in [S -> Nat], NEW h \in [T -> Nat],
         \A x \in S : g[x] = h[x]
  PROVE  SumFunction(g) <= SumFunction(h)
<1> DEFINE q == Partial(h, T)
           X == {s \in SUBSET (T \ S) : ~(q[S] <= q[S \cup s])}
<1>0. g \in [S -> Int] /\ h \in [T -> Int] /\ IsFiniteSet(S)
  BY FS_Subset
<1>1. \A s \in SUBSET T : \A x \in s : q[s] = h[x] + q[s \ {x}]
  BY <1>0, PartialCommutes
<1>int. \A s \in SUBSET T : q[s] \in Int
  BY <1>0, PartialIsInteger
<1>sum. SumFunction(h) = q[T] /\ SumFunction(g) = q[S]
  <2>1. DOMAIN h = T /\ DOMAIN g = S
    OBVIOUS
  <2>2. Partial(g, S)[S] = Partial(h, T)[S]
    BY <1>0, PartialAgrees
  <2> QED
    BY <2>1, <2>2, SumIsPartial DEF SumFunction
<1> HIDE DEF q
<1>2. X = {}
  <2> SUFFICES ASSUME X # {} PROVE FALSE
    OBVIOUS
  <2>1. X \in SUBSET FiniteSubsetsOf(T)
    BY FS_Subset DEF FiniteSubsetsOf
  <2>2. PICK s \in X : \A y \in X : ~(y \subseteq s /\ y # s)
    <3> HIDE DEF X
    <3> QED BY <2>1, SmallestSubset
  <2>3. s # {}
    <3>1. q[S] <= q[S \cup {}]
      BY <1>int
    <3> QED BY <3>1
  <2>4. PICK x \in s : TRUE
    BY <2>3
  <2>5. s \ {x} \notin X
    BY <2>2, <2>4
  <2>6. s \ {x} \in SUBSET (T \ S) /\ q[S] <= q[S \cup (s \ {x})]
    BY <2>5
  <2>7. (S \cup s) \ {x} = S \cup (s \ {x}) /\ h[x] \in Nat
    OBVIOUS
  <2>8. q[S \cup s] = h[x] + q[(S \cup s) \ {x}]
    BY <1>1
  <2>9. q[S \cup s] = h[x] + q[S \cup (s \ {x})]
    BY <2>7, <2>8
  <2>10. q[S \cup (s \ {x})] \in Int /\ q[S] \in Int
    BY <1>int
  <2>11. q[S] <= q[S \cup s]
    BY <2>6, <2>7, <2>9, <2>10
  <2> QED
    BY <2>11
<1>3. T \ S \notin X /\ S \cup (T \ S) = T
  BY <1>2
<1> QED
  BY <1>3, <1>sum

(* No one of natural numbers is more than their total. *)
LEMMA TotalHasMember ==
  ASSUME NEW T, IsFiniteSet(T), NEW h \in [T -> Nat], NEW x \in T
  PROVE  h[x] <= SumFunction(h)
<1> DEFINE one == [y \in {x} |-> h[y]]
           S == {x}
<1>1. one \in [S -> Nat] /\ S \in SUBSET T /\ \A y \in S : one[y] = h[y]
  OBVIOUS
<1>2. SumFunction(one) = h[x]
  <2>1. one \in [{x} -> Int] /\ one[x] = h[x]
    OBVIOUS
  <2> HIDE DEF one
  <2> QED BY <2>1, TotalOfOne
<1> HIDE DEF one, S
<1> QED
  BY <1>1, <1>2, TotalOfPart
=============================================================================
