------------------------------- MODULE DataLemmas -------------------------------
(***************************************************************************)
(* Lemmas about numbers, finite sets and sums that the proofs about several  *)
(* components rest on. They are about no variable of a component.            *)
(*                                                                         *)
(* The provers offer no induction: that every number up to n has a property   *)
(* is shown of the least one that lacks it, and that every part of a finite   *)
(* set has one by the number of its elements.                                *)
(***************************************************************************)
EXTENDS Integers, Sequences, Functions, FiniteSetTheorems, WellFoundedInduction, TLAPS

-------------------------------------------------------------------------------
(* Numbers *)

\* What fails for some number does so for a least one.
LEMMA LeastNumber ==
  ASSUME NEW S \in SUBSET Nat, S # {}
  PROVE  \E x \in S : \A y \in S : x <= y
<1> DEFINE R == OpToRel(<, Nat)
<1>1. IsWellFoundedOn(R, Nat)
  BY NatLessThanWellFounded
<1>2. \A x, y \in Nat : y < x => <<y, x>> \in R
  BY DEF OpToRel
<1> HIDE DEF R
<1>3. PICK x \in S : \A y \in S : ~ (<<y, x>> \in R)
  BY <1>1, WFMin
<1>4. \A y \in S : ~ (y < x)
  BY <1>2, <1>3
<1> QED
  BY <1>3, <1>4

\* An induction on a set of numbers: it holds for 0 and passes on.
LEMMA NumbersUpTo ==
  ASSUME NEW n \in Nat, NEW S, 0 \in S,
         \A k \in 1 .. n : k - 1 \in S => k \in S
  PROVE  \A k \in 0 .. n : k \in S
<1> DEFINE Bad == { k \in 0 .. n : k \notin S }
<1> SUFFICES ASSUME Bad # {}
             PROVE  FALSE
  OBVIOUS
<1>1. Bad \in SUBSET Nat
  OBVIOUS
<1>2. PICK m \in Bad : \A k \in Bad : m <= k
  BY <1>1, LeastNumber
<1>3. m \in 1 .. n /\ m \notin S /\ m - 1 \in 0 .. n
  BY <1>2
<1>4. m - 1 \notin Bad
  <2>1. ~ (m <= m - 1)
    BY <1>3
  <2> HIDE DEF Bad
  <2> QED
    BY <1>2, <2>1
<1> QED
  BY <1>3, <1>4

LEMMA Multiples ==
  /\ \A a, b \in Nat : a * b \in Nat
  /\ \A a, b, w \in Nat : (a + b) * w = a * w + b * w
  /\ \A a, b, w \in Nat : a <= b => a * w <= b * w
  /\ \A w \in Nat : 0 * w = 0 /\ 1 * w = w
<1>1. \A a, b \in Nat : a * b \in Nat
  OBVIOUS
<1>2. \A a, b, w \in Nat : (a + b) * w = a * w + b * w
  OBVIOUS
<1>3. \A w \in Nat : 0 * w = 0 /\ 1 * w = w
  OBVIOUS
<1>4. ASSUME NEW a \in Nat, NEW b \in Nat, NEW w \in Nat, a <= b
      PROVE  a * w <= b * w
  <2>1. PICK d \in Nat : b = a + d
    <3>1. b - a \in Nat /\ b = a + (b - a)
      BY <1>4
    <3> QED
      BY <3>1
  <2>2. b * w = a * w + d * w /\ a * w \in Nat /\ d * w \in Nat
    BY <1>1, <1>2, <2>1
  <2> QED
    BY <2>2
<1> QED
  BY <1>1, <1>2, <1>3, <1>4

LEMMA Division ==
  ASSUME NEW x \in Nat, NEW w \in Nat, w > 0
  PROVE  /\ x \div w \in Nat /\ x % w \in 0 .. w - 1
         /\ ((x \div w) * w) + (x % w) = x
OBVIOUS

-------------------------------------------------------------------------------
(* Finite sets *)

\* The domain of the empty function.
LEMMA EmptyDomain == DOMAIN << >> = {}
OBVIOUS

LEMMA IntervalFinite ==
  ASSUME NEW n \in Nat
  PROVE  IsFiniteSet(1 .. n) /\ Cardinality(1 .. n) = n
<1>1. 1 \in Int /\ n \in Int
  OBVIOUS
<1>2. IsFiniteSet(1 .. n) /\ Cardinality(1 .. n) = IF 1 > n THEN 0 ELSE n - 1 + 1
  BY <1>1, FS_Interval, Zenon
<1> QED
  BY <1>2

LEMMA CardinalityWithout ==
  ASSUME NEW s, IsFiniteSet(s), NEW x \in s
  PROVE  /\ IsFiniteSet(s \ {x}) /\ Cardinality(s) \in Nat
         /\ Cardinality(s) >= 1
         /\ Cardinality(s \ {x}) = Cardinality(s) - 1
<1>1. IsFiniteSet(s \ {x}) /\ Cardinality(s \ {x}) = Cardinality(s) - 1
  BY FS_RemoveElement
<1>2. Cardinality(s) \in Nat /\ Cardinality(s \ {x}) \in Nat
  BY <1>1, FS_CardinalityType
<1> QED
  BY <1>1, <1>2

\* An induction on the parts of a finite set: it holds for the empty one, and for
\* one when it does for all that lack one element of it.
LEMMA PartsOfFinite ==
  ASSUME NEW S, IsFiniteSet(S), NEW D, {} \in D,
         \A s \in SUBSET S : s # {} /\ (\A x \in s : s \ {x} \in D) => s \in D
  PROVE  \A s \in SUBSET S : s \in D
<1> DEFINE n == Cardinality(S)
           E == { k \in 0 .. n : \A s \in SUBSET S : Cardinality(s) = k => s \in D }
<1>1. n \in Nat
  BY FS_CardinalityType
<1>2. \A s \in SUBSET S : IsFiniteSet(s) /\ Cardinality(s) \in 0 .. n
  <2> SUFFICES ASSUME NEW s \in SUBSET S
               PROVE  IsFiniteSet(s) /\ Cardinality(s) \in 0 .. n
    OBVIOUS
  <2>1. IsFiniteSet(s) /\ Cardinality(s) <= n
    BY FS_Subset
  <2>2. Cardinality(s) \in Nat
    BY <2>1, FS_CardinalityType
  <2> QED
    BY <1>1, <2>1, <2>2
<1>3. 0 \in E
  <2>1. \A s \in SUBSET S : Cardinality(s) = 0 => s = {}
    BY <1>2, FS_EmptySet
  <2>2. 0 \in 0 .. n
    BY <1>1
  <2>3. \A s \in SUBSET S : Cardinality(s) = 0 => s \in D
    BY <2>1
  <2> HIDE DEF n
  <2> QED
    BY <2>2, <2>3
<1>4. ASSUME NEW k \in 1 .. n, k - 1 \in E
      PROVE  k \in E
  <2> SUFFICES ASSUME NEW s \in SUBSET S, Cardinality(s) = k
               PROVE  s \in D
    BY <1>1
  <2>1. s # {}
    <3>1. Cardinality({}) = 0 /\ k # 0
      BY FS_EmptySet
    <3> QED
      BY <3>1
  <2>2. \A x \in s : s \ {x} \in D
    <3> SUFFICES ASSUME NEW x \in s
                 PROVE  s \ {x} \in D
      OBVIOUS
    <3>1. Cardinality(s \ {x}) = k - 1 /\ s \ {x} \in SUBSET S
      BY <1>2, CardinalityWithout
    <3> QED
      BY <1>4, <3>1
  <2> QED
    BY <2>1, <2>2
<1> HIDE DEF E
<1>5. \A k \in 0 .. n : k \in E
  <2> HIDE DEF n
  <2> QED
    BY <1>1, <1>3, <1>4, NumbersUpTo
<1> QED
  BY <1>2, <1>5 DEF E

-------------------------------------------------------------------------------
(* Sequences *)

LEMMA ConcatElements ==
  ASSUME NEW S, NEW s \in Seq(S), NEW t \in Seq(S)
  PROVE  /\ s \o t \in Seq(S) /\ Len(s \o t) = Len(s) + Len(t)
         /\ \A i \in 1 .. Len(s) : (s \o t)[i] = s[i]
         /\ \A i \in 1 .. Len(t) : (s \o t)[Len(s) + i] = t[i]
OBVIOUS

-------------------------------------------------------------------------------
(* Folds of the values of a function, in an order that is not specified. The  *)
(* operation is a function here, so that sums and products share the lemmas.  *)

First(s) == CHOOSE x \in s : TRUE

Folded(g, op, base, f, s) ==
  IF s = {} THEN base ELSE op[<<f[First(s)], g[s \ {First(s)}]>>]

\* g[s] is the fold of f over the part s of S.
IsFold(g, op, base, f, S) ==
  /\ IsFiniteSet(S) /\ base \in Nat /\ f \in [S -> Nat]
  /\ g \in [SUBSET S -> Nat]
  /\ \A s \in SUBSET S : g[s] = Folded(g, op, base, f, s)

IsOperation(op) ==
  /\ op \in [Nat \X Nat -> Nat]
  /\ \A a, b, c \in Nat : op[<<a, op[<<b, c>>]>>] = op[<<b, op[<<a, c>>]>>]

LEMMA FirstIn ==
  ASSUME NEW s, s # {}
  PROVE  First(s) \in s
BY DEF First

LEMMA FoldedType ==
  ASSUME NEW S, NEW op \in [Nat \X Nat -> Nat], NEW base \in Nat, NEW f \in [S -> Nat],
         NEW g \in [SUBSET S -> Nat], NEW s \in SUBSET S
  PROVE  Folded(g, op, base, f, s) \in Nat
<1>1. CASE s = {}
  BY <1>1 DEF Folded
<1>2. CASE s # {}
  <2>1. First(s) \in S /\ s \ {First(s)} \in SUBSET S
    BY <1>2, FirstIn
  <2>2. f[First(s)] \in Nat /\ g[s \ {First(s)}] \in Nat
    BY <2>1
  <2>3. \A a, b \in Nat : op[<<a, b>>] \in Nat
    OBVIOUS
  <2> QED
    BY <1>2, <2>2, <2>3 DEF Folded
<1> QED
  BY <1>1, <1>2

LEMMA FoldExists ==
  ASSUME NEW S, IsFiniteSet(S), NEW op \in [Nat \X Nat -> Nat], NEW base \in Nat,
         NEW f \in [S -> Nat]
  PROVE  \E g : IsFold(g, op, base, f, S)
<1> DEFINE n == Cardinality(S)
           UpTo(g, k) == /\ g \in [SUBSET S -> Nat]
                         /\ \A s \in SUBSET S :
                              Cardinality(s) <= k => g[s] = Folded(g, op, base, f, s)
           E == { k \in 0 .. n : \E g : UpTo(g, k) }
<1>1. n \in Nat
  BY FS_CardinalityType
<1>2. \A s \in SUBSET S : IsFiniteSet(s) /\ Cardinality(s) \in 0 .. n
  <2> SUFFICES ASSUME NEW s \in SUBSET S
               PROVE  IsFiniteSet(s) /\ Cardinality(s) \in 0 .. n
    OBVIOUS
  <2>1. IsFiniteSet(s) /\ Cardinality(s) <= n
    BY FS_Subset
  <2>2. Cardinality(s) \in Nat
    BY <2>1, FS_CardinalityType
  <2> QED
    BY <1>1, <2>1, <2>2
<1>3. 0 \in E
  <2> DEFINE g == [s \in SUBSET S |-> base]
  <2>1. \A s \in SUBSET S : Cardinality(s) <= 0 => s = {}
    <3> SUFFICES ASSUME NEW s \in SUBSET S, Cardinality(s) <= 0
                 PROVE  s = {}
      OBVIOUS
    <3>1. IsFiniteSet(s) /\ Cardinality(s) = 0
      BY <1>2
    <3> QED
      BY <3>1, FS_EmptySet
  <2>2. UpTo(g, 0)
    BY <2>1 DEF Folded
  <2>3. 0 \in 0 .. n
    BY <1>1
  <2> HIDE DEF UpTo, g, n
  <2> QED
    BY <2>2, <2>3
<1>4. ASSUME NEW k \in 1 .. n, k - 1 \in E
      PROVE  k \in E
  <2>1. PICK g : UpTo(g, k - 1)
    BY <1>4
  <2> DEFINE h == [s \in SUBSET S |->
                     IF Cardinality(s) = k THEN Folded(g, op, base, f, s) ELSE g[s]]
  <2>2. h \in [SUBSET S -> Nat]
    BY <2>1, FoldedType
  <2>3. ASSUME NEW s \in SUBSET S, Cardinality(s) <= k
        PROVE  h[s] = Folded(h, op, base, f, s)
    <3>1. Folded(h, op, base, f, s) = Folded(g, op, base, f, s)
      <4>1. CASE s = {}
        BY <4>1 DEF Folded
      <4>2. CASE s # {}
        <5>1. First(s) \in s
          BY <4>2, FirstIn
        <5> DEFINE t == s \ {First(s)}
        <5>2. t \in SUBSET S /\ Cardinality(t) = Cardinality(s) - 1 /\ Cardinality(s) \in Nat
          BY <1>2, <5>1, CardinalityWithout
        <5>3. Cardinality(t) # k
          BY <2>3, <5>2
        <5>4. h[t] = g[t]
          BY <5>2, <5>3
        <5> HIDE DEF h
        <5> QED
          BY <4>2, <5>4 DEF Folded
      <4> QED
        BY <4>1, <4>2
    <3>2. CASE Cardinality(s) = k
      BY <3>1, <3>2
    <3>3. CASE Cardinality(s) # k
      <4>1. Cardinality(s) \in Nat /\ k \in Nat
        BY <1>1, <1>2
      <4>2. Cardinality(s) <= k - 1
        BY <2>3, <3>3, <4>1
      <4>3. h[s] = g[s] /\ g[s] = Folded(g, op, base, f, s)
        BY <2>1, <3>3, <4>2
      <4> QED
        BY <3>1, <4>3
    <3> QED
      BY <3>2, <3>3
  <2> HIDE DEF h
  <2>4. UpTo(h, k)
    BY <2>2, <2>3
  <2>5. k \in 0 .. n
    BY <1>1
  <2> HIDE DEF UpTo, n
  <2> QED
    BY <2>4, <2>5
<1>5. \A k \in 0 .. n : k \in E
  <2> HIDE DEF n, E
  <2> QED
    BY <1>1, <1>3, <1>4, NumbersUpTo
<1>6. PICK g : UpTo(g, n)
  <2>1. n \in 0 .. n
    BY <1>1
  <2> HIDE DEF n, UpTo
  <2> QED
    BY <1>5, <2>1
<1>7. IsFold(g, op, base, f, S)
  BY <1>2, <1>6 DEF IsFold
<1> QED
  BY <1>7

\* Folds of functions that agree are the same.
LEMMA FoldUnique ==
  ASSUME NEW S, IsFiniteSet(S), NEW op, NEW base, NEW f, NEW e, NEW g, NEW h,
         \A s \in SUBSET S : g[s] = Folded(g, op, base, f, s),
         \A s \in SUBSET S : h[s] = Folded(h, op, base, e, s),
         \A x \in S : f[x] = e[x]
  PROVE  \A s \in SUBSET S : g[s] = h[s]
<1> DEFINE D == { s \in SUBSET S : g[s] = h[s] }
<1>1. {} \in D
  BY DEF Folded
<1>2. ASSUME NEW s \in SUBSET S, s # {}, \A x \in s : s \ {x} \in D
      PROVE  s \in D
  <2>1. First(s) \in s
    BY <1>2, FirstIn
  <2>2. g[s \ {First(s)}] = h[s \ {First(s)}] /\ f[First(s)] = e[First(s)]
    BY <1>2, <2>1
  <2> QED
    BY <1>2, <2>2 DEF Folded
<1> HIDE DEF D
<1>3. \A s \in SUBSET S : s \in D
  BY <1>1, <1>2, PartsOfFinite
<1> QED
  BY <1>3 DEF D

\* The order does not matter.
LEMMA FoldWithout ==
  ASSUME NEW S, NEW op, IsOperation(op), NEW base, NEW f, NEW g, IsFold(g, op, base, f, S),
         NEW all \in SUBSET S, NEW one \in all
  PROVE  g[all] = op[<<f[one], g[all \ {one}]>>]
<1> DEFINE D == { s \in SUBSET S : \A x \in s : g[s] = op[<<f[x], g[s \ {x}]>>] }
<1>1. {} \in D
  OBVIOUS
<1>2. ASSUME NEW s \in SUBSET S, s # {}, \A x \in s : s \ {x} \in D, NEW x \in s
      PROVE  g[s] = op[<<f[x], g[s \ {x}]>>]
  <2> DEFINE c == First(s)
  <2>1. c \in s
    BY <1>2, FirstIn
  <2>2. g[s] = op[<<f[c], g[s \ {c}]>>]
    BY <1>2 DEF IsFold, Folded
  <2> HIDE DEF c
  <2>3. CASE x = c
    BY <2>2, <2>3
  <2>4. CASE x # c
    <3> DEFINE rest == s \ {c, x}
    <3>1. (s \ {c}) \ {x} = rest /\ (s \ {x}) \ {c} = rest /\ rest \in SUBSET S
      OBVIOUS
    <3>2. x \in s \ {c} /\ c \in s \ {x} /\ s \ {c} \in D /\ s \ {x} \in D
      BY <1>2, <2>1, <2>4
    <3>3. g[s \ {c}] = op[<<f[x], g[rest]>>] /\ g[s \ {x}] = op[<<f[c], g[rest]>>]
      <4>1. \A t \in D : \A y \in t : g[t] = op[<<f[y], g[t \ {y}]>>]
        OBVIOUS
      <4> HIDE DEF D
      <4>2. g[s \ {c}] = op[<<f[x], g[(s \ {c}) \ {x}]>>]
        BY <3>2, <4>1
      <4>3. g[s \ {x}] = op[<<f[c], g[(s \ {x}) \ {c}]>>]
        BY <3>2, <4>1
      <4> HIDE DEF rest
      <4> QED
        BY <3>1, <4>2, <4>3
    <3>4. f[x] \in Nat /\ f[c] \in Nat /\ g[rest] \in Nat
      BY <2>1, <3>1 DEF IsFold
    <3>5. op[<<f[c], op[<<f[x], g[rest]>>]>>] = op[<<f[x], op[<<f[c], g[rest]>>]>>]
      BY <3>4 DEF IsOperation
    <3> QED
      BY <2>2, <3>3, <3>5
  <2> QED
    BY <2>3, <2>4
<1>3. \A s \in SUBSET S : s # {} /\ (\A x \in s : s \ {x} \in D) => s \in D
  BY <1>2
<1> HIDE DEF D
<1>4. IsFiniteSet(S)
  BY DEF IsFold
<1>5. \A s \in SUBSET S : s \in D
  BY <1>1, <1>3, <1>4, PartsOfFinite
<1> QED
  BY <1>5 DEF D

-------------------------------------------------------------------------------
(* Sums: SumFunction(f) adds f[x] for every x in the domain of f *)

Sum2 == [p \in Nat \X Nat |-> p[1] + p[2]]

LEMMA Sum2Is ==
  /\ Sum2 \in [Nat \X Nat -> Nat]
  /\ \A a, b \in Nat : Sum2[<<a, b>>] = a + b
  /\ IsOperation(Sum2)
<1>1. Sum2 \in [Nat \X Nat -> Nat] /\ \A a, b \in Nat : Sum2[<<a, b>>] = a + b
  BY DEF Sum2
<1>2. \A a, b, c \in Nat : Sum2[<<a, Sum2[<<b, c>>]>>] = Sum2[<<b, Sum2[<<a, c>>]>>]
  <2> SUFFICES ASSUME NEW a \in Nat, NEW b \in Nat, NEW c \in Nat
               PROVE  Sum2[<<a, Sum2[<<b, c>>]>>] = Sum2[<<b, Sum2[<<a, c>>]>>]
    OBVIOUS
  <2>1. b + c \in Nat /\ a + c \in Nat
    OBVIOUS
  <2>2. Sum2[<<a, Sum2[<<b, c>>]>>] = a + (b + c) /\ Sum2[<<b, Sum2[<<a, c>>]>>] = b + (a + c)
    BY <1>1, <2>1
  <2> QED
    BY <2>2
<1> QED
  BY <1>1, <1>2 DEF IsOperation

LEMMA SumIsFold ==
  ASSUME NEW S, NEW f, NEW g, IsFold(g, Sum2, 0, f, S)
  PROVE  SumFunction(f) = g[S]
<1> DEFINE body(h) == [s \in SUBSET S |-> IF s = {} THEN 0 ELSE f[First(s)] + h[s \ {First(s)}]]
           sum == CHOOSE h : h = body(h)
<1>1. SumFunction(f) = sum[S]
  BY DEF SumFunction, SumFunctionOnSet, FoldFunctionOnSet, MapThenFoldSet, First, IsFold
<1>2. g = body(g)
  <2>1. ASSUME NEW s \in SUBSET S
        PROVE  g[s] = IF s = {} THEN 0 ELSE f[First(s)] + g[s \ {First(s)}]
    <3>1. CASE s = {}
      BY <3>1 DEF IsFold, Folded
    <3>2. CASE s # {}
      <4>1. f[First(s)] \in Nat /\ g[s \ {First(s)}] \in Nat
        <5>1. First(s) \in S /\ s \ {First(s)} \in SUBSET S
          BY <3>2, FirstIn
        <5> QED
          BY <5>1 DEF IsFold
      <4>2. g[s] = Sum2[<<f[First(s)], g[s \ {First(s)}]>>]
        BY <3>2 DEF IsFold, Folded
      <4> QED
        BY <3>2, <4>1, <4>2, Sum2Is
    <3> QED
      BY <3>1, <3>2
  <2> QED
    BY <2>1 DEF IsFold
<1>3. sum = body(sum)
  BY <1>2
<1> HIDE DEF sum
<1> DEFINE D == { s \in SUBSET S : sum[s] = g[s] }
<1>4. /\ \A s \in SUBSET S : sum[s] = IF s = {} THEN 0 ELSE f[First(s)] + sum[s \ {First(s)}]
      /\ \A s \in SUBSET S : g[s] = IF s = {} THEN 0 ELSE f[First(s)] + g[s \ {First(s)}]
  BY <1>2, <1>3
<1>5. {} \in D
  BY <1>4
<1>6. ASSUME NEW s \in SUBSET S, s # {}, \A x \in s : s \ {x} \in D
      PROVE  s \in D
  <2>1. sum[s \ {First(s)}] = g[s \ {First(s)}]
    BY <1>6, FirstIn
  <2> QED
    BY <1>4, <1>6, <2>1
<1> HIDE DEF D
<1>7. IsFiniteSet(S)
  BY DEF IsFold
<1>8. \A s \in SUBSET S : s \in D
  BY <1>5, <1>6, <1>7, PartsOfFinite
<1> QED
  BY <1>1, <1>8 DEF D

\* A fold over a set is one over its parts.
LEMMA FoldOfPart ==
  ASSUME NEW S, NEW op, NEW base, NEW f, NEW g, IsFold(g, op, base, f, S), NEW T \in SUBSET S
  PROVE  IsFold([s \in SUBSET T |-> g[s]], op, base, [x \in T |-> f[x]], T)
<1> DEFINE e == [x \in T |-> f[x]]
           h == [s \in SUBSET T |-> g[s]]
<1>1. IsFiniteSet(T) /\ base \in Nat /\ e \in [T -> Nat] /\ h \in [SUBSET T -> Nat]
  BY FS_Subset DEF IsFold
<1>2. ASSUME NEW s \in SUBSET T
      PROVE  h[s] = Folded(h, op, base, e, s)
  <2>1. g[s] = Folded(g, op, base, f, s) /\ h[s] = g[s]
    BY DEF IsFold
  <2>2. CASE s = {}
    BY <2>1, <2>2 DEF Folded
  <2>3. CASE s # {}
    <3>1. First(s) \in T /\ s \ {First(s)} \in SUBSET T
      BY <2>3, FirstIn
    <3>2. e[First(s)] = f[First(s)] /\ h[s \ {First(s)}] = g[s \ {First(s)}]
      BY <3>1
    <3> HIDE DEF e, h
    <3> QED
      BY <2>1, <2>3, <3>2 DEF Folded
  <2> QED
    BY <2>2, <2>3
<1> HIDE DEF e, h
<1>3. IsFold(h, op, base, e, T)
  BY <1>1, <1>2 DEF IsFold
<1> QED
  BY <1>3 DEF e, h

LEMMA SumEmpty ==
  ASSUME NEW f \in [{} -> Nat]
  PROVE  SumFunction(f) = 0
<1>1. IsFiniteSet({})
  BY FS_EmptySet
<1>2. PICK g : IsFold(g, Sum2, 0, f, {})
  BY <1>1, FoldExists, Sum2Is
<1> QED
  BY <1>1, <1>2, SumIsFold DEF IsFold, Folded

LEMMA SumType ==
  ASSUME NEW S, IsFiniteSet(S), NEW f \in [S -> Nat]
  PROVE  SumFunction(f) \in Nat
<1>1. PICK g : IsFold(g, Sum2, 0, f, S)
  BY FoldExists, Sum2Is
<1>2. SumFunction(f) = g[S] /\ g[S] \in Nat
  BY <1>1, SumIsFold DEF IsFold
<1> QED
  BY <1>2

\* Any element may be taken out.
LEMMA SumWithout ==
  ASSUME NEW S, IsFiniteSet(S), NEW f \in [S -> Nat], NEW x \in S
  PROVE  SumFunction(f) = f[x] + SumFunction([y \in S \ {x} |-> f[y]])
<1> DEFINE T == S \ {x}
           e == [y \in T |-> f[y]]
<1>1. PICK g : IsFold(g, Sum2, 0, f, S)
  BY FoldExists, Sum2Is
<1> DEFINE h == [s \in SUBSET T |-> g[s]]
<1>2. T \in SUBSET S /\ S \in SUBSET S /\ h[T] = g[T]
  OBVIOUS
<1>3. IsFold(h, Sum2, 0, e, T)
  <2> HIDE DEF T
  <2> QED
    BY <1>1, <1>2, FoldOfPart
<1>4. SumFunction(f) = g[S]
  BY <1>1, SumIsFold
<1>5. SumFunction(e) = h[T]
  <2> HIDE DEF e, h, T
  <2> QED
    BY <1>3, SumIsFold
<1>6. g[S] = Sum2[<<f[x], g[T]>>]
  <2>0. IsOperation(Sum2)
    BY Sum2Is
  <2> QED
    BY <1>1, <1>2, <2>0, FoldWithout
<1>7. f[x] \in Nat /\ g[T] \in Nat
  BY <1>1 DEF IsFold
<1>8. g[S] = f[x] + g[T]
  BY <1>6, <1>7, Sum2Is
<1> QED
  BY <1>2, <1>4, <1>5, <1>8

\* A summand more.
LEMMA SumWith ==
  ASSUME NEW S, IsFiniteSet(S), NEW x, x \notin S, NEW f \in [S \union {x} -> Nat],
         NEW g \in [S -> Nat], \A y \in S : g[y] = f[y]
  PROVE  SumFunction(f) = f[x] + SumFunction(g)
<1>1. IsFiniteSet(S \union {x})
  BY FS_AddElement
<1>2. (S \union {x}) \ {x} = S /\ x \in S \union {x} /\ g = [y \in S |-> f[y]]
  OBVIOUS
<1>3. SumFunction(f) = f[x] + SumFunction([y \in (S \union {x}) \ {x} |-> f[y]])
  BY <1>1, <1>2, SumWithout
<1> QED
  BY <1>2, <1>3

\* f has a summand more than g: a form of SumWith that is easily recognised.
SummandMore(f, g, S, x) ==
  /\ IsFiniteSet(S) /\ x \notin S /\ f \in [S \union {x} -> Nat]
  /\ g \in [S -> Nat] /\ \A y \in S : g[y] = f[y]

LEMMA SumMore ==
  ASSUME NEW f, NEW g, NEW S, NEW x, SummandMore(f, g, S, x)
  PROVE  SumFunction(f) = f[x] + SumFunction(g)
BY SumWith DEF SummandMore

\* A summand more that is zero.
LEMMA SumJoins ==
  ASSUME NEW S, IsFiniteSet(S), NEW x, x \notin S, NEW f \in [S \union {x} -> Nat], f[x] = 0,
         NEW g \in [S -> Nat], \A y \in S : f[y] = g[y]
  PROVE  SumFunction(f) = SumFunction(g)
<1>1. SumFunction(f) = 0 + SumFunction(g)
  BY SumWith
<1>2. SumFunction(g) \in Nat
  BY SumType
<1> QED
  BY <1>1, <1>2

\* One summand changes.
LEMMA SumChange ==
  ASSUME NEW S, IsFiniteSet(S), NEW f \in [S -> Nat], NEW g \in [S -> Nat], NEW x \in S,
         \A y \in S \ {x} : g[y] = f[y]
  PROVE  SumFunction(g) + f[x] = SumFunction(f) + g[x]
<1> DEFINE e == [y \in S \ {x} |-> f[y]]
<1>1. e = [y \in S \ {x} |-> g[y]] /\ e \in [S \ {x} -> Nat]
  OBVIOUS
<1>2. IsFiniteSet(S \ {x})
  BY FS_Subset
<1>3. SumFunction(e) \in Nat
  BY <1>1, <1>2, SumType
<1>4. SumFunction(f) = f[x] + SumFunction(e)
  BY SumWithout
<1>5. SumFunction(g) = g[x] + SumFunction([y \in S \ {x} |-> g[y]])
  BY SumWithout
<1>6. SumFunction(g) = g[x] + SumFunction(e)
  <2> HIDE DEF e
  <2> QED
    BY <1>1, <1>5
<1> HIDE DEF e
<1>7. f[x] \in Nat /\ g[x] \in Nat
  OBVIOUS
<1> QED
  BY <1>3, <1>4, <1>6, <1>7

\* The sum over a part of the domain.
SumOver(f, s) == SumFunction([y \in s |-> f[y]])

LEMMA SumOverAll ==
  ASSUME NEW S, NEW f \in [S -> Nat]
  PROVE  SumOver(f, S) = SumFunction(f)
<1>1. f = [y \in S |-> f[y]]
  OBVIOUS
<1> QED
  BY <1>1 DEF SumOver

LEMMA SumOverStep ==
  ASSUME NEW S, IsFiniteSet(S), NEW f \in [S -> Nat], NEW s \in SUBSET S
  PROVE  /\ SumOver(f, s) \in Nat
         /\ SumOver(f, {}) = 0
         /\ \A x \in s : SumOver(f, s \ {x}) \in Nat /\ SumOver(f, s) = f[x] + SumOver(f, s \ {x})
<1>1. \A u \in SUBSET S : SumOver(f, u) \in Nat
  <2> SUFFICES ASSUME NEW u \in SUBSET S
               PROVE  SumOver(f, u) \in Nat
    OBVIOUS
  <2>1. IsFiniteSet(u) /\ [y \in u |-> f[y]] \in [u -> Nat]
    BY FS_Subset
  <2> QED
    BY <2>1, SumType DEF SumOver
<1>2. SumOver(f, {}) = 0
  <2>1. [y \in {} |-> f[y]] \in [{} -> Nat]
    OBVIOUS
  <2> QED
    BY <2>1, SumEmpty DEF SumOver
<1>3. ASSUME NEW x \in s
      PROVE  SumOver(f, s) = f[x] + SumOver(f, s \ {x})
  <2> DEFINE e == [y \in s |-> f[y]]
  <2>1. IsFiniteSet(s) /\ e \in [s -> Nat] /\ e[x] = f[x]
    BY FS_Subset
  <2>2. [y \in s \ {x} |-> e[y]] = [y \in s \ {x} |-> f[y]]
    OBVIOUS
  <2> HIDE DEF e
  <2>3. SumFunction(e) = e[x] + SumFunction([y \in s \ {x} |-> e[y]])
    BY <2>1, SumWithout
  <2> QED
    BY <2>1, <2>2, <2>3 DEF SumOver, e
<1> QED
  BY <1>1, <1>2, <1>3

\* A sum of smaller numbers is smaller.
LEMMA SumLess ==
  ASSUME NEW S, IsFiniteSet(S), NEW f \in [S -> Nat], NEW g \in [S -> Nat],
         \A x \in S : f[x] <= g[x]
  PROVE  SumFunction(f) <= SumFunction(g)
<1> DEFINE D == { s \in SUBSET S : SumOver(f, s) <= SumOver(g, s) }
<1>1. {} \in D
  BY SumOverStep
<1>2. ASSUME NEW s \in SUBSET S, s # {}, \A x \in s : s \ {x} \in D
      PROVE  s \in D
  <2>1. PICK x \in s : TRUE
    BY <1>2
  <2>2. SumOver(f, s \ {x}) <= SumOver(g, s \ {x})
    BY <1>2, <2>1
  <2>3. /\ SumOver(f, s \ {x}) \in Nat /\ SumOver(f, s) = f[x] + SumOver(f, s \ {x})
        /\ SumOver(g, s \ {x}) \in Nat /\ SumOver(g, s) = g[x] + SumOver(g, s \ {x})
    BY SumOverStep
  <2>4. f[x] \in Nat /\ g[x] \in Nat /\ f[x] <= g[x]
    OBVIOUS
  <2>5. SumOver(f, s) <= SumOver(g, s)
    BY <2>2, <2>3, <2>4
  <2> QED
    BY <2>5
<1> HIDE DEF D
<1>3. \A s \in SUBSET S : s \in D
  BY <1>1, <1>2, PartsOfFinite
<1> QED
  BY <1>3, SumOverAll DEF D

\* h is f and g added up.
AddUp(f, g, h, S) ==
  /\ f \in [S -> Nat] /\ g \in [S -> Nat] /\ h \in [S -> Nat]
  /\ \A x \in S : h[x] = f[x] + g[x]

\* The sum of sums.
LEMMA SumPlus ==
  ASSUME NEW S, IsFiniteSet(S), NEW f, NEW g, NEW h, AddUp(f, g, h, S)
  PROVE  SumFunction(h) = SumFunction(f) + SumFunction(g)
<1>0. /\ f \in [S -> Nat] /\ g \in [S -> Nat] /\ h \in [S -> Nat]
      /\ \A x \in S : h[x] = f[x] + g[x]
  BY DEF AddUp
<1> DEFINE D == { s \in SUBSET S : SumOver(h, s) = SumOver(f, s) + SumOver(g, s) }
<1>1. {} \in D
  BY <1>0, SumOverStep
<1>2. ASSUME NEW s \in SUBSET S, s # {}, \A x \in s : s \ {x} \in D
      PROVE  s \in D
  <2>1. PICK x \in s : TRUE
    BY <1>2
  <2>2. SumOver(h, s \ {x}) = SumOver(f, s \ {x}) + SumOver(g, s \ {x})
    BY <1>2, <2>1
  <2>3. /\ SumOver(f, s \ {x}) \in Nat /\ SumOver(f, s) = f[x] + SumOver(f, s \ {x})
        /\ SumOver(g, s \ {x}) \in Nat /\ SumOver(g, s) = g[x] + SumOver(g, s \ {x})
        /\ SumOver(h, s) = h[x] + SumOver(h, s \ {x})
    BY <1>0, SumOverStep
  <2>4. f[x] \in Nat /\ g[x] \in Nat /\ h[x] = f[x] + g[x]
    BY <1>0
  <2>5. SumOver(h, s) = SumOver(f, s) + SumOver(g, s)
    BY <2>2, <2>3, <2>4
  <2> QED
    BY <2>5
<1> HIDE DEF D
<1>3. \A s \in SUBSET S : s \in D
  BY <1>1, <1>2, PartsOfFinite
<1> QED
  BY <1>0, <1>3, SumOverAll DEF D

LEMMA SumZero ==
  ASSUME NEW S, IsFiniteSet(S), NEW f \in [S -> Nat], \A x \in S : f[x] = 0
  PROVE  SumFunction(f) = 0
<1>1. AddUp(f, f, f, S)
  BY DEF AddUp
<1>2. SumFunction(f) = SumFunction(f) + SumFunction(f)
  BY <1>1, SumPlus
<1>3. SumFunction(f) \in Nat
  BY SumType
<1>4. \A n \in Nat : n = n + n => n = 0
  OBVIOUS
<1> QED
  BY <1>2, <1>3, <1>4, Zenon

\* A sum of ones and zeros counts the ones.
LEMMA SumCounts ==
  ASSUME NEW S, IsFiniteSet(S), NEW f \in [S -> {0, 1}]
  PROVE  SumFunction(f) = Cardinality({x \in S : f[x] = 1})
<1> DEFINE ones(s) == {x \in s : f[x] = 1}
           D == { s \in SUBSET S : SumOver(f, s) = Cardinality(ones(s)) }
<1>0. f \in [S -> Nat]
  OBVIOUS
<1>1. {} \in D
  <2>1. ones({}) = {}
    OBVIOUS
  <2>2. SumOver(f, {}) = 0 /\ Cardinality({}) = 0
    BY <1>0, SumOverStep, FS_EmptySet
  <2> QED
    BY <2>1, <2>2
<1>2. ASSUME NEW s \in SUBSET S, s # {}, \A x \in s : s \ {x} \in D
      PROVE  s \in D
  <2>1. PICK x \in s : TRUE
    BY <1>2
  <2>2. SumOver(f, s \ {x}) = Cardinality(ones(s \ {x}))
    BY <1>2, <2>1
  <2>3. SumOver(f, s) = f[x] + SumOver(f, s \ {x}) /\ SumOver(f, s \ {x}) \in Nat
    BY <1>0, SumOverStep
  <2>4. IsFiniteSet(ones(s))
    BY FS_Subset
  <2>5. CASE f[x] = 1
    <3>1. x \in ones(s) /\ ones(s \ {x}) = ones(s) \ {x}
      BY <2>5
    <3>2. Cardinality(ones(s) \ {x}) = Cardinality(ones(s)) - 1 /\ Cardinality(ones(s)) \in Nat
      BY <2>4, <3>1, CardinalityWithout
    <3>3. SumOver(f, s) = Cardinality(ones(s))
      <4>1. Cardinality(ones(s \ {x})) = Cardinality(ones(s)) - 1
        BY <3>1, <3>2, Zenon
      <4> DEFINE a == Cardinality(ones(s \ {x}))
                 b == Cardinality(ones(s))
      <4>2. SumOver(f, s) = 1 + a /\ a = b - 1 /\ b \in Nat
        BY <2>2, <2>3, <2>5, <3>2, <4>1, Zenon
      <4> HIDE DEF a, b
      <4>3. SumOver(f, s) = b
        BY <4>2
      <4> QED
        BY <4>3 DEF b
    <3> QED
      BY <3>3
  <2>6. CASE f[x] # 1
    <3>1. f[x] = 0 /\ ones(s \ {x}) = ones(s)
      BY <2>6
    <3>2. SumOver(f, s) = Cardinality(ones(s))
      <4> HIDE DEF ones
      <4> QED
        BY <2>2, <2>3, <3>1
    <3> QED
      BY <3>2
  <2> QED
    BY <2>5, <2>6
<1> HIDE DEF D
<1>3. \A s \in SUBSET S : s \in D
  BY <1>1, <1>2, PartsOfFinite
<1> QED
  BY <1>0, <1>3, SumOverAll DEF D
===============================================================================
