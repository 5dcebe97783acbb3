----------------------------- MODULE OipCodecProofs -----------------------------
(***************************************************************************)
(* Proofs about OipCodec, for any request and any result: a request is        *)
(* accepted exactly if all of its inputs can be read, the last input of a name *)
(* makes its tensor, which is what its values stand for if they fit, typed    *)
(* contents make a tensor of the size its dimensions say, and those outputs of *)
(* a response that the decoders can read are what the model returned.         *)
(***************************************************************************)
EXTENDS OipCodec, DataLemmas

-------------------------------------------------------------------------------
(* Products *)

LEMMA ProductOfNaturals == \A a, b \in Nat : a * b \in Nat
OBVIOUS

Product2 == [p \in Nat \X Nat |-> p[1] * p[2]]

LEMMA ExchangeFactors ==
  ASSUME NEW a \in Nat, NEW b \in Nat, NEW c \in Nat
  PROVE  a * (b * c) = b * (a * c)
OBVIOUS

LEMMA Product2Is ==
  /\ Product2 \in [Nat \X Nat -> Nat]
  /\ \A a, b \in Nat : Product2[<<a, b>>] = a * b
  /\ IsOperation(Product2)
<1>1. Product2 \in [Nat \X Nat -> Nat] /\ \A a, b \in Nat : Product2[<<a, b>>] = a * b
  BY ProductOfNaturals DEF Product2
<1>2. \A a, b, c \in Nat :
        Product2[<<a, Product2[<<b, c>>]>>] = Product2[<<b, Product2[<<a, c>>]>>]
  <2> SUFFICES ASSUME NEW a \in Nat, NEW b \in Nat, NEW c \in Nat
               PROVE  Product2[<<a, Product2[<<b, c>>]>>] = Product2[<<b, Product2[<<a, c>>]>>]
    OBVIOUS
  <2>1. b * c \in Nat /\ a * c \in Nat
    BY ProductOfNaturals
  <2>2. Product2[<<a, Product2[<<b, c>>]>>] = a * (b * c)
    BY <1>1, <2>1
  <2>3. Product2[<<b, Product2[<<a, c>>]>>] = b * (a * c)
    BY <1>1, <2>1
  <2> QED
    BY <2>2, <2>3, ExchangeFactors
<1> QED
  BY <1>1, <1>2 DEF IsOperation

\* A product is a fold, so it may be taken in any order.
LEMMA ProductIsFold ==
  ASSUME NEW S, NEW shape, NEW f, NEW g, IsFold(g, Product2, 1, f, S),
         \A x \in S : f[x] = shape[x]
  PROVE  Product(shape, S) = g[S]
<1> DEFINE body(h) == [s \in SUBSET S |-> IF s = {} THEN 1 ELSE shape[First(s)] * h[s \ {First(s)}]]
           product == CHOOSE h : h = body(h)
<1>1. Product(shape, S) = product[S]
  BY DEF Product, FoldFunctionOnSet, MapThenFoldSet, First
<1>2. g = body(g)
  <2>1. ASSUME NEW s \in SUBSET S
        PROVE  g[s] = IF s = {} THEN 1 ELSE shape[First(s)] * g[s \ {First(s)}]
    <3>1. CASE s = {}
      BY <3>1 DEF IsFold, Folded
    <3>2. CASE s # {}
      <4>1. f[First(s)] \in Nat /\ g[s \ {First(s)}] \in Nat /\ f[First(s)] = shape[First(s)]
        <5>1. First(s) \in S /\ s \ {First(s)} \in SUBSET S
          BY <3>2, FirstIn
        <5> QED
          BY <5>1 DEF IsFold
      <4>2. g[s] = Product2[<<f[First(s)], g[s \ {First(s)}]>>]
        BY <3>2 DEF IsFold, Folded
      <4>3. g[s] = f[First(s)] * g[s \ {First(s)}]
        BY <4>1, <4>2, Product2Is
      <4> QED
        BY <3>2, <4>1, <4>3
    <3> QED
      BY <3>1, <3>2
  <2> QED
    BY <2>1 DEF IsFold
<1>3. product = body(product)
  BY <1>2
<1> HIDE DEF product
<1> DEFINE D == { s \in SUBSET S : product[s] = g[s] }
<1>4. /\ \A s \in SUBSET S :
           product[s] = IF s = {} THEN 1 ELSE shape[First(s)] * product[s \ {First(s)}]
      /\ \A s \in SUBSET S : g[s] = IF s = {} THEN 1 ELSE shape[First(s)] * g[s \ {First(s)}]
  BY <1>2, <1>3
<1>5. {} \in D
  BY <1>4
<1>6. ASSUME NEW s \in SUBSET S, s # {}, \A x \in s : s \ {x} \in D
      PROVE  s \in D
  <2>1. product[s \ {First(s)}] = g[s \ {First(s)}]
    BY <1>6, FirstIn
  <2> QED
    BY <1>4, <1>6, <2>1
<1> HIDE DEF D
<1>7. IsFiniteSet(S)
  BY DEF IsFold
<1>8. \A s \in SUBSET S : s \in D
  BY <1>5, <1>6, <1>7, PartsOfFinite
<1>9. S \in D
  BY <1>8
<1> QED
  BY <1>1, <1>9 DEF D

LEMMA ProductIs ==
  ASSUME NEW S, IsFiniteSet(S), NEW shape, \A x \in S : shape[x] \in Nat
  PROVE  /\ Product(shape, S) \in Nat
         /\ S = {} => Product(shape, S) = 1
         /\ \A x \in S : /\ Product(shape, S \ {x}) \in Nat
                         /\ Product(shape, S) = shape[x] * Product(shape, S \ {x})
<1> DEFINE f == [x \in S |-> shape[x]]
<1>1. f \in [S -> Nat] /\ \A x \in S : f[x] = shape[x]
  OBVIOUS
<1> HIDE DEF f
<1>2. PICK g : IsFold(g, Product2, 1, f, S)
  BY <1>1, FoldExists, Product2Is
<1>3. Product(shape, S) = g[S] /\ g[S] \in Nat
  <2>1. Product(shape, S) = g[S]
    BY <1>1, <1>2, ProductIsFold
  <2> QED
    BY <1>2, <2>1 DEF IsFold
<1>4. S = {} => g[S] = 1
  BY <1>2 DEF IsFold, Folded
<1>5. ASSUME NEW x \in S
      PROVE  /\ Product(shape, S \ {x}) \in Nat
             /\ Product(shape, S) = shape[x] * Product(shape, S \ {x})
  <2> DEFINE T == S \ {x}
             h == [s \in SUBSET T |-> g[s]]
             e == [y \in T |-> f[y]]
  <2>1. T \in SUBSET S /\ S \in SUBSET S /\ h[T] = g[T] /\ \A y \in T : e[y] = shape[y]
    BY <1>1
  <2>2. IsFold(h, Product2, 1, e, T)
    <3> HIDE DEF T
    <3> QED
      BY <1>2, <2>1, FoldOfPart
  <2>3. Product(shape, T) = h[T]
    <3> HIDE DEF e, h, T
    <3> QED
      BY <2>1, <2>2, ProductIsFold
  <2>4. g[S] = Product2[<<f[x], g[T]>>]
    <3> HIDE DEF h, e
    <3>1. IsOperation(Product2)
      BY Product2Is
    <3>2. g[S] = Product2[<<f[x], g[S \ {x}]>>]
      BY <1>2, <2>1, <3>1, FoldWithout
    <3> QED
      BY <3>2
  <2>5. f[x] \in Nat /\ g[T] \in Nat
    BY <1>1, <1>2, <2>1 DEF IsFold
  <2>6. g[S] = f[x] * g[T]
    BY <2>4, <2>5, Product2Is
  <2> HIDE DEF h, e
  <2> QED
    BY <1>1, <1>3, <2>1, <2>3, <2>5, <2>6
<1> QED
  BY <1>3, <1>4, <1>5

-------------------------------------------------------------------------------
(* Integers *)

LEMMA HalfType ==
  ASSUME NEW datatype
  PROVE  Half(datatype) \in Nat \ {0}
BY WidthsAssumption DEF Half

\* What is left of a number that is not larger, and of one a little below zero.
LEMMA SmallRemainder ==
  ASSUME NEW size \in Nat \ {0}, NEW n \in Int
  PROVE  /\ 0 <= n /\ n < size => n % size = n
         /\ -size <= n /\ n < 0 => n % size = n + size
OBVIOUS

\* A number that the datatype has is not changed by the cast.
LEMMA CutSame ==
  ASSUME NEW datatype, NEW n \in Int, InRange(datatype, n)
  PROVE  Cut(datatype, n) = n
<1> DEFINE half == Half(datatype)
           low  == n % (2 * half)
           size == 2 * half
<1>1. half \in Nat \ {0} /\ size \in Nat \ {0}
  BY HalfType
<1>2. CASE datatype \notin Signed \union Unsigned
  BY <1>2 DEF Cut
<1>3. CASE datatype \in Unsigned
  <2>1. datatype \notin Signed
    BY <1>3 DEF Signed, Unsigned
  <2>2. 0 <= n /\ n < 2 * half
    <3>1. n \in 0 .. 2 * half - 1
      BY <1>3 DEF InRange
    <3> HIDE DEF half
    <3> QED
      BY <1>1, <3>1
  <2>3. low = n
    <3> HIDE DEF half
    <3> QED
      BY <1>1, <2>2, SmallRemainder
  <2> QED
    BY <1>3, <2>1, <2>3 DEF Cut
<1>4. CASE datatype \in Signed
  <2>1. -half <= n /\ n < half
    <3>1. n \in -half .. half - 1
      BY <1>4 DEF InRange
    <3> HIDE DEF half
    <3> QED
      BY <1>1, <3>1
  <2>2. Cut(datatype, n) = IF low >= half THEN low - 2 * half ELSE low
    BY <1>4 DEF Cut
  <2>3. CASE 0 <= n
    <3> HIDE DEF half
    <3>1. low = n
      BY <1>1, <2>1, <2>3, SmallRemainder
    <3> HIDE DEF low
    <3> QED
      BY <1>1, <2>1, <2>2, <3>1
  <2>4. CASE n < 0
    <3> HIDE DEF half
    <3>1. low = n + 2 * half
      <4>1. -size <= n /\ n < 0
        BY <1>1, <2>1, <2>4
      <4> HIDE DEF size
      <4>2. n % size = n + size
        BY <1>1, <4>1, SmallRemainder
      <4> QED
        BY <4>2 DEF size
    <3> HIDE DEF low
    <3> QED
      BY <1>1, <2>1, <2>2, <2>4, <3>1
  <2> QED
    BY <2>1, <2>3, <2>4
<1> QED
  BY <1>2, <1>3, <1>4

-------------------------------------------------------------------------------
(* Dimensions *)

Dims == Nat \union {-1}

\* The dimensions that the code can be given.
Fit(shape) ==
  /\ shape \in Seq(Int)
  /\ \A d \in DOMAIN shape :
       /\ AsInt(shape[d]) \in Dims
       /\ d > 2 /\ shape[d] # -1 => AsInt(shape[d]) # -1

\* Dimensions that are ints are taken as they are.
LEMMA IntsStay ==
  ASSUME NEW shape, Fit(shape), NEW d \in DOMAIN shape, InRange("INT32", shape[d])
  PROVE  AsInt(shape[d]) = shape[d] /\ shape[d] \in Dims
<1>1. shape[d] \in Int
  BY DEF Fit
<1>2. AsInt(shape[d]) = shape[d]
  BY <1>1, CutSame DEF AsInt
<1> QED
  BY <1>2 DEF Fit

\* One step of the loop over a shape that Cols stands for.
Column(cols, shape, i) ==
  IF i = 1 THEN 1
  ELSE IF i = 2 THEN AsInt(shape[2])
  ELSE IF shape[i] = -1 THEN cols[i - 1]
  ELSE (IF cols[i - 1] = -1 THEN 1 ELSE cols[i - 1]) * AsInt(shape[i])

LEMMA ColsUnfolds ==
  ASSUME NEW shape
  PROVE  Cols(shape) =
           IF shape = <<>> THEN 1
           ELSE (CHOOSE cols : cols = [i \in DOMAIN shape |-> Column(cols, shape, i)])[Len(shape)]
BY DEF Cols, Column

LEMMA ColumnType ==
  ASSUME NEW shape, Fit(shape), NEW i \in DOMAIN shape,
         NEW cols, i > 2 => cols[i - 1] \in Dims
  PROVE  Column(cols, shape, i) \in Dims
<1>1. AsInt(shape[i]) \in Dims /\ i \in Nat \ {0}
  BY DEF Fit
<1>2. CASE i <= 2
  <2>1. i = 1 \/ i = 2
    BY <1>1, <1>2
  <2> QED
    BY <1>1, <2>1 DEF Column, Dims
<1>3. CASE i > 2 /\ shape[i] = -1
  BY <1>3 DEF Column
<1>4. CASE i > 2 /\ shape[i] # -1
  <2> DEFINE a == IF cols[i - 1] = -1 THEN 1 ELSE cols[i - 1]
  <2>1. a \in Nat /\ AsInt(shape[i]) \in Nat
    BY <1>1, <1>4 DEF Dims, Fit
  <2>2. Column(cols, shape, i) = a * AsInt(shape[i])
    BY <1>4 DEF Column
  <2> HIDE DEF a
  <2>3. a * AsInt(shape[i]) \in Nat
    BY <2>1, ProductOfNaturals
  <2> QED
    BY <2>2, <2>3 DEF Dims
<1> QED
  BY <1>1, <1>2, <1>3, <1>4

\* The loop has an outcome.
LEMMA ColumnsOf ==
  ASSUME NEW shape, Fit(shape), shape # <<>>
  PROVE  \E c : /\ Cols(shape) = c[Len(shape)]
               /\ \A i \in 1 .. Len(shape) : c[i] = Column(c, shape, i)
<1> DEFINE Walk(n, f) == f \in [1 .. n -> Dims] /\ \A i \in 1 .. n : f[i] = Column(f, shape, i)
           Walked == { n \in 0 .. Len(shape) : \E f : Walk(n, f) }
<1>1. Len(shape) \in Nat /\ DOMAIN shape = 1 .. Len(shape)
  BY DEF Fit
<1>2. 0 \in Walked
  <2>1. Walk(0, [i \in 1 .. 0 |-> 0])
    OBVIOUS
  <2> HIDE DEF Walk
  <2> QED
    BY <1>1, <2>1
<1>3. ASSUME NEW m \in 1 .. Len(shape), m - 1 \in Walked
      PROVE  m \in Walked
  <2>1. PICK f : Walk(m - 1, f)
    BY <1>3
  <2> DEFINE g == [i \in 1 .. m |-> IF i = m THEN Column(f, shape, m) ELSE f[i]]
  <2>2. m \in DOMAIN shape /\ (m > 2 => f[m - 1] \in Dims)
    BY <1>1, <1>3, <2>1
  <2>3. Column(f, shape, m) \in Dims
    BY <2>2, ColumnType
  <2>4. g \in [1 .. m -> Dims]
    BY <1>3, <2>1, <2>3
  <2>5. \A i \in 1 .. m : Column(g, shape, i) = Column(f, shape, i)
    <3> SUFFICES ASSUME NEW i \in 1 .. m
                 PROVE  Column(g, shape, i) = Column(f, shape, i)
      OBVIOUS
    <3>1. i > 2 => g[i - 1] = f[i - 1]
      BY <1>3
    <3> HIDE DEF g
    <3> QED
      BY <1>3, <3>1 DEF Column
  <2>6. \A i \in 1 .. m : g[i] = Column(f, shape, i)
    <3> SUFFICES ASSUME NEW i \in 1 .. m
                 PROVE  g[i] = Column(f, shape, i)
      OBVIOUS
    <3>1. CASE i = m
      BY <3>1
    <3>2. CASE i # m
      BY <1>3, <2>1, <3>2
    <3> QED
      BY <3>1, <3>2
  <2> HIDE DEF g
  <2>7. Walk(m, g)
    BY <2>4, <2>5, <2>6
  <2> QED
    BY <1>1, <1>3, <2>7
<1> HIDE DEF Walked
<1>4. \A n \in 0 .. Len(shape) : n \in Walked
  BY <1>1, <1>2, <1>3, NumbersUpTo
<1>5. PICK f : Walk(Len(shape), f)
  <2> HIDE DEF Walk
  <2> QED
    BY <1>1, <1>4 DEF Walked
<1>6. f = [i \in DOMAIN shape |-> Column(f, shape, i)]
  BY <1>1, <1>5
<1> DEFINE c == CHOOSE cols : cols = [i \in DOMAIN shape |-> Column(cols, shape, i)]
<1>7. c = [i \in DOMAIN shape |-> Column(c, shape, i)]
  BY <1>6
<1>8. Cols(shape) = c[Len(shape)]
  BY ColsUnfolds
<1> HIDE DEF c
<1> QED
  BY <1>1, <1>7, <1>8

\* The number of columns is never below -1, whatever the shape.
LEMMA ColsType ==
  ASSUME NEW shape, Fit(shape)
  PROVE  Cols(shape) \in Dims
<1>1. CASE shape = <<>>
  <2>1. Cols(shape) = 1
    BY <1>1 DEF Cols
  <2> QED
    BY <2>1 DEF Dims
<1>2. CASE shape # <<>>
  <2>1. Len(shape) \in Nat /\ DOMAIN shape = 1 .. Len(shape) /\ Len(shape) > 0
    BY <1>2 DEF Fit
  <2>2. PICK c : /\ Cols(shape) = c[Len(shape)]
                 /\ \A i \in 1 .. Len(shape) : c[i] = Column(c, shape, i)
    BY <1>2, ColumnsOf
  <2> DEFINE Right == { i \in 0 .. Len(shape) : i > 0 => c[i] \in Dims }
  <2>3. 0 \in Right
    BY <2>1
  <2>4. ASSUME NEW i \in 1 .. Len(shape), i - 1 \in Right
        PROVE  i \in Right
    <3>1. i \in DOMAIN shape /\ (i > 2 => c[i - 1] \in Dims)
      BY <2>1, <2>4
    <3>2. Column(c, shape, i) \in Dims
      BY <3>1, ColumnType
    <3> QED
      BY <2>2, <3>2
  <2> HIDE DEF Right
  <2>5. \A i \in 0 .. Len(shape) : i \in Right
    BY <2>1, <2>3, <2>4, NumbersUpTo
  <2> QED
    BY <2>1, <2>2, <2>5 DEF Right
<1> QED
  BY <1>1, <1>2

\* Nor is the number of rows.
LEMMA RowsType ==
  ASSUME NEW shape, Fit(shape)
  PROVE  Rows(shape) \in Dims
<1>1. CASE shape = <<>>
  <2>1. Rows(shape) = 1
    BY <1>1 DEF Rows
  <2> QED
    BY <2>1 DEF Dims
<1>2. CASE shape # <<>>
  <2>1. 1 \in DOMAIN shape
    BY <1>2 DEF Fit
  <2> QED
    BY <1>2, <2>1 DEF Rows, Fit
<1> QED
  BY <1>1, <1>2

\* Without dynamic dimensions after the first, the columns are their product.
LEMMA ColsIsProduct ==
  ASSUME NEW shape, Fit(shape), \A d \in DOMAIN shape : InRange("INT32", shape[d]),
         \A d \in 2 .. Len(shape) : shape[d] # -1
  PROVE  /\ \A d \in 2 .. Len(shape) : shape[d] \in Nat
         /\ Cols(shape) = Product(shape, 2 .. Len(shape))
<1>1. Len(shape) \in Nat /\ DOMAIN shape = 1 .. Len(shape)
  BY DEF Fit
<1>0. \A d \in 2 .. Len(shape) : AsInt(shape[d]) = shape[d] /\ shape[d] \in Dims
  BY <1>1, IntsStay
<1>2. \A d \in 2 .. Len(shape) : shape[d] \in Nat
  BY <1>0 DEF Dims
<1>3. CASE shape = <<>>
  <2>1. Cols(shape) = 1 /\ 2 .. Len(shape) = {}
    BY <1>3 DEF Cols
  <2>2. IsFiniteSet(2 .. Len(shape))
    BY <1>1, FS_Interval
  <2> QED
    BY <1>2, <2>1, <2>2, ProductIs
<1>4. CASE shape # <<>>
  <2>1. PICK c : /\ Cols(shape) = c[Len(shape)]
                 /\ \A i \in 1 .. Len(shape) : c[i] = Column(c, shape, i)
    BY <1>4, ColumnsOf
  <2> DEFINE Right == { k \in 0 .. Len(shape) : k > 0 => c[k] = Product(shape, 2 .. k) }
  <2>2. 0 \in Right
    BY <1>1
  <2>3. ASSUME NEW k \in 1 .. Len(shape), k - 1 \in Right
        PROVE  k \in Right
    <3>1. c[k] = Column(c, shape, k)
      BY <2>1
    <3>2. /\ IsFiniteSet(2 .. k) /\ \A d \in 2 .. k : shape[d] \in Nat
          /\ IsFiniteSet(2 .. (k - 1)) /\ \A d \in 2 .. (k - 1) : shape[d] \in Nat
      BY <1>2, FS_Interval
    <3>3. CASE k = 1
      <4>1. 2 .. k = {}
        BY <3>3
      <4>2. Product(shape, 2 .. k) = 1
        BY <3>2, <4>1, ProductIs
      <4>3. c[k] = 1
        BY <3>1, <3>3 DEF Column
      <4> QED
        BY <4>2, <4>3
    <3>4. ASSUME k > 1
          PROVE  /\ Product(shape, 2 .. (k - 1)) \in Nat /\ shape[k] \in Nat
                 /\ Product(shape, 2 .. k) = shape[k] * Product(shape, 2 .. (k - 1))
      <4>1. k \in 2 .. k /\ (2 .. k) \ {k} = 2 .. (k - 1)
        BY <3>4
      <4>2. \A d \in 2 .. k : /\ Product(shape, (2 .. k) \ {d}) \in Nat
                             /\ Product(shape, 2 .. k)
                                  = shape[d] * Product(shape, (2 .. k) \ {d})
        BY <3>2, ProductIs
      <4> QED
        BY <3>2, <4>1, <4>2
    <3>5. CASE k = 2
      <4>1. 2 .. (k - 1) = {}
        BY <3>5
      <4>2. Product(shape, 2 .. (k - 1)) = 1
        BY <3>2, <4>1, ProductIs
      <4>3. c[k] = shape[k]
        BY <1>0, <3>1, <3>5 DEF Column
      <4> QED
        BY <3>4, <3>5, <4>2, <4>3
    <3>6. CASE k > 2
      <4>1. c[k - 1] = Product(shape, 2 .. (k - 1))
        BY <2>3, <3>6
      <4>2. c[k - 1] # -1 /\ shape[k] # -1
        BY <3>4, <3>6, <4>1
      <4>3. c[k] = c[k - 1] * shape[k]
        BY <1>0, <3>1, <3>6, <4>2 DEF Column
      <4>4. c[k - 1] * shape[k] = shape[k] * c[k - 1]
        BY <3>4, <3>6, <4>1
      <4> QED
        BY <3>4, <3>6, <4>1, <4>3, <4>4
    <3> QED
      BY <3>3, <3>5, <3>6
  <2> HIDE DEF Right
  <2>4. \A k \in 0 .. Len(shape) : k \in Right
    BY <1>1, <2>2, <2>3, NumbersUpTo
  <2>5. Len(shape) \in 0 .. Len(shape) /\ Len(shape) > 0
    BY <1>1, <1>4
  <2> QED
    BY <1>2, <2>1, <2>4, <2>5 DEF Right
<1> QED
  BY <1>3, <1>4

\* A dynamic dimension is inferred, and one that cannot be leaves no elements.
LEMMA SizeIsNatural ==
  ASSUME NEW rows \in Dims, NEW cols \in Dims, NEW total \in Nat
  PROVE  LET dims == resolve_dynamic_dims(rows, cols, total) IN dims[1] * dims[2] \in Nat
<1> DEFINE dims == resolve_dynamic_dims(rows, cols, total)
<1> SUFFICES dims[1] * dims[2] \in Nat
  OBVIOUS
<1>1. CASE rows = -1 /\ cols > 0
  <2>1. dims = <<total \div cols, cols>> /\ total \div cols \in Nat /\ cols \in Nat
    BY <1>1 DEF resolve_dynamic_dims, Dims
  <2> QED
    BY <2>1, ProductOfNaturals
<1>2. CASE cols = -1 /\ rows > 0
  <2>1. dims = <<rows, total \div rows>> /\ total \div rows \in Nat /\ rows \in Nat
    BY <1>2 DEF resolve_dynamic_dims, Dims
  <2> QED
    BY <2>1, ProductOfNaturals
<1>3. CASE rows = -1 /\ cols = -1
  BY <1>3 DEF resolve_dynamic_dims
<1>4. CASE rows \in Nat /\ cols \in Nat
  <2>1. dims = <<rows, cols>>
    BY <1>4 DEF resolve_dynamic_dims
  <2> QED
    BY <1>4, <2>1, ProductOfNaturals
<1>5. CASE (rows = -1 /\ cols = 0) \/ (rows = 0 /\ cols = -1)
  BY <1>5 DEF resolve_dynamic_dims
<1> QED
  BY <1>1, <1>2, <1>3, <1>4, <1>5 DEF Dims

\* If the shape has room for the values, dimensions are as it says, and the dynamic one
\* is what is left of the number of values.
LEMMA DimsHold ==
  ASSUME NEW shape, Fit(shape), NEW n \in Nat, Holds(shape, n)
  PROVE  LET dims == resolve_dynamic_dims(Rows(shape), Cols(shape), n)
         IN /\ dims[1] * dims[2] = n
            /\ shape # <<>> /\ shape[1] # -1 => dims[1] = shape[1]
            /\ (\A d \in 2 .. Len(shape) : shape[d] # -1)
                 => dims[2] = Product(shape, 2 .. Len(shape))
<1> DEFINE dims    == resolve_dynamic_dims(Rows(shape), Cols(shape), n)
           dynamic == { d \in DOMAIN shape : shape[d] = -1 }
           static  == DOMAIN shape \ dynamic
           size    == Product(shape, static)
           rest    == 2 .. Len(shape)
<1>1. Len(shape) \in Nat /\ DOMAIN shape = 1 .. Len(shape)
  BY DEF Fit
<1>0. \A d \in DOMAIN shape : InRange("INT32", shape[d])
  BY DEF Holds
<1>2. \A d \in DOMAIN shape : AsInt(shape[d]) = shape[d] /\ shape[d] \in Dims
  BY <1>0, IntsStay
<1>3. IsFiniteSet(DOMAIN shape) /\ IsFiniteSet(static)
  <2>1. IsFiniteSet(DOMAIN shape)
    BY <1>1, IntervalFinite
  <2> QED
    BY <2>1, FS_Subset
<1>4. \A d \in static : shape[d] \in Nat
  BY <1>2 DEF Dims
<1>5. /\ size \in Nat
      /\ static = {} => size = 1
      /\ \A d \in static : /\ Product(shape, static \ {d}) \in Nat
                           /\ size = shape[d] * Product(shape, static \ {d})
  <2> HIDE DEF static
  <2> QED
    BY <1>3, <1>4, ProductIs
<1>6. \/ dynamic = {} /\ size = n
      \/ dynamic = {1} /\ size > 0 /\ n % size = 0
      \/ dynamic = {2} /\ Len(shape) = 2 /\ size > 0 /\ n % size = 0
  BY DEF Holds
<1>7. (\A d \in rest : shape[d] # -1) => Cols(shape) = Product(shape, rest)
  BY <1>0, ColsIsProduct
<1>8. ASSUME size > 0, n % size = 0
      PROVE  /\ n \div size \in Nat
             /\ (n \div size) * size = n
  <2>1. n \div size \in Nat /\ ((n \div size) * size) + (n % size) = n
    BY <1>5, <1>8, Division
  <2>2. (n \div size) * size \in Nat
    BY <1>5, <2>1, ProductOfNaturals
  <2> QED
    BY <1>8, <2>1, <2>2
<1> SUFFICES /\ dims[1] * dims[2] = n
             /\ shape # <<>> /\ shape[1] # -1 => dims[1] = shape[1]
             /\ (\A d \in rest : shape[d] # -1) => dims[2] = Product(shape, rest)
  OBVIOUS
<1>9. CASE dynamic = {} /\ shape = <<>>
  <2>1. DOMAIN shape = {} /\ static = {} /\ rest = static
    BY <1>1, <1>9
  <2>2. Rows(shape) = 1 /\ Cols(shape) = 1 /\ size = 1 /\ n = 1
    BY <1>5, <1>6, <1>9, <2>1 DEF Rows, Cols
  <2>3. dims = <<1, 1>>
    BY <2>2 DEF resolve_dynamic_dims
  <2> HIDE DEF dims, static, rest
  <2> QED
    BY <1>9, <2>1, <2>2, <2>3
<1>10. CASE dynamic = {} /\ shape # <<>>
  <2>1. 1 \in static /\ static \ {1} = rest /\ \A d \in rest : shape[d] # -1
    BY <1>1, <1>10
  <2>0. AsInt(shape[1]) = shape[1]
    BY <1>2, <2>1
  <2>2. /\ Rows(shape) = shape[1] /\ shape[1] \in Nat
        /\ Cols(shape) = Product(shape, rest) /\ Cols(shape) \in Nat
        /\ n = shape[1] * Cols(shape)
    <3> HIDE DEF static, rest, dynamic
    <3> QED
      BY <1>2, <1>4, <1>5, <1>6, <1>7, <1>10, <2>1, <2>0 DEF Rows
  <2>3. dims = <<shape[1], Cols(shape)>>
    BY <2>2 DEF resolve_dynamic_dims
  <2> HIDE DEF dims, static, rest, dynamic
  <2> QED
    BY <2>2, <2>3
<1>11. CASE dynamic = {1} /\ size > 0 /\ n % size = 0
  <2>1. static = rest /\ shape # <<>> /\ shape[1] = -1 /\ \A d \in rest : shape[d] # -1
    BY <1>1, <1>11
  <2>0. AsInt(shape[1]) = -1
    BY <1>1, <1>2, <2>1
  <2>2. Rows(shape) = -1 /\ Cols(shape) = size
    <3> HIDE DEF static, rest, dynamic
    <3> QED
      BY <1>7, <2>1, <2>0 DEF Rows
  <2>3. dims = <<n \div size, size>>
    BY <1>11, <2>2 DEF resolve_dynamic_dims
  <2> HIDE DEF dims, static, rest, dynamic
  <2> QED
    BY <1>8, <1>11, <2>1, <2>3
<1>12. CASE dynamic = {2} /\ Len(shape) = 2 /\ size > 0 /\ n % size = 0
  <2>1. /\ static = {1} /\ static \ {1} = {} /\ 1 \in static /\ shape # <<>>
        /\ 2 \in rest /\ shape[2] = -1 /\ shape[1] # -1
    BY <1>1, <1>12
  <2>2. IsFiniteSet({}) /\ \A d \in {} : shape[d] \in Nat
    BY FS_EmptySet
  <2>3. Product(shape, {}) = 1
    BY <2>2, ProductIs
  <2>4. size = shape[1] /\ shape[1] \in Nat
    <3>1. shape[1] \in Nat /\ size = shape[1] * Product(shape, static \ {1})
      BY <1>4, <1>5, <2>1
    <3>2. Product(shape, static \ {1}) = 1
      <4> HIDE DEF static
      <4> QED
        BY <2>1, <2>3
    <3> HIDE DEF static, size
    <3> QED
      BY <3>1, <3>2
  <2>5. PICK c : /\ Cols(shape) = c[Len(shape)]
                 /\ \A i \in 1 .. Len(shape) : c[i] = Column(c, shape, i)
    BY <2>1, ColumnsOf
  <2>6. Rows(shape) = size /\ Cols(shape) = -1
    <3>1. AsInt(shape[1]) = shape[1] /\ AsInt(shape[2]) = -1
      BY <1>1, <1>2, <1>12, <2>1
    <3> QED
      BY <1>12, <2>1, <2>4, <2>5, <3>1 DEF Rows, Column
  <2>7. dims = <<size, n \div size>>
    BY <1>12, <2>6 DEF resolve_dynamic_dims
  <2>8. size * (n \div size) = n
    <3> HIDE DEF size
    <3>1. size * (n \div size) = (n \div size) * size
      BY <1>5, <1>8, <1>12
    <3> QED
      BY <1>8, <1>12, <3>1
  <2> HIDE DEF dims, static, rest, dynamic, size
  <2> QED
    BY <2>1, <2>4, <2>7, <2>8
<1> QED
  BY <1>6, <1>9, <1>10, <1>11, <1>12

LEMMA ResizedLength ==
  ASSUME NEW data \in Seq(Int), NEW n \in Nat
  PROVE  Len(Resized(data, n)) = n
<1>1. Resized(data, n) \in [1 .. n -> Int]
  BY DEF Resized
<1>2. Resized(data, n) \in Seq(Int) /\ DOMAIN Resized(data, n) = 1 .. n
  BY <1>1
<1> QED
  BY <1>2

LEMMA PlainType ==
  ASSUME NEW values \in Seq(Cells)
  PROVE  Plain(values) \in Seq(Int)
<1>1. Len(values) \in Nat /\ DOMAIN values = 1 .. Len(values)
  OBVIOUS
<1>2. \A i \in 1 .. Len(values) : values[i].val \in Int
  <2>1. \A i \in 1 .. Len(values) : values[i] \in Cells
    OBVIOUS
  <2>2. \A c \in Cells : c.val \in Int
    BY DEF Cells
  <2> QED
    BY <2>1, <2>2
<1>3. Plain(values) \in [1 .. Len(values) -> Int]
  BY <1>1, <1>2 DEF Plain
<1> QED
  BY <1>1, <1>3

\* Contents of a copied datatype, cut or filled, are as many as rows and columns say.
LEMMA TypedTensorFits ==
  ASSUME NEW in \in Input, Fit(in.shape), in.datatype \in Copied
  PROVE  Len(TypedTensor(in).data) = TypedTensor(in).n_rows * TypedTensor(in).n_cols
<1> DEFINE found == IF in.field = FieldOf(in.datatype) THEN Plain(in.values) ELSE <<>>
           dims  == resolve_dynamic_dims(Rows(in.shape), Cols(in.shape), Len(found))
           t     == Tensor(in, Len(found), Blank)
<1>1. in.values \in Seq(Cells)
  BY DEF Input
<1>2. found \in Seq(Int) /\ Len(found) \in Nat
  BY <1>1, PlainType
<1>3. Cols(in.shape) \in Dims
  BY ColsType
<1>4. Rows(in.shape) \in Dims
  BY RowsType
<1>5. dims[1] * dims[2] \in Nat
  BY <1>2, <1>3, <1>4, SizeIsNatural
<1>6. t.n_rows = dims[1] /\ t.n_cols = dims[2]
  BY DEF Tensor
<1>7. TypedTensor(in) = [t EXCEPT !.data = Resized(found, t.n_rows * t.n_cols)]
  BY DEF TypedTensor
<1>8. t = [datatype |-> in.datatype, n_rows |-> dims[1], n_cols |-> dims[2], data |-> Blank]
  BY DEF Tensor
<1> HIDE DEF found, dims, t
<1>9. /\ TypedTensor(in).data = Resized(found, dims[1] * dims[2])
      /\ TypedTensor(in).n_rows = dims[1] /\ TypedTensor(in).n_cols = dims[2]
  BY <1>6, <1>7, <1>8
<1> QED
  BY <1>2, <1>5, <1>9, ResizedLength

-------------------------------------------------------------------------------
(* What an input stands for *)

\* What the input makes.
Made(i) ==
  IF request.protocol = "json" THEN JsonTensors(request.inputs[i])
  ELSE { GrpcTensor(request.inputs, request.raws, i) }

LEMMA RequestType ==
  ASSUME NEW q \in Requests
  PROVE  /\ q.inputs \in Seq(Input) /\ q.raws \in Seq(Seq(Int))
         /\ q.protocol \in {"json", "grpc"}
         /\ Len(q.inputs) \in Nat /\ DOMAIN q.inputs = 1 .. Len(q.inputs)
<1>1. /\ q.inputs \in Seq(Input) /\ q.raws \in Seq(Seq(Int))
      /\ q.protocol \in {"json", "grpc"}
  BY RequestsAssumption
<1> QED
  BY <1>1

LEMMA InputType ==
  ASSUME request \in Requests, NEW i \in DOMAIN request.inputs
  PROVE  /\ request.inputs[i] \in Input /\ i \in Nat \ {0}
         /\ Fit(request.inputs[i].shape)
         /\ request.inputs[i].values \in Seq(Cells)
         /\ Plain(request.inputs[i].values) \in Seq(Int)
         /\ Sent(i) \in Seq(Int) /\ Len(Sent(i)) \in Nat
<1>1. request.inputs \in Seq(Input) /\ request.raws \in Seq(Seq(Int)) /\ i \in Nat \ {0}
  BY RequestType
<1>2. request.inputs[i] \in Input
  BY <1>1
<1>3. request.inputs[i].shape \in Seq(Int) /\ request.inputs[i].values \in Seq(Cells)
  BY <1>2 DEF Input
<1>7. Fit(request.inputs[i].shape)
  <2> DEFINE shape == request.inputs[i].shape
  <2>1. \A d \in DOMAIN shape :
          /\ AsInt(shape[d]) \in Nat \union {-1}
          /\ d > 2 /\ shape[d] # -1 => AsInt(shape[d]) # -1
    BY ShapesAssumption
  <2> QED
    BY <1>3, <2>1 DEF Fit, Dims
<1>4. Plain(request.inputs[i].values) \in Seq(Int)
  BY <1>3, PlainType
<1>5. Raw(i) => request.raws[i] \in Seq(Int)
  <2>1. Raw(i) => i \in 1 .. Len(request.raws)
    BY <1>1 DEF Raw
  <2> QED
    BY <1>1, <2>1
<1>6. Sent(i) \in Seq(Int)
  BY <1>4, <1>5 DEF Sent
<1> QED
  BY <1>1, <1>2, <1>3, <1>4, <1>6, <1>7

LEMMA PlainElements ==
  ASSUME NEW values \in Seq(Cells)
  PROVE  /\ DOMAIN Plain(values) = DOMAIN values /\ Len(Plain(values)) = Len(values)
         /\ \A k \in DOMAIN values : Plain(values)[k] = values[k].val
<1>1. DOMAIN Plain(values) = DOMAIN values
  BY DEF Plain
<1>2. Plain(values) \in Seq(Int)
  BY PlainType
<1>3. Len(Plain(values)) = Len(values)
  BY <1>1, <1>2
<1> QED
  BY <1>1, <1>3 DEF Plain

\* Values that can be read are stored as they are.
LEMMA StoredPlain ==
  ASSUME NEW in, in.values \in Seq(Cells),
         \A c \in Range(in.values) : Reads(in.datatype, c) /\ InRange(in.datatype, c.val)
  PROVE  Choices(in) = {Plain(in.values)}
<1> DEFINE S == UNION { Stored(in.datatype, in.values[i]) : i \in DOMAIN in.values }
           plain == Plain(in.values)
<1>1. \A k \in DOMAIN in.values : Stored(in.datatype, in.values[k]) = {in.values[k].val}
  <2> SUFFICES ASSUME NEW k \in DOMAIN in.values
               PROVE  Stored(in.datatype, in.values[k]) = {in.values[k].val}
    OBVIOUS
  <2>1. in.values[k] \in Range(in.values)
    BY DEF Range
  <2>2. /\ Reads(in.datatype, in.values[k])
        /\ Cut(in.datatype, in.values[k].val) = in.values[k].val
    <3>1. in.values[k].val \in Int
      <4>1. in.values[k] \in Cells
        OBVIOUS
      <4> QED
        BY <4>1 DEF Cells
    <3> QED
      BY <2>1, <3>1, CutSame
  <2>3. in.datatype # "FP16"
    BY <2>2 DEF Reads, Floats, Signed, Unsigned
  <2> QED
    BY <2>2, <2>3 DEF Stored
<1>2. /\ DOMAIN plain = DOMAIN in.values
      /\ plain = [k \in DOMAIN in.values |-> in.values[k].val]
  BY DEF Plain
<1>3. Choices(in) = { data \in [DOMAIN in.values -> S] :
                        \A k \in DOMAIN in.values : data[k] \in Stored(in.datatype, in.values[k]) }
  BY DEF Choices
<1>4. \A k \in DOMAIN in.values : in.values[k].val \in S
  BY <1>1
<1> HIDE DEF S
<1>5. plain \in Choices(in)
  <2>1. plain \in [DOMAIN in.values -> S]
    BY <1>2, <1>4
  <2>2. \A k \in DOMAIN in.values : plain[k] \in Stored(in.datatype, in.values[k])
    BY <1>1, <1>2
  <2> QED
    BY <1>3, <2>1, <2>2
<1>6. ASSUME NEW data \in Choices(in)
      PROVE  data = plain
  <2>1. /\ data = [k \in DOMAIN in.values |-> data[k]]
        /\ \A k \in DOMAIN in.values : data[k] = in.values[k].val
    BY <1>1, <1>3
  <2> QED
    BY <1>2, <2>1
<1> QED
  BY <1>5, <1>6

\* Contents that are as many as they should be stay as they are.
LEMMA ResizedSame ==
  ASSUME NEW data \in Seq(Int)
  PROVE  Resized(data, Len(data)) = data
<1>1. DOMAIN data = 1 .. Len(data) /\ data = [k \in 1 .. Len(data) |-> data[k]]
  OBVIOUS
<1> QED
  BY <1>1 DEF Resized

\* A tensor of the values sent, with the dimensions that follow from their number.
LEMMA TensorStands ==
  ASSUME request \in Requests, NEW i \in DOMAIN request.inputs,
         Holds(request.inputs[i].shape, Len(Sent(i)))
  PROVE  /\ StandsFor(Tensor(request.inputs[i], Len(Sent(i)), Sent(i)), i)
         /\ LET dims == resolve_dynamic_dims(Rows(request.inputs[i].shape),
                                             Cols(request.inputs[i].shape), Len(Sent(i)))
            IN dims[1] * dims[2] = Len(Sent(i))
<1> DEFINE in    == request.inputs[i]
           shape == in.shape
           n     == Len(Sent(i))
           dims  == resolve_dynamic_dims(Rows(shape), Cols(shape), n)
<1>1. Fit(shape) /\ n \in Nat /\ Holds(shape, n)
  BY InputType
<1>2. /\ dims[1] * dims[2] = n
      /\ shape # <<>> /\ shape[1] # -1 => dims[1] = shape[1]
      /\ (\A d \in 2 .. Len(shape) : shape[d] # -1) => dims[2] = Product(shape, 2 .. Len(shape))
  <2> HIDE DEF shape, n
  <2> QED
    BY <1>1, DimsHold
<1>3. Tensor(in, n, Sent(i))
        = [datatype |-> in.datatype, n_rows |-> dims[1], n_cols |-> dims[2], data |-> Sent(i)]
  BY DEF Tensor
<1> DEFINE t == Tensor(in, n, Sent(i))
<1>4. t.datatype = in.datatype /\ t.data = Sent(i) /\ t.n_rows = dims[1] /\ t.n_cols = dims[2]
  <2> HIDE DEF dims, in
  <2> QED
    BY <1>3
<1> HIDE DEF t, dims
<1>5. /\ t.n_rows * t.n_cols = n
      /\ shape # <<>> /\ shape[1] # -1 => t.n_rows = shape[1]
      /\ (\A d \in 2 .. Len(shape) : shape[d] # -1) => t.n_cols = Product(shape, 2 .. Len(shape))
  <2> HIDE DEF shape, n
  <2> QED
    BY <1>2, <1>4
<1>6. StandsFor(t, i)
  BY <1>4, <1>5, Zenon DEF StandsFor
<1> QED
  BY <1>2, <1>6, Zenon DEF t, dims

LEMMA MadeAsMeant ==
  ASSUME request \in Requests, NEW i \in DOMAIN request.inputs, Carried(i),
         Holds(request.inputs[i].shape, Len(Sent(i))), NEW t \in Made(i)
  PROVE  StandsFor(t, i)
<1> DEFINE in == request.inputs[i]
           n  == Len(Sent(i))
<1>1. /\ StandsFor(Tensor(in, n, Sent(i)), i)
      /\ LET dims == resolve_dynamic_dims(Rows(in.shape), Cols(in.shape), n)
         IN dims[1] * dims[2] = n
  BY TensorStands
<1>2. /\ in \in Input /\ i \in Nat \ {0} /\ in.values \in Seq(Cells)
      /\ Plain(in.values) \in Seq(Int)
  BY InputType
<1>3. /\ request.protocol \in {"json", "grpc"}
      /\ Len(Plain(in.values)) = Len(in.values)
  BY <1>2, RequestType, PlainElements
<1>4. CASE Raw(i)
  <2>1. Sent(i) = request.raws[i]
    BY <1>4 DEF Sent
  <2>2. t = Tensor(in, n, Sent(i))
    BY <1>4, <2>1 DEF Made, GrpcTensor, Raw
  <2> QED
    BY <1>1, <2>2
<1>5. CASE ~Raw(i) /\ request.protocol = "grpc"
  <2>1. Sent(i) = Plain(in.values) /\ in.datatype \in Copied /\ in.field = FieldOf(in.datatype)
    BY <1>5 DEF Sent, Carried
  <2>2. t = TypedTensor(in)
    BY <1>5 DEF Made, GrpcTensor, Raw
  <2> DEFINE b == Tensor(in, n, Blank)
  <2>3. t = [b EXCEPT !.data = Resized(Sent(i), b.n_rows * b.n_cols)]
    BY <2>1, <2>2 DEF TypedTensor
  <2>4. b.n_rows * b.n_cols = n
    BY <1>1 DEF Tensor
  <2>5. Resized(Sent(i), n) = Sent(i)
    BY <1>2, <2>1, ResizedSame
  <2>6. [b EXCEPT !.data = Sent(i)] = Tensor(in, n, Sent(i))
    BY DEF Tensor
  <2> HIDE DEF b
  <2>7. t = Tensor(in, n, Sent(i))
    BY <2>3, <2>4, <2>5, <2>6, Zenon
  <2> QED
    BY <1>1, <2>7
<1>6. CASE request.protocol = "json"
  <2>1. Sent(i) = Plain(in.values) /\ n = Len(in.values) /\ ~Raw(i)
    BY <1>3, <1>6 DEF Sent, Raw
  <2>2. in.field = "data"
    BY <1>6, <2>1 DEF Carried
  <2>3. t \in tensor_from_json_data(in)
    BY <1>6, <2>2 DEF Made, JsonTensors
  <2>4. CASE in.datatype = "STRING"
    <3>1. t = Tensor(in, n, Sent(i))
      BY <2>1, <2>3, <2>4 DEF tensor_from_json_data
    <3> QED
      BY <1>1, <3>1
  <2>5. CASE in.datatype # "STRING"
    <3>1. PICK data \in Choices(in) : t = Tensor(in, Len(in.values), data)
      BY <2>3, <2>5 DEF tensor_from_json_data
    <3>2. \A c \in Range(in.values) : Reads(in.datatype, c) /\ InRange(in.datatype, c.val)
      BY <1>6, <2>1, <2>5 DEF Carried
    <3>3. data = Plain(in.values)
      <4>1. Choices(in) = {Plain(in.values)}
        BY <1>2, <3>2, StoredPlain
      <4> QED
        BY <3>1, <4>1
    <3>4. t = Tensor(in, n, Sent(i))
      BY <2>1, <3>1, <3>3
    <3> QED
      BY <1>1, <3>4
  <2> QED
    BY <2>4, <2>5
<1> QED
  BY <1>3, <1>4, <1>5, <1>6

-------------------------------------------------------------------------------
(* Decoding *)

\* The last of the inputs decoded so far that has its name.
LastSoFar(i) ==
  \A j \in 1 .. next : request.inputs[j].name = request.inputs[i].name => j <= i

\* The inputs decoded so far could be read, and each name has the tensor of the
\* last of them.
Taken ==
  /\ next \in 0 .. Len(request.inputs)
  /\ \A i \in 1 .. next : ~Unreadable(i)
  /\ DOMAIN tensors = { request.inputs[i].name : i \in 1 .. next }
  /\ \A i \in 1 .. next : LastSoFar(i) => tensors[request.inputs[i].name] \in Made(i)

\* The inductive invariant.
CodecInv ==
  /\ phase \in {"idle", "decoding", "decoded", "encoding", "replied", "refused"}
  /\ phase = "idle" => next = 0 /\ tensors = <<>>
  /\ phase # "idle" => request \in Requests
  /\ phase = "decoding" \/ Decoded => Taken
  /\ Decoded => next = Len(request.inputs)
  /\ phase = "refused" =>
       request.body = "bad" \/ \E i \in DOMAIN request.inputs : Unreadable(i)

LEMMA InitCodecInv == Init => CodecInv
BY DEF Init, CodecInv, Decoded

LEMMA PutTakes ==
  ASSUME CodecInv, phase = "decoding", next < Len(request.inputs), ~Unreadable(next + 1),
         NEW t \in Made(next + 1), Put(request.inputs[next + 1].name, t)
  PROVE  CodecInv'
<1> DEFINE name == request.inputs[next + 1].name
<1>1. /\ request \in Requests /\ Taken
      /\ Len(request.inputs) \in Nat
  BY RequestType DEF CodecInv
<1>2. /\ request' = request /\ phase' = phase /\ next' = next + 1
      /\ tensors' = [n \in DOMAIN tensors \union {name} |-> IF n = name THEN t ELSE tensors[n]]
  BY DEF Put
<1>3. /\ next \in Nat /\ next' = next + 1 /\ next' \in 0 .. Len(request.inputs)
      /\ 1 .. next' = 1 .. next \union {next'}
  BY <1>1, <1>2 DEF Taken
<1>4. \A i : Unreadable(i)' = Unreadable(i) /\ Made(i)' = Made(i)
  BY <1>2 DEF Unreadable, Made
<1>5. \A i \in 1 .. next' : ~Unreadable(i)'
  BY <1>1, <1>2, <1>3, <1>4 DEF Taken
<1>6. DOMAIN tensors' = { request.inputs[i].name : i \in 1 .. next' }
  BY <1>1, <1>2, <1>3 DEF Taken
<1>7. ASSUME NEW i \in 1 .. next', LastSoFar(i)'
      PROVE  tensors'[request.inputs[i].name] \in Made(i)
  <2>1. CASE i = next + 1
    BY <1>2, <2>1
  <2>2. CASE i # next + 1
    <3>1. i \in 1 .. next /\ i < next + 1
      BY <1>3, <2>2
    <3>2. request.inputs[i].name # name
      BY <1>2, <1>3, <1>7, <3>1 DEF LastSoFar
    <3>3. LastSoFar(i)
      BY <1>2, <1>3, <1>7 DEF LastSoFar
    <3>4. request.inputs[i].name \in DOMAIN tensors
      BY <1>1, <3>1 DEF Taken
    <3>5. tensors'[request.inputs[i].name] = tensors[request.inputs[i].name]
      BY <1>2, <3>2, <3>4
    <3> QED
      BY <1>1, <3>1, <3>3, <3>5 DEF Taken
  <2> QED
    BY <2>1, <2>2
<1>8. Taken'
  BY <1>2, <1>3, <1>4, <1>5, <1>6, <1>7 DEF Taken
<1> QED
  BY <1>1, <1>2, <1>8 DEF CodecInv, Decoded

LEMMA RefuseRefuses ==
  ASSUME CodecInv, phase = "decoding", Refuse,
         request.body = "bad" \/ \E i \in DOMAIN request.inputs : Unreadable(i)
  PROVE  CodecInv'
<1>1. phase' = "refused" /\ request' = request
  BY DEF Refuse
<1>2. \A i : Unreadable(i)' = Unreadable(i)
  BY <1>1 DEF Unreadable
<1> QED
  BY <1>1, <1>2 DEF CodecInv, Decoded

LEMMA CodecInvNext == CodecInv /\ [Next]_vars => CodecInv'
<1> SUFFICES ASSUME CodecInv, [Next]_vars
             PROVE  CodecInv'
  OBVIOUS
<1>1. CASE Receive
  <2>1. /\ request' \in Requests /\ phase' = "decoding" /\ next' = 0 /\ tensors' = << >>
        /\ Len(request'.inputs) \in Nat
    BY <1>1, RequestType DEF Receive, CodecInv
  <2>2. DOMAIN tensors' = {} /\ 1 .. next' = {}
    BY <2>1, EmptyDomain
  <2>3. Taken'
    BY <2>1, <2>2 DEF Taken
  <2> QED
    BY <2>1, <2>3 DEF CodecInv, Decoded
<1>2. ASSUME phase = "decoding"
      PROVE  /\ request \in Requests /\ next \in Nat
             /\ DOMAIN request.inputs = 1 .. Len(request.inputs) /\ Len(request.inputs) \in Nat
             /\ next < Len(request.inputs) => next + 1 \in DOMAIN request.inputs
  BY <1>2, RequestType DEF CodecInv, Taken
<1>3. CASE JsonInput
  <2>1. phase = "decoding" /\ request.protocol = "json"
    BY <1>3 DEF JsonInput
  <2>2. CASE request.body = "bad"
    BY <1>3, <2>1, <2>2, RefuseRefuses DEF JsonInput
  <2>3. CASE request.body # "bad"
    <3>1. next < Len(request.inputs)
      BY <1>3, <2>3 DEF JsonInput
    <3>2. Unreadable(next + 1) <=> JsonRefuses(request.inputs[next + 1])
      BY <2>1 DEF Unreadable
    <3>3. Made(next + 1) = JsonTensors(request.inputs[next + 1])
      BY <2>1 DEF Made
    <3>4. CASE JsonRefuses(request.inputs[next + 1])
      BY <1>2, <1>3, <2>1, <2>3, <3>1, <3>2, <3>4, RefuseRefuses DEF JsonInput
    <3>5. CASE ~JsonRefuses(request.inputs[next + 1])
      BY <1>3, <2>1, <2>3, <3>1, <3>2, <3>3, <3>5, PutTakes DEF JsonInput
    <3> QED
      BY <3>4, <3>5
  <2> QED
    BY <2>2, <2>3
<1>4. CASE GrpcInput
  <2>1. phase = "decoding" /\ request.protocol = "grpc" /\ next < Len(request.inputs)
    BY <1>4 DEF GrpcInput
  <2>2. Unreadable(next + 1) <=> request.inputs[next + 1].datatype \notin Datatypes
    BY <2>1 DEF Unreadable
  <2>3. Made(next + 1) = { GrpcTensor(request.inputs, request.raws, next + 1) }
    BY <2>1 DEF Made
  <2>4. CASE Unreadable(next + 1)
    BY <1>2, <1>4, <2>1, <2>2, <2>4, RefuseRefuses DEF GrpcInput
  <2>5. CASE ~Unreadable(next + 1)
    BY <1>4, <2>1, <2>2, <2>3, <2>5, PutTakes DEF GrpcInput
  <2> QED
    BY <2>4, <2>5
<1>5. ASSUME UNCHANGED <<request, next, tensors>>, phase \in {"idle", "refused"} => phase' = phase,
             phase' # "idle", phase' # "refused" \/ phase = "refused",
             phase' \in {"decoding", "decoded", "encoding", "replied", "refused"},
             Decoded' => Decoded \/ next = Len(request.inputs)
      PROVE  CodecInv'
  <2>1. \A i : Unreadable(i)' = Unreadable(i) /\ Made(i)' = Made(i) /\ LastSoFar(i)' = LastSoFar(i)
    BY <1>5 DEF Unreadable, Made, LastSoFar
  <2>2. Taken => Taken'
    BY <1>5, <2>1 DEF Taken
  <2> QED
    BY <1>5, <2>1, <2>2 DEF CodecInv, Decoded
<1>6. CASE FinishDecoding \/ Predict \/ EmitNext \/ FinishEncoding
  BY <1>5, <1>6 DEF FinishDecoding, Predict, EmitNext, FinishEncoding, decoding, Decoded
<1>7. CASE UNCHANGED vars
  <2>1. UNCHANGED <<request, next, tensors, phase>>
    BY <1>7 DEF vars
  <2>2. CASE phase = "idle"
    BY <2>1, <2>2 DEF CodecInv, Decoded
  <2>3. CASE phase # "idle"
    BY <1>5, <2>1, <2>3 DEF CodecInv, Decoded
  <2> QED
    BY <2>2, <2>3
<1> QED
  BY <1>1, <1>3, <1>4, <1>6, <1>7 DEF Next, Over

-------------------------------------------------------------------------------
(* Encoding *)

\* An output of the response.
Written(name) ==
  LET t == outputs[name]
  IN IF request.protocol = "json" THEN Out(name, "data", Printed(t))
     ELSE IF t.layout = "string" THEN Out(name, "bytes", Printed(t))
     ELSE Out(name, "none", <<>>)

AllWritten == { Written(name) : name \in DOMAIN outputs }

\* The first n of the names in order have been looked at: those of them that the
\* model returned are in the response, in this order.
LookedAt(outs, returned, order, n) ==
  /\ { outs[i].name : i \in DOMAIN outs } = { order[k] : k \in 1 .. n } \intersect returned
  /\ \A i, j \in DOMAIN outs : i < j =>
       \E k, l \in 1 .. n : k < l /\ order[k] = outs[i].name /\ order[l] = outs[j].name

\* Raw contents are paired with the outputs if all are dense.
Paired ==
  /\ response.raws \in Seq(Seq(Int)) /\ Len(response.raws) <= Len(response.outs)
  /\ (\A name \in DOMAIN outputs : outputs[name].layout = "string") => response.raws = <<>>
  /\ request.protocol = "grpc" /\ (\A name \in DOMAIN outputs : outputs[name].layout = "dense") =>
       /\ Len(response.raws) = Len(response.outs)
       /\ \A i \in DOMAIN response.outs :
            response.raws[i] = outputs[response.outs[i].name].data

\* todo is what is left of order.
Rest(order) ==
  /\ Len(todo) <= Len(order)
  /\ \A k \in 1 .. Len(todo) : todo[k] = order[(Len(order) - Len(todo)) + k]

\* The response holds what has been looked at, in the order that was chosen.
Emitted ==
  /\ Paired
  /\ \E order \in Order(outputs, specs) :
       Rest(order) /\ LookedAt(response.outs, DOMAIN outputs, order, Len(order) - Len(todo))

EncodeInv ==
  IF phase \in {"encoding", "replied"}
  THEN /\ outputs \in Results /\ specs \in Specs
       /\ response \in [outs : Seq(AllWritten), raws : Seq(Seq(Int))]
       /\ todo \in Seq(DOMAIN outputs \union Range(specs)) /\ Emitted
       /\ phase = "replied" => todo = <<>>
  ELSE /\ outputs = <<>> /\ specs = <<>> /\ todo = <<>>
       /\ response = [outs |-> <<>>, raws |-> <<>>]

\* Whichever order is chosen, no name comes twice.
LEMMA OrderType ==
  ASSUME NEW out \in Results, NEW declared \in Specs, NEW order \in Order(out, declared)
  PROVE  /\ order \in Seq(DOMAIN out \union Range(declared))
         /\ Len(order) \in Nat /\ DOMAIN order = 1 .. Len(order)
         /\ IsInjective(order)
         /\ Range(order) = IF declared = <<>> THEN DOMAIN out ELSE Range(declared)
<1>1. declared \in Seq(Names) /\ IsInjective(declared) /\ IsFiniteSet(DOMAIN out)
  BY ResultsAssumption, SpecsAssumption
<1>2. CASE declared = <<>>
  <2> DEFINE n == Cardinality(DOMAIN out)
  <2>1. order \in [1 .. n -> DOMAIN out] /\ Range(order) = DOMAIN out
    BY <1>2 DEF Order
  <2>2. n \in Nat
    BY <1>1, FS_CardinalityType
  <2>3. IsFiniteSet(1 .. n) /\ Cardinality(1 .. n) = n
    BY <2>2, IntervalFinite
  <2>4. order \in Surjection(1 .. n, DOMAIN out)
    BY <2>1 DEF Range, Surjection
  <2>5. order \in Injection(1 .. n, DOMAIN out)
    BY <2>3, <2>4, FS_SurjSameCardinalityImpliesInj
  <2>6. IsInjective(order)
    BY <2>5 DEF Injection
  <2>7. order \in Seq(DOMAIN out \union Range(declared)) /\ Len(order) = n
    BY <2>1, <2>2
  <2> HIDE DEF n
  <2> QED
    BY <1>2, <2>1, <2>2, <2>6, <2>7
<1>3. CASE declared # <<>>
  <2>1. order = declared
    BY <1>3 DEF Order
  <2>2. declared \in Seq(Range(declared))
    BY <1>1 DEF Range
  <2> QED
    BY <1>1, <1>3, <2>1, <2>2
<1> QED
  BY <1>2, <1>3

LEMMA LookedPast ==
  ASSUME NEW S, NEW outs \in Seq(S), NEW returned, NEW order, NEW n \in Nat,
         LookedAt(outs, returned, order, n), order[n + 1] \notin returned
  PROVE  LookedAt(outs, returned, order, n + 1)
<1>1. 1 .. (n + 1) = (1 .. n) \union {n + 1} /\ \A k \in 1 .. n : k \in 1 .. (n + 1)
  OBVIOUS
<1>2. { order[k] : k \in 1 .. (n + 1) } = { order[k] : k \in 1 .. n } \union {order[n + 1]}
  BY <1>1
<1>3. { order[k] : k \in 1 .. (n + 1) } \intersect returned
        = { order[k] : k \in 1 .. n } \intersect returned
  BY <1>2
<1>4. { outs[i].name : i \in DOMAIN outs }
        = { order[k] : k \in 1 .. (n + 1) } \intersect returned
  BY <1>3 DEF LookedAt
<1>5. \A i, j \in DOMAIN outs : i < j =>
        \E k, l \in 1 .. (n + 1) : k < l /\ order[k] = outs[i].name /\ order[l] = outs[j].name
  BY <1>1 DEF LookedAt
<1> QED
  BY <1>4, <1>5 DEF LookedAt

LEMMA LookedAtOneMore ==
  ASSUME NEW S, NEW outs \in Seq(S), NEW returned, NEW order, NEW n \in Nat, NEW w \in S,
         LookedAt(outs, returned, order, n), order[n + 1] \in returned, w.name = order[n + 1]
  PROVE  LookedAt(Append(outs, w), returned, order, n + 1)
<1> DEFINE more == Append(outs, w)
           len  == Len(outs)
<1>1. /\ len \in Nat /\ DOMAIN outs = 1 .. len /\ DOMAIN more = (1 .. len) \union {len + 1}
      /\ \A i \in 1 .. len : more[i] = outs[i]
      /\ more[len + 1] = w
  OBVIOUS
<1>2. 1 .. (n + 1) = (1 .. n) \union {n + 1} /\ \A k \in 1 .. n : k < n + 1
  OBVIOUS
<1>3. { order[k] : k \in 1 .. (n + 1) } = { order[k] : k \in 1 .. n } \union {order[n + 1]}
  BY <1>2
<1> HIDE DEF more, len
<1>4. { more[i].name : i \in DOMAIN more }
        = { outs[i].name : i \in DOMAIN outs } \union {order[n + 1]}
  BY <1>1
<1>5. { more[i].name : i \in DOMAIN more } = { order[k] : k \in 1 .. (n + 1) } \intersect returned
  BY <1>3, <1>4 DEF LookedAt
<1>6. ASSUME NEW i \in DOMAIN more, NEW j \in DOMAIN more, i < j
      PROVE  \E k, l \in 1 .. (n + 1) :
               k < l /\ order[k] = more[i].name /\ order[l] = more[j].name
  <2>1. i \in 1 .. len
    BY <1>1, <1>6
  <2>2. CASE j \in 1 .. len
    BY <1>1, <1>2, <1>6, <2>1, <2>2 DEF LookedAt
  <2>3. CASE j = len + 1
    <3>1. outs[i].name \in { order[k] : k \in 1 .. n }
      BY <1>1, <2>1 DEF LookedAt
    <3>2. PICK k \in 1 .. n : order[k] = outs[i].name
      BY <3>1
    <3> QED
      BY <1>1, <1>2, <2>1, <2>3, <3>2
  <2> QED
    BY <1>1, <2>2, <2>3
<1> QED
  BY <1>5, <1>6 DEF LookedAt, more

LEMMA InitEncodeInv == Init => EncodeInv
BY DEF Init, EncodeInv

LEMMA PredictEncodes ==
  ASSUME EncodeInv, Predict
  PROVE  EncodeInv'
<1>1. /\ outputs' \in Results /\ specs' \in Specs /\ todo' \in Order(outputs', specs')
      /\ phase' = "encoding" /\ response' = [outs |-> <<>>, raws |-> <<>>]
  BY DEF Predict, EncodeInv
<1>0. PICK order : order = todo'
  OBVIOUS
<1>2. /\ order \in Seq(DOMAIN outputs' \union Range(specs'))
      /\ Len(order) \in Nat
  BY <1>0, <1>1, OrderType
<1>3. response' \in [outs : Seq(AllWritten'), raws : Seq(Seq(Int))]
  BY <1>1
<1>4. Paired'
  BY <1>1 DEF Paired
<1>5. /\ Len(todo') <= Len(order) /\ Len(order) - Len(todo') = 0
      /\ \A k \in 1 .. Len(todo') : todo'[k] = order[(Len(order) - Len(todo')) + k]
  BY <1>0, <1>2
<1>6. Rest(order)'
  BY <1>5 DEF Rest
<1>7. LookedAt(response'.outs, DOMAIN outputs', order, 0)
  BY <1>1 DEF LookedAt
<1>8. Emitted'
  BY <1>0, <1>1, <1>4, <1>5, <1>6, <1>7 DEF Emitted
<1> QED
  BY <1>0, <1>1, <1>2, <1>3, <1>8 DEF EncodeInv

LEMMA TodoStep ==
  ASSUME NEW S, todo \in Seq(S), todo # <<>>, NEW order \in Seq(S), Rest(order),
         todo' = Tail(todo)
  PROVE  LET n == Len(order) - Len(todo)
         IN /\ n \in Nat /\ Head(todo) = order[n + 1] /\ Head(todo) \in S
            /\ todo' \in Seq(S) /\ Len(order) - Len(todo') = n + 1
            /\ Len(todo') <= Len(order)
            /\ \A k \in 1 .. Len(todo') : todo'[k] = order[(n + 1) + k]
<1>1. /\ Len(todo) \in Nat \ {0} /\ Len(order) \in Nat /\ Head(todo) = todo[1]
      /\ Head(todo) \in S
      /\ todo' \in Seq(S) /\ Len(todo') = Len(todo) - 1
      /\ \A k \in 1 .. Len(todo') : todo'[k] = todo[k + 1]
  OBVIOUS
<1>2. Head(todo) = order[(Len(order) - Len(todo)) + 1]
  BY <1>1 DEF Rest
<1>3. ASSUME NEW k \in 1 .. Len(todo')
      PROVE  todo'[k] = order[((Len(order) - Len(todo)) + 1) + k]
  <2>1. k + 1 \in 1 .. Len(todo)
        /\ (Len(order) - Len(todo)) + (k + 1) = ((Len(order) - Len(todo)) + 1) + k
    BY <1>1
  <2>2. todo[k + 1] = order[(Len(order) - Len(todo)) + (k + 1)]
    BY <2>1 DEF Rest
  <2> QED
    BY <1>1, <2>1, <2>2
<1> QED
  BY <1>1, <1>2, <1>3 DEF Rest

LEMMA ReturnedType ==
  ASSUME NEW out \in Results, NEW name \in DOMAIN out
  PROVE  /\ out[name].datatype \in Datatypes /\ out[name].layout \in {"dense", "string", "sparse"}
         /\ out[name].n_rows \in Nat /\ out[name].n_rows < Half32
         /\ out[name].n_cols \in Nat /\ out[name].n_cols < Half32
         /\ out[name].data \in Seq(Int)
         /\ Len(out[name].data) = out[name].n_rows * out[name].n_cols
         /\ out[name].layout = "string" <=> out[name].datatype = "STRING"
<1> DEFINE t == out[name]
<1>1. /\ t \in [datatype : Datatypes, layout : {"dense", "string", "sparse"},
                n_rows : 0 .. Half32 - 1, n_cols : 0 .. Half32 - 1, data : Seq(Int)]
      /\ Len(t.data) = t.n_rows * t.n_cols
      /\ t.layout = "string" <=> t.datatype = "STRING"
  BY ResultsAssumption
<1>2. /\ t.datatype \in Datatypes /\ t.layout \in {"dense", "string", "sparse"}
      /\ t.n_rows \in 0 .. Half32 - 1 /\ t.n_cols \in 0 .. Half32 - 1
      /\ t.data \in Seq(Int)
  BY <1>1
<1> HIDE DEF t
<1>3. \A k \in 0 .. Half32 - 1 : k \in Nat /\ k < Half32
  BY WidthsAssumption
<1> QED
  BY <1>1, <1>2, <1>3 DEF t

LEMMA WrittenName ==
  ASSUME NEW name
  PROVE  Written(name).name = name
BY DEF Written, Out

\* One output more, and its buffer if it is dense.
LEMMA EmitEffect ==
  ASSUME NEW name, NEW S, response \in [outs : S, raws : Seq(Seq(Int))],
         request.protocol \in {"json", "grpc"}, Emit(name)
  PROVE  /\ response'.outs = Append(response.outs, Written(name))
         /\ response'.raws = IF request.protocol = "grpc" /\ outputs[name].layout = "dense"
                             THEN Append(response.raws, outputs[name].data) ELSE response.raws
         /\ response' = [outs |-> response'.outs, raws |-> response'.raws]
<1>1. CASE request.protocol = "json"
  <2>1. response' = [response EXCEPT !.outs = Append(@, Out(name, "data", Printed(outputs[name])))]
    BY <1>1 DEF Emit
  <2> QED
    BY <1>1, <2>1 DEF Written
<1>2. CASE request.protocol = "grpc" /\ outputs[name].layout = "string"
  <2>1. response' = [response EXCEPT !.outs = Append(@, Out(name, "bytes", Printed(outputs[name])))]
    BY <1>2 DEF Emit
  <2> QED
    BY <1>2, <2>1 DEF Written
<1>3. CASE request.protocol = "grpc" /\ outputs[name].layout # "string"
  <2>1. response' = [outs |-> Append(response.outs, Out(name, "none", <<>>)),
                     raws |-> IF outputs[name].layout = "dense"
                              THEN Append(response.raws, outputs[name].data) ELSE response.raws]
    BY <1>3 DEF Emit
  <2> QED
    BY <1>3, <2>1 DEF Written
<1> QED
  BY <1>1, <1>2, <1>3

LEMMA PairedNext ==
  ASSUME NEW name \in DOMAIN outputs, outputs \in Results, UNCHANGED <<request, outputs>>, Paired,
         response \in [outs : Seq(AllWritten), raws : Seq(Seq(Int))],
         response'.outs = Append(response.outs, Written(name)),
         response'.raws = IF request.protocol = "grpc" /\ outputs[name].layout = "dense"
                          THEN Append(response.raws, outputs[name].data) ELSE response.raws
  PROVE  Paired'
<1> DEFINE outs == response.outs
           raws == response.raws
           more == response'.outs
<1>1. /\ outs \in Seq(AllWritten) /\ raws \in Seq(Seq(Int)) /\ Len(raws) <= Len(outs)
      /\ Len(outs) \in Nat /\ Len(raws) \in Nat
  BY DEF Paired
<1>2. Written(name) \in AllWritten /\ Written(name).name = name
  BY WrittenName DEF AllWritten
<1>3. /\ Len(more) = Len(outs) + 1 /\ DOMAIN more = (1 .. Len(outs)) \union {Len(outs) + 1}
      /\ \A i \in 1 .. Len(outs) : more[i] = outs[i]
      /\ more[Len(outs) + 1] = Written(name)
  BY <1>1, <1>2
<1>4. outputs[name].data \in Seq(Int)
  BY ReturnedType
<1> DEFINE longer == Append(raws, outputs[name].data)
<1>5. /\ longer \in Seq(Seq(Int)) /\ Len(longer) = Len(raws) + 1
      /\ \A i \in 1 .. Len(raws) : longer[i] = raws[i]
      /\ longer[Len(raws) + 1] = outputs[name].data
  BY <1>1, <1>4
<1>6. response'.raws = IF request.protocol = "grpc" /\ outputs[name].layout = "dense"
                       THEN longer ELSE raws
  OBVIOUS
<1> HIDE DEF longer
<1>7. response'.raws \in Seq(Seq(Int)) /\ Len(response'.raws) <= Len(more)
  BY <1>1, <1>3, <1>5, <1>6
<1>8. ASSUME \A n \in DOMAIN outputs : outputs[n].layout = "string"
      PROVE  response'.raws = <<>>
  BY <1>6, <1>8 DEF Paired
<1>9. ASSUME request.protocol = "grpc", \A n \in DOMAIN outputs : outputs[n].layout = "dense"
      PROVE  /\ Len(response'.raws) = Len(more)
             /\ \A i \in DOMAIN more : response'.raws[i] = outputs[more[i].name].data
  <2>1. response'.raws = longer
    BY <1>6, <1>9
  <2>2. /\ Len(raws) = Len(outs) /\ DOMAIN outs = 1 .. Len(outs)
        /\ \A i \in DOMAIN outs : raws[i] = outputs[outs[i].name].data
    BY <1>1, <1>9 DEF Paired
  <2> QED
    BY <1>1, <1>2, <1>3, <1>5, <2>1, <2>2
<1> QED
  BY <1>7, <1>8, <1>9 DEF Paired

LEMMA EmitNextEncodes ==
  ASSUME EncodeInv, request \in Requests, EmitNext
  PROVE  EncodeInv'
<1> DEFINE S == DOMAIN outputs \union Range(specs)
           name == Head(todo)
           outs == response.outs
<1>1. /\ phase = "encoding" /\ todo # <<>> /\ todo' = Tail(todo)
      /\ UNCHANGED <<request, next, tensors, phase, outputs, specs>>
  BY DEF EmitNext, decoding
<1>2. /\ outputs \in Results /\ specs \in Specs
      /\ response \in [outs : Seq(AllWritten), raws : Seq(Seq(Int))]
      /\ todo \in Seq(S) /\ Emitted
  BY <1>1 DEF EncodeInv
<1>3. PICK order \in Order(outputs, specs) :
        /\ Rest(order)
        /\ LookedAt(outs, DOMAIN outputs, order, Len(order) - Len(todo))
  BY <1>2 DEF Emitted
<1>4. order \in Seq(S)
  BY <1>2, OrderType
<1> DEFINE n == Len(order) - Len(todo)
<1>5. /\ n \in Nat /\ name = order[n + 1] /\ name \in S
      /\ todo' \in Seq(S) /\ Len(order) - Len(todo') = n + 1
      /\ Len(todo') <= Len(order)
      /\ \A k \in 1 .. Len(todo') : todo'[k] = order[(n + 1) + k]
  <2> HIDE DEF S
  <2> QED
    BY <1>1, <1>2, <1>3, <1>4, TodoStep
<1>6. Rest(order)'
  <2> HIDE DEF n
  <2>1. \A k \in 1 .. Len(todo') : todo'[k] = order[(Len(order) - Len(todo')) + k]
    BY <1>5
  <2> QED
    BY <1>5, <2>1 DEF Rest
<1>7. LookedAt(outs, DOMAIN outputs, order, n)
  BY <1>3
<1>8. /\ outs \in Seq(AllWritten)
      /\ AllWritten' = AllWritten /\ order \in Order(outputs, specs)'
  BY <1>1, <1>2 DEF AllWritten, Written, Out
<1> HIDE DEF n, S
<1>9. ASSUME Paired', response' \in [outs : Seq(AllWritten), raws : Seq(Seq(Int))],
             LookedAt(response'.outs, DOMAIN outputs, order, n + 1)
      PROVE  EncodeInv'
  <2>1. Emitted'
    BY <1>1, <1>5, <1>6, <1>8, <1>9 DEF Emitted
  <2>2. todo' \in Seq(DOMAIN outputs' \union Range(specs'))
    BY <1>1, <1>5 DEF S
  <2> QED
    BY <1>1, <1>2, <1>8, <1>9, <2>1, <2>2 DEF EncodeInv
<1>10. CASE name \notin DOMAIN outputs
  <2>1. response' = response
    BY <1>10 DEF EmitNext
  <2>2. LookedAt(outs, DOMAIN outputs, order, n + 1)
    BY <1>5, <1>7, <1>8, <1>10, LookedPast
  <2>3. Paired'
    BY <1>1, <1>2, <2>1 DEF Emitted, Paired
  <2> QED
    BY <1>2, <1>9, <2>1, <2>2, <2>3
<1>11. CASE name \in DOMAIN outputs
  <2>1. Emit(name) /\ request.protocol \in {"json", "grpc"}
    BY <1>11, RequestType DEF EmitNext
  <2>2. /\ response'.outs = Append(outs, Written(name))
        /\ response'.raws = IF request.protocol = "grpc" /\ outputs[name].layout = "dense"
                            THEN Append(response.raws, outputs[name].data) ELSE response.raws
        /\ response' = [outs |-> response'.outs, raws |-> response'.raws]
    BY <1>2, <2>1, EmitEffect
  <2>3. Paired'
    BY <1>1, <1>2, <1>11, <2>2, PairedNext DEF Emitted
  <2>4. Written(name) \in AllWritten /\ Written(name).name = name
    BY <1>11, WrittenName DEF AllWritten
  <2>5. response' \in [outs : Seq(AllWritten), raws : Seq(Seq(Int))]
    <3>1. response'.outs \in Seq(AllWritten)
      BY <1>8, <2>2, <2>4
    <3>2. response'.raws \in Seq(Seq(Int))
      BY <2>3 DEF Paired
    <3> QED
      BY <2>2, <3>1, <3>2
  <2>6. LookedAt(response'.outs, DOMAIN outputs, order, n + 1)
    BY <1>5, <1>7, <1>8, <1>11, <2>2, <2>4, LookedAtOneMore
  <2> QED
    BY <1>9, <2>3, <2>5, <2>6
<1> QED
  BY <1>10, <1>11

LEMMA EncodeInvNext == CodecInv /\ EncodeInv /\ [Next]_vars => EncodeInv'
<1> SUFFICES ASSUME CodecInv, EncodeInv, [Next]_vars
             PROVE  EncodeInv'
  OBVIOUS
<1>1. CASE Predict
  BY <1>1, PredictEncodes
<1>2. CASE EmitNext
  <2>1. request \in Requests
    BY <1>2 DEF EmitNext, CodecInv
  <2> QED
    BY <1>2, <2>1, EmitNextEncodes
<1>3. ASSUME UNCHANGED encoding, phase \notin {"encoding", "replied"},
             phase' \notin {"encoding", "replied"}
      PROVE  EncodeInv'
  BY <1>3 DEF EncodeInv, encoding
<1>4. CASE Receive \/ JsonInput \/ GrpcInput \/ FinishDecoding
  BY <1>3, <1>4 DEF Receive, JsonInput, GrpcInput, FinishDecoding, Refuse, Put
<1>5. ASSUME UNCHANGED <<encoding, request>>, phase \in {"encoding", "replied"},
             phase' \in {"encoding", "replied"}, phase' = "replied" => todo = <<>>
      PROVE  EncodeInv'
  <2>1. UNCHANGED <<outputs, specs, todo, response, request>>
    BY <1>5 DEF encoding
  <2>2. AllWritten' = AllWritten
    BY <2>1 DEF AllWritten, Written, Out
  <2>3. Emitted => Emitted'
    BY <2>1 DEF Emitted, Paired, Rest
  <2> QED
    BY <1>5, <2>1, <2>2, <2>3 DEF EncodeInv
<1>6. CASE FinishEncoding
  BY <1>5, <1>6 DEF FinishEncoding, decoding
<1>7. CASE UNCHANGED vars
  <2>1. UNCHANGED <<encoding, request, phase>>
    BY <1>7 DEF vars, encoding
  <2>2. phase = "replied" => todo = <<>>
    BY DEF EncodeInv
  <2> QED
    BY <1>3, <1>5, <2>1, <2>2
<1> QED
  BY <1>1, <1>2, <1>4, <1>6, <1>7 DEF Next, Over

-------------------------------------------------------------------------------
(* What the client reads *)

\* Dimensions that are known are read as they are.
LEMMA DimsRead ==
  ASSUME NEW r \in Nat, r < Half32, NEW c \in Nat, c < Half32, NEW total
  PROVE  resolve_dynamic_dims(Rows(<<r, c>>), Cols(<<r, c>>), total) = <<r, c>>
<1> DEFINE shape == <<r, c>>
<1>1. shape \in Seq(Int) /\ shape # <<>> /\ Len(shape) = 2 /\ shape[1] = r /\ shape[2] = c
  OBVIOUS
<1>2. AsInt(r) = r /\ AsInt(c) = c
  <2>1. \A n \in Nat : n < Half32 => InRange("INT32", n)
    <3>1. "INT32" \notin Unsigned /\ Half("INT32") = Half32
      BY DEF Unsigned, Half
    <3>2. \A n \in Nat : n < Half32 => n \in -Half32 .. Half32 - 1
      BY WidthsAssumption
    <3> QED
      BY <3>1, <3>2 DEF InRange
  <2> QED
    BY <2>1, CutSame DEF AsInt
<1> HIDE DEF shape
<1>3. Fit(shape)
  <2>1. \A d \in DOMAIN shape : d = 1 \/ d = 2
    BY <1>1
  <2> QED
    BY <1>1, <1>2, <2>1 DEF Fit, Dims
<1>4. PICK cols : /\ Cols(shape) = cols[Len(shape)]
                  /\ \A i \in 1 .. Len(shape) : cols[i] = Column(cols, shape, i)
  BY <1>1, <1>3, ColumnsOf
<1>5. Rows(shape) = r /\ Cols(shape) = c
  BY <1>1, <1>2, <1>4 DEF Rows, Column
<1>6. resolve_dynamic_dims(Rows(shape), Cols(shape), total) = <<r, c>>
  BY <1>5 DEF resolve_dynamic_dims
<1> QED
  BY <1>6 DEF shape

\* A tensor as the model returned it.
Returned(name) ==
  LET t == outputs[name]
  IN [datatype |-> t.datatype, n_rows |-> t.n_rows, n_cols |-> t.n_cols, data |-> t.data]

\* The cells of a tensor have its numbers.
LEMMA PrintedCells ==
  ASSUME NEW t, t.data \in Seq(Int)
  PROVE  /\ Printed(t) \in Seq(Cells) /\ Len(Printed(t)) = Len(t.data)
         /\ Plain(Printed(t)) = t.data
         /\ \A c \in Range(Printed(t)) :
              \E k \in DOMAIN t.data :
                c.kind = IF t.layout = "string" THEN "string"
                         ELSE IF t.datatype \in Floats /\ t.data[k] \in NonFinite THEN "null"
                         ELSE "double"
<1> DEFINE data == t.data
           kind(k) == IF t.layout = "string" THEN "string"
                      ELSE IF t.datatype \in Floats /\ data[k] \in NonFinite THEN "null"
                      ELSE "double"
           cell(k) == [kind |-> kind(k), val |-> data[k]]
           cells == Printed(t)
<1>1. cells = [k \in DOMAIN data |-> cell(k)]
  BY DEF Printed
<1>2. Len(data) \in Nat /\ DOMAIN data = 1 .. Len(data) /\ \A k \in DOMAIN data : data[k] \in Int
  OBVIOUS
<1>3. \A k : kind(k) \in {"integer", "double", "string", "bool", "null"}
  OBVIOUS
<1> HIDE DEF kind, cells, data
<1>4. \A k \in DOMAIN data : cell(k) \in Cells /\ cell(k).kind = kind(k) /\ cell(k).val = data[k]
  BY <1>2, <1>3 DEF Cells
<1> HIDE DEF cell
<1>5. cells \in [1 .. Len(data) -> Cells]
  BY <1>1, <1>2, <1>4
<1>6. cells \in Seq(Cells) /\ Len(cells) = Len(data) /\ DOMAIN cells = DOMAIN data
  BY <1>2, <1>5
<1>7. Plain(cells) = [k \in DOMAIN data |-> data[k]]
  BY <1>1, <1>4, <1>6 DEF Plain
<1>8. data = [k \in DOMAIN data |-> data[k]]
  BY DEF data
<1>9. \A c \in Range(cells) : \E k \in DOMAIN data : c.kind = kind(k)
  BY <1>1, <1>4, <1>6 DEF Range
<1> QED
  BY <1>6, <1>7, <1>8, <1>9 DEF kind, cells, data

LEMMA WrittenRead ==
  ASSUME outputs \in Results, NEW name \in DOMAIN outputs, request.protocol \in {"json", "grpc"}
  PROVE  /\ request.protocol = "json" /\ Readable(name) =>
              ~JsonRefuses(Written(name)) /\ JsonTensors(Written(name)) = {Returned(name)}
         /\ request.protocol = "grpc" =>
              /\ Tensor(Written(name), Len(outputs[name].data), outputs[name].data) = Returned(name)
              /\ outputs[name].layout = "string" => TypedTensor(Written(name)) = Returned(name)
<1> DEFINE t == outputs[name]
           w == Written(name)
<1>1. /\ t.n_rows \in Nat /\ t.n_cols \in Nat /\ t.data \in Seq(Int)
      /\ t.n_rows < Half32 /\ t.n_cols < Half32 /\ t.datatype \in Datatypes
      /\ Len(t.data) = t.n_rows * t.n_cols
      /\ t.layout = "string" <=> t.datatype = "STRING"
  BY ReturnedType
<1>2. w.datatype = t.datatype /\ w.shape = <<t.n_rows, t.n_cols>> /\ w.whole = TRUE
  BY DEF Written, Out
<1>3. ASSUME NEW total, NEW data
      PROVE  Tensor(w, total, data) = [datatype |-> t.datatype, n_rows |-> t.n_rows,
                                       n_cols |-> t.n_cols, data |-> data]
  <2>1. resolve_dynamic_dims(Rows(w.shape), Cols(w.shape), total) = <<t.n_rows, t.n_cols>>
    <3> HIDE DEF t, w
    <3> QED
      BY <1>1, <1>2, DimsRead
  <2> QED
    BY <1>2, <2>1 DEF Tensor
<1>4. \A total : Tensor(w, total, t.data) = Returned(name)
  BY <1>3 DEF Returned
<1>5. /\ Printed(t) \in Seq(Cells) /\ Len(Printed(t)) = Len(t.data)
      /\ Plain(Printed(t)) = t.data
      /\ \A c \in Range(Printed(t)) :
           \E k \in DOMAIN t.data :
             c.kind = IF t.layout = "string" THEN "string"
                      ELSE IF t.datatype \in Floats /\ t.data[k] \in NonFinite THEN "null"
                      ELSE "double"
  <2> HIDE DEF t
  <2> QED
    BY <1>1, PrintedCells
<1>6. ASSUME request.protocol = "json", Readable(name)
      PROVE  ~JsonRefuses(w) /\ JsonTensors(w) = {Returned(name)}
  <2>1. w.values = Printed(t) /\ w.field = "data"
    BY <1>6 DEF Written, Out
  <2>2. JsonTensors(w) = tensor_from_json_data(w)
    BY <2>1 DEF JsonTensors
  <2>3. \/ t.layout = "string"
        \/ t.datatype \in Floats /\ Range(t.data) \intersect NonFinite = {}
    BY <1>6 DEF Readable
  <2> HIDE DEF t, w
  <2>4. CASE t.layout = "string"
    <3>1. \A c \in Range(w.values) : c.kind = "string"
      BY <1>5, <2>1, <2>4
    <3>2. \A k \in DOMAIN w.values : w.values[k].kind = "string"
      BY <3>1 DEF Range
    <3>3. ~JsonRefuses(w)
      BY <1>1, <1>2, <3>2 DEF JsonRefuses
    <3>4. tensor_from_json_data(w) = { Tensor(w, Len(w.values), Plain(w.values)) }
      BY <1>1, <1>2, <2>4 DEF tensor_from_json_data
    <3> QED
      BY <1>4, <1>5, <2>1, <2>2, <3>3, <3>4
  <2>5. CASE t.datatype \in Floats /\ Range(t.data) \intersect NonFinite = {}
    <3>1. t.datatype # "STRING" /\ t.datatype \notin Signed \union Unsigned
      BY <2>5 DEF Floats, Signed, Unsigned
    <3>2. \A k \in DOMAIN t.data : t.data[k] \notin NonFinite
      BY <2>5 DEF Range
    <3>3. \A c \in Range(w.values) : c.kind = "double"
      BY <1>1, <1>5, <2>1, <3>1, <3>2
    <3>4. \A c \in Range(w.values) : Reads(w.datatype, c) /\ InRange(w.datatype, c.val)
      BY <1>2, <2>5, <3>1, <3>3 DEF Reads, InRange
    <3>5. Choices(w) = {Plain(w.values)}
      BY <1>5, <2>1, <3>4, StoredPlain
    <3>6. ~JsonRefuses(w)
      BY <1>1, <1>2, <3>1 DEF JsonRefuses
    <3>7. tensor_from_json_data(w) = { Tensor(w, Len(w.values), data) : data \in Choices(w) }
      BY <1>2, <3>1 DEF tensor_from_json_data
    <3> QED
      BY <1>4, <1>5, <2>1, <2>2, <3>5, <3>6, <3>7
  <2> QED
    BY <2>3, <2>4, <2>5
<1>7. ASSUME request.protocol = "grpc", t.layout = "string"
      PROVE  TypedTensor(w) = Returned(name)
  <2>1. w.field = "bytes" /\ w.values = Printed(t) /\ w.datatype = "STRING"
    BY <1>1, <1>2, <1>7 DEF Written, Out
  <2>2. "STRING" \in Copied /\ FieldOf("STRING") = "bytes"
    BY DEF Copied, FieldOf
  <2> DEFINE b == Tensor(w, Len(t.data), Blank)
  <2>3. TypedTensor(w) = [b EXCEPT !.data = Resized(t.data, b.n_rows * b.n_cols)]
    <3> HIDE DEF t, w
    <3> QED
      BY <1>5, <2>1, <2>2 DEF TypedTensor
  <2>4. b = [datatype |-> t.datatype, n_rows |-> t.n_rows, n_cols |-> t.n_cols, data |-> Blank]
    BY <1>3
  <2>5. Resized(t.data, Len(t.data)) = t.data
    BY <1>1, ResizedSame
  <2> HIDE DEF b
  <2>6. Resized(t.data, b.n_rows * b.n_cols) = t.data
    BY <1>1, <2>4, <2>5
  <2> QED
    BY <2>3, <2>4, <2>6 DEF Returned
<1> QED
  BY <1>4, <1>6, <1>7

LEMMA EchoesDecode == CodecInv /\ EncodeInv => EchoDecodes
<1> DEFINE layouts == { outputs[n].layout : n \in DOMAIN outputs }
           outs    == response.outs
<1> SUFFICES ASSUME CodecInv, EncodeInv, phase = "replied"
             PROVE  /\ { outs[i].name : i \in DOMAIN outs }
                         = IF specs = <<>> THEN DOMAIN outputs
                           ELSE Range(specs) \intersect DOMAIN outputs
                    /\ \A i, j \in DOMAIN outs : i < j =>
                         /\ outs[i].name # outs[j].name
                         /\ specs # <<>> => \E k, l \in DOMAIN specs :
                              k < l /\ specs[k] = outs[i].name /\ specs[l] = outs[j].name
                    /\ \A i \in DOMAIN outs :
                         Readable(outs[i].name) => Found(i) = {Returned(outs[i].name)}
  BY Zenon DEF EchoDecodes, Returned
<1>1. /\ outputs \in Results /\ specs \in Specs /\ todo = <<>> /\ Emitted
      /\ outs \in Seq(AllWritten) /\ request \in Requests
  BY DEF EncodeInv, CodecInv
<1>2. PICK order \in Order(outputs, specs) :
        LookedAt(outs, DOMAIN outputs, order, Len(order) - Len(todo))
  BY <1>1 DEF Emitted
<1>3. /\ Len(order) \in Nat /\ DOMAIN order = 1 .. Len(order) /\ IsInjective(order)
      /\ Range(order) = IF specs = <<>> THEN DOMAIN outputs ELSE Range(specs)
      /\ specs # <<>> => order = specs
  BY <1>1, OrderType DEF Order
<1>4. Len(todo) = 0 /\ Len(order) - Len(todo) = Len(order)
  BY <1>1, <1>3
<1>5. LookedAt(outs, DOMAIN outputs, order, Len(order))
  BY <1>2, <1>4
<1>6. { order[k] : k \in 1 .. Len(order) } = Range(order)
  BY <1>3 DEF Range
<1>7. { outs[i].name : i \in DOMAIN outs } = Range(order) \intersect DOMAIN outputs
  BY <1>5, <1>6 DEF LookedAt
<1>8. { outs[i].name : i \in DOMAIN outs }
        = IF specs = <<>> THEN DOMAIN outputs ELSE Range(specs) \intersect DOMAIN outputs
  BY <1>3, <1>7
<1>9. ASSUME NEW i \in DOMAIN outs, NEW j \in DOMAIN outs, i < j
      PROVE  /\ outs[i].name # outs[j].name
             /\ specs # <<>> => \E k, l \in DOMAIN specs :
                  k < l /\ specs[k] = outs[i].name /\ specs[l] = outs[j].name
  <2>1. PICK k \in DOMAIN order, l \in DOMAIN order :
          k < l /\ order[k] = outs[i].name /\ order[l] = outs[j].name
    BY <1>3, <1>5, <1>9 DEF LookedAt
  <2>2. k # l
    BY <1>3, <2>1
  <2>3. outs[i].name # outs[j].name
    BY <1>3, <2>1, <2>2 DEF IsInjective
  <2> QED
    BY <1>3, <2>1, <2>3
<1>10. ASSUME NEW i \in DOMAIN outs, Readable(outs[i].name)
       PROVE  Found(i) = {Returned(outs[i].name)}
  <2>1. PICK name \in DOMAIN outputs : outs[i] = Written(name)
    BY <1>1 DEF AllWritten
  <2>2. outs[i].name = name /\ request.protocol \in {"json", "grpc"}
    BY <1>1, <2>1, WrittenName, RequestType
  <2>3. /\ request.protocol = "json" =>
              ~JsonRefuses(outs[i]) /\ JsonTensors(outs[i]) = {Returned(name)}
        /\ request.protocol = "grpc" =>
              /\ Tensor(outs[i], Len(outputs[name].data), outputs[name].data) = Returned(name)
              /\ outputs[name].layout = "string" => TypedTensor(outs[i]) = Returned(name)
    BY <1>1, <1>10, <2>1, <2>2, WrittenRead, Zenon
  <2>6. request.protocol = "grpc" => layouts = {"dense"} \/ layouts = {"string"}
    BY <1>10, <2>2 DEF Readable
  <2>4. CASE request.protocol = "json"
    BY <2>2, <2>3, <2>4 DEF Found
  <2>5. CASE request.protocol = "grpc" /\ layouts = {"dense"}
    <3>1. \A n \in DOMAIN outputs : outputs[n].layout = "dense"
      BY <2>5
    <3>2. Len(response.raws) = Len(outs) /\ response.raws[i] = outputs[name].data
      BY <1>1, <2>2, <2>5, <3>1 DEF Emitted, Paired
    <3>3. i <= Len(response.raws)
      BY <1>1, <3>2
    <3>4. Found(i) = { Tensor(outs[i], Len(response.raws[i]), response.raws[i]) }
      BY <2>5, <3>3 DEF Found, GrpcTensor
    <3> QED
      BY <2>2, <2>3, <2>5, <3>2, <3>4
  <2>7. CASE request.protocol = "grpc" /\ layouts = {"string"}
    <3>1. \A n \in DOMAIN outputs : outputs[n].layout = "string"
      BY <2>7
    <3>2. response.raws = <<>>
      BY <1>1, <3>1 DEF Emitted, Paired
    <3>3. ~(i <= Len(response.raws))
      BY <1>1, <3>2
    <3>4. Found(i) = { TypedTensor(outs[i]) }
      BY <2>7, <3>3 DEF Found, GrpcTensor
    <3> QED
      BY <2>2, <2>3, <2>7, <3>1, <3>4
  <2> QED
    BY <2>2, <2>4, <2>5, <2>6, <2>7
<1> QED
  BY <1>8, <1>9, <1>10

-------------------------------------------------------------------------------
(* Types *)

Typed(t) == t.datatype \in Datatypes /\ t.n_rows \in Int /\ t.n_cols \in Int

LEMMA TensorType ==
  ASSUME NEW in, Fit(in.shape), in.datatype \in Datatypes, NEW total \in Nat, NEW data
  PROVE  Typed(Tensor(in, total, data))
<1> DEFINE dims == resolve_dynamic_dims(Rows(in.shape), Cols(in.shape), total)
<1>2. Rows(in.shape) \in Dims /\ Cols(in.shape) \in Dims
  BY RowsType, ColsType
<1>3. dims[1] \in Int /\ dims[2] \in Int
  BY <1>2 DEF resolve_dynamic_dims, Dims
<1>4. Tensor(in, total, data)
        = [datatype |-> in.datatype, n_rows |-> dims[1], n_cols |-> dims[2], data |-> data]
  BY DEF Tensor
<1> HIDE DEF dims
<1> QED
  BY <1>3, <1>4 DEF Typed

LEMMA MadeType ==
  ASSUME request \in Requests, NEW i \in DOMAIN request.inputs, ~Unreadable(i), NEW t \in Made(i)
  PROVE  Typed(t)
<1> DEFINE in == request.inputs[i]
<1>1. /\ in \in Input /\ in.values \in Seq(Cells) /\ Fit(in.shape)
      /\ Plain(in.values) \in Seq(Int) /\ request.raws \in Seq(Seq(Int)) /\ i \in Nat \ {0}
      /\ request.protocol \in {"json", "grpc"}
  BY InputType, RequestType
<1>2. in.datatype \in Datatypes
  BY DEF Unreadable, JsonRefuses
<1>3. Len(in.values) \in Nat
  BY <1>1
<1>4. CASE request.protocol = "json" /\ in.field = "data"
  <2>1. t \in tensor_from_json_data(in)
    BY <1>4 DEF Made, JsonTensors
  <2>2. \E data : t = Tensor(in, Len(in.values), data)
    BY <2>1 DEF tensor_from_json_data
  <2> QED
    BY <1>1, <1>2, <1>3, <2>2, TensorType
<1>5. CASE request.protocol = "json" /\ in.field # "data"
  <2>1. t = [datatype |-> in.datatype, n_rows |-> Rows(in.shape), n_cols |-> Cols(in.shape),
             data |-> Blank]
    BY <1>5 DEF Made, JsonTensors
  <2>2. Rows(in.shape) \in Int /\ Cols(in.shape) \in Int
    BY <1>1, RowsType, ColsType DEF Dims
  <2> QED
    BY <1>2, <2>1, <2>2 DEF Typed
<1>6. CASE request.protocol = "grpc" /\ i <= Len(request.raws)
  <2>1. i \in DOMAIN request.raws /\ Len(request.raws[i]) \in Nat
    <3>1. i \in DOMAIN request.raws
      BY <1>1, <1>6
    <3>2. request.raws[i] \in Seq(Int)
      BY <1>1, <3>1
    <3> QED
      BY <3>1, <3>2
  <2>2. t = Tensor(in, Len(request.raws[i]), request.raws[i])
    BY <1>6 DEF Made, GrpcTensor
  <2> QED
    BY <1>1, <1>2, <2>1, <2>2, TensorType
<1>7. CASE request.protocol = "grpc" /\ ~(i <= Len(request.raws))
  <2> DEFINE found == IF in.field = FieldOf(in.datatype) THEN Plain(in.values) ELSE <<>>
             b     == Tensor(in, Len(found), Blank)
  <2>1. t = TypedTensor(in)
    BY <1>7 DEF Made, GrpcTensor
  <2>2. Len(found) \in Nat
    BY <1>1
  <2>3. Typed(b)
    <3> HIDE DEF found
    <3> QED
      BY <1>1, <1>2, <2>2, TensorType
  <2>4. \E data : t = [b EXCEPT !.data = data]
    BY <2>1 DEF TypedTensor
  <2>5. b = [datatype |-> b.datatype, n_rows |-> b.n_rows, n_cols |-> b.n_cols, data |-> b.data]
    BY DEF Tensor
  <2> HIDE DEF b
  <2> QED
    BY <2>3, <2>4, <2>5 DEF Typed
<1> QED
  BY <1>1, <1>4, <1>5, <1>6, <1>7

\* Where a handler has a request it is one of those, and its tensors have their types.
TypesInv ==
  /\ phase = "idle" <=> request = NoRequest
  /\ phase # "idle" => next \in 0 .. Len(request.inputs)
  /\ \A name \in DOMAIN tensors : Typed(tensors[name])

LEMMA InitTypesInv == Init => TypesInv
BY EmptyDomain DEF Init, TypesInv

LEMMA PutTypes ==
  ASSUME CodecInv, TypesInv, phase = "decoding", next < Len(request.inputs),
         ~Unreadable(next + 1), NEW t \in Made(next + 1), Put(request.inputs[next + 1].name, t)
  PROVE  TypesInv'
<1>1. /\ request \in Requests /\ next \in Nat /\ Len(request.inputs) \in Nat
      /\ DOMAIN request.inputs = 1 .. Len(request.inputs)
  BY RequestType DEF CodecInv, Taken
<1>2. Typed(t)
  BY <1>1, MadeType
<1>3. /\ request' = request /\ phase' = phase /\ next' = next + 1
      /\ tensors' = [n \in DOMAIN tensors \union {request.inputs[next + 1].name} |->
                       IF n = request.inputs[next + 1].name THEN t ELSE tensors[n]]
  BY DEF Put
<1>4. \A name \in DOMAIN tensors' : Typed(tensors'[name])
  BY <1>2, <1>3 DEF TypesInv
<1>5. phase' # "idle" /\ request' # NoRequest /\ next' \in 0 .. Len(request'.inputs)
  BY <1>1, <1>3, RequestsAssumption
<1> QED
  BY <1>4, <1>5 DEF TypesInv, Typed

LEMMA TypesInvNext == CodecInv /\ TypesInv /\ [Next]_vars => TypesInv'
<1> SUFFICES ASSUME CodecInv, TypesInv, [Next]_vars
             PROVE  TypesInv'
  OBVIOUS
<1>1. CASE Receive
  <2>1. /\ request' \in Requests /\ phase' = "decoding" /\ next' = 0 /\ tensors' = << >>
        /\ Len(request'.inputs) \in Nat
    BY <1>1, RequestType DEF Receive, CodecInv
  <2>2. request' # NoRequest
    BY <2>1, RequestsAssumption
  <2> QED
    BY <2>1, <2>2, EmptyDomain DEF TypesInv
<1>2. ASSUME Refuse, phase = "decoding"
      PROVE  TypesInv'
  <2>1. phase' = "refused" /\ tensors' = << >> /\ UNCHANGED <<request, next>>
    BY <1>2 DEF Refuse
  <2> QED
    BY <1>2, <2>1, EmptyDomain DEF TypesInv
<1>3. CASE JsonInput
  <2>1. phase = "decoding" /\ request.protocol = "json"
    BY <1>3 DEF JsonInput
  <2>2. CASE Refuse
    BY <1>2, <2>1, <2>2
  <2>3. CASE ~Refuse
    <3>1. /\ next < Len(request.inputs) /\ ~JsonRefuses(request.inputs[next + 1])
          /\ \E t \in JsonTensors(request.inputs[next + 1]) :
               Put(request.inputs[next + 1].name, t)
      BY <1>3, <2>3 DEF JsonInput
    <3>2. ~Unreadable(next + 1) /\ Made(next + 1) = JsonTensors(request.inputs[next + 1])
      BY <2>1, <3>1 DEF Unreadable, Made
    <3> QED
      BY <2>1, <3>1, <3>2, PutTypes
  <2> QED
    BY <2>2, <2>3
<1>4. CASE GrpcInput
  <2>1. phase = "decoding" /\ request.protocol = "grpc" /\ next < Len(request.inputs)
    BY <1>4 DEF GrpcInput
  <2>2. CASE Refuse
    BY <1>2, <2>1, <2>2
  <2>3. CASE ~Refuse
    <3>1. /\ request.inputs[next + 1].datatype \in Datatypes
          /\ Put(request.inputs[next + 1].name,
                 GrpcTensor(request.inputs, request.raws, next + 1))
      BY <1>4, <2>3 DEF GrpcInput
    <3>2. /\ ~Unreadable(next + 1)
          /\ GrpcTensor(request.inputs, request.raws, next + 1) \in Made(next + 1)
      BY <2>1, <3>1 DEF Unreadable, Made
    <3> QED
      BY <2>1, <3>1, <3>2, PutTypes
  <2> QED
    BY <2>2, <2>3
<1>5. CASE FinishDecoding \/ Predict \/ EmitNext \/ FinishEncoding
  BY <1>5 DEF FinishDecoding, Predict, EmitNext, FinishEncoding, decoding, TypesInv
<1>6. CASE UNCHANGED vars
  BY <1>6 DEF vars, TypesInv
<1> QED
  BY <1>1, <1>3, <1>4, <1>5, <1>6 DEF Next, Over

LEMMA TypesFollow == CodecInv /\ TypesInv /\ EncodeInv => TypeOK
<1> SUFFICES ASSUME CodecInv, TypesInv, EncodeInv
             PROVE  TypeOK
  OBVIOUS
<1>1. phase \in {"idle", "decoding", "decoded", "encoding", "replied", "refused"}
  BY DEF CodecInv
<1>2. CASE phase \in {"encoding", "replied"}
  <2>1. /\ outputs \in Results /\ specs \in Specs
        /\ todo \in Seq(DOMAIN outputs \union Range(specs))
        /\ Len(response.raws) <= Len(response.outs)
    BY <1>2 DEF EncodeInv, Emitted, Paired
  <2>2. Range(todo) \subseteq DOMAIN outputs \union Range(specs)
    <3> DEFINE S == DOMAIN outputs \union Range(specs)
    <3>1. \A k \in DOMAIN todo : todo[k] \in S
      BY <2>1
    <3> QED
      BY <3>1, Zenon DEF Range
  <2> QED
    BY <1>1, <2>1, <2>2 DEF TypeOK, TypesInv, Typed
<1>3. CASE phase \notin {"encoding", "replied"}
  <2>1. /\ outputs = <<>> /\ specs = <<>> /\ todo = <<>>
        /\ response = [outs |-> <<>>, raws |-> <<>>]
    BY <1>3 DEF EncodeInv
  <2>2. Range(todo) = {} /\ Len(response.raws) <= Len(response.outs)
    BY <2>1 DEF Range
  <2> QED
    BY <1>1, <2>1, <2>2 DEF TypeOK, TypesInv, Typed
<1> QED
  BY <1>2, <1>3

-------------------------------------------------------------------------------
(* Theorems *)

\* A request is refused only if its body or one of its inputs cannot be read, and
\* accepted only if all can; then there is a tensor for each name, and it is what
\* the last input with that name makes.
LastInputCounts ==
  /\ phase = "refused" =>
       request.body = "bad" \/ \E i \in DOMAIN request.inputs : Unreadable(i)
  /\ Decoded =>
       /\ \A i \in DOMAIN request.inputs : ~Unreadable(i)
       /\ DOMAIN tensors = { request.inputs[i].name : i \in DOMAIN request.inputs }
       /\ \A name \in DOMAIN tensors : \A i \in DOMAIN request.inputs :
            IsLast(i, name) => tensors[name] \in Made(i)

LEMMA CodecInvCounts == CodecInv => LastInputCounts
<1> SUFFICES ASSUME CodecInv, Decoded
             PROVE  /\ \A i \in DOMAIN request.inputs : ~Unreadable(i)
                    /\ DOMAIN tensors = { request.inputs[i].name : i \in DOMAIN request.inputs }
                    /\ \A name \in DOMAIN tensors : \A i \in DOMAIN request.inputs :
                         IsLast(i, name) => tensors[name] \in Made(i)
  BY DEF CodecInv, LastInputCounts
<1>1. Taken /\ request \in Requests /\ next = Len(request.inputs)
  BY DEF CodecInv, Decoded
<1>2. DOMAIN request.inputs = 1 .. next
  BY <1>1, RequestType
<1>3. \A name, i : i \in DOMAIN request.inputs /\ IsLast(i, name) =>
                   LastSoFar(i) /\ request.inputs[i].name = name
  BY <1>2 DEF IsLast, LastSoFar
<1> QED
  BY <1>1, <1>2, <1>3 DEF Taken

\* The decoders read the inputs of a request in order, and nothing but the last
\* input of a name is left of those that had it.
THEOREM LastInputCountsAlways == Spec => []LastInputCounts
BY InitCodecInv, CodecInvNext, CodecInvCounts, PTL DEF Spec

\* Every variable of the codec keeps its type: a tensor that was decoded has a known
\* datatype, what is left to emit is declared or returned, and no response has more
\* raw buffers than outputs.
THEOREM TypeCorrect == Spec => []TypeOK
<1>1. Init => CodecInv /\ TypesInv /\ EncodeInv
  BY InitCodecInv, InitTypesInv, InitEncodeInv
<1>2. CodecInv /\ TypesInv /\ EncodeInv /\ [Next]_vars => (CodecInv /\ TypesInv /\ EncodeInv)'
  BY CodecInvNext, TypesInvNext, EncodeInvNext
<1> QED
  BY <1>1, <1>2, TypesFollow, PTL DEF Spec

LEMMA CountedAsMeant == CodecInv => DecodedAsMeant
<1> SUFFICES ASSUME CodecInv
             PROVE  DecodedAsMeant
  OBVIOUS
<1>1. LastInputCounts
  BY CodecInvCounts
<1>2. ASSUME Decoded, NEW name \in DOMAIN tensors, NEW i \in DOMAIN request.inputs,
             IsLast(i, name), Carried(i), Holds(request.inputs[i].shape, Len(Sent(i)))
      PROVE  StandsFor(tensors[name], i)
  <2>1. tensors[name] \in Made(i)
    BY <1>1, <1>2 DEF LastInputCounts
  <2>2. request \in Requests
    BY <1>2 DEF CodecInv, Decoded
  <2> QED
    BY <1>2, <2>1, <2>2, MadeAsMeant
<1> QED
  BY <1>1, <1>2 DEF LastInputCounts, DecodedAsMeant

\* Whatever form the values of an input came in, JSON, typed contents or raw
\* contents, and whichever dimension was left open: if the values are in the range
\* of the datatype, of 8 to 64 bits, so that no cast changes them, and the
\* dimensions are ints with room for them, the tensor is what they stand for. A
\* request is refused only if part of it cannot be read.
THEOREM DecodedAsMeantAlways == Spec => []DecodedAsMeant
BY InitCodecInv, CodecInvNext, CountedAsMeant, PTL DEF Spec

LEMMA CountedFits == CodecInv => TypedFits
<1> SUFFICES ASSUME CodecInv, Decoded, request.protocol = "grpc", NEW name \in DOMAIN tensors,
                    NEW i \in DOMAIN request.inputs, IsLast(i, name), ~Raw(i),
                    request.inputs[i].datatype \in Copied
             PROVE  Len(tensors[name].data) = tensors[name].n_rows * tensors[name].n_cols
  BY DEF TypedFits
<1>1. request.inputs[i] \in Input /\ Fit(request.inputs[i].shape)
  <2>1. request \in Requests
    BY DEF CodecInv, Decoded
  <2> QED
    BY <2>1, InputType
<1>2. tensors[name] = TypedTensor(request.inputs[i])
  BY CodecInvCounts DEF LastInputCounts, Made, GrpcTensor, Raw
<1> QED
  BY <1>1, <1>2, TypedTensorFits

\* However many values a client sends and whatever shape it announces, static or
\* with dynamic dimensions, typed contents of a copied datatype become a buffer of
\* exactly rows times columns elements, never more and never less.
THEOREM TypedFitsAlways == Spec => []TypedFits
BY InitCodecInv, CodecInvNext, CountedFits, PTL DEF Spec

\* A response has every declared output the model returned, once and in the declared
\* order. The server's own decoders make of it what the model returned, over JSON of
\* each output of strings or of finite FP32 or FP64, over gRPC if all outputs are
\* dense or all are strings. Integers, BOOL and FP16 do not come back over JSON.
THEOREM EchoDecodesAlways == Spec => []EchoDecodes
<1>1. CodecInv /\ EncodeInv /\ [Next]_vars => (CodecInv /\ EncodeInv)'
  BY CodecInvNext, EncodeInvNext
<1> QED
  BY <1>1, InitCodecInv, InitEncodeInv, EchoesDecode, PTL DEF Spec
===============================================================================
