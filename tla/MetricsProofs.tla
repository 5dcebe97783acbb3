----------------------------- MODULE MetricsProofs -----------------------------
(***************************************************************************)
(* Proofs about Metrics, for any number of recordings and series, any bounds  *)
(* of the buckets and any number of scrapes.                                 *)
(***************************************************************************)
EXTENDS Metrics, SequenceTheorems, DataLemmas

-------------------------------------------------------------------------------
(* Counters and the lines of a page *)

LEMMA CellsAre ==
  \A cell : cell \in Cells <=>
    \/ cell \in {<<"success", 0>>, <<"error", 0>>, <<"timeouts", 0>>}
    \/ \E h \in Histograms, i \in 0 .. Len(Bounds) + 1 : cell = <<h, i>>
BY DEF Cells

LEMMA BoundsLength == Len(Bounds) \in Nat /\ DOMAIN Bounds = 1 .. Len(Bounds)
BY BoundsAssumption

\* The five families.
LEMMA FamiliesAre ==
  /\ Len(Families) = 5
  /\ Families[1] = << <<"success", 0>>, <<"error", 0>> >>
  /\ Families[2] = << <<"timeouts", 0>> >>
  /\ Families[3] = Lines("duration")
  /\ Families[4] = Lines("batch_size")
  /\ Families[5] = Lines("queue_wait")
BY DEF Families

LEMMA LinesAre ==
  ASSUME NEW h
  PROVE  /\ Len(Lines(h)) = Len(Bounds) + 2
         /\ \A c \in 1 .. Len(Bounds) + 2 :
              Lines(h)[c] = <<h, IF c = Len(Bounds) + 2 THEN 0 ELSE c>>
<1>1. Len(Bounds) + 2 \in Nat
  BY BoundsLength
<1> QED
  BY <1>1 DEF Lines

\* How long each family is, and the counter of each of its lines.
LEMMA FamilyLines ==
  ASSUME NEW f \in 1 .. 5
  PROVE  /\ Len(Families[f]) \in Nat \ {0}
         /\ \A c \in 1 .. Len(Families[f]) :
              /\ f = 1 => Families[f][c] = IF c = 1 THEN <<"success", 0>> ELSE <<"error", 0>>
              /\ f = 1 => c \in 1 .. 2
              /\ f = 2 => Families[f][c] = <<"timeouts", 0>> /\ c = 1
              /\ f \in 3 .. 5 =>
                   /\ c \in 1 .. Len(Bounds) + 2
                   /\ Families[f][c] =
                        << IF f = 3 THEN "duration" ELSE IF f = 4 THEN "batch_size"
                           ELSE "queue_wait", IF c = Len(Bounds) + 2 THEN 0 ELSE c >>
<1>1. CASE f = 1
  <2>1. Len(Families[f]) = 2 /\ Families[f][1] = <<"success", 0>> /\ Families[f][2] = <<"error", 0>>
    BY <1>1, FamiliesAre
  <2> QED
    BY <1>1, <2>1
<1>2. CASE f = 2
  <2>1. Len(Families[f]) = 1 /\ Families[f][1] = <<"timeouts", 0>>
    BY <1>2, FamiliesAre
  <2> QED
    BY <1>2, <2>1
<1>3. CASE f \in 3 .. 5
  <2> DEFINE h == IF f = 3 THEN "duration" ELSE IF f = 4 THEN "batch_size" ELSE "queue_wait"
  <2>1. Families[f] = Lines(h)
    BY <1>3, FamiliesAre
  <2> HIDE DEF h
  <2>2. /\ Len(Families[f]) = Len(Bounds) + 2
        /\ \A c \in 1 .. Len(Bounds) + 2 :
             Families[f][c] = <<h, IF c = Len(Bounds) + 2 THEN 0 ELSE c>>
    BY <2>1, LinesAre
  <2> QED
    BY <1>3, <2>2, BoundsLength DEF h
<1> QED
  BY <1>1, <1>2, <1>3

\* A line is the c-th of the family f.
IsLine(f, c) == f \in 1 .. 5 /\ c \in 1 .. Len(Families[f])

LEMMA LineIsCell ==
  ASSUME NEW f, NEW c, IsLine(f, c)
  PROVE  Families[f][c] \in Cells
<1>1. f \in 1 .. 5 /\ c \in 1 .. Len(Families[f])
  BY DEF IsLine
<1>2. CASE f = 1
  <2>1. Families[f][c] \in {<<"success", 0>>, <<"error", 0>>}
    BY <1>1, <1>2, FamilyLines
  <2> QED
    BY <2>1, CellsAre
<1>4. CASE f = 2
  <2>1. Families[f][c] = <<"timeouts", 0>>
    BY <1>1, <1>4, FamilyLines
  <2> QED
    BY <2>1, CellsAre
<1>3. CASE f \in 3 .. 5
  <2> DEFINE h == IF f = 3 THEN "duration" ELSE IF f = 4 THEN "batch_size" ELSE "queue_wait"
             i == IF c = Len(Bounds) + 2 THEN 0 ELSE c
  <2>1. Families[f][c] = <<h, i>> /\ c \in 1 .. Len(Bounds) + 2
    BY <1>1, <1>3, FamilyLines
  <2>2. h \in Histograms /\ i \in 0 .. Len(Bounds) + 1
    BY <2>1, BoundsLength DEF Histograms
  <2> HIDE DEF h, i
  <2> QED
    BY <2>1, <2>2 DEF Cells
<1> QED
  BY <1>1, <1>2, <1>3, <1>4

LEMMA CellIsLine ==
  ASSUME NEW cell \in Cells
  PROVE  \E f, c : IsLine(f, c) /\ Families[f][c] = cell
<1>1. CASE cell \in {<<"success", 0>>, <<"error", 0>>}
  <2>1. Len(Families[1]) = 2 /\ Families[1][1] = <<"success", 0>> /\ Families[1][2] = <<"error", 0>>
    BY FamiliesAre
  <2>2. IsLine(1, 1) /\ IsLine(1, 2)
    BY <2>1 DEF IsLine
  <2> QED
    BY <1>1, <2>1, <2>2
<1>2. CASE cell = <<"timeouts", 0>>
  <2>1. Len(Families[2]) = 1 /\ Families[2][1] = <<"timeouts", 0>>
    BY FamiliesAre
  <2>2. IsLine(2, 1)
    BY <2>1 DEF IsLine
  <2> QED
    BY <1>2, <2>1, <2>2
<1>3. ASSUME NEW h \in Histograms, NEW i \in 0 .. Len(Bounds) + 1, cell = <<h, i>>
      PROVE  \E f, c : IsLine(f, c) /\ Families[f][c] = cell
  <2> DEFINE c == IF i = 0 THEN Len(Bounds) + 2 ELSE i
  <2>1. PICK f \in 3 .. 5 : Families[f] = Lines(h)
    BY FamiliesAre DEF Histograms
  <2>2. c \in 1 .. Len(Bounds) + 2 /\ i = IF c = Len(Bounds) + 2 THEN 0 ELSE c
    BY BoundsLength
  <2> HIDE DEF c
  <2>3. IsLine(f, c) /\ Families[f][c] = <<h, i>>
    BY <2>1, <2>2, LinesAre DEF IsLine
  <2> QED
    BY <1>3, <2>3
<1> QED
  BY <1>1, <1>2, <1>3, CellsAre

\* The name and the number of a line's counter.
Parts(f, c) ==
  /\ f \in 1 .. 5 /\ c \in 1 .. Len(Families[f])
  /\ f = 1 => c \in 1 .. 2 /\ Families[f][c][1] = (IF c = 1 THEN "success" ELSE "error")
  /\ f = 2 => c = 1 /\ Families[f][c][1] = "timeouts"
  /\ f = 3 => Families[f][c][1] = "duration"
  /\ f = 4 => Families[f][c][1] = "batch_size"
  /\ f = 5 => Families[f][c][1] = "queue_wait"
  /\ f < 3 => Families[f][c][2] = 0
  /\ f >= 3 => /\ c \in 1 .. Len(Bounds) + 2
               /\ Families[f][c][2] = (IF c = Len(Bounds) + 2 THEN 0 ELSE c)

LEMMA LineParts ==
  ASSUME NEW f, NEW c, IsLine(f, c)
  PROVE  Parts(f, c)
<1>1. f \in 1 .. 5 /\ c \in 1 .. Len(Families[f])
  BY DEF IsLine
<1>2. CASE f = 1
  BY <1>1, <1>2, FamilyLines DEF Parts
<1>3. CASE f = 2
  BY <1>1, <1>3, FamilyLines DEF Parts
<1>4. CASE f = 3
  BY <1>1, <1>4, FamilyLines DEF Parts
<1>5. CASE f = 4
  BY <1>1, <1>5, FamilyLines DEF Parts
<1>6. CASE f = 5
  BY <1>1, <1>6, FamilyLines DEF Parts
<1> QED
  BY <1>1, <1>2, <1>3, <1>4, <1>5, <1>6

\* No counter is on two lines.
LEMMA LinesDiffer ==
  ASSUME NEW f, NEW c, NEW g, NEW d, IsLine(f, c), IsLine(g, d),
         Families[f][c] = Families[g][d]
  PROVE  f = g /\ c = d
<1>1. Families[f][c][1] = Families[g][d][1] /\ Families[f][c][2] = Families[g][d][2]
  OBVIOUS
<1>2. Parts(f, c) /\ Parts(g, d)
  BY LineParts
<1>3. f = g
  BY <1>1, <1>2 DEF Parts
<1>4. CASE f >= 3
  <2>1. /\ c \in 1 .. Len(Bounds) + 2 /\ Families[f][c][2] = (IF c = Len(Bounds) + 2 THEN 0 ELSE c)
        /\ d \in 1 .. Len(Bounds) + 2 /\ Families[f][d][2] = (IF d = Len(Bounds) + 2 THEN 0 ELSE d)
    BY <1>2, <1>3, <1>4 DEF Parts
  <2> QED
    BY <1>1, <1>3, <2>1, BoundsLength
<1>5. CASE f = 2
  BY <1>2, <1>3, <1>5 DEF Parts
<1>6. CASE f = 1
  BY <1>1, <1>2, <1>3, <1>6 DEF Parts
<1> QED
  BY <1>2, <1>3, <1>4, <1>5, <1>6 DEF Parts

\* A bucket but the first has the one below it on the line above.
LEMMA LineAbove ==
  ASSUME NEW f, NEW c, IsLine(f, c), Families[f][c][2] > 1
  PROVE  IsLine(f, c - 1)
         /\ Families[f][c - 1] = <<Families[f][c][1], Families[f][c][2] - 1>>
<1>1. f \in 3 .. 5 /\ c \in 1 .. Len(Bounds) + 2 /\ c > 1 /\ c # Len(Bounds) + 2
  BY LineParts, BoundsLength DEF Parts
<1>2. PICK h : Families[f] = Lines(h)
  BY <1>1, FamiliesAre
<1>3. c - 1 \in 1 .. Len(Bounds) + 2 /\ c - 1 # Len(Bounds) + 2
  BY <1>1, BoundsLength
<1>4. Families[f][c] = <<h, c>> /\ Families[f][c - 1] = <<h, c - 1>>
      /\ Len(Families[f]) = Len(Bounds) + 2
  BY <1>1, <1>2, <1>3, LinesAre
<1> QED
  BY <1>1, <1>3, <1>4 DEF IsLine

-------------------------------------------------------------------------------
(* Calls and what they add *)

LEMMA BucketType ==
  ASSUME NEW v \in Nat
  PROVE  Bucket(v) \in 1 .. Len(Bounds) + 1
<1> DEFINE below == {i \in DOMAIN Bounds : Bounds[i] < v}
<1>1. IsFiniteSet(1 .. Len(Bounds)) /\ Cardinality(1 .. Len(Bounds)) = Len(Bounds)
  BY BoundsLength, IntervalFinite
<1>2. below \subseteq 1 .. Len(Bounds)
  BY BoundsLength
<1> HIDE DEF below
<1>3. IsFiniteSet(below) /\ Cardinality(below) <= Cardinality(1 .. Len(Bounds))
  BY <1>1, <1>2, FS_Subset
<1>4. Cardinality(below) \in Nat
  BY <1>3, FS_CardinalityType
<1>5. Bucket(v) = 1 + Cardinality(below)
  BY DEF Bucket, below
<1> QED
  BY <1>1, <1>3, <1>4, <1>5, BoundsLength

Addition == [cell : Cells, by : Nat]

LEMMA PlusType ==
  ASSUME NEW cell \in Cells, NEW by \in Nat
  PROVE  Plus(cell, by) \in Addition
BY DEF Plus, Addition

LEMMA ObserveType ==
  ASSUME NEW h \in Histograms, NEW v \in Nat
  PROVE  Observe(h, v) \in Seq(Addition) /\ Len(Observe(h, v)) = 2
<1>1. <<h, Bucket(v)>> \in Cells /\ <<h, 0>> \in Cells
  <2>1. Bucket(v) \in 1 .. Len(Bounds) + 1 /\ Len(Bounds) \in Nat
    BY BucketType, BoundsLength, Zenon
  <2>2. \A n \in Nat : \A i \in 1 .. n + 1 : i \in 0 .. n + 1 /\ 0 \in 0 .. n + 1
    OBVIOUS
  <2>3. Bucket(v) \in 0 .. Len(Bounds) + 1 /\ 0 \in 0 .. Len(Bounds) + 1
    BY <2>1, <2>2, Zenon
  <2> QED
    BY <2>3, Zenon DEF Cells
<1>2. Plus(<<h, Bucket(v)>>, 1) \in Addition /\ Plus(<<h, 0>>, v) \in Addition
  BY <1>1, PlusType
<1> QED
  BY <1>2 DEF Observe

LEMMA AdditionsType ==
  ASSUME NEW c \in Calls
  PROVE  Additions(c) \in Seq(Addition) /\ Additions(c) # <<>>
<1>1. c.value \in Nat
        /\ c.kind \in {"success", "error", "flush", "wait", "rejected", "timeout"}
  <2>1. CASE c \in [series : Series, kind : {"success", "error", "flush", "wait"}, value : Values]
    BY <2>1, BoundsAssumption
  <2>2. CASE c \in [series : Series, kind : {"rejected", "timeout"}, value : {0}]
    BY <2>2
  <2> QED
    BY <2>1, <2>2 DEF Calls
<1>2. \A k \in {"success", "error", "timeouts"} : Plus(<<k, 0>>, 1) \in Addition
  BY PlusType DEF Cells
<1>3. \A h \in Histograms : Observe(h, c.value) \in Seq(Addition) /\ Len(Observe(h, c.value)) = 2
  BY <1>1, ObserveType
<1>4. CASE c.kind \in {"success", "error"}
  <2> DEFINE one == << Plus(<<c.kind, 0>>, 1) >>
             two == Observe("duration", c.value)
  <2>1. one \in Seq(Addition) /\ Len(one) = 1
    BY <1>2, <1>4
  <2>2. two \in Seq(Addition) /\ Len(two) = 2
    BY <1>3 DEF Histograms
  <2>3. Additions(c) = one \o two
    BY <1>4 DEF Additions
  <2> HIDE DEF one, two
  <2>4. one \o two \in Seq(Addition) /\ Len(one \o two) = 3
    <3>1. one \o two \in Seq(Addition) /\ Len(one \o two) = Len(one) + Len(two)
      BY <2>1, <2>2, ConcatProperties, Zenon
    <3> QED
      BY <2>1, <2>2, <3>1
  <2> QED
    BY <2>3, <2>4
<1>5. CASE c.kind \in {"rejected", "timeout"}
  <2>1. Additions(c) \in {<< Plus(<<"error", 0>>, 1) >>, << Plus(<<"timeouts", 0>>, 1) >>}
    BY <1>5 DEF Additions
  <2>2. Plus(<<"error", 0>>, 1) \in Addition /\ Plus(<<"timeouts", 0>>, 1) \in Addition
    BY <1>2
  <2>3. \A x \in Addition : <<x>> \in Seq(Addition) /\ <<x>> # <<>>
    OBVIOUS
  <2>4. /\ << Plus(<<"error", 0>>, 1) >> \in Seq(Addition) /\ << Plus(<<"error", 0>>, 1) >> # <<>>
        /\ << Plus(<<"timeouts", 0>>, 1) >> \in Seq(Addition)
        /\ << Plus(<<"timeouts", 0>>, 1) >> # <<>>
    BY <2>2, <2>3, Zenon
  <2> QED
    BY <2>1, <2>4, Zenon
<1>6. CASE c.kind \in {"flush", "wait"}
  <2>1. Additions(c) \in {Observe("batch_size", c.value), Observe("queue_wait", c.value)}
    BY <1>6 DEF Additions
  <2> QED
    BY <1>3, <2>1 DEF Histograms
<1> QED
  BY <1>1, <1>4, <1>5, <1>6

-------------------------------------------------------------------------------
(* The inductive invariant *)

NoCallYet == [series |-> NoSeries, kind |-> "none", value |-> 0]

Stages == {"new", "find", "make", "add", "done"}

\* Who adds has a series to add to, and something to add.
RecorderInv ==
  /\ what \in [Recordings -> Calls \union {NoCallYet}]
  /\ stage \in [Recordings -> Stages]
  /\ todo \in [Recordings -> Seq(Addition)]
  /\ \A r \in Recordings : stage[r] # "new" => what[r] \in Calls
  /\ \A r \in Recordings : stage[r] \in {"find", "make", "add"} => todo[r] # <<>>
  /\ \A r \in Recordings : stage[r] = "add" => what[r].series \in DOMAIN store

StoreInv ==
  /\ DOMAIN store \subseteq Series /\ store \in [DOMAIN store -> [Cells -> Nat]]
  /\ IsFiniteSet(DOMAIN store)

\* The places of the page for the series there are, and those already written.
IsPlace(f, s, c) == IsLine(f, c) /\ s \in 1 .. Len(order)

Earlier(f, s, c) ==
  \/ f < at.family
  \/ f = at.family /\ s < at.series
  \/ f = at.family /\ s = at.series /\ c < at.cell

Placed ==
  /\ at \in [family : 1 .. 6, series : Nat \ {0}, cell : Nat \ {0}]
  /\ More => IsPlace(at.family, at.series, at.cell)

Ordered ==
  /\ order \in Seq(DOMAIN store)
  /\ \A i, j \in 1 .. Len(order) : order[i] = order[j] => i = j
  /\ \A s \in DOMAIN store : \E i \in 1 .. Len(order) : order[i] = s

\* The page has exactly the lines before the place the scrape is at.
Written ==
  \A key : key \in DOMAIN page <=>
    \E f, s, c : IsPlace(f, s, c) /\ Earlier(f, s, c) /\ key = <<order[s], Families[f][c]>>

Counted ==
  /\ DOMAIN before = DOMAIN store /\ before \in [DOMAIN before -> [Cells -> Nat]]
  /\ \A s \in DOMAIN store, cell \in Cells : before[s][cell] <= store[s][cell]

Scraping ==
  /\ Placed /\ Ordered /\ Written /\ Counted
  /\ page \in [DOMAIN page -> Nat] /\ PageIsCurrent

Resting == order = <<>> /\ at = At(1, 1, 1) /\ page = <<>> /\ before = <<>>

MetricsInv ==
  /\ RecorderInv /\ StoreInv
  /\ scraping \in BOOLEAN
  /\ scraping => Scraping
  /\ ~scraping => Resting

-------------------------------------------------------------------------------
(* Recorders *)

LEMMA ZeroType == Zero \in [Cells -> Nat]
BY DEF Zero

\* A recording changes no counter but upwards, and no series goes away; while the
\* lock is held shared none is added.
Grows ==
  /\ DOMAIN store \subseteq DOMAIN store'
  /\ \A s \in DOMAIN store, cell \in Cells : store[s][cell] <= store'[s][cell]
  /\ scraping => DOMAIN store' = DOMAIN store

LEMMA SameGrows ==
  ASSUME StoreInv, UNCHANGED store
  PROVE  Grows /\ StoreInv'
<1>1. \A s \in DOMAIN store, cell \in Cells : store[s][cell] \in Nat
  BY DEF StoreInv
<1> QED
  BY <1>1 DEF Grows, StoreInv

LEMMA BeginStep ==
  ASSUME RecorderInv, StoreInv, NEW r \in Recordings, NEW c \in Calls, Begin(r, c)
  PROVE  RecorderInv' /\ StoreInv' /\ Grows /\ UNCHANGED scrape
<1>1. UNCHANGED <<store, scrape>>
  BY DEF Begin
<1>2. Additions(c) \in Seq(Addition) /\ Additions(c) # <<>>
  BY AdditionsType
<1>3. /\ stage' = [stage EXCEPT ![r] = "find"] /\ what' = [what EXCEPT ![r] = c]
      /\ todo' = [todo EXCEPT ![r] = Additions(c)]
  BY DEF Begin, Goes
<1>4. RecorderInv'
  BY <1>1, <1>2, <1>3 DEF RecorderInv, Stages
<1> QED
  BY <1>1, <1>4, SameGrows

LEMMA FindStep ==
  ASSUME RecorderInv, StoreInv, NEW r \in Recordings, Find(r)
  PROVE  RecorderInv' /\ StoreInv' /\ Grows /\ UNCHANGED scrape
<1>1. /\ UNCHANGED <<store, what, todo, scrape>> /\ stage[r] = "find"
      /\ stage' = [stage EXCEPT ![r] = IF what[r].series \in DOMAIN store THEN "add" ELSE "make"]
  BY DEF Find, Goes, Known
<1>2. RecorderInv'
  BY <1>1 DEF RecorderInv, Stages
<1> QED
  BY <1>1, <1>2, SameGrows

LEMMA MakeStep ==
  ASSUME RecorderInv, StoreInv, NEW r \in Recordings, Make(r)
  PROVE  RecorderInv' /\ StoreInv' /\ Grows /\ UNCHANGED scrape
<1> DEFINE s == what[r].series
<1>1. /\ UNCHANGED <<what, todo, scrape>> /\ stage[r] = "make" /\ ~scraping
      /\ stage' = [stage EXCEPT ![r] = "add"]
      /\ store' = IF s \in DOMAIN store THEN store ELSE Created(s)
  BY DEF Make, Goes, Known
<1>2. what[r] \in Calls
  BY <1>1 DEF RecorderInv
<1>3. s \in Series
  BY <1>2 DEF Calls
<1> HIDE DEF s
<1>4. CASE s \in DOMAIN store
  <2>1. UNCHANGED store
    BY <1>1, <1>4
  <2>2. RecorderInv'
    BY <1>1, <1>4, <2>1 DEF RecorderInv, Stages, s
  <2> QED
    BY <1>1, <2>1, <2>2, SameGrows
<1>5. CASE s \notin DOMAIN store
  <2>1. store' = [t \in DOMAIN store \union {s} |-> IF t = s THEN Zero ELSE store[t]]
    BY <1>1, <1>5 DEF Created
  <2>2. DOMAIN store' = DOMAIN store \union {s} /\ DOMAIN store \subseteq DOMAIN store'
    BY <2>1
  <2>3. \A t \in DOMAIN store : store'[t] = store[t]
    BY <1>5, <2>1
  <2>4. store'[s] = Zero
    BY <2>1
  <2>5. IsFiniteSet(DOMAIN store')
    BY <2>2, FS_AddElement DEF StoreInv
  <2>6. store' \in [DOMAIN store' -> [Cells -> Nat]]
    BY <2>1, <2>2, ZeroType DEF StoreInv
  <2>7. StoreInv'
    BY <1>3, <2>2, <2>5, <2>6 DEF StoreInv
  <2>8. Grows
    <3>1. \A t \in DOMAIN store, cell \in Cells : store[t][cell] \in Nat
      BY DEF StoreInv
    <3> QED
      BY <1>1, <2>2, <2>3, <3>1 DEF Grows
  <2>9. RecorderInv'
    BY <1>1, <2>2 DEF RecorderInv, Stages, s
  <2> QED
    BY <1>1, <2>7, <2>8, <2>9
<1> QED
  BY <1>4, <1>5

LEMMA AddStep ==
  ASSUME RecorderInv, StoreInv, NEW r \in Recordings, Add(r)
  PROVE  RecorderInv' /\ StoreInv' /\ Grows /\ UNCHANGED scrape
<1> DEFINE s == what[r].series
           a == Head(todo[r])
<1>1. /\ UNCHANGED <<what, scrape>> /\ stage[r] = "add"
      /\ stage' = [stage EXCEPT ![r] = IF Len(todo[r]) = 1 THEN "done" ELSE "add"]
      /\ store' = [store EXCEPT ![s][a.cell] = @ + a.by]
      /\ todo' = [todo EXCEPT ![r] = Tail(todo[r])]
  BY DEF Add, Goes, RecorderInv
<1>2. todo[r] \in Seq(Addition) /\ todo[r] # <<>> /\ s \in DOMAIN store
  BY <1>1 DEF RecorderInv
<1>3. a \in Addition /\ Tail(todo[r]) \in Seq(Addition)
      /\ (Len(todo[r]) # 1 => Tail(todo[r]) # <<>>)
  <2>1. ASSUME NEW S, NEW q \in Seq(S), q # <<>>
        PROVE  /\ Head(q) \in S /\ Tail(q) \in Seq(S)
               /\ Len(q) \in Nat /\ Len(Tail(q)) = Len(q) - 1
    BY <2>1
  <2>2. ASSUME NEW S, NEW q \in Seq(S), q # <<>>, Len(q) # 1
        PROVE  Tail(q) # <<>>
    <3>1. Len(q) \in Nat /\ Len(Tail(q)) = Len(q) - 1
      BY <2>1, <2>2, Zenon
    <3>2. Len(Tail(q)) # 0
      BY <2>2, <3>1
    <3>3. Len(<< >>) = 0
      OBVIOUS
    <3> QED
      BY <3>2, <3>3, Zenon
  <2> QED
    BY <1>2, <2>1, <2>2, Zenon
<1>4. a.cell \in Cells /\ a.by \in Nat
  BY <1>3 DEF Addition
<1> HIDE DEF s, a
<1>5. DOMAIN store' = DOMAIN store
  BY <1>1
<1>6. \A t \in DOMAIN store, cell \in Cells :
        store[t][cell] \in Nat
        /\ store'[t][cell] = IF t = s /\ cell = a.cell THEN store[t][cell] + a.by ELSE store[t][cell]
  BY <1>1, <1>2, <1>4 DEF StoreInv
<1>7. store' \in [DOMAIN store' -> [Cells -> Nat]]
  BY <1>1, <1>2, <1>4 DEF StoreInv
<1>8. StoreInv'
  BY <1>5, <1>7 DEF StoreInv
<1>9. Grows
  BY <1>4, <1>5, <1>6 DEF Grows
<1>10. RecorderInv'
  <2>1. todo' \in [Recordings -> Seq(Addition)] /\ stage' \in [Recordings -> Stages]
    BY <1>1, <1>3 DEF RecorderInv, Stages
  <2>2. \A q \in Recordings : q # r => stage'[q] = stage[q] /\ todo'[q] = todo[q]
    BY <1>1 DEF RecorderInv
  <2>3. stage'[r] \in {"add", "done"} /\ (stage'[r] = "add" => todo'[r] # <<>>)
    BY <1>1, <1>3 DEF RecorderInv
  <2> QED
    BY <1>1, <1>5, <2>1, <2>2, <2>3 DEF RecorderInv
<1> QED
  BY <1>1, <1>8, <1>9, <1>10

-------------------------------------------------------------------------------
(* The scrape *)

\* What is written belongs to a series there is, and so does the line above it.
LEMMA PageKeys ==
  ASSUME Placed, Ordered, Written, NEW key \in DOMAIN page
  PROVE  /\ key[1] \in DOMAIN store /\ key[2] \in Cells
         /\ key[2][2] > 1 => Above(key) \in DOMAIN page
<1>1. PICK f, s, c : IsPlace(f, s, c) /\ Earlier(f, s, c) /\ key = <<order[s], Families[f][c]>>
  BY DEF Written
<1>2. IsLine(f, c) /\ s \in 1 .. Len(order)
  BY <1>1 DEF IsPlace
<1>3. order[s] \in DOMAIN store
  BY <1>2 DEF Ordered
<1>4. Families[f][c] \in Cells
  BY <1>2, LineIsCell
<1>5. ASSUME key[2][2] > 1
      PROVE  Above(key) \in DOMAIN page
  <2>1. IsLine(f, c - 1) /\ Families[f][c - 1] = <<key[2][1], key[2][2] - 1>>
    BY <1>1, <1>2, <1>5, LineAbove
  <2>2. IsPlace(f, s, c - 1)
    BY <1>2, <2>1 DEF IsPlace
  <2>3. c \in Nat /\ c - 1 \in Nat
    BY <1>2, <2>1, FamilyLines DEF IsLine
  <2>4. Earlier(f, s, c - 1)
    BY <1>1, <2>3 DEF Earlier, Placed
  <2>5. Above(key) = <<order[s], Families[f][c - 1]>>
    BY <1>1, <2>1 DEF Above
  <2> QED
    BY <2>2, <2>4, <2>5 DEF Written
<1> QED
  BY <1>1, <1>3, <1>4, <1>5

LEMMA OwnType ==
  ASSUME Placed, Ordered, Written, page \in [DOMAIN page -> Nat], NEW key \in DOMAIN page
  PROVE  Own(key) \in Int
<1>1. page[key] \in Nat /\ (key[2][2] > 1 => page[Above(key)] \in Nat)
  BY PageKeys
<1> QED
  BY <1>1 DEF Own

\* What recorders do leaves a scrape in order.
LEMMA ScrapeStays ==
  ASSUME StoreInv, StoreInv', Grows, UNCHANGED scrape,
         scraping \in BOOLEAN, scraping => Scraping, ~scraping => Resting
  PROVE  scraping' \in BOOLEAN /\ (scraping => Scraping)' /\ (~scraping => Resting)'
<1>1. CASE ~scraping
  BY <1>1 DEF scrape, Resting, At
<1>2. CASE scraping
  <2>1. UNCHANGED <<scraping, order, at, page, before>> /\ DOMAIN store' = DOMAIN store
    BY <1>2 DEF scrape, Grows
  <2>2. Placed' /\ Ordered' /\ Written'
    BY <1>2, <2>1 DEF Scraping, Placed, More, IsPlace, IsLine, Ordered, Written, Earlier
  <2>3. \A s \in DOMAIN store, cell \in Cells :
          /\ before[s][cell] \in Nat /\ store[s][cell] \in Nat /\ store'[s][cell] \in Nat
          /\ before[s][cell] <= store[s][cell] /\ store[s][cell] <= store'[s][cell]
    BY <1>2, <2>1 DEF Scraping, Counted, Grows, StoreInv
  <2>4. Counted'
    BY <1>2, <2>1, <2>3 DEF Scraping, Counted
  <2>5. \A key \in DOMAIN page : key[1] \in DOMAIN store /\ key[2] \in Cells
    BY <1>2, PageKeys DEF Scraping
  <2>6. PageIsCurrent'
    <3> SUFFICES ASSUME NEW key \in DOMAIN page
                 PROVE  /\ before[key[1]][key[2]] <= Own(key)
                        /\ Own(key) <= store'[key[1]][key[2]]
      BY <2>1 DEF PageIsCurrent, Own, Above
    <3>1. before[key[1]][key[2]] <= Own(key) /\ Own(key) <= store[key[1]][key[2]]
      BY <1>2 DEF Scraping, PageIsCurrent
    <3>2. Own(key) \in Int
      BY <1>2, OwnType DEF Scraping
    <3> QED
      BY <2>3, <2>5, <3>1, <3>2
  <2> QED
    BY <1>2, <2>1, <2>2, <2>4, <2>6 DEF Scraping
<1> QED
  BY <1>1, <1>2

\* SetToSeqs gives every order of the series, each once.
LEMMA OrderIs ==
  ASSUME IsFiniteSet(DOMAIN store), order' \in SetToSeqs(DOMAIN store),
         UNCHANGED store
  PROVE  Ordered'
<1> DEFINE n == Cardinality(DOMAIN store)
<1>1. n \in Nat
  BY FS_CardinalityType
<1>2. order' \in [1 .. n -> DOMAIN store]
      /\ \A i, j \in 1 .. n : order'[i] = order'[j] => i = j
  BY DEF SetToSeqs
<1> HIDE DEF n
<1>3. order' \in Injection(1 .. n, DOMAIN store)
  BY <1>2 DEF Injection, IsInjective
<1>4. IsFiniteSet(1 .. n) /\ Cardinality(1 .. n) = n
  <2>1. 1 \in Int /\ n \in Int
    BY <1>1
  <2>2. IsFiniteSet(1 .. n) /\ Cardinality(1 .. n) = IF 1 > n THEN 0 ELSE n - 1 + 1
    BY <2>1, FS_Interval, Zenon
  <2> QED
    BY <1>1, <2>2
<1>5. order' \in Surjection(1 .. n, DOMAIN store)
  BY <1>3, <1>4, FS_Injection, Zenon DEF n
<1>6. \A s \in DOMAIN store : \E i \in 1 .. n : order'[i] = s
  BY <1>5 DEF Surjection
<1>7. order' \in Seq(DOMAIN store) /\ Len(order') = n
  BY <1>1, <1>2
<1> QED
  BY <1>2, <1>6, <1>7 DEF Ordered

LEMMA BeginScrapeStep ==
  ASSUME StoreInv, ~scraping => Resting, BeginScrape
  PROVE  scraping' = TRUE /\ Scraping'
<1>1. /\ ~scraping /\ scraping' = TRUE /\ order' \in SetToSeqs(DOMAIN store)
      /\ page' = <<>> /\ before' = store /\ UNCHANGED <<store, at>>
  BY DEF BeginScrape
<1>2. at' = At(1, 1, 1)
  BY <1>1 DEF Resting
<1>3. Ordered'
  BY <1>1, OrderIs DEF StoreInv
<1>4. IsLine(1, 1)
  BY FamilyLines DEF IsLine
<1>5. Placed'
  <2>1. at'.family = 1 /\ at'.series = 1 /\ at'.cell = 1
        /\ at' \in [family : 1 .. 6, series : Nat \ {0}, cell : Nat \ {0}]
    BY <1>2 DEF At
  <2>2. order' # <<>> => 1 \in 1 .. Len(order')
    BY <1>3 DEF Ordered
  <2> QED
    BY <1>4, <2>1, <2>2 DEF Placed, More, IsPlace
<1>6. \A f, s, c : ~(IsPlace(f, s, c) /\ Earlier(f, s, c))'
  <2> SUFFICES ASSUME NEW f, NEW s, NEW c, (IsPlace(f, s, c) /\ Earlier(f, s, c))'
               PROVE  FALSE
    OBVIOUS
  <2>1. f \in 1 .. 5 /\ c \in 1 .. Len(Families[f]) /\ s \in 1 .. Len(order')
    BY DEF IsPlace, IsLine
  <2>2. f >= 1 /\ s >= 1 /\ c >= 1
    BY <1>3, <2>1, FamilyLines DEF Ordered
  <2> QED
    BY <1>2, <2>1, <2>2, <1>3, FamilyLines DEF Earlier, At, Ordered
<1>7. DOMAIN page' = {}
  BY <1>1, EmptyDomain
<1>8. Written'
  BY <1>6, <1>7 DEF Written
<1>9. \A s \in DOMAIN store, cell \in Cells : store[s][cell] \in Nat
  BY DEF StoreInv
<1>10. Counted'
  BY <1>1, <1>9 DEF Counted, StoreInv
<1>11. PageIsCurrent' /\ page' \in [DOMAIN page' -> Nat]
  BY <1>1, <1>7 DEF PageIsCurrent
<1> QED
  BY <1>1, <1>3, <1>5, <1>8, <1>10, <1>11 DEF Scraping

\* The line a scrape is at comes right after those it has written.
LEMMA OnwardIs ==
  ASSUME Placed, More, order \in Seq(DOMAIN store), UNCHANGED order, at' = Onward
  PROVE  /\ Placed'
         /\ \A f, s, c : IsPlace(f, s, c) =>
              (Earlier(f, s, c)' <=>
                 Earlier(f, s, c) \/ (f = at.family /\ s = at.series /\ c = at.cell))
<1> DEFINE f0 == at.family
           s0 == at.series
           c0 == at.cell
           last == Len(Families[f0])
<1>1. /\ at = At(f0, s0, c0) /\ f0 \in 1 .. 5 /\ s0 \in 1 .. Len(order) /\ c0 \in 1 .. last
      /\ last \in Nat \ {0} /\ Len(order) \in Nat
  BY FamilyLines DEF Placed, At, IsPlace, IsLine
<1>2. \A f, s, c : IsPlace(f, s, c) =>
        /\ f \in 1 .. 5 /\ c \in Nat \ {0} /\ s \in 1 .. Len(order)
        /\ f = f0 => c <= last
  BY FamilyLines DEF IsPlace, IsLine
<1>3. \A f \in 1 .. 5 : IsLine(f, 1)
  <2>1. \A f \in 1 .. 5 : 1 \in 1 .. Len(Families[f])
    BY FamilyLines
  <2> QED
    BY <2>1 DEF IsLine
<1>7. \A f, s, c : Earlier(f, s, c) <=>
        f < f0 \/ (f = f0 /\ s < s0) \/ (f = f0 /\ s = s0 /\ c < c0)
  BY DEF Earlier
<1> HIDE DEF f0, s0, c0, last
<1>4. CASE c0 < last
  <2>1. at' = At(f0, s0, c0 + 1)
    BY <1>4 DEF Onward, f0, s0, c0, last
  <2>2. at'.family = f0 /\ at'.series = s0 /\ at'.cell = c0 + 1
        /\ at' \in [family : 1 .. 6, series : Nat \ {0}, cell : Nat \ {0}]
    BY <1>1, <2>1 DEF At
  <2>3. IsLine(f0, c0 + 1)
    BY <1>1, <1>4 DEF IsLine, last
  <2>4. Placed'
    BY <1>1, <2>2, <2>3 DEF Placed, IsPlace
  <2>5. \A f, s, c : Earlier(f, s, c)' <=>
          f < f0 \/ (f = f0 /\ s < s0) \/ (f = f0 /\ s = s0 /\ c < c0 + 1)
    BY <2>2 DEF Earlier
  <2>6. ASSUME NEW f, NEW s, NEW c, IsPlace(f, s, c)
        PROVE  Earlier(f, s, c)' <=> Earlier(f, s, c) \/ (f = f0 /\ s = s0 /\ c = c0)
    <3>1. /\ f \in 1 .. 5 /\ c \in Nat \ {0} /\ s \in 1 .. Len(order)
          /\ f = f0 => c <= last
      BY <1>2, <2>6
    <3>2. Earlier(f, s, c) <=> f < f0 \/ (f = f0 /\ s < s0) \/ (f = f0 /\ s = s0 /\ c < c0)
      BY <1>7
    <3> QED
      BY <1>1, <1>4, <2>5, <3>1, <3>2
  <2> QED
    BY <2>4, <2>6 DEF f0, s0, c0
<1>5. CASE ~(c0 < last) /\ s0 < Len(order)
  <2>1. at' = At(f0, s0 + 1, 1)
    BY <1>5 DEF Onward, f0, s0, c0, last
  <2>2. at'.family = f0 /\ at'.series = s0 + 1 /\ at'.cell = 1
        /\ at' \in [family : 1 .. 6, series : Nat \ {0}, cell : Nat \ {0}]
    BY <1>1, <2>1 DEF At
  <2>3. IsLine(f0, 1) /\ s0 + 1 \in 1 .. Len(order)
    BY <1>1, <1>3, <1>5
  <2>4. Placed'
    BY <2>2, <2>3 DEF Placed, IsPlace
  <2>5. \A f, s, c : Earlier(f, s, c)' <=>
          f < f0 \/ (f = f0 /\ s < s0 + 1) \/ (f = f0 /\ s = s0 + 1 /\ c < 1)
    BY <2>2 DEF Earlier
  <2>6. ASSUME NEW f, NEW s, NEW c, IsPlace(f, s, c)
        PROVE  Earlier(f, s, c)' <=> Earlier(f, s, c) \/ (f = f0 /\ s = s0 /\ c = c0)
    <3>1. /\ f \in 1 .. 5 /\ c \in Nat \ {0} /\ s \in 1 .. Len(order)
          /\ f = f0 => c <= last
      BY <1>2, <2>6
    <3>2. Earlier(f, s, c) <=> f < f0 \/ (f = f0 /\ s < s0) \/ (f = f0 /\ s = s0 /\ c < c0)
      BY <1>7
    <3> QED
      BY <1>1, <1>5, <2>5, <3>1, <3>2
  <2> QED
    BY <2>4, <2>6 DEF f0, s0, c0
<1>6. CASE ~(c0 < last) /\ ~(s0 < Len(order))
  <2>1. at' = At(f0 + 1, 1, 1)
    BY <1>6 DEF Onward, f0, s0, c0, last
  <2>2. at'.family = f0 + 1 /\ at'.series = 1 /\ at'.cell = 1
        /\ at' \in [family : 1 .. 6, series : Nat \ {0}, cell : Nat \ {0}]
    BY <1>1, <2>1 DEF At
  <2>3. More' => IsLine(f0 + 1, 1) /\ 1 \in 1 .. Len(order)
    <3>1. More' => f0 + 1 <= 5
      BY <2>2, FamiliesAre DEF More
    <3> QED
      BY <1>1, <1>3, <3>1
  <2>4. Placed'
    BY <2>2, <2>3 DEF Placed, IsPlace
  <2>5. \A f, s, c : Earlier(f, s, c)' <=>
          f < f0 + 1 \/ (f = f0 + 1 /\ s < 1) \/ (f = f0 + 1 /\ s = 1 /\ c < 1)
    BY <2>2 DEF Earlier
  <2>6. ASSUME NEW f, NEW s, NEW c, IsPlace(f, s, c)
        PROVE  Earlier(f, s, c)' <=> Earlier(f, s, c) \/ (f = f0 /\ s = s0 /\ c = c0)
    <3>1. /\ f \in 1 .. 5 /\ c \in Nat \ {0} /\ s \in 1 .. Len(order)
          /\ f = f0 => c <= last
      BY <1>2, <2>6
    <3>2. Earlier(f, s, c) <=> f < f0 \/ (f = f0 /\ s < s0) \/ (f = f0 /\ s = s0 /\ c < c0)
      BY <1>7
    <3> QED
      BY <1>1, <1>6, <2>5, <3>1, <3>2
  <2> QED
    BY <2>4, <2>6 DEF f0, s0, c0
<1> QED
  BY <1>4, <1>5, <1>6

LEMMA ReadStep ==
  ASSUME StoreInv, scraping, Scraping, Read
  PROVE  UNCHANGED <<store, scraping>> /\ Scraping'
<1> DEFINE cumsum == IF Key[2][2] > 1 THEN page[Above(Key)] ELSE 0
           counter == store[Key[1]][Key[2]]
<1>1. /\ More /\ UNCHANGED <<store, scraping, order, before>> /\ at' = Onward
      /\ page' = Rendered(Key, cumsum + counter)
  BY DEF Read
<1>2. Placed /\ Ordered /\ Written /\ Counted /\ page \in [DOMAIN page -> Nat] /\ PageIsCurrent
  BY DEF Scraping
<1>3. IsPlace(at.family, at.series, at.cell)
  BY <1>1, <1>2 DEF Placed
<1>4. Key[1] = order[at.series] /\ Key[2] = Families[at.family][at.cell]
      /\ Key = <<Key[1], Key[2]>>
  BY DEF Key
<1>5. Key[1] \in DOMAIN store /\ Key[2] \in Cells
  BY <1>2, <1>3, <1>4, LineIsCell DEF IsPlace, Ordered
<1>6. counter \in Nat
  BY <1>5 DEF StoreInv
<1>7. /\ Placed'
      /\ \A f, s, c : IsPlace(f, s, c) =>
           (Earlier(f, s, c)' <=>
              Earlier(f, s, c) \/ (f = at.family /\ s = at.series /\ c = at.cell))
  BY <1>1, <1>2, OnwardIs DEF Ordered
<1>8. ~Earlier(at.family, at.series, at.cell)
  BY <1>2 DEF Placed, Earlier
<1>9. \A f, s, c : IsPlace(f, s, c) /\ <<order[s], Families[f][c]>> = Key =>
        f = at.family /\ s = at.series /\ c = at.cell
  <2> SUFFICES ASSUME NEW f, NEW s, NEW c, IsPlace(f, s, c),
                      <<order[s], Families[f][c]>> = Key
               PROVE  f = at.family /\ s = at.series /\ c = at.cell
    OBVIOUS
  <2>1. order[s] = order[at.series] /\ Families[f][c] = Families[at.family][at.cell]
    BY <1>4
  <2>2. s = at.series
    BY <1>2, <1>3, <2>1 DEF IsPlace, Ordered
  <2>3. IsLine(f, c) /\ IsLine(at.family, at.cell)
    BY <1>3 DEF IsPlace
  <2> QED
    BY <2>1, <2>2, <2>3, LinesDiffer
<1>10. Key \notin DOMAIN page
  BY <1>2, <1>8, <1>9 DEF Written
<1>11. Key[2][2] > 1 => Above(Key) \in DOMAIN page
  <2> SUFFICES ASSUME Key[2][2] > 1
               PROVE  Above(Key) \in DOMAIN page
    OBVIOUS
  <2>1. IsLine(at.family, at.cell)
    BY <1>3 DEF IsPlace
  <2>2. IsLine(at.family, at.cell - 1)
        /\ Families[at.family][at.cell - 1] = <<Key[2][1], Key[2][2] - 1>>
    BY <1>4, <2>1, LineAbove
  <2>3. IsPlace(at.family, at.series, at.cell - 1)
    BY <1>3, <2>2 DEF IsPlace
  <2>4. Earlier(at.family, at.series, at.cell - 1)
    BY <1>2 DEF Earlier, Placed
  <2>5. Above(Key) = <<order[at.series], Families[at.family][at.cell - 1]>>
    BY <1>4, <2>2 DEF Above
  <2> QED
    BY <1>2, <2>3, <2>4, <2>5 DEF Written
<1>12. cumsum \in Nat
  BY <1>2, <1>11
<1>13. /\ DOMAIN page' = DOMAIN page \union {Key} /\ page'[Key] = cumsum + counter
       /\ \A key \in DOMAIN page : page'[key] = page[key]
  <2> HIDE DEF cumsum, counter
  <2> QED
    BY <1>1, <1>10 DEF Rendered
<1>14. page' \in [DOMAIN page' -> Nat]
  <2>1. page' = [k \in DOMAIN page \union {Key} |-> IF k = Key THEN cumsum + counter ELSE page[k]]
    BY <1>1 DEF Rendered
  <2> HIDE DEF cumsum, counter
  <2> QED
    BY <1>2, <1>6, <1>12, <2>1
<1>15. Written'
  <2>1. \A f, s, c : IsPlace(f, s, c)' <=> IsPlace(f, s, c)
    BY <1>1 DEF IsPlace
  <2>2. ASSUME NEW key
        PROVE  key \in DOMAIN page \union {Key} <=>
                 \E f, s, c : /\ IsPlace(f, s, c) /\ key = <<order[s], Families[f][c]>>
                              /\ Earlier(f, s, c)
                                   \/ (f = at.family /\ s = at.series /\ c = at.cell)
    <3>1. key \in DOMAIN page =>
            \E f, s, c : IsPlace(f, s, c) /\ Earlier(f, s, c) /\ key = <<order[s], Families[f][c]>>
      BY <1>2 DEF Written
    <3>2. (\E f, s, c : IsPlace(f, s, c) /\ Earlier(f, s, c) /\ key = <<order[s], Families[f][c]>>)
            => key \in DOMAIN page
      BY <1>2 DEF Written
    <3> QED
      BY <1>3, <1>4, <3>1, <3>2, Zenon
  <2>3. \A key : key \in DOMAIN page' <=>
          \E f, s, c : /\ IsPlace(f, s, c)' /\ key = <<order[s], Families[f][c]>>
                       /\ Earlier(f, s, c)'
    BY <1>7, <1>13, <2>1, <2>2
  <2> QED
    BY <1>1, <2>3 DEF Written
<1>16. Ordered' /\ Counted'
  BY <1>1, <1>2 DEF Ordered, Counted
<1>17. ASSUME NEW key \in DOMAIN page'
       PROVE  before[key[1]][key[2]] <= Own(key)' /\ Own(key)' <= store[key[1]][key[2]]
  <2>1. CASE key \in DOMAIN page
    <3>1. key[2][2] > 1 => Above(key) \in DOMAIN page
      BY <1>2, <2>1, PageKeys
    <3>2. Own(key)' = Own(key)
      BY <1>13, <2>1, <3>1 DEF Own, Above
    <3> QED
      BY <1>2, <2>1, <3>2 DEF PageIsCurrent
  <2>2. CASE key = Key
    <3>1. Key[2][2] > 1 => page'[Above(Key)] = page[Above(Key)]
      BY <1>11, <1>13
    <3>2. Own(key)' = (cumsum + counter) - (IF key[2][2] > 1 THEN page'[Above(key)] ELSE 0)
      BY <1>13, <2>2 DEF Own, Above
    <3>3. Own(key)' = (cumsum + counter) - cumsum
      BY <2>2, <3>1, <3>2
    <3>4. Own(key)' = counter
      <4> HIDE DEF cumsum, counter
      <4> QED
        BY <1>6, <1>12, <3>3
    <3>5. before[Key[1]][Key[2]] <= counter
      BY <1>2, <1>5 DEF Counted
    <3> QED
      BY <1>6, <2>2, <3>4, <3>5
  <2> QED
    BY <1>13, <2>1, <2>2
<1>18. PageIsCurrent'
  BY <1>1, <1>17 DEF PageIsCurrent
<1> QED
  BY <1>1, <1>7, <1>14, <1>15, <1>16, <1>18 DEF Scraping

-------------------------------------------------------------------------------
(* The inductive invariant, and what follows from it *)

LEMMA InvInit == Init => MetricsInv
<1> SUFFICES ASSUME Init
             PROVE  MetricsInv
  OBVIOUS
<1>1. \A r \in Recordings : what[r] = NoCallYet /\ stage[r] = "new" /\ todo[r] = <<>>
  BY DEF Init, NoCallYet
<1>2. RecorderInv
  BY <1>1 DEF Init, RecorderInv, Stages, NoCallYet
<1>3. DOMAIN store = {}
  BY EmptyDomain DEF Init
<1>4. StoreInv
  <2>1. IsFiniteSet({})
    BY FS_EmptySet
  <2>2. store \in [{} -> [Cells -> Nat]]
    BY DEF Init
  <2> QED
    BY <1>3, <2>1, <2>2 DEF StoreInv
<1>5. scraping = FALSE /\ Resting
  BY DEF Init, Resting
<1> QED
  BY <1>2, <1>4, <1>5 DEF MetricsInv

LEMMA InvNext == MetricsInv /\ [Next]_vars => MetricsInv'
<1> SUFFICES ASSUME MetricsInv, [Next]_vars
             PROVE  MetricsInv'
  OBVIOUS
<1>0. /\ RecorderInv /\ StoreInv /\ scraping \in BOOLEAN
      /\ scraping => Scraping
      /\ ~scraping => Resting
  BY DEF MetricsInv
<1>1. ASSUME RecorderInv', StoreInv', Grows, UNCHANGED scrape
      PROVE  MetricsInv'
  BY <1>0, <1>1, ScrapeStays DEF MetricsInv
<1>2. ASSUME NEW r \in Recordings, (\E c \in Calls : Begin(r, c)) \/ Find(r) \/ Make(r) \/ Add(r)
      PROVE  MetricsInv'
  BY <1>0, <1>1, <1>2, BeginStep, FindStep, MakeStep, AddStep
<1>3. ASSUME UNCHANGED <<store, what, stage, todo>>
      PROVE  RecorderInv' /\ StoreInv'
  BY <1>0, <1>3 DEF RecorderInv, StoreInv
<1>4. CASE BeginScrape
  <2>1. UNCHANGED <<store, what, stage, todo>>
    BY <1>4 DEF BeginScrape
  <2>2. scraping' = TRUE /\ Scraping'
    BY <1>0, <1>4, BeginScrapeStep
  <2> QED
    BY <1>3, <2>1, <2>2 DEF MetricsInv
<1>5. CASE Read
  <2>1. UNCHANGED <<what, stage, todo>> /\ scraping
    BY <1>5 DEF Read
  <2>2. UNCHANGED <<store, scraping>> /\ Scraping'
    BY <1>0, <1>5, <2>1, ReadStep
  <2> QED
    BY <1>0, <1>3, <2>1, <2>2 DEF MetricsInv
<1>6. CASE EndScrape
  <2>1. UNCHANGED <<store, what, stage, todo>> /\ scraping' = FALSE
    BY <1>6 DEF EndScrape
  <2>2. Resting'
    BY <1>6 DEF EndScrape, Resting, At
  <2> QED
    BY <1>3, <2>1, <2>2 DEF MetricsInv
<1>7. CASE UNCHANGED vars
  <2>1. UNCHANGED <<store, scrape>> /\ RecorderInv'
    BY <1>0, <1>7 DEF vars, scrape, RecorderInv
  <2> QED
    BY <1>0, <1>1, <2>1, SameGrows
<1> QED
  BY <1>2, <1>4, <1>5, <1>6, <1>7 DEF Next

\* What recorders and a scrape may rely on holds in every reachable state: who adds
\* has a series, and the page has exactly the lines before the place it is at.
THEOREM MetricsInvariant == Spec => []MetricsInv
BY InvInit, InvNext, PTL DEF Spec

\* Every variable keeps its type; each addition goes to a counter that exists.
THEOREM MetricsTypeCorrect == Spec => []TypeOK
<1>1. MetricsInv => TypeOK
  <2> SUFFICES ASSUME MetricsInv
               PROVE  TypeOK
    OBVIOUS
  <2>1. /\ RecorderInv /\ StoreInv /\ scraping \in BOOLEAN
        /\ scraping => Scraping
        /\ ~scraping => Resting
    BY DEF MetricsInv
  <2>2. /\ DOMAIN what = Recordings /\ stage \in [Recordings -> Stages]
        /\ todo \in [Recordings -> Seq(Addition)]
    BY <2>1 DEF RecorderInv
  <2>3. /\ order \in Seq(Series)
        /\ at \in [family : 1 .. Len(Families) + 1, series : Nat \ {0}, cell : Nat \ {0}]
        /\ DOMAIN page \subseteq Series \X Cells /\ page \in [DOMAIN page -> Nat]
        /\ DOMAIN before \subseteq Series /\ before \in [DOMAIN before -> [Cells -> Nat]]
    <3>1. CASE scraping
      <4>1. Placed /\ Ordered /\ Written /\ Counted /\ page \in [DOMAIN page -> Nat]
        BY <2>1, <3>1 DEF Scraping
      <4>2. Len(Families) + 1 = 6
        BY FamiliesAre
      <4>3. order \in Seq(Series)
        BY <2>1, <4>1 DEF Ordered, StoreInv
      <4>4. DOMAIN page \subseteq Series \X Cells
        <5> SUFFICES ASSUME NEW key \in DOMAIN page
                     PROVE  key \in Series \X Cells
          OBVIOUS
        <5>1. key[1] \in Series /\ key[2] \in Cells
          BY <2>1, <4>1, PageKeys DEF StoreInv
        <5>2. \E x, y : key = <<x, y>>
          BY <4>1 DEF Written
        <5> QED
          BY <5>1, <5>2
      <4> QED
        BY <2>1, <4>1, <4>2, <4>3, <4>4 DEF Placed, Counted, StoreInv
    <3>2. CASE ~scraping
      <4>1. order = <<>> /\ at = At(1, 1, 1) /\ page = <<>> /\ before = <<>>
        BY <2>1, <3>2 DEF Resting
      <4>2. DOMAIN page = {} /\ DOMAIN before = {}
        BY <4>1, EmptyDomain
      <4>3. Len(Families) + 1 = 6
        BY FamiliesAre
      <4>4. order \in Seq(Series) /\ page \in [{} -> Nat] /\ before \in [{} -> [Cells -> Nat]]
        BY <4>1
      <4> QED
        BY <4>1, <4>2, <4>3, <4>4 DEF At
    <3> QED
      BY <3>1, <3>2
  <2> QED
    BY <2>1, <2>2, <2>3 DEF TypeOK, StoreInv, Stages, Addition
<1> QED
  BY <1>1, MetricsInvariant, PTL

\* However a scrape and recorders interleave, a line of the page shows a value its
\* counter had between the beginning of the scrape and now.
THEOREM PageIsCurrentAlways == Spec => []PageIsCurrent
<1>1. MetricsInv => PageIsCurrent
  <2> SUFFICES ASSUME MetricsInv
               PROVE  PageIsCurrent
    OBVIOUS
  <2>1. CASE scraping
    BY <2>1 DEF MetricsInv, Scraping
  <2>2. CASE ~scraping
    <3>1. DOMAIN page = {}
      BY <2>2, EmptyDomain DEF MetricsInv, Resting
    <3> QED
      BY <3>1 DEF PageIsCurrent
  <2> QED
    BY <2>1, <2>2 DEF MetricsInv
<1> QED
  BY <1>1, MetricsInvariant, PTL

\* A page that is finished has every counter of every series that existed when the
\* scrape began, and of no other.
THEOREM PageIsCompleteAlways == Spec => []PageIsComplete
<1>1. MetricsInv => PageIsComplete
  <2> SUFFICES ASSUME MetricsInv, scraping
               PROVE  /\ DOMAIN store = DOMAIN before
                      /\ ~More => DOMAIN page = (DOMAIN before) \X Cells
    BY DEF PageIsComplete
  <2>1. Placed /\ Ordered /\ Written /\ DOMAIN before = DOMAIN store
    BY DEF MetricsInv, Scraping, Counted
  <2>2. ASSUME ~More, NEW key
        PROVE  key \in DOMAIN page <=> key \in (DOMAIN store) \X Cells
    <3>1. ASSUME key \in DOMAIN page
          PROVE  key \in (DOMAIN store) \X Cells
      <4>1. key[1] \in DOMAIN store /\ key[2] \in Cells
        BY <2>1, <3>1, PageKeys
      <4>2. \E x, y : key = <<x, y>>
        BY <2>1, <3>1 DEF Written
      <4> QED
        BY <4>1, <4>2
    <3>2. ASSUME key \in (DOMAIN store) \X Cells
          PROVE  key \in DOMAIN page
      <4>1. PICK name \in DOMAIN store, cell \in Cells : key = <<name, cell>>
        BY <3>2
      <4>2. PICK s \in 1 .. Len(order) : order[s] = name
        BY <2>1, <4>1 DEF Ordered
      <4>3. PICK f, c : IsLine(f, c) /\ Families[f][c] = cell
        BY <4>1, CellIsLine
      <4>4. IsPlace(f, s, c)
        BY <4>2, <4>3 DEF IsPlace
      <4>5. at.family > 5
        <5>1. order # <<>>
          BY <2>1, <4>2 DEF Ordered
        <5>2. ~(at.family <= Len(Families)) /\ at.family \in 1 .. 6
          BY <2>1, <2>2, <5>1 DEF More, Placed
        <5> QED
          BY <5>2, FamiliesAre
      <4>6. Earlier(f, s, c)
        BY <2>1, <4>3, <4>5 DEF Earlier, IsLine, Placed
      <4>7. key = <<order[s], Families[f][c]>>
        BY <4>1, <4>2, <4>3
      <4> QED
        BY <2>1, <4>4, <4>6, <4>7 DEF Written
    <3> QED
      BY <3>1, <3>2
  <2>3. ~More => DOMAIN page = (DOMAIN store) \X Cells
    BY <2>2
  <2> QED
    BY <2>1, <2>3
<1> QED
  BY <1>1, MetricsInvariant, PTL

\* No counter ever goes back, and no series is replaced once it exists, however many
\* threads create it at once.
THEOREM CountersNeverGoBack ==
  Spec => [][ \A s \in DOMAIN store :
                /\ s \in DOMAIN store'
                /\ \A cell \in Cells : store[s][cell] <= store'[s][cell] ]_store
<1>1. MetricsInv /\ [Next]_vars =>
        [ \A s \in DOMAIN store :
            /\ s \in DOMAIN store'
            /\ \A cell \in Cells : store[s][cell] <= store'[s][cell] ]_store
  <2> SUFFICES ASSUME MetricsInv, Next, store' # store
               PROVE  Grows
    BY DEF Grows, vars
  <2>1. RecorderInv /\ StoreInv
    BY DEF MetricsInv
  <2> QED
    BY <2>1, BeginStep, FindStep, MakeStep, AddStep DEF Next, BeginScrape, Read, EndScrape
<1> QED
  BY <1>1, MetricsInvariant, PTL DEF Spec

-------------------------------------------------------------------------------
(* What the calls add up to *)

\* What the first n additions add to cell.
Part(all, cell, n) ==
  SumFunction([i \in 1 .. n |-> IF all[i].cell = cell THEN all[i].by ELSE 0])

LEMMA PartNext ==
  ASSUME NEW all \in Seq(Addition), NEW cell
  PROVE  /\ Part(all, cell, 0) = 0
         /\ \A n \in 0 .. Len(all) : Part(all, cell, n) \in Nat
         /\ \A n \in Nat : n < Len(all) =>
              Part(all, cell, n + 1) =
                Part(all, cell, n) + (IF all[n + 1].cell = cell THEN all[n + 1].by ELSE 0)
<1> DEFINE by(i) == IF all[i].cell = cell THEN all[i].by ELSE 0
           parts(n) == [i \in 1 .. n |-> by(i)]
<1>1. Len(all) \in Nat /\ \A i \in 1 .. Len(all) : by(i) \in Nat
  <2>1. \A i \in 1 .. Len(all) : all[i] \in Addition
    OBVIOUS
  <2>2. \A a \in Addition : a.by \in Nat
    BY DEF Addition
  <2>3. \A i \in 1 .. Len(all) : all[i].by \in Nat
    BY <2>1, <2>2
  <2> QED
    BY <2>3
<1>2. \A n : Part(all, cell, n) = SumFunction(parts(n))
  BY DEF Part
<1> HIDE DEF by
<1>3. Part(all, cell, 0) = 0
  <2>1. parts(0) \in [{} -> Nat]
    OBVIOUS
  <2> HIDE DEF parts
  <2> QED
    BY <1>2, <2>1, SumEmpty
<1>4. \A n \in 0 .. Len(all) : parts(n) \in [1 .. n -> Nat]
  BY <1>1
<1>5. ASSUME NEW n \in 0 .. Len(all)
      PROVE  Part(all, cell, n) \in Nat
  <2>1. IsFiniteSet(1 .. n)
    BY IntervalFinite
  <2> HIDE DEF parts
  <2> QED
    BY <1>2, <1>4, <2>1, SumType
<1>6. ASSUME NEW n \in Nat, n < Len(all)
      PROVE  Part(all, cell, n + 1) = Part(all, cell, n) + by(n + 1)
  <2>1. IsFiniteSet(1 .. n) /\ n + 1 \notin 1 .. n /\ (1 .. n) \union {n + 1} = 1 .. n + 1
    BY IntervalFinite
  <2>2. parts(n + 1) \in [1 .. n + 1 -> Nat]
    BY <1>1, <1>6
  <2>3. /\ parts(n + 1)[n + 1] = by(n + 1) /\ parts(n) \in [1 .. n -> Nat]
        /\ \A y \in 1 .. n : parts(n)[y] = parts(n + 1)[y]
    BY <1>4, <1>6
  <2>4. Part(all, cell, n) \in Nat /\ by(n + 1) \in Nat
    BY <1>1, <1>5, <1>6
  <2> DEFINE f == parts(n + 1)
             g == parts(n)
  <2>5. SumFunction(f) = f[n + 1] + SumFunction(g)
    <3>1. SummandMore(f, g, 1 .. n, n + 1)
      BY <2>1, <2>2, <2>3 DEF SummandMore
    <3> HIDE DEF f, g, parts
    <3> QED
      BY <3>1, SumMore
  <2>6. Part(all, cell, n + 1) = by(n + 1) + Part(all, cell, n)
    <3> HIDE DEF parts
    <3> QED
      BY <1>2, <2>3, <2>5
  <2> QED
    BY <2>4, <2>6
<1> QED
  BY <1>3, <1>5, <1>6 DEF by

\* Calls of record_request.
Latency(c) == c.kind \in {"success", "error"}

LEMMA CallIs ==
  ASSUME NEW c \in Calls
  PROVE  /\ c.value \in Nat /\ c.series \in Series
         /\ c.kind \in {"success", "error", "flush", "wait", "rejected", "timeout"}
<1>1. CASE c \in [series : Series, kind : {"success", "error", "flush", "wait"}, value : Values]
  BY <1>1, BoundsAssumption
<1>2. CASE c \in [series : Series, kind : {"rejected", "timeout"}, value : {0}]
  BY <1>2
<1> QED
  BY <1>1, <1>2 DEF Calls

LEMMA LatencyAdditions ==
  ASSUME NEW c \in Calls, Latency(c)
  PROVE  LET all == Additions(c)
         IN /\ Len(all) = 3
            /\ all[1].cell = <<c.kind, 0>> /\ all[1].by = 1
            /\ all[2].cell = <<"duration", Bucket(c.value)>> /\ all[2].by = 1
            /\ all[3].cell = <<"duration", 0>>
<1>1. Additions(c) = <<Plus(<<c.kind, 0>>, 1)>> \o Observe("duration", c.value)
  BY DEF Additions, Latency
<1> DEFINE a == Plus(<<c.kind, 0>>, 1)
           b == Plus(<<"duration", Bucket(c.value)>>, 1)
           d == Plus(<<"duration", 0>>, c.value)
<1>2. Additions(c) = <<a>> \o <<b, d>>
  BY <1>1 DEF Observe
<1>3. /\ a.cell = <<c.kind, 0>> /\ a.by = 1
      /\ b.cell = <<"duration", Bucket(c.value)>> /\ b.by = 1
      /\ d.cell = <<"duration", 0>>
  BY DEF Plus
<1> HIDE DEF a, b, d
<1> DEFINE S == {a, b, d}
           one == <<a>>
           two == <<b, d>>
<1>4. one \in Seq(S) /\ two \in Seq(S) /\ Len(one) = 1 /\ Len(two) = 2
      /\ one[1] = a /\ two[1] = b /\ two[2] = d
  OBVIOUS
<1> HIDE DEF one, two, S
<1>5. /\ Len(one \o two) = 3
      /\ (one \o two)[1] = one[1] /\ (one \o two)[2] = two[1] /\ (one \o two)[3] = two[2]
  <2>1. /\ Len(one \o two) = Len(one) + Len(two)
        /\ \A i \in 1 .. Len(one) : (one \o two)[i] = one[i]
        /\ \A i \in 1 .. Len(two) : (one \o two)[Len(one) + i] = two[i]
    BY <1>4, ConcatElements
  <2>2. 1 \in 1 .. 1 /\ 1 \in 1 .. 2 /\ 2 \in 1 .. 2 /\ 1 + 1 = 2 /\ 1 + 2 = 3
    OBVIOUS
  <2> QED
    BY <1>4, <2>1, <2>2
<1> QED
  BY <1>2, <1>3, <1>4, <1>5 DEF one, two

\* No other call adds to the latency histogram.
LEMMA OtherAdditions ==
  ASSUME NEW c \in Calls, ~Latency(c)
  PROVE  \A i \in 1 .. Len(Additions(c)) : \A j : Additions(c)[i].cell # <<"duration", j>>
<1>1. c.kind \in {"flush", "wait", "rejected", "timeout"}
  BY CallIs DEF Latency
<1>2. CASE c.kind \in {"rejected", "timeout"}
  <2>1. PICK k \in {"error", "timeouts"} : Additions(c) = <<Plus(<<k, 0>>, 1)>>
    BY <1>2 DEF Additions
  <2>2. ASSUME NEW i \in 1 .. Len(Additions(c)), NEW j
        PROVE  Additions(c)[i].cell # <<"duration", j>>
    <3>1. Additions(c)[i] = Plus(<<k, 0>>, 1)
      BY <2>1
    <3>2. Additions(c)[i].cell = <<k, 0>>
      BY <3>1 DEF Plus
    <3> QED
      BY <3>2
  <2> QED
    BY <2>2
<1>3. CASE c.kind \in {"flush", "wait"}
  <2>1. PICK h \in {"batch_size", "queue_wait"} : Additions(c) = Observe(h, c.value)
    BY <1>3 DEF Additions
  <2>2. ASSUME NEW i \in 1 .. Len(Additions(c)), NEW j
        PROVE  Additions(c)[i].cell # <<"duration", j>>
    <3>1. Additions(c)[i] \in {Plus(<<h, Bucket(c.value)>>, 1), Plus(<<h, 0>>, c.value)}
      BY <2>1 DEF Observe
    <3>2. Additions(c)[i].cell \in {<<h, Bucket(c.value)>>, <<h, 0>>}
      BY <3>1 DEF Plus
    <3> QED
      BY <3>2
  <2> QED
    BY <2>2
<1> QED
  BY <1>1, <1>2, <1>3

-------------------------------------------------------------------------------
(* The counters are what the calls have added so far *)

\* What is left of a call's additions is the last of them.
IsRest(rest, all) ==
  /\ Len(rest) <= Len(all)
  /\ \A i \in 1 .. Len(rest) : rest[i] = all[(Len(all) - Len(rest)) + i]

\* How many of its additions r has made.
Made(r) == Len(Additions(what[r])) - Len(todo[r])

\* A series that calls of it are past making exists, and the others have added
\* nothing.
RestInv ==
  /\ IsFiniteSet({r \in Recordings : stage[r] # "new"})
  /\ \A r \in Recordings : stage[r] = "new" => what[r] = NoCallYet
  /\ \A r \in Recordings : stage[r] # "new" => IsRest(todo[r], Additions(what[r]))
  /\ \A r \in Recordings : stage[r] \in {"find", "make"} => todo[r] = Additions(what[r])
  /\ \A r \in Recordings : stage[r] \in {"add", "done"} => what[r].series \in DOMAIN store
  /\ \A r \in Recordings : stage[r] = "done" => todo[r] = <<>>

\* r has counted its latency, at or below the i-th bucket.
Seen(r, i) ==
  IF Latency(what[r]) /\ Len(todo[r]) <= 1 /\ Bucket(what[r].value) <= i THEN 1 ELSE 0

\* The i-th bucket of the page counts the latencies observed at or below it.
BucketsAddUp ==
  \A s \in DOMAIN store, i \in 0 .. Len(Bounds) + 1 :
    Shown(s, "duration", i) = SumFunction([r \in Of(s) |-> Seen(r, i)])

CountInv == RestInv /\ NothingLost /\ BucketsAddUp

LEMMA OfType ==
  ASSUME RecorderInv, RestInv, NEW s \in Series
  PROVE  /\ IsFiniteSet(Of(s))
         /\ \A r \in Of(s) : /\ r \in Recordings /\ stage[r] # "new" /\ what[r] \in Calls
                             /\ what[r].series = s
<1>1. \A r \in Of(s) : r \in Recordings /\ what[r].series = s
  BY DEF Of
<1>2. \A r \in Of(s) : stage[r] # "new"
  BY <1>1, NoSeriesAssumption DEF RestInv, NoCallYet
<1>3. Of(s) \subseteq {r \in Recordings : stage[r] # "new"}
  BY <1>1, <1>2
<1>4. IsFiniteSet(Of(s))
  BY <1>3, FS_Subset DEF RestInv
<1> QED
  BY <1>1, <1>2, <1>4 DEF RecorderInv

LEMMA AddedType ==
  ASSUME RecorderInv, RestInv, NEW r \in Recordings, stage[r] # "new", NEW cell
  PROVE  /\ Made(r) \in 0 .. Len(Additions(what[r]))
         /\ Added(r, cell) = Part(Additions(what[r]), cell, Made(r))
         /\ Added(r, cell) \in Nat
<1>1. what[r] \in Calls /\ todo[r] \in Seq(Addition)
  BY DEF RecorderInv
<1>2. Additions(what[r]) \in Seq(Addition)
  BY <1>1, AdditionsType
<1>3. Len(todo[r]) \in Nat /\ Len(Additions(what[r])) \in Nat
  BY <1>1, <1>2
<1>4. Len(todo[r]) <= Len(Additions(what[r]))
  BY DEF RestInv, IsRest
<1>5. Made(r) \in 0 .. Len(Additions(what[r]))
  <2>1. \A m, n \in Nat : m <= n => n - m \in 0 .. n
    OBVIOUS
  <2> QED
    BY <1>3, <1>4, <2>1, Zenon DEF Made
<1>6. Added(r, cell) = Part(Additions(what[r]), cell, Made(r))
  BY DEF Added, Part, Made
<1>7. Part(Additions(what[r]), cell, Made(r)) \in Nat
  BY <1>2, <1>5, PartNext, Zenon
<1> QED
  BY <1>5, <1>6, <1>7, Zenon

LEMMA CountsType ==
  ASSUME RecorderInv, RestInv, NEW s \in Series
  PROVE  /\ IsFiniteSet(Of(s))
         /\ \A cell : [r \in Of(s) |-> Added(r, cell)] \in [Of(s) -> Nat]
         /\ \A i : [r \in Of(s) |-> Seen(r, i)] \in [Of(s) -> {0, 1}]
         /\ \A i : [r \in Of(s) |-> Seen(r, i)] \in [Of(s) -> Nat]
<1>1. \A r \in Of(s) : \A cell : Added(r, cell) \in Nat
  BY OfType, AddedType
<1>2. \A r \in Of(s) : \A i : Seen(r, i) \in {0, 1} /\ Seen(r, i) \in Nat
  BY DEF Seen
<1> QED
  BY <1>1, <1>2, OfType

\* Who has added nothing has contributed nothing.
LEMMA NoneAdded ==
  ASSUME NEW c \in Calls
  PROVE  /\ \A cell : Part(Additions(c), cell, Len(Additions(c)) - Len(Additions(c))) = 0
         /\ \A i : ~(Latency(c) /\ Len(Additions(c)) <= 1 /\ Bucket(c.value) <= i)
<1>1. Additions(c) \in Seq(Addition)
  BY AdditionsType
<1>2. Len(Additions(c)) \in Nat
  BY <1>1
<1>3. Len(Additions(c)) - Len(Additions(c)) = 0
  BY <1>2
<1>4. \A cell : Part(Additions(c), cell, Len(Additions(c)) - Len(Additions(c))) = 0
  BY <1>1, <1>3, PartNext
<1>5. Latency(c) => Len(Additions(c)) = 3
  BY LatencyAdditions
<1>6. ~(3 <= 1)
  OBVIOUS
<1> QED
  BY <1>4, <1>5, <1>6, Zenon

LEMMA NothingAdded ==
  ASSUME RecorderInv, RestInv, NEW r \in Recordings, stage[r] \in {"find", "make"}
  PROVE  (\A cell : Added(r, cell) = 0) /\ (\A i : Seen(r, i) = 0)
<1>1. todo[r] = Additions(what[r]) /\ what[r] \in Calls
  BY DEF RestInv, RecorderInv
<1> QED
  BY <1>1, NoneAdded, Zenon DEF Added, Part, Seen

\* Sums of the same contributions.
LEMMA SameCounts ==
  ASSUME NothingLost, BucketsAddUp, UNCHANGED <<store, what, todo>>
  PROVE  NothingLost' /\ BucketsAddUp'
<1>1. \A s : Of(s)' = Of(s)
  BY DEF Of
<1>2. \A r, cell : Added(r, cell)' = Added(r, cell)
  BY DEF Added
<1>3. \A r, i : Seen(r, i)' = Seen(r, i)
  BY DEF Seen
<1>4. \A s, i : Shown(s, "duration", i)' = Shown(s, "duration", i)
  BY DEF Shown
<1>5. NothingLost'
  BY <1>1, <1>2 DEF NothingLost
<1>6. BucketsAddUp'
  BY <1>1, <1>3, <1>4 DEF BucketsAddUp
<1> QED
  BY <1>5, <1>6

LEMMA BeginCounts ==
  ASSUME RecorderInv, StoreInv, CountInv, RecorderInv',
         NEW r \in Recordings, NEW c \in Calls, Begin(r, c)
  PROVE  CountInv'
<1>1. /\ stage[r] = "new" /\ stage' = [stage EXCEPT ![r] = "find"]
      /\ what' = [what EXCEPT ![r] = c] /\ todo' = [todo EXCEPT ![r] = Additions(c)]
      /\ UNCHANGED store
  BY DEF Begin, Goes
<1>2. RestInv /\ NothingLost /\ BucketsAddUp
  BY DEF CountInv
<1>3. /\ what \in [Recordings -> Calls \union {NoCallYet}] /\ stage \in [Recordings -> Stages]
      /\ todo \in [Recordings -> Seq(Addition)]
  BY DEF RecorderInv
<1>4. /\ stage'[r] = "find" /\ what'[r] = c /\ todo'[r] = Additions(c)
      /\ \A q \in Recordings \ {r} :
           stage'[q] = stage[q] /\ what'[q] = what[q] /\ todo'[q] = todo[q]
  BY <1>1, <1>3
<1>5. RestInv'
  <2>1. IsFiniteSet({q \in Recordings : stage'[q] # "new"})
    <3>1. {q \in Recordings : stage'[q] # "new"} = {q \in Recordings : stage[q] # "new"} \union {r}
      BY <1>4
    <3> QED
      BY <1>2, <3>1, FS_AddElement DEF RestInv
  <2>2. IsRest(Additions(c), Additions(c))
    <3>1. Additions(c) \in Seq(Addition)
      BY AdditionsType
    <3>2. Len(Additions(c)) \in Nat
      BY <3>1
    <3>3. \A n \in Nat : n <= n /\ \A i \in 1 .. n : (n - n) + i = i
      OBVIOUS
    <3> QED
      BY <3>2, <3>3, Zenon DEF IsRest
  <2> QED
    BY <1>1, <1>2, <1>4, <2>1, <2>2 DEF RestInv
<1>6. ASSUME NEW s \in DOMAIN store
      PROVE  /\ s \in Series /\ r \notin Of(s)
             /\ Of(s)' = IF s = c.series THEN Of(s) \union {r} ELSE Of(s)
  <2>1. s \in Series /\ s # NoSeries
    BY NoSeriesAssumption DEF StoreInv
  <2>2. r \notin Of(s)
    BY <1>1, <1>2, <2>1 DEF Of, RestInv, NoCallYet
  <2>3. ASSUME NEW q
        PROVE  q \in Of(s)' <=> q \in Of(s) \/ (q = r /\ s = c.series)
    BY <1>4, <2>2 DEF Of
  <2> QED
    BY <2>1, <2>2, <2>3
<1>7. /\ \A cell : Added(r, cell)' = 0
      /\ \A i : Seen(r, i)' = 0
      /\ \A q \in Recordings \ {r} : /\ \A cell : Added(q, cell)' = Added(q, cell)
                                     /\ \A i : Seen(q, i)' = Seen(q, i)
  <2>1. (\A cell : Added(r, cell)' = 0) /\ (\A i : Seen(r, i)' = 0)
    BY <1>4, NoneAdded, ZenonT(40) DEF Added, Part, Seen
  <2> QED
    BY <1>4, <2>1 DEF Added, Seen
<1>8. ASSUME NEW s \in DOMAIN store, NEW f \in [Of(s) -> Nat], NEW g \in [Of(s)' -> Nat],
             \A q \in Of(s) : g[q] = f[q], r \in Of(s)' => g[r] = 0
      PROVE  SumFunction(g) = SumFunction(f)
  <2>1. IsFiniteSet(Of(s)) /\ r \notin Of(s)
    BY <1>2, <1>6, OfType
  <2>2. CASE s = c.series
    <3>1. Of(s)' = Of(s) \union {r}
      BY <1>6, <2>2
    <3>2. g \in [Of(s) \union {r} -> Nat] /\ g[r] = 0
      BY <1>8, <3>1
    <3> QED
      BY <1>8, <2>1, <3>2, SumJoins
  <2>3. CASE s # c.series
    <3>1. Of(s)' = Of(s)
      BY <1>6, <2>3
    <3>2. g = f
      BY <1>8, <3>1
    <3> QED
      BY <3>2
  <2> QED
    BY <2>2, <2>3
<1>9. NothingLost'
  <2> SUFFICES ASSUME NEW s \in DOMAIN store, NEW cell \in Cells
               PROVE  store[s][cell] = SumFunction([q \in Of(s)' |-> Added(q, cell)'])
    BY <1>1 DEF NothingLost
  <2> DEFINE f == [q \in Of(s) |-> Added(q, cell)]
             g == [q \in Of(s)' |-> Added(q, cell)']
  <2>1. s \in Series /\ r \notin Of(s) /\ Of(s) \subseteq Recordings
    BY <1>6 DEF Of
  <2>2. f \in [Of(s) -> Nat]
    BY <1>2, <2>1, CountsType
  <2>3. Of(s) \subseteq Of(s)' /\ Of(s)' \subseteq Of(s) \union {r}
    BY <1>6
  <2>4. \A q \in Of(s) : g[q] = f[q]
    BY <1>7, <2>1, <2>3
  <2>5. r \in Of(s)' => g[r] = 0
    BY <1>7
  <2>6. g \in [Of(s)' -> Nat]
    <3>1. \A q \in Of(s) : f[q] \in Nat
      BY <2>2
    <3>2. DOMAIN g = Of(s)' /\ g = [q \in DOMAIN g |-> g[q]]
      OBVIOUS
    <3> HIDE DEF f, g
    <3>3. \A q \in Of(s)' : g[q] \in Nat
      BY <2>3, <2>4, <2>5, <3>1
    <3> QED
      BY <3>2, <3>3
  <2>7. store[s][cell] = SumFunction(f)
    BY <1>2 DEF NothingLost
  <2> HIDE DEF f, g
  <2>8. SumFunction(g) = SumFunction(f)
    BY <1>8, <2>2, <2>4, <2>5, <2>6
  <2> QED
    BY <2>7, <2>8 DEF g
<1>10. BucketsAddUp'
  <2> SUFFICES ASSUME NEW s \in DOMAIN store, NEW i \in 0 .. Len(Bounds) + 1
               PROVE  Shown(s, "duration", i)' = SumFunction([q \in Of(s)' |-> Seen(q, i)'])
    BY <1>1 DEF BucketsAddUp
  <2> DEFINE f == [q \in Of(s) |-> Seen(q, i)]
             g == [q \in Of(s)' |-> Seen(q, i)']
  <2>1. s \in Series /\ r \notin Of(s) /\ Of(s) \subseteq Recordings
    BY <1>6 DEF Of
  <2>2. f \in [Of(s) -> Nat]
    BY <1>2, <2>1, CountsType
  <2>3. Of(s) \subseteq Of(s)' /\ Of(s)' \subseteq Of(s) \union {r}
    BY <1>6
  <2>4. \A q \in Of(s) : g[q] = f[q]
    BY <1>7, <2>1, <2>3
  <2>5. r \in Of(s)' => g[r] = 0
    BY <1>7
  <2>6. g \in [Of(s)' -> Nat]
    <3>1. \A q \in Of(s) : f[q] \in Nat
      BY <2>2
    <3>2. DOMAIN g = Of(s)' /\ g = [q \in DOMAIN g |-> g[q]]
      OBVIOUS
    <3> HIDE DEF f, g
    <3>3. \A q \in Of(s)' : g[q] \in Nat
      BY <2>3, <2>4, <2>5, <3>1
    <3> QED
      BY <3>2, <3>3
  <2>7. Shown(s, "duration", i) = SumFunction(f)
    BY <1>2 DEF BucketsAddUp
  <2>8. Shown(s, "duration", i)' = Shown(s, "duration", i)
    BY <1>1 DEF Shown
  <2> HIDE DEF f, g
  <2>9. SumFunction(g) = SumFunction(f)
    BY <1>8, <2>2, <2>4, <2>5, <2>6
  <2> QED
    BY <2>7, <2>8, <2>9 DEF g
<1> QED
  BY <1>5, <1>9, <1>10 DEF CountInv

LEMMA FindCounts ==
  ASSUME RecorderInv, CountInv, NEW r \in Recordings, Find(r)
  PROVE  CountInv'
<1>1. /\ UNCHANGED <<store, what, todo>> /\ stage[r] = "find"
      /\ stage' = [stage EXCEPT ![r] = IF what[r].series \in DOMAIN store THEN "add" ELSE "make"]
  BY DEF Find, Goes, Known
<1>2. RestInv /\ NothingLost /\ BucketsAddUp /\ stage \in [Recordings -> Stages]
  BY DEF CountInv, RecorderInv
<1>3. /\ stage'[r] \in {"add", "make"}
      /\ stage'[r] = "add" => what[r].series \in DOMAIN store
      /\ \A q \in Recordings \ {r} : stage'[q] = stage[q]
  BY <1>1, <1>2
<1>4. {q \in Recordings : stage'[q] # "new"} = {q \in Recordings : stage[q] # "new"}
  BY <1>1, <1>3
<1>5. RestInv'
  BY <1>1, <1>2, <1>3, <1>4 DEF RestInv
<1> QED
  BY <1>1, <1>2, <1>5, SameCounts DEF CountInv

LEMMA MakeCounts ==
  ASSUME RecorderInv, StoreInv, CountInv, NEW r \in Recordings, Make(r)
  PROVE  CountInv'
<1> DEFINE s == what[r].series
<1>1. /\ UNCHANGED <<what, todo>> /\ stage[r] = "make"
      /\ stage' = [stage EXCEPT ![r] = "add"]
      /\ store' = IF s \in DOMAIN store THEN store ELSE Created(s)
  BY DEF Make, Goes, Known
<1>2. RestInv /\ NothingLost /\ BucketsAddUp /\ stage \in [Recordings -> Stages]
  BY DEF CountInv, RecorderInv
<1>3. s \in Series
  <2>1. what[r] \in Calls
    BY <1>1 DEF RecorderInv
  <2> QED
    BY <2>1, CallIs
<1> HIDE DEF s
<1>4. /\ DOMAIN store' = DOMAIN store \union {s}
      /\ \A t \in DOMAIN store : store'[t] = store[t]
      /\ s \notin DOMAIN store => store'[s] = Zero
  <2>1. CASE s \in DOMAIN store
    BY <1>1, <2>1
  <2>2. CASE s \notin DOMAIN store
    BY <1>1, <2>2 DEF Created
  <2> QED
    BY <2>1, <2>2
<1>5. stage'[r] = "add" /\ \A q \in Recordings \ {r} : stage'[q] = stage[q]
  BY <1>1, <1>2
<1>6. {q \in Recordings : stage'[q] # "new"} = {q \in Recordings : stage[q] # "new"}
  BY <1>1, <1>5
<1>7. RestInv'
  BY <1>1, <1>2, <1>4, <1>5, <1>6 DEF RestInv, s
<1>8. \A t : Of(t)' = Of(t)
  BY <1>1 DEF Of
<1>9. (\A q, cell : Added(q, cell)' = Added(q, cell)) /\ (\A q, i : Seen(q, i)' = Seen(q, i))
  BY <1>1 DEF Added, Seen
<1>10. ASSUME s \notin DOMAIN store, NEW q \in Of(s)
       PROVE  (\A cell : Added(q, cell) = 0) /\ (\A i : Seen(q, i) = 0)
  <2>1. q \in Recordings /\ stage[q] # "new" /\ what[q].series = s
    BY <1>2, <1>3, OfType
  <2>2. stage[q] \in {"find", "make"}
    BY <1>2, <1>10, <2>1 DEF RestInv, Stages
  <2> QED
    BY <1>2, <2>1, <2>2, NothingAdded
<1>11. NothingLost'
  <2> SUFFICES ASSUME NEW t \in DOMAIN store', NEW cell \in Cells
               PROVE  store'[t][cell] = SumFunction([q \in Of(t) |-> Added(q, cell)])
    BY <1>8, <1>9 DEF NothingLost
  <2>1. CASE t \in DOMAIN store
    BY <1>2, <1>4, <2>1 DEF NothingLost
  <2>2. CASE t \notin DOMAIN store
    <3>1. t = s /\ store'[t][cell] = 0
      BY <1>4, <2>2 DEF Zero
    <3> DEFINE f == [q \in Of(s) |-> Added(q, cell)]
    <3>2. IsFiniteSet(Of(s)) /\ f \in [Of(s) -> Nat]
      BY <1>2, <1>3, CountsType
    <3>3. \A q \in Of(s) : f[q] = 0
      BY <1>10, <2>2, <3>1
    <3> HIDE DEF f
    <3>4. SumFunction(f) = 0
      BY <3>2, <3>3, SumZero
    <3> QED
      BY <3>1, <3>4 DEF f
  <2> QED
    BY <2>1, <2>2
<1>12. BucketsAddUp'
  <2> SUFFICES ASSUME NEW t \in DOMAIN store', NEW i \in 0 .. Len(Bounds) + 1
               PROVE  Shown(t, "duration", i)' = SumFunction([q \in Of(t) |-> Seen(q, i)])
    BY <1>8, <1>9 DEF BucketsAddUp
  <2>1. CASE t \in DOMAIN store
    <3>1. Shown(t, "duration", i)' = Shown(t, "duration", i)
      BY <1>4, <2>1 DEF Shown
    <3> QED
      BY <1>2, <2>1, <3>1 DEF BucketsAddUp
  <2>2. CASE t \notin DOMAIN store
    <3>1. t = s /\ store'[t] = Zero
      BY <1>4, <2>2
    <3> DEFINE f == [q \in Of(s) |-> Seen(q, i)]
               g == [j \in 1 .. i |-> store'[t][<<"duration", j>>]]
    <3>2. IsFiniteSet(Of(s)) /\ f \in [Of(s) -> Nat]
      BY <1>2, <1>3, CountsType
    <3>3. \A q \in Of(s) : f[q] = 0
      BY <1>10, <2>2, <3>1
    <3>4. \A j \in 1 .. i : <<"duration", j>> \in Cells
      BY BoundsLength DEF Cells, Histograms
    <3>5. \A j \in 1 .. i : g[j] = 0
      BY <3>1, <3>4 DEF Zero
    <3>6. IsFiniteSet(1 .. i) /\ g \in [1 .. i -> Nat]
      <4>1. i \in Nat
        BY BoundsLength
      <4> QED
        BY <3>5, <4>1, IntervalFinite
    <3>7. Shown(t, "duration", i)' = SumFunction(g)
      BY DEF Shown
    <3> HIDE DEF f, g
    <3>8. SumFunction(f) = 0 /\ SumFunction(g) = 0
      BY <3>2, <3>3, <3>5, <3>6, SumZero
    <3> QED
      BY <3>1, <3>7, <3>8 DEF f
  <2> QED
    BY <2>1, <2>2
<1> QED
  BY <1>7, <1>11, <1>12 DEF CountInv

\* The addition that is due, and what is left after it.
LEMMA RestNext ==
  ASSUME NEW all \in Seq(Addition), NEW rest \in Seq(Addition), rest # <<>>, IsRest(rest, all)
  PROVE  LET n == Len(all) - Len(rest)
         IN /\ n \in Nat /\ n + 1 \in 1 .. Len(all)
            /\ Head(rest) = all[n + 1]
            /\ Len(Tail(rest)) = Len(rest) - 1
            /\ Len(all) - Len(Tail(rest)) = n + 1
            /\ IsRest(Tail(rest), all)
<1> DEFINE k == Len(rest)
           l == Len(all)
           n == l - k
           tail == Tail(rest)
<1>1. k \in Nat \ {0} /\ l \in Nat /\ k <= l /\ \A i \in 1 .. k : rest[i] = all[n + i]
  BY DEF IsRest
<1>2. Head(rest) = rest[1] /\ Len(tail) = k - 1 /\ \A i \in 1 .. k - 1 : tail[i] = rest[i + 1]
  OBVIOUS
<1> HIDE DEF k, l, tail
<1>3. n \in Nat /\ n + 1 \in 1 .. l /\ l - (k - 1) = n + 1 /\ k - 1 <= l /\ 1 \in 1 .. k
  BY <1>1
<1>4. ASSUME NEW i \in 1 .. k - 1
      PROVE  tail[i] = all[(n + 1) + i]
  <2>1. i + 1 \in 1 .. k /\ n + (i + 1) = (n + 1) + i
    BY <1>1
  <2> QED
    BY <1>1, <1>2, <2>1
<1>5. IsRest(tail, all)
  BY <1>2, <1>3, <1>4 DEF IsRest, l
<1>6. Head(rest) = all[n + 1]
  BY <1>1, <1>2, <1>3
<1> QED
  BY <1>2, <1>3, <1>5, <1>6 DEF k, l, tail

\* One addition to a bucket of the latencies, or to something else.
LEMMA LatencyNext ==
  ASSUME NEW c \in Calls, NEW n \in Nat, n + 1 \in 1 .. Len(Additions(c)), NEW i \in Nat
  PROVE  LET a    == Additions(c)[n + 1]
             left == Len(Additions(c)) - n
             now  == Latency(c) /\ left - 1 <= 1 /\ Bucket(c.value) <= i
             then == Latency(c) /\ left <= 1 /\ Bucket(c.value) <= i
         IN \/ /\ now /\ ~then /\ a.by = 1
               /\ \E b \in 1 .. i : a.cell = <<"duration", b>>
            \/ (now <=> then) /\ \A b \in 1 .. i : a.cell # <<"duration", b>>
<1> DEFINE a    == Additions(c)[n + 1]
           left == Len(Additions(c)) - n
           now  == Latency(c) /\ left - 1 <= 1 /\ Bucket(c.value) <= i
           then == Latency(c) /\ left <= 1 /\ Bucket(c.value) <= i
<1>1. CASE ~Latency(c)
  <2>1. \A b : a.cell # <<"duration", b>>
    BY <1>1, OtherAdditions
  <2> QED
    BY <1>1, <2>1
<1>2. CASE Latency(c)
  <2>1. /\ Len(Additions(c)) = 3
        /\ Additions(c)[1].cell = <<c.kind, 0>>
        /\ Additions(c)[2].cell = <<"duration", Bucket(c.value)>> /\ Additions(c)[2].by = 1
        /\ Additions(c)[3].cell = <<"duration", 0>>
    BY <1>2, LatencyAdditions
  <2>2. c.kind # "duration"
    BY <1>2 DEF Latency
  <2>3. n \in {0, 1, 2} /\ left = 3 - n
    BY <2>1
  <2>4. Bucket(c.value) \in Nat /\ Bucket(c.value) >= 1
    <3>1. Bucket(c.value) \in 1 .. Len(Bounds) + 1
      BY CallIs, BucketType
    <3> QED
      BY <3>1, BoundsLength
  <2>5. CASE n = 0
    <3>1. a.cell = <<c.kind, 0>> /\ left = 3
      BY <2>1, <2>3, <2>5
    <3>2. (now <=> then) /\ \A b \in 1 .. i : a.cell # <<"duration", b>>
      BY <2>2, <3>1
    <3> QED
      BY <3>2
  <2>6. CASE n = 2
    <3>1. a.cell = <<"duration", 0>> /\ left = 1
      BY <2>1, <2>3, <2>6
    <3>2. (now <=> then) /\ \A b \in 1 .. i : a.cell # <<"duration", b>>
      BY <3>1
    <3> QED
      BY <3>2
  <2>7. CASE n = 1
    <3>1. a.cell = <<"duration", Bucket(c.value)>> /\ a.by = 1 /\ left = 2
      BY <2>1, <2>3, <2>7
    <3>2. CASE Bucket(c.value) <= i
      <4>1. now /\ ~then /\ Bucket(c.value) \in 1 .. i
        BY <1>2, <2>4, <3>1, <3>2
      <4> QED
        BY <3>1, <4>1
    <3>3. CASE ~(Bucket(c.value) <= i)
      <4>1. ~now /\ ~then /\ \A b \in 1 .. i : b # Bucket(c.value)
        BY <2>4, <3>3
      <4>2. \A b \in 1 .. i : a.cell # <<"duration", b>>
        BY <3>1, <4>1
      <4> QED
        BY <4>1, <4>2
    <3> QED
      BY <3>2, <3>3
  <2> QED
    BY <2>3, <2>5, <2>6, <2>7
<1> QED
  BY <1>1, <1>2

LEMMA AddCounts ==
  ASSUME RecorderInv, StoreInv, CountInv, NEW r \in Recordings, Add(r)
  PROVE  CountInv'
<1> DEFINE s   == what[r].series
           a   == Head(todo[r])
           all == Additions(what[r])
           n   == Len(all) - Len(todo[r])
           rest == Tail(todo[r])
<1>1. /\ UNCHANGED what /\ stage[r] = "add"
      /\ stage' = [stage EXCEPT ![r] = IF Len(todo[r]) = 1 THEN "done" ELSE "add"]
      /\ store' = [store EXCEPT ![s][a.cell] = @ + a.by]
      /\ todo' = [todo EXCEPT ![r] = rest]
  BY DEF Add, Goes, RecorderInv
<1>2. /\ RestInv /\ NothingLost /\ BucketsAddUp
      /\ stage \in [Recordings -> Stages] /\ todo \in [Recordings -> Seq(Addition)]
      /\ what[r] \in Calls /\ todo[r] # <<>> /\ s \in DOMAIN store /\ s \in Series
  BY <1>1, CallIs DEF CountInv, RecorderInv
<1>3. all \in Seq(Addition) /\ IsRest(todo[r], all)
  BY <1>1, <1>2, AdditionsType DEF RestInv
<1>4. /\ n \in Nat /\ n + 1 \in 1 .. Len(all) /\ a = all[n + 1]
      /\ Len(rest) = Len(todo[r]) - 1 /\ Len(all) - Len(rest) = n + 1
      /\ IsRest(rest, all)
  BY <1>2, <1>3, RestNext
<1>5. a \in Addition
  <2> HIDE DEF all, n, a
  <2>1. \A i \in 1 .. Len(all) : all[i] \in Addition
    BY <1>3
  <2> QED
    BY <1>4, <2>1, Zenon
<1>6. a.cell \in Cells /\ a.by \in Nat
  BY <1>5 DEF Addition
<1>7. Len(todo[r]) \in Nat /\ Len(all) \in Nat /\ Len(todo[r]) = Len(all) - n
  <2>1. todo[r] \in Seq(Addition)
    BY <1>2
  <2>2. Len(todo[r]) \in Nat /\ Len(all) \in Nat
    BY <1>3, <2>1
  <2>3. \A x, y \in Nat : x = y - (y - x)
    OBVIOUS
  <2> QED
    BY <2>2, <2>3
<1> HIDE DEF all, n, rest, a, s
<1>8. /\ todo'[r] = rest
      /\ \A q \in Recordings \ {r} : stage'[q] = stage[q] /\ todo'[q] = todo[q]
      /\ stage'[r] \in {"add", "done"}
      /\ stage'[r] = "done" => rest = <<>>
  <2>1. todo'[r] = rest /\ stage'[r] = IF Len(todo[r]) = 1 THEN "done" ELSE "add"
    BY <1>1, <1>2
  <2>2. Len(todo[r]) = 1 => Len(rest) = 0
    BY <1>4
  <2>3. rest \in Seq(Addition)
    BY <1>2 DEF rest
  <2>4. Len(rest) = 0 => rest = <<>>
    BY <2>3, EmptySeq
  <2> QED
    BY <1>1, <1>2, <2>1, <2>2, <2>4
<1>9. {q \in Recordings : stage'[q] # "new"} = {q \in Recordings : stage[q] # "new"}
  BY <1>1, <1>8
<1>10. DOMAIN store' = DOMAIN store
  BY <1>1
<1>11. RestInv'
  BY <1>1, <1>2, <1>4, <1>8, <1>9, <1>10 DEF RestInv, all, s
<1>12. \A t \in DOMAIN store, cell \in Cells :
         /\ store[t][cell] \in Nat
         /\ store'[t][cell] = IF t = s /\ cell = a.cell THEN store[t][cell] + a.by
                              ELSE store[t][cell]
  BY <1>1, <1>2, <1>6 DEF StoreInv
<1>13. (\A t : Of(t)' = Of(t)) /\ r \in Of(s) /\ \A t : t # s => r \notin Of(t)
  BY <1>1 DEF Of, s
<1>14. \A q \in Recordings \ {r} : /\ \A cell : Added(q, cell)' = Added(q, cell)
                                   /\ \A i : Seen(q, i)' = Seen(q, i)
  BY <1>1, <1>8 DEF Added, Seen
<1>15. \A cell : /\ Added(r, cell) = Part(all, cell, n)
                 /\ Added(r, cell)' = Part(all, cell, n + 1)
                 /\ Added(r, cell) \in Nat
                 /\ Added(r, cell)' = Added(r, cell) + (IF a.cell = cell THEN a.by ELSE 0)
  <2> SUFFICES ASSUME NEW cell
               PROVE  /\ Added(r, cell) = Part(all, cell, n)
                      /\ Added(r, cell)' = Part(all, cell, n + 1)
                      /\ Added(r, cell) \in Nat
                      /\ Added(r, cell)' = Added(r, cell) + (IF a.cell = cell THEN a.by ELSE 0)
    OBVIOUS
  <2>1. Added(r, cell) = Part(all, cell, n)
    BY DEF Added, Part, all, n
  <2>2. Added(r, cell)' = Part(all, cell, n + 1)
    <3>1. Added(r, cell)' = Part(all, cell, Len(all) - Len(rest))
      BY <1>1, <1>8 DEF Added, Part, all
    <3> QED
      BY <1>4, <3>1
  <2>3. n \in 0 .. Len(all) /\ n < Len(all)
    BY <1>4, <1>7
  <2>4. Part(all, cell, n) \in Nat
    BY <1>3, <2>3, PartNext
  <2>5. Part(all, cell, n + 1) =
          Part(all, cell, n) + (IF all[n + 1].cell = cell THEN all[n + 1].by ELSE 0)
    BY <1>3, <1>4, <2>3, PartNext, ZenonT(60)
  <2>6. (IF all[n + 1].cell = cell THEN all[n + 1].by ELSE 0) = (IF a.cell = cell THEN a.by ELSE 0)
    BY <1>4
  <2> QED
    BY <2>1, <2>2, <2>4, <2>5, <2>6
<1>16. NothingLost'
  <2> SUFFICES ASSUME NEW t \in DOMAIN store, NEW cell \in Cells
               PROVE  store'[t][cell] = SumFunction([q \in Of(t) |-> Added(q, cell)'])
    BY <1>10, <1>13 DEF NothingLost
  <2> DEFINE f == [q \in Of(t) |-> Added(q, cell)]
             g == [q \in Of(t) |-> Added(q, cell)']
  <2>0. t \in Series /\ Of(t) \subseteq Recordings
    BY DEF StoreInv, Of
  <2>1. IsFiniteSet(Of(t)) /\ f \in [Of(t) -> Nat]
    BY <1>2, <2>0, CountsType
  <2>2. store[t][cell] = SumFunction(f)
    BY <1>2 DEF NothingLost
  <2>3. CASE t # s
    <3>1. f = g
      BY <1>13, <1>14, <2>0, <2>3
    <3> QED
      BY <1>12, <2>2, <2>3, <3>1
  <2>4. CASE t = s
    <3> DEFINE by == IF a.cell = cell THEN a.by ELSE 0
    <3>1. r \in Of(t) /\ f[r] \in Nat /\ g[r] = f[r] + by /\ by \in Nat
      BY <1>6, <1>13, <1>15, <2>4
    <3>2. \A q \in Of(t) \ {r} : g[q] = f[q]
      BY <1>14, <2>0
    <3>3. g \in [Of(t) -> Nat]
      BY <1>6, <1>14, <1>15, <2>0, <2>1, <3>1, <3>2
    <3>4. store'[t][cell] = store[t][cell] + by /\ store[t][cell] \in Nat
      BY <1>12, <2>4
    <3>5. SumFunction(g) = SumFunction(f) + by
      <4> HIDE DEF f, g, by
      <4>1. SumFunction(g) + f[r] = SumFunction(f) + g[r]
        BY <2>1, <3>1, <3>2, <3>3, SumChange
      <4>2. SumFunction(f) \in Nat /\ SumFunction(g) \in Nat
        BY <2>1, <3>3, SumType
      <4> QED
        BY <3>1, <4>1, <4>2
    <3> HIDE DEF f, g, by
    <3>6. store'[t][cell] = SumFunction(g)
      BY <2>2, <3>4, <3>5
    <3> QED
      BY <3>6 DEF g
  <2> QED
    BY <2>3, <2>4
<1>17. BucketsAddUp'
  <2> SUFFICES ASSUME NEW t \in DOMAIN store, NEW i \in 0 .. Len(Bounds) + 1
               PROVE  Shown(t, "duration", i)' = SumFunction([q \in Of(t) |-> Seen(q, i)'])
    BY <1>10, <1>13 DEF BucketsAddUp
  <2> DEFINE f == [q \in Of(t) |-> Seen(q, i)]
             g == [q \in Of(t) |-> Seen(q, i)']
             lines == [j \in 1 .. i |-> store[t][<<"duration", j>>]]
             after == [j \in 1 .. i |-> store'[t][<<"duration", j>>]]
  <2>0. t \in Series /\ Of(t) \subseteq Recordings /\ i \in Nat
    BY BoundsLength DEF StoreInv, Of
  <2>1. IsFiniteSet(Of(t)) /\ f \in [Of(t) -> Nat]
    BY <1>2, <2>0, CountsType
  <2>2. Shown(t, "duration", i) = SumFunction(f)
    BY <1>2 DEF BucketsAddUp
  <2>3. /\ Shown(t, "duration", i) = SumFunction(lines)
        /\ Shown(t, "duration", i)' = SumFunction(after)
    BY DEF Shown
  <2>4. \A j \in 1 .. i : <<"duration", j>> \in Cells
    BY BoundsLength DEF Cells, Histograms
  <2>5. IsFiniteSet(1 .. i) /\ lines \in [1 .. i -> Nat] /\ after \in [1 .. i -> Nat]
    <3>1. \A j \in 1 .. i : lines[j] \in Nat /\ after[j] \in Nat
      <4>1. \A cell \in Cells : store[t][cell] \in Nat /\ store'[t][cell] \in Nat
        BY <1>6, <1>12
      <4> QED
        BY <2>4, <4>1
    <3> QED
      BY <2>0, <3>1, IntervalFinite
  <2>6. CASE t # s
    <3>1. f = g
      BY <1>13, <1>14, <2>0, <2>6
    <3>2. lines = after
      BY <1>12, <2>4, <2>6
    <3> QED
      BY <2>2, <2>3, <3>1, <3>2
  <2>7. CASE t = s
    <3> DEFINE now  == Latency(what[r]) /\ Len(rest) <= 1 /\ Bucket(what[r].value) <= i
               then == Latency(what[r]) /\ Len(todo[r]) <= 1 /\ Bucket(what[r].value) <= i
    <3>1. r \in Of(t) /\ f[r] = (IF then THEN 1 ELSE 0) /\ g[r] = (IF now THEN 1 ELSE 0)
      BY <1>1, <1>8, <1>13, <2>7 DEF Seen
    <3>2. \A q \in Of(t) \ {r} : g[q] = f[q]
      BY <1>14, <2>0
    <3>3. \/ now /\ ~then /\ a.by = 1 /\ \E b \in 1 .. i : a.cell = <<"duration", b>>
          \/ (now <=> then) /\ \A b \in 1 .. i : a.cell # <<"duration", b>>
      <4>1. Len(todo[r]) = Len(all) - n /\ Len(rest) = (Len(all) - n) - 1
        BY <1>4, <1>7
      <4> QED
        BY <1>2, <1>4, <2>0, <4>1, LatencyNext DEF all
    <3> HIDE DEF now, then
    <3>4. CASE (now <=> then) /\ \A b \in 1 .. i : a.cell # <<"duration", b>>
      <4>1. f[r] = g[r]
        BY <3>1, <3>4
      <4>2. \A q \in Of(t) : f[q] = g[q]
        BY <3>2, <4>1
      <4>3. f = g
        BY <4>2
      <4>4. lines = after
        BY <1>12, <2>4, <3>4
      <4> QED
        BY <2>2, <2>3, <4>3, <4>4
    <3>5. CASE now /\ ~then /\ a.by = 1 /\ \E b \in 1 .. i : a.cell = <<"duration", b>>
      <4>1. PICK b \in 1 .. i : a.cell = <<"duration", b>>
        BY <3>5
      <4>2. after[b] = lines[b] + 1 /\ lines[b] \in Nat
        BY <1>12, <2>4, <2>5, <2>7, <3>5, <4>1
      <4>3. \A j \in (1 .. i) \ {b} : after[j] = lines[j]
        <5> SUFFICES ASSUME NEW j \in (1 .. i) \ {b}
                     PROVE  after[j] = lines[j]
          OBVIOUS
        <5>1. <<"duration", j>> # a.cell
          BY <4>1
        <5> QED
          BY <1>12, <2>4, <5>1
      <4>4. f[r] = 0 /\ g[r] = 1
        BY <3>1, <3>5
      <4>5. g \in [Of(t) -> Nat]
        <5>1. \A q \in Of(t) : g[q] \in Nat
          <6> HIDE DEF f, g
          <6> QED
            BY <2>1, <3>2, <4>4
        <5> QED
          BY <5>1
      <4> HIDE DEF f, g, lines, after
      <4>6. SumFunction(g) + f[r] = SumFunction(f) + g[r]
        BY <2>1, <3>1, <3>2, <4>5, SumChange
      <4>7. SumFunction(after) + lines[b] = SumFunction(lines) + after[b]
        BY <2>5, <4>3, SumChange
      <4>8. /\ SumFunction(f) \in Nat /\ SumFunction(g) \in Nat
            /\ SumFunction(lines) \in Nat /\ SumFunction(after) \in Nat
        BY <2>1, <2>5, <4>5, SumType
      <4>9. SumFunction(after) = SumFunction(g)
        BY <2>2, <2>3, <4>2, <4>4, <4>6, <4>7, <4>8
      <4> QED
        BY <2>3, <4>9 DEF g
    <3> QED
      BY <3>3, <3>4, <3>5
  <2> QED
    BY <2>6, <2>7
<1> QED
  BY <1>11, <1>16, <1>17 DEF CountInv

LEMMA CountInit == Init => CountInv
<1> SUFFICES ASSUME Init
             PROVE  CountInv
  OBVIOUS
<1>1. \A r \in Recordings : what[r] = NoCallYet /\ stage[r] = "new"
  BY DEF Init, NoCallYet
<1>2. DOMAIN store = {}
  BY EmptyDomain DEF Init
<1>3. {r \in Recordings : stage[r] # "new"} = {} /\ IsFiniteSet({})
  BY <1>1, FS_EmptySet
<1>4. RestInv
  BY <1>1, <1>3 DEF RestInv
<1>5. NothingLost /\ BucketsAddUp
  BY <1>2 DEF NothingLost, BucketsAddUp
<1> QED
  BY <1>4, <1>5 DEF CountInv

LEMMA CountNext == MetricsInv /\ CountInv /\ [Next]_vars => CountInv'
<1> SUFFICES ASSUME MetricsInv, CountInv, [Next]_vars
             PROVE  CountInv'
  OBVIOUS
<1>1. RecorderInv /\ StoreInv
  BY DEF MetricsInv
<1>2. ASSUME NEW r \in Recordings, NEW c \in Calls, Begin(r, c)
      PROVE  CountInv'
  BY <1>1, <1>2, BeginStep, BeginCounts
<1>3. ASSUME NEW r \in Recordings, Find(r) \/ Make(r) \/ Add(r)
      PROVE  CountInv'
  BY <1>1, <1>3, FindCounts, MakeCounts, AddCounts
<1>4. ASSUME UNCHANGED <<store, what, stage, todo>>
      PROVE  CountInv'
  <2>1. RestInv /\ NothingLost /\ BucketsAddUp
    BY DEF CountInv
  <2>2. NothingLost' /\ BucketsAddUp'
    BY <1>4, <2>1, SameCounts
  <2>3. RestInv'
    BY <1>4, <2>1 DEF RestInv
  <2> QED
    BY <2>2, <2>3 DEF CountInv
<1>5. CASE BeginScrape \/ Read \/ EndScrape \/ UNCHANGED vars
  <2>1. UNCHANGED <<store, what, stage, todo>>
    BY <1>5 DEF BeginScrape, Read, EndScrape, vars
  <2> QED
    BY <1>4, <2>1
<1> QED
  BY <1>2, <1>3, <1>5 DEF Next

LEMMA CountInvariant == Spec => [](MetricsInv /\ CountInv)
<1>1. Init => MetricsInv /\ CountInv
  BY InvInit, CountInit
<1>2. MetricsInv /\ CountInv /\ [Next]_vars => (MetricsInv /\ CountInv)'
  BY InvNext, CountNext
<1> QED
  BY <1>1, <1>2, PTL DEF Spec

\* Whoever creates a series and whoever adds to it at the same time, every counter is
\* the sum of what the calls have added to it so far: nothing is lost, and nothing is
\* counted twice.
THEOREM NothingLostAlways == Spec => []NothingLost
<1>1. CountInv => NothingLost
  BY DEF CountInv
<1> QED
  BY <1>1, CountInvariant, PTL

-------------------------------------------------------------------------------
(* What the buckets mean *)

\* The bounds increase, so those up to the i-th are below v, or all that are below v
\* come before the i-th.
LEMMA BucketWithin ==
  ASSUME NEW v \in Nat, NEW i \in DOMAIN Bounds
  PROVE  Bucket(v) <= i <=> v <= Bounds[i]
<1> DEFINE below == {k \in DOMAIN Bounds : Bounds[k] < v}
<1>1. /\ Len(Bounds) \in Nat /\ DOMAIN Bounds = 1 .. Len(Bounds) /\ i \in 1 .. Len(Bounds)
      /\ \A k \in 1 .. Len(Bounds) : Bounds[k] \in Nat
      /\ \A j, k \in 1 .. Len(Bounds) : j <= k => Bounds[j] <= Bounds[k]
  <2>1. Len(Bounds) \in Nat /\ DOMAIN Bounds = 1 .. Len(Bounds)
    BY BoundsLength
  <2>2. \A k \in 1 .. Len(Bounds) : Bounds[k] \in Nat
    BY BoundsAssumption
  <2> QED
    BY <2>1, <2>2, BoundsIncrease, Zenon
<1>2. IsFiniteSet(1 .. Len(Bounds)) /\ below \subseteq 1 .. Len(Bounds)
  BY <1>1, IntervalFinite
<1>3. IsFiniteSet(below)
  BY <1>2, FS_Subset
<1>4. Cardinality(below) \in Nat
  BY <1>3, FS_CardinalityType
<1>5. Bucket(v) = 1 + Cardinality(below)
  BY DEF Bucket
<1>6. ASSUME v <= Bounds[i]
      PROVE  Cardinality(below) <= i - 1
  <2>1. below \subseteq 1 .. i - 1
    <3> SUFFICES ASSUME NEW k \in below
                 PROVE  k \in 1 .. i - 1
      OBVIOUS
    <3>1. k \in 1 .. Len(Bounds) /\ Bounds[k] < v
      BY <1>1
    <3>2. ~(i <= k)
      BY <1>1, <1>6, <3>1
    <3> QED
      BY <1>1, <3>1, <3>2
  <2>2. i - 1 \in Nat
    BY <1>1
  <2>3. IsFiniteSet(1 .. i - 1) /\ Cardinality(1 .. i - 1) = i - 1
    BY <2>2, IntervalFinite
  <2> HIDE DEF below
  <2>4. Cardinality(below) <= Cardinality(1 .. i - 1)
    BY <2>1, <2>3, FS_Subset
  <2> QED
    BY <2>3, <2>4
<1>7. ASSUME Bounds[i] < v
      PROVE  Cardinality(below) >= i
  <2>1. 1 .. i \subseteq below
    <3> SUFFICES ASSUME NEW k \in 1 .. i
                 PROVE  k \in below
      OBVIOUS
    <3>1. k \in 1 .. Len(Bounds) /\ k <= i
      BY <1>1
    <3>2. Bounds[k] <= Bounds[i] /\ Bounds[k] \in Nat /\ Bounds[i] \in Nat
      BY <1>1, <3>1
    <3>3. Bounds[k] < v
      BY <1>7, <3>2
    <3> QED
      BY <1>1, <3>1, <3>3
  <2>2. i \in Nat
    BY <1>1
  <2>3. Cardinality(1 .. i) = i
    BY <2>2, IntervalFinite
  <2> HIDE DEF below
  <2>4. Cardinality(1 .. i) <= Cardinality(below)
    BY <1>3, <2>1, FS_Subset
  <2> QED
    BY <1>4, <2>2, <2>3, <2>4
<1>8. i \in Nat /\ Bounds[i] \in Nat
  BY <1>1
<1> HIDE DEF below
<1> QED
  BY <1>4, <1>5, <1>6, <1>7, <1>8

LEMMA BucketsMean ==
  ASSUME RecorderInv, StoreInv, CountInv, NEW s \in DOMAIN store, NEW i \in DOMAIN Bounds,
         \A r \in Of(s) : stage[r] = "done"
  PROVE  Shown(s, "duration", i) =
           Cardinality({r \in Of(s) : /\ what[r].kind \in {"success", "error"}
                                      /\ what[r].value <= Bounds[i]})
<1> DEFINE f == [r \in Of(s) |-> Seen(r, i)]
           ones == {r \in Of(s) : f[r] = 1}
           meant == {r \in Of(s) : /\ what[r].kind \in {"success", "error"}
                                   /\ what[r].value <= Bounds[i]}
<1>1. RestInv /\ BucketsAddUp /\ s \in Series
  BY DEF CountInv, StoreInv
<1>2. IsFiniteSet(Of(s)) /\ f \in [Of(s) -> {0, 1}]
  BY <1>1, CountsType
<1>3. i \in 0 .. Len(Bounds) + 1
  BY BoundsLength
<1>4. Shown(s, "duration", i) = SumFunction(f)
  BY <1>1, <1>3 DEF BucketsAddUp
<1>5. SumFunction(f) = Cardinality(ones)
  <2> HIDE DEF f
  <2> QED
    BY <1>2, SumCounts
<1>6. ones = meant
  <2> SUFFICES ASSUME NEW r \in Of(s)
               PROVE  f[r] = 1 <=> /\ what[r].kind \in {"success", "error"}
                                   /\ what[r].value <= Bounds[i]
    OBVIOUS
  <2>1. r \in Recordings /\ stage[r] = "done" /\ what[r] \in Calls
    BY <1>1, OfType
  <2>2. Len(todo[r]) <= 1
    <3>1. todo[r] = <<>>
      BY <1>1, <2>1 DEF RestInv
    <3> QED
      BY <3>1
  <2>3. Bucket(what[r].value) <= i <=> what[r].value <= Bounds[i]
    BY <2>1, CallIs, BucketWithin
  <2>4. f[r] = IF Latency(what[r]) /\ Len(todo[r]) <= 1 /\ Bucket(what[r].value) <= i
               THEN 1 ELSE 0
    BY DEF Seen
  <2> HIDE DEF f
  <2> QED
    BY <2>2, <2>3, <2>4 DEF Latency
<1> QED
  BY <1>4, <1>5, <1>6

\* Once the calls of a model are done, a bucket of the page counts exactly the
\* latencies at or below its bound.
THEOREM BucketsMeanAtMostAlways == Spec => []BucketsMeanAtMost
<1>1. MetricsInv /\ CountInv => BucketsMeanAtMost
  BY BucketsMean DEF MetricsInv, BucketsMeanAtMost
<1> QED
  BY <1>1, CountInvariant, PTL

\* Who has observed a latency has counted the request.
LEMMA SeenIsCounted ==
  ASSUME RecorderInv, CountInv, NEW r \in Recordings, stage[r] # "new", NEW i
  PROVE  Seen(r, i) <= Added(r, <<"success", 0>>) + Added(r, <<"error", 0>>)
<1> DEFINE all == Additions(what[r])
<1>1. RestInv
  BY DEF CountInv
<1>2. \A cell : Added(r, cell) \in Nat /\ Added(r, cell) = Part(all, cell, Made(r))
  BY <1>1, AddedType
<1>3. Made(r) \in 0 .. Len(all)
  BY <1>1, AddedType
<1>4. CASE Seen(r, i) = 0
  BY <1>2, <1>4
<1>5. CASE Seen(r, i) # 0
  <2>1. Latency(what[r]) /\ Len(todo[r]) <= 1 /\ Seen(r, i) = 1
    BY <1>5 DEF Seen
  <2>2. what[r] \in Calls /\ todo[r] \in Seq(Addition)
    BY DEF RecorderInv
  <2>3. all \in Seq(Addition)
    BY <2>2, AdditionsType
  <2> DEFINE cell == <<what[r].kind, 0>>
  <2>4. Len(all) = 3 /\ all[1].cell = cell /\ all[1].by = 1
    BY <2>1, <2>2, LatencyAdditions
  <2>5. Made(r) \in {2, 3}
    <3>1. Len(todo[r]) \in Nat
      BY <2>2
    <3> QED
      BY <1>3, <2>1, <2>4, <3>1 DEF Made
  <2> HIDE DEF all, cell
  <2>6. Part(all, cell, 0) = 0 /\ \A n \in {0, 1, 2, 3} : Part(all, cell, n) \in Nat
    <3>1. Part(all, cell, 0) = 0 /\ \A n \in 0 .. Len(all) : Part(all, cell, n) \in Nat
      BY <2>3, PartNext
    <3>2. \A n \in {0, 1, 2, 3} : n \in 0 .. Len(all)
      BY <2>4
    <3> QED
      BY <3>1, <3>2
  <2>7. Part(all, cell, 1) = Part(all, cell, 0) + (IF all[1].cell = cell THEN all[1].by ELSE 0)
    <3>1. 0 \in Nat /\ 0 < Len(all) /\ 0 + 1 = 1
      BY <2>4
    <3> QED
      BY <2>3, <3>1, PartNext
  <2>8. Part(all, cell, 1) = 1
    BY <2>4, <2>6, <2>7
  <2>9. \A n \in {1, 2} : Part(all, cell, n + 1) >= Part(all, cell, n)
    <3> SUFFICES ASSUME NEW n \in {1, 2}
                 PROVE  Part(all, cell, n + 1) >= Part(all, cell, n)
      OBVIOUS
    <3>1. n \in Nat /\ n < Len(all) /\ n + 1 \in 1 .. Len(all)
      BY <2>4
    <3>2. Part(all, cell, n + 1) =
            Part(all, cell, n) + (IF all[n + 1].cell = cell THEN all[n + 1].by ELSE 0)
      <4>1. \A k \in Nat : k < Len(all) =>
              Part(all, cell, k + 1) =
                Part(all, cell, k) + (IF all[k + 1].cell = cell THEN all[k + 1].by ELSE 0)
        BY <2>3, PartNext, Zenon
      <4> QED
        BY <3>1, <4>1, Zenon
    <3>3. all[n + 1].by \in Nat
      <4>1. all[n + 1] \in Addition
        BY <2>3, <3>1
      <4> QED
        BY <4>1 DEF Addition
    <3>4. Part(all, cell, n) \in Nat
      BY <2>6
    <3> QED
      BY <3>2, <3>3, <3>4
  <2>10. Part(all, cell, Made(r)) >= 1
    <3>1. Part(all, cell, 2) >= 1
      BY <2>6, <2>8, <2>9
    <3>2. Part(all, cell, 3) >= 1
      <4>1. Part(all, cell, 3) >= Part(all, cell, 2)
        BY <2>9
      <4> QED
        BY <2>6, <3>1, <4>1
    <3> QED
      BY <2>5, <3>1, <3>2
  <2>11. Added(r, cell) >= 1
    BY <1>2, <2>10
  <2>12. cell \in {<<"success", 0>>, <<"error", 0>>}
    BY <2>1 DEF Latency, cell
  <2>13. Added(r, <<"success", 0>>) \in Nat /\ Added(r, <<"error", 0>>) \in Nat
    BY <1>2
  <2> QED
    BY <2>1, <2>11, <2>12, <2>13
<1> QED
  BY <1>4, <1>5

LEMMA LatencyWithin ==
  ASSUME RecorderInv, StoreInv, CountInv, NEW s \in DOMAIN store
  PROVE  Shown(s, "duration", Len(Bounds) + 1)
           <= store[s][<<"success", 0>>] + store[s][<<"error", 0>>]
<1> DEFINE last == Len(Bounds) + 1
           f == [r \in Of(s) |-> Seen(r, last)]
           g == [r \in Of(s) |-> Added(r, <<"success", 0>>)]
           h == [r \in Of(s) |-> Added(r, <<"error", 0>>)]
           both == [r \in Of(s) |-> g[r] + h[r]]
<1>1. RestInv /\ NothingLost /\ BucketsAddUp /\ s \in Series /\ last \in 0 .. Len(Bounds) + 1
  BY BoundsLength DEF CountInv, StoreInv
<1>2. IsFiniteSet(Of(s)) /\ f \in [Of(s) -> Nat] /\ g \in [Of(s) -> Nat] /\ h \in [Of(s) -> Nat]
  BY <1>1, CountsType
<1>3. Shown(s, "duration", last) = SumFunction(f)
  BY <1>1 DEF BucketsAddUp
<1>4. /\ store[s][<<"success", 0>>] = SumFunction(g)
      /\ store[s][<<"error", 0>>] = SumFunction(h)
  BY <1>1, CellsAre DEF NothingLost
<1>5. \A r \in Of(s) : f[r] <= both[r]
  <2> SUFFICES ASSUME NEW r \in Of(s)
               PROVE  Seen(r, last) <= Added(r, <<"success", 0>>) + Added(r, <<"error", 0>>)
    OBVIOUS
  <2>1. r \in Recordings /\ stage[r] # "new"
    BY <1>1, OfType
  <2> QED
    BY <2>1, SeenIsCounted
<1>6. both \in [Of(s) -> Nat] /\ \A r \in Of(s) : both[r] = g[r] + h[r]
  <2> HIDE DEF g, h
  <2>1. \A r \in Of(s) : g[r] + h[r] \in Nat
    BY <1>2
  <2> QED
    BY <2>1
<1> HIDE DEF f, g, h, both
<1>7. SumFunction(f) <= SumFunction(both)
  BY <1>2, <1>5, <1>6, SumLess
<1>8. SumFunction(both) = SumFunction(g) + SumFunction(h)
  <2>1. AddUp(g, h, both, Of(s))
    BY <1>2, <1>6 DEF AddUp
  <2> QED
    BY <1>2, <2>1, SumPlus
<1> QED
  BY <1>3, <1>4, <1>7, <1>8

\* The latency histogram never counts more requests than the request totals do, at any
\* moment of any interleaving.
THEOREM LatencyWithinRequestsAlways == Spec => []LatencyWithinRequests
<1>1. MetricsInv /\ CountInv => LatencyWithinRequests
  BY LatencyWithin DEF MetricsInv, LatencyWithinRequests
<1> QED
  BY <1>1, CountInvariant, PTL
===============================================================================
