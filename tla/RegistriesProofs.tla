---------------------------- MODULE RegistriesProofs ----------------------------
(***************************************************************************)
(* Proofs about the registries, for any set of names and versions, any tree   *)
(* of files and any order of the scan: what is served is what is there, and    *)
(* the Batcher a request finds is the one of its model.                        *)
(***************************************************************************)
EXTENDS Registries, SequenceTheorems, DataLemmas

-------------------------------------------------------------------------------
(* The order of strings *)

LEMMA LexIrreflexive ==
  ASSUME NEW s \in Strings
  PROVE  ~LexLess(s, s)
BY DEF LexLess, Strings

LEMMA LexTransitive ==
  ASSUME NEW s \in Strings, NEW t \in Strings, NEW u \in Strings,
         LexLess(s, t), LexLess(t, u)
  PROVE  LexLess(s, u)
<1>1. PICK n \in 0 .. Len(s) :
        /\ n <= Len(t) /\ \A i \in 1 .. n : s[i] = t[i]
        /\ \/ n = Len(s) /\ n < Len(t)
           \/ n < Len(s) /\ n < Len(t) /\ s[n + 1] < t[n + 1]
  BY DEF LexLess
<1>2. PICK m \in 0 .. Len(t) :
        /\ m <= Len(u) /\ \A i \in 1 .. m : t[i] = u[i]
        /\ \/ m = Len(t) /\ m < Len(u)
           \/ m < Len(t) /\ m < Len(u) /\ t[m + 1] < u[m + 1]
  BY DEF LexLess
<1>3. /\ Len(s) \in Nat /\ Len(t) \in Nat /\ Len(u) \in Nat
      /\ \A i \in 1 .. Len(s) : s[i] \in Nat
      /\ \A i \in 1 .. Len(t) : t[i] \in Nat
      /\ \A i \in 1 .. Len(u) : u[i] \in Nat
  BY DEF Strings
<1>4. CASE n < m
  <2>1. \A i \in 1 .. n : s[i] = u[i]
    BY <1>1, <1>2, <1>3, <1>4
  <2>2. n < Len(u) /\ (n < Len(s) => s[n + 1] < u[n + 1])
    BY <1>1, <1>2, <1>3, <1>4
  <2> QED
    BY <1>1, <1>3, <2>1, <2>2 DEF LexLess
<1>5. CASE n = m
  <2>1. \A i \in 1 .. n : s[i] = u[i]
    BY <1>1, <1>2, <1>3, <1>5
  <2>2. n < Len(t) /\ n < Len(u) /\ t[n + 1] < u[n + 1]
    BY <1>1, <1>2, <1>3, <1>5
  <2>3. n < Len(s) => s[n + 1] < u[n + 1]
    <3>1. n + 1 \in 1 .. Len(t) /\ n + 1 \in 1 .. Len(u)
      BY <1>3, <2>2
    <3>2. ASSUME n < Len(s)
          PROVE  s[n + 1] < t[n + 1] /\ n + 1 \in 1 .. Len(s)
      BY <1>1, <1>3, <3>2
    <3> QED
      BY <1>3, <2>2, <3>1, <3>2
  <2> QED
    BY <1>1, <1>3, <2>1, <2>2, <2>3, SMTT(30) DEF LexLess
<1>6. CASE m < n
  <2>1. \A i \in 1 .. m : s[i] = u[i]
    BY <1>1, <1>2, <1>3, <1>6
  <2>2. m < Len(s) /\ m < Len(u) /\ s[m + 1] < u[m + 1]
    BY <1>1, <1>2, <1>3, <1>6
  <2> QED
    BY <1>1, <1>3, <2>1, <2>2 DEF LexLess
<1> QED
  BY <1>4, <1>5, <1>6

\* Two strings are compared where they first differ.
LEMMA LexTotal ==
  ASSUME NEW s \in Strings, NEW t \in Strings, s # t
  PROVE  LexLess(s, t) \/ LexLess(t, s)
<1> DEFINE Differ == { i \in Nat : i > Len(s) \/ i > Len(t) \/ (i > 0 /\ s[i] # t[i]) }
<1>1. /\ Len(s) \in Nat /\ Len(t) \in Nat
      /\ \A i \in 1 .. Len(s) : s[i] \in Nat
      /\ \A i \in 1 .. Len(t) : t[i] \in Nat
  BY DEF Strings
<1>2. Len(s) + 1 \in Differ
  BY <1>1
<1>3. PICK x \in Differ : \A y \in Differ : x <= y
  <2> HIDE DEF Differ
  <2>1. Differ \in SUBSET Nat
    BY DEF Differ
  <2> QED
    BY <1>2, <2>1, LeastNumber
<1>4. x \in Nat /\ x > 0 /\ \A i \in 1 .. x - 1 : i \notin Differ
  BY <1>1, <1>3
<1>5. /\ x - 1 \in 0 .. Len(s) /\ x - 1 \in 0 .. Len(t) /\ x - 1 + 1 = x
      /\ \A i \in 1 .. x - 1 : s[i] = t[i]
  <2>1. \A i \in 1 .. x - 1 : i <= Len(s) /\ i <= Len(t) /\ s[i] = t[i]
    BY <1>1, <1>4
  <2> QED
    BY <1>1, <1>4, <2>1
<1>6. CASE x > Len(s) /\ x > Len(t)
  <2>1. Len(s) = Len(t) /\ \A i \in 1 .. Len(s) : s[i] = t[i]
    BY <1>1, <1>5, <1>6
  <2> QED
    BY <2>1, SeqEqual DEF Strings
<1>7. CASE x > Len(s) /\ x <= Len(t)
  BY <1>1, <1>5, <1>7 DEF LexLess
<1>8. CASE x <= Len(s) /\ x > Len(t)
  BY <1>1, <1>5, <1>8 DEF LexLess
<1>9. CASE x <= Len(s) /\ x <= Len(t)
  <2>1. s[x] # t[x] /\ s[x] \in Nat /\ t[x] \in Nat
    BY <1>1, <1>3, <1>4, <1>9
  <2>2. x - 1 < Len(s) /\ x - 1 < Len(t)
    BY <1>1, <1>4, <1>9
  <2>3. CASE s[x - 1 + 1] < t[x - 1 + 1]
    BY <1>5, <2>2, <2>3 DEF LexLess
  <2>4. CASE t[x - 1 + 1] < s[x - 1 + 1]
    BY <1>5, <2>2, <2>4 DEF LexLess
  <2> QED
    BY <1>5, <2>1, <2>3, <2>4
<1> QED
  BY <1>1, <1>4, <1>6, <1>7, <1>8, <1>9

\* A finite set of strings has a greatest one: a smallest subset without one would
\* have one less element.
LEMMA LexMaxExists ==
  ASSUME NEW S \in SUBSET Strings, IsFiniteSet(S), S # {}
  PROVE  \E s \in S : \A t \in S : ~LexLess(s, t)
<1> DEFINE HasMax(U) == \E s \in U : \A t \in U : ~LexLess(s, t)
           Without == { U \in SUBSET S : U # {} /\ ~HasMax(U) }
<1>1. SUFFICES Without = {}
  BY <1>1
<1>2. SUFFICES ASSUME Without # {}
               PROVE  FALSE
  OBVIOUS
<1>3. IsWellFoundedOn(StrictSubsetOrdering(S), SUBSET S)
  BY FS_StrictSubsetOrderingWellFounded, FS_FiniteSubsetsOfFinite
<1>4. PICK U \in Without : \A V \in Without : <<V, U>> \notin StrictSubsetOrdering(S)
  <2>1. Without \subseteq SUBSET S
    OBVIOUS
  <2> HIDE DEF Without
  <2> QED
    BY <1>2, <1>3, <2>1, WFMin
<1>5. PICK x \in U : x \in Strings
  OBVIOUS
<1>6. U \ {x} \notin Without
  <2>1. <<U \ {x}, U>> \in StrictSubsetOrdering(S)
    BY <1>5 DEF StrictSubsetOrdering
  <2> QED
    BY <1>4, <2>1
<1>7. CASE U \ {x} = {}
  <2>1. U = {x}
    BY <1>5, <1>7
  <2> QED
    BY <1>5, <2>1, LexIrreflexive
<1>8. CASE U \ {x} # {}
  <2>1. PICK m \in U \ {x} : \A t \in U \ {x} : ~LexLess(m, t)
    BY <1>6, <1>8
  <2>2. U \subseteq Strings
    OBVIOUS
  <2>3. CASE LexLess(m, x)
    <3>1. ASSUME NEW t \in U, LexLess(x, t)
          PROVE  FALSE
      <4>1. t # x
        BY <3>1, <1>5, LexIrreflexive
      <4>2. LexLess(m, t)
        BY <2>2, <2>3, <3>1, LexTransitive
      <4> QED
        BY <2>1, <4>1, <4>2
    <3> QED
      BY <3>1
  <2>4. CASE ~LexLess(m, x)
    BY <2>1, <2>4
  <2> QED
    BY <2>3, <2>4
<1> QED
  BY <1>7, <1>8

LEMMA LexMaxIs ==
  ASSUME NEW S \in SUBSET Strings, IsFiniteSet(S), S # {}
  PROVE  LexMax(S) \in S /\ \A t \in S : ~LexLess(LexMax(S), t)
BY LexMaxExists DEF LexMax

LEMMA LexMaxUnique ==
  ASSUME NEW S \in SUBSET Strings, NEW m \in S, \A t \in S : ~LexLess(m, t)
  PROVE  LexMax(S) = m
<1>1. LexMax(S) \in S /\ \A t \in S : ~LexLess(LexMax(S), t)
  BY DEF LexMax
<1> QED
  BY <1>1, LexTotal

-------------------------------------------------------------------------------
(* Keys *)

\* A name without the separator.
NoAt(name) == \A i \in DOMAIN name : name[i] # At

LEMMA KeyIs ==
  ASSUME NEW name \in Strings, NEW v \in Strings
  PROVE  /\ Key(name, v) \in Strings
         /\ Len(name) \in Nat /\ Len(v) \in Nat
         /\ Len(Key(name, v)) = Len(name) + 1 + Len(v)
         /\ \A i \in 1 .. Len(name) : Key(name, v)[i] = name[i]
         /\ Key(name, v)[Len(name) + 1] = At
         /\ \A i \in 1 .. Len(v) : Key(name, v)[Len(name) + 1 + i] = v[i]
<1> DEFINE at == <<At>>
           head == name \o at
<1>1. at \in Seq(Nat) /\ Len(at) = 1 /\ at[1] = At
  BY DEF At
<1>2. /\ name \in Seq(Nat) /\ v \in Seq(Nat)
      /\ Len(name) \in Nat /\ Len(v) \in Nat
  BY DEF Strings
<1>3. Key(name, v) = head \o v
  BY DEF Key
<1> HIDE DEF at
<1>4. /\ head \in Seq(Nat) /\ Len(head) = Len(name) + 1
      /\ \A i \in 1 .. Len(name) + 1 :
           head[i] = IF i <= Len(name) THEN name[i] ELSE at[i - Len(name)]
  <2>1. /\ head \in Seq(Nat) /\ Len(head) = Len(name) + Len(at)
        /\ \A i \in 1 .. Len(name) + Len(at) :
             head[i] = IF i <= Len(name) THEN name[i] ELSE at[i - Len(name)]
    BY <1>1, <1>2, ConcatProperties, Zenon
  <2> QED
    BY <1>1, <2>1
<1> HIDE DEF head
<1>5. /\ head \o v \in Seq(Nat) /\ Len(head \o v) = Len(name) + 1 + Len(v)
      /\ \A i \in 1 .. Len(name) + 1 + Len(v) :
           (head \o v)[i] = IF i <= Len(name) + 1 THEN head[i] ELSE v[i - (Len(name) + 1)]
  <2>1. /\ head \o v \in Seq(Nat) /\ Len(head \o v) = Len(head) + Len(v)
        /\ \A i \in 1 .. Len(head) + Len(v) :
             (head \o v)[i] = IF i <= Len(head) THEN head[i] ELSE v[i - Len(head)]
    <3>1. head \in Seq(Nat) /\ v \in Seq(Nat)
      BY <1>2, <1>4
    <3> QED
      BY <3>1, ConcatProperties, Zenon
  <2> QED
    BY <1>4, <2>1
<1>6. \A i \in 1 .. Len(name) : (head \o v)[i] = name[i]
  BY <1>2, <1>4, <1>5
<1>7. (head \o v)[Len(name) + 1] = At
  BY <1>1, <1>2, <1>4, <1>5
<1>8. \A i \in 1 .. Len(v) : (head \o v)[Len(name) + 1 + i] = v[i]
  BY <1>2, <1>5
<1> QED
  BY <1>2, <1>3, <1>5, <1>6, <1>7, <1>8 DEF Strings

\* The order of a name's keys is that of its versions.
LEMMA KeyOrder ==
  ASSUME NEW name \in Strings, NEW v \in Strings, NEW w \in Strings,
         LexLess(Key(name, v), Key(name, w))
  PROVE  LexLess(v, w)
<1> DEFINE p == Len(name) + 1
<1>1. PICK n \in 0 .. Len(Key(name, v)) :
        /\ n <= Len(Key(name, w)) /\ \A i \in 1 .. n : Key(name, v)[i] = Key(name, w)[i]
        /\ \/ n = Len(Key(name, v)) /\ n < Len(Key(name, w))
           \/ /\ n < Len(Key(name, v)) /\ n < Len(Key(name, w))
              /\ Key(name, v)[n + 1] < Key(name, w)[n + 1]
  BY DEF LexLess
<1>2. /\ p \in Nat /\ p > 0 /\ Len(v) \in Nat /\ Len(w) \in Nat
      /\ Len(Key(name, v)) = p + Len(v) /\ Len(Key(name, w)) = p + Len(w)
      /\ \A i \in 1 .. p : Key(name, v)[i] = Key(name, w)[i]
      /\ \A i \in 1 .. Len(v) : Key(name, v)[p + i] = v[i]
      /\ \A i \in 1 .. Len(w) : Key(name, w)[p + i] = w[i]
  <2>1. /\ Len(name) \in Nat /\ Len(v) \in Nat
        /\ Len(Key(name, v)) = Len(name) + 1 + Len(v)
        /\ \A i \in 1 .. Len(name) : Key(name, v)[i] = name[i]
        /\ Key(name, v)[Len(name) + 1] = At
        /\ \A i \in 1 .. Len(v) : Key(name, v)[Len(name) + 1 + i] = v[i]
    BY KeyIs
  <2>2. /\ Len(w) \in Nat
        /\ Len(Key(name, w)) = Len(name) + 1 + Len(w)
        /\ \A i \in 1 .. Len(name) : Key(name, w)[i] = name[i]
        /\ Key(name, w)[Len(name) + 1] = At
        /\ \A i \in 1 .. Len(w) : Key(name, w)[Len(name) + 1 + i] = w[i]
    BY KeyIs
  <2>3. ASSUME NEW i \in 1 .. p
        PROVE  Key(name, v)[i] = Key(name, w)[i]
    <3>1. i = Len(name) + 1 \/ i \in 1 .. Len(name)
      BY <2>1
    <3> QED
      BY <2>1, <2>2, <3>1
  <2> QED
    BY <2>1, <2>2, <2>3
<1>3. \A i \in 1 .. Len(w) : w[i] \in Nat
  BY DEF Strings
<1>4. \A i \in 1 .. Len(v) : v[i] \in Nat
  BY DEF Strings
<1> HIDE DEF p
<1>5. n >= p
  <2>1. SUFFICES ASSUME n < p
                 PROVE  FALSE
    BY <1>2
  <2>2. n + 1 \in 1 .. p /\ n < Len(Key(name, v)) /\ n < Len(Key(name, w))
    BY <1>2, <2>1
  <2>3. Key(name, v)[n + 1] = Key(name, w)[n + 1] /\ Key(name, v)[n + 1] < Key(name, w)[n + 1]
    BY <1>1, <1>2, <2>2
  <2>4. Key(name, v)[n + 1] \in Nat
    <3>1. Key(name, v) \in Seq(Nat) /\ n + 1 \in 1 .. Len(Key(name, v))
      BY <1>2, <2>2, KeyIs DEF Strings
    <3> QED
      BY <3>1, ElementOfSeq
  <2> QED
    BY <2>3, <2>4
<1>6. n - p \in 0 .. Len(v) /\ n - p <= Len(w)
  BY <1>1, <1>2, <1>5
<1>7. \A i \in 1 .. n - p : v[i] = w[i]
  <2>1. ASSUME NEW i \in 1 .. n - p
        PROVE  p + i \in 1 .. n /\ i \in 1 .. Len(v) /\ i \in 1 .. Len(w)
    BY <1>2, <1>5, <1>6
  <2> QED
    BY <1>1, <1>2, <2>1
<1>8. CASE n = Len(Key(name, v)) /\ n < Len(Key(name, w))
  <2>1. n - p = Len(v) /\ n - p < Len(w)
    BY <1>2, <1>5, <1>8
  <2> QED
    BY <1>6, <1>7, <2>1 DEF LexLess
<1>9. CASE /\ n < Len(Key(name, v)) /\ n < Len(Key(name, w))
           /\ Key(name, v)[n + 1] < Key(name, w)[n + 1]
  <2>1. /\ n - p < Len(v) /\ n - p < Len(w)
        /\ n - p + 1 \in 1 .. Len(v) /\ n - p + 1 \in 1 .. Len(w) /\ n + 1 = p + (n - p + 1)
    BY <1>2, <1>5, <1>9
  <2>2. v[n - p + 1] < w[n - p + 1]
    BY <1>2, <1>9, <2>1
  <2> QED
    BY <1>6, <1>7, <2>1, <2>2 DEF LexLess
<1> QED
  BY <1>1, <1>8, <1>9

\* Of a name without a separator the key has it for its prefix, ...
LEMMA KeyPrefix ==
  ASSUME NEW name \in Strings, NEW v \in Strings, NoAt(name)
  PROVE  Prefix(Key(name, v)) = name
<1> DEFINE key == Key(name, v)
           FirstAt(i) == key[i] = At /\ \A j \in 1 .. i - 1 : key[j] # At
<1>1. /\ DOMAIN key = 1 .. Len(name) + 1 + Len(v) /\ DOMAIN name = 1 .. Len(name)
      /\ Len(name) \in Nat /\ Len(v) \in Nat
      /\ \A i \in 1 .. Len(name) : key[i] = name[i]
      /\ key[Len(name) + 1] = At
  BY KeyIs DEF Strings
<1>2. \A i \in 1 .. Len(name) : key[i] # At
  BY <1>1 DEF NoAt
<1> HIDE DEF key
<1>3. Len(name) + 1 \in DOMAIN key /\ FirstAt(Len(name) + 1)
  BY <1>1, <1>2
<1>4. ASSUME NEW i \in DOMAIN key, FirstAt(i)
      PROVE  i = Len(name) + 1
  <2>1. CASE i <= Len(name)
    BY <1>1, <1>2, <1>4, <2>1
  <2>2. CASE i > Len(name) + 1
    <3>1. Len(name) + 1 \in 1 .. i - 1
      BY <1>1, <2>2
    <3> QED
      BY <1>1, <1>4, <3>1
  <2> QED
    BY <1>1, <2>1, <2>2
<1> DEFINE first == CHOOSE i \in DOMAIN key : FirstAt(i)
<1>5. Prefix(key) = SubSeq(key, 1, first - 1)
  BY DEF Prefix
<1>6. Prefix(key) = SubSeq(key, 1, Len(name))
  <2>1. first = Len(name) + 1
    BY <1>3, <1>4
  <2>2. first - 1 = Len(name)
    <3> HIDE DEF first
    <3> QED
      BY <1>1, <2>1
  <2> QED
    BY <1>5, <2>2
<1>7. /\ SubSeq(key, 1, Len(name)) \in Seq(Nat)
      /\ Len(SubSeq(key, 1, Len(name))) = Len(name)
      /\ \A i \in 1 .. Len(name) : SubSeq(key, 1, Len(name))[i] = key[i]
  <2>1. \A i \in 1 .. Len(name) : key[i] \in Nat
    BY <1>1 DEF Strings
  <2>2. /\ SubSeq(key, 1, Len(name)) \in Seq(Nat)
        /\ Len(SubSeq(key, 1, Len(name))) = IF 1 <= Len(name) THEN Len(name) - 1 + 1 ELSE 0
        /\ \A i \in 1 .. Len(name) - 1 + 1 : SubSeq(key, 1, Len(name))[i] = key[1 + i - 1]
    BY <1>1, <2>1, SubSeqProperties
  <2> QED
    BY <1>1, <2>2
<1> QED
  BY <1>1, <1>6, <1>7, SeqEqual DEF key, Strings

\* ... so that name and version are determined by it.
LEMMA KeyDetermines ==
  ASSUME NEW name \in Strings, NEW v \in Strings, NoAt(name),
         NEW other \in Strings, NEW w \in Strings, NoAt(other),
         Key(name, v) = Key(other, w)
  PROVE  name = other /\ v = w
<1>1. name = other
  BY KeyPrefix
<1>2. Len(v) = Len(w) /\ \A i \in 1 .. Len(v) : v[i] = w[i]
  <2>1. /\ Len(name) \in Nat /\ Len(v) \in Nat
        /\ Len(Key(name, v)) = Len(name) + 1 + Len(v)
        /\ \A i \in 1 .. Len(v) : Key(name, v)[Len(name) + 1 + i] = v[i]
    BY KeyIs
  <2>2. /\ Len(w) \in Nat
        /\ Len(Key(name, w)) = Len(name) + 1 + Len(w)
        /\ \A i \in 1 .. Len(w) : Key(name, w)[Len(name) + 1 + i] = w[i]
    BY KeyIs
  <2> QED
    BY <1>1, <2>1, <2>2
<1> QED
  BY <1>1, <1>2, SeqEqual DEF Strings

-------------------------------------------------------------------------------
(* Loading *)

\* What a scan takes up; of a single file it is all there is.
Loadable == {p \in sound : /\ p.layout # "stray"
                           /\ source = "directory/" => p.layout = "versioned"}

\* models_ is made of the files of S, each under its own name and version.
MadeOf(S) ==
  /\ DOMAIN models = {Claim(p) : p \in S}
  /\ \A k \in DOMAIN models : models[k] \in S /\ Claim(models[k]) = k

Given ==
  /\ source \in {"model", "missing model", "directory", "directory/", "missing directory",
                 "missing default directory"}
  /\ tree \subseteq Paths /\ sound \subseteq tree
  /\ source = "model" => \E p \in Paths : tree = {p} /\ p.layout = "flat"
  /\ source \notin Directories \union {"model"} => tree = {}

\* A scan has made models_ of what it has visited; when the loading is over it is
\* made of all that can be loaded.
LoadInv ==
  /\ Given
  /\ phase \in {"loading", "batching", "serving", "failed"}
  /\ phase = "loading" =>
       IF source \in Directories THEN MadeOf(Loadable \ unvisited) ELSE models = <<>>
  /\ phase \in {"batching", "serving"} => MadeOf(Loadable)
  /\ phase = "failed" =>
       \/ source = "missing directory"
       \/ source \in {"model", "missing model"} /\ sound = {}

LEMMA InitLoadInv ==
  ASSUME Init
  PROVE  LoadInv
<1>1. Given
  BY SourcesAssumption DEF Init, Given, Directories
<1>2. MadeOf(Loadable \ unvisited)
  <2>1. Loadable \ unvisited = {}
    BY DEF Init, Loadable
  <2>2. DOMAIN models = {}
    <3>1. models = << >>
      BY DEF Init
    <3> QED
      BY <3>1, EmptyDomain, Zenon
  <2> QED
    BY <2>1, <2>2 DEF MadeOf
<1> QED
  BY <1>1, <1>2 DEF Init, LoadInv

\* The scan, whatever it visits next: a file that claims what another one has
\* claimed takes its place.
LEMMA VisitLoads ==
  ASSUME LoadInv, NEW p \in Paths, Visit(p)
  PROVE  MadeOf(Loadable \ unvisited)'
<1>1. source \in Directories /\ MadeOf(Loadable \ unvisited)
  BY DEF LoadInv, Visit
<1>2. UNCHANGED Loadable /\ unvisited' = unvisited \ {p} /\ p \in unvisited
  BY DEF Visit, given, Loadable
<1>3. CASE p \in Loadable
  <2>1. models' = With(models, Claim(p), p)
    <3>1. Recognised(p) /\ p \in sound
      BY <1>1, <1>3 DEF Recognised, Paths, Loadable, Directories
    <3> QED
      BY <3>1 DEF Visit, Claim
  <2>2. (Loadable \ unvisited)' = (Loadable \ unvisited) \union {p}
    BY <1>2, <1>3
  <2>0. /\ DOMAIN models' = DOMAIN models \union {Claim(p)}
        /\ models'[Claim(p)] = p
        /\ \A z \in DOMAIN models : z # Claim(p) => models'[z] = models[z]
    <3>1. /\ DOMAIN With(models, Claim(p), p) = DOMAIN models \union {Claim(p)}
          /\ With(models, Claim(p), p)[Claim(p)] = p
          /\ \A z \in DOMAIN models : z # Claim(p) => With(models, Claim(p), p)[z] = models[z]
      BY DEF With
    <3> QED
      BY <2>1, <3>1, Zenon
  <2>3. DOMAIN models' = {Claim(q) : q \in (Loadable \ unvisited)'}
    BY <1>1, <2>0, <2>2 DEF MadeOf
  <2>4. ASSUME NEW k \in DOMAIN models'
        PROVE  models'[k] \in (Loadable \ unvisited)' /\ Claim(models'[k]) = k
    <3>1. CASE k = Claim(p)
      BY <2>0, <2>2, <3>1
    <3>2. CASE k # Claim(p)
      <4>1. k \in DOMAIN models /\ models'[k] = models[k]
        BY <2>0, <2>4, <3>2
      <4> QED
        BY <1>1, <2>2, <4>1 DEF MadeOf
    <3> QED
      BY <3>1, <3>2
  <2> QED
    BY <2>3, <2>4 DEF MadeOf, Claim
<1>4. CASE p \notin Loadable
  <2>1. models' = models
    BY <1>4 DEF Visit, Recognised, Loadable, Directories
  <2>2. (Loadable \ unvisited)' = Loadable \ unvisited
    BY <1>2, <1>4
  <2> QED
    BY <1>1, <2>1, <2>2 DEF MadeOf, Claim
<1> QED
  BY <1>3, <1>4

\* Of one file there is one model, or none if it does not load.
LEMMA FileLoads ==
  ASSUME LoadInv, LoadFile
  PROVE  LoadInv'
<1>1. /\ Given' /\ source' = source /\ source \in {"model", "missing model"} /\ sound' = sound
      /\ source \notin Directories
  BY DEF LoadInv, Given, LoadFile, given, Directories
<1>2. CASE sound = {} /\ Fatal
  BY <1>1, <1>2 DEF Fatal, LoadInv
<1>3. ASSUME NEW p \in sound, Loaded(With(<<>>, <<p.name, One>>, p))
      PROVE  LoadInv'
  <2>1. tree = {p} /\ p \in Paths /\ p.layout = "flat"
    BY <1>1, <1>3 DEF LoadInv, Given
  <2>2. sound = {p} /\ p.version = One
    BY <1>3, <2>1 DEF LoadInv, Given, Paths
  <2>3. Loadable' = {p} /\ Claim(p) = <<p.name, One>>
    BY <1>1, <2>1, <2>2 DEF Loadable, Claim, Directories
  <2>4. models' = With(<<>>, Claim(p), p) /\ phase' = "batching"
    BY <1>3, <2>3 DEF Loaded
  <2>5. MadeOf(Loadable)'
    <3>1. DOMAIN models' = {Claim(p)} /\ models'[Claim(p)] = p
      BY <2>4, EmptyDomain DEF With
    <3> QED
      BY <2>3, <3>1 DEF MadeOf, Claim
  <2> QED
    BY <1>1, <2>4, <2>5 DEF LoadInv
<1> QED
  BY <1>2, <1>3 DEF LoadFile

LEMMA LoadInvNext == LoadInv /\ [Next]_vars => LoadInv'
<1> SUFFICES ASSUME LoadInv, [Next]_vars
             PROVE  LoadInv'
  OBVIOUS
<1>1. CASE LoadFile
  BY <1>1, FileLoads
<1>2. CASE NoDirectory
  <2>1. Given' /\ source' = source /\ Loadable' = {}
    BY <1>2 DEF LoadInv, Given, NoDirectory, given, Loadable, Directories
  <2>2. CASE source = "missing directory" /\ Fatal
    BY <2>1, <2>2 DEF Fatal, LoadInv
  <2>3. CASE source = "missing default directory" /\ Loaded(<<>>)
    <3>1. models' = << >> /\ phase' = "batching"
      BY <2>3 DEF Loaded
    <3>2. DOMAIN models' = {}
      BY <3>1, EmptyDomain, Zenon
    <3> QED
      BY <2>1, <2>3, <3>1, <3>2 DEF LoadInv, MadeOf
  <2> QED
    BY <1>2, <2>2, <2>3 DEF NoDirectory
<1>3. CASE FinishScan
  <2>1. Given' /\ phase' = "batching" /\ models' = models /\ UNCHANGED Loadable
    BY <1>3 DEF LoadInv, Given, FinishScan, given, Loaded, Loadable
  <2>2. MadeOf(Loadable)
    <3>1. MadeOf(Loadable \ unvisited) /\ unvisited = {}
      BY <1>3 DEF LoadInv, FinishScan
    <3>2. Loadable \ unvisited = Loadable
      BY <3>1
    <3> QED
      BY <3>1, <3>2
  <2>3. MadeOf(Loadable)'
    BY <2>1, <2>2 DEF MadeOf, Claim
  <2> QED
    BY <2>1, <2>3 DEF LoadInv
<1>4. ASSUME NEW p \in Paths, Visit(p)
      PROVE  LoadInv'
  <2>1. Given' /\ phase' = "loading" /\ source' \in Directories
    BY <1>4 DEF LoadInv, Given, Visit, given
  <2> QED
    BY <1>4, <2>1, VisitLoads DEF LoadInv
<1>5. CASE Serve \/ (\E name \in Names : MakeBatchers(name)) \/ UNCHANGED vars
  <2>1. /\ UNCHANGED <<given, models, unvisited>>
        /\ phase' = phase \/ (phase = "batching" /\ phase' = "serving")
    BY <1>5 DEF Serve, MakeBatchers, vars, given
  <2>2. UNCHANGED <<Loadable, source, sound>> /\ Given'
    BY <2>1 DEF LoadInv, Given, given, Loadable
  <2>3. phase \in {"batching", "serving"} => MadeOf(Loadable)'
    BY <2>1, <2>2 DEF LoadInv, MadeOf, Claim
  <2>4. phase = "loading" /\ source \in Directories => MadeOf(Loadable \ unvisited)'
    BY <2>1, <2>2 DEF LoadInv, MadeOf, Claim
  <2> QED
    BY <2>1, <2>2, <2>3, <2>4 DEF LoadInv
<1> QED
  BY <1>1, <1>2, <1>3, <1>4, <1>5 DEF Next

LEMMA LoadInvServes == LoadInv /\ source # "directory/" => ServesWhatIsThere
BY DEF LoadInv, ServesWhatIsThere, MadeOf, Loadable

\* What is served is what can be loaded from the two documented layouts, each file
\* under its own name and version, for any tree of files and whatever the order in
\* which the directory is walked (ModelRegistry::load), unless the directory's name
\* ends in a slash.
THEOREM ServesWhatIsThereAlways ==
  ASSUME "directory/" \notin Sources
  PROVE  Spec => []ServesWhatIsThere
<1> DEFINE Plain == source # "directory/"
<1>1. Init => LoadInv /\ Plain
  BY InitLoadInv DEF Init
<1>2. Plain /\ [Next]_vars => Plain'
  BY DEF Next, LoadFile, NoDirectory, FinishScan, Serve, Visit, MakeBatchers, given, vars
<1>3. LoadInv /\ Plain => ServesWhatIsThere
  BY LoadInvServes
<1> HIDE DEF Plain
<1> QED
  BY <1>1, <1>2, <1>3, LoadInvNext, PTL DEF Spec

-------------------------------------------------------------------------------
(* Batching *)

\* A Batcher is due to the models of this name, and made.
Batched(name) == cfg.batching /\ name \notin unbatched /\ BatchSize(name) > 1

Registered ==
  /\ DOMAIN batchers = {Key(k[1], k[2]) : k \in {l \in DOMAIN models : Batched(l[1])}}
  /\ \A k \in DOMAIN models : Batched(k[1]) =>
       batchers[Key(k[1], k[2])] = [name |-> k[1], version |-> k[2], model |-> models[k]]

BatchInv ==
  /\ DOMAIN models \subseteq Names \X (Versions \union {One})
  /\ IsFiniteSet(DOMAIN models)
  /\ cfg.batching \in BOOLEAN /\ \A name \in Names : BatchSize(name) \in Int
  /\ phase = "loading" => unbatched = {} /\ batchers = << >>
  /\ unbatched # {} => cfg.batching
  /\ phase \in {"batching", "serving"} => Registered
  /\ phase = "serving" => unbatched = {}

\* The separator is in no name, which the code does not make sure of.
NoNameHasAt == \A name \in Names : NoAt(name)

LEMMA InitBatchInv ==
  ASSUME Init
  PROVE  BatchInv
<1>1. models = << >> /\ phase = "loading" /\ unbatched = {} /\ batchers = << >> /\ cfg \in Configs
  BY DEF Init
<1>2. DOMAIN models = {}
  BY <1>1, EmptyDomain, Zenon
<1>3. IsFiniteSet(DOMAIN models)
  BY <1>2, FS_EmptySet
<1>4. cfg.batching \in BOOLEAN /\ \A name \in Names : BatchSize(name) \in Int
  BY <1>1, ConfigsAssumption DEF BatchSize, Batching
<1> QED
  BY <1>1, <1>2, <1>3, <1>4 DEF BatchInv

\* The keys of models_.
LEMMA KeyOfModel ==
  ASSUME BatchInv, NEW k \in DOMAIN models
  PROVE  /\ k = <<k[1], k[2]>> /\ k[1] \in Names /\ k[2] \in Versions \union {One}
         /\ k[1] \in Strings /\ k[2] \in Strings /\ k[2] # << >>
<1>1. k \in Names \X (Versions \union {One})
  BY DEF BatchInv
<1>2. One \in Strings /\ One # << >>
  BY DEF One, Strings
<1> QED
  BY <1>1, <1>2, NamesAssumption

LEMMA VersionsOfModel ==
  ASSUME BatchInv, NEW name \in Names
  PROVE  /\ VersionsOf(name) \in SUBSET Strings /\ IsFiniteSet(VersionsOf(name))
         /\ \A v : v \in VersionsOf(name) <=> <<name, v>> \in DOMAIN models
         /\ \A v \in VersionsOf(name) : v # << >> /\ Model(name, v) = models[<<name, v>>]
<1>1. \A v : v \in VersionsOf(name) <=> <<name, v>> \in DOMAIN models
  <2>1. ASSUME NEW v, v \in VersionsOf(name)
        PROVE  <<name, v>> \in DOMAIN models
    <3>1. PICK k \in DOMAIN models : k[1] = name /\ v = k[2]
      BY <2>1 DEF VersionsOf
    <3> QED
      BY <3>1, KeyOfModel
  <2>2. ASSUME NEW v, <<name, v>> \in DOMAIN models
        PROVE  v \in VersionsOf(name)
    BY <2>2 DEF VersionsOf
  <2> QED
    BY <2>1, <2>2
<1>2. \A v \in VersionsOf(name) : v \in Strings /\ v # << >>
  <2> SUFFICES ASSUME NEW v \in VersionsOf(name)
               PROVE  v \in Strings /\ v # << >>
    OBVIOUS
  <2>1. <<name, v>> \in DOMAIN models
    BY <1>1
  <2> QED
    BY <2>1, KeyOfModel
<1>3. IsFiniteSet(VersionsOf(name))
  <2> DEFINE mine == {k \in DOMAIN models : k[1] = name}
             version == [k \in mine |-> k[2]]
  <2>1. IsFiniteSet(mine)
    BY FS_Subset DEF BatchInv
  <2>2. version \in Surjection(mine, VersionsOf(name))
    BY DEF Surjection, VersionsOf
  <2> HIDE DEF mine, version
  <2> QED
    BY <2>1, <2>2, FS_Surjection
<1>4. \A v \in VersionsOf(name) : Model(name, v) = models[<<name, v>>]
  BY <1>2 DEF Model, Resolved
<1> QED
  BY <1>1, <1>2, <1>3, <1>4

\* The constructor's loop body, for one name.
LEMMA MakeRegisters ==
  ASSUME BatchInv, NoNameHasAt, NEW name \in Names, MakeBatchers(name)
  PROVE  Registered'
<1>1. /\ phase = "batching" /\ name \in unbatched /\ unbatched' = unbatched \ {name}
      /\ UNCHANGED <<cfg, models>> /\ Registered
  BY DEF MakeBatchers, given, BatchInv
<1>2. \A n \in Names : BatchSize(n)' = BatchSize(n)
  BY <1>1 DEF BatchSize
<1>3. \A n \in Names : n # name => (Batched(n)' <=> Batched(n))
  BY <1>1, <1>2 DEF Batched
<1>4. ~Batched(name)
  BY <1>1 DEF Batched
<1>5. \A k \in DOMAIN models : k[1] \in Names
  BY KeyOfModel
<1>6. CASE BatchSize(name) <= 1
  <2>1. batchers' = batchers
    BY <1>6 DEF MakeBatchers
  <2>2. ~Batched(name)'
    BY <1>2, <1>6 DEF BatchInv, Batched
  <2>3. \A k \in DOMAIN models : Batched(k[1])' <=> Batched(k[1])
    BY <1>3, <1>4, <1>5, <2>2
  <2> QED
    BY <1>1, <2>1, <2>3 DEF Registered
<1>7. CASE ~(BatchSize(name) <= 1)
  <2> DEFINE new == Batchers(name)
             keys == {Key(b.name, b.version) : b \in new}
             Due(v) == [name |-> name, version |-> v, model |-> models[<<name, v>>]]
  <2>1. batchers' = [k \in DOMAIN batchers \union keys |->
                       IF k \in keys THEN CHOOSE b \in new : Key(b.name, b.version) = k
                       ELSE batchers[k]]
    BY <1>7 DEF MakeBatchers
  <2>2. new = {Due(v) : v \in VersionsOf(name)}
    BY VersionsOfModel DEF Batchers
  <2>3. name \in Strings /\ NoAt(name) /\ \A v \in VersionsOf(name) : v \in Strings
    BY VersionsOfModel, NamesAssumption DEF NoNameHasAt
  <2>4. keys = {Key(name, v) : v \in VersionsOf(name)}
    <3>1. ASSUME NEW v \in VersionsOf(name)
          PROVE  Key(name, v) \in keys
      <4>1. Due(v) \in new /\ Due(v).name = name /\ Due(v).version = v
        BY <2>2
      <4> HIDE DEF new, Due
      <4> QED
        BY <4>1
    <3>2. ASSUME NEW b \in new
          PROVE  \E v \in VersionsOf(name) : Key(b.name, b.version) = Key(name, v)
      <4>1. PICK v \in VersionsOf(name) : b = Due(v)
        BY <2>2
      <4>2. b.name = name /\ b.version = v
        BY <4>1
      <4> QED
        BY <4>2
    <3> HIDE DEF new
    <3> QED
      BY <3>1, <3>2
  <2>5. ASSUME NEW v \in VersionsOf(name)
        PROVE  (CHOOSE b \in new : Key(b.name, b.version) = Key(name, v)) = Due(v)
    <3>1. Due(v) \in new /\ Key(Due(v).name, Due(v).version) = Key(name, v)
      BY <2>2
    <3>2. ASSUME NEW b \in new, Key(b.name, b.version) = Key(name, v)
          PROVE  b = Due(v)
      <4>1. PICK w \in VersionsOf(name) : b = Due(w)
        BY <2>2
      <4>2. Key(name, w) = Key(name, v)
        BY <3>2, <4>1
      <4>3. w = v
        BY <2>3, <4>2, KeyDetermines
      <4> QED
        BY <4>1, <4>3
    <3> HIDE DEF new, Due
    <3> QED
      BY <3>1, <3>2
  <2> HIDE DEF new, keys
  <2>6. Batched(name)'
    <3>1. BatchSize(name) > 1 /\ cfg.batching
      BY <1>1, <1>7 DEF BatchInv
    <3> QED
      BY <1>1, <1>2, <3>1 DEF Batched
  <2>7. \A k \in DOMAIN models : Batched(k[1])' <=> Batched(k[1]) \/ k[1] = name
    BY <1>3, <1>5, <2>6
  <2>8. keys = {Key(k[1], k[2]) : k \in {l \in DOMAIN models : l[1] = name}}
    <3>1. ASSUME NEW v \in VersionsOf(name)
          PROVE  Key(name, v) \in {Key(k[1], k[2]) : k \in {l \in DOMAIN models : l[1] = name}}
      <4>1. <<name, v>> \in {l \in DOMAIN models : l[1] = name}
        BY VersionsOfModel
      <4> QED
        BY <4>1
    <3>2. ASSUME NEW k \in DOMAIN models, k[1] = name
          PROVE  Key(k[1], k[2]) \in keys
      BY <2>4, <3>2 DEF VersionsOf
    <3> QED
      BY <2>4, <3>1, <3>2
  <2>9. DOMAIN batchers' = {Key(k[1], k[2]) : k \in {l \in DOMAIN models' : Batched(l[1])'}}
    <3>1. DOMAIN batchers' = DOMAIN batchers \union keys
      BY <2>1
    <3> QED
      BY <1>1, <2>7, <2>8, <3>1 DEF Registered
  <2>10. ASSUME NEW k \in DOMAIN models, Batched(k[1])'
         PROVE  batchers'[Key(k[1], k[2])] =
                  [name |-> k[1], version |-> k[2], model |-> models[k]]
    <3>1. CASE k[1] = name
      <4>1. k[2] \in VersionsOf(name) /\ k = <<name, k[2]>>
        BY <3>1, KeyOfModel DEF VersionsOf
      <4>2. Key(name, k[2]) \in keys
        BY <2>4, <4>1
      <4>3. batchers'[Key(name, k[2])] = Due(k[2])
        BY <2>1, <2>5, <4>1, <4>2
      <4> QED
        BY <3>1, <4>1, <4>3
    <3>2. CASE k[1] # name
      <4>1. Batched(k[1])
        BY <2>7, <2>10, <3>2
      <4>2. Key(k[1], k[2]) \in DOMAIN batchers
        BY <1>1, <4>1 DEF Registered
      <4>3. Key(k[1], k[2]) \notin keys
        <5>1. ASSUME NEW v \in VersionsOf(name), Key(k[1], k[2]) = Key(name, v)
              PROVE  FALSE
          <6>1. k[1] \in Strings /\ k[2] \in Strings /\ NoAt(k[1])
            BY KeyOfModel DEF NoNameHasAt
          <6> QED
            BY <2>3, <3>2, <5>1, <6>1, KeyDetermines
        <5> QED
          BY <2>4, <5>1
      <4>4. batchers'[Key(k[1], k[2])] = batchers[Key(k[1], k[2])]
        BY <2>1, <4>2, <4>3
      <4> QED
        BY <1>1, <4>1, <4>4 DEF Registered
    <3> QED
      BY <3>1, <3>2
  <2> QED
    BY <1>1, <2>9, <2>10 DEF Registered
<1> QED
  BY <1>6, <1>7

LEMMA BatchInvNext ==
  ASSUME LoadInv, BatchInv, NoNameHasAt, [Next]_vars
  PROVE  BatchInv'
<1>1. UNCHANGED cfg
  BY DEF Next, LoadFile, NoDirectory, FinishScan, Serve, Visit, MakeBatchers, given, vars
<1>2. cfg'.batching \in BOOLEAN /\ \A name \in Names : BatchSize(name)' \in Int
  BY <1>1 DEF BatchInv, BatchSize
<1>3. ASSUME DOMAIN models' = DOMAIN models
      PROVE  IsFiniteSet(DOMAIN models') /\ DOMAIN models' \subseteq Names \X (Versions \union {One})
  BY <1>3 DEF BatchInv
<1>4. ASSUME NEW m, Loaded(m), phase = "loading", models' = m
      PROVE  Registered' /\ (unbatched' # {} => cfg'.batching) /\ phase' = "batching"
  <2>1. batchers' = << >> /\ phase' = "batching"
    BY <1>4 DEF Loaded, BatchInv
  <2>2. DOMAIN batchers' = {}
    BY <2>1, EmptyDomain, Zenon
  <2>3. ASSUME NEW k \in DOMAIN models'
        PROVE  ~Batched(k[1])'
    <3>1. CASE cfg.batching
      <4>1. k[1] \in unbatched'
        BY <1>4, <3>1 DEF Loaded, NamesOf
      <4> QED
        BY <4>1 DEF Batched
    <3>2. CASE ~cfg.batching
      BY <1>1, <3>2 DEF Batched
    <3> QED
      BY <3>1, <3>2
  <2>4. unbatched' # {} => cfg'.batching
    BY <1>1, <1>4 DEF Loaded
  <2> QED
    BY <2>1, <2>2, <2>3, <2>4 DEF Registered
<1>5. CASE FinishScan
  <2>1. Loaded(models) /\ phase = "loading" /\ models' = models
    BY <1>5 DEF FinishScan, Loaded
  <2> QED
    BY <1>2, <1>3, <1>4, <2>1 DEF BatchInv
<1>6. CASE LoadFile
  <2>1. CASE Fatal
    <3>1. models' = models /\ phase' = "failed" /\ phase = "loading" /\ unbatched' = unbatched
      BY <1>6, <2>1 DEF Fatal, LoadFile
    <3> QED
      BY <1>2, <1>3, <3>1 DEF BatchInv
  <2>2. ASSUME NEW p \in sound, Loaded(With(<<>>, <<p.name, One>>, p))
        PROVE  BatchInv'
    <3>1. models' = With(<<>>, <<p.name, One>>, p) /\ phase = "loading"
      BY <1>6, <2>2 DEF LoadFile, Loaded
    <3>2. DOMAIN models' = {<<p.name, One>>}
      BY <3>1, EmptyDomain DEF With
    <3>3. p.name \in Names
      BY DEF LoadInv, Given, Paths
    <3>4. IsFiniteSet(DOMAIN models')
      BY <3>2, FS_Singleton
    <3>5. Registered' /\ (unbatched' # {} => cfg'.batching) /\ phase' = "batching"
      BY <1>4, <2>2, <3>1
    <3> QED
      BY <1>2, <3>2, <3>3, <3>4, <3>5 DEF BatchInv
  <2> QED
    BY <1>6, <2>1, <2>2 DEF LoadFile
<1>7. CASE NoDirectory
  <2>1. CASE Fatal
    <3>1. models' = models /\ phase' = "failed" /\ phase = "loading" /\ unbatched' = unbatched
      BY <1>7, <2>1 DEF Fatal, NoDirectory
    <3> QED
      BY <1>2, <1>3, <3>1 DEF BatchInv
  <2>2. CASE Loaded(<<>>)
    <3>1. models' = << >> /\ phase = "loading"
      BY <1>7, <2>2 DEF NoDirectory, Loaded
    <3>2. DOMAIN models' = {}
      BY <3>1, EmptyDomain, Zenon
    <3>3. IsFiniteSet(DOMAIN models')
      BY <3>2, FS_EmptySet
    <3>4. Registered' /\ (unbatched' # {} => cfg'.batching) /\ phase' = "batching"
      BY <1>4, <2>2, <3>1
    <3> QED
      BY <1>2, <3>2, <3>3, <3>4 DEF BatchInv
  <2> QED
    BY <1>7, <2>1, <2>2 DEF NoDirectory
<1>8. ASSUME NEW p \in Paths, Visit(p)
      PROVE  BatchInv'
  <2>1. phase = "loading" /\ phase' = "loading" /\ unbatched' = unbatched /\ batchers' = batchers
    BY <1>8 DEF Visit
  <2>2. CASE models' = models
    BY <1>2, <1>3, <2>1, <2>2 DEF BatchInv
  <2>3. CASE Recognised(p) /\ models' = With(models, <<p.name, p.version>>, p)
    <3>1. DOMAIN models' = DOMAIN models \union {<<p.name, p.version>>}
      BY <2>3 DEF With
    <3>2. IsFiniteSet(DOMAIN models')
      <4>1. IsFiniteSet(DOMAIN models)
        BY DEF BatchInv
      <4> QED
        BY <3>1, <4>1, FS_AddElement
    <3>3. p.name \in Names /\ p.version \in Versions \union {One}
      BY <2>3 DEF Recognised, Paths
    <3> QED
      BY <1>2, <2>1, <3>1, <3>2, <3>3 DEF BatchInv
  <2> QED
    BY <1>8, <2>2, <2>3 DEF Visit
<1>9. ASSUME NEW name \in Names, MakeBatchers(name)
      PROVE  BatchInv'
  <2>1. /\ phase = "batching" /\ phase' = "batching" /\ models' = models
        /\ unbatched # {} /\ cfg' = cfg
    BY <1>9 DEF MakeBatchers, given
  <2>2. Registered'
    BY <1>9, MakeRegisters
  <2> QED
    BY <1>2, <1>3, <2>1, <2>2 DEF BatchInv
<1>10. CASE Serve \/ UNCHANGED vars
  <2>1. /\ UNCHANGED <<models, unbatched, batchers, cfg>>
        /\ phase' = phase \/ (phase = "batching" /\ phase' = "serving" /\ unbatched = {})
    BY <1>10 DEF Serve, vars, given
  <2>2. phase \in {"batching", "serving"} => Registered'
    BY <2>1 DEF BatchInv, Registered, Batched, BatchSize
  <2> QED
    BY <1>2, <1>3, <2>1, <2>2 DEF BatchInv
<1> QED
  BY <1>5, <1>6, <1>7, <1>8, <1>9, <1>10 DEF Next

-------------------------------------------------------------------------------
(* Lookup *)

\* The keys that a request without a version finds are those of its model, and
\* the last of them is that of the last version.
LEMMA LookupsAgree ==
  ASSUME BatchInv, NoNameHasAt, phase = "serving",
         NEW name \in Names, NEW version \in Versions \union {<< >>, One}
  PROVE  /\ HasBatcher(name, version) <=>
              Found(name, version) /\ cfg.batching /\ BatchSize(name) > 1
         /\ Found(name, version) /\ HasBatcher(name, version) =>
              Batcher(name, version) = [name |-> name, version |-> Resolved(name, version),
                                        model |-> Model(name, version)]
<1>1. Registered /\ unbatched = {}
  BY DEF BatchInv
<1>2. name \in Strings /\ NoAt(name)
  BY NamesAssumption DEF NoNameHasAt
<1>3. Batched(name) <=> cfg.batching /\ BatchSize(name) > 1
  BY <1>1 DEF Batched
<1>4. \A k \in DOMAIN models : k[1] \in Strings /\ k[2] \in Strings /\ NoAt(k[1])
  BY KeyOfModel DEF NoNameHasAt
<1>5. ASSUME NEW v \in Strings
      PROVE  Key(name, v) \in DOMAIN batchers <=> v \in VersionsOf(name) /\ Batched(name)
  <2>1. ASSUME Key(name, v) \in DOMAIN batchers
        PROVE  v \in VersionsOf(name) /\ Batched(name)
    <3>1. PICK k \in DOMAIN models : Batched(k[1]) /\ Key(k[1], k[2]) = Key(name, v)
      BY <1>1, <2>1 DEF Registered
    <3>2. k[1] = name /\ k[2] = v
      BY <1>2, <1>4, <3>1, KeyDetermines
    <3> QED
      BY <3>1, <3>2 DEF VersionsOf
  <2>2. ASSUME v \in VersionsOf(name), Batched(name)
        PROVE  Key(name, v) \in DOMAIN batchers
    <3>1. <<name, v>> \in {l \in DOMAIN models : Batched(l[1])}
      BY <2>2, VersionsOfModel
    <3> QED
      BY <1>1, <3>1 DEF Registered
  <2> QED
    BY <2>1, <2>2
<1>6. ASSUME NEW v \in VersionsOf(name), Batched(name)
      PROVE  batchers[Key(name, v)] =
               [name |-> name, version |-> v, model |-> models[<<name, v>>]]
  <2>1. <<name, v>> \in DOMAIN models
    BY VersionsOfModel
  <2> QED
    BY <1>1, <1>6, <2>1 DEF Registered
<1>7. KeysOf(name) = IF Batched(name) THEN {Key(name, v) : v \in VersionsOf(name)} ELSE {}
  <2>1. ASSUME NEW key \in KeysOf(name)
        PROVE  Batched(name) /\ \E v \in VersionsOf(name) : key = Key(name, v)
    <3>1. PICK k \in DOMAIN models : Batched(k[1]) /\ key = Key(k[1], k[2])
      BY <1>1, <2>1 DEF Registered, KeysOf
    <3>2. k[1] = name
      BY <1>4, <2>1, <3>1, KeyPrefix DEF KeysOf
    <3> QED
      BY <3>1, <3>2 DEF VersionsOf
  <2>2. ASSUME NEW v \in VersionsOf(name), Batched(name)
        PROVE  Key(name, v) \in KeysOf(name)
    <3>1. v \in Strings
      BY VersionsOfModel
    <3> QED
      BY <1>2, <1>5, <2>2, <3>1, KeyPrefix DEF KeysOf
  <2> QED
    BY <2>1, <2>2
<1>8. CASE version # << >>
  <2>1. version \in Strings
    <3>1. One \in Strings
      BY DEF One, Strings
    <3> QED
      BY <1>8, <3>1, NamesAssumption
  <2>2. HasBatcher(name, version) <=> version \in VersionsOf(name) /\ Batched(name)
    BY <1>5, <1>8, <2>1 DEF HasBatcher
  <2>3. Found(name, version) <=> version \in VersionsOf(name)
    BY <1>8 DEF Found
  <2>4. /\ Batcher(name, version) = batchers[Key(name, version)]
        /\ Resolved(name, version) = version
        /\ Model(name, version) = models[<<name, version>>]
    BY <1>8 DEF Batcher, Resolved, Model
  <2> QED
    BY <1>3, <1>6, <2>2, <2>3, <2>4
<1>9. CASE version = << >>
  <2>1. HasBatcher(name, version) <=> VersionsOf(name) # {} /\ Batched(name)
    BY <1>7, <1>9 DEF HasBatcher
  <2>2. Found(name, version) <=> VersionsOf(name) # {}
    BY <1>9 DEF Found
  <2>3. ASSUME VersionsOf(name) # {}, Batched(name)
        PROVE  Batcher(name, version) =
                 [name |-> name, version |-> Resolved(name, version), model |-> Model(name, version)]
    <3> DEFINE last == LexMax(VersionsOf(name))
    <3>1. last \in VersionsOf(name) /\ \A w \in VersionsOf(name) : ~LexLess(last, w)
      BY <2>3, VersionsOfModel, LexMaxIs
    <3>2. VersionsOf(name) \in SUBSET Strings
      BY VersionsOfModel
    <3> HIDE DEF last
    <3>3. KeysOf(name) \in SUBSET Strings
      <4>1. \A v \in VersionsOf(name) : Key(name, v) \in Strings
        BY <1>2, <3>2, KeyIs
      <4> QED
        BY <1>7, <4>1
    <3>4. Key(name, last) \in KeysOf(name)
      BY <1>7, <2>3, <3>1
    <3>5. \A key \in KeysOf(name) : ~LexLess(Key(name, last), key)
      BY <1>2, <1>7, <3>1, <3>2, KeyOrder
    <3>6. LexMax(KeysOf(name)) = Key(name, last)
      BY <3>3, <3>4, <3>5, LexMaxUnique
    <3>7. Batcher(name, version) = batchers[Key(name, last)]
      BY <1>9, <3>6 DEF Batcher
    <3>8. Resolved(name, version) = last /\ Model(name, version) = models[<<name, last>>]
      BY <1>9 DEF Resolved, Model, last
    <3> QED
      BY <1>6, <2>3, <3>1, <3>7, <3>8
  <2> QED
    BY <1>3, <2>1, <2>2, <2>3
<1> QED
  BY <1>8, <1>9

LEMMA BatchInvAgrees == BatchInv /\ NoNameHasAt => BatcherOfTheModel
BY LookupsAgree DEF BatcherOfTheModel

\* As long as no model has the separator in its name, BatcherRegistry::get finds
\* a Batcher exactly for the requests whose model is batched, with or without a
\* version, and it is that of the model ModelRegistry::get finds, for any models,
\* versions and overrides, and whatever the order in which the registry was made.
\* Without that assumption it is not so.
THEOREM BatcherOfTheModelAlways ==
  ASSUME NoNameHasAt
  PROVE  Spec => []BatcherOfTheModel
<1>1. Init => LoadInv /\ BatchInv
  BY InitLoadInv, InitBatchInv
<1>2. LoadInv /\ BatchInv /\ [Next]_vars => LoadInv' /\ BatchInv'
  BY LoadInvNext, BatchInvNext
<1>3. BatchInv => BatcherOfTheModel
  BY BatchInvAgrees
<1> QED
  BY <1>1, <1>2, <1>3, PTL DEF Spec

-------------------------------------------------------------------------------
(* Types *)

\* No Batcher is made before the loading is over.
TypeInv == TypeOK /\ (phase = "loading" => batchers = << >>)

LEMMA WithType ==
  ASSUME NEW f, NEW S, f \in [DOMAIN f -> S], NEW x, NEW y \in S
  PROVE  With(f, x, y) \in [DOMAIN f \union {x} -> S] /\ DOMAIN With(f, x, y) = DOMAIN f \union {x}
BY DEF With

LEMMA NoneMade ==
  ASSUME NEW keys, NEW S
  PROVE  DOMAIN << >> \subseteq keys /\ << >> \in [DOMAIN << >> -> S]
<1>1. DOMAIN << >> = {}
  BY EmptyDomain
<1>2. [x \in {} |-> x] = << >>
  OBVIOUS
<1> QED
  BY <1>1, <1>2

LEMMA TypeInvLoaded ==
  ASSUME TypeInv, phase = "loading", UNCHANGED given, unvisited' \in SUBSET unvisited,
         NEW m, m \in [DOMAIN m -> Paths], DOMAIN m \subseteq Names \X (Versions \union {One}),
         Loaded(m)
  PROVE  TypeInv'
<1>1. NamesOf(m) \subseteq Names
  BY DEF NamesOf
<1>2. phase' = "batching" /\ models' = m /\ batchers' = << >> /\ unbatched' \subseteq Names
  BY <1>1 DEF Loaded, TypeInv
<1>3. source' = source /\ tree' = tree /\ sound' = sound /\ cfg' = cfg
  BY DEF given
<1> QED
  BY <1>2, <1>3, NoneMade DEF TypeInv, TypeOK

LEMMA TypeInvMake ==
  ASSUME TypeInv, NEW name \in Names, MakeBatchers(name)
  PROVE  TypeInv'
<1> DEFINE new  == Batchers(name)
           keys == {Key(b.name, b.version) : b \in new}
           Due  == {Key(k[1], k[2]) : k \in DOMAIN models}
           Made == [name : Names, version : Versions \union {One}, model : Paths]
<1>1. /\ source' = source /\ tree' = tree /\ sound' = sound /\ cfg' = cfg
      /\ phase' = phase /\ phase = "batching" /\ unvisited' = unvisited /\ models' = models
      /\ unbatched' \subseteq Names
  BY DEF MakeBatchers, given, TypeInv, TypeOK
<1>2. \A v \in VersionsOf(name) :
        /\ <<name, v>> \in DOMAIN models /\ v \in Versions \union {One} /\ v # << >>
        /\ Model(name, v) \in Paths
  <2> SUFFICES ASSUME NEW v \in VersionsOf(name)
               PROVE  /\ <<name, v>> \in DOMAIN models /\ v \in Versions \union {One} /\ v # << >>
                      /\ Model(name, v) \in Paths
    OBVIOUS
  <2>1. PICK k \in DOMAIN models : k[1] = name /\ v = k[2]
    BY DEF VersionsOf
  <2>2. k \in Names \X (Versions \union {One})
    BY DEF TypeInv, TypeOK
  <2>3. k = <<name, v>> /\ v \in Versions \union {One}
    BY <2>1, <2>2
  <2>4. v # << >>
    BY <2>3, NamesAssumption DEF One
  <2>5. Model(name, v) = models[k]
    BY <2>3, <2>4 DEF Model, Resolved
  <2>6. models[k] \in Paths
    BY DEF TypeInv, TypeOK
  <2> QED
    BY <2>3, <2>4, <2>5, <2>6
<1>3. \A b \in new : b \in Made /\ Key(b.name, b.version) \in Due
  <2> SUFFICES ASSUME NEW b \in new
               PROVE  b \in Made /\ Key(b.name, b.version) \in Due
    OBVIOUS
  <2>1. PICK v \in VersionsOf(name) : b = [name |-> name, version |-> v, model |-> Model(name, v)]
    BY DEF Batchers
  <2>2. b \in Made /\ b.name = name /\ b.version = v
    BY <1>2, <2>1
  <2>3. <<name, v>> \in DOMAIN models /\ <<name, v>>[1] = name /\ <<name, v>>[2] = v
    BY <1>2
  <2>4. Key(name, v) \in Due
    BY <2>3
  <2> HIDE DEF Due, Made
  <2> QED
    BY <2>2, <2>4
<1>4. batchers \in [DOMAIN batchers -> Made] /\ DOMAIN batchers \subseteq Due
  BY DEF TypeInv, TypeOK
<1>5. batchers' \in [DOMAIN batchers' -> Made] /\ DOMAIN batchers' \subseteq Due
  <2>1. CASE batchers' = batchers
    BY <1>4, <2>1
  <2>2. CASE batchers' = [k \in DOMAIN batchers \union keys |->
                            IF k \in keys
                            THEN CHOOSE b \in new : Key(b.name, b.version) = k
                            ELSE batchers[k]]
    <3>1. ASSUME NEW k \in keys
          PROVE  (CHOOSE b \in new : Key(b.name, b.version) = k) \in Made
      <4>1. \E b \in new : Key(b.name, b.version) = k
        OBVIOUS
      <4>2. (CHOOSE b \in new : Key(b.name, b.version) = k) \in new
        <5> HIDE DEF new, keys
        <5> QED
          BY <4>1
      <4> HIDE DEF new, keys, Made, Due
      <4> QED
        BY <1>3, <4>2
    <3>2. keys \subseteq Due
      <4> HIDE DEF Due, new
      <4> QED
        BY <1>3
    <3> HIDE DEF new, keys, Made, Due
    <3> QED
      BY <1>4, <2>2, <3>1, <3>2
  <2> QED
    BY <2>1, <2>2 DEF MakeBatchers
<1> QED
  BY <1>1, <1>5 DEF TypeInv, TypeOK

LEMMA TypeInvNext == TypeInv /\ [Next]_vars => TypeInv'
<1> SUFFICES ASSUME TypeInv, [Next]_vars
             PROVE  TypeInv'
  OBVIOUS
<1>1. models \in [DOMAIN models -> Paths] /\ DOMAIN models \subseteq Names \X (Versions \union {One})
      /\ sound \subseteq Paths
  BY DEF TypeInv, TypeOK
<1>2. \A p \in Paths : p.name \in Names /\ (p.layout # "stray" => p.version \in Versions \union {One})
  BY DEF Paths
<1>3. ASSUME Fatal, UNCHANGED given, unvisited' \in SUBSET unvisited
      PROVE  TypeInv'
  BY <1>3 DEF Fatal, given, TypeInv, TypeOK
<1>4. << >> \in [DOMAIN << >> -> Paths] /\ DOMAIN << >> = {}
  BY EmptyDomain, NoneMade
<1>5. CASE LoadFile
  <2>1. /\ phase = "loading" /\ UNCHANGED given /\ unvisited' = {}
        /\ (\E p \in sound : Loaded(With(<<>>, <<p.name, One>>, p))) \/ Fatal
    BY <1>5 DEF LoadFile
  <2>2. CASE Fatal
    BY <1>3, <2>1, <2>2
  <2>3. ASSUME NEW p \in sound, Loaded(With(<<>>, <<p.name, One>>, p))
        PROVE  TypeInv'
    <3> DEFINE m == With(<<>>, <<p.name, One>>, p)
    <3>1. p \in Paths /\ p.name \in Names
      BY <1>1, <1>2
    <3>2. m \in [DOMAIN m -> Paths] /\ DOMAIN m = {<<p.name, One>>}
      <4>1. m \in [DOMAIN << >> \union {<<p.name, One>>} -> Paths]
            /\ DOMAIN m = DOMAIN << >> \union {<<p.name, One>>}
        BY <1>4, <3>1 DEF With
      <4> HIDE DEF m
      <4> QED
        BY <1>4, <4>1
    <3>3. Loaded(m)
      BY <2>3
    <3>4. DOMAIN m \subseteq Names \X (Versions \union {One})
      BY <3>1, <3>2
    <3>5. unvisited' \in SUBSET unvisited
      BY <2>1
    <3> HIDE DEF m
    <3> QED
      BY <2>1, <3>2, <3>3, <3>4, <3>5, TypeInvLoaded
  <2> QED
    BY <2>1, <2>2, <2>3
<1>6. CASE NoDirectory
  <2>1. /\ phase = "loading" /\ UNCHANGED given /\ unvisited' = unvisited
        /\ Loaded(<<>>) \/ Fatal
    BY <1>6 DEF NoDirectory
  <2>2. unvisited' \in SUBSET unvisited /\ DOMAIN << >> \subseteq Names \X (Versions \union {One})
    BY <1>4, <2>1
  <2> QED
    BY <1>3, <1>4, <2>1, <2>2, TypeInvLoaded
<1>7. ASSUME NEW p \in Paths, Visit(p)
      PROVE  TypeInv'
  <2>1. /\ source' = source /\ tree' = tree /\ sound' = sound /\ cfg' = cfg
        /\ phase' = "loading" /\ phase = "loading" /\ unvisited' = unvisited \ {p}
        /\ unbatched' = unbatched /\ batchers' = << >>
    BY <1>7 DEF Visit, given, TypeInv
  <2>2. /\ models' \in [DOMAIN models' -> Paths]
        /\ DOMAIN models' \subseteq Names \X (Versions \union {One})
    <3>1. CASE models' = models
      BY <1>1, <3>1
    <3>2. CASE Recognised(p) /\ models' = With(models, <<p.name, p.version>>, p)
      <4>1. p.name \in Names /\ p.version \in Versions \union {One}
        BY <1>2, <3>2 DEF Recognised
      <4>2. models' \in [DOMAIN models \union {<<p.name, p.version>>} -> Paths]
            /\ DOMAIN models' = DOMAIN models \union {<<p.name, p.version>>}
        BY <1>1, <3>2, WithType
      <4> QED
        BY <1>1, <4>1, <4>2
    <3> QED
      BY <1>7, <3>1, <3>2 DEF Visit
  <2> QED
    BY <2>1, <2>2, NoneMade DEF TypeInv, TypeOK
<1>8. CASE FinishScan
  <2>1. /\ phase = "loading" /\ UNCHANGED given /\ unvisited' \in SUBSET unvisited /\ Loaded(models)
    BY <1>8 DEF FinishScan
  <2> QED
    BY <1>1, <2>1, TypeInvLoaded
<1>9. ASSUME NEW name \in Names, MakeBatchers(name)
      PROVE  TypeInv'
  BY <1>9, TypeInvMake
<1>10. CASE Serve
  BY <1>10 DEF Serve, given, TypeInv, TypeOK
<1>11. CASE UNCHANGED vars
  BY <1>11 DEF vars, TypeInv, TypeOK
<1> QED
  BY <1>5, <1>6, <1>7, <1>8, <1>9, <1>10, <1>11 DEF Next

\* Whatever is scanned, in whatever order: the registries hold what their types
\* say, and a Batcher's key is the key of a model that was loaded.
THEOREM RegistriesTypeCorrect == Spec => []TypeOK
<1>1. Init => TypeInv
  BY ConfigsAssumption, NoneMade DEF Init, TypeInv, TypeOK
<1>2. TypeInv => TypeOK
  BY DEF TypeInv
<1> QED
  BY <1>1, <1>2, TypeInvNext, PTL DEF Spec
===============================================================================
