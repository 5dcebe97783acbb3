---------------------------- MODULE ServerMainProofs ----------------------------
(***************************************************************************)
(* Proofs about start-up, for any command lines, environments and             *)
(* configuration files, one launch after the other: a setting comes from the   *)
(* highest source that has it, and the registries are filled with what was    *)
(* chosen, as RegistriesProofs has it of one start.                            *)
(***************************************************************************)
EXTENDS ServerMain, RegistriesProofs

-------------------------------------------------------------------------------
(* Configuration *)

\* What init-config writes reads as the defaults.
LEMMA to_json_is_Defaults == from_file(to_json) = Defaults
<1>1. DOMAIN to_json = DOMAIN Defaults /\ DOMAIN Defaults =
        {"model_dir", "rest_port", "grpc_port", "rest_threads", "grpc_threads",
         "model_n_threads", "run_verification", "batching_enabled", "max_batch_size",
         "batch_timeout_ms", "inference_timeout_ms", "log_level", "server_name",
         "server_version", "model_configs"}
  BY DEF to_json, Defaults
<1>2. to_json.model_configs = << >> /\ Defaults.model_configs = << >>
  BY DEF to_json, Defaults
<1>3. \A key \in DOMAIN Defaults : key # "model_configs" => to_json[key] = Defaults[key]
  BY DEF to_json, Defaults
<1>4. SizesRead(<< >>) = << >>
  <2>1. DOMAIN << >> = {}
    BY EmptyDomain
  <2> QED
    BY <2>1 DEF SizesRead
<1>5. Defaults = [key \in DOMAIN Defaults |-> Defaults[key]]
  BY DEF Defaults
<1>6. CASE to_json = NoFile
  BY <1>6 DEF from_file
<1>7. CASE to_json # NoFile
  <2>1. from_file(to_json) = [key \in DOMAIN Defaults |->
           IF key \notin DOMAIN to_json \intersect Reached(to_json) THEN Defaults[key]
           ELSE IF key = "model_configs" THEN SizesRead(to_json[key]) ELSE to_json[key]]
    BY <1>7 DEF from_file
  <2>2. \A key \in DOMAIN Defaults :
           (IF key \notin DOMAIN to_json \intersect Reached(to_json) THEN Defaults[key]
            ELSE IF key = "model_configs" THEN SizesRead(to_json[key]) ELSE to_json[key])
             = Defaults[key]
    BY <1>2, <1>3, <1>4
  <2> QED
    BY <1>5, <2>1, <2>2
<1> QED
  BY <1>6, <1>7

\* main()'s model_dir_explicit, and what a setting that comes out of all sources
\* tells, agree on whether somebody chose the directory.
LEMMA ExplicitIsChosen ==
  ASSUME NEW l, NEW file
  PROVE  Explicit(l, file) <=>
           \/ "model_dir" \in DOMAIN l.env \/ IsSet(Overrides(l), "model_dir")
           \/ Configured(l, file).model_dir # Defaults.model_dir
<1>1. SUFFICES ASSUME "model_dir" \notin DOMAIN l.env, ~IsSet(Overrides(l), "model_dir")
               PROVE  Configured(l, file)["model_dir"] = from_file(file)["model_dir"]
  BY DEF Explicit, NamesDirectory
<1>2. "model_dir" \in DOMAIN Defaults
  BY DEF Defaults
<1>3. "model_dir" \in DOMAIN from_file(file)
  BY <1>2 DEF from_file
<1> DEFINE c == from_file(file)
           e == WithEnvironment(c, l.env)
<1> HIDE DEF c
<1>4. "model_dir" \in DOMAIN e /\ e["model_dir"] = c["model_dir"]
  BY <1>1, <1>3 DEF WithEnvironment, EnvironmentInts, c
<1> HIDE DEF e
<1>5. WithFlags(e, Overrides(l))["model_dir"] = e["model_dir"]
  BY <1>1, <1>4 DEF WithFlags
<1> QED
  BY <1>4, <1>5 DEF Configured, c, e

-------------------------------------------------------------------------------
(* The command line *)

Flags == {"batching_enabled", "run_verification", "force"}

\* What an option may ask for.
Items == [set : TextOptions, to : STRING] \union [set : IntOptions, to : Int]
           \union [set : Flags, to : BOOLEAN] \union [set : {"exit"}, to : {0, 2}]

\* One step of the loop over the words that Asked stands for.
Parsed(asked, argv, j) ==
  IF j > Len(argv) THEN <<>>
  ELSE LET word  == argv[j]
           taken == IF word.joined THEN word.value
                    ELSE IF j < Len(argv) THEN argv[j + 1].text ELSE ""
           after == asked[IF word.joined THEN j + 1 ELSE j + 2]
       IN IF word.option \in TextOptions \union IntOptions
          THEN IF ~word.joined /\ j = Len(argv) THEN Exit(2)
               ELSE IF word.option \in TextOptions
               THEN << [set |-> word.option, to |-> taken] >> \o after
               ELSE IF taken \notin DOMAIN Numeric THEN Exit(2)
               ELSE << [set |-> word.option, to |-> Numeric[taken]] >> \o after
          ELSE IF word.joined THEN Exit(2)
          ELSE IF word.option \in {"help", "version"} THEN Exit(0)
          ELSE IF word.option \in {"batching", "no_batching"}
          THEN << [set |-> "batching_enabled", to |-> word.option = "batching"] >> \o asked[j + 1]
          ELSE IF word.option = "no_verification"
          THEN << [set |-> "run_verification", to |-> FALSE] >> \o asked[j + 1]
          ELSE IF word.option = "force"
          THEN << [set |-> "force", to |-> TRUE] >> \o asked[j + 1]
          ELSE Exit(2)

LEMMA AskedUnfolds ==
  ASSUME NEW argv, NEW i
  PROVE  Asked(argv, i) =
           (CHOOSE asked : asked = [j \in 1 .. Len(argv) + 2 |-> Parsed(asked, argv, j)])[i]
BY Zenon DEF Asked, Parsed

LEMMA OneMore ==
  ASSUME NEW item \in Items, NEW rest \in Seq(Items)
  PROVE  << item >> \o rest \in Seq(Items)
OBVIOUS

LEMMA ExitType ==
  ASSUME NEW code \in {0, 2}
  PROVE  Exit(code) \in Seq(Items)
<1>1. [set |-> "exit", to |-> code] \in Items
  BY DEF Items
<1> QED
  BY <1>1 DEF Exit

LEMMA ParsedType ==
  ASSUME NEW argv \in Seq(Word), NEW j \in 1 .. Len(argv) + 2, NEW asked,
         j <= Len(argv) => asked[j + 1] \in Seq(Items) /\ asked[j + 2] \in Seq(Items)
  PROVE  Parsed(asked, argv, j) \in Seq(Items)
<1>1. CASE j > Len(argv)
  BY <1>1 DEF Parsed
<1>2. CASE j <= Len(argv)
  <2> DEFINE word  == argv[j]
             taken == IF word.joined THEN word.value
                      ELSE IF j < Len(argv) THEN argv[j + 1].text ELSE ""
             after == asked[IF word.joined THEN j + 1 ELSE j + 2]
  <2>1. Len(argv) \in Nat /\ j \in 1 .. Len(argv) /\ word \in Word
    BY <1>2
  <2>2. word.joined \/ j # Len(argv) => taken \in STRING
    <3>1. \A w \in Word : w.value \in STRING /\ w.text \in STRING
      BY DEF Word
    <3>2. j # Len(argv) => j < Len(argv) /\ argv[j + 1].text \in STRING
      BY <2>1, <3>1
    <3>3. word.value \in STRING
      BY <2>1, <3>1
    <3> HIDE DEF word
    <3> QED
      BY <3>2, <3>3
  <2>3. after \in Seq(Items) /\ asked[j + 1] \in Seq(Items)
    BY <1>2
  <2>4. ~(j > Len(argv))
    BY <2>1
  <2>5. Exit(0) \in Seq(Items) /\ Exit(2) \in Seq(Items)
    BY ExitType
  <2>6. /\ (word.joined \/ j # Len(argv)) /\ word.option \in TextOptions =>
             [set |-> word.option, to |-> taken] \in Items
        /\ word.option \in IntOptions /\ taken \in DOMAIN Numeric =>
             [set |-> word.option, to |-> Numeric[taken]] \in Items
        /\ [set |-> "batching_enabled", to |-> word.option = "batching"] \in Items
        /\ [set |-> "run_verification", to |-> FALSE] \in Items
        /\ [set |-> "force", to |-> TRUE] \in Items
    <3> HIDE DEF word, taken
    <3>1. (word.joined \/ j # Len(argv)) /\ word.option \in TextOptions =>
            [set |-> word.option, to |-> taken] \in Items
      BY <2>2 DEF Items
    <3>2. word.option \in IntOptions /\ taken \in DOMAIN Numeric =>
            [set |-> word.option, to |-> Numeric[taken]] \in Items
      BY NumericAssumption DEF Items
    <3>3. (word.option = "batching") \in BOOLEAN
      OBVIOUS
    <3>4. [set |-> "batching_enabled", to |-> word.option = "batching"] \in Items
      BY <3>3 DEF Items, Flags
    <3> QED
      BY <3>1, <3>2, <3>4 DEF Items, Flags
  <2> DEFINE result ==
        IF word.option \in TextOptions \union IntOptions
        THEN IF ~word.joined /\ j = Len(argv) THEN Exit(2)
             ELSE IF word.option \in TextOptions
             THEN << [set |-> word.option, to |-> taken] >> \o after
             ELSE IF taken \notin DOMAIN Numeric THEN Exit(2)
             ELSE << [set |-> word.option, to |-> Numeric[taken]] >> \o after
        ELSE IF word.joined THEN Exit(2)
        ELSE IF word.option \in {"help", "version"} THEN Exit(0)
        ELSE IF word.option \in {"batching", "no_batching"}
        THEN << [set |-> "batching_enabled", to |-> word.option = "batching"] >> \o asked[j + 1]
        ELSE IF word.option = "no_verification"
        THEN << [set |-> "run_verification", to |-> FALSE] >> \o asked[j + 1]
        ELSE IF word.option = "force"
        THEN << [set |-> "force", to |-> TRUE] >> \o asked[j + 1]
        ELSE Exit(2)
  <2>7. Parsed(asked, argv, j) = result
    BY <2>4 DEF Parsed
  <2> HIDE DEF word, taken, after
  <2>8. /\ (word.joined \/ j # Len(argv)) /\ word.option \in TextOptions =>
             << [set |-> word.option, to |-> taken] >> \o after \in Seq(Items)
        /\ word.option \in IntOptions /\ taken \in DOMAIN Numeric =>
             << [set |-> word.option, to |-> Numeric[taken]] >> \o after \in Seq(Items)
        /\ << [set |-> "batching_enabled", to |-> word.option = "batching"] >> \o asked[j + 1]
             \in Seq(Items)
        /\ << [set |-> "run_verification", to |-> FALSE] >> \o asked[j + 1] \in Seq(Items)
        /\ << [set |-> "force", to |-> TRUE] >> \o asked[j + 1] \in Seq(Items)
    <3>1. \A item \in Items, rest \in Seq(Items) : << item >> \o rest \in Seq(Items)
      BY OneMore
    <3> QED
      BY <2>3, <2>6, <3>1, Zenon
  <2>9. result \in Seq(Items)
    BY <2>5, <2>8, Zenon
  <2> QED
    BY <2>7, <2>9
<1> QED
  BY <1>1, <1>2

\* The settings asked for are a sequence of such items, whatever the words.
LEMMA AskedType ==
  ASSUME NEW argv \in Seq(Word), NEW i \in 1 .. Len(argv) + 2
  PROVE  Asked(argv, i) \in Seq(Items)
<1> DEFINE last == Len(argv) + 2
           Walk(n, f) == /\ f \in [(last - n) .. last -> Seq(Items)]
                         /\ \A j \in (last - n) .. last : f[j] = Parsed(f, argv, j)
           Walked == { n \in 0 .. last - 1 : \E f : Walk(n, f) }
<1>1. Len(argv) \in Nat /\ last \in Nat
  OBVIOUS
<1>2. 0 \in Walked
  <2> DEFINE g == [j \in last .. last |-> << >>]
  <2>1. last > Len(argv) /\ last - 0 = last
    BY <1>1
  <2>2. Walk(0, g)
    <3>1. Parsed(g, argv, last) = << >>
      BY <2>1, Zenon DEF Parsed
    <3>2. << >> \in Seq(Items)
      OBVIOUS
    <3>3. last \in Int /\ \A j \in last .. last : j = last
      BY <1>1
    <3> HIDE DEF last
    <3>4. g \in [last .. last -> Seq(Items)]
      BY <3>2
    <3>5. ASSUME NEW j \in last .. last
          PROVE  g[j] = Parsed(g, argv, j)
      <4>1. j = last /\ g[j] = << >>
        BY <3>3
      <4> QED
        BY <3>1, <4>1, Zenon
    <3> HIDE DEF g
    <3> QED
      BY <2>1, <3>4, <3>5
  <2> HIDE DEF Walk, g
  <2> QED
    BY <1>1, <2>2
<1>3. ASSUME NEW n \in 1 .. last - 1, n - 1 \in Walked
      PROVE  n \in Walked
  <2>1. PICK f : Walk(n - 1, f)
    BY <1>3
  <2> DEFINE m == last - n
             g == [j \in m .. last |-> IF j = m THEN Parsed(f, argv, m) ELSE f[j]]
  <2>2. /\ m \in 1 .. last - 1 /\ last - (n - 1) = m + 1
        /\ \A j \in m .. last : j = m \/ j \in (m + 1) .. last
        /\ \A j \in (m + 1) .. last : j \in m .. last /\ j # m
    BY <1>1, <1>3
  <2>3. \A j \in (m + 1) .. last : f[j] \in Seq(Items) /\ f[j] = Parsed(f, argv, j)
    BY <2>1, <2>2
  <2>4. m <= Len(argv) => m + 1 \in (m + 1) .. last /\ m + 2 \in (m + 1) .. last
    BY <1>1, <2>2
  <2>5. Parsed(f, argv, m) \in Seq(Items)
    <3>1. m \in 1 .. Len(argv) + 2
      BY <1>1, <2>2
    <3>2. m <= Len(argv) => f[m + 1] \in Seq(Items) /\ f[m + 2] \in Seq(Items)
      BY <2>3, <2>4
    <3> HIDE DEF m
    <3> QED
      BY <3>1, <3>2, ParsedType
  <2>6. \A j \in (m + 1) .. last : g[j] = f[j]
    BY <2>2
  <2>7. g[m] = Parsed(f, argv, m)
    BY <2>2
  <2>8. g \in [m .. last -> Seq(Items)]
    BY <2>2, <2>3, <2>5
  <2>9. ASSUME NEW j \in m .. last
        PROVE  g[j] = Parsed(g, argv, j)
    <3>1. CASE j > Len(argv)
      <4>1. Parsed(f, argv, j) = Parsed(g, argv, j)
        BY <3>1 DEF Parsed
      <4> QED
        BY <2>2, <2>3, <2>6, <2>7, <4>1
    <3>2. CASE j <= Len(argv)
      <4>1. j + 1 \in (m + 1) .. last /\ j + 2 \in (m + 1) .. last
        BY <1>1, <2>2, <3>2
      <4>2. g[j + 1] = f[j + 1] /\ g[j + 2] = f[j + 2]
        BY <2>6, <4>1
      <4> HIDE DEF g
      <4>3. Parsed(f, argv, j) = Parsed(g, argv, j)
        BY <4>2 DEF Parsed
      <4> QED
        BY <2>2, <2>3, <2>6, <2>7, <4>3
    <3> QED
      BY <1>1, <2>2, <3>1, <3>2
  <2> HIDE DEF g
  <2>10. Walk(n, g)
    BY <2>8, <2>9
  <2> HIDE DEF Walk
  <2> QED
    BY <1>3, <2>10
<1> HIDE DEF Walked
<1>4. \A n \in 0 .. last - 1 : n \in Walked
  <2>1. last - 1 \in Nat
    BY <1>1
  <2> HIDE DEF last
  <2> QED
    BY <1>2, <1>3, <2>1, NumbersUpTo
<1>5. PICK f : Walk(last - 1, f)
  <2>1. last - 1 \in 0 .. last - 1
    BY <1>1
  <2> HIDE DEF Walk, last
  <2> QED
    BY <1>4, <2>1 DEF Walked
<1>6. f = [j \in 1 .. last |-> Parsed(f, argv, j)]
  <2>1. last - (last - 1) = 1
    BY <1>1
  <2>2. f \in [1 .. last -> Seq(Items)] /\ \A j \in 1 .. last : f[j] = Parsed(f, argv, j)
    BY <1>5, <2>1
  <2> HIDE DEF last
  <2> QED
    BY <2>2
<1> DEFINE c == CHOOSE asked : asked = [j \in 1 .. Len(argv) + 2 |-> Parsed(asked, argv, j)]
<1>7. c = [j \in 1 .. last |-> Parsed(c, argv, j)]
  BY <1>6
<1>8. Asked(argv, i) = c[i]
  BY AskedUnfolds, Zenon
<1> HIDE DEF c
<1> DEFINE Right == { n \in 0 .. last : \A j \in (last - n) .. last : j >= 1 => c[j] \in Seq(Items) }
<1>9. 0 \in Right
  <2>1. last > Len(argv) /\ last \in 1 .. last /\ 0 \in 0 .. last
    BY <1>1
  <2>2. Parsed(c, argv, last) = << >>
    BY <2>1, Zenon DEF Parsed
  <2>3. \A j \in (last - 0) .. last : j = last
    BY <1>1
  <2>4. << >> \in Seq(Items)
    OBVIOUS
  <2> HIDE DEF last
  <2>5. c[last] = << >>
    BY <1>7, <2>1, <2>2
  <2> QED
    BY <2>1, <2>3, <2>4, <2>5
<1>10. ASSUME NEW n \in 1 .. last, n - 1 \in Right
       PROVE  n \in Right
  <2> SUFFICES ASSUME NEW j \in (last - n) .. last, j >= 1
               PROVE  c[j] \in Seq(Items)
    BY <1>1
  <2>1. j \in 1 .. Len(argv) + 2 /\ c[j] = Parsed(c, argv, j)
    BY <1>1, <1>7
  <2>2. j <= Len(argv) => c[j + 1] \in Seq(Items) /\ c[j + 2] \in Seq(Items)
    BY <1>1, <1>10
  <2>3. Parsed(c, argv, j) \in Seq(Items)
    BY <2>1, <2>2, ParsedType, SMTT(30)
  <2> QED
    BY <2>1, <2>3
<1> HIDE DEF Right
<1>11. \A n \in 0 .. last : n \in Right
  <2> HIDE DEF last
  <2> QED
    BY <1>1, <1>9, <1>10, NumbersUpTo
<1>12. last \in Right /\ i \in (last - last) .. last /\ i >= 1
  BY <1>1, <1>11
<1> QED
  BY <1>8, <1>12 DEF Right

LEMMA OverridesType ==
  ASSUME NEW l \in Launches
  PROVE  Overrides(l) \in Seq(Items)
<1>1. l.argv \in Seq(Word)
  BY LaunchesAssumption
<1>2. Len(l.argv) \in Nat /\ (l.argv # <<>> => Len(l.argv) >= 1)
  BY <1>1
<1>3. (IF FirstIsWord(l.argv) THEN 2 ELSE 1) \in 1 .. Len(l.argv) + 2
  BY <1>2 DEF FirstIsWord
<1> QED
  BY <1>1, <1>3, AskedType DEF Overrides

\* There is a last of the options that set something.
LEMMA LastIs ==
  ASSUME NEW items \in Seq(Items), NEW name, IsSet(items, name)
  PROVE  \E i \in DOMAIN items :
           /\ items[i].set = name /\ items[i].to = LastOf(items, name)
           /\ \A j \in DOMAIN items : items[j].set = name => j <= i
<1> DEFINE setting == { i \in DOMAIN items : items[i].set = name }
           behind  == { n \in 0 .. Len(items) : Len(items) - n \in setting }
           Last(i) == items[i].set = name /\ \A j \in DOMAIN items : items[j].set = name => j <= i
<1>1. Len(items) \in Nat /\ DOMAIN items = 1 .. Len(items)
  OBVIOUS
<1>2. behind \in SUBSET Nat /\ behind # {}
  <2>1. PICK i \in DOMAIN items : items[i].set = name
    BY DEF IsSet
  <2>2. Len(items) - i \in 0 .. Len(items) /\ Len(items) - (Len(items) - i) = i
    BY <1>1, <2>1
  <2>3. i \in setting
    BY <2>1
  <2> HIDE DEF setting
  <2>4. Len(items) - i \in behind
    BY <2>2, <2>3
  <2> QED
    BY <1>1, <2>4
<1>3. PICK n \in behind : \A k \in behind : n <= k
  <2> HIDE DEF behind
  <2> QED
    BY <1>2, LeastNumber
<1>4. Len(items) - n \in DOMAIN items /\ Last(Len(items) - n)
  <2>1. n \in 0 .. Len(items) /\ Len(items) - n \in setting
    BY <1>3
  <2>2. ASSUME NEW j \in DOMAIN items, items[j].set = name
        PROVE  j <= Len(items) - n
    <3>1. Len(items) - j \in 0 .. Len(items) /\ Len(items) - (Len(items) - j) = j
      BY <1>1
    <3>2. Len(items) - j \in behind
      BY <2>2, <3>1
    <3>3. n <= Len(items) - j
      BY <1>3, <3>2
    <3> QED
      BY <1>1, <2>1, <3>3
  <2> QED
    BY <2>1, <2>2
<1> DEFINE last == CHOOSE i \in DOMAIN items : Last(i)
<1>5. last \in DOMAIN items /\ Last(last)
  <2> HIDE DEF Last
  <2> QED
    BY <1>4
<1>6. LastOf(items, name) = items[last].to
  BY DEF LastOf
<1> HIDE DEF last
<1> QED
  BY <1>5, <1>6

LEMMA LastType ==
  ASSUME NEW items \in Seq(Items), NEW name, IsSet(items, name)
  PROVE  /\ name = "exit" => LastOf(items, name) \in {0, 2}
         /\ name \in IntOptions => LastOf(items, name) \in Int
         /\ name \in Flags => LastOf(items, name) \in BOOLEAN
<1>1. PICK i \in DOMAIN items : items[i].set = name /\ items[i].to = LastOf(items, name)
  BY LastIs
<1>2. items[i] \in Items
  BY <1>1
<1>3. ASSUME NEW item \in Items
      PROVE  /\ item.set = "exit" => item.to \in {0, 2}
             /\ item.set \in IntOptions => item.to \in Int
             /\ item.set \in Flags => item.to \in BOOLEAN
  BY DEF Items, TextOptions, IntOptions, Flags
<1> QED
  BY <1>1, <1>2, <1>3

-------------------------------------------------------------------------------
(* Where a setting comes from *)

LEMMA ConfiguredIs ==
  ASSUME NEW l, NEW file, NEW key \in DOMAIN Defaults
  PROVE  Configured(l, file)[key] =
           IF IsSet(Overrides(l), key) THEN LastOf(Overrides(l), key)
           ELSE IF key \in DOMAIN l.env \intersect EnvironmentTexts THEN l.env[key]
           ELSE IF key \in DOMAIN l.env \intersect EnvironmentInts /\ l.env[key] \in DOMAIN Numeric
           THEN Numeric[l.env[key]]
           ELSE from_file(file)[key]
<1> DEFINE c == from_file(file)
           e == WithEnvironment(c, l.env)
<1>1. key \in DOMAIN c
  BY DEF from_file
<1> HIDE DEF c
<1>2. /\ key \in DOMAIN e
      /\ e[key] = IF key \in DOMAIN l.env \intersect EnvironmentTexts THEN l.env[key]
                  ELSE IF key \in DOMAIN l.env \intersect EnvironmentInts
                            /\ l.env[key] \in DOMAIN Numeric
                  THEN Numeric[l.env[key]]
                  ELSE c[key]
  BY <1>1 DEF WithEnvironment
<1> HIDE DEF e
<1>3. WithFlags(e, Overrides(l))[key]
        = IF IsSet(Overrides(l), key) THEN LastOf(Overrides(l), key) ELSE e[key]
  BY <1>2 DEF WithFlags
<1> QED
  BY <1>2, <1>3 DEF Configured, c, e

\* What is read of the file, ...
LEMMA FromFileIs ==
  ASSUME NEW file, NEW key \in DOMAIN Defaults
  PROVE  from_file(file)[key] =
           IF file # NoFile /\ key \in DOMAIN file /\ key \in Reached(file)
           THEN IF key = "model_configs" THEN SizesRead(file[key]) ELSE file[key]
           ELSE Defaults[key]
BY DEF from_file

LEMMA ReachedNotBad ==
  ASSUME NEW file, NEW key \in Reached(file), key \in DOMAIN file
  PROVE  file[key] # Bad
<1>1. PICK n \in DOMAIN Keys :
        Keys[n] = key /\ \A k \in 1 .. n : Keys[k] \in DOMAIN file => file[Keys[k]] # Bad
  BY DEF Reached
<1>2. DOMAIN Keys = 1 .. 15
  BY DEF Keys
<1>3. n \in 1 .. n
  BY <1>2
<1> QED
  BY <1>1, <1>3

\* ... and of the models' own sizes.
LEMMA SizesReadType ==
  ASSUME NEW sizes \in Seq([name : Strings, size : Int \union {Bad}])
  PROVE  SizesRead(sizes) \in Seq([name : Strings, size : Int])
<1> DEFINE bad == { i \in DOMAIN sizes : sizes[i].size = Bad }
           Entry == [name : Strings, size : Int]
           first == CHOOSE i \in bad : \A j \in bad : i <= j
<1>1. DOMAIN sizes = 1 .. Len(sizes) /\ Len(sizes) \in Nat
  OBVIOUS
<1>2. \A i \in DOMAIN sizes : i \notin bad => sizes[i] \in Entry
  <2> SUFFICES ASSUME NEW i \in DOMAIN sizes, i \notin bad
               PROVE  sizes[i] \in Entry
    OBVIOUS
  <2>1. sizes[i] \in [name : Strings, size : Int \union {Bad}]
    <3>1. i \in 1 .. Len(sizes)
      BY <1>1
    <3> QED
      BY <3>1, ElementOfSeq
  <2>2. sizes[i].size # Bad
    OBVIOUS
  <2> QED
    BY <2>1, <2>2
<1>3. CASE bad = {}
  <2>1. \A i \in 1 .. Len(sizes) : sizes[i] \in Entry
    BY <1>1, <1>2, <1>3
  <2>2. sizes = [i \in 1 .. Len(sizes) |-> sizes[i]]
    BY <1>1
  <2> HIDE DEF Entry
  <2>3. sizes \in Seq(Entry)
    BY <1>1, <2>1, <2>2
  <2> QED
    BY <1>3, <2>3 DEF SizesRead, Entry
<1>4. CASE bad # {}
  <2>1. \E i \in bad : \A j \in bad : i <= j
    <3>1. bad \in SUBSET Nat
      BY <1>1
    <3> HIDE DEF bad
    <3> QED
      BY <1>4, <3>1, LeastNumber
  <2>2. first \in bad /\ \A j \in bad : first <= j
    <3> HIDE DEF bad
    <3> QED
      BY <2>1
  <2>3. SizesRead(sizes) = SubSeq(sizes, 1, first - 1)
    BY <1>4 DEF SizesRead
  <2>4. first \in 1 .. Len(sizes)
    BY <1>1, <2>2
  <2> HIDE DEF first
  <2>5. first - 1 \in 0 .. Len(sizes) /\ \A i \in 1 .. first - 1 : i \in DOMAIN sizes /\ ~(first <= i)
    BY <1>1, <2>4
  <2>6. \A i \in 1 .. first - 1 : sizes[i] \in Entry
    <3> HIDE DEF bad, Entry
    <3> QED
      BY <1>2, <2>2, <2>5
  <2>7. SubSeq(sizes, 1, first - 1) = [i \in 1 .. first - 1 |-> sizes[i]]
    BY <1>1, <2>5
  <2> HIDE DEF Entry
  <2>8. SubSeq(sizes, 1, first - 1) \in Seq(Entry)
    BY <2>5, <2>6, <2>7
  <2> QED
    BY <2>3, <2>8 DEF Entry
<1> QED
  BY <1>3, <1>4

\* The part of the settings the registries are made of.
LEMMA FromFileType ==
  ASSUME NEW file, WellTyped(file)
  PROVE  /\ from_file(file).batching_enabled \in BOOLEAN
         /\ from_file(file).max_batch_size \in Int
         /\ from_file(file).model_configs \in Seq([name : Strings, size : Int])
<1>1. /\ {"batching_enabled", "max_batch_size", "model_configs"} \subseteq DOMAIN Defaults
      /\ Defaults["batching_enabled"] = FALSE /\ Defaults["max_batch_size"] = 32
      /\ Defaults["model_configs"] = << >>
  BY DEF Defaults
<1> DEFINE Has(key) == file # NoFile /\ key \in DOMAIN file /\ key \in Reached(file)
<1>2. \A key : Has(key) => key \in DOMAIN file /\ file[key] # Bad
  BY ReachedNotBad
<1>3. from_file(file)["batching_enabled"]
        = IF Has("batching_enabled") THEN file["batching_enabled"] ELSE FALSE
  BY <1>1, FromFileIs
<1>4. from_file(file)["max_batch_size"]
        = IF Has("max_batch_size") THEN file["max_batch_size"] ELSE 32
  BY <1>1, FromFileIs
<1>5. from_file(file)["model_configs"]
        = IF Has("model_configs") THEN SizesRead(file["model_configs"]) ELSE << >>
  BY <1>1, FromFileIs
<1>6. Has("batching_enabled") => file["batching_enabled"] \in BOOLEAN
  BY <1>2 DEF WellTyped
<1>7. Has("max_batch_size") => file["max_batch_size"] \in Int
  BY <1>2 DEF WellTyped
<1>8. Has("model_configs") => SizesRead(file["model_configs"]) \in Seq([name : Strings, size : Int])
  BY <1>2, SizesReadType DEF WellTyped
<1>9. << >> \in Seq([name : Strings, size : Int])
  OBVIOUS
<1> HIDE DEF Has
<1>10. from_file(file)["batching_enabled"] \in BOOLEAN
  BY <1>3, <1>6, Zenon
<1>11. from_file(file)["max_batch_size"] \in Int
  <2>1. 32 \in Int
    OBVIOUS
  <2> QED
    BY <1>4, <1>7, <2>1, Zenon
<1>12. from_file(file)["model_configs"] \in Seq([name : Strings, size : Int])
  BY <1>5, <1>8, <1>9, Zenon
<1> QED
  BY <1>10, <1>11, <1>12

LEMMA ConfiguredType ==
  ASSUME NEW l \in Launches, NEW file, WellTyped(file)
  PROVE  /\ Configured(l, file).batching_enabled \in BOOLEAN
         /\ Configured(l, file).max_batch_size \in Int
         /\ Configured(l, file).model_configs \in Seq([name : Strings, size : Int])
<1>1. {"batching_enabled", "max_batch_size", "model_configs"} \subseteq DOMAIN Defaults
  BY DEF Defaults
<1>2. Overrides(l) \in Seq(Items)
  BY OverridesType
<1>3. ~IsSet(Overrides(l), "model_configs")
  <2>1. \A item \in Items : item.set # "model_configs"
    BY DEF Items, TextOptions, IntOptions, Flags
  <2> DEFINE ov == Overrides(l)
  <2>2. \A i \in DOMAIN ov : ov[i] \in Items
    <3> HIDE DEF ov
    <3>1. ov \in Seq(Items)
      BY <1>2 DEF ov
    <3> QED
      BY <3>1
  <2> QED
    BY <2>1, <2>2 DEF IsSet
<1>4. /\ "batching_enabled" \notin EnvironmentTexts \union EnvironmentInts
      /\ "model_configs" \notin EnvironmentTexts \union EnvironmentInts
      /\ "max_batch_size" \notin EnvironmentTexts \union EnvironmentInts
      /\ "batching_enabled" \in Flags /\ "max_batch_size" \in IntOptions
  BY DEF EnvironmentTexts, EnvironmentInts, Flags, IntOptions
<1>5. IsSet(Overrides(l), "batching_enabled") => LastOf(Overrides(l), "batching_enabled") \in BOOLEAN
  BY <1>2, <1>4, LastType
<1>6. IsSet(Overrides(l), "max_batch_size") => LastOf(Overrides(l), "max_batch_size") \in Int
  BY <1>2, <1>4, LastType
<1>7. \A key \in {"batching_enabled", "max_batch_size", "model_configs"} :
        Configured(l, file)[key] =
           IF IsSet(Overrides(l), key) THEN LastOf(Overrides(l), key) ELSE from_file(file)[key]
  BY <1>1, <1>4, ConfiguredIs
<1>8. /\ from_file(file)["batching_enabled"] \in BOOLEAN
      /\ from_file(file)["max_batch_size"] \in Int
      /\ from_file(file)["model_configs"] \in Seq([name : Strings, size : Int])
  BY FromFileType
<1> QED
  BY <1>3, <1>5, <1>6, <1>7, <1>8

LEMMA BatchingOfType ==
  ASSUME NEW l \in Launches, NEW file, WellTyped(file)
  PROVE  BatchingOf(l, file) \in Batching
<1> DEFINE c == Configured(l, file)
           own(n) == { i \in DOMAIN c.model_configs : c.model_configs[i].name = n }
           size(n) == IF own(n) = {} THEN -1
                      ELSE c.model_configs[CHOOSE i \in own(n) : TRUE].size
<1>1. /\ c.batching_enabled \in BOOLEAN /\ c.max_batch_size \in Int
      /\ c.model_configs \in Seq([name : Strings, size : Int])
  BY ConfiguredType
<1>2. BatchingOf(l, file) = [batching |-> c.batching_enabled, max_batch_size |-> c.max_batch_size,
                             override |-> [n \in Names |-> size(n)]]
  BY DEF BatchingOf
<1> HIDE DEF c
<1>3. ASSUME NEW n \in Names
      PROVE  size(n) \in Int
  <2>1. CASE own(n) = {}
    BY <2>1
  <2>2. CASE own(n) # {}
    <3> DEFINE i == CHOOSE i \in own(n) : TRUE
    <3>1. i \in own(n)
      BY <2>2
    <3> HIDE DEF i
    <3>2. i \in 1 .. Len(c.model_configs)
      BY <1>1, <3>1
    <3>3. c.model_configs[i] \in [name : Strings, size : Int]
      BY <1>1, <3>2, ElementOfSeq
    <3>4. size(n) = c.model_configs[i].size
      BY <2>2 DEF i
    <3> QED
      BY <3>3, <3>4
  <2> QED
    BY <2>1, <2>2
<1> HIDE DEF size
<1> QED
  BY <1>1, <1>2, <1>3 DEF Batching

-------------------------------------------------------------------------------
(* Loading, from launch to launch *)

MainInv ==
  /\ phase \in {"off", "exited", "loading", "batching", "serving", "failed"}
  /\ phase \in {"off", "exited"} => models = << >> /\ unbatched = {} /\ batchers = << >>
  /\ Started => LoadInv /\ source = SourceOf(launch, File, there)
  /\ phase = "loading" => unbatched = {} /\ batchers = << >>
  /\ phase \in {"batching", "serving"} =>
       /\ source \in {"model", "directory", "directory/", "missing default directory"}
       /\ source = "model" =>
            \E p \in sound : tree = {p} /\ models = With(<<>>, <<p.name, One>>, p)
       /\ source = "missing default directory" =>
            models = << >> /\ unbatched = {} /\ batchers = << >>

LEMMA InitMainInv == MainInit => MainInv
BY DEF MainInit, MainInv, Started

LEMMA LoadLoads ==
  ASSUME MainInv, phase = "off", NEW l \in Launches, launch' = l, Load(l)
  PROVE  MainInv'
<1>1. /\ phase' = "loading" /\ unvisited' = tree' /\ sound' \subseteq tree'
      /\ UNCHANGED <<models, unbatched, batchers, files>>
      /\ models = << >> /\ unbatched = {} /\ batchers = << >>
  BY DEF Load, MainInv
<1>2. source' = SourceOf(l, Content(ConfigPath(l)), there')
  BY DEF Load
<1>3. Content(ConfigPath(l))' = Content(ConfigPath(l)) /\ File' = Content(ConfigPath(l))
  BY <1>1 DEF Content, File
<1>4. source' = SourceOf(launch', File', there')
  BY <1>2, <1>3
<1>5. Given'
  <2>1. source' \in {"model", "missing model", "directory", "directory/", "missing directory",
                     "missing default directory"}
    BY <1>2 DEF SourceOf
  <2>2. /\ tree' \in SUBSET Paths
        /\ source' = "model" => \E p \in Paths : tree' = {p} /\ p.layout = "flat"
        /\ source' \notin Directories \union {"model"} => tree' = {}
    BY DEF Load
  <2> QED
    BY <1>1, <2>1, <2>2 DEF Given
<1>6. MadeOf(Loadable \ unvisited)'
  <2>1. (Loadable \ unvisited)' = {}
    BY <1>1 DEF Loadable
  <2>2. DOMAIN models' = {}
    BY <1>1, EmptyDomain, Zenon
  <2> QED
    BY <2>1, <2>2 DEF MadeOf
<1>7. LoadInv'
  BY <1>1, <1>5, <1>6 DEF LoadInv
<1> QED
  BY <1>1, <1>4, <1>7 DEF MainInv, Started

LEMMA LaunchMainInv ==
  ASSUME MainInv, NEW l \in Launches, Launch(l)
  PROVE  MainInv'
<1>1. phase = "off" /\ launch' = l
  BY DEF Launch
<1>2. CASE Load(l)
  BY <1>1, <1>2, LoadLoads
<1>3. ASSUME NEW code, Leave(code)
      PROVE  MainInv'
  BY <1>1, <1>3 DEF Leave, MainInv, Started
<1>4. CASE InitConfig(l)
  <2>1. \E code : Leave(code)
    BY <1>4 DEF InitConfig, Write
  <2> QED
    BY <1>3, <2>1
<1> QED
  BY <1>2, <1>3, <1>4 DEF Launch

LEMMA StartMainInv ==
  ASSUME MainInv, Start
  PROVE  MainInv'
<1>1. Next /\ phase # "off" /\ UNCHANGED <<launch, files, there>>
  BY DEF Start, mainvars
<1>2. phase \in {"loading", "batching"} /\ source' = source /\ tree' = tree /\ sound' = sound
  BY <1>1 DEF Next, LoadFile, NoDirectory, FinishScan, Serve, Visit, MakeBatchers, given
<1>3. LoadInv /\ source = SourceOf(launch, File, there)
  BY <1>2 DEF MainInv, Started
<1>4. LoadInv'
  BY <1>1, <1>3, LoadInvNext
<1>5. source' = SourceOf(launch', File', there')
  BY <1>1, <1>2, <1>3 DEF File, Content
<1>6. phase' = "loading" => unbatched' = {} /\ batchers' = << >>
  BY <1>1, <1>2 DEF MainInv, Next, LoadFile, NoDirectory, FinishScan, Serve, Visit, MakeBatchers,
                    Loaded, Fatal
<1>7. phase' \in {"batching", "serving"} =>
        /\ source' \in {"model", "directory", "directory/", "missing default directory"}
        /\ source' = "model" =>
             \E p \in sound' : tree' = {p} /\ models' = With(<<>>, <<p.name, One>>, p)
        /\ source' = "missing default directory" =>
             models' = << >> /\ unbatched' = {} /\ batchers' = << >>
  <2>1. CASE LoadFile
    <3>1. CASE Fatal
      BY <3>1 DEF Fatal
    <3>2. ASSUME NEW p \in sound, Loaded(With(<<>>, <<p.name, One>>, p))
          PROVE  /\ source \in {"model"}
                 /\ tree = {p} /\ models' = With(<<>>, <<p.name, One>>, p)
      BY <1>3, <2>1, <3>2 DEF LoadInv, Given, LoadFile, Loaded, Directories
    <3> QED
      BY <1>2, <2>1, <3>1, <3>2 DEF LoadFile
  <2>2. CASE NoDirectory
    <3>1. CASE Fatal
      BY <3>1 DEF Fatal
    <3>2. CASE source = "missing default directory" /\ Loaded(<<>>)
      <4>1. models' = << >> /\ batchers' = batchers /\ batchers = << >>
        BY <2>2, <3>2 DEF Loaded, NoDirectory, MainInv
      <4>2. NamesOf(<< >>) = {}
        BY EmptyDomain DEF NamesOf
      <4>3. unbatched' = {}
        BY <3>2, <4>2 DEF Loaded
      <4> QED
        BY <1>2, <3>2, <4>1, <4>3
    <3> QED
      BY <2>2, <3>1, <3>2 DEF NoDirectory
  <2>3. CASE FinishScan \/ \E p \in Paths : Visit(p)
    BY <1>2, <1>3, <2>3 DEF FinishScan, Visit, LoadInv, Given, Directories
  <2>4. CASE Serve \/ \E name \in Names : MakeBatchers(name)
    <3>1. phase = "batching" /\ models' = models /\ unbatched' \subseteq unbatched
      BY <2>4 DEF Serve, MakeBatchers
    <3>2. unbatched = {} => batchers' = batchers
      BY <2>4 DEF Serve, MakeBatchers
    <3> QED
      BY <1>2, <3>1, <3>2 DEF MainInv
  <2> QED
    BY <1>1, <2>1, <2>2, <2>3, <2>4 DEF Next
<1>8. phase' \in {"loading", "batching", "serving", "failed"}
  BY <1>4 DEF LoadInv
<1> QED
  BY <1>4, <1>5, <1>6, <1>7, <1>8 DEF MainInv, Started

LEMMA MainInvNext == MainInv /\ [MainNext]_allvars => MainInv'
<1> SUFFICES ASSUME MainInv, [MainNext]_allvars
             PROVE  MainInv'
  OBVIOUS
<1>1. CASE Start
  BY <1>1, StartMainInv
<1>2. CASE Stop
  BY <1>2 DEF Stop, MainInv, Started
<1>3. ASSUME NEW l \in Launches, Launch(l)
      PROVE  MainInv'
  BY <1>3, LaunchMainInv
<1>4. CASE UNCHANGED allvars
  <2>1. UNCHANGED <<vars, launch, files, there, exit>>
    BY <1>4 DEF allvars, mainvars
  <2>2. UNCHANGED <<source, tree, sound, cfg, phase, unvisited, models, unbatched, batchers>>
    BY <2>1 DEF vars
  <2>3. LoadInv => LoadInv'
    BY <2>1, LoadInvNext
  <2> QED
    BY <2>1, <2>2, <2>3 DEF MainInv, Started, File, Content
<1> QED
  BY <1>1, <1>2, <1>3, <1>4 DEF MainNext

-------------------------------------------------------------------------------
(* Settings, from launch to launch *)

\* Every file reads as what a setting may be; what the registries are made of was
\* found by the launch this process has.
SettingsInv ==
  /\ \A path \in DOMAIN files : WellTyped(files[path])
  /\ phase = "off" <=> launch = NoLaunch
  /\ phase # "off" => launch \in Launches
  /\ there \in BOOLEAN
  /\ exit \in {NoCode, 0, 1, 2} /\ (phase = "exited" <=> exit # NoCode)
  /\ Started => cfg = BatchingOf(launch, File) /\ TypeInv

LEMMA InitSettings == MainInit => SettingsInv
BY FilesAssumption DEF MainInit, SettingsInv, Started, NoCode

LEMMA ContentTyped ==
  ASSUME SettingsInv, NEW path
  PROVE  WellTyped(Content(path))
<1>1. WellTyped(NoFile)
  BY DEF WellTyped
<1> QED
  BY <1>1 DEF SettingsInv, Content

LEMMA WrittenTyped == WellTyped(NoFile) /\ WellTyped(to_json)
<1>1. WellTyped(NoFile)
  BY DEF WellTyped
<1>2. /\ to_json["batching_enabled"] = FALSE /\ to_json["max_batch_size"] = 32
      /\ to_json["model_configs"] = << >>
  BY DEF to_json, Defaults
<1>3. << >> \in Seq([name : Strings, size : Int \union {Bad}])
  OBVIOUS
<1>4. to_json["model_configs"] \in Seq([name : Strings, size : Int \union {Bad}])
  BY <1>2, <1>3, Zenon
<1>5. to_json["batching_enabled"] \in BOOLEAN /\ to_json["max_batch_size"] \in Int
  <2>1. FALSE \in BOOLEAN /\ 32 \in Int
    OBVIOUS
  <2> QED
    BY <1>2, <2>1, Zenon
<1>6. WellTyped(to_json)
  BY <1>4, <1>5, Zenon DEF WellTyped
<1> QED
  BY <1>1, <1>6

LEMMA LeaveSettings ==
  ASSUME SettingsInv, phase = "off", NEW l \in Launches, launch' = l,
         NEW code \in {0, 1, 2}, Leave(code),
         \/ files' = files
         \/ \E path : files' \in {WithContent(path, to_json), WithContent(path, NoFile)}
  PROVE  SettingsInv'
<1>1. \A path \in DOMAIN files' : WellTyped(files'[path])
  <2>1. CASE files' = files
    BY <2>1 DEF SettingsInv
  <2>2. ASSUME NEW path, NEW content \in {to_json, NoFile}, files' = WithContent(path, content)
        PROVE  \A p \in DOMAIN files' : WellTyped(files'[p])
    <3> SUFFICES ASSUME NEW p \in DOMAIN files'
                 PROVE  WellTyped(files'[p])
      OBVIOUS
    <3>1. files'[p] = content \/ (p \in DOMAIN files /\ files'[p] = files[p])
      BY <2>2 DEF WithContent
    <3>2. WellTyped(content)
      BY WrittenTyped
    <3>3. CASE files'[p] = content
      BY <3>2, <3>3, Zenon
    <3>4. CASE p \in DOMAIN files /\ files'[p] = files[p]
      <4>1. WellTyped(files[p])
        BY <3>4 DEF SettingsInv
      <4> QED
        BY <3>4, <4>1, Zenon
    <3> QED
      BY <3>1, <3>3, <3>4
  <2> QED
    BY <2>1, <2>2
<1>2. phase' = "exited" /\ exit' = code /\ there' = there
  BY DEF Leave
<1>3. l # NoLaunch
  BY LaunchesAssumption
<1> QED
  BY <1>1, <1>2, <1>3 DEF SettingsInv, Started, NoCode

LEMMA LoadSettings ==
  ASSUME MainInv, SettingsInv, phase = "off", NEW l \in Launches, launch' = l, Load(l)
  PROVE  SettingsInv'
<1> DEFINE file == Content(ConfigPath(l))
<1>1. /\ there' \in BOOLEAN /\ source' = SourceOf(l, file, there')
      /\ tree' \in SUBSET Paths /\ sound' \in SUBSET tree' /\ cfg' = BatchingOf(l, file)
      /\ phase' = "loading" /\ unvisited' = tree'
      /\ UNCHANGED <<models, unbatched, batchers, files, exit>>
      /\ models = << >> /\ unbatched = {} /\ batchers = << >>
  BY DEF Load, MainInv
<1>2. File' = file
  BY <1>1 DEF File, Content
<1>3. cfg' \in Batching
  BY <1>1, ContentTyped, BatchingOfType
<1>4. source' \in Sources
  BY <1>1, MainSourcesAssumption DEF SourceOf
<1>5. TypeInv'
  <2>1. DOMAIN << >> \subseteq Names \X (Versions \union {One}) /\ << >> \in [DOMAIN << >> -> Paths]
    BY NoneMade
  <2> QED
    BY <1>1, <1>3, <1>4, <2>1, NoneMade DEF TypeInv, TypeOK
<1>6. exit = NoCode
  BY DEF SettingsInv
<1>7. l # NoLaunch
  BY LaunchesAssumption
<1> HIDE DEF file
<1> QED
  BY <1>1, <1>2, <1>5, <1>6, <1>7 DEF SettingsInv

LEMMA LaunchSettings ==
  ASSUME MainInv, SettingsInv, NEW l \in Launches, Launch(l)
  PROVE  SettingsInv'
<1>1. phase = "off" /\ launch' = l
  BY DEF Launch
<1>2. CASE Load(l)
  BY <1>1, <1>2, LoadSettings
<1>3. ASSUME NEW code \in {0, 1, 2}, UNCHANGED files, Leave(code)
      PROVE  SettingsInv'
  BY <1>1, <1>3, LeaveSettings
<1>4. CASE InitConfig(l)
  <2>1. CASE UNCHANGED files /\ Leave(1)
    BY <1>3, <2>1
  <2>2. CASE Write(Output(l))
    <3>1. \E code \in {0, 1, 2} :
            /\ Leave(code)
            /\ \/ files' = files
               \/ \E path : files' \in {WithContent(path, to_json), WithContent(path, NoFile)}
      BY <2>2 DEF Write
    <3> QED
      BY <1>1, <3>1, LeaveSettings
  <2> QED
    BY <1>4, <2>1, <2>2 DEF InitConfig
<1>5. IsSet(Overrides(l), "exit") => LastOf(Overrides(l), "exit") \in {0, 1, 2}
  <2>1. Overrides(l) \in Seq(Items)
    BY OverridesType
  <2>2. IsSet(Overrides(l), "exit") => LastOf(Overrides(l), "exit") \in {0, 2}
    BY <2>1, LastType
  <2> QED
    BY <2>2
<1> QED
  BY <1>2, <1>3, <1>4, <1>5 DEF Launch

\* The steps of the registries.
LEMMA StartsAs ==
  ASSUME MainInv, Start
  PROVE  /\ Next /\ phase \in {"loading", "batching"} /\ UNCHANGED <<launch, files, there, exit>>
         /\ phase' \in {"loading", "batching", "serving", "failed"} /\ cfg' = cfg
         /\ source' = source
<1>1. Next /\ phase # "off" /\ UNCHANGED <<launch, files, there, exit>>
  BY DEF Start, mainvars
<1>2. phase \in {"loading", "batching"} /\ cfg' = cfg /\ source' = source
  BY <1>1 DEF Next, LoadFile, NoDirectory, FinishScan, Serve, Visit, MakeBatchers, given
<1>3. phase' \in {"loading", "batching", "serving", "failed"}
  BY <1>1, <1>2 DEF Next, LoadFile, NoDirectory, FinishScan, Serve, Visit, MakeBatchers, Loaded, Fatal
<1> QED
  BY <1>1, <1>2, <1>3

LEMMA StartSettings ==
  ASSUME MainInv, SettingsInv, Start
  PROVE  SettingsInv'
<1>1. /\ Next /\ phase \in {"loading", "batching"} /\ UNCHANGED <<launch, files, there, exit>>
      /\ phase' \in {"loading", "batching", "serving", "failed"} /\ cfg' = cfg
  BY StartsAs
<1>2. TypeInv'
  BY <1>1, TypeInvNext DEF SettingsInv, Started
<1>3. File' = File
  BY <1>1 DEF File, Content
<1> QED
  BY <1>1, <1>2, <1>3 DEF SettingsInv, Started

LEMMA SettingsNext == MainInv /\ SettingsInv /\ [MainNext]_allvars => SettingsInv'
<1> SUFFICES ASSUME MainInv, SettingsInv, [MainNext]_allvars
             PROVE  SettingsInv'
  OBVIOUS
<1>1. CASE Start
  BY <1>1, StartSettings
<1>2. CASE Stop
  BY <1>2 DEF Stop, SettingsInv, Started
<1>3. ASSUME NEW l \in Launches, Launch(l)
      PROVE  SettingsInv'
  BY <1>3, LaunchSettings
<1>4. CASE UNCHANGED allvars
  <2>1. UNCHANGED <<vars, launch, files, there, exit>>
    BY <1>4 DEF allvars, mainvars
  <2>2. UNCHANGED <<source, tree, sound, cfg, phase, unvisited, models, unbatched, batchers>>
    BY <2>1 DEF vars
  <2>3. TypeInv => TypeInv'
    BY <2>1, TypeInvNext
  <2>4. File' = File
    BY <2>1 DEF File, Content
  <2> QED
    BY <2>1, <2>2, <2>3, <2>4 DEF SettingsInv, Started
<1> QED
  BY <1>1, <1>2, <1>3, <1>4 DEF MainNext

-------------------------------------------------------------------------------
(* Batchers, from launch to launch *)

StartedBatchInv == Started => BatchInv

LEMMA LoadBatches ==
  ASSUME MainInv, SettingsInv, phase = "off", NEW l \in Launches, launch' = l, Load(l)
  PROVE  BatchInv'
<1>1. /\ phase' = "loading" /\ UNCHANGED <<models, unbatched, batchers>>
      /\ models = << >> /\ unbatched = {} /\ batchers = << >>
  BY DEF Load, MainInv
<1>2. cfg' \in Batching
  BY <1>1, LoadSettings DEF SettingsInv, Started, TypeInv, TypeOK
<1>3. DOMAIN models' = {}
  BY <1>1, EmptyDomain, Zenon
<1>4. IsFiniteSet(DOMAIN models')
  BY <1>3, FS_EmptySet
<1>5. cfg'.batching \in BOOLEAN /\ \A name \in Names : BatchSize(name)' \in Int
  BY <1>2 DEF BatchSize, Batching
<1> QED
  BY <1>1, <1>3, <1>4, <1>5 DEF BatchInv

LEMMA BatchesNext ==
  ASSUME NoNameHasAt
  PROVE  MainInv /\ SettingsInv /\ StartedBatchInv /\ [MainNext]_allvars => StartedBatchInv'
<1> SUFFICES ASSUME MainInv, SettingsInv, StartedBatchInv, [MainNext]_allvars
             PROVE  StartedBatchInv'
  OBVIOUS
<1>1. CASE Start
  <2>1. Next /\ Started
    BY <1>1, StartsAs DEF Started
  <2>2. LoadInv /\ BatchInv
    BY <2>1 DEF MainInv, StartedBatchInv
  <2>3. BatchInv'
    BY <2>1, <2>2, BatchInvNext
  <2> QED
    BY <2>3 DEF StartedBatchInv
<1>2. CASE Stop
  BY <1>2 DEF Stop, StartedBatchInv, Started
<1>3. ASSUME NEW l \in Launches, Launch(l)
      PROVE  StartedBatchInv'
  <2>1. phase = "off" /\ launch' = l
    BY <1>3 DEF Launch
  <2>2. CASE Load(l)
    BY <2>1, <2>2, LoadBatches DEF StartedBatchInv
  <2>3. CASE phase' = "exited"
    BY <2>3 DEF StartedBatchInv, Started
  <2> QED
    BY <1>3, <2>2, <2>3 DEF Launch, InitConfig, Write, Leave
<1>4. CASE UNCHANGED allvars
  <2>1. UNCHANGED vars
    BY <1>4 DEF allvars
  <2>2. phase' = phase
    BY <2>1 DEF vars
  <2>3. Started => LoadInv /\ BatchInv
    BY DEF MainInv, StartedBatchInv
  <2>4. Started => BatchInv'
    BY <2>1, <2>3, BatchInvNext
  <2> QED
    BY <2>2, <2>4 DEF StartedBatchInv, Started
<1> QED
  BY <1>1, <1>2, <1>3, <1>4 DEF MainNext

-------------------------------------------------------------------------------
(* Theorems *)

\* Whatever the process was told by flags, environment and files, and whichever
\* processes ran before it: what it serves is what can be loaded from the two
\* documented layouts, or, of a directory whose spelling ends in a slash, from the
\* versioned one.
THEOREM MainServesAsSpelled == MainSpec => []ServesAsSpelled
<1>1. MainInv => ServesAsSpelled
  <2> SUFFICES ASSUME MainInv, phase = "serving"
               PROVE  ServesAsSpelled
    BY DEF ServesAsSpelled
  <2> DEFINE slashed == ~NamesModel(launch) /\ Configured(launch, File).model_dir \in Slashed
             served == {p \in sound : IF slashed THEN p.layout = "versioned"
                                      ELSE p.layout # "stray"}
  <2>1. LoadInv /\ source = SourceOf(launch, File, there) /\ MadeOf(Loadable)
    BY DEF MainInv, Started, LoadInv
  <2>2. CASE source \in Directories
    <3>1. slashed <=> source = "directory/"
      BY <2>1, <2>2 DEF SourceOf, Directories
    <3>2. Loadable = served
      BY <3>1 DEF Loadable
    <3> QED
      BY <2>1, <3>2 DEF MadeOf, ServesAsSpelled
  <2>3. CASE source = "model"
    <3>1. ~slashed /\ source # "directory/"
      BY <2>1, <2>3 DEF SourceOf
    <3>2. Loadable = served
      BY <3>1 DEF Loadable
    <3> QED
      BY <2>1, <3>2 DEF MadeOf, ServesAsSpelled
  <2>4. CASE source \notin Directories \union {"model"}
    <3>1. sound = {}
      BY <2>1, <2>4 DEF LoadInv, Given
    <3>2. Loadable = served
      BY <3>1 DEF Loadable
    <3> QED
      BY <2>1, <3>2 DEF MadeOf, ServesAsSpelled
  <2> QED
    BY <2>2, <2>3, <2>4
<1> QED
  BY <1>1, InitMainInv, MainInvNext, PTL DEF MainSpec

LEMMA MainInvChosen == MainInv => ServesWhatWasChosen
<1> SUFFICES ASSUME MainInv
             PROVE  ServesWhatWasChosen
  OBVIOUS
<1>1. Chosen <=> Explicit(launch, File)
  BY ExplicitIsChosen DEF Chosen, Options
<1>2. CASE phase = "serving"
  <2>1. source = SourceOf(launch, File, there)
    BY <1>2 DEF MainInv, Started
  <2> QED
    BY <1>1, <1>2, <2>1 DEF MainInv, SourceOf, ServesWhatWasChosen
<1>3. CASE phase = "failed"
  <2>1. source = SourceOf(launch, File, there) /\ LoadInv
    BY <1>3 DEF MainInv, Started
  <2> QED
    BY <1>1, <1>3, <2>1 DEF LoadInv, SourceOf, ServesWhatWasChosen
<1> QED
  BY <1>2, <1>3 DEF ServesWhatWasChosen

\* A server never runs on a directory somebody chose that is not there, never falls
\* back from the one model it was given, and only fails for such a reason.
THEOREM ServesWhatWasChosenAlways == MainSpec => []ServesWhatWasChosen
BY InitMainInv, MainInvNext, MainInvChosen, PTL DEF MainSpec

\* init-config never changes a file that is there unless it is forced to, and what
\* it leaves, whole or broken, reads as the defaults.
THEOREM InitConfigKeepsFilesAlways == MainSpec => InitConfigKeepsFiles
<1> DEFINE Kept == \A path \in DOMAIN files' :
                     path \notin DOMAIN files \/ files'[path] # files[path] =>
                       /\ path \in DOMAIN files => IsSet(Options', "force")
                       /\ from_file(files'[path]) = Defaults
<1>1. from_file(NoFile) = Defaults
  BY DEF from_file
<1>2. ASSUME NEW l, launch' = l, Write(Output(l)),
             Output(l) \notin DOMAIN files \/ IsSet(Overrides(l), "force")
      PROVE  Kept
  <2>1. PICK content \in {to_json, NoFile} : files' \in {files, WithContent(Output(l), content)}
    BY <1>2 DEF Write
  <2>2. from_file(content) = Defaults
    BY <1>1, <2>1, to_json_is_Defaults
  <2>3. CASE files' = files
    BY <2>3
  <2>4. CASE files' = WithContent(Output(l), content)
    <3>1. /\ DOMAIN files' = DOMAIN files \union {Output(l)}
          /\ files'[Output(l)] = content
          /\ \A path \in DOMAIN files : path # Output(l) => files'[path] = files[path]
      BY <2>4 DEF WithContent
    <3>2. Options' = Overrides(l)
      BY <1>2 DEF Options
    <3> HIDE DEF Options
    <3> QED
      BY <1>2, <2>2, <3>1, <3>2
  <2> QED
    BY <2>1, <2>3, <2>4
<1>3. [MainNext]_allvars => [Kept]_files
  <2> SUFFICES ASSUME MainNext, files' # files
               PROVE  Kept
    BY DEF allvars, mainvars
  <2>1. PICK l \in Launches : Launch(l)
    BY DEF MainNext, Start, Stop, mainvars
  <2>2. launch' = l /\ InitConfig(l)
    BY <2>1 DEF Launch, Load
  <2>3. Write(Output(l)) /\ (Output(l) \notin DOMAIN files \/ IsSet(Overrides(l), "force"))
    BY <2>2 DEF InitConfig
  <2> QED
    BY <1>2, <2>2, <2>3
<1> QED
  BY <1>3, PTL DEF MainSpec, InitConfigKeepsFiles

\* Whatever is launched, one process after the other: the registries hold what
\* their types say once loading has begun, the batching they are made of is typed
\* whatever a broken file says, and the exit codes are those of main().
THEOREM MainTypeCorrect == MainSpec => []MainTypeOK
<1>1. MainInv /\ SettingsInv => MainTypeOK
  BY DEF MainInv, SettingsInv, MainTypeOK, TypeInv
<1> QED
  BY <1>1, InitMainInv, MainInvNext, InitSettings, SettingsNext, PTL DEF MainSpec

\* Of a launch and a file: a flag is above the environment, which is above the
\* file, as far as it is read, which is above the default.
LEMMA LaterWins ==
  ASSUME SettingsInv, Started
  PROVE  LaterSourceWins
<1>1. launch \in Launches /\ cfg = BatchingOf(launch, File)
  BY DEF SettingsInv, Started
<1>2. Options \in Seq(Items) /\ Options = Overrides(launch)
  BY <1>1, OverridesType DEF Options
<1>3. /\ DOMAIN launch.env \subseteq {"config", "model"} \union EnvironmentTexts \union EnvironmentInts
      /\ EnvironmentTexts = {"model_dir", "log_level"}
      /\ \A key \in DOMAIN Defaults : key # "config" /\ key # "model"
      /\ EnvironmentTexts \intersect EnvironmentInts = {}
  BY <1>1, LaunchesAssumption DEF EnvironmentTexts, EnvironmentInts, Defaults
<1> SUFFICES ASSUME NEW key \in DOMAIN Defaults \ {"model_configs"}
             PROVE  LET byFlag == IsSet(Options, key)
                        byEnv  == \/ key \in {"model_dir", "log_level"} /\ key \in DOMAIN launch.env
                                  \/ /\ key \notin {"model_dir", "log_level"}
                                     /\ key \in DOMAIN launch.env
                                     /\ launch.env[key] \in DOMAIN Numeric
                        byFile == /\ File # NoFile /\ key \in DOMAIN File
                                  /\ \E n \in DOMAIN Keys :
                                       /\ Keys[n] = key
                                       /\ \A k \in 1 .. n :
                                            Keys[k] \in DOMAIN File => File[Keys[k]] # Bad
                        value == Configured(launch, File)[key]
                    IN /\ byFlag =>
                            \E i \in DOMAIN Options :
                              /\ Options[i].set = key /\ Options[i].to = value
                              /\ \A j \in DOMAIN Options : Options[j].set = key => j <= i
                       /\ ~byFlag /\ byEnv =>
                            value = IF key \in {"model_dir", "log_level"} THEN launch.env[key]
                                    ELSE Numeric[launch.env[key]]
                       /\ ~byFlag /\ ~byEnv /\ byFile => value = File[key]
                       /\ ~byFlag /\ ~byEnv /\ ~byFile => value = Defaults[key]
                       /\ key = "batching_enabled" => cfg.batching = value
                       /\ key = "max_batch_size" => cfg.max_batch_size = value
  BY DEF LaterSourceWins
<1> DEFINE byFlag == IsSet(Options, key)
           inEnv  == /\ key \in DOMAIN launch.env
                     /\ key \in EnvironmentTexts \/ launch.env[key] \in DOMAIN Numeric
           byFile == File # NoFile /\ key \in DOMAIN File /\ key \in Reached(File)
           value == Configured(launch, File)[key]
<1>4. key # "config" /\ key # "model" /\ key # "model_configs"
  BY <1>3
<1>5. value = IF byFlag THEN LastOf(Options, key)
              ELSE IF key \in DOMAIN launch.env \intersect EnvironmentTexts THEN launch.env[key]
              ELSE IF key \in DOMAIN launch.env \intersect EnvironmentInts
                        /\ launch.env[key] \in DOMAIN Numeric
              THEN Numeric[launch.env[key]]
              ELSE from_file(File)[key]
  BY ConfiguredIs DEF Options
<1>6. from_file(File)[key] = IF byFile THEN File[key] ELSE Defaults[key]
  BY <1>4, FromFileIs
<1>7. key \in DOMAIN launch.env => key \in EnvironmentTexts \/ key \in EnvironmentInts
  BY <1>3, <1>4
<1>8. byFlag =>
        \E i \in DOMAIN Options :
          /\ Options[i].set = key /\ Options[i].to = value
          /\ \A j \in DOMAIN Options : Options[j].set = key => j <= i
  <2> SUFFICES ASSUME byFlag
               PROVE  \E i \in DOMAIN Options :
                        /\ Options[i].set = key /\ Options[i].to = value
                        /\ \A j \in DOMAIN Options : Options[j].set = key => j <= i
    OBVIOUS
  <2>1. value = LastOf(Options, key)
    BY <1>5
  <2> HIDE DEF value
  <2> QED
    BY <1>2, <2>1, LastIs
<1>9. ~byFlag /\ inEnv =>
        value = IF key \in {"model_dir", "log_level"} THEN launch.env[key]
                ELSE Numeric[launch.env[key]]
  BY <1>3, <1>5, <1>7
<1>10. ~byFlag /\ ~inEnv => value = from_file(File)[key]
  BY <1>5
<1>11. key = "batching_enabled" => cfg.batching = value
  BY <1>1 DEF BatchingOf
<1>12. key = "max_batch_size" => cfg.max_batch_size = value
  BY <1>1 DEF BatchingOf
<1>13. inEnv <=> \/ key \in {"model_dir", "log_level"} /\ key \in DOMAIN launch.env
                 \/ /\ key \notin {"model_dir", "log_level"} /\ key \in DOMAIN launch.env
                    /\ launch.env[key] \in DOMAIN Numeric
  BY <1>3
<1>14. byFile <=> /\ File # NoFile /\ key \in DOMAIN File
                  /\ \E n \in DOMAIN Keys :
                       /\ Keys[n] = key
                       /\ \A k \in 1 .. n : Keys[k] \in DOMAIN File => File[Keys[k]] # Bad
  BY DEF Reached
<1> HIDE DEF byFlag, inEnv, byFile, value
<1> QED
  BY <1>6, <1>8, <1>9, <1>10, <1>11, <1>12, <1>13, <1>14 DEF byFlag, value

\* "Later wins", for any command line, environment and files: what the registries
\* are made of is a flag's value, the last of several; else the environment's, if
\* it can be used; else the file's, as far as it is read; else the default.
THEOREM LaterSourceWinsAlways == MainSpec => []LaterSourceWins
<1>1. MainInv /\ SettingsInv => LaterSourceWins
  <2>1. ~Started => LaterSourceWins
    BY DEF LaterSourceWins, Started
  <2> QED
    BY <2>1, LaterWins
<1> QED
  BY <1>1, InitMainInv, MainInvNext, InitSettings, SettingsNext, PTL DEF MainSpec

\* As BatcherOfTheModelAlways has it of one start, of every process: with names
\* that do not hold the separator, a request finds a Batcher exactly if the
\* settings of this launch ask for one, and it is the one of its model.
THEOREM MainBatcherOfTheModel ==
  ASSUME NoNameHasAt
  PROVE  MainSpec => []BatcherOfTheModel
<1>1. MainInit => StartedBatchInv
  BY DEF MainInit, StartedBatchInv, Started
<1>2. StartedBatchInv => BatcherOfTheModel
  <2>1. phase # "serving" => BatcherOfTheModel
    BY DEF BatcherOfTheModel
  <2> QED
    BY <2>1, BatchInvAgrees DEF StartedBatchInv, Started
<1> QED
  BY <1>1, <1>2, InitMainInv, MainInvNext, InitSettings, SettingsNext, BatchesNext, PTL
     DEF MainSpec
===============================================================================
