------------------------------- MODULE Registries -------------------------------
(***************************************************************************)
(* What the server serves: ModelRegistry (src/model_registry.cpp) filled      *)
(* from one file or from a directory, as main() chooses, and BatcherRegistry   *)
(* (src/batcher.cpp), which makes a Batcher for each model and finds it again  *)
(* by a key made of the name and the version.                                *)
(*                                                                         *)
(* Start-up is one thread; what is open is the order in which the directory   *)
(* and the hash map of names are walked. Afterwards nothing changes, and       *)
(* requests only look up. A name and a version are sequences of character      *)
(* codes, for their order and the keys made of them matter.                    *)
(***************************************************************************)
EXTENDS Integers, Sequences

CONSTANTS Names,      \* names of models
          Versions,   \* names of version directories
          Configs,    \* the batching part of ServerConfig
          Sources     \* what main() may be told to serve

At == 64              \* the character between name and version
One == <<49>>         \* the version of a model in the flat layout

Strings == Seq(Nat)

ASSUME NamesAssumption ==
  Names \subseteq Strings \ {<<>>} /\ Versions \subseteq Strings \ {<<>>}

\* What BatcherRegistry reads of ServerConfig.
Batching == [batching : BOOLEAN, max_batch_size : Int, override : [Names -> Int]]

ASSUME ConfigsAssumption == Configs \subseteq Batching

\* --model names a file; --model-dir (or its like) names a directory, with or
\* without a slash at the end; without either the default directory is taken,
\* which may be missing.
ASSUME SourcesAssumption ==
  Sources \subseteq {"model", "missing model", "directory", "directory/",
                    "missing directory", "missing default directory"}

\* <root>/<name>.omle, <root>/<name>/<version>/model.omle, and a model.omle at
\* any other depth.
Paths == [layout : {"flat"}, name : Names, version : {One}]
           \union [layout : {"versioned"}, name : Names, version : Versions]
           \union [layout : {"stray"}, name : Names, version : {<<>>}]

VARIABLES source,     \* what main() was told to serve
          tree,       \* the model files that are there
          sound,      \* those of them the runtime can load
          cfg,        \* the configuration
          phase,      \* where start-up is
          unvisited,  \* the files the scan has still to visit
          models,     \* models_: <<name, version>> -> the file it was loaded from
          unbatched,  \* the names BatcherRegistry has still to visit
          batchers    \* batchers_: key -> the Batcher

vars == <<source, tree, sound, cfg, phase, unvisited, models, unbatched, batchers>>
given == <<source, tree, sound, cfg>>

Directories == {"directory", "directory/"}

Init ==
  /\ source \in Sources
  /\ tree \in SUBSET Paths
  /\ source = "model" => \E p \in Paths : tree = {p} /\ p.layout = "flat"
  /\ source \in {"missing model", "missing directory", "missing default directory"}
       => tree = {}
  /\ sound \in SUBSET tree
  /\ cfg \in Configs
  /\ phase = "loading"
  /\ unvisited = tree
  /\ models = <<>>
  /\ unbatched = {}
  /\ batchers = <<>>

-------------------------------------------------------------------------------
(* ModelRegistry: loading *)

With(f, x, y) == [z \in DOMAIN f \union {x} |-> IF z = x THEN y ELSE f[z]]

NamesOf(m) == {k[1] : k \in DOMAIN m}

\* The registry is complete; BatcherRegistry is next.
Loaded(m) ==
  /\ phase' = "batching"
  /\ models' = m
  /\ unbatched' = IF cfg.batching THEN NamesOf(m) ELSE {}
  /\ UNCHANGED batchers

Fatal == phase' = "failed" /\ UNCHANGED <<models, unbatched, batchers>>

\* load_file: the one model or none of it.
LoadFile ==
  /\ phase = "loading" /\ source \in {"model", "missing model"}
  /\ \/ \E p \in sound : Loaded(With(<<>>, <<p.name, One>>, p))
     \/ sound = {} /\ Fatal
  /\ unvisited' = {}
  /\ UNCHANGED given

\* load fails if the directory does not exist: fatal if it was asked for.
NoDirectory ==
  /\ phase = "loading"
  /\ \/ source = "missing directory" /\ Fatal
     \/ source = "missing default directory" /\ Loaded(<<>>)
  /\ UNCHANGED <<given, unvisited>>

\* A flat file's parent_path() must equal the path given as the directory, and
\* "models" is not "models/". parse_versioned takes relative paths.
Recognised(p) == \/ p.layout = "flat" /\ source = "directory"
                 \/ p.layout = "versioned"

\* Mutant of Visit: a model that does not load ends the scan.
VisitAndStop(p) ==
  /\ phase = "loading" /\ source \in Directories /\ p \in unvisited
  /\ unvisited' = IF p \in sound THEN unvisited \ {p} ELSE {}
  /\ models' = IF Recognised(p) /\ p \in sound
               THEN With(models, <<p.name, p.version>>, p) ELSE models
  /\ UNCHANGED <<given, phase, unbatched, batchers>>

\* Mutant of Visit: a model.omle counts at any depth.
VisitAnyDepth(p) ==
  /\ phase = "loading" /\ source \in Directories /\ p \in unvisited
  /\ unvisited' = unvisited \ {p}
  /\ models' = IF p \in sound THEN With(models, <<p.name, p.version>>, p) ELSE models
  /\ UNCHANGED <<given, phase, unbatched, batchers>>

\* The next file of the directory, in an order the file system gives. Files of
\* neither layout are passed over, files that do not load are reported.
Visit(p) ==
  /\ phase = "loading" /\ source \in Directories /\ p \in unvisited
  /\ unvisited' = unvisited \ {p}
  /\ models' = IF Recognised(p) /\ p \in sound
               THEN With(models, <<p.name, p.version>>, p) ELSE models
  /\ UNCHANGED <<given, phase, unbatched, batchers>>

FinishScan ==
  /\ phase = "loading" /\ source \in Directories /\ unvisited = {}
  /\ Loaded(models)
  /\ UNCHANGED <<given, unvisited>>

-------------------------------------------------------------------------------
(* ModelRegistry: lookup *)

\* std::string's order.
LexLess(s, t) ==
  \E n \in 0 .. Len(s) :
    /\ n <= Len(t)
    /\ \A i \in 1 .. n : s[i] = t[i]
    /\ \/ n = Len(s) /\ n < Len(t)
       \/ n < Len(s) /\ n < Len(t) /\ s[n + 1] < t[n + 1]

LexMax(S) == CHOOSE s \in S : \A t \in S : ~LexLess(s, t)

VersionsOf(name) == {k[2] : k \in {l \in DOMAIN models : l[1] = name}}

Found(name, version) ==
  VersionsOf(name) # {} /\ (version = <<>> \/ version \in VersionsOf(name))

\* resolve_version, of a version that is found.
Resolved(name, version) == IF version = <<>> THEN LexMax(VersionsOf(name)) ELSE version

\* get, the same.
Model(name, version) == models[<<name, Resolved(name, version)>>]

-------------------------------------------------------------------------------
(* BatcherRegistry *)

\* The override for the model if there is one, else the default.
BatchSize(name) ==
  IF cfg.override[name] > 0 THEN cfg.override[name] ELSE cfg.max_batch_size

Key(name, version) == name \o <<At>> \o version

\* One Batcher for each version of the name, if it is batched at all; an equal
\* key replaces the Batcher that had it.
Batchers(name) ==
  { [name |-> name, version |-> v, model |-> Model(name, v)] : v \in VersionsOf(name) }

MakeBatchers(name) ==
  /\ phase = "batching" /\ name \in unbatched
  /\ unbatched' = unbatched \ {name}
  /\ IF BatchSize(name) <= 1
     THEN UNCHANGED batchers
     ELSE LET new == Batchers(name)
              keys == {Key(b.name, b.version) : b \in new}
          IN batchers' = [k \in DOMAIN batchers \union keys |->
                            IF k \in keys
                            THEN CHOOSE b \in new : Key(b.name, b.version) = k
                            ELSE batchers[k]]
  /\ UNCHANGED <<given, phase, unvisited, models>>

Serve ==
  /\ phase = "batching" /\ unbatched = {}
  /\ phase' = "serving"
  /\ UNCHANGED <<given, unvisited, models, unbatched, batchers>>

\* What stands before the first separator of a key.
Prefix(key) ==
  SubSeq(key, 1, (CHOOSE i \in DOMAIN key :
                    key[i] = At /\ \A j \in 1 .. i - 1 : key[j] # At) - 1)

KeysOf(name) == {k \in DOMAIN batchers : Prefix(k) = name}

HasBatcher(name, version) ==
  IF version = <<>> THEN KeysOf(name) # {} ELSE Key(name, version) \in DOMAIN batchers

\* Mutant of Batcher: any version will do.
BatcherOfAny(name, version) ==
  batchers[IF version = <<>> THEN CHOOSE k \in KeysOf(name) : TRUE ELSE Key(name, version)]

\* get, of a request that has one: the last key with the name if no version is
\* asked for.
Batcher(name, version) ==
  batchers[IF version = <<>> THEN LexMax(KeysOf(name)) ELSE Key(name, version)]

-------------------------------------------------------------------------------
Next ==
  \/ LoadFile \/ NoDirectory \/ FinishScan \/ Serve
  \/ \E p \in Paths : Visit(p)
  \/ \E name \in Names : MakeBatchers(name)

Spec == Init /\ [][Next]_vars

-------------------------------------------------------------------------------
(* Properties *)

TypeOK ==
  /\ source \in Sources /\ tree \subseteq Paths /\ sound \subseteq tree /\ cfg \in Batching
  /\ phase \in {"loading", "batching", "serving", "failed"}
  /\ unvisited \subseteq Paths /\ unbatched \subseteq Names
  /\ DOMAIN models \subseteq Names \X (Versions \union {One})
  /\ models \in [DOMAIN models -> Paths]
  /\ DOMAIN batchers \subseteq {Key(k[1], k[2]) : k \in DOMAIN models}
  /\ batchers \in [DOMAIN batchers ->
                     [name : Names, version : Versions \union {One}, model : Paths]]

Claim(p) == <<p.name, p.version>>

\* "Flat: <root>/<name>.omle -> version 1. Versioned:
\* <root>/<name>/<version>/model.omle": whatever the order of the scan and
\* whatever fails to load, what is served is what can be loaded from the two
\* layouts, each under its own name and version.
ServesWhatIsThere ==
  LET there == {p \in sound : p.layout # "stray"}
  IN phase = "serving" =>
       /\ DOMAIN models = {Claim(p) : p \in there}
       /\ \A k \in DOMAIN models : models[k] \in there /\ Claim(models[k]) = k

\* "Owns one Batcher per loaded model. Returns nullptr when batching is disabled
\* or the model is not found": a request with or without a version finds a
\* Batcher exactly if batching is on for its model, and then the one that runs
\* the model ModelRegistry finds and labels its metrics with the version that
\* resolve_version gives.
BatcherOfTheModel ==
  phase = "serving" =>
    \A name \in Names, version \in Versions \union {<<>>, One} :
      /\ HasBatcher(name, version) <=>
           Found(name, version) /\ cfg.batching /\ BatchSize(name) > 1
      /\ Found(name, version) /\ HasBatcher(name, version) =>
           Batcher(name, version) = [name |-> name, version |-> Resolved(name, version),
                                     model |-> Model(name, version)]
===============================================================================
