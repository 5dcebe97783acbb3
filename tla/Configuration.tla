---------------------------- MODULE Configuration ----------------------------
(***************************************************************************)
(* How main() (src/main.cpp) finds its settings: the command line, the        *)
(* configuration file, the environment. It is one thread that reads what does *)
(* not change, so each part is an operator on what it reads.                  *)
(*                                                                         *)
(* A launch is [argv |-> sequence of words, env |-> what is in the             *)
(* environment]. A word has its text and, when it is spelled as an option, the *)
(* option's name, and the value of --name=value. An option or a variable of    *)
(* the environment has the name of the setting it stands for.                 *)
(***************************************************************************)
EXTENDS Integers, Sequences

CONSTANTS Numeric,    \* the texts that std::stoi reads to the end -> their numbers
          Bad,        \* in a file: a value of the wrong type
          NoFile      \* the contents of a file that is not there, or is not JSON

ASSUME NumericAssumption == \A t \in DOMAIN Numeric : Numeric[t] \in Int

Word == [option : STRING, joined : BOOLEAN, text : STRING, value : STRING]

DefaultPath == "configs/server.json"

\* ServerConfig's member initialisers. model_configs is the sequence of the
\* models' own batch sizes.
Defaults ==
  [model_dir |-> "/models", rest_port |-> 8080, grpc_port |-> 8081, rest_threads |-> 0,
   grpc_threads |-> 0, model_n_threads |-> 1, run_verification |-> TRUE,
   batching_enabled |-> FALSE, max_batch_size |-> 32, batch_timeout_ms |-> 5,
   inference_timeout_ms |-> 30000, log_level |-> "info", server_name |-> "omle-server",
   server_version |-> "0.1.0", model_configs |-> <<>>]

-------------------------------------------------------------------------------
(* The command line *)

TextOptions == {"config", "output", "model_dir", "model", "log_level"}
IntOptions  == {"rest_port", "grpc_port", "rest_threads", "grpc_threads", "model_n_threads",
                "max_batch_size", "batch_timeout_ms", "inference_timeout_ms"}

Exit(code) == << [set |-> "exit", to |-> code] >>

\* The settings that the words from i on ask for, in their order, up to an exit.
\* An option that is not joined to its value takes the next word, whatever it is.
Asked(argv, i) ==
  LET asked[j \in 1 .. Len(argv) + 2] ==
        IF j > Len(argv) THEN <<>>
        ELSE LET word  == argv[j]
                 taken == IF word.joined THEN word.value
                          ELSE IF j < Len(argv) THEN argv[j + 1].text ELSE ""
                 after == asked[IF word.joined THEN j + 1 ELSE j + 2]
             IN IF word.option \in TextOptions \union IntOptions
                THEN IF ~word.joined /\ j = Len(argv) THEN Exit(2)
                     ELSE IF word.option \in TextOptions
                     THEN << [set |-> word.option, to |-> taken] >> \o after
                     ELSE IF taken \notin DOMAIN Numeric THEN Exit(2)
                     ELSE << [set |-> word.option, to |-> Numeric[taken]] >> \o after
                ELSE IF word.joined THEN Exit(2)
                ELSE IF word.option \in {"help", "version"} THEN Exit(0)
                ELSE IF word.option \in {"batching", "no_batching"}
                THEN << [set |-> "batching_enabled", to |-> word.option = "batching"] >>
                       \o asked[j + 1]
                ELSE IF word.option = "no_verification"
                THEN << [set |-> "run_verification", to |-> FALSE] >> \o asked[j + 1]
                ELSE IF word.option = "force"
                THEN << [set |-> "force", to |-> TRUE] >> \o asked[j + 1]
                ELSE Exit(2)
  IN asked[i]

\* The first word may be a command or, as once, the path of the file.
FirstIsWord(argv) == argv # <<>> /\ argv[1].option = "none"

Overrides(launch) == Asked(launch.argv, IF FirstIsWord(launch.argv) THEN 2 ELSE 1)

InitConfigAsked(launch) == FirstIsWord(launch.argv) /\ launch.argv[1].text = "init-config"

IsSet(items, name) == \E i \in DOMAIN items : items[i].set = name

\* A later option replaces an earlier one.
LastOf(items, name) ==
  items[CHOOSE i \in DOMAIN items :
          items[i].set = name /\ \A j \in DOMAIN items : items[j].set = name => j <= i].to

ConfigPath(launch) ==
  LET ov == Overrides(launch)
  IN IF IsSet(ov, "config") THEN LastOf(ov, "config")
     ELSE IF FirstIsWord(launch.argv) /\ launch.argv[1].text \notin {"serve", "init-config"}
     THEN launch.argv[1].text
     ELSE IF "config" \in DOMAIN launch.env THEN launch.env["config"]
     ELSE DefaultPath

-------------------------------------------------------------------------------
(* The file and the environment *)

\* The order in which from_file asks for its keys.
Keys == <<"model_dir", "rest_port", "grpc_port", "rest_threads", "grpc_threads",
          "model_n_threads", "run_verification", "batching_enabled", "max_batch_size",
          "batch_timeout_ms", "inference_timeout_ms", "log_level", "server_name", "server_version",
          "model_configs">>

\* The keys from_file gets to: a value of the wrong type ends the reading.
Reached(file) ==
  { Keys[n] : n \in { k \in DOMAIN Keys :
      \A l \in 1 .. k : Keys[l] \in DOMAIN file => file[Keys[l]] # Bad } }

\* The models' own sizes, up to the first of the wrong type.
SizesRead(sizes) ==
  LET bad == { i \in DOMAIN sizes : sizes[i].size = Bad }
  IN IF bad = {} THEN sizes
     ELSE SubSeq(sizes, 1, (CHOOSE i \in bad : \A j \in bad : i <= j) - 1)

from_file(file) ==
  IF file = NoFile THEN Defaults
  ELSE [key \in DOMAIN Defaults |->
          IF key \notin DOMAIN file \intersect Reached(file) THEN Defaults[key]
          ELSE IF key = "model_configs" THEN SizesRead(file[key])
          ELSE file[key]]

\* init-config's output.
to_json == [Defaults EXCEPT !.model_configs = <<>>]

EnvironmentTexts == {"model_dir", "log_level"}
EnvironmentInts  == {"rest_port", "grpc_port", "rest_threads", "grpc_threads", "model_n_threads"}

\* Above the file: a number that is none is reported and passed over.
WithEnvironment(cfg, env) ==
  [key \in DOMAIN cfg |->
     IF key \in DOMAIN env \intersect EnvironmentTexts THEN env[key]
     ELSE IF key \in DOMAIN env \intersect EnvironmentInts /\ env[key] \in DOMAIN Numeric
     THEN Numeric[env[key]]
     ELSE cfg[key]]

\* Above the environment.
WithFlags(cfg, ov) ==
  [key \in DOMAIN cfg |-> IF IsSet(ov, key) THEN LastOf(ov, key) ELSE cfg[key]]

\* Mutant of Configured: the environment is applied last.
ConfiguredFlagsFirst(launch, file) ==
  WithEnvironment(WithFlags(from_file(file), Overrides(launch)), launch.env)

Configured(launch, file) ==
  WithFlags(WithEnvironment(from_file(file), launch.env), Overrides(launch))

-------------------------------------------------------------------------------
(* What to serve *)

NamesModel(launch) == "model" \in DOMAIN launch.env \/ IsSet(Overrides(launch), "model")

NamesDirectory(launch) ==
  "model_dir" \in DOMAIN launch.env \/ IsSet(Overrides(launch), "model_dir")

\* A model and a directory, wherever they are named: exit 2.
Ambiguous(launch) == NamesModel(launch) /\ NamesDirectory(launch)

ModelFile(launch) ==
  IF IsSet(Overrides(launch), "model") THEN LastOf(Overrides(launch), "model")
  ELSE launch.env["model"]

\* Mutant of Explicit: only what the environment and the flags name.
ExplicitOutsideFile(launch, file) == NamesDirectory(launch)

\* model_dir_explicit: the file counts if it names another than the default.
Explicit(launch, file) ==
  from_file(file).model_dir # Defaults.model_dir \/ NamesDirectory(launch)
===============================================================================
