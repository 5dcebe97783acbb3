------------------------------ MODULE ServerMain ------------------------------
(***************************************************************************)
(* main() (src/main.cpp) from the command line to the registries: what        *)
(* Configuration makes of a launch decides what Registries loads, how it       *)
(* batches, or the code the process exits with. The server may be launched     *)
(* again after an exit, with another command line and other files; init-config *)
(* leaves a configuration file for the next launch.                           *)
(***************************************************************************)
EXTENDS Registries, Configuration, FiniteSets

CONSTANTS Launches,   \* the command lines and environments
          Files,      \* the configuration files to begin with: path -> contents
          Slashed,    \* the directories, but for the root, spelled with a slash at the end
          MaxFiles,   \* bound: launch -> the number of model files in a directory
          NoLaunch

\* The environment is what main() reads of it.
ASSUME LaunchesAssumption ==
  /\ NoLaunch \notin Launches
  /\ \A l \in Launches :
       /\ l.argv \in Seq(Word)
       /\ DOMAIN l.env \subseteq {"config", "model"} \union EnvironmentTexts \union EnvironmentInts

\* A value of a file has its setting's type, or is Bad.
WellTyped(file) ==
  LET Has(key) == key \in DOMAIN file /\ file[key] # Bad
  IN file # NoFile =>
       /\ Has("batching_enabled") => file["batching_enabled"] \in BOOLEAN
       /\ Has("max_batch_size") => file["max_batch_size"] \in Int
       /\ Has("model_configs") =>
            file["model_configs"] \in Seq([name : Strings, size : Int \union {Bad}])

ASSUME FilesAssumption ==
  \A contents \in Files : \A path \in DOMAIN contents : WellTyped(contents[path])

ASSUME MainSourcesAssumption ==
  {"model", "missing model", "directory", "directory/",
   "missing directory", "missing default directory"} \subseteq Sources

VARIABLES launch,     \* the command line and the environment of this process
          files,      \* the configuration files
          there,      \* the model file or the directory to serve is there
          exit        \* the code of an exit before the loading

NoCode == -1

mainvars == <<launch, files, there, exit>>
allvars == <<vars, mainvars>>

Content(path) == IF path \in DOMAIN files THEN files[path] ELSE NoFile

Nothing == [batching |-> FALSE, max_batch_size |-> 0, override |-> [n \in Names |-> -1]]

MainInit ==
  /\ source = "none" /\ tree = {} /\ sound = {} /\ cfg = Nothing
  /\ phase = "off" /\ unvisited = {} /\ models = <<>> /\ unbatched = {} /\ batchers = <<>>
  /\ launch = NoLaunch /\ files \in Files /\ there = FALSE /\ exit = NoCode

-------------------------------------------------------------------------------
\* load_file or load, with the directory as it is spelled, and what a load that
\* fails means.
SourceOf(l, file, isThere) ==
  IF NamesModel(l) THEN IF isThere THEN "model" ELSE "missing model"
  ELSE IF isThere
  THEN IF Configured(l, file).model_dir \in Slashed THEN "directory/" ELSE "directory"
  ELSE IF Explicit(l, file) THEN "missing directory" ELSE "missing default directory"

\* The part of ServerConfig that BatcherRegistry reads.
BatchingOf(l, file) ==
  LET c == Configured(l, file)
      own(n) == { i \in DOMAIN c.model_configs : c.model_configs[i].name = n }
  IN [batching |-> c.batching_enabled, max_batch_size |-> c.max_batch_size,
      override |-> [n \in Names |->
                      IF own(n) = {} THEN -1
                      ELSE c.model_configs[CHOOSE i \in own(n) : TRUE].size]]

\* An exit before anything is loaded.
Leave(code) ==
  /\ phase' = "exited" /\ exit' = code
  /\ UNCHANGED <<source, tree, sound, cfg, unvisited, models, unbatched, batchers, there>>

Output(l) ==
  IF IsSet(Overrides(l), "output") THEN LastOf(Overrides(l), "output") ELSE DefaultPath

WithContent(path, content) ==
  [p \in DOMAIN files \union {path} |-> IF p = path THEN content ELSE files[p]]

\* The file is written, or cannot be opened, or is left broken in the middle.
Write(path) ==
  \/ files' = WithContent(path, to_json) /\ Leave(0)
  \/ files' \in {files, WithContent(path, NoFile)} /\ Leave(1)

\* Mutant of InitConfig: an existing file is overwritten.
InitConfigOver(l) == Write(Output(l))

\* cmd_init_config
InitConfig(l) ==
  \/ /\ Output(l) \in DOMAIN files /\ ~IsSet(Overrides(l), "force")
     /\ UNCHANGED files /\ Leave(1)
  \/ /\ Output(l) \notin DOMAIN files \/ IsSet(Overrides(l), "force")
     /\ Write(Output(l))

\* What is there, and which of it can be loaded, is what this process finds.
Load(l) ==
  LET file == Content(ConfigPath(l))
  IN /\ there' \in BOOLEAN
     /\ source' = SourceOf(l, file, there')
     /\ tree' \in { t \in SUBSET Paths :
          IF source' = "model" THEN \E p \in Paths : t = {p} /\ p.layout = "flat"
          ELSE IF source' \in Directories THEN Cardinality(t) <= MaxFiles[l]
          ELSE t = {} }
     /\ sound' \in SUBSET tree'
     /\ cfg' = BatchingOf(l, file)
     /\ phase' = "loading" /\ unvisited' = tree'
     /\ UNCHANGED <<models, unbatched, batchers, files, exit>>

Launch(l) ==
  LET ov == Overrides(l)
  IN /\ phase = "off"
     /\ launch' = l
     /\ IF IsSet(ov, "exit") THEN UNCHANGED files /\ Leave(LastOf(ov, "exit"))
        ELSE IF InitConfigAsked(l) THEN InitConfig(l)
        ELSE IF Ambiguous(l) THEN UNCHANGED files /\ Leave(2)
        ELSE Load(l)

Start == Next /\ phase # "off" /\ UNCHANGED mainvars

\* The process is gone: nothing but the files is left.
Stop ==
  /\ phase \in {"exited", "failed", "serving"}
  /\ source' = "none" /\ tree' = {} /\ sound' = {} /\ cfg' = Nothing
  /\ phase' = "off" /\ unvisited' = {} /\ models' = <<>> /\ unbatched' = {}
  /\ batchers' = <<>> /\ launch' = NoLaunch /\ there' = FALSE /\ exit' = NoCode
  /\ UNCHANGED files

MainNext == (\E l \in Launches : Launch(l)) \/ Start \/ Stop

MainSpec == MainInit /\ [][MainNext]_allvars

-------------------------------------------------------------------------------
(* Properties *)

File == Content(ConfigPath(launch))
Options == Overrides(launch)

Started == phase \in {"loading", "batching", "serving", "failed"}

\* Registries' variables are as Registries has them once loading has begun, and
\* the process was launched in the way the phase says.
MainTypeOK ==
  /\ phase \in {"off", "exited", "loading", "batching", "serving", "failed"}
  /\ Started => TypeOK
  /\ phase = "off" <=> launch = NoLaunch
  /\ phase # "off" => launch \in Launches
  /\ there \in BOOLEAN
  /\ exit \in {NoCode, 0, 1, 2} /\ (phase = "exited" <=> exit # NoCode)

\* "Settings come from four places. Later wins" (main.cpp, lines 79-84): what the
\* registries are made of is a flag's value, the last of several; if there is no
\* flag, the environment's; if the environment has none that can be used, the
\* file's, as far as it was read; else the default.
LaterSourceWins ==
  LET byFlag(key) == IsSet(Options, key)
      byEnv(key)  == \/ key \in {"model_dir", "log_level"} /\ key \in DOMAIN launch.env
                     \/ /\ key \notin {"model_dir", "log_level"} /\ key \in DOMAIN launch.env
                        /\ launch.env[key] \in DOMAIN Numeric
      byFile(key) == /\ File # NoFile /\ key \in DOMAIN File
                     /\ \E n \in DOMAIN Keys :
                          /\ Keys[n] = key
                          /\ \A k \in 1 .. n : Keys[k] \in DOMAIN File => File[Keys[k]] # Bad
  IN phase \in {"serving", "failed"} =>
       \A key \in DOMAIN Defaults \ {"model_configs"} :
         LET value == Configured(launch, File)[key]
         IN /\ byFlag(key) =>
                 \E i \in DOMAIN Options :
                   /\ Options[i].set = key /\ Options[i].to = value
                   /\ \A j \in DOMAIN Options : Options[j].set = key => j <= i
            /\ ~byFlag(key) /\ byEnv(key) =>
                 value = IF key \in {"model_dir", "log_level"} THEN launch.env[key]
                         ELSE Numeric[launch.env[key]]
            /\ ~byFlag(key) /\ ~byEnv(key) /\ byFile(key) => value = File[key]
            /\ ~byFlag(key) /\ ~byEnv(key) /\ ~byFile(key) => value = Defaults[key]
            /\ key = "batching_enabled" => cfg.batching = value
            /\ key = "max_batch_size" => cfg.max_batch_size = value

\* "Flat: <root>/<name>.omle -> version 1. Versioned:
\* <root>/<name>/<version>/model.omle" (model_registry.h, lines 20-21), as far as
\* the code keeps it: whatever the order of the scan and whatever fails to load,
\* what is served is what can be loaded from the two layouts, each under its own
\* name and version, but only the versioned layout if the directory's spelling,
\* wherever it comes from, ends in a slash (model_registry.cpp, line 80).
ServesAsSpelled ==
  LET slashed == ~NamesModel(launch) /\ Configured(launch, File).model_dir \in Slashed
      served == {p \in sound : IF slashed THEN p.layout = "versioned" ELSE p.layout # "stray"}
  IN phase = "serving" =>
       /\ DOMAIN models = {Claim(p) : p \in served}
       /\ \A k \in DOMAIN models : models[k] \in served /\ Claim(models[k]) = k

\* A directory that is not there is somebody's choice, and not only the default's.
Chosen ==
  \/ "model_dir" \in DOMAIN launch.env \/ IsSet(Options, "model_dir")
  \/ Configured(launch, File).model_dir # Defaults.model_dir

\* "a typo'd --model-dir should not leave a server running that answers every
\* inference request with 404" and "This never falls back: the caller named
\* exactly one model" (main.cpp, lines 461-463, 478-480): a server that serves
\* has loaded the model it was given, or scanned the directory, or it has no
\* models and nobody chose a directory. It only fails if what was chosen is not
\* there, or is a model that does not load.
ServesWhatWasChosen ==
  LET oneModel == NamesModel(launch)
  IN /\ phase = "serving" =>
          /\ oneModel => \E p \in sound : tree = {p} /\ models = With(<<>>, <<p.name, One>>, p)
          /\ ~oneModel /\ ~there => ~Chosen /\ models = <<>>
          /\ ~there => batchers = <<>>
     /\ phase = "failed" => IF oneModel THEN sound = {} ELSE Chosen /\ ~there

\* "already exists; pass --force to overwrite", and "every key here is one that
\* loader reads" (main.cpp, lines 172-173, 200-204): init-config changes no file
\* that is there unless it is forced to, and what it writes reads as the defaults.
InitConfigKeepsFiles ==
  [][ \A path \in DOMAIN files' :
        path \notin DOMAIN files \/ files'[path] # files[path] =>
          /\ path \in DOMAIN files => IsSet(Options', "force")
          /\ from_file(files'[path]) = Defaults ]_files

\* "Environment sits below flags so a container image can set a baseline that
\* `docker run` still overrides, without rewriting the config file" (README.md,
\* lines 62-63): flags that are in order by themselves are never refused for what
\* the environment says.
FlagsOverrideEnvironment ==
  phase = "exited" /\ exit = 2 =>
    \/ IsSet(Options, "exit")
    \/ IsSet(Options, "model") /\ IsSet(Options, "model_dir")
    \/ ~IsSet(Options, "model") /\ ~IsSet(Options, "model_dir")
===============================================================================
