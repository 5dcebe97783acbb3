------------------------------ MODULE MCServerMain ------------------------------
(* ServerMain for TLC.                                                       *)
EXTENDS ServerMain

MCNames == {<<97>>, <<97, 98>>}
MCVersions == {<<49>>, <<49, 48>>}

\* A word; an option; an option joined to its value.
W(text) == [option |-> "none", joined |-> FALSE, text |-> text, value |-> ""]
O(name) == [option |-> name, joined |-> FALSE, text |-> "--option", value |-> ""]
J(name, value) == [option |-> name, joined |-> TRUE, text |-> "--option=value", value |-> value]

MCNumeric == [ t \in {"1", "4"} |-> IF t = "1" THEN 1 ELSE 4 ]

\* Every kind of word, values that are missing or no numbers, an option for the
\* value of another, an option twice.
MCArgvs ==
  { <<>>, <<W("serve")>>, <<W("c.json")>>, <<J("config", "c.json")>>,
    <<J("model_dir", "d")>>, <<J("model_dir", "d/")>>, <<W("serve"), O("model_dir"), W("d")>>, <<O("model_dir")>>,
    <<J("model", "m.omle")>>, <<J("model", "m.omle"), J("model_dir", "d")>>,
    <<O("batching"), J("max_batch_size", "4")>>, <<O("batching"), O("no_batching")>>,
    <<J("max_batch_size", "4"), O("max_batch_size"), W("1")>>,
    <<J("max_batch_size", "x")>>, <<O("max_batch_size"), O("batching")>>,
    <<O("no_verification")>>, <<O("help")>>, <<J("batching", "1")>>, <<O("bogus")>>,
    <<W("init-config")>>, <<W("init-config"), J("output", "c.json")>>,
    <<W("init-config"), O("force"), O("output"), W("c.json")>> }

MCEnvs == { [model_dir |-> "d/"], [model |-> "m.omle"], [config |-> "c.json"],
            [rest_port |-> "x", model_n_threads |-> "4"] }

MCLaunches ==
  { [argv |-> argv, env |-> <<>>] : argv \in MCArgvs }
  \union { [argv |-> argv, env |-> env] :
             argv \in { <<>>, <<J("model_dir", "e")>>, <<J("model", "n.omle")>>,
                        <<O("batching"), J("rest_port", "1")>> },
             env \in MCEnvs }

Full == [model_dir |-> "f", rest_port |-> 9000, batching_enabled |-> TRUE, max_batch_size |-> 2,
         model_configs |-> << [name |-> <<97>>, size |-> 1] >>]

\* No file; one in each place; a wrong type among the keys, early and late, and
\* among the sizes.
MCFiles ==
  { <<>>, [p \in {"c.json"} |-> Full],
    [p \in {DefaultPath} |-> [model_dir |-> "/models", batching_enabled |-> TRUE,
                              max_batch_size |-> Bad, log_level |-> "debug"]],
    [p \in {DefaultPath} |->
       [batching_enabled |-> TRUE, server_name |-> Bad,
        model_configs |-> << [name |-> <<97>>, size |-> 1] >>]],
    [p \in {DefaultPath, "c.json"} |->
       [batching_enabled |-> TRUE, max_batch_size |-> 1,
        model_configs |-> << [name |-> <<97>>, size |-> 8], [name |-> <<97, 98>>, size |-> Bad] >>]] }

MCConfigs == [batching : BOOLEAN, max_batch_size : {1, 2, 4, 32}, override : [MCNames -> {-1, 1, 8}]]

\* The container image's environment, and a model to try.
ImageLaunches == { [argv |-> argv, env |-> [model_dir |-> "/models"]] :
                     argv \in { <<>>, <<J("model", "m.omle")>>, <<J("model_dir", "d")>> } }
\* Three files where batching is on or the file decides, else one.
Crowded == { <<>>, <<W("c.json")>>, <<O("batching"), J("max_batch_size", "4")>> }
FewFiles == [l \in MCLaunches |-> IF l.argv \in Crowded /\ l.env = <<>> THEN 3 ELSE 1]
OneFile == [l \in ImageLaunches |-> 1]
NoFiles == { <<>> }
===============================================================================
