------------------------------ MODULE MCRegistries ------------------------------
(* Registries for TLC.                                                       *)
EXTENDS Registries

\* "a" and "ab"; "1", which the flat layout claims too, and "10".
PlainNames == {<<97>>, <<97, 98>>}
TwoVersions == {<<49>>, <<49, 48>>}

\* "a" and "a@b".
NamesWithAt == {<<97>>, <<97, 64, 98>>}

\* Batching off; on for all; on but for one model; on for one model only.
Config(batching, size, a, b) ==
  [batching |-> batching, max_batch_size |-> size,
   override |-> [n \in Names |-> IF n = <<97>> THEN a ELSE b]]

FourConfigs == { Config(FALSE, 32, -1, 8), Config(TRUE, 32, -1, 8),
                 Config(TRUE, 32, 1, -1), Config(TRUE, 1, 4, 0) }
===============================================================================
