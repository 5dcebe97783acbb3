------------------------------- MODULE MCMetrics -------------------------------
(* Metrics for TLC.                                                          *)
EXTENDS Metrics

\* Recordings are interchangeable, and so are series.
Symmetry == Permutations(Recordings) \union Permutations(Series)

OneBound == <<2>>
===============================================================================
