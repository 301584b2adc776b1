--------------------------------- MODULE Sums ---------------------------------
(* The sum of a function's values, as the history store adds up its torrents. *)
EXTENDS FiniteSetsExt, Integers

SumOf(values) == MapThenSumSet(LAMBDA x : values[x], DOMAIN values)
=============================================================================
