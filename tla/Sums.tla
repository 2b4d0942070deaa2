-------------------------------- MODULE Sums --------------------------------
(* Sums of the amounts a set of rows carries: the code's reduce over rows   *)
(* read from the database, and its aggregate queries.                       *)
EXTENDS Integers, FiniteSetsExt

(* The sum of f[x] over the domain of f. *)
SumOf(f) == MapThenSumSet(LAMBDA x : f[x], DOMAIN f)

=============================================================================
