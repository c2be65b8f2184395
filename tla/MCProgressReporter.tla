--------------------------- MODULE MCProgressReporter ---------------------------
(* Instances of ProgressReporter for TLC; the bounds are in the cfg file. *)
EXTENDS ProgressReporter, TLC

CONSTANTS a, b

\* Two calls whose lines read the same; all else treats them alike.
SameLabel == a :> "x" @@ b :> "x"
Symmetry == Permutations({a, b})
================================================================================
