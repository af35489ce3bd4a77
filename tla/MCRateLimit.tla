------------------------------ MODULE MCRateLimit ------------------------------
(***************************************************************************)
(* RateLimit with one or two workers and two ticks in a second.  Workers   *)
(* are interchangeable.                                                    *)
(***************************************************************************)
EXTENDS RateLimit, TLC
CONSTANTS w1, w2
MCOneWorker == {w1}
MCWorkers == {w1, w2}
MCSymmetry == Permutations(MCWorkers)
===============================================================================
