-------------------------------- MODULE MCRouter -------------------------------
(***************************************************************************)
(* Router with two routes.                                                 *)
(***************************************************************************)
EXTENDS Router
CONSTANTS r1, r2, w1
MCRoutes  == {r1, r2}
MCWorkers == {w1}
===============================================================================
