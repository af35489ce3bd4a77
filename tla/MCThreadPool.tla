----------------------------- MODULE MCThreadPool -----------------------------
(***************************************************************************)
(* ThreadPool with three workers and two callers.                          *)
(***************************************************************************)
EXTENDS ThreadPool
CONSTANTS w1, w2, w3, c1, c2
MCWorkers == {w1, w2, w3}
MCCallers == {c1, c2}
===============================================================================
