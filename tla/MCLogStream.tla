------------------------------ MODULE MCLogStream -----------------------------
(***************************************************************************)
(* LogStream; the configurations set the numbers.                          *)
(***************************************************************************)
EXTENDS LogStream
===============================================================================
