--------------------------- MODULE MCTcpConnection ----------------------------
(***************************************************************************)
(* TcpConnection with one client of the API port and one of the management *)
(* port, or the latter alone.                                              *)
(***************************************************************************)
EXTENDS TcpConnection
CONSTANTS a1, m1
MCMixed == {a1, m1}
MCMgmt  == {m1}
===============================================================================
