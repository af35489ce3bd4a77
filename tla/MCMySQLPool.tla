------------------------------ MODULE MCMySQLPool -----------------------------
(***************************************************************************)
(* MySQLPool with four threads and two connections.                        *)
(***************************************************************************)
EXTENDS MySQLPool
CONSTANTS u1, u2, u3, u4, k1, k2
MCUsers == {u1, u2, u3, u4}
MCConns == {k1, k2}
===============================================================================
