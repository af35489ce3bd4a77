----------------------------- MODULE MCEventLoop ------------------------------
(***************************************************************************)
(* EventLoop with two posting threads; the configurations bound the calls. *)
(***************************************************************************)
EXTENDS EventLoop
CONSTANTS worker1, worker2
MCCallers == {worker1, worker2}
===============================================================================
