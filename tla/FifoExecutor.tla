----------------------------- MODULE FifoExecutor -----------------------------
(***************************************************************************)
(* What both hand-over points of the gateway promise their callers: a task *)
(* given to the executor is started once, in the order of submission, and  *)
(* (FairSpec) is not left in the queue for ever.  EventLoop.tla            *)
(* (runInLoop from another thread) and ThreadPool.tla (enqueue) are each   *)
(* shown to implement this module.                                         *)
(***************************************************************************)
EXTENDS Sequences

CONSTANT Task            \* everything that can be submitted

VARIABLES queue,         \* submitted and not started, oldest first
          started        \* started, in the order of starting

vars == <<queue, started>>

Init == queue = <<>> /\ started = <<>>

Submitted == started \o queue

\* A task is a call, and a call is made once.
Submit(t) == /\ \A i \in DOMAIN Submitted : Submitted[i] # t
             /\ queue' = Append(queue, t)
             /\ UNCHANGED started

Start == /\ queue # <<>>
         /\ started' = Append(started, Head(queue))
         /\ queue' = Tail(queue)

Next == (\E t \in Task : Submit(t)) \/ Start

Spec == Init /\ [][Next]_vars

FairSpec == Spec /\ WF_vars(Start)
===============================================================================
