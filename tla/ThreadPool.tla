------------------------------ MODULE ThreadPool ------------------------------
(***************************************************************************)
(* The worker pool of src/include/pool/thread_pool.hpp: enqueue() pushes   *)
(* under mutex_ and notifies after releasing it; workers wait on cv_ for a *)
(* task or for stop_; the destructor sets stop_, notifies all and joins.   *)
(* A critical section on mutex_ is one step; cv_.wait releases mutex_ and  *)
(* blocks in that same step, and may wake spuriously.                      *)
(***************************************************************************)
EXTENDS Naturals, Sequences, Functions

CONSTANTS Workers,       \* workers_
          Callers,       \* threads that call enqueue()
          MaxTasks,      \* bound: tasks enqueued by one caller
          NoTask

Task == Callers \X (1..MaxTasks)

ASSUME PoolAssumption == /\ Workers # {}
                         /\ MaxTasks \in Nat
                         /\ NoTask \notin Task

VARIABLES
  tasks,         \* tasks_
  stop,          \* stop_
  workerPc,      \* where each worker is in worker_loop()
  current,       \* the local variable task of each worker
  callerPc,      \* a caller is outside enqueue(), or between push and notify
  enqueued,      \* enqueue() calls made so far, by caller
  ownerPc,       \* progress of the destructor
  submitted,     \* history: tasks accepted, in the order of their push
  started,       \* history: tasks popped, in the order of their pop
  finished,      \* history: tasks whose call has returned
  refused        \* history: tasks not accepted because of stop_

workerVars == <<workerPc, current, started, finished>>
callerVars == <<callerPc, enqueued, submitted, refused>>
vars == <<tasks, stop, workerVars, callerVars, ownerPc>>

Init ==
  /\ tasks = <<>>
  /\ stop = FALSE
  /\ workerPc = [w \in Workers |-> "ready"]
  /\ current = [w \in Workers |-> NoTask]
  /\ callerPc = [c \in Callers |-> "outside"]
  /\ enqueued = [c \in Callers |-> 0]
  /\ ownerPc = "alive"
  /\ submitted = <<>>
  /\ started = <<>>
  /\ finished = {}
  /\ refused = {}

Waiting == {w \in Workers : workerPc[w] = "waiting"}

-------------------------------------------------------------------------------
(* Wrong variants of actions below, substituted for them one at a time to  *)
(* see that the properties notice.                                         *)

\* Tests stop_ before the queue: a stopping pool drops what is queued.
Mut_Exit(w) ==
  /\ workerPc[w] = "ready"
  /\ stop
  /\ workerPc' = [workerPc EXCEPT ![w] = "exited"]
  /\ UNCHANGED <<tasks, stop, current, started, finished, callerVars, ownerPc>>

\* Waits without testing the predicate first.
Mut_Block(w) ==
  /\ workerPc[w] = "ready"
  /\ ~stop
  /\ workerPc' = [workerPc EXCEPT ![w] = "waiting"]
  /\ UNCHANGED <<tasks, stop, current, started, finished, callerVars, ownerPc>>

\* Waits for a task only, not for stop_.
Mut_Block_IgnoresStop(w) ==
  /\ workerPc[w] = "ready"
  /\ tasks = <<>>
  /\ workerPc' = [workerPc EXCEPT ![w] = "waiting"]
  /\ UNCHANGED <<tasks, stop, current, started, finished, callerVars, ownerPc>>

\* Pushes and never notifies.
Mut_NotifyOne(c) ==
  /\ callerPc[c] = "pushed"
  /\ callerPc' = [callerPc EXCEPT ![c] = "outside"]
  /\ UNCHANGED <<tasks, stop, workerVars, enqueued, submitted, refused, ownerPc>>

\* Drops the task before it has recorded its end.
Mut_Finish_Early(w) ==
  /\ workerPc[w] = "running"
  /\ current' = [current EXCEPT ![w] = NoTask]
  /\ finished' = finished \cup {current'[w]}
  /\ workerPc' = [workerPc EXCEPT ![w] = "ready"]
  /\ UNCHANGED <<tasks, stop, started, callerVars, ownerPc>>

-------------------------------------------------------------------------------
(* enqueue().  Both overloads test stop_ and push under mutex_; they only  *)
(* differ in how they report a refusal (return, or throw).                 *)

Enqueue(c) ==
  LET task == <<c, enqueued[c] + 1>>
  IN  /\ ownerPc # "destroyed"
      /\ callerPc[c] = "outside"
      /\ enqueued[c] < MaxTasks
      /\ enqueued' = [enqueued EXCEPT ![c] = @ + 1]
      /\ \/ /\ stop
            /\ refused' = refused \cup {task}
            /\ UNCHANGED <<tasks, submitted, callerPc>>
         \/ /\ ~stop
            /\ tasks' = Append(tasks, task)
            /\ submitted' = Append(submitted, task)
            /\ callerPc' = [callerPc EXCEPT ![c] = "pushed"]
            /\ UNCHANGED refused
      /\ UNCHANGED <<stop, workerVars, ownerPc>>

\* cv_.notify_one(), with mutex_ released.
NotifyOne(c) ==
  /\ callerPc[c] = "pushed"
  /\ callerPc' = [callerPc EXCEPT ![c] = "outside"]
  /\ IF Waiting = {}
     THEN UNCHANGED workerPc
     ELSE \E w \in Waiting : workerPc' = [workerPc EXCEPT ![w] = "ready"]
  /\ UNCHANGED <<tasks, stop, current, started, finished, enqueued, submitted,
                 refused, ownerPc>>

-------------------------------------------------------------------------------
(* worker_loop().  A "ready" worker holds no lock and is about to test the *)
(* predicate of cv_.wait.                                                  *)

Take(w) ==
  /\ workerPc[w] = "ready"
  /\ tasks # <<>>
  /\ current' = [current EXCEPT ![w] = Head(tasks)]
  /\ started' = Append(started, Head(tasks))
  /\ tasks' = Tail(tasks)
  /\ workerPc' = [workerPc EXCEPT ![w] = "running"]
  /\ UNCHANGED <<stop, finished, callerVars, ownerPc>>

Exit(w) ==
  /\ workerPc[w] = "ready"
  /\ stop /\ tasks = <<>>
  /\ workerPc' = [workerPc EXCEPT ![w] = "exited"]
  /\ UNCHANGED <<tasks, stop, current, started, finished, callerVars, ownerPc>>

Block(w) ==
  /\ workerPc[w] = "ready"
  /\ ~stop /\ tasks = <<>>
  /\ workerPc' = [workerPc EXCEPT ![w] = "waiting"]
  /\ UNCHANGED <<tasks, stop, current, started, finished, callerVars, ownerPc>>

SpuriousWakeup(w) ==
  /\ workerPc[w] = "waiting"
  /\ workerPc' = [workerPc EXCEPT ![w] = "ready"]
  /\ UNCHANGED <<tasks, stop, current, started, finished, callerVars, ownerPc>>

\* task() returns; the packaged_task of the second overload keeps what it throws.
Finish(w) ==
  /\ workerPc[w] = "running"
  /\ finished' = finished \cup {current[w]}
  /\ current' = [current EXCEPT ![w] = NoTask]
  /\ workerPc' = [workerPc EXCEPT ![w] = "ready"]
  /\ UNCHANGED <<tasks, stop, started, callerVars, ownerPc>>

-------------------------------------------------------------------------------
(* ~ThreadPool().                                                          *)

SetStop ==
  /\ ownerPc = "alive"
  /\ ownerPc' = "stopping"
  /\ stop' = TRUE
  /\ UNCHANGED <<tasks, workerVars, callerVars>>

NotifyAll ==
  /\ ownerPc = "stopping"
  /\ ownerPc' = "joining"
  /\ workerPc' = [w \in Workers |->
                    IF w \in Waiting THEN "ready" ELSE workerPc[w]]
  /\ UNCHANGED <<tasks, stop, current, started, finished, callerVars>>

\* The last join returns.  That no caller is still inside enqueue() is what C++
\* asks of whoever destroys an object.
Joined ==
  /\ ownerPc = "joining"
  /\ \A w \in Workers : workerPc[w] = "exited"
  /\ \A c \in Callers : callerPc[c] = "outside"
  /\ ownerPc' = "destroyed"
  /\ UNCHANGED <<tasks, stop, workerVars, callerVars>>

-------------------------------------------------------------------------------
Worker(w) == Take(w) \/ Exit(w) \/ Block(w) \/ SpuriousWakeup(w) \/ Finish(w)
Caller(c) == Enqueue(c) \/ NotifyOne(c)
Owner     == SetStop \/ NotifyAll \/ Joined

Next == \/ \E w \in Workers : Worker(w)
        \/ \E c \in Callers : Caller(c)
        \/ Owner

Spec == Init /\ [][Next]_vars

\* Threads that can run do run, the tasks return, and a destructor that has
\* started goes on.  Nobody has to enqueue or to destroy, and no spurious wakeup
\* is counted on.
FairSpec ==
  /\ Spec
  /\ \A w \in Workers : /\ WF_vars(Take(w)) /\ WF_vars(Exit(w))
                        /\ WF_vars(Block(w)) /\ WF_vars(Finish(w))
  /\ \A c \in Callers : WF_vars(NotifyOne(c))
  /\ WF_vars(NotifyAll) /\ WF_vars(Joined)

-------------------------------------------------------------------------------
(* Properties.                                                             *)

\* Type invariant.
TypeOK ==
  /\ tasks \in Seq(Task)
  /\ stop \in BOOLEAN
  /\ workerPc \in [Workers -> {"ready", "waiting", "running", "exited"}]
  /\ current \in [Workers -> Task \cup {NoTask}]
  /\ callerPc \in [Callers -> {"outside", "pushed"}]
  /\ enqueued \in [Callers -> 0..MaxTasks]
  /\ ownerPc \in {"alive", "stopping", "joining", "destroyed"}
  /\ submitted \in Seq(Task)
  /\ started \in Seq(Task)
  /\ finished \in SUBSET Task
  /\ refused \in SUBSET Task

\* Tasks are popped in the order they were pushed, none lost and none twice.
FifoExactlyOnce == submitted = started \o tasks

\* A task that was popped is in the hands of one worker until its call returns,
\* and of none afterwards.
OneWorkerPerTask ==
  /\ Range(started) = finished \cup ({current[w] : w \in Workers} \ {NoTask})
  /\ \A w \in Workers : current[w] \notin finished
  /\ \A v, w \in Workers : current[v] = current[w] /\ current[v] # NoTask => v = w

\* No lost notification: while tasks are queued, some worker is awake, or a
\* caller is about to notify one.
NoIdleStall ==
  tasks # <<>> => \/ \E w \in Workers : workerPc[w] \in {"ready", "running"}
                  \/ \E c \in Callers : callerPc[c] = "pushed"

\* Once the destructor has notified all, no worker waits on cv_ any more: each
\* join will return.
StopReachesEveryWorker == ownerPc \in {"joining", "destroyed"} => Waiting = {}

\* A destroyed pool has run, to its end, every task it ever accepted.
DrainedWhenDestroyed ==
  ownerPc = "destroyed" => tasks = <<>> /\ finished = Range(submitted)

\* enqueue() and worker_loop() together are a FIFO executor.
Executor == INSTANCE FifoExecutor WITH queue <- tasks

ImplementsExecutor == Executor!FairSpec

\* The destructor returns.
DestructorReturns == (ownerPc # "alive") ~> (ownerPc = "destroyed")
===============================================================================
