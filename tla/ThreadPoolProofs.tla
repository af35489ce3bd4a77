--------------------------- MODULE ThreadPoolProofs ---------------------------
(***************************************************************************)
(* Theorems about ThreadPool.tla, for any set of workers that is not empty,*)
(* any set of callers and any number of tasks: the queue is FIFO, a task   *)
(* has one worker, no notification is lost, and a destroyed pool has run   *)
(* all it accepted.                                                        *)
(***************************************************************************)
EXTENDS ThreadPool, QueueLemmas, TLAPS

USE PoolAssumption

-------------------------------------------------------------------------------
(* Types.  That a worker's local variable holds a task exactly while its   *)
(* call is under way is part of the argument: what Finish records is a     *)
(* task.                                                                   *)

TaskWhileRunning == \A w \in Workers : workerPc[w] = "running" <=> current[w] # NoTask

TypeInv == TypeOK /\ TaskWhileRunning

LEMMA TypeInit == Init => TypeInv
<1> SUFFICES ASSUME Init PROVE TypeInv
  OBVIOUS
<1>1. <<>> \in Seq(Task)
  BY EmptySeq
<1>2. 0 \in 0..MaxTasks
  OBVIOUS
<1>3. TypeOK
  BY <1>1, <1>2 DEF Init, TypeOK
<1>4. TaskWhileRunning
  BY DEF Init, TaskWhileRunning
<1> QED BY <1>3, <1>4 DEF TypeInv

LEMMA TypeStep == TypeInv /\ [Next]_vars => TypeInv'
<1> SUFFICES ASSUME TypeInv, [Next]_vars PROVE TypeInv'
  OBVIOUS
<1> USE DEF TypeInv, TypeOK, TaskWhileRunning
<1>1. ASSUME NEW w \in Workers, Take(w)
      PROVE  TypeInv'
  <2>1. /\ Head(tasks) \in Task /\ Tail(tasks) \in Seq(Task)
        /\ Append(started, Head(tasks)) \in Seq(Task)
    BY <1>1, HeadTailProperties, AppendProperties DEF Take
  <2>2. Head(tasks) # NoTask
    BY <2>1
  <2> QED BY <1>1, <2>1, <2>2 DEF Take, callerVars
<1>2. ASSUME NEW w \in Workers, Exit(w) \/ Block(w) \/ SpuriousWakeup(w)
      PROVE  TypeInv'
  BY <1>2 DEF Exit, Block, SpuriousWakeup, callerVars
<1>3. ASSUME NEW w \in Workers, Finish(w)
      PROVE  TypeInv'
  BY <1>3 DEF Finish, callerVars
<1>4. ASSUME NEW c \in Callers, Enqueue(c)
      PROVE  TypeInv'
  <2> DEFINE t == <<c, enqueued[c] + 1>>
  <2>1. enqueued[c] + 1 \in 1..MaxTasks
    BY <1>4 DEF Enqueue
  <2>2. t \in Task /\ enqueued' \in [Callers -> 0..MaxTasks]
    BY <1>4, <2>1 DEF Enqueue, Task
  <2>3. Append(tasks, t) \in Seq(Task) /\ Append(submitted, t) \in Seq(Task)
    BY <2>2, AppendProperties
  <2>4. /\ tasks' \in Seq(Task) /\ submitted' \in Seq(Task)
        /\ refused' \in SUBSET Task
        /\ callerPc' \in [Callers -> {"outside", "pushed"}]
    BY <1>4, <2>2, <2>3 DEF Enqueue
  <2> QED BY <1>4, <2>2, <2>4 DEF Enqueue, workerVars
<1>5. ASSUME NEW c \in Callers, NotifyOne(c)
      PROVE  TypeInv'
  <2>1. \/ workerPc' = workerPc
        \/ \E w \in Waiting : workerPc' = [workerPc EXCEPT ![w] = "ready"]
    BY <1>5 DEF NotifyOne
  <2>2. /\ workerPc' \in [Workers -> {"ready", "waiting", "running", "exited"}]
        /\ \A w \in Workers : workerPc'[w] = "running" <=> workerPc[w] = "running"
    BY <2>1 DEF Waiting
  <2> QED BY <1>5, <2>2 DEF NotifyOne
<1>6. CASE SetStop
  BY <1>6 DEF SetStop, workerVars, callerVars
<1>7. CASE NotifyAll
  BY <1>7 DEF NotifyAll, callerVars, Waiting
<1>8. CASE Joined
  BY <1>8 DEF Joined, workerVars, callerVars
<1>9. CASE UNCHANGED vars
  BY <1>9 DEF vars, workerVars, callerVars
<1> QED
  BY <1>1, <1>2, <1>3, <1>4, <1>5, <1>6, <1>7, <1>8, <1>9
     DEF Next, Worker, Caller, Owner

\* TypeOK holds throughout.
THEOREM TypeCorrect == Spec => []TypeOK
<1>1. TypeInv => TypeOK
  BY DEF TypeInv
<1> QED BY TypeInit, TypeStep, <1>1, PTL DEF Spec

-------------------------------------------------------------------------------
(* Waiting, notifying and stopping.                                        *)

\* A worker leaves only a stopping pool, and only when nothing is queued; stop_
\* stays set and keeps anything else from being queued.
ExitedMeansDrained ==
  \A w \in Workers : workerPc[w] = "exited" => stop /\ tasks = <<>>

StopIsTheOwners == stop <=> ownerPc # "alive"

DestroyedMeansExited ==
  ownerPc = "destroyed" => \A w \in Workers : workerPc[w] = "exited"

StopInv == /\ ExitedMeansDrained /\ StopIsTheOwners /\ DestroyedMeansExited
           /\ StopReachesEveryWorker /\ NoIdleStall

LEMMA StopInit == Init => StopInv
BY DEF Init, StopInv, ExitedMeansDrained, StopIsTheOwners,
       DestroyedMeansExited, StopReachesEveryWorker, NoIdleStall

LEMMA StopStep == TypeInv /\ StopInv /\ [Next]_vars => StopInv'
<1> SUFFICES ASSUME TypeInv, StopInv, [Next]_vars PROVE StopInv'
  OBVIOUS
<1>0. /\ workerPc \in [Workers -> {"ready", "waiting", "running", "exited"}]
      /\ callerPc \in [Callers -> {"outside", "pushed"}]
      /\ ownerPc \in {"alive", "stopping", "joining", "destroyed"}
  BY DEF TypeInv, TypeOK
<1> USE <1>0 DEF StopInv, ExitedMeansDrained, StopIsTheOwners,
        DestroyedMeansExited, StopReachesEveryWorker, NoIdleStall, Waiting
<1>1. ASSUME NEW w \in Workers, Take(w)
      PROVE  StopInv'
  BY <1>1 DEF Take
<1>2. ASSUME NEW w \in Workers, Exit(w)
      PROVE  StopInv'
  BY <1>2 DEF Exit
<1>3. ASSUME NEW w \in Workers, Block(w)
      PROVE  StopInv'
  BY <1>3 DEF Block
<1>4. ASSUME NEW w \in Workers, SpuriousWakeup(w) \/ Finish(w)
      PROVE  StopInv'
  BY <1>4 DEF SpuriousWakeup, Finish, callerVars
<1>5. ASSUME NEW c \in Callers, Enqueue(c)
      PROVE  StopInv'
  BY <1>5 DEF Enqueue, workerVars
<1>6. ASSUME NEW c \in Callers, NotifyOne(c)
      PROVE  StopInv'
  BY <1>6 DEF NotifyOne
<1>7. CASE SetStop
  BY <1>7 DEF SetStop, workerVars, callerVars
<1>8. CASE NotifyAll
  BY <1>8 DEF NotifyAll, callerVars
<1>9. CASE Joined
  BY <1>9 DEF Joined, workerVars, callerVars
<1>10. CASE UNCHANGED vars
  BY <1>10 DEF vars, workerVars, callerVars
<1> QED
  BY <1>1, <1>2, <1>3, <1>4, <1>5, <1>6, <1>7, <1>8, <1>9, <1>10
     DEF Next, Worker, Caller, Owner

LEMMA StopInvariant == Spec => [](TypeInv /\ StopInv)
BY TypeInit, TypeStep, StopInit, StopStep, PTL DEF Spec

\* While tasks are queued some worker is awake or about to be notified.
THEOREM NoNotificationIsLost == Spec => []NoIdleStall
<1>1. StopInv => NoIdleStall
  BY DEF StopInv
<1> QED BY <1>1, StopInvariant, PTL

\* After the destructor's notify_all no worker waits again, so each join returns.
THEOREM StopIsSeenByAll == Spec => []StopReachesEveryWorker
<1>1. StopInv => StopReachesEveryWorker
  BY DEF StopInv
<1> QED BY <1>1, StopInvariant, PTL

-------------------------------------------------------------------------------
(* The queue.                                                              *)

\* The n-th call of a thread pushes its n-th task, so no task is pushed twice.
PushedOnce ==
  /\ IsInjective(submitted)
  /\ \A t \in Range(submitted) : t[2] <= enqueued[t[1]]

QueueUnchanged == UNCHANGED <<tasks, submitted, started>>

Push(c) == /\ enqueued[c] < MaxTasks
           /\ tasks' = Append(tasks, <<c, enqueued[c] + 1>>)
           /\ submitted' = Append(submitted, <<c, enqueued[c] + 1>>)
           /\ enqueued' = [enqueued EXCEPT ![c] = @ + 1]
           /\ UNCHANGED <<started, current, finished>>

\* Only an accepting enqueue() and a worker's pop touch the queue.
LEMMA QueueSteps ==
  ASSUME TypeInv, [Next]_vars
  PROVE  \/ QueueUnchanged /\ UNCHANGED enqueued
         \/ \E c \in Callers : \/ Push(c)
                               \/ /\ QueueUnchanged
                                  /\ enqueued[c] < MaxTasks
                                  /\ enqueued' = [enqueued EXCEPT ![c] = @ + 1]
         \/ \E w \in Workers : Take(w)
<1>1. ASSUME NEW w \in Workers, Worker(w)
      PROVE  Take(w) \/ (QueueUnchanged /\ UNCHANGED enqueued)
  BY <1>1 DEF Worker, Exit, Block, SpuriousWakeup, Finish, QueueUnchanged,
       callerVars
<1>2. ASSUME NEW c \in Callers, Enqueue(c)
      PROVE  \/ Push(c)
             \/ /\ QueueUnchanged
                /\ enqueued[c] < MaxTasks
                /\ enqueued' = [enqueued EXCEPT ![c] = @ + 1]
  BY <1>2 DEF Enqueue, Push, QueueUnchanged, workerVars
<1>3. ASSUME NEW c \in Callers, NotifyOne(c)
      PROVE  QueueUnchanged /\ UNCHANGED enqueued
  BY <1>3 DEF NotifyOne, QueueUnchanged
<1>4. ASSUME Owner \/ UNCHANGED vars
      PROVE  QueueUnchanged /\ UNCHANGED enqueued
  BY <1>4 DEF Owner, SetStop, NotifyAll, Joined, QueueUnchanged, vars,
       workerVars, callerVars
<1> QED BY <1>1, <1>2, <1>3, <1>4 DEF Next, Caller

LEMMA FifoStep == TypeInv /\ FifoExactlyOnce /\ [Next]_vars => FifoExactlyOnce'
<1> SUFFICES ASSUME TypeInv, FifoExactlyOnce, [Next]_vars
             PROVE  FifoExactlyOnce'
  OBVIOUS
<1>0. /\ submitted = started \o tasks
      /\ started \in Seq(Task) /\ tasks \in Seq(Task)
  BY DEF TypeInv, TypeOK, FifoExactlyOnce
<1>1. CASE QueueUnchanged
  BY <1>0, <1>1 DEF QueueUnchanged, FifoExactlyOnce
<1>2. ASSUME NEW c \in Callers, Push(c)
      PROVE  FifoExactlyOnce'
  <2>1. <<c, enqueued[c] + 1>> \in Task
    BY <1>2 DEF Push, TypeInv, TypeOK, Task
  <2>2. started \o Append(tasks, <<c, enqueued[c] + 1>>)
          = Append(started \o tasks, <<c, enqueued[c] + 1>>)
    BY <1>0, <2>1, EnqueueMoves
  <2> QED BY <1>0, <1>2, <2>2 DEF Push, FifoExactlyOnce
<1>3. ASSUME NEW w \in Workers, Take(w)
      PROVE  FifoExactlyOnce'
  BY <1>0, <1>3, DequeueMoves DEF Take, callerVars, FifoExactlyOnce
<1> QED BY <1>1, <1>2, <1>3, QueueSteps

LEMMA PushedOnceStep == TypeInv /\ PushedOnce /\ [Next]_vars => PushedOnce'
<1> SUFFICES ASSUME TypeInv, PushedOnce, [Next]_vars PROVE PushedOnce'
  OBVIOUS
<1>0. /\ submitted \in Seq(Task)
      /\ enqueued \in [Callers -> 0..MaxTasks]
  BY DEF TypeInv, TypeOK
<1>1. ASSUME NEW t \in Range(submitted)
      PROVE  /\ t[1] \in Callers /\ t[2] \in Nat
             /\ t[2] <= enqueued[t[1]] /\ enqueued[t[1]] \in Nat
  <2>1. t \in Task
    BY <1>0, RangeOfSeq
  <2> QED BY <1>0, <2>1 DEF Task, PushedOnce
<1>2. CASE submitted' = submitted /\ enqueued' = enqueued
  BY <1>2 DEF PushedOnce
<1>3. ASSUME NEW c \in Callers, submitted' = submitted,
             enqueued' = [enqueued EXCEPT ![c] = @ + 1]
      PROVE  PushedOnce'
  <2>1. \A t \in Range(submitted) : t[2] <= enqueued'[t[1]]
    BY <1>0, <1>1, <1>3
  <2> QED BY <1>3, <2>1 DEF PushedOnce
<1>4. ASSUME NEW c \in Callers, Push(c)
      PROVE  PushedOnce'
  <2> DEFINE t == <<c, enqueued[c] + 1>>
  <2>1. /\ t \in Task /\ submitted' = Append(submitted, t)
        /\ enqueued' = [enqueued EXCEPT ![c] = @ + 1]
    BY <1>0, <1>4 DEF Push, Task
  <2>2. t \notin Range(submitted)
    BY <1>0, <1>1
  <2>3. /\ IsInjective(submitted')
        /\ Range(submitted') = Range(submitted) \cup {t}
    <3> HIDE DEF t
    <3> QED BY <1>0, <2>1, <2>2, InjectiveAppend, RangeOfAppend DEF PushedOnce
  <2>4. \A u \in Range(submitted) : u[2] <= enqueued'[u[1]]
    BY <1>0, <1>1, <2>1
  <2>5. t[2] <= enqueued'[t[1]]
    BY <1>0, <2>1
  <2> QED BY <2>3, <2>4, <2>5 DEF PushedOnce
<1>5. ASSUME NEW w \in Workers, Take(w)
      PROVE  submitted' = submitted /\ enqueued' = enqueued
  BY <1>5 DEF Take, callerVars
<1> QED BY <1>2, <1>3, <1>4, <1>5, QueueSteps DEF QueueUnchanged

QueueInv == TypeInv /\ FifoExactlyOnce /\ PushedOnce

LEMMA QueueInvariant == Spec => []QueueInv
<1>1. Init => QueueInv
  <2> SUFFICES ASSUME Init PROVE QueueInv
    OBVIOUS
  <2>1. <<>> \o <<>> = <<>>
    BY EmptySeq, ConcatEmptySeq
  <2> QED BY <2>1, TypeInit DEF Init, QueueInv, FifoExactlyOnce, PushedOnce,
               IsInjective, Range
<1>2. QueueInv /\ [Next]_vars => QueueInv'
  BY TypeStep, FifoStep, PushedOnceStep DEF QueueInv
<1> QED BY <1>1, <1>2, PTL DEF Spec

\* Tasks are popped in the order of their push, none lost and none twice.
THEOREM FifoCorrect == Spec => []FifoExactlyOnce
<1>1. QueueInv => FifoExactlyOnce
  BY DEF QueueInv
<1> QED BY QueueInvariant, <1>1, PTL

-------------------------------------------------------------------------------
(* Workers and tasks.                                                      *)

InHand == {current[w] : w \in Workers} \ {NoTask}

LEMMA OneWorkerStep ==
  QueueInv /\ OneWorkerPerTask /\ [Next]_vars => OneWorkerPerTask'
<1> SUFFICES ASSUME QueueInv, OneWorkerPerTask, [Next]_vars
             PROVE  OneWorkerPerTask'
  OBVIOUS
<1>0. /\ current \in [Workers -> Task \cup {NoTask}]
      /\ started \in Seq(Task) /\ tasks \in Seq(Task)
      /\ TaskWhileRunning /\ TypeInv
      /\ NoTask \notin Task
      /\ IsInjective(started \o tasks)
  BY PoolAssumption DEF QueueInv, TypeInv, TypeOK, FifoExactlyOnce, PushedOnce
<1>a. /\ Range(started) = finished \cup InHand
      /\ \A w \in Workers : current[w] \notin finished
      /\ \A v, w \in Workers :
           current[v] = current[w] /\ current[v] # NoTask => v = w
  BY DEF OneWorkerPerTask, InHand
<1>1. ASSUME NEW w \in Workers, Take(w)
      PROVE  OneWorkerPerTask'
  <2> DEFINE t == Head(tasks)
  <2>1. /\ t \in Task /\ t # NoTask
        /\ current' = [current EXCEPT ![w] = t]
        /\ started' = Append(started, t) /\ finished' = finished
        /\ current[w] = NoTask
    BY <1>0, <1>1, HeadTailProperties DEF Take, TaskWhileRunning
  <2>2. t \notin Range(started)
    BY <1>0, <1>1, HeadIsNew DEF Take
  <2>3. Range(started') = Range(started) \cup {t}
    BY <1>0, <2>1, RangeOfAppend
  <2> HIDE DEF t
  <2>4. InHand' = InHand \cup {t}
    BY <1>0, <2>1 DEF InHand
  <2>5. t \notin finished /\ \A v \in Workers : current[v] # t
    BY <1>a, <2>1, <2>2 DEF InHand
  <2>6. \A v \in Workers : current'[v] = IF v = w THEN t ELSE current[v]
    BY <1>0, <2>1
  <2>7. Range(started') = finished' \cup InHand'
    BY <1>a, <2>1, <2>3, <2>4
  <2>8. \A v \in Workers : current'[v] \notin finished'
    BY <1>a, <2>1, <2>5, <2>6
  <2>9. \A u, v \in Workers :
          current'[u] = current'[v] /\ current'[u] # NoTask => u = v
    BY <1>a, <2>5, <2>6
  <2> QED BY <2>7, <2>8, <2>9 DEF OneWorkerPerTask, InHand
<1>2. ASSUME NEW w \in Workers, Finish(w)
      PROVE  OneWorkerPerTask'
  <2>1. /\ current[w] # NoTask
        /\ current' = [current EXCEPT ![w] = NoTask]
        /\ finished' = finished \cup {current[w]} /\ started' = started
    BY <1>0, <1>2 DEF Finish, TaskWhileRunning
  <2>2. \A v \in Workers : current'[v] = IF v = w THEN NoTask ELSE current[v]
    BY <1>0, <2>1
  <2>3. InHand' = InHand \ {current[w]} /\ current[w] \in InHand
    BY <1>a, <2>1, <2>2 DEF InHand
  <2>4. NoTask \notin finished
    BY <1>0 DEF TypeInv, TypeOK
  <2>5. Range(started') = finished' \cup InHand'
    BY <1>a, <2>1, <2>3
  <2>6. \A v \in Workers : current'[v] \notin finished'
    BY <1>a, <2>1, <2>2, <2>4
  <2>7. \A u, v \in Workers :
          current'[u] = current'[v] /\ current'[u] # NoTask => u = v
    BY <1>a, <2>2
  <2> QED BY <2>5, <2>6, <2>7 DEF OneWorkerPerTask, InHand
<1>3. CASE UNCHANGED <<started, current, finished>>
  BY <1>3 DEF OneWorkerPerTask
<1>4. \/ \E w \in Workers : Take(w) \/ Finish(w)
      \/ UNCHANGED <<started, current, finished>>
  BY DEF Next, Worker, Caller, Owner, Exit, Block, SpuriousWakeup, Enqueue,
         NotifyOne, SetStop, NotifyAll, Joined, vars, workerVars
<1> QED BY <1>1, <1>2, <1>3, <1>4

LEMMA OneWorkerInvariant == Spec => [](QueueInv /\ OneWorkerPerTask)
<1>1. Init => OneWorkerPerTask
  BY DEF Init, OneWorkerPerTask, Range
<1> QED BY <1>1, OneWorkerStep, QueueInvariant, PTL DEF Spec

\* A popped task is in the hands of one worker until its call returns, and of
\* none afterwards.
THEOREM TaskHasOneWorker == Spec => []OneWorkerPerTask
BY OneWorkerInvariant, PTL

\* A destroyed pool has run every task it accepted: the workers are gone, so
\* nothing is queued and nothing is in hand.
THEOREM DestroyedIsDrained == Spec => []DrainedWhenDestroyed
<1>1. QueueInv /\ OneWorkerPerTask /\ StopInv => DrainedWhenDestroyed
  <2> SUFFICES ASSUME QueueInv, OneWorkerPerTask, StopInv,
                      ownerPc = "destroyed"
               PROVE  tasks = <<>> /\ finished = Range(submitted)
    BY DEF DrainedWhenDestroyed
  <2>1. \A w \in Workers : workerPc[w] = "exited"
    BY DEF StopInv, DestroyedMeansExited
  <2>2. tasks = <<>>
    BY <2>1, PoolAssumption DEF StopInv, ExitedMeansDrained
  <2>3. InHand = {}
    BY <2>1 DEF QueueInv, TypeInv, TaskWhileRunning, InHand
  <2>4. submitted = started
    BY <2>2, ConcatEmptySeq DEF QueueInv, TypeInv, TypeOK, FifoExactlyOnce
  <2> QED BY <2>2, <2>3, <2>4 DEF OneWorkerPerTask, InHand
<1> QED BY <1>1, OneWorkerInvariant, StopInvariant, PTL

-------------------------------------------------------------------------------
(* Refinement.                                                             *)

LEMMA ExecutorStep ==
  ASSUME QueueInv, [Next]_vars
  PROVE  [Executor!Next]_(Executor!vars)
<1>1. CASE QueueUnchanged
  BY <1>1 DEF QueueUnchanged, Executor!vars
<1>2. ASSUME NEW c \in Callers, Push(c)
      PROVE  Executor!Next
  <2> DEFINE t == <<c, enqueued[c] + 1>>
  <2>1. t \in Task
    BY <1>2 DEF Push, QueueInv, TypeInv, TypeOK, Task
  <2>2. t \notin Range(submitted)
    BY <1>2 DEF QueueInv, PushedOnce, TypeInv, TypeOK
  <2>3. Executor!Submitted = submitted
    BY DEF Executor!Submitted, QueueInv, FifoExactlyOnce
  <2>4. tasks' = Append(tasks, t) /\ started' = started
    BY <1>2 DEF Push
  <2> HIDE DEF t
  <2>5. Executor!Submit(t)
    BY <2>2, <2>3, <2>4 DEF Executor!Submit, Range
  <2> QED BY <2>1, <2>5 DEF Executor!Next
<1>3. ASSUME NEW w \in Workers, Take(w)
      PROVE  Executor!Next
  BY <1>3 DEF Take, Executor!Next, Executor!Start
<1> QED BY <1>1, <1>2, <1>3, QueueSteps DEF QueueInv

\* enqueue() and worker_loop() implement the FIFO executor, its fairness aside.
THEOREM PoolImplementsExecutor == Spec => Executor!Spec
<1>1. Init => Executor!Init
  BY DEF Init, Executor!Init
<1>2. QueueInv /\ [Next]_vars => [Executor!Next]_(Executor!vars)
  BY ExecutorStep
<1> QED BY <1>1, <1>2, QueueInvariant, PTL DEF Spec, Executor!Spec
===============================================================================
