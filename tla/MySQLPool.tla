------------------------------- MODULE MySQLPool ------------------------------
(***************************************************************************)
(* The pool of MySQL connections (mysql_pool.cpp): acquire() with its time *)
(* limit, its check of the connection and its reconnection, and release(), *)
(* called by threads that use a connection for a while.                    *)
(*                                                                         *)
(* mutex_ is free unless some thread is in the state "checking": that is   *)
(* the only place where the code keeps it over a call that takes time.     *)
(* Every other stretch of code under the mutex is one step.                *)
(***************************************************************************)
EXTENDS Integers, Sequences, FiniteSets, Functions

CONSTANTS Users,        \* threads that use the pool
          Conns,        \* its connections, pool_size_ of them
          NoConn,
          MaxAcquires,  \* bound: calls of acquire()
          MaxOutages    \* bound: failures of the server or of a session

ASSUME PoolAssumption == /\ IsFiniteSet(Users) /\ IsFiniteSet(Conns)
                         /\ NoConn \notin Conns
                         /\ MaxAcquires \in Nat /\ MaxOutages \in Nat

VARIABLES
  pool,        \* pool_
  active,      \* active_count_
  acquires,    \* total_acquires_
  timeouts,    \* total_timeouts_
  pc,          \* where a thread is in its use of the pool
  handle,      \* the connection it has taken
  serverUp,    \* the server accepts connections
  sessions,    \* connections whose session the server still knows
  outages,     \* failures so far
  lost         \* history: connections closed and not replaced

threadVars == <<pc, handle>>
statVars   == <<active, acquires, timeouts>>
serverVars == <<serverUp, sessions, outages>>
vars == <<pool, statVars, threadVars, serverVars, lost>>

MutexFree == \A u \in Users : pc[u] # "checking"
Waiters   == {u \in Users : pc[u] \in {"waiting", "notified"}}
Owners    == {u \in Users : pc[u] \in {"checking", "holding"}}
Held      == {handle[u] : u \in Owners}
Notified  == {u \in Users : pc[u] = "notified"}

\* initConnections() throws when one of them cannot be made.
Init ==
  /\ pool \in [1..Cardinality(Conns) -> Conns] /\ IsInjective(pool)
  /\ active = 0 /\ acquires = 0 /\ timeouts = 0
  /\ pc = [u \in Users |-> "idle"]
  /\ handle = [u \in Users |-> NoConn]
  /\ serverUp = TRUE
  /\ sessions = Conns
  /\ outages = 0
  /\ lost = {}

-------------------------------------------------------------------------------
(* acquire().                                                              *)

\* The predicate holds: pop, and go on to the check with the mutex.
Take(u) ==
  /\ pool # <<>>
  /\ pool' = Tail(pool)
  /\ handle' = [handle EXCEPT ![u] = Head(pool)]
  /\ active' = active + 1
  /\ pc' = [pc EXCEPT ![u] = "checking"]

Enter(u) ==
  /\ pc[u] = "idle" /\ MutexFree
  /\ acquires < MaxAcquires
  /\ acquires' = acquires + 1
  /\ \/ Take(u)
     \/ /\ pool = <<>>
        /\ pc' = [pc EXCEPT ![u] = "waiting"]
        /\ UNCHANGED <<pool, handle, active>>
  /\ UNCHANGED <<timeouts, serverVars, lost>>

\* wait_for() looks at the predicate again, whether it was notified, woke up for
\* no reason, or its time is over.
Resume(u) ==
  /\ u \in Waiters /\ MutexFree
  /\ Take(u)
  /\ UNCHANGED <<acquires, timeouts, serverVars, lost>>

\* Another thread was quicker.
WaitAgain(u) ==
  /\ pc[u] = "notified" /\ MutexFree
  /\ pool = <<>>
  /\ pc' = [pc EXCEPT ![u] = "waiting"]
  /\ UNCHANGED <<pool, statVars, handle, serverVars, lost>>

\* Wrong variant: wait() in place of wait_for().
Mut_TimeOut(u) == FALSE /\ UNCHANGED vars

\* Three seconds are over, and there is still none: acquire() throws.
TimeOut(u) ==
  /\ u \in Waiters /\ MutexFree
  /\ pool = <<>>
  /\ timeouts' = timeouts + 1
  /\ pc' = [pc EXCEPT ![u] = "idle"]
  /\ UNCHANGED <<pool, active, acquires, handle, serverVars, lost>>

\* SELECT 1 succeeds, if need be after the client library has reconnected, or a
\* new connection takes the old one's place.
CheckPasses(u) ==
  /\ pc[u] = "checking"
  /\ serverUp
  /\ sessions' = sessions \cup {handle[u]}
  /\ pc' = [pc EXCEPT ![u] = "holding"]
  /\ UNCHANGED <<pool, statVars, handle, serverUp, outages, lost>>

\* Wrong variant: the connection is put back before the exception.
Mut_CheckFails_PutsBack(u) ==
  /\ pc[u] = "checking"
  /\ handle[u] \notin sessions
  /\ pool' = Append(pool, handle[u])
  /\ lost' = lost \cup {handle[u]}
  /\ active' = active - 1
  /\ handle' = [handle EXCEPT ![u] = NoConn]
  /\ pc' = [pc EXCEPT ![u] = "idle"]
  /\ UNCHANGED <<acquires, timeouts, serverVars>>

\* It fails, and so does the new connection: the old one is closed and acquire()
\* throws.
CheckFails(u) ==
  /\ pc[u] = "checking"
  /\ handle[u] \notin sessions
  /\ lost' = lost \cup {handle[u]}
  /\ active' = active - 1
  /\ handle' = [handle EXCEPT ![u] = NoConn]
  /\ pc' = [pc EXCEPT ![u] = "idle"]
  /\ UNCHANGED <<pool, acquires, timeouts, serverVars>>

-------------------------------------------------------------------------------
(* release().                                                              *)

\* notify_one() wakes one of the threads that wait, if there is one.
NotifyOne(u) ==
  LET asleep == {v \in Users : pc[v] = "waiting"}
      back   == [pc EXCEPT ![u] = "idle"]
  IN  IF asleep = {} THEN pc' = back
                     ELSE \E v \in asleep : pc' = [back EXCEPT ![v] = "notified"]

\* Wrong variant: no notification when the pool was not empty.
Mut_Release(u) ==
  /\ pc[u] = "holding" /\ MutexFree
  /\ pool' = Append(pool, handle[u])
  /\ active' = active - 1
  /\ handle' = [handle EXCEPT ![u] = NoConn]
  /\ IF pool = <<>> THEN NotifyOne(u) ELSE pc' = [pc EXCEPT ![u] = "idle"]
  /\ UNCHANGED <<acquires, timeouts, serverVars, lost>>

\* Wherever the use of the connection has failed, it is given back all the same.
Release(u) ==
  /\ pc[u] = "holding" /\ MutexFree
  /\ pool' = Append(pool, handle[u])
  /\ active' = active - 1
  /\ handle' = [handle EXCEPT ![u] = NoConn]
  /\ NotifyOne(u)
  /\ UNCHANGED <<acquires, timeouts, serverVars, lost>>

-------------------------------------------------------------------------------
(* The server.                                                             *)

ServerStops ==
  /\ serverUp /\ outages < MaxOutages
  /\ serverUp' = FALSE
  /\ sessions' = {}
  /\ outages' = outages + 1
  /\ UNCHANGED <<pool, statVars, threadVars, lost>>

ServerStarts ==
  /\ ~serverUp
  /\ serverUp' = TRUE
  /\ UNCHANGED <<pool, statVars, threadVars, sessions, outages, lost>>

\* The server ends a session (its wait_timeout, a KILL).
SessionEnds(c) ==
  /\ c \in sessions /\ outages < MaxOutages
  /\ sessions' = sessions \ {c}
  /\ outages' = outages + 1
  /\ UNCHANGED <<pool, statVars, threadVars, serverUp, lost>>

-------------------------------------------------------------------------------
User(u) ==
  \/ Enter(u) \/ Resume(u) \/ WaitAgain(u) \/ TimeOut(u)
  \/ CheckPasses(u) \/ CheckFails(u) \/ Release(u)

Next ==
  \/ \E u \in Users : User(u)
  \/ ServerStops \/ ServerStarts \/ \E c \in Conns : SessionEnds(c)

Spec == Init /\ [][Next]_vars

\* A thread that has a connection gives it back, calls to the server end, and
\* the three seconds of a waiting thread end.
FairSpec ==
  /\ Spec
  /\ \A u \in Users : /\ WF_vars(Resume(u) \/ TimeOut(u))
                      /\ WF_vars(CheckPasses(u) \/ CheckFails(u))
                      /\ WF_vars(Release(u))

-------------------------------------------------------------------------------
(* Properties.                                                             *)

\* Type invariant; active_count_, an unsigned integer, does not go below zero.
TypeOK ==
  /\ pool \in Seq(Conns)
  /\ active \in Nat /\ acquires \in 0..MaxAcquires /\ timeouts \in Nat
  /\ pc \in [Users -> {"idle", "waiting", "notified", "checking", "holding"}]
  /\ handle \in [Users -> Conns \cup {NoConn}]
  /\ serverUp \in BOOLEAN /\ sessions \subseteq Conns
  /\ outages \in 0..MaxOutages
  /\ lost \subseteq Conns

\* A connection is in the pool once, or in the hands of one thread, or lost by a
\* failed reconnection, and nowhere else: nothing else shrinks the pool, and no
\* thread uses or closes a connection that is another's.
Accounted ==
  /\ IsInjective(pool)
  /\ \A u, v \in Owners : handle[u] = handle[v] => u = v
  /\ Range(pool) \cap Held = {}
  /\ lost = Conns \ (Range(pool) \cup Held)

\* active_count_ is what HEALTH reports as the connections in use.
ActiveIsHeld ==
  /\ active = Cardinality(Owners)
  /\ Owners = {u \in Users : handle[u] # NoConn}

\* The inductive invariant of the pool.
PoolInv == TypeOK /\ Accounted /\ ActiveIsHeld

\* Threads are not left asleep while connections lie in the pool: there is a
\* notified thread for every connection there, or every waiter is notified.
NoIdleWait == Len(pool) <= Cardinality(Notified) \/ Waiters = Notified

\* Every acquire() returns or throws, whatever the server does and even when all
\* connections are lost.
AcquireEnds ==
  \A u \in Users : (u \in Waiters \/ pc[u] = "checking") ~>
                     (pc[u] \in {"holding", "idle"})
===============================================================================
