---------------------------- MODULE MySQLPoolProofs ---------------------------
(***************************************************************************)
(* Proofs about the module MySQLPool.                                      *)
(***************************************************************************)
EXTENDS MySQLPool, QueueLemmas, FiniteSetTheorems

-------------------------------------------------------------------------------
(* Lemmas.                                                                 *)

LEMMA UsersAreFinite ==
  /\ IsFiniteSet(Owners) /\ IsFiniteSet(Notified)
  /\ Cardinality(Owners) \in Nat /\ Cardinality(Notified) \in Nat
<1>1. Owners \subseteq Users /\ Notified \subseteq Users
  BY DEF Owners, Notified
<1>2. IsFiniteSet(Owners) /\ IsFiniteSet(Notified)
  BY <1>1, PoolAssumption, FS_Subset
<1>3. QED
  BY <1>2, FS_CardinalityType

\* acquire() moves a connection from the pool to a thread that has none.
LEMMA ConnTaken ==
  ASSUME TypeOK, Accounted, NEW u \in Users, u \notin Owners,
         pool # <<>>, pool' = Tail(pool), lost' = lost,
         handle' = [handle EXCEPT ![u] = Head(pool)], Owners' = Owners \cup {u}
  PROVE  Accounted' /\ pool' \in Seq(Conns) /\ handle' \in [Users -> Conns \cup {NoConn}]
<1> DEFINE c == Head(pool)
<1>1. /\ pool' \in Seq(Conns) /\ IsInjective(pool') /\ c \in Range(pool) /\ c \in Conns
      /\ Range(pool') = Range(pool) \ {c}
  BY TailOfInjective DEF TypeOK, Accounted
<1>2. handle'[u] = c /\ \A v \in Owners : handle'[v] = handle[v]
  BY DEF TypeOK, Owners
<1>3. \A v \in Owners : handle[v] # c
  BY <1>1 DEF Accounted, Held
<1>4. Held' = Held \cup {c}
  BY <1>2 DEF Held
<1>5. \A v, w \in Owners' : handle'[v] = handle'[w] => v = w
  BY <1>2, <1>3 DEF Accounted
<1>6. Range(pool') \cap Held' = {} /\ lost' = Conns \ (Range(pool') \cup Held')
  BY <1>1, <1>4 DEF Accounted
<1>7. QED
  BY <1>1, <1>5, <1>6 DEF Accounted, TypeOK

\* A thread gives up its connection: nobody else has it.
LEMMA ConnGivenUp ==
  ASSUME TypeOK, Accounted, ActiveIsHeld, NEW u \in Owners, Owners' = Owners \ {u},
         handle' = [handle EXCEPT ![u] = NoConn]
  PROVE  /\ handle[u] \in Held /\ handle[u] \in Conns
         /\ Held' = Held \ {handle[u]}
         /\ \A v, w \in Owners' : handle'[v] = handle'[w] => v = w
         /\ handle' \in [Users -> Conns \cup {NoConn}]
<1>1. u \in Users /\ handle[u] # NoConn /\ handle[u] \in Held
  BY DEF ActiveIsHeld, Owners, Held
<1>2. \A v \in Owners' : v \in Owners /\ handle'[v] = handle[v] /\ handle[v] # handle[u]
  BY DEF TypeOK, Owners, Accounted
<1>3. \A v \in Owners : v \in Owners' \/ v = u
  OBVIOUS
<1>4. Held' = Held \ {handle[u]}
  BY <1>2, <1>3 DEF Held
<1>5. QED
  BY <1>1, <1>2, <1>4 DEF TypeOK, Accounted

\* active_count_ follows the threads that hold a connection.
LEMMA ActiveMoves ==
  ASSUME TypeOK, ActiveIsHeld, NEW u \in Users
  PROVE  /\ u \notin Owners => Cardinality(Owners \cup {u}) = active + 1
         /\ u \in Owners => Cardinality(Owners \ {u}) = active - 1 /\ active - 1 \in Nat
<1>1. IsFiniteSet(Owners) /\ active = Cardinality(Owners) /\ active \in Nat
  BY UsersAreFinite DEF ActiveIsHeld, TypeOK
<1>2. u \notin Owners => Cardinality(Owners \cup {u}) = active + 1
  BY <1>1, FS_AddElement
<1>3. u \in Owners => Cardinality(Owners \ {u}) = active - 1
  BY <1>1, FS_RemoveElement
<1>4. IsFiniteSet(Owners \ {u})
  BY <1>1, FS_RemoveElement
<1>5. Cardinality(Owners \ {u}) \in Nat
  BY <1>4, FS_CardinalityType
<1>6. QED
  BY <1>2, <1>3, <1>5

-------------------------------------------------------------------------------
(* Ownership.                                                              *)

LEMMA InitPool == Init => PoolInv
<1> SUFFICES ASSUME Init
             PROVE  PoolInv
  OBVIOUS
<1> DEFINE n == Cardinality(Conns)
<1>1. n \in Nat
  BY PoolAssumption, FS_CardinalityType
<1>2. pool \in [1..n -> Conns] /\ IsInjective(pool)
  BY DEF Init
<1>3. pool \in Seq(Conns)
  BY <1>1, <1>2
<1>4. Range(pool) = Conns
  <2>1. pool \in Injection(1..n, Conns)
    BY <1>2 DEF Injection
  <2>2. Cardinality(1..n) = n
    BY <1>1, FS_Interval
  <2>3. pool \in Surjection(1..n, Conns)
    BY <2>1, <2>2, PoolAssumption, FS_Injection
  <2>4. QED
    BY <1>2, <2>3 DEF Surjection, Range
<1>5. Owners = {} /\ Held = {} /\ \A u \in Users : handle[u] = NoConn
  BY DEF Init, Owners, Held
<1>6. TypeOK
  BY <1>3, PoolAssumption DEF Init, TypeOK
<1>7. Accounted
  BY <1>2, <1>4, <1>5 DEF Init, Accounted
<1>8. ActiveIsHeld
  BY <1>5, FS_EmptySet DEF Init, ActiveIsHeld
<1>9. QED
  BY <1>6, <1>7, <1>8 DEF PoolInv

\* The step of acquire() that takes a connection.
LEMMA TakeStep ==
  ASSUME PoolInv, NEW u \in Users, Take(u), u \notin Owners,
         UNCHANGED <<timeouts, serverVars, lost>>, acquires' \in 0..MaxAcquires
  PROVE  PoolInv'
<1> USE DEF PoolInv
<1>1. /\ pool # <<>> /\ pool' = Tail(pool) /\ active' = active + 1
      /\ handle' = [handle EXCEPT ![u] = Head(pool)]
      /\ pc' = [pc EXCEPT ![u] = "checking"]
  BY DEF Take
<1>2. Owners' = Owners \cup {u}
  BY <1>1 DEF Owners, TypeOK
<1>3. /\ Accounted' /\ pool' \in Seq(Conns)
      /\ handle' \in [Users -> Conns \cup {NoConn}]
  BY <1>1, <1>2, ConnTaken
<1>4. TypeOK'
  BY <1>1, <1>3 DEF TypeOK, serverVars
<1>5. Head(pool) # NoConn
  <2>1. Head(pool) \in Conns
    BY <1>1, TailOfInjective DEF TypeOK, Accounted
  <2>2. QED
    BY <2>1, PoolAssumption
<1>6. Owners' = {v \in Users : handle'[v] # NoConn}
  BY <1>1, <1>2, <1>5 DEF ActiveIsHeld, TypeOK
<1>7. ActiveIsHeld'
  BY <1>1, <1>2, <1>6, ActiveMoves DEF ActiveIsHeld
<1>8. QED
  BY <1>3, <1>4, <1>7

\* Steps that leave the connections where they are.
LEMMA OwnersStay ==
  ASSUME PoolInv, UNCHANGED <<pool, active, handle, lost>>, Owners' = Owners
  PROVE  Accounted' /\ ActiveIsHeld'
<1>1. Held' = Held
  BY DEF Held
<1>2. QED
  BY <1>1 DEF PoolInv, Accounted, ActiveIsHeld

LEMMA CheckFailsStep ==
  ASSUME PoolInv, NEW u \in Users, CheckFails(u)
  PROVE  PoolInv'
<1> USE DEF PoolInv
<1>1. /\ lost' = lost \cup {handle[u]} /\ active' = active - 1
      /\ handle' = [handle EXCEPT ![u] = NoConn] /\ pc' = [pc EXCEPT ![u] = "idle"]
      /\ UNCHANGED <<pool, acquires, timeouts, serverVars>>
  BY DEF CheckFails
<1>2. u \in Owners /\ Owners' = Owners \ {u}
  BY <1>1 DEF CheckFails, Owners, TypeOK
<1>3. /\ handle[u] \in Held /\ handle[u] \in Conns
      /\ Held' = Held \ {handle[u]}
      /\ \A v, w \in Owners' : handle'[v] = handle'[w] => v = w
      /\ handle' \in [Users -> Conns \cup {NoConn}]
  BY <1>1, <1>2, ConnGivenUp
<1>4. Accounted'
  BY <1>1, <1>3 DEF Accounted
<1>5. active' \in Nat /\ active' = Cardinality(Owners')
  BY <1>1, <1>2, ActiveMoves
<1>6. TypeOK'
  BY <1>1, <1>3, <1>5 DEF TypeOK, serverVars
<1>7. Owners' = {v \in Users : handle'[v] # NoConn}
  BY <1>1, <1>2 DEF ActiveIsHeld, TypeOK
<1>8. QED
  BY <1>4, <1>5, <1>6, <1>7 DEF ActiveIsHeld

\* notify_one() makes of one waiting thread a notified one, if there is one.
LEMMA NotifyOneTyped ==
  ASSUME TypeOK, NEW u \in Users, pc[u] = "holding", NotifyOne(u)
  PROVE  /\ pc' \in [Users -> {"idle", "waiting", "notified", "checking", "holding"}]
         /\ Owners' = Owners \ {u}
         /\ \/ Waiters = Notified /\ Waiters' = Waiters /\ Notified' = Notified
            \/ \E v \in Users : /\ pc[v] = "waiting"
                                /\ Notified' = Notified \cup {v} /\ Waiters' = Waiters
<1> DEFINE asleep == {v \in Users : pc[v] = "waiting"}
<1>1. CASE asleep = {}
  <2>1. pc' = [pc EXCEPT ![u] = "idle"]
    BY <1>1 DEF NotifyOne
  <2>2. QED
    BY <1>1, <2>1 DEF TypeOK, Owners, Waiters, Notified
<1>2. CASE asleep # {}
  <2>1. PICK v \in asleep : pc' = [[pc EXCEPT ![u] = "idle"] EXCEPT ![v] = "notified"]
    BY <1>2 DEF NotifyOne
  <2>2. /\ v \in Users /\ pc[v] = "waiting" /\ v # u
        /\ pc'[v] = "notified" /\ pc'[u] = "idle"
        /\ \A w \in Users \ {u, v} : pc'[w] = pc[w]
    BY <2>1 DEF TypeOK
  <2>3. pc' \in [Users -> {"idle", "waiting", "notified", "checking", "holding"}]
    BY <2>1, <2>2 DEF TypeOK
  <2>4. Owners' = Owners \ {u} /\ Notified' = Notified \cup {v} /\ Waiters' = Waiters
    BY <2>2 DEF Owners, Waiters, Notified
  <2>5. QED
    BY <2>2, <2>3, <2>4
<1>3. QED
  BY <1>1, <1>2

LEMMA ReleaseStep ==
  ASSUME PoolInv, NEW u \in Users, Release(u)
  PROVE  PoolInv'
<1> USE DEF PoolInv
<1>1. /\ pc[u] = "holding" /\ pool' = Append(pool, handle[u]) /\ active' = active - 1
      /\ handle' = [handle EXCEPT ![u] = NoConn] /\ NotifyOne(u)
      /\ UNCHANGED <<acquires, timeouts, serverVars, lost>>
  BY DEF Release
<1>2. /\ u \in Owners /\ Owners' = Owners \ {u}
      /\ pc' \in [Users -> {"idle", "waiting", "notified", "checking", "holding"}]
  BY <1>1, NotifyOneTyped DEF Owners
<1>3. /\ handle[u] \in Held /\ handle[u] \in Conns
      /\ Held' = Held \ {handle[u]}
      /\ \A v, w \in Owners' : handle'[v] = handle'[w] => v = w
      /\ handle' \in [Users -> Conns \cup {NoConn}]
  BY <1>1, <1>2, ConnGivenUp
<1>4. /\ pool' \in Seq(Conns)
      /\ Range(pool') = Range(pool) \cup {handle[u]}
  BY <1>1, <1>3, RangeOfAppend, AppendProperties DEF TypeOK
<1>5. handle[u] \notin Range(pool)
  BY <1>3 DEF Accounted
<1>6. IsInjective(pool')
  BY <1>1, <1>3, <1>5, InjectiveAppend DEF TypeOK, Accounted
<1>7. Accounted'
  BY <1>1, <1>3, <1>4, <1>5, <1>6 DEF Accounted
<1>8. active' \in Nat /\ active' = Cardinality(Owners')
  BY <1>1, <1>2, ActiveMoves
<1>9. TypeOK'
  BY <1>1, <1>2, <1>3, <1>4, <1>8 DEF TypeOK, serverVars
<1>10. Owners' = {v \in Users : handle'[v] # NoConn}
  BY <1>1, <1>2 DEF ActiveIsHeld, TypeOK
<1>11. QED
  BY <1>7, <1>8, <1>9, <1>10 DEF ActiveIsHeld

LEMMA PoolStep == PoolInv /\ [Next]_vars => PoolInv'
<1> SUFFICES ASSUME PoolInv, [Next]_vars
             PROVE  PoolInv'
  OBVIOUS
<1> USE DEF PoolInv
<1>1. ASSUME NEW u \in Users, Enter(u)
      PROVE  PoolInv'
  <2>1. /\ acquires' \in 0..MaxAcquires /\ u \notin Owners
        /\ UNCHANGED <<timeouts, serverVars, lost>>
    BY <1>1, PoolAssumption DEF Enter, TypeOK, Owners
  <2>2. CASE Take(u)
    BY <2>1, <2>2, TakeStep
  <2>3. CASE /\ pc' = [pc EXCEPT ![u] = "waiting"]
             /\ UNCHANGED <<pool, handle, active>>
    <3>1. Owners' = Owners
      BY <2>1, <2>3 DEF Owners, TypeOK
    <3>2. TypeOK'
      BY <2>1, <2>3 DEF TypeOK, serverVars
    <3>3. QED
      BY <2>1, <2>3, <3>1, <3>2, OwnersStay
  <2>4. QED
    BY <1>1, <2>2, <2>3 DEF Enter
<1>2. ASSUME NEW u \in Users, Resume(u)
      PROVE  PoolInv'
  <2>1. acquires' \in 0..MaxAcquires /\ u \notin Owners
    BY <1>2 DEF Resume, TypeOK, Owners, Waiters
  <2>2. QED
    BY <1>2, <2>1, TakeStep DEF Resume
<1>3. ASSUME NEW u \in Users, WaitAgain(u) \/ TimeOut(u) \/ CheckPasses(u)
      PROVE  PoolInv'
  <2>1. /\ UNCHANGED <<pool, active, handle, lost>>
        /\ Owners' = Owners
    BY <1>3 DEF WaitAgain, TimeOut, CheckPasses, statVars, Owners, Waiters, TypeOK
  <2>2. TypeOK'
    <3>1. u \in Owners => handle[u] \in Conns
      BY DEF ActiveIsHeld, TypeOK
    <3>2. QED
      BY <1>3, <3>1 DEF WaitAgain, TimeOut, CheckPasses, TypeOK, statVars, serverVars,
                        Owners
  <2>3. QED
    BY <2>1, <2>2, OwnersStay
<1>4. ASSUME NEW u \in Users, CheckFails(u)
      PROVE  PoolInv'
  BY <1>4, CheckFailsStep
<1>5. ASSUME NEW u \in Users, Release(u)
      PROVE  PoolInv'
  BY <1>5, ReleaseStep
<1>6. CASE ServerStops \/ ServerStarts \/ (\E c \in Conns : SessionEnds(c))
             \/ UNCHANGED vars
  <2>1. UNCHANGED <<pool, active, acquires, timeouts, pc, handle, lost>>
    BY <1>6 DEF ServerStops, ServerStarts, SessionEnds, vars, statVars, threadVars
  <2>2. /\ sessions' \subseteq Conns /\ outages' \in 0..MaxOutages
    BY <1>6, PoolAssumption DEF ServerStops, ServerStarts, SessionEnds, vars,
                                serverVars, TypeOK
  <2>3. serverUp' \in BOOLEAN
    BY <1>6 DEF ServerStops, ServerStarts, SessionEnds, vars, serverVars, TypeOK
  <2>4. TypeOK'
    BY <2>1, <2>2, <2>3 DEF TypeOK
  <2>5. Owners' = Owners
    BY <2>1 DEF Owners
  <2>6. QED
    BY <2>1, <2>4, <2>5, OwnersStay
<1>7. QED
  BY <1>1, <1>2, <1>3, <1>4, <1>5, <1>6 DEF Next, User

\* For any threads, connections and failures: every connection is in the pool once,
\* with one thread, or lost, and active_count_ counts the second.
THEOREM PoolInvariant == Spec => []PoolInv
<1>1. QED
  BY InitPool, PoolStep, PTL DEF Spec

\* The pool's variables have their types; active_count_, which is unsigned, is never
\* decremented below zero.
THEOREM TypeCorrect == Spec => []TypeOK
<1>1. PoolInv => TypeOK
  BY DEF PoolInv
<1>2. QED
  BY <1>1, PoolInvariant, PTL

\* For any threads, connections and failures: acquire() and release() keep every
\* connection in the pool, or with one thread, or count it as lost to a failed
\* reconnection.
THEOREM ConnectionsAreAccounted == Spec => []Accounted
<1>1. PoolInv => Accounted
  BY DEF PoolInv
<1>2. QED
  BY <1>1, PoolInvariant, PTL

\* active_count_ is the number of threads that hold a connection, also after an
\* exception of acquire().
THEOREM ActiveIsRight == Spec => []ActiveIsHeld
<1>1. PoolInv => ActiveIsHeld
  BY DEF PoolInv
<1>2. QED
  BY <1>1, PoolInvariant, PTL

-------------------------------------------------------------------------------
(* Notifications.                                                          *)

\* A thread that takes a connection, notified or not, keeps NoIdleWait.
LEMMA FewerWait ==
  ASSUME TypeOK, NoIdleWait, NEW u \in Users, Len(pool') = Len(pool) - 1,
         Waiters' = Waiters \ {u}, Notified' = Notified \ {u}
  PROVE  NoIdleWait'
<1>1. /\ IsFiniteSet(Notified) /\ Cardinality(Notified) \in Nat
      /\ Len(pool) \in Nat
  BY UsersAreFinite, LenProperties DEF TypeOK
<1>2. Cardinality(Notified \ {u}) \in {Cardinality(Notified), Cardinality(Notified) - 1}
  <2>1. CASE u \in Notified
    BY <1>1, <2>1, FS_RemoveElement
  <2>2. CASE u \notin Notified
    <3>1. Notified \ {u} = Notified
      BY <2>2
    <3>2. QED
      BY <3>1
  <2>3. QED
    BY <2>1, <2>2
<1>3. CASE Waiters = Notified
  BY <1>3 DEF NoIdleWait
<1>4. CASE Len(pool) <= Cardinality(Notified)
  <2>1. Cardinality(Notified') = Cardinality(Notified \ {u})
    OBVIOUS
  <2>2. Len(pool') <= Cardinality(Notified')
    BY <1>1, <1>2, <1>4, <2>1
  <2>3. QED
    BY <2>2 DEF NoIdleWait
<1>5. QED
  BY <1>3, <1>4 DEF NoIdleWait

\* An empty pool leaves nobody waiting for nothing.
LEMMA EmptyPoolIsFine ==
  ASSUME pool' = <<>>, IsFiniteSet(Notified')
  PROVE  NoIdleWait'
<1>1. Len(pool') = 0 /\ Cardinality(Notified') \in Nat
  BY FS_CardinalityType
<1>2. QED
  BY <1>1 DEF NoIdleWait

LEMMA NotifiedAreFinite == IsFiniteSet(Notified')
<1>1. Notified' \subseteq Users
  BY DEF Notified
<1>2. QED
  BY <1>1, PoolAssumption, FS_Subset

LEMMA WaitStep == TypeOK /\ Accounted /\ ActiveIsHeld /\ NoIdleWait /\ [Next]_vars => NoIdleWait'
<1> SUFFICES ASSUME TypeOK, Accounted, ActiveIsHeld, NoIdleWait, [Next]_vars
             PROVE  NoIdleWait'
  OBVIOUS
<1>1. ASSUME NEW u \in Users, Take(u), pc[u] \in {"idle", "waiting", "notified"}
      PROVE  NoIdleWait'
  <2>1. Len(pool') = Len(pool) - 1
    BY <1>1, HeadTailProperties DEF Take, TypeOK
  <2>2. pc' = [pc EXCEPT ![u] = "checking"]
    BY <1>1 DEF Take
  <2>3. /\ Waiters' = Waiters \ {u} /\ Notified' = Notified \ {u}
    BY <2>2 DEF TypeOK, Waiters, Notified
  <2>4. QED
    BY <2>1, <2>3, FewerWait
<1>2. ASSUME NEW u \in Users, pool = <<>>, UNCHANGED pool
      PROVE  NoIdleWait'
  BY <1>2, EmptyPoolIsFine, NotifiedAreFinite
<1>3. ASSUME NEW u \in Users, CheckPasses(u) \/ CheckFails(u)
      PROVE  NoIdleWait'
  <2>1. /\ UNCHANGED pool /\ pc[u] = "checking"
        /\ \/ pc' = [pc EXCEPT ![u] = "holding"]
           \/ pc' = [pc EXCEPT ![u] = "idle"]
    BY <1>3 DEF CheckPasses, CheckFails
  <2>2. Waiters' = Waiters /\ Notified' = Notified
    BY <2>1 DEF TypeOK, Waiters, Notified
  <2>3. QED
    BY <2>1, <2>2 DEF NoIdleWait
<1>4. ASSUME NEW u \in Users, Release(u)
      PROVE  NoIdleWait'
  <2>1. pc[u] = "holding" /\ NotifyOne(u) /\ pool' = Append(pool, handle[u])
    BY <1>4 DEF Release
  <2>2. handle[u] \in Conns /\ pool \in Seq(Conns)
    BY <2>1 DEF ActiveIsHeld, Owners, TypeOK
  <2>3. Len(pool') = Len(pool) + 1 /\ Len(pool) \in Nat
    BY <2>1, <2>2, AppendProperties, LenProperties
  <2>4. CASE Waiters = Notified /\ Waiters' = Waiters /\ Notified' = Notified
    BY <2>4 DEF NoIdleWait
  <2>5. ASSUME NEW v \in Users, pc[v] = "waiting",
               Notified' = Notified \cup {v}, Waiters' = Waiters
        PROVE  NoIdleWait'
    <3>1. v \in Waiters /\ v \notin Notified
      BY <2>5 DEF Waiters, Notified
    <3>2. Len(pool) <= Cardinality(Notified)
      BY <3>1 DEF NoIdleWait
    <3>3. Cardinality(Notified') = Cardinality(Notified) + 1 /\ Cardinality(Notified) \in Nat
      BY <2>5, <3>1, UsersAreFinite, FS_AddElement
    <3>4. Len(pool') <= Cardinality(Notified')
      BY <2>3, <3>2, <3>3
    <3>5. QED
      BY <3>4 DEF NoIdleWait
  <2>6. QED
    BY <2>1, <2>4, <2>5, NotifyOneTyped
<1>5. CASE ServerStops \/ ServerStarts \/ (\E c \in Conns : SessionEnds(c))
             \/ UNCHANGED vars
  <2>1. UNCHANGED <<pool, pc>>
    BY <1>5 DEF ServerStops, ServerStarts, SessionEnds, vars, statVars, threadVars
  <2>2. QED
    BY <2>1 DEF NoIdleWait, Waiters, Notified
<1>6. ASSUME NEW u \in Users, User(u)
      PROVE  NoIdleWait'
  <2>1. ASSUME Enter(u)
        PROVE  NoIdleWait'
    BY <2>1, <1>1, <1>2 DEF Enter
  <2>2. ASSUME Resume(u)
        PROVE  NoIdleWait'
    <3>1. Take(u) /\ pc[u] \in {"idle", "waiting", "notified"}
      BY <2>2 DEF Resume, Waiters
    <3>2. QED
      BY <3>1, <1>1
  <2>3. ASSUME WaitAgain(u) \/ TimeOut(u)
        PROVE  NoIdleWait'
    BY <2>3, <1>2 DEF WaitAgain, TimeOut
  <2>4. QED
    BY <1>3, <1>4, <1>6, <2>1, <2>2, <2>3 DEF User
<1>7. QED
  BY <1>5, <1>6 DEF Next

\* For any number of threads and connections: release() wakes a waiting thread for
\* each connection it puts back, and a thread that times out takes no notification
\* with it while a connection lies in the pool.
THEOREM NobodyWaitsIdly == Spec => []NoIdleWait
<1>1. Init => NoIdleWait
  <2>1. Init => Waiters = {} /\ Notified = {}
    BY DEF Init, Waiters, Notified
  <2>2. QED
    BY <2>1 DEF NoIdleWait
<1>2. PoolInv /\ NoIdleWait /\ [Next]_vars => NoIdleWait'
  BY WaitStep DEF PoolInv
<1>3. QED
  BY <1>1, <1>2, PoolInvariant, PTL DEF Spec
===============================================================================
