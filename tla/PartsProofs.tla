----------------------------- MODULE PartsProofs ------------------------------
(***************************************************************************)
(* Proofs about the components of the module Parts.  A theorem about one   *)
(* of them is proved for its own specification first, Redis!Spec for       *)
(* example, which every behaviour of Parts satisfies.                      *)
(***************************************************************************)
EXTENDS Parts, QueueLemmas, FiniteSetTheorems, WellFoundedInduction

-------------------------------------------------------------------------------
(* Sets of numbers.                                                        *)

\* A set of naturals has a smallest element, and a bounded one a largest.
LEMMA HasSmallest ==
  ASSUME NEW T \in SUBSET Nat, T # {}
  PROVE  \E x \in T : \A y \in T : x <= y
<1> DEFINE R == {ss \in Nat \X Nat : ss[1] < ss[2]}
<1>1. IsWellFoundedOn(R, Nat)
  BY NatLessThanWellFounded DEF OpToRel
<1> HIDE DEF R
<1>2. \E x \in T : \A y \in T : ~(<<y, x>> \in R)
  BY <1>1, WFMin
<1>3. PICK x \in T : \A y \in T : ~(<<y, x>> \in R)
  BY <1>2
<1>4. \A y \in T : x <= y
  <2> TAKE y \in T
  <2>1. ~(y < x)
    BY <1>3 DEF R
  <2>2. QED
    BY <2>1
<1>5. QED
  BY <1>4

\* A bounded set of numbers above 0 that is not empty has a largest element.
LEMMA HasLargest ==
  ASSUME NEW b \in Nat, NEW T \in SUBSET (1..b), T # {}
  PROVE  \E x \in T : \A y \in T : y <= x
<1> DEFINE U == {k \in Nat : \A y \in T : y <= k}
<1>1. U \in SUBSET Nat /\ b \in U
  OBVIOUS
<1>2. PICK k \in U : \A z \in U : k <= z
  BY <1>1, HasSmallest
<1>3. k \in T
  <2>1. k \in Nat /\ \A y \in T : y \in 1..b /\ y <= k
    BY <1>2
  <2>2. PICK y \in T : TRUE
    OBVIOUS
  <2>3. k - 1 \in Nat
    BY <2>1, <2>2
  <2>4. ~(k <= k - 1)
    BY <2>1
  <2>5. k - 1 \notin U
    BY <1>2, <2>4
  <2>6. PICK z \in T : ~(z <= k - 1)
    BY <2>3, <2>5
  <2>7. z = k
    BY <2>1, <2>6
  <2>8. QED
    BY <2>7
<1>4. QED
  BY <1>2, <1>3

-------------------------------------------------------------------------------
(* RedisPool.                                                              *)

\* The part RedisPool goes by its own specification, the others leave it alone.
LEMMA RedisRuns == Spec => Redis!Spec
<1>1. Init => Redis!Init
  BY DEF Init
<1>2. [Next]_vars => [Redis!Next]_(Redis!redisVars)
  BY DEF Next, vars, redisVars, Redis!redisVars
<1>3. QED
  BY <1>1, <1>2, PTL DEF Spec, Redis!Spec

\* The operators of the library that RedisPool uses are those of the lemmas.
LEMMA RedisLibrary ==
  /\ \A f : Redis!IsInjective(f) <=> IsInjective(f)
  /\ \A f : Redis!Range(f) = Range(f)
  /\ \A S : Redis!IsFiniteSet(S) <=> IsFiniteSet(S)
  /\ \A S : Redis!Cardinality(S) = Cardinality(S)
<1>1. \A f : Redis!IsInjective(f) <=> IsInjective(f)
  BY DEF Redis!IsInjective, IsInjective
<1>2. \A f : Redis!Range(f) = Range(f)
  BY DEF Redis!Range, Range
<1>3. \A S : Redis!IsFiniteSet(S) <=> IsFiniteSet(S)
  BY DEF Redis!IsFiniteSet, IsFiniteSet
<1>4. \A S : Redis!Cardinality(S) = Cardinality(S)
  BY DEF Redis!Cardinality, Cardinality
<1>5. QED
  BY <1>1, <1>2, <1>3, <1>4

\* What RedisPool assumes of its constants.
LEMMA RedisConstants ==
  /\ IsFiniteSet(Threads) /\ IsFiniteSet(Contexts) /\ NoContext \notin Contexts
  /\ MaxExecutes \in Nat
BY PartsAssumption, RedisLibrary DEF Redis!Assumption

\* Nobody has two contexts, and each context is in the pool or with one thread.
LEMMA RedisTyped ==
  ASSUME Redis!TypeOK
  PROVE  /\ pool \in Seq(Contexts) /\ IsInjective(pool)
         /\ ctx \in [Threads -> Contexts \cup {NoContext}]
         /\ pc \in [Threads -> {"idle", "waiting", "notified", "command", "back"}]
         /\ \A t, u \in Redis!Holders : ctx[t] = ctx[u] => t = u
         /\ Range(pool) \cup Redis!Held = Contexts /\ Range(pool) \cap Redis!Held = {}
BY RedisLibrary DEF Redis!TypeOK

\* At first every context is in the pool and nobody holds one.
LEMMA RedisInit == Redis!Init => Redis!TypeOK
<1> SUFFICES ASSUME Redis!Init
             PROVE  Redis!TypeOK
  OBVIOUS
<1> DEFINE n == Cardinality(Contexts)
<1>1. n \in Nat
  BY RedisConstants, FS_CardinalityType
<1>2. pool \in [1..n -> Contexts] /\ IsInjective(pool)
  BY RedisLibrary DEF Redis!Init
<1>3. pool \in Seq(Contexts)
  BY <1>1, <1>2
<1>4. Range(pool) = Contexts
  <2>1. pool \in Injection(1..n, Contexts)
    BY <1>2 DEF Injection
  <2>2. Cardinality(1..n) = n
    BY <1>1, FS_Interval
  <2>3. pool \in Surjection(1..n, Contexts)
    BY <2>1, <2>2, RedisConstants, FS_Injection
  <2>4. QED
    BY <1>2, <2>3 DEF Surjection, Range
<1>5. Redis!Holders = {} /\ Redis!Held = {}
  BY DEF Redis!Init, Redis!Holders, Redis!Held
<1>6. /\ ctx \in [Threads -> Contexts \cup {NoContext}] /\ executes \in 0..MaxExecutes
      /\ pc \in [Threads -> {"idle", "waiting", "notified", "command", "back"}]
      /\ failed \subseteq Contexts
  BY RedisConstants DEF Redis!Init
<1>7. QED
  BY <1>2, <1>3, <1>4, <1>5, <1>6, RedisLibrary DEF Redis!TypeOK

\* acquire() moves a context from the pool to a thread that has none.
LEMMA RedisPop ==
  ASSUME Redis!TypeOK, NEW t \in Threads, t \notin Redis!Holders, Redis!Pop(t),
         UNCHANGED failed, executes' \in 0..MaxExecutes
  PROVE  Redis!TypeOK'
<1> DEFINE c == Head(pool)
<1>1. /\ pool # <<>> /\ pool' = Tail(pool) /\ ctx' = [ctx EXCEPT ![t] = c]
      /\ pc' = [pc EXCEPT ![t] = "command"]
  BY DEF Redis!Pop
<1>2. /\ pool' \in Seq(Contexts) /\ IsInjective(pool') /\ c \in Range(pool) /\ c \in Contexts
      /\ Range(pool') = Range(pool) \ {c}
  BY <1>1, RedisTyped, TailOfInjective
<1>3. Redis!Holders' = Redis!Holders \cup {t}
  BY <1>1, RedisTyped DEF Redis!Holders
<1>4. ctx'[t] = c /\ \A u \in Redis!Holders : ctx'[u] = ctx[u] /\ ctx[u] # c
  BY <1>1, <1>2, RedisTyped DEF Redis!Holders, Redis!Held
<1>5. Redis!Held' = Redis!Held \cup {c}
  BY <1>3, <1>4 DEF Redis!Held
<1>6. \A u, v \in Redis!Holders' : ctx'[u] = ctx'[v] => u = v
  BY <1>3, <1>4, RedisTyped
<1>7. Range(pool') \cup Redis!Held' = Contexts /\ Range(pool') \cap Redis!Held' = {}
  BY <1>2, <1>5, RedisTyped
<1>8. /\ ctx' \in [Threads -> Contexts \cup {NoContext}]
      /\ pc' \in [Threads -> {"idle", "waiting", "notified", "command", "back"}]
      /\ failed' \subseteq Contexts
  BY <1>1, <1>2, RedisTyped DEF Redis!TypeOK
<1>9. QED
  BY <1>2, <1>6, <1>7, <1>8, RedisLibrary DEF Redis!TypeOK

\* Steps that leave every context where it is.
LEMMA RedisStays ==
  ASSUME Redis!TypeOK, UNCHANGED <<pool, ctx>>, Redis!Holders' = Redis!Holders,
         pc' \in [Threads -> {"idle", "waiting", "notified", "command", "back"}],
         failed' \subseteq Contexts, executes' \in 0..MaxExecutes
  PROVE  Redis!TypeOK'
<1>1. Redis!Held' = Redis!Held
  BY DEF Redis!Held
<1>2. QED
  BY <1>1 DEF Redis!TypeOK, Redis!Range, Redis!IsInjective

\* notify_one() makes of one waiting thread a notified one, if there is one.
LEMMA RedisNotify ==
  ASSUME Redis!TypeOK, NEW t \in Threads, Redis!Release(t)
  PROVE  /\ pc' \in [Threads -> {"idle", "waiting", "notified", "command", "back"}]
         /\ Redis!Holders' = Redis!Holders \ {t}
         /\ \/ Redis!Asleep' = {}
            \/ \E u \in Redis!Asleep : /\ Redis!Asleep' = Redis!Asleep \ {u}
                                       /\ Redis!Notified' = Redis!Notified \cup {u}
<1>1. pc[t] = "back" /\ pc \in [Threads -> {"idle", "waiting", "notified", "command", "back"}]
  BY RedisTyped DEF Redis!Release
<1>2. CASE Redis!Asleep = {}
  <2>1. pc' = [pc EXCEPT ![t] = "idle"]
    BY <1>2 DEF Redis!Release
  <2>2. QED
    BY <1>1, <1>2, <2>1 DEF Redis!Holders, Redis!Asleep
<1>3. CASE Redis!Asleep # {}
  <2>1. PICK u \in Redis!Asleep : pc' = [[pc EXCEPT ![t] = "idle"] EXCEPT ![u] = "notified"]
    BY <1>3 DEF Redis!Release
  <2>2. /\ u \in Threads /\ pc[u] = "waiting" /\ u # t
        /\ pc'[u] = "notified" /\ pc'[t] = "idle"
        /\ \A v \in Threads \ {t, u} : pc'[v] = pc[v]
    BY <1>1, <2>1 DEF Redis!Asleep
  <2>3. pc' \in [Threads -> {"idle", "waiting", "notified", "command", "back"}]
    BY <1>1, <2>1, <2>2
  <2>4. /\ Redis!Holders' = Redis!Holders \ {t} /\ Redis!Asleep' = Redis!Asleep \ {u}
        /\ Redis!Notified' = Redis!Notified \cup {u}
    BY <1>1, <2>2 DEF Redis!Holders, Redis!Asleep, Redis!Notified
  <2>5. QED
    BY <2>3, <2>4
<1>4. QED
  BY <1>2, <1>3

\* release() puts back what its caller alone held.
LEMMA RedisRelease ==
  ASSUME Redis!TypeOK, NEW t \in Threads, Redis!Release(t)
  PROVE  Redis!TypeOK'
<1> DEFINE c == ctx[t]
<1>1. /\ t \in Redis!Holders /\ pool' = Append(pool, c)
      /\ ctx' = [ctx EXCEPT ![t] = NoContext] /\ UNCHANGED <<failed, executes>>
  BY DEF Redis!Release, Redis!Holders
<1>2. /\ Redis!Holders' = Redis!Holders \ {t}
      /\ pc' \in [Threads -> {"idle", "waiting", "notified", "command", "back"}]
  BY RedisNotify
<1>3. c \in Contexts /\ c \notin Range(pool)
  BY <1>1, RedisTyped DEF Redis!Held
<1>4. /\ pool' \in Seq(Contexts) /\ IsInjective(pool')
      /\ Range(pool') = Range(pool) \cup {c}
  BY <1>1, <1>3, RedisTyped, RangeOfAppend, InjectiveAppend, AppendProperties
<1>5. \A u \in Redis!Holders' : u \in Redis!Holders /\ ctx'[u] = ctx[u] /\ ctx[u] # c
  BY <1>1, <1>2, RedisTyped DEF Redis!Holders
<1>6. Redis!Held' = Redis!Held \ {c}
  BY <1>1, <1>2, <1>5, RedisTyped DEF Redis!Held
<1>7. \A u, v \in Redis!Holders' : ctx'[u] = ctx'[v] => u = v
  BY <1>5, RedisTyped
<1>8. Range(pool') \cup Redis!Held' = Contexts /\ Range(pool') \cap Redis!Held' = {}
  BY <1>3, <1>4, <1>6, RedisTyped
<1>9. ctx' \in [Threads -> Contexts \cup {NoContext}]
  BY <1>1, RedisTyped
<1>10. QED
  BY <1>1, <1>2, <1>4, <1>7, <1>8, <1>9, RedisLibrary DEF Redis!TypeOK

\* Every step of a thread leaves each context in one place.
LEMMA RedisStep == Redis!TypeOK /\ [Redis!Next]_(Redis!redisVars) => Redis!TypeOK'
<1> SUFFICES ASSUME Redis!TypeOK, [Redis!Next]_(Redis!redisVars)
             PROVE  Redis!TypeOK'
  OBVIOUS
<1>1. executes \in 0..MaxExecutes /\ failed \subseteq Contexts
  BY DEF Redis!TypeOK
<1>2. ASSUME NEW t \in Threads, t \notin Redis!Holders, Redis!Wait(t), UNCHANGED failed,
             executes' \in 0..MaxExecutes
      PROVE  Redis!TypeOK'
  <2>1. /\ Redis!Holders' = Redis!Holders /\ UNCHANGED <<pool, ctx>>
        /\ pc' \in [Threads -> {"idle", "waiting", "notified", "command", "back"}]
    BY <1>2, RedisTyped DEF Redis!Wait, Redis!Holders
  <2>2. QED
    BY <1>1, <1>2, <2>1, RedisStays
<1>3. ASSUME NEW t \in Threads, Redis!Acquire(t) \/ Redis!Resume(t) \/ Redis!SpuriousWake(t)
      PROVE  Redis!TypeOK'
  <2>1. /\ t \notin Redis!Holders /\ UNCHANGED failed /\ executes' \in 0..MaxExecutes
        /\ Redis!Pop(t) \/ Redis!Wait(t)
    BY <1>1, <1>3, RedisConstants
    DEF Redis!Acquire, Redis!Resume, Redis!SpuriousWake, Redis!Holders
  <2>2. QED
    BY <1>2, <2>1, RedisPop
<1>4. ASSUME NEW t \in Threads, Redis!Command(t)
      PROVE  Redis!TypeOK'
  <2>1. /\ Redis!Holders' = Redis!Holders /\ UNCHANGED <<pool, ctx, executes>>
        /\ pc' \in [Threads -> {"idle", "waiting", "notified", "command", "back"}]
    BY <1>4, RedisTyped DEF Redis!Command, Redis!Holders
  <2>2. t \in Redis!Holders /\ failed' \subseteq failed \cup {ctx[t]}
    BY <1>4 DEF Redis!Command, Redis!Holders
  <2>3. failed' \subseteq Contexts
    BY <1>1, <2>2, RedisTyped DEF Redis!Held
  <2>4. QED
    BY <1>1, <2>1, <2>3, RedisStays
<1>5. ASSUME NEW t \in Threads, Redis!Release(t)
      PROVE  Redis!TypeOK'
  BY <1>5, RedisRelease
<1>6. CASE UNCHANGED Redis!redisVars
  <2>1. UNCHANGED <<pool, pc, ctx, failed, executes>> /\ Redis!Holders' = Redis!Holders
    BY <1>6 DEF Redis!redisVars, Redis!Holders
  <2>2. QED
    BY <1>1, <2>1, RedisTyped, RedisStays
<1>7. QED
  BY <1>3, <1>4, <1>5, <1>6 DEF Redis!Next, Redis!Execute

\* For any threads and contexts: whatever Redis answers, every context is in the pool
\* once or in the hands of one thread.
THEOREM ContextsAreAccounted == Redis!Spec => []Redis!TypeOK
<1>1. QED
  BY RedisInit, RedisStep, PTL DEF Redis!Spec

\* The notified threads can be counted.
LEMMA NotifiedAreFinite ==
  /\ IsFiniteSet(Redis!Notified) /\ IsFiniteSet(Redis!Notified')
  /\ Cardinality(Redis!Notified) \in Nat /\ Cardinality(Redis!Notified') \in Nat
<1>1. Redis!Notified \subseteq Threads /\ Redis!Notified' \subseteq Threads
  BY DEF Redis!Notified
<1>2. IsFiniteSet(Redis!Notified) /\ IsFiniteSet(Redis!Notified')
  BY <1>1, RedisConstants, FS_Subset
<1>3. QED
  BY <1>2, FS_CardinalityType

\* A thread that takes a context leaves one fewer in the pool, and uses up at most
\* one notification.
LEMMA PopIdlesNone ==
  ASSUME Redis!TypeOK, Redis!NoContextIdles, NEW t \in Threads, Redis!Pop(t)
  PROVE  Redis!NoContextIdles'
<1>1. Len(pool') = Len(pool) - 1 /\ Len(pool) \in Nat
  BY RedisTyped, HeadTailProperties, LenProperties DEF Redis!Pop
<1>2. pc' = [pc EXCEPT ![t] = "command"]
  BY DEF Redis!Pop
<1>3. Redis!Notified' = Redis!Notified \ {t} /\ Redis!Asleep' \subseteq Redis!Asleep
  BY <1>2, RedisTyped DEF Redis!Notified, Redis!Asleep
<1>4. Cardinality(Redis!Notified') >= Cardinality(Redis!Notified) - 1
  <2>1. CASE t \in Redis!Notified
    BY <1>3, <2>1, NotifiedAreFinite, FS_RemoveElement
  <2>2. CASE t \notin Redis!Notified
    <3>1. Redis!Notified' = Redis!Notified
      BY <1>3, <2>2
    <3>2. QED
      BY <3>1, NotifiedAreFinite
  <2>3. QED
    BY <2>1, <2>2
<1>5. QED
  BY <1>1, <1>3, <1>4, NotifiedAreFinite, RedisLibrary DEF Redis!NoContextIdles

\* No step leaves a free context beside a sleeping thread that nobody was told of.
LEMMA IdleStep ==
  Redis!TypeOK /\ Redis!NoContextIdles /\ [Redis!Next]_(Redis!redisVars)
    => Redis!NoContextIdles'
<1> SUFFICES ASSUME Redis!TypeOK, Redis!NoContextIdles, [Redis!Next]_(Redis!redisVars)
             PROVE  Redis!NoContextIdles'
  OBVIOUS
<1>1. ASSUME NEW t \in Threads, Redis!Wait(t)
      PROVE  Redis!NoContextIdles'
  <2>1. Len(pool') = 0
    BY <1>1 DEF Redis!Wait
  <2>2. QED
    BY <2>1, NotifiedAreFinite, RedisLibrary DEF Redis!NoContextIdles
<1>2. ASSUME NEW t \in Threads, Redis!Acquire(t) \/ Redis!Resume(t) \/ Redis!SpuriousWake(t)
      PROVE  Redis!NoContextIdles'
  <2>1. Redis!Pop(t) \/ Redis!Wait(t)
    BY <1>2 DEF Redis!Acquire, Redis!Resume, Redis!SpuriousWake
  <2>2. QED
    BY <1>1, <2>1, PopIdlesNone
<1>3. ASSUME NEW t \in Threads, Redis!Command(t)
      PROVE  Redis!NoContextIdles'
  <2>1. UNCHANGED pool /\ pc[t] = "command" /\ pc' = [pc EXCEPT ![t] = "back"]
    BY <1>3 DEF Redis!Command
  <2>2. Redis!Asleep' = Redis!Asleep /\ Redis!Notified' = Redis!Notified
    BY <2>1, RedisTyped DEF Redis!Asleep, Redis!Notified
  <2>3. QED
    BY <2>1, <2>2, RedisLibrary DEF Redis!NoContextIdles
<1>4. ASSUME NEW t \in Threads, Redis!Release(t)
      PROVE  Redis!NoContextIdles'
  <2>1. CASE Redis!Asleep' = {}
    BY <2>1 DEF Redis!NoContextIdles
  <2>2. ASSUME NEW u \in Redis!Asleep, Redis!Notified' = Redis!Notified \cup {u}
        PROVE  Redis!NoContextIdles'
    <3>1. Len(pool) <= Cardinality(Redis!Notified)
      BY RedisLibrary DEF Redis!NoContextIdles
    <3>2. Cardinality(Redis!Notified') = Cardinality(Redis!Notified) + 1
      <4>1. u \notin Redis!Notified
        BY DEF Redis!Asleep, Redis!Notified
      <4>2. QED
        BY <2>2, <4>1, NotifiedAreFinite, FS_AddElement
    <3>3. Len(pool') = Len(pool) + 1 /\ Len(pool) \in Nat
      <4>1. ctx[t] \in Contexts /\ pool' = Append(pool, ctx[t])
        BY <1>4, RedisTyped DEF Redis!Release, Redis!Holders, Redis!Held
      <4>2. QED
        BY <4>1, RedisTyped, AppendProperties, LenProperties
    <3>4. QED
      BY <3>1, <3>2, <3>3, NotifiedAreFinite, RedisLibrary DEF Redis!NoContextIdles
  <2>3. QED
    BY <1>4, <2>1, <2>2, RedisNotify
<1>5. CASE UNCHANGED Redis!redisVars
  <2>1. UNCHANGED <<pool, pc>>
    BY <1>5 DEF Redis!redisVars
  <2>2. QED
    BY <2>1 DEF Redis!NoContextIdles, Redis!Asleep, Redis!Notified
<1>6. QED
  BY <1>2, <1>3, <1>4, <1>5 DEF Redis!Next, Redis!Execute

\* For any number of threads and contexts, whoever takes a context first: when threads
\* sleep, each context in the pool has a notified thread that will look for it.
THEOREM NobodySleepsBesideAContext == Spec => []NoContextIdles
<1>1. Redis!Init => Redis!NoContextIdles
  BY DEF Redis!Init, Redis!NoContextIdles, Redis!Asleep
<1>2. Redis!Spec => []Redis!NoContextIdles
  BY <1>1, IdleStep, ContextsAreAccounted, PTL DEF Redis!Spec
<1>3. QED
  BY <1>2, RedisRuns, PTL DEF NoContextIdles

-------------------------------------------------------------------------------
(* LogStream.                                                              *)

\* The part LogStream goes by its own specification.
LEMMA StreamRuns == Spec => Stream!Spec
<1>1. Init => Stream!Init
  BY DEF Init
<1>2. [Next]_vars => [Stream!Next]_(Stream!vars)
  BY DEF Next, vars, streamVars, Stream!vars, Stream!redisVars, Stream!writerVars
<1>3. QED
  BY <1>1, <1>2, PTL DEF Spec, Stream!Spec

\* The library's cardinality, as LogStream and as the lemmas name it.
LEMMA StreamLibrary == \A S : Stream!Cardinality(S) = Cardinality(S)
BY DEF Stream!Cardinality, Cardinality

\* What LogStream assumes of its constants.
LEMMA StreamConstants ==
  /\ Cardinality(Contexts) \in Nat \ {0} /\ BatchSize \in Nat \ {0}
  /\ MaxLen \in Nat \ {0} /\ None \notin Nat
  /\ MaxPushes \in Nat /\ MaxFailures \in Nat /\ MaxRestarts \in Nat
BY PartsAssumption DEF Stream!Assumption

\* The outcomes of a command leave the count of broken contexts within bounds.
LEMMA CommandTyped ==
  ASSUME Stream!TypeOK, Stream!Replied \/ Stream!NotSent \/ Stream!NoReply
  PROVE  broken' \in 0..Cardinality(Contexts) /\ failures' \in 0..MaxFailures
BY StreamConstants DEF Stream!TypeOK, Stream!Replied, Stream!NotSent, Stream!NoReply

\* What a read selects is in the stream and new to the group.
LEMMA BatchIsNew ==
  ASSUME Stream!TypeOK
  PROVE  \A e \in Stream!Batch : e \in stream /\ group # None /\ e > group /\ e \in 1..pushed
BY DEF Stream!TypeOK, Stream!Batch

\* A delivery moves the group to an entry of the batch, the last.
LEMMA MoveGroupTyped ==
  ASSUME Stream!TypeOK, Stream!MoveGroup
  PROVE  group' \in 0..pushed \cup {None}
<1>1. CASE Stream!Batch = {}
  BY <1>1 DEF Stream!TypeOK, Stream!MoveGroup
<1>2. CASE Stream!Batch # {}
  <2>1. PICK last \in Stream!Batch : group' = last
    BY <1>2 DEF Stream!MoveGroup
  <2>2. QED
    BY <2>1, BatchIsNew DEF Stream!TypeOK
<1>3. QED
  BY <1>1, <1>2

\* The batch has all that is new up to its last entry: an entry below one of the
\* first BatchSize is one of them.
LEMMA BatchIsPrefix ==
  ASSUME Stream!TypeOK, NEW last \in Stream!Batch, NEW e \in stream, e > group, e <= last
  PROVE  e \in Stream!Batch
<1> DEFINE new == {f \in stream : group # None /\ f > group}
           below(k) == {f \in new : f < k}
<1>1. /\ last \in new /\ group # None
      /\ Cardinality(below(last)) < BatchSize
  BY StreamLibrary DEF Stream!Batch
<1>2. e \in new
  BY <1>1
<1>3. /\ pushed \in Nat /\ stream \subseteq 1..pushed
  BY DEF Stream!TypeOK
<1>4. IsFiniteSet(1..pushed)
  BY <1>3, FS_Interval
<1>5. IsFiniteSet(below(last))
  <2>1. below(last) \subseteq 1..pushed
    BY <1>3
  <2>2. QED
    BY <2>1, <1>4, FS_Subset
<1>6. below(e) \subseteq below(last)
  <2>1. new \subseteq Nat /\ e \in Nat /\ last \in Nat
    <3>1. stream \subseteq Nat
      BY <1>3
    <3>2. new \subseteq Nat
      BY <3>1
    <3>3. QED
      BY <3>2, <1>1, <1>2
  <2> HIDE DEF new
  <2>2. ASSUME NEW f \in new, f < e
        PROVE  f < last
    BY <2>1, <2>2
  <2>3. QED
    BY <2>2
<1>7. /\ Cardinality(below(e)) \in Nat /\ Cardinality(below(last)) \in Nat
      /\ Cardinality(below(e)) <= Cardinality(below(last))
  BY <1>5, <1>6, FS_Subset, FS_CardinalityType
<1>8. Cardinality(below(e)) < BatchSize
  BY <1>1, <1>7, StreamConstants
<1>9. QED
  BY <1>2, <1>8, StreamLibrary DEF Stream!Batch

\* A message without id and fields is a message, whatever the ids.
LEMMA MisreadTyped ==
  ASSUME NEW S
  PROVE  {<<>>, << [id |-> None, entry |-> None] >>} \subseteq
           Seq([id : S \cup {None}, entry : S \cup {None}])
<1> DEFINE T == [id : S \cup {None}, entry : S \cup {None}]
           m == [id |-> None, entry |-> None]
<1>1. m \in T
  OBVIOUS
<1> HIDE DEF T, m
<1>2. <<>> \in Seq(T) /\ <<m>> \in Seq(T)
  BY <1>1
<1>3. {<<>>, <<m>>} \subseteq Seq(T)
  BY <1>2
<1>4. QED
  BY <1>3 DEF T, m

\* At first nothing is pushed, delivered or stored.
LEMMA StreamInit == Stream!Init => Stream!IInv
BY StreamConstants DEF Stream!Init, Stream!IInv, Stream!TypeOK, Stream!Misread

\* A push changes the stream and the number of entries, which only grows.
LEMMA PushTyped ==
  ASSUME Stream!IInv, Stream!Push
  PROVE  Stream!IInv'
<1> USE DEF Stream!IInv
<1>1. /\ pushed \in Nat /\ pushed' = pushed + 1 /\ pushed' \in 0..MaxPushes
      /\ UNCHANGED <<group, pending, delivered, stored, writerPc, messages, restarts>>
  BY StreamConstants DEF Stream!Push, Stream!TypeOK, Stream!writerVars
<1>2. broken' \in 0..Cardinality(Contexts) /\ failures' \in 0..MaxFailures
  BY CommandTyped DEF Stream!Push, Stream!Command
<1>3. stream' \subseteq 1..pushed'
  <2>1. CASE UNCHANGED stream
    BY <2>1, <1>1 DEF Stream!TypeOK
  <2>2. CASE Stream!Add(pushed + 1)
    <3>1. stream' \subseteq stream \cup {pushed + 1}
      BY <2>2 DEF Stream!Add
    <3>2. QED
      BY <3>1, <1>1 DEF Stream!TypeOK
  <2>3. QED
    BY <2>1, <2>2 DEF Stream!Push, Stream!Command
<1>4. messages' \in Seq([id : 1..pushed' \cup {None}, entry : 1..pushed' \cup {None}])
  <2>1. messages' \in {<<>>, << [id |-> None, entry |-> None] >>}
    BY <1>1 DEF Stream!Misread
  <2>2. QED
    BY <2>1, MisreadTyped
<1>5. 1..pushed \subseteq 1..pushed' /\ 0..pushed \subseteq 0..pushed'
  BY <1>1
<1>6. Stream!TypeOK'
  BY <1>1, <1>2, <1>3, <1>4, <1>5 DEF Stream!TypeOK
<1>7. Stream!Misread'
  BY <1>1 DEF Stream!Misread
<1>8. QED
  BY <1>6, <1>7

\* A read gives entries of the stream to the group and one message to the writer.
LEMMA ReadTyped ==
  ASSUME Stream!IInv, Stream!Read
  PROVE  Stream!IInv'
<1> USE DEF Stream!IInv
<1>1. /\ UNCHANGED <<stream, stored, pushed, restarts>>
      /\ writerPc' = IF messages' = <<>> THEN "sleep" ELSE "insert"
  BY DEF Stream!Read
<1>2. broken' \in 0..Cardinality(Contexts) /\ failures' \in 0..MaxFailures
  BY CommandTyped DEF Stream!Read
<1>3. /\ group' \in 0..pushed \cup {None}
      /\ pending' \subseteq 1..pushed /\ delivered' \subseteq 1..pushed
  <2>1. CASE Stream!Deliver
    <3>1. Stream!Batch \subseteq 1..pushed
      BY BatchIsNew
    <3>2. QED
      BY <2>1, <3>1, MoveGroupTyped DEF Stream!Deliver, Stream!TypeOK
  <2>2. CASE UNCHANGED <<group, pending, delivered>>
    BY <2>2 DEF Stream!TypeOK
  <2>3. QED
    BY <2>1, <2>2 DEF Stream!Read
<1>4. Stream!Misread'
  BY DEF Stream!Read, Stream!Parse, Stream!Misread
<1>5. messages' \in Seq([id : 1..pushed \cup {None}, entry : 1..pushed \cup {None}])
  <2>1. messages' \in {<<>>, << [id |-> None, entry |-> None] >>}
    BY <1>4 DEF Stream!Misread
  <2>2. QED
    BY <2>1, MisreadTyped
<1>6. Stream!TypeOK'
  BY <1>1, <1>2, <1>3, <1>5 DEF Stream!TypeOK
<1>7. QED
  BY <1>4, <1>6

\* An INSERT that has been read wrongly changes nothing.
LEMMA InsertFails ==
  ASSUME Stream!IInv, Stream!Insert
  PROVE  UNCHANGED <<stored, pending>>
<1>1. messages = << [id |-> None, entry |-> None] >>
  BY DEF Stream!IInv, Stream!TypeOK, Stream!Misread, Stream!Insert
<1>2. 1 \in DOMAIN messages /\ messages[1].entry = None
  BY <1>1
<1>3. None \in {messages[i].entry : i \in DOMAIN messages}
  BY <1>2
<1>4. QED
  BY <1>3 DEF Stream!Insert

\* Every step of push(), the writer, Redis and a restart keeps the invariant.
LEMMA StreamStep == Stream!IInv /\ [Stream!Next]_(Stream!vars) => Stream!IInv'
<1> SUFFICES ASSUME Stream!IInv, [Stream!Next]_(Stream!vars)
             PROVE  Stream!IInv'
  OBVIOUS
<1>1. CASE Stream!Push
  BY <1>1, PushTyped
<1>2. CASE Stream!Start
  <2>1. broken' \in 0..Cardinality(Contexts) /\ failures' \in 0..MaxFailures
    BY <1>2, CommandTyped DEF Stream!Start, Stream!Command, Stream!IInv
  <2>2. group' \in 0..pushed \cup {None}
    BY <1>2
    DEF Stream!Start, Stream!Command, Stream!CreateGroup, Stream!IInv, Stream!TypeOK
  <2>3. QED
    BY <1>2, <2>1, <2>2 DEF Stream!Start, Stream!IInv, Stream!TypeOK, Stream!Misread
<1>3. CASE Stream!Read
  BY <1>3, ReadTyped
<1>4. CASE Stream!Wake
  BY <1>4 DEF Stream!Wake, Stream!IInv, Stream!TypeOK, Stream!Misread, Stream!redisVars
<1>5. CASE Stream!AcquireThrows
  BY <1>5, StreamConstants
  DEF Stream!AcquireThrows, Stream!IInv, Stream!TypeOK, Stream!Misread, Stream!redisVars
<1>6. CASE Stream!Insert
  <2>1. UNCHANGED <<stored, pending>>
    BY <1>6, InsertFails
  <2>2. QED
    BY <1>6, <2>1 DEF Stream!Insert, Stream!IInv, Stream!TypeOK, Stream!Misread
<1>7. CASE Stream!Restart
  BY <1>7, StreamConstants
  DEF Stream!Restart, Stream!IInv, Stream!TypeOK, Stream!Misread, Stream!redisVars
<1>8. CASE UNCHANGED Stream!vars
  BY <1>8
  DEF Stream!IInv, Stream!TypeOK, Stream!Misread, Stream!vars, Stream!redisVars,
      Stream!writerVars
<1>9. QED
  BY <1>1, <1>2, <1>3, <1>4, <1>5, <1>6, <1>7, <1>8 DEF Stream!Next, Stream!Writer

\* The inductive invariant of LogStream.
LEMMA StreamTyped == Stream!Spec => []Stream!IInv
<1>1. QED
  BY StreamInit, StreamStep, PTL DEF Stream!Spec

\* XREADGROUP with ">" and any COUNT delivers the stream without a gap.
LEMMA DeliveryHasNoGap == Stream!Spec => []Stream!NoneSkipped
<1>1. Stream!Init => Stream!NoneSkipped
  BY DEF Stream!Init, Stream!NoneSkipped
<1>2. Stream!IInv /\ Stream!NoneSkipped /\ [Stream!Next]_(Stream!vars)
        => Stream!NoneSkipped'
  <2> SUFFICES ASSUME Stream!IInv, Stream!NoneSkipped, [Stream!Next]_(Stream!vars),
                      NEW e \in stream', group' # None, e <= group'
               PROVE  e \in delivered'
    BY DEF Stream!NoneSkipped
  <2> USE DEF Stream!IInv
  <2>1. CASE Stream!Push
    <3>1. UNCHANGED <<group, delivered>> /\ pushed \in Nat
      BY <2>1 DEF Stream!Push, Stream!TypeOK
    <3>2. stream' \subseteq stream \cup {pushed + 1}
      BY <2>1 DEF Stream!Push, Stream!Command, Stream!Add
    <3>3. group \in 0..pushed
      BY <3>1 DEF Stream!TypeOK
    <3>4. e \in stream
      BY <3>1, <3>2, <3>3
    <3>5. QED
      BY <3>1, <3>4 DEF Stream!NoneSkipped
  <2>2. CASE Stream!Start
    <3>1. stream' = stream /\ delivered' = delivered
      BY <2>2 DEF Stream!Start
    <3>2. group' = group \/ group' = 0
      BY <2>2 DEF Stream!Start, Stream!Command, Stream!CreateGroup
    <3>3. e # 0 /\ e \in Nat
      BY <3>1 DEF Stream!TypeOK
    <3>4. group' = group
      BY <3>2, <3>3
    <3>5. QED
      BY <3>1, <3>4 DEF Stream!NoneSkipped
  <2>3. ASSUME Stream!Read, Stream!Deliver
        PROVE  e \in delivered'
    <3>1. stream' = stream /\ delivered' = delivered \cup Stream!Batch
      BY <2>3 DEF Stream!Read, Stream!Deliver
    <3>2. CASE Stream!Batch = {}
      <4>1. group' = group
        BY <2>3, <3>2 DEF Stream!Deliver, Stream!MoveGroup
      <4>2. QED
        BY <3>1, <4>1 DEF Stream!NoneSkipped
    <3>3. CASE Stream!Batch # {}
      <4>1. PICK last \in Stream!Batch : group' = last
        BY <2>3, <3>3 DEF Stream!Deliver, Stream!MoveGroup
      <4>2. group # None /\ group \in Nat /\ e \in Nat
        BY <4>1, <3>1, BatchIsNew DEF Stream!TypeOK
      <4>3. CASE e <= group
        BY <4>2, <4>3, <3>1 DEF Stream!NoneSkipped
      <4>4. CASE e > group
        BY <4>1, <4>4, <3>1, BatchIsPrefix
      <4>5. QED
        BY <4>2, <4>3, <4>4
    <3>4. QED
      BY <3>2, <3>3
  <2>4. ASSUME Stream!Read, UNCHANGED <<group, delivered>>
        PROVE  e \in delivered'
    BY <2>4 DEF Stream!Read, Stream!NoneSkipped
  <2>5. CASE \/ Stream!Wake \/ Stream!AcquireThrows \/ Stream!Insert \/ Stream!Restart
             \/ UNCHANGED Stream!vars
    <3>1. UNCHANGED <<stream, group, delivered>>
      BY <2>5
      DEF Stream!Wake, Stream!AcquireThrows, Stream!Insert, Stream!Restart,
          Stream!vars, Stream!redisVars
    <3>2. QED
      BY <3>1 DEF Stream!NoneSkipped
  <2>6. QED
    BY <2>1, <2>2, <2>3, <2>4, <2>5 DEF Stream!Next, Stream!Writer, Stream!Read
<1>3. QED
  BY <1>1, <1>2, StreamTyped, PTL DEF Stream!Spec

\* For any number of contexts, batch size and MAXLEN, with lost commands, replies
\* and restarts: the types, what the parser makes of a reply, and that the group's
\* place in the stream passes nothing that is not delivered.
THEOREM StreamInvariant == Spec => []StreamInv
<1>1. Stream!IInv /\ Stream!NoneSkipped => Stream!StreamInv
  BY DEF Stream!StreamInv
<1>2. QED
  BY <1>1, StreamTyped, DeliveryHasNoGap, StreamRuns, PTL DEF StreamInv

-------------------------------------------------------------------------------
(* AsyncLogger.                                                            *)

\* The part AsyncLogger goes by its own specification.
LEMMA LoggerRuns == Spec => Logger!Spec
<1>1. Init => Logger!Init
  BY DEF Init
<1>2. [Next]_vars => [Logger!Next]_(Logger!loggerVars)
  BY DEF Next, vars, loggerVars, Logger!loggerVars
<1>3. QED
  BY <1>1, <1>2, PTL DEF Spec, Logger!Spec

\* The numbers from 1 to n, and one more.
LEMMA NextNumber ==
  ASSUME NEW n \in Nat
  PROVE  Append([i \in 1..n |-> i], n + 1) = [i \in 1..(n + 1) |-> i]
<1> DEFINE s == [i \in 1..n |-> i]
           t == [i \in 1..(n + 1) |-> i]
<1>1. s \in Seq(Nat) /\ Len(s) = n /\ t \in Seq(Nat) /\ Len(t) = n + 1
  OBVIOUS
<1>2. /\ Append(s, n + 1) \in Seq(Nat) /\ Len(Append(s, n + 1)) = n + 1
      /\ \A i \in 1..n : Append(s, n + 1)[i] = s[i]
      /\ Append(s, n + 1)[n + 1] = n + 1
  BY <1>1, AppendProperties
<1>3. \A i \in 1..(n + 1) : Append(s, n + 1)[i] = t[i]
  BY <1>2
<1> HIDE DEF s, t
<1>4. QED
  BY <1>1, <1>2, <1>3, SeqEqual DEF s, t

\* What LogInv says of the buffers.
LEMMA LogTyped ==
  ASSUME Logger!LogInv
  PROVE  /\ front \in Seq(1..MaxMessages) /\ back \in Seq(1..MaxMessages)
         /\ written \in Seq(1..MaxMessages) /\ back \o front \in Seq(1..MaxMessages)
         /\ logged \in Nat /\ logged <= MaxMessages
         /\ written \o (back \o front) = [n \in 1..logged |-> n]
<1>1. /\ front \in Seq(1..MaxMessages) /\ back \in Seq(1..MaxMessages)
      /\ written \in Seq(1..MaxMessages)
  BY DEF Logger!LogInv, Logger!TypeOK
<1>2. back \o front \in Seq(1..MaxMessages)
  BY <1>1, ConcatProperties
<1>3. QED
  BY <1>1, <1>2, PartsAssumption
  DEF Logger!LogInv, Logger!TypeOK, Logger!InOrder, Logger!Assumption

\* log() appends the next message to the queue that the two buffers are.
LEMMA LogSubmits ==
  ASSUME Logger!LogInv, Logger!Log
  PROVE  /\ logged' = logged + 1 /\ logged' \in 1..MaxMessages
         /\ front' \in Seq(1..MaxMessages) /\ UNCHANGED <<back, written>>
         /\ (back \o front)' = Append(back \o front, logged')
         /\ (written \o (back \o front))' = [n \in 1..logged' |-> n]
<1>1. /\ logged' = logged + 1 /\ front' = Append(front, logged')
      /\ UNCHANGED <<back, written>>
  BY DEF Logger!Log
<1>2. logged' \in 1..MaxMessages
  BY <1>1, LogTyped, PartsAssumption DEF Logger!Log, Logger!Assumption
<1>3. /\ front' \in Seq(1..MaxMessages)
      /\ back \o front' = Append(back \o front, logged')
  BY <1>1, <1>2, LogTyped, EnqueueMoves, AppendProperties
<1>4. written \o Append(back \o front, logged') = Append(written \o (back \o front), logged')
  BY <1>2, LogTyped, EnqueueMoves
<1>5. Append([n \in 1..logged |-> n], logged + 1) = [n \in 1..(logged + 1) |-> n]
  BY LogTyped, NextNumber
<1>6. written \o Append(back \o front, logged') = [n \in 1..logged' |-> n]
  BY <1>1, <1>4, <1>5, LogTyped
<1>7. QED
  BY <1>1, <1>2, <1>3, <1>6

\* The buffers change places: the queue does not.
LEMMA SwapKeeps ==
  ASSUME Logger!LogInv, backend # "write", Logger!Swap
  PROVE  /\ front' \in Seq(1..MaxMessages) /\ back' \in Seq(1..MaxMessages)
         /\ (back \o front)' = back \o front
         /\ backend' = "write" /\ UNCHANGED <<written, logged, keepOn, owner>>
         /\ notified' = FALSE
<1>1. back = <<>>
  BY DEF Logger!LogInv, Logger!BackIsWritten
<1>2. front \o <<>> = front /\ <<>> \o front = front
  BY LogTyped, ConcatEmptySeq
<1>3. QED
  BY <1>1, <1>2, LogTyped DEF Logger!Swap

\* A line goes from the back buffer, the head of the queue, to the file.
LEMMA WriteStarts ==
  ASSUME Logger!LogInv, Logger!Write
  PROVE  /\ back \o front # <<>>
         /\ written' = Append(written, Head(back \o front))
         /\ (back \o front)' = Tail(back \o front)
         /\ back' \in Seq(1..MaxMessages) /\ written' \in Seq(1..MaxMessages)
         /\ (written \o (back \o front))' = written \o (back \o front)
<1>1. /\ back # <<>> /\ written' = Append(written, Head(back)) /\ back' = Tail(back)
      /\ UNCHANGED front
  BY DEF Logger!Write
<1>2. /\ back \o front # <<>> /\ Head(back \o front) = Head(back)
      /\ Tail(back \o front) = Tail(back) \o front
  BY <1>1, LogTyped, HeadTailOfConcat
<1>3. /\ Head(back) \in 1..MaxMessages /\ back' \in Seq(1..MaxMessages)
      /\ written' \in Seq(1..MaxMessages)
  BY <1>1, LogTyped, HeadTailProperties, AppendProperties
<1>4. Append(written, Head(back \o front)) \o Tail(back \o front)
        = written \o (back \o front)
  <2> DEFINE q == back \o front
  <2>1. q \in Seq(1..MaxMessages) /\ q # <<>> /\ written \in Seq(1..MaxMessages)
    BY <1>2, LogTyped
  <2> HIDE DEF q
  <2>2. Append(written, Head(q)) \o Tail(q) = written \o q
    BY <2>1, DequeueMoves
  <2>3. QED
    BY <2>2 DEF q
<1>5. QED
  BY <1>1, <1>2, <1>3, <1>4

\* Every step of log(), the backend and the destructor keeps the order of messages.
LEMMA LoggerStep == Logger!LogInv /\ [Logger!Next]_(Logger!loggerVars) => Logger!LogInv'
<1> SUFFICES ASSUME Logger!LogInv, [Logger!Next]_(Logger!loggerVars)
             PROVE  Logger!LogInv'
  OBVIOUS
<1>1. Logger!TypeOK /\ Logger!BackIsWritten /\ Logger!InOrder
  BY DEF Logger!LogInv
<1>2. CASE Logger!Log
  <2>1. Logger!TypeOK'
    BY <1>1, <1>2, LogSubmits, LogTyped DEF Logger!TypeOK, Logger!Log
  <2>2. Logger!BackIsWritten'
    BY <1>1, <1>2 DEF Logger!Log, Logger!BackIsWritten
  <2>3. QED
    BY <1>2, <2>1, <2>2, LogSubmits DEF Logger!LogInv, Logger!InOrder
<1>3. CASE Logger!Swap /\ backend # "write"
  <2>1. Logger!TypeOK'
    BY <1>1, <1>3, SwapKeeps DEF Logger!TypeOK
  <2>2. QED
    BY <1>1, <1>3, <2>1, SwapKeeps
    DEF Logger!LogInv, Logger!InOrder, Logger!BackIsWritten
<1>4. CASE Logger!Write
  <2>1. Logger!TypeOK'
    BY <1>1, <1>4, WriteStarts DEF Logger!TypeOK, Logger!Write
  <2>2. Logger!BackIsWritten'
    BY <1>4 DEF Logger!Write, Logger!BackIsWritten
  <2>3. QED
    BY <1>1, <1>4, <2>1, <2>2, WriteStarts
    DEF Logger!LogInv, Logger!InOrder, Logger!Write
<1>5. ASSUME UNCHANGED <<front, back, written, logged>>, Logger!TypeOK',
             backend' = "write" => backend = "write",
             backend = "write" /\ backend' # "write" => back = <<>>
      PROVE  Logger!LogInv'
  BY <1>1, <1>5 DEF Logger!LogInv, Logger!InOrder, Logger!BackIsWritten
<1>6. CASE \/ Logger!InitLogger \/ Logger!TestRunning \/ Logger!Decide \/ Logger!FallAsleep
           \/ Logger!Flush
  <2>1. Logger!TypeOK'
    BY <1>1, <1>6
    DEF Logger!TypeOK, Logger!InitLogger, Logger!TestRunning, Logger!Decide,
        Logger!FallAsleep, Logger!Flush
  <2>2. QED
    BY <1>5, <1>6, <2>1
    DEF Logger!InitLogger, Logger!TestRunning, Logger!Decide, Logger!FallAsleep,
        Logger!Flush
<1>7. CASE \/ Logger!StopRunning \/ Logger!NotifyAll \/ Logger!Join
           \/ UNCHANGED Logger!loggerVars
  <2>1. Logger!TypeOK'
    BY <1>1, <1>7
    DEF Logger!TypeOK, Logger!StopRunning, Logger!NotifyAll, Logger!Join,
        Logger!loggerVars
  <2>2. QED
    BY <1>5, <1>7, <2>1
    DEF Logger!StopRunning, Logger!NotifyAll, Logger!Join, Logger!loggerVars
<1>8. QED
  BY <1>2, <1>3, <1>4, <1>6, <1>7
  DEF Logger!Next, Logger!Backend, Logger!Destructor, Logger!SwapAtOnce, Logger!Wake,
      Logger!SpuriousWake, Logger!IntervalEnds

\* For any number of messages and any threshold: the file, the back buffer and the
\* front buffer hold, one after the other, the messages in the order of log().
THEOREM NothingIsLost == Spec => []Logger!LogInv
<1>1. Logger!Init => Logger!LogInv
  <2> SUFFICES ASSUME Logger!Init
               PROVE  Logger!LogInv
    OBVIOUS
  <2>1. <<>> \o (<<>> \o <<>>) = <<>> /\ [n \in 1..0 |-> n] = <<>>
    <3>1. <<>> \in Seq(Nat)
      OBVIOUS
    <3>2. <<>> \o <<>> = <<>>
      BY <3>1, ConcatEmptySeq
    <3>3. [n \in 1..0 |-> n] = <<>>
      OBVIOUS
    <3>4. QED
      BY <3>2, <3>3
  <2>2. Logger!InOrder
    BY <2>1 DEF Logger!Init, Logger!InOrder
  <2>3. logged \in 0..MaxMessages
    BY PartsAssumption DEF Logger!Init, Logger!Assumption
  <2>4. keepOn \in BOOLEAN /\ notified \in BOOLEAN
    BY DEF Logger!Init
  <2>5. /\ front \in Seq(1..MaxMessages) /\ back \in Seq(1..MaxMessages)
        /\ written \in Seq(1..MaxMessages)
    BY DEF Logger!Init
  <2>6. Logger!TypeOK
    BY <2>3, <2>4, <2>5 DEF Logger!Init, Logger!TypeOK
  <2>7. QED
    BY <2>2, <2>6 DEF Logger!Init, Logger!LogInv, Logger!BackIsWritten
<1>2. QED
  BY <1>1, LoggerStep, LoggerRuns, PTL DEF Logger!Spec

\* AsyncLogger implements FifoExecutor: log() submits, and writing a line starts.
THEOREM LoggerImplementsExecutor == Spec => FileIsTheLog
<1>1. Logger!Init => Logger!Executor!Init
  <2>1. <<>> \o <<>> = <<>>
    <3>1. <<>> \in Seq(Nat)
      OBVIOUS
    <3>2. QED
      BY <3>1, ConcatEmptySeq
  <2>2. QED
    BY <2>1 DEF Logger!Init, Logger!Executor!Init
<1>2. Logger!LogInv /\ [Logger!Next]_(Logger!loggerVars)
        => [Logger!Executor!Next]_(Logger!Executor!vars)
  <2> SUFFICES ASSUME Logger!LogInv, [Logger!Next]_(Logger!loggerVars)
               PROVE  [Logger!Executor!Next]_(Logger!Executor!vars)
    OBVIOUS
  <2>1. CASE Logger!Log
    <3>1. \A i \in DOMAIN (written \o (back \o front)) :
            (written \o (back \o front))[i] # logged'
      <4>1. logged' \notin 1..logged
        BY <2>1, LogSubmits, LogTyped
      <4>2. QED
        BY <4>1, LogTyped
    <3>2. Logger!Executor!Submit(logged')
      BY <2>1, <3>1, LogSubmits DEF Logger!Executor!Submit, Logger!Executor!Submitted
    <3>3. QED
      BY <2>1, <3>2, LogSubmits DEF Logger!Executor!Next
  <2>2. CASE Logger!Write
    BY <2>2, WriteStarts DEF Logger!Executor!Next, Logger!Executor!Start
  <2>3. CASE Logger!Swap /\ backend # "write"
    BY <2>3, SwapKeeps DEF Logger!Executor!vars
  <2>4. CASE UNCHANGED <<front, back, written>>
    BY <2>4 DEF Logger!Executor!vars
  <2>5. QED
    BY <2>1, <2>2, <2>3, <2>4
    DEF Logger!Next, Logger!Backend, Logger!Destructor, Logger!SwapAtOnce, Logger!Wake,
        Logger!SpuriousWake, Logger!IntervalEnds, Logger!InitLogger, Logger!TestRunning,
        Logger!Decide, Logger!FallAsleep, Logger!Flush, Logger!StopRunning,
        Logger!NotifyAll, Logger!Join, Logger!loggerVars
<1>3. QED
  BY <1>1, <1>2, NothingIsLost, LoggerRuns, PTL
  DEF FileIsTheLog, Logger!FileIsTheLog, Logger!Executor!Spec, Logger!Spec

-------------------------------------------------------------------------------
(* MemoryPool.                                                             *)

\* The part MemoryPool goes by its own specification.
LEMMA MemoryRuns == Spec => Memory!Spec
<1>1. Init => Memory!Init
  BY DEF Init
<1>2. [Next]_vars => [Memory!Next]_(Memory!blockVars)
  BY DEF Next, vars, blockVars, Memory!blockVars
<1>3. QED
  BY <1>1, <1>2, PTL DEF Spec, Memory!Spec

\* The library's operators, as MemoryPool and as the lemmas name them.
LEMMA MemoryLibrary ==
  /\ \A f : Memory!IsInjective(f) <=> IsInjective(f)
  /\ \A f : Memory!Range(f) = Range(f)
<1>1. \A f : Memory!IsInjective(f) <=> IsInjective(f)
  BY DEF Memory!IsInjective, IsInjective
<1>2. \A f : Memory!Range(f) = Range(f)
  BY DEF Memory!Range, Range
<1>3. QED
  BY <1>1, <1>2

\* What MemoryPool assumes of its constants.
LEMMA MemoryConstants ==
  /\ Memory!BlockSizes \subseteq Nat /\ MaxBlockSize \in Memory!BlockSizes
  /\ BlockCount \in Nat \ {0} /\ MaxChunks \in Nat \ {0}
  /\ Requests \subseteq 0..MaxBlockSize
  /\ Null \notin Memory!Blocks
<1>1. MinBlockSize \in Nat /\ MaxBlockSize \in Memory!BlockSizes
  BY PartsAssumption DEF Memory!Assumption
<1>2. Memory!BlockSizes \subseteq MinBlockSize..MaxBlockSize
  BY DEF Memory!BlockSizes
<1>3. Memory!BlockSizes \subseteq Nat
  BY <1>1, <1>2
<1>4. QED
  BY <1>1, <1>3, PartsAssumption DEF Memory!Assumption

\* A set of naturals has a smallest element.
LEMMA SmallestOf ==
  ASSUME NEW T \in SUBSET Nat, T # {}
  PROVE  Memory!Min(T) \in T /\ \A x \in T : Memory!Min(T) <= x
<1>1. PICK x \in T : \A y \in T : x <= y
  BY HasSmallest
<1>2. QED
  BY <1>1 DEF Memory!Min

\* find_pool() finds a pool whose blocks are large enough.
LEMMA PoolIsFound ==
  ASSUME NEW size \in Requests
  PROVE  Memory!FindPool(size) \in Memory!BlockSizes /\ size <= Memory!FindPool(size)
<1> DEFINE T == {s \in Memory!BlockSizes : s >= size}
<1>1. T \in SUBSET Nat /\ MaxBlockSize \in T
  <2>1. MaxBlockSize \in Nat /\ size \in 0..MaxBlockSize
    BY MemoryConstants
  <2>2. MaxBlockSize >= size
    BY <2>1
  <2>3. QED
    BY <2>2, MemoryConstants
<1>2. Memory!Min(T) \in T
  BY <1>1, SmallestOf
<1>3. Memory!Min(T) >= size /\ Memory!Min(T) \in Nat /\ size \in Nat
  BY <1>1, <1>2, MemoryConstants
<1>4. QED
  BY <1>2, <1>3 DEF Memory!FindPool

\* What becomes of the list of a pool that an action does not touch.
LEMMA ListStays ==
  ASSUME NEW r \in Memory!BlockSizes, Memory!ListIsFree(r),
         freeList'[r] = freeList[r], free'[r] = free[r], chunks'[r] = chunks[r],
         \A b \in Range(free[r]) : word'[b] = word[b],
         \A b \in Memory!Made(r, chunks[r]) : b \in DOMAIN used' <=> b \in DOMAIN used
  PROVE  Memory!ListIsFree(r)'
<1>1. /\ freeList'[r] = Memory!Pointer(free'[r], 1)
      /\ IsInjective(free'[r])
  BY MemoryLibrary DEF Memory!ListIsFree, Memory!Pointer
<1>2. \A i \in DOMAIN free'[r] : word'[free'[r][i]] = Memory!Pointer(free'[r], i + 1)
  BY DEF Memory!ListIsFree, Memory!Pointer, Range
<1>3. Range(free'[r]) = Memory!Made(r, chunks'[r]) \ DOMAIN used'
  BY MemoryLibrary DEF Memory!ListIsFree
<1>4. QED
  BY <1>1, <1>2, <1>3, MemoryLibrary DEF Memory!ListIsFree, Memory!Pointer

\* Handing out the first block of a list leaves the list of the others.
LEMMA ListLosesFirst ==
  ASSUME NEW s \in Memory!BlockSizes, NEW list \in Seq(Memory!Blocks), list # <<>>,
         IsInjective(list),
         \A i \in DOMAIN list : word'[list[i]] = Memory!Pointer(list, i + 1),
         Range(list) = Memory!Made(s, chunks'[s]) \ DOMAIN used,
         freeList'[s] = word'[Head(list)], free'[s] = Tail(list),
         DOMAIN used' = DOMAIN used \cup {Head(list)}
  PROVE  Memory!ListIsFree(s)'
<1>1. /\ IsInjective(Tail(list)) /\ Range(Tail(list)) = Range(list) \ {Head(list)}
      /\ Len(list) \in Nat \ {0} /\ DOMAIN list = 1..Len(list) /\ Head(list) = list[1]
      /\ DOMAIN Tail(list) = 1..(Len(list) - 1)
      /\ \A i \in 1..(Len(list) - 1) : Tail(list)[i] = list[i + 1]
  BY TailOfInjective, HeadTailProperties, LenProperties, EmptySeq
<1>2. \A i \in Nat : i >= 1 =>
        Memory!Pointer(Tail(list), i) = Memory!Pointer(list, i + 1)
  BY <1>1 DEF Memory!Pointer
<1>3. freeList'[s] = Memory!Pointer(free'[s], 1)
  BY <1>1, <1>2
<1>4. ASSUME NEW i \in DOMAIN free'[s]
      PROVE  word'[free'[s][i]] = Memory!Pointer(free'[s], i + 1)
  <2>1. i \in 1..(Len(list) - 1) /\ i + 1 \in DOMAIN list /\ i + 1 \in Nat /\ i + 1 >= 1
        /\ free'[s][i] = list[i + 1]
    BY <1>1, <1>4
  <2>2. word'[list[i + 1]] = Memory!Pointer(list, (i + 1) + 1)
    BY <2>1
  <2>3. QED
    BY <1>2, <2>1, <2>2
<1>5. IsInjective(free'[s]) /\ Range(free'[s]) = Memory!Made(s, chunks'[s]) \ DOMAIN used'
  BY <1>1
<1>6. QED
  BY <1>3, <1>4, <1>5, MemoryLibrary DEF Memory!ListIsFree, Memory!Pointer

\* A block that comes back is the first of the list.
LEMMA ListGainsFirst ==
  ASSUME NEW s \in Memory!BlockSizes, free[s] \in Seq(Memory!Blocks), Memory!ListIsFree(s),
         NEW b \in Memory!Blocks, b \in Memory!Made(s, chunks[s]), b \in DOMAIN used,
         freeList'[s] = b, free'[s] = <<b>> \o free[s], chunks'[s] = chunks[s],
         word'[b] = freeList[s], \A c \in Range(free[s]) : word'[c] = word[c],
         DOMAIN used' = DOMAIN used \ {b}
  PROVE  Memory!ListIsFree(s)'
<1> DEFINE list == free[s]
           longer == <<b>> \o list
<1>1. /\ IsInjective(list) /\ Range(list) = Memory!Made(s, chunks[s]) \ DOMAIN used
      /\ freeList[s] = Memory!Pointer(list, 1)
      /\ \A i \in DOMAIN list : word[list[i]] = Memory!Pointer(list, i + 1)
  BY MemoryLibrary DEF Memory!ListIsFree
<1>2. /\ longer \in Seq(Memory!Blocks) /\ Len(longer) = Len(list) + 1
      /\ \A i \in 1..(Len(list) + 1) : longer[i] = IF i <= 1 THEN b ELSE list[i - 1]
  BY ConcatProperties, <<b>> \in Seq(Memory!Blocks), Len(<<b>>) = 1, <<b>>[1] = b
<1>3. /\ Len(list) \in Nat /\ DOMAIN list = 1..Len(list)
      /\ DOMAIN longer = 1..(Len(list) + 1)
  BY <1>2, LenProperties
<1> HIDE DEF list, longer
<1>4. b \notin Range(list)
  BY <1>1
<1>5. IsInjective(longer)
  <2> SUFFICES ASSUME NEW i \in DOMAIN longer, NEW j \in DOMAIN longer,
                      longer[i] = longer[j]
               PROVE  i = j
    BY DEF IsInjective
  <2>1. \A k \in DOMAIN list : list[k] # b
    BY <1>4 DEF Range
  <2>2. \A k, l \in DOMAIN list : list[k] = list[l] => k = l
    BY <1>1 DEF IsInjective
  <2>3. CASE i = 1 \/ j = 1
    <3>1. longer[1] = b
      BY <1>2, <1>3
    <3>2. \A k \in DOMAIN longer : k # 1 => k - 1 \in DOMAIN list /\ longer[k] = list[k - 1]
      BY <1>2, <1>3
    <3>3. \A k \in DOMAIN longer : k # 1 => longer[k] # b
      BY <2>1, <3>2
    <3>4. QED
      BY <2>3, <3>1, <3>3
  <2>4. CASE i # 1 /\ j # 1
    <3>1. /\ i - 1 \in DOMAIN list /\ j - 1 \in DOMAIN list
          /\ longer[i] = list[i - 1] /\ longer[j] = list[j - 1]
      BY <1>2, <1>3, <2>4
    <3>2. i - 1 = j - 1
      BY <2>2, <3>1
    <3>3. QED
      BY <1>3, <3>2
  <2>5. QED
    BY <2>3, <2>4
<1>6. Range(longer) = Range(list) \cup {b}
  <2>1. \A i \in DOMAIN longer : longer[i] = b \/ \E k \in DOMAIN list : longer[i] = list[k]
    BY <1>2, <1>3
  <2>2. longer[1] = b /\ 1 \in DOMAIN longer
    BY <1>2, <1>3
  <2>3. \A k \in DOMAIN list : k + 1 \in DOMAIN longer /\ longer[k + 1] = list[k]
    BY <1>2, <1>3
  <2>4. QED
    BY <2>1, <2>2, <2>3 DEF Range
<1>7. free'[s] = longer
  BY DEF longer, list
<1>8. \A i \in Nat : i >= 1 => Memory!Pointer(longer, i + 1) = Memory!Pointer(list, i)
  BY <1>2, <1>3 DEF Memory!Pointer
<1>9. freeList'[s] = Memory!Pointer(free'[s], 1)
  BY <1>2, <1>3, <1>7 DEF Memory!Pointer
<1>10. ASSUME NEW i \in DOMAIN longer
       PROVE  word'[longer[i]] = Memory!Pointer(longer, i + 1)
  <2>1. CASE i = 1
    <3>1. longer[1] = b /\ Memory!Pointer(longer, 1 + 1) = Memory!Pointer(list, 1)
      BY <1>2, <1>3, <1>8
    <3>2. QED
      BY <1>1, <2>1, <3>1
  <2>2. CASE i # 1
    <3>1. /\ i - 1 \in DOMAIN list /\ longer[i] = list[i - 1] /\ i \in Nat /\ i >= 1
          /\ (i - 1) + 1 = i
      BY <1>2, <1>3, <2>2
    <3>2. word'[list[i - 1]] = word[list[i - 1]]
      BY <3>1 DEF Range, list
    <3>3. QED
      BY <1>1, <1>8, <3>1, <3>2
  <2>3. QED
    BY <2>1, <2>2
<1>11. Range(free'[s]) = Memory!Made(s, chunks'[s]) \ DOMAIN used'
  BY <1>1, <1>6, <1>7
<1>12. QED
  BY <1>5, <1>7, <1>9, <1>10, <1>11, MemoryLibrary DEF Memory!ListIsFree, Memory!Pointer

\* The list of a new chunk, as allocate_chunk() links it: all its blocks, backward.
LEMMA ChunkIsLinked ==
  ASSUME NEW s \in Memory!BlockSizes, NEW n \in 1..MaxChunks
  PROVE  LET list == Memory!Backward(s, n)
         IN  /\ list \in Seq(Memory!Blocks) /\ list # <<>> /\ IsInjective(list)
             /\ Head(list) = Memory!LastOf(s, n)
             /\ Range(list) = Memory!Made(s, n) \ Memory!Made(s, n - 1)
             /\ \A i \in DOMAIN list :
                  /\ list[i] \in Memory!Blocks /\ list[i][1] = s /\ list[i][2] = n
                  /\ Memory!Link(list[i], Null) = Memory!Pointer(list, i + 1)
<1> DEFINE list == Memory!Backward(s, n)
<1>1. BlockCount \in Nat \ {0} /\ n \in 1..MaxChunks /\ MaxChunks \in Nat \ {0}
  BY MemoryConstants
<1>2. /\ DOMAIN list = 1..BlockCount
      /\ \A i \in 1..BlockCount : list[i] = <<s, n, BlockCount + 1 - i>>
  BY DEF Memory!Backward
<1>3. \A i \in 1..BlockCount : BlockCount + 1 - i \in 1..BlockCount
  BY <1>1
<1>4. list = [i \in 1..BlockCount |-> list[i]]
  BY DEF Memory!Backward
<1> HIDE DEF list
<1>5. \A i \in 1..BlockCount : list[i] \in Memory!Blocks
  <2> TAKE i \in 1..BlockCount
  <2>1. \A j \in 1..BlockCount : <<s, n, j>> \in Memory!Blocks
    BY DEF Memory!Blocks
  <2>2. QED
    BY <1>2, <1>3, <2>1
<1>6. list \in [1..BlockCount -> Memory!Blocks]
  BY <1>4, <1>5
<1>7. list \in Seq(Memory!Blocks) /\ Len(list) = BlockCount
  BY <1>1, <1>6
<1>8. list # <<>> /\ Head(list) = list[1]
  BY <1>1, <1>7, EmptySeq
<1>9. list[1] = Memory!LastOf(s, n)
  BY <1>1, <1>2 DEF Memory!LastOf
<1>10. IsInjective(list)
  <2> SUFFICES ASSUME NEW i \in 1..BlockCount, NEW j \in 1..BlockCount, list[i] = list[j]
               PROVE  i = j
    BY <1>2 DEF IsInjective
  <2>1. BlockCount + 1 - i = BlockCount + 1 - j
    BY <1>2
  <2>2. QED
    BY <1>1, <2>1
<1>11. Range(list) = Memory!Made(s, n) \ Memory!Made(s, n - 1)
  <2>1. ASSUME NEW i \in 1..BlockCount
        PROVE  list[i] \in Memory!Made(s, n) \ Memory!Made(s, n - 1)
    <3>1. n \in 1..n /\ n \notin 1..(n - 1)
      BY <1>1
    <3>2. \A j \in 1..BlockCount :
            <<s, n, j>> \in Memory!Made(s, n) \ Memory!Made(s, n - 1)
      BY <3>1 DEF Memory!Made
    <3>3. QED
      BY <1>2, <1>3, <3>2
  <2>2. ASSUME NEW b \in Memory!Made(s, n) \ Memory!Made(s, n - 1)
        PROVE  \E i \in 1..BlockCount : list[i] = b
    <3>1. b[1] = s /\ b[2] \in 1..n /\ b[3] \in 1..BlockCount /\ b = <<b[1], b[2], b[3]>>
      BY DEF Memory!Made
    <3>2. b[2] \notin 1..(n - 1)
      BY <3>1 DEF Memory!Made
    <3>3. b[2] = n
      BY <1>1, <3>1, <3>2
    <3>4. BlockCount + 1 - b[3] \in 1..BlockCount
          /\ BlockCount + 1 - (BlockCount + 1 - b[3]) = b[3]
      BY <1>1, <3>1
    <3>5. QED
      BY <1>2, <3>1, <3>3, <3>4
  <2>3. QED
    BY <1>2, <2>1, <2>2 DEF Range
<1>12. ASSUME NEW i \in DOMAIN list
       PROVE  /\ list[i] \in Memory!Blocks /\ list[i][1] = s /\ list[i][2] = n
              /\ Memory!Link(list[i], Null) = Memory!Pointer(list, i + 1)
  <2>1. i \in 1..BlockCount /\ list[i] = <<s, n, BlockCount + 1 - i>>
    BY <1>2
  <2>2. CASE i = BlockCount
    <3>1. BlockCount + 1 - i = 1 /\ i + 1 \notin 1..BlockCount
      BY <1>1, <2>2
    <3>2. QED
      BY <1>2, <1>5, <2>1, <3>1 DEF Memory!Link, Memory!Pointer
  <2>3. CASE i # BlockCount
    <3>1. /\ BlockCount + 1 - i # 1 /\ i + 1 \in 1..BlockCount
          /\ BlockCount + 1 - (i + 1) = (BlockCount + 1 - i) - 1
      BY <1>1, <2>1, <2>3
    <3>2. list[i + 1] = <<s, n, (BlockCount + 1 - i) - 1>>
      BY <1>2, <3>1
    <3>3. QED
      BY <1>2, <1>5, <2>1, <3>1, <3>2 DEF Memory!Link, Memory!Pointer
  <2>4. QED
    BY <2>2, <2>3
<1>13. QED
  BY <1>7, <1>8, <1>9, <1>10, <1>11, <1>12 DEF list

\* The blocks of some chunks are blocks, and those of a new chunk are new.
LEMMA MadeGrows ==
  ASSUME NEW s \in Memory!BlockSizes, NEW n \in 0..MaxChunks
  PROVE  /\ Memory!Made(s, n) \subseteq Memory!Blocks
         /\ \A m \in 0..n : Memory!Made(s, m) \subseteq Memory!Made(s, n)
         /\ \A b \in Memory!Made(s, n) : b[1] = s
BY MemoryConstants DEF Memory!Made, Memory!Blocks

\* The operators of a state that says what is in use.
LEMMA UsedBlocks ==
  ASSUME Memory!TypeOK, NEW b \in DOMAIN used
  PROVE  /\ used[b] \in Requests /\ b[1] = Memory!FindPool(used[b])
         /\ b[1] \in Memory!BlockSizes /\ b \in Memory!Made(b[1], chunks[b[1]])
         /\ b \in Memory!Blocks /\ chunks[b[1]] \in 1..MaxChunks
<1>1. /\ used[b] \in Requests /\ b[1] = Memory!FindPool(used[b])
      /\ b[1] \in Memory!BlockSizes /\ b \in Memory!Made(b[1], chunks[b[1]])
      /\ chunks[b[1]] \in 1..MaxChunks
  BY DEF Memory!TypeOK
<1>2. chunks[b[1]] \in 0..MaxChunks
  BY <1>1, MemoryConstants
<1>3. QED
  BY <1>1, <1>2, MadeGrows

\* A block is handed out: the first of a list of its pool's, all of which is free.
LEMMA HandOutStep ==
  ASSUME Memory!BlockInv, NEW size \in Requests, NEW s, s = Memory!FindPool(size),
         NEW list \in Seq(Memory!Blocks), list # <<>>, IsInjective(list),
         word' \in [Memory!Blocks -> Memory!Blocks \cup {Null, Junk}],
         chunks' \in [Memory!BlockSizes -> 1..MaxChunks],
         \A r \in Memory!BlockSizes \ {s} : chunks'[r] = chunks[r],
         \A b \in Memory!Blocks : b[1] # s => word'[b] = word[b],
         \A i \in DOMAIN list : word'[list[i]] = Memory!Pointer(list, i + 1),
         Range(list) = Memory!Made(s, chunks'[s]) \ DOMAIN used,
         chunks[s] <= chunks'[s],
         Memory!HandOut(Head(list), list, size)
  PROVE  Memory!BlockInv'
<1> DEFINE p == Head(list)
<1>1. Memory!TypeOK /\ Memory!BlocksAreSound
  BY DEF Memory!BlockInv
<1>2. s \in Memory!BlockSizes /\ size <= s
  BY PoolIsFound
<1>3. chunks'[s] \in 1..MaxChunks /\ chunks'[s] \in 0..MaxChunks
  BY <1>2, MemoryConstants
<1>4. /\ p \in Memory!Made(s, chunks'[s]) /\ p \notin DOMAIN used /\ p \in Memory!Blocks
      /\ p[1] = s /\ Tail(list) \in Seq(Memory!Blocks)
  <2>1. p \in Range(list) /\ Tail(list) \in Seq(Memory!Blocks)
    BY TailOfInjective
  <2>2. QED
    BY <1>2, <1>3, <2>1, MadeGrows
<1> HIDE DEF p
<1>5. /\ freeList' = [freeList EXCEPT ![s] = word'[p]]
      /\ used' = [b \in DOMAIN used \cup {p} |-> IF b = p THEN size ELSE used[b]]
      /\ free' = [free EXCEPT ![s] = Tail(list)]
  BY <1>4 DEF Memory!HandOut, p
<1>6. word'[p] \in Memory!Blocks \cup {Null}
  <2>1. p = list[1] /\ 1 \in DOMAIN list /\ \A i \in DOMAIN list : list[i] \in Memory!Blocks
    BY HeadTailProperties, LenProperties, EmptySeq DEF p
  <2>2. QED
    BY <2>1 DEF Memory!Pointer
<1>7. Memory!TypeOK'
  <2>1. freeList' \in [Memory!BlockSizes -> Memory!Blocks \cup {Null}]
    BY <1>1, <1>2, <1>5, <1>6 DEF Memory!TypeOK
  <2>2. free' \in [Memory!BlockSizes -> Seq(Memory!Blocks)]
    BY <1>1, <1>2, <1>4, <1>5 DEF Memory!TypeOK
  <2>3. \A b \in DOMAIN used : used'[b] = used[b]
    BY <1>4, <1>5
  <2>4. DOMAIN used' = DOMAIN used \cup {p} /\ used'[p] = size
    BY <1>5
  <2>5. used' \in [DOMAIN used' -> Requests]
    BY <1>5, <2>3, <2>4, <1>1, UsedBlocks
  <2>6. ASSUME NEW b \in DOMAIN used
        PROVE  b[1] = Memory!FindPool(used'[b]) /\ b[1] \in Memory!BlockSizes
               /\ b \in Memory!Made(b[1], chunks'[b[1]])
    <3>1. /\ b[1] = Memory!FindPool(used[b]) /\ b[1] \in Memory!BlockSizes
          /\ b \in Memory!Made(b[1], chunks[b[1]]) /\ chunks[b[1]] \in 1..MaxChunks
      BY <1>1, UsedBlocks
    <3>2. CASE b[1] = s
      <4>1. chunks[s] \in 0..chunks'[s]
        BY <1>3, <3>1, <3>2, MemoryConstants
      <4>2. Memory!Made(s, chunks[s]) \subseteq Memory!Made(s, chunks'[s])
        BY <1>2, <1>3, <4>1, MadeGrows
      <4>3. QED
        BY <2>3, <3>1, <3>2, <4>2
    <3>3. CASE b[1] # s
      BY <2>3, <3>1, <3>3
    <3>4. QED
      BY <3>2, <3>3
  <2>7. p[1] = Memory!FindPool(used'[p]) /\ p[1] \in Memory!BlockSizes
        /\ p \in Memory!Made(p[1], chunks'[p[1]])
    BY <1>2, <1>4, <2>4
  <2>8. \A b \in DOMAIN used' :
          b[1] = Memory!FindPool(used'[b]) /\ b[1] \in Memory!BlockSizes
          /\ b \in Memory!Made(b[1], chunks'[b[1]])
    BY <2>4, <2>6, <2>7
  <2>9. QED
    BY <2>1, <2>2, <2>5, <2>8
    DEF Memory!TypeOK, Memory!FindPool, Memory!BlockSizes, Memory!Blocks, Memory!Made
<1>8. Memory!ListIsFree(s)'
  <2>1. freeList'[s] = word'[Head(list)] /\ free'[s] = Tail(list)
        /\ DOMAIN used' = DOMAIN used \cup {Head(list)}
    BY <1>1, <1>2, <1>5 DEF Memory!TypeOK, p
  <2>2. QED
    BY <1>2, <2>1, ListLosesFirst
<1>9. ASSUME NEW r \in Memory!BlockSizes, r # s
      PROVE  Memory!ListIsFree(r)'
  <2>1. /\ Memory!ListIsFree(r) /\ chunks[r] \in 0..MaxChunks
        /\ chunks'[r] = chunks[r] /\ freeList'[r] = freeList[r] /\ free'[r] = free[r]
    BY <1>1, <1>5, <1>9, MemoryConstants DEF Memory!TypeOK, Memory!BlocksAreSound
  <2>2. /\ \A b \in Memory!Made(r, chunks[r]) : b[1] = r /\ b \in Memory!Blocks
        /\ Range(free[r]) \subseteq Memory!Made(r, chunks[r])
    BY <2>1, MadeGrows, MemoryLibrary DEF Memory!ListIsFree
  <2>3. \A b \in Memory!Made(r, chunks[r]) : b \in DOMAIN used' <=> b \in DOMAIN used
    BY <1>4, <1>5, <1>9, <2>2
  <2>4. \A b \in Range(free[r]) : word'[b] = word[b]
    BY <1>9, <2>2
  <2>5. QED
    BY <2>1, <2>3, <2>4, ListStays
<1>10. \A b \in DOMAIN used' : used'[b] <= b[1]
  BY <1>1, <1>2, <1>4, <1>5 DEF Memory!BlocksAreSound
<1>11. Memory!BlocksAreSound'
  BY <1>8, <1>9, <1>10 DEF Memory!BlocksAreSound, Memory!BlockSizes
<1>12. QED
  BY <1>7, <1>11 DEF Memory!BlockInv

\* allocate() takes the first block of a list, or of a chunk that it links first.
LEMMA AllocateStep ==
  ASSUME Memory!BlockInv, NEW size \in Requests, Memory!Allocate(size)
  PROVE  Memory!BlockInv'
<1> DEFINE s == Memory!FindPool(size)
           n == chunks[s] + 1
<1>1. Memory!TypeOK /\ Memory!BlocksAreSound
  BY DEF Memory!BlockInv
<1>2. /\ s \in Memory!BlockSizes /\ chunks[s] \in 1..MaxChunks
      /\ free[s] \in Seq(Memory!Blocks)
  BY <1>1, PoolIsFound DEF Memory!TypeOK
<1>3. /\ freeList[s] = Memory!Pointer(free[s], 1) /\ IsInjective(free[s])
      /\ \A i \in DOMAIN free[s] : word[free[s][i]] = Memory!Pointer(free[s], i + 1)
      /\ Range(free[s]) = Memory!Made(s, chunks[s]) \ DOMAIN used
  BY <1>1, <1>2, MemoryLibrary DEF Memory!BlocksAreSound, Memory!ListIsFree
<1>4. free[s] # <<>> => freeList[s] = Head(free[s])
  BY <1>2, <1>3, LenProperties, EmptySeq, HeadTailProperties DEF Memory!Pointer
<1>5. free[s] # <<>> <=> freeList[s] # Null
  BY <1>2, <1>3, <1>4, HeadTailProperties, MemoryConstants DEF Memory!Pointer
<1>6. CASE /\ freeList[s] # Null
           /\ UNCHANGED <<word, chunks>>
           /\ Memory!HandOut(freeList[s], free[s], size)
  <2>1. Memory!HandOut(Head(free[s]), free[s], size) /\ free[s] # <<>>
    BY <1>4, <1>5, <1>6
  <2>2. /\ word' \in [Memory!Blocks -> Memory!Blocks \cup {Null, Junk}]
        /\ chunks' \in [Memory!BlockSizes -> 1..MaxChunks]
        /\ \A i \in DOMAIN free[s] : word'[free[s][i]] = Memory!Pointer(free[s], i + 1)
        /\ Range(free[s]) = Memory!Made(s, chunks'[s]) \ DOMAIN used
        /\ chunks[s] <= chunks'[s]
    BY <1>1, <1>2, <1>3, <1>6, MemoryConstants DEF Memory!TypeOK
  <2> HIDE DEF s
  <2>3. QED
    BY <1>2, <1>3, <1>6, <2>1, <2>2, HandOutStep DEF s
<1>7. CASE /\ freeList[s] = Null /\ n <= MaxChunks
           /\ word' = [b \in Memory!Blocks |->
                         IF b[1] = s /\ b[2] = n THEN Memory!Link(b, Null) ELSE word[b]]
           /\ chunks' = [chunks EXCEPT ![s] = n]
           /\ Memory!HandOut(Memory!LastOf(s, n), Memory!Backward(s, n), size)
  <2> DEFINE list == Memory!Backward(s, n)
  <2>1. n \in 1..MaxChunks /\ n \in 0..MaxChunks /\ n - 1 = chunks[s] /\ n - 1 \in 0..n
    BY <1>2, <1>7, MemoryConstants
  <2>2. /\ list \in Seq(Memory!Blocks) /\ list # <<>> /\ IsInjective(list)
        /\ Head(list) = Memory!LastOf(s, n)
        /\ Range(list) = Memory!Made(s, n) \ Memory!Made(s, n - 1)
        /\ \A i \in DOMAIN list :
             /\ list[i] \in Memory!Blocks /\ list[i][1] = s /\ list[i][2] = n
             /\ Memory!Link(list[i], Null) = Memory!Pointer(list, i + 1)
    BY <1>2, <2>1, ChunkIsLinked
  <2> HIDE DEF list, n
  <2>3. /\ chunks' \in [Memory!BlockSizes -> 1..MaxChunks] /\ chunks'[s] = n
        /\ \A r \in Memory!BlockSizes \ {s} : chunks'[r] = chunks[r]
    BY <1>1, <1>2, <1>7, <2>1 DEF Memory!TypeOK
  <2>4. \A i \in DOMAIN list : word'[list[i]] = Memory!Pointer(list, i + 1)
    BY <1>7, <2>2
  <2>5. ASSUME NEW b \in Memory!Blocks
        PROVE  /\ b[1] # s => word'[b] = word[b]
               /\ word'[b] \in Memory!Blocks \cup {Null, Junk}
    <3>1. CASE b[1] = s /\ b[2] = n
      <4>1. b \in Memory!Made(s, n) /\ b \notin Memory!Made(s, n - 1)
        BY <2>1, <2>5, <3>1 DEF Memory!Blocks, Memory!Made
      <4>2. PICK i \in DOMAIN list : list[i] = b
        BY <2>2, <4>1 DEF Range
      <4>3. QED
        BY <2>2, <2>4, <3>1, <4>2 DEF Memory!Pointer
    <3>2. CASE ~(b[1] = s /\ b[2] = n)
      BY <1>1, <1>7, <3>2 DEF Memory!TypeOK
    <3>3. QED
      BY <3>1, <3>2
  <2>6. word' \in [Memory!Blocks -> Memory!Blocks \cup {Null, Junk}]
    BY <1>7, <2>5
  <2>7. Range(list) = Memory!Made(s, chunks'[s]) \ DOMAIN used
    <3>1. Range(free[s]) = {}
      BY <1>5, <1>7 DEF Range
    <3>2. Memory!Made(s, n - 1) \subseteq DOMAIN used
      BY <1>3, <2>1, <3>1
    <3>3. \A b \in DOMAIN used : b \in Memory!Made(s, n) => b \in Memory!Made(s, n - 1)
      BY <1>1, <1>2, <2>1, UsedBlocks, MadeGrows
    <3>4. QED
      BY <2>2, <2>3, <3>2, <3>3
  <2>8. chunks[s] <= chunks'[s] /\ Memory!HandOut(Head(list), list, size)
    BY <1>2, <1>7, <2>1, <2>2, <2>3 DEF list
  <2> HIDE DEF s
  <2>9. QED
    BY <1>2, <2>2, <2>3, <2>4, <2>5, <2>6, <2>7, <2>8, HandOutStep DEF s
<1>8. QED
  BY <1>6, <1>7 DEF Memory!Allocate

\* A user may write anything into its own block, which is in no list.
LEMMA UserWritesStep ==
  ASSUME Memory!BlockInv, NEW b \in DOMAIN used, Memory!UserWrites(b)
  PROVE  Memory!BlockInv'
<1>1. Memory!TypeOK /\ Memory!BlocksAreSound
  BY DEF Memory!BlockInv
<1>2. word' = [word EXCEPT ![b] = Junk] /\ UNCHANGED <<freeList, chunks, used, free>>
  BY DEF Memory!UserWrites
<1>3. \A c \in Memory!Blocks \ {b} : word'[c] = word[c]
  BY <1>1, <1>2 DEF Memory!TypeOK
<1>4. word' \in [Memory!Blocks -> Memory!Blocks \cup {Null, Junk}]
  BY <1>1, <1>2 DEF Memory!TypeOK
<1>5. Memory!TypeOK'
  <2>1. \A c \in DOMAIN used' :
          c[1] = Memory!FindPool(used'[c]) /\ c[1] \in Memory!BlockSizes
          /\ c \in Memory!Made(c[1], chunks'[c[1]])
    BY <1>1, <1>2, UsedBlocks
  <2>2. /\ freeList' \in [Memory!BlockSizes -> Memory!Blocks \cup {Null}]
        /\ chunks' \in [Memory!BlockSizes -> 1..MaxChunks]
        /\ used' \in [DOMAIN used' -> Requests]
        /\ free' \in [Memory!BlockSizes -> Seq(Memory!Blocks)]
    BY <1>1, <1>2 DEF Memory!TypeOK
  <2>3. QED
    BY <1>4, <2>1, <2>2
    DEF Memory!TypeOK, Memory!FindPool, Memory!BlockSizes, Memory!Blocks, Memory!Made
<1>6. ASSUME NEW r \in Memory!BlockSizes
      PROVE  Memory!ListIsFree(r)'
  <2>1. Memory!ListIsFree(r) /\ chunks[r] \in 0..MaxChunks
    BY <1>1, MemoryConstants DEF Memory!TypeOK, Memory!BlocksAreSound
  <2>2. Range(free[r]) \subseteq Memory!Blocks \ {b}
    BY <2>1, MadeGrows, MemoryLibrary DEF Memory!ListIsFree
  <2>3. QED
    BY <1>2, <1>3, <2>1, <2>2, ListStays
<1>7. Memory!BlocksAreSound'
  BY <1>1, <1>2, <1>6 DEF Memory!BlocksAreSound, Memory!BlockSizes
<1>8. QED
  BY <1>5, <1>7 DEF Memory!BlockInv

\* deallocate() puts the block first in the list it came from.
LEMMA DeallocateStep ==
  ASSUME Memory!BlockInv, NEW b \in DOMAIN used, Memory!Deallocate(b)
  PROVE  Memory!BlockInv'
<1> DEFINE s == b[1]
<1>1. Memory!TypeOK /\ Memory!BlocksAreSound
  BY DEF Memory!BlockInv
<1>2. /\ s = Memory!FindPool(used[b]) /\ s \in Memory!BlockSizes
      /\ b \in Memory!Made(s, chunks[s]) /\ b \in Memory!Blocks
  BY <1>1, UsedBlocks
<1> HIDE DEF s
<1>3. /\ word' = [word EXCEPT ![b] = freeList[s]]
      /\ freeList' = [freeList EXCEPT ![s] = b]
      /\ used' = [c \in DOMAIN used \ {b} |-> used[c]]
      /\ free' = [free EXCEPT ![s] = <<b>> \o free[s]]
      /\ UNCHANGED chunks
  BY <1>1, <1>2 DEF Memory!Deallocate, Memory!TypeOK
<1>4. /\ word' \in [Memory!Blocks -> Memory!Blocks \cup {Null, Junk}]
      /\ freeList' \in [Memory!BlockSizes -> Memory!Blocks \cup {Null}]
      /\ word'[b] = freeList[s] /\ freeList'[s] = b
      /\ \A c \in Memory!Blocks \ {b} : word'[c] = word[c]
      /\ \A r \in Memory!BlockSizes \ {s} : freeList'[r] = freeList[r]
  BY <1>1, <1>2, <1>3 DEF Memory!TypeOK
<1>5. /\ free' \in [Memory!BlockSizes -> Seq(Memory!Blocks)]
      /\ free'[s] = <<b>> \o free[s] /\ free[s] \in Seq(Memory!Blocks)
      /\ \A r \in Memory!BlockSizes \ {s} : free'[r] = free[r]
  <2>1. free[s] \in Seq(Memory!Blocks) /\ <<b>> \in Seq(Memory!Blocks)
    BY <1>1, <1>2 DEF Memory!TypeOK
  <2>2. <<b>> \o free[s] \in Seq(Memory!Blocks)
    BY <2>1, ConcatProperties
  <2>3. QED
    BY <1>1, <1>2, <1>3, <2>1, <2>2 DEF Memory!TypeOK
<1>6. DOMAIN used' = DOMAIN used \ {b} /\ \A c \in DOMAIN used' : used'[c] = used[c]
  BY <1>3
<1>7. Memory!TypeOK'
  <2>1. used' \in [DOMAIN used' -> Requests]
    BY <1>1, <1>3, <1>6, UsedBlocks
  <2>2. \A c \in DOMAIN used' :
          c[1] = Memory!FindPool(used'[c]) /\ c[1] \in Memory!BlockSizes
          /\ c \in Memory!Made(c[1], chunks'[c[1]])
    BY <1>1, <1>3, <1>6, UsedBlocks
  <2>3. QED
    BY <1>1, <1>3, <1>4, <1>5, <2>1, <2>2
    DEF Memory!TypeOK, Memory!FindPool, Memory!BlockSizes, Memory!Blocks, Memory!Made
<1>8. ASSUME NEW r \in Memory!BlockSizes
      PROVE  Memory!ListIsFree(r)'
  <2>1. /\ Memory!ListIsFree(r) /\ chunks[r] \in 0..MaxChunks
        /\ Memory!Made(r, chunks[r]) \subseteq Memory!Blocks
        /\ \A c \in Memory!Made(r, chunks[r]) : c[1] = r
    BY <1>1, MadeGrows, MemoryConstants DEF Memory!TypeOK, Memory!BlocksAreSound
  <2>2. \A c \in Range(free[r]) : c \in Memory!Made(r, chunks[r]) /\ word'[c] = word[c]
    <3>1. Range(free[r]) = Memory!Made(r, chunks[r]) \ DOMAIN used
      BY <2>1, MemoryLibrary DEF Memory!ListIsFree
    <3>2. QED
      BY <1>4, <2>1, <3>1
  <2>3. CASE r = s
    BY <1>2, <1>3, <1>4, <1>5, <1>6, <2>1, <2>2, <2>3, ListGainsFirst
  <2>4. CASE r # s
    <3>1. \A c \in Memory!Made(r, chunks[r]) : c # b
      BY <2>1, <2>4 DEF s
    <3>2. /\ freeList'[r] = freeList[r] /\ free'[r] = free[r] /\ chunks'[r] = chunks[r]
          /\ \A c \in Range(free[r]) : word'[c] = word[c]
          /\ \A c \in Memory!Made(r, chunks[r]) : c \in DOMAIN used' <=> c \in DOMAIN used
      BY <1>3, <1>4, <1>5, <1>6, <2>2, <2>4, <3>1
    <3>3. QED
      BY <2>1, <3>2, ListStays
  <2>5. QED
    BY <2>3, <2>4
<1>9. Memory!BlocksAreSound'
  BY <1>1, <1>6, <1>8 DEF Memory!BlocksAreSound, Memory!BlockSizes
<1>10. QED
  BY <1>7, <1>9 DEF Memory!BlockInv

\* At first each pool has one chunk, all of it free.
LEMMA MemoryInit == Memory!Init => Memory!BlockInv
<1> SUFFICES ASSUME Memory!Init
             PROVE  Memory!BlockInv
  OBVIOUS
<1>1. /\ chunks = [s \in Memory!BlockSizes |-> 1]
      /\ freeList = [s \in Memory!BlockSizes |-> Memory!LastOf(s, 1)]
      /\ word = [b \in Memory!Blocks |->
                   IF b[2] = 1 THEN Memory!Link(b, Null) ELSE Junk]
      /\ used = [b \in {} |-> 0]
      /\ free = [s \in Memory!BlockSizes |-> Memory!Backward(s, 1)]
  BY DEF Memory!Init
<1>2. ASSUME NEW s \in Memory!BlockSizes
      PROVE  /\ free[s] \in Seq(Memory!Blocks) /\ freeList[s] \in Memory!Blocks
             /\ \A i \in DOMAIN free[s] :
                  free[s][i] \in Memory!Blocks
                  /\ word[free[s][i]] = Memory!Pointer(free[s], i + 1)
             /\ Range(free[s]) = Memory!Made(s, 1)
             /\ Memory!ListIsFree(s)
  <2>1. 1 \in 1..MaxChunks /\ Memory!Made(s, 1 - 1) = {}
    BY MemoryConstants DEF Memory!Made
  <2>2. /\ free[s] \in Seq(Memory!Blocks) /\ free[s] # <<>> /\ IsInjective(free[s])
        /\ Head(free[s]) = Memory!LastOf(s, 1)
        /\ Range(free[s]) = Memory!Made(s, 1)
        /\ \A i \in DOMAIN free[s] :
             /\ free[s][i] \in Memory!Blocks /\ free[s][i][1] = s /\ free[s][i][2] = 1
             /\ Memory!Link(free[s][i], Null) = Memory!Pointer(free[s], i + 1)
    <3>1. free[s] = Memory!Backward(s, 1)
      BY <1>1
    <3>2. LET list == Memory!Backward(s, 1)
          IN  /\ list \in Seq(Memory!Blocks) /\ list # <<>> /\ IsInjective(list)
              /\ Head(list) = Memory!LastOf(s, 1)
              /\ Range(list) = Memory!Made(s, 1) \ Memory!Made(s, 1 - 1)
              /\ \A i \in DOMAIN list :
                   /\ list[i] \in Memory!Blocks /\ list[i][1] = s /\ list[i][2] = 1
                   /\ Memory!Link(list[i], Null) = Memory!Pointer(list, i + 1)
      BY <2>1, ChunkIsLinked
    <3>3. QED
      BY <2>1, <3>1, <3>2
  <2>3. \A i \in DOMAIN free[s] : word[free[s][i]] = Memory!Pointer(free[s], i + 1)
    BY <1>1, <2>2
  <2>4. freeList[s] = Memory!Pointer(free[s], 1) /\ freeList[s] \in Memory!Blocks
    BY <1>1, <1>2, <2>2, HeadTailProperties, LenProperties, EmptySeq DEF Memory!Pointer
  <2>5. chunks[s] = 1 /\ DOMAIN used = {}
    BY <1>1, <1>2
  <2>6. QED
    BY <2>2, <2>3, <2>4, <2>5, MemoryLibrary DEF Memory!ListIsFree
<1>3. word \in [Memory!Blocks -> Memory!Blocks \cup {Null, Junk}]
  <2>1. ASSUME NEW b \in Memory!Blocks
        PROVE  word[b] \in Memory!Blocks \cup {Null, Junk}
    <3>1. CASE b[2] = 1
      <4>1. b[1] \in Memory!BlockSizes /\ b \in Memory!Made(b[1], 1)
        BY <3>1 DEF Memory!Blocks, Memory!Made
      <4>2. PICK i \in DOMAIN free[b[1]] : free[b[1]][i] = b
        BY <1>2, <4>1 DEF Range
      <4>3. word[b] = Memory!Pointer(free[b[1]], i + 1)
        BY <1>2, <4>1, <4>2
      <4>4. QED
        BY <1>2, <4>1, <4>3 DEF Memory!Pointer
    <3>2. CASE b[2] # 1
      BY <1>1, <3>2
    <3>3. QED
      BY <3>1, <3>2
  <2>2. QED
    BY <1>1, <2>1
<1>4. Memory!TypeOK
  BY <1>1, <1>2, <1>3, MemoryConstants DEF Memory!TypeOK
<1>5. Memory!BlocksAreSound
  BY <1>1, <1>2 DEF Memory!BlocksAreSound
<1>6. QED
  BY <1>4, <1>5 DEF Memory!BlockInv

\* Every call and every write of a user keeps the lists whole.
LEMMA MemoryStep ==
  ASSUME Memory!BlockInv, [Memory!Next]_(Memory!blockVars)
  PROVE  Memory!BlockInv'
<1>1. CASE UNCHANGED Memory!blockVars
  BY <1>1
  DEF Memory!blockVars, Memory!BlockInv, Memory!TypeOK, Memory!BlocksAreSound,
      Memory!ListIsFree, Memory!Pointer, Memory!FindPool, Memory!BlockSizes,
      Memory!Blocks, Memory!Made
<1>2. QED
  BY <1>1, AllocateStep, UserWritesStep, DeallocateStep DEF Memory!Next

\* For any sizes, chunks and requests, and whatever users write into their blocks: the
\* lists of the pools hold exactly the blocks that nobody uses, and blocks are large
\* enough.
THEOREM NoBlockIsSharedOrLost == Spec => []BlocksAreSound
<1>1. Memory!Spec => []Memory!BlockInv
  BY MemoryInit, MemoryStep, PTL DEF Memory!Spec
<1>2. Memory!BlockInv => Memory!BlocksAreSound
  BY DEF Memory!BlockInv
<1>3. QED
  BY <1>1, <1>2, MemoryRuns, PTL DEF BlocksAreSound

-------------------------------------------------------------------------------
(* TimerWheel.                                                             *)

\* The part TimerWheel goes by its own specification.
LEMMA TimerRuns == Spec => Timer!Spec
<1>1. Init => Timer!Init
  BY DEF Init
<1>2. [Next]_vars => [Timer!Next]_(Timer!wheelVars)
  BY DEF Next, vars, wheelVars, Timer!wheelVars
<1>3. QED
  BY <1>1, <1>2, PTL DEF Spec, Timer!Spec

\* What TimerWheel assumes of its constants.
LEMMA TimerConstants ==
  /\ WheelSize \in Nat \ {0} /\ TickMs \in Nat \ {0} /\ Delays \subseteq Int
  /\ MaxTime \in Nat \ {0} /\ MaxTimers \in Nat
  /\ Timer!Slots = 0..(WheelSize - 1)
BY PartsAssumption DEF Timer!Assumption, Timer!Slots

\* Whatever the clock says, schedule() finds a slot.
LEMMA SlotExists ==
  ASSUME NEW expires \in Int, NEW now \in Int, currentIndex \in Timer!Slots
  PROVE  Timer!SlotOf(expires, now) \in Timer!Slots
<1> DEFINE delay == IF expires < now THEN 0 ELSE expires - now
<1>1. delay \in Nat
  OBVIOUS
<1>2. delay \div TickMs \in Int
  BY <1>1, TimerConstants
<1>3. currentIndex + delay \div TickMs \in Int
  BY <1>2, TimerConstants
<1>4. (currentIndex + delay \div TickMs) % WheelSize \in 0..(WheelSize - 1)
  BY <1>3, TimerConstants
<1>5. QED
  BY <1>4, TimerConstants DEF Timer!SlotOf

\* A timer that is added is new to the wheel and to the map.
LEMMA AddStep ==
  ASSUME Timer!WheelInv, NEW d \in Delays, Timer!AddTimer(d)
  PROVE  Timer!WheelInv'
<1> DEFINE slot == Timer!SlotOf(clock + d, clock')
<1>1. Timer!TypeOK /\ Timer!WheelHoldsTimers /\ called \cap Timer!Live = {}
  BY DEF Timer!WheelInv
<1>2. /\ nextId <= MaxTimers /\ nextId' = nextId + 1
      /\ clock' \in 0..MaxTime
      /\ timers' = [id \in Timer!Live \cup {nextId} |->
                      IF id = nextId THEN clock + d ELSE timers[id]]
      /\ wheel' = [wheel EXCEPT ![slot] = @ \cup {nextId}]
      /\ UNCHANGED <<currentIndex, called, threw>>
  BY DEF Timer!AddTimer
<1>3. clock \in Int /\ clock' \in Int /\ d \in Int /\ nextId \in Nat \ {0}
  BY <1>1, <1>2, TimerConstants DEF Timer!TypeOK
<1>4. slot \in Timer!Slots
  BY <1>1, <1>3, SlotExists DEF Timer!TypeOK
<1> HIDE DEF slot
<1>5. /\ wheel'[slot] = wheel[slot] \cup {nextId}
      /\ \A s \in Timer!Slots \ {slot} : wheel'[s] = wheel[s]
  BY <1>1, <1>2, <1>4 DEF Timer!TypeOK
<1>6. Timer!Live' = Timer!Live \cup {nextId} /\ nextId \notin Timer!Live /\ nextId \notin called
  BY <1>1, <1>2, <1>3 DEF Timer!Live, Timer!TypeOK
<1>7. \A s \in Timer!Slots : wheel[s] \subseteq 1..(nextId - 1) /\ nextId \notin wheel[s]
  BY <1>1, <1>3 DEF Timer!TypeOK
<1>8. Timer!TypeOK'
  <2>1. 1..(nextId - 1) \subseteq 1..(nextId' - 1) /\ nextId \in 1..(nextId' - 1)
    BY <1>2, <1>3
  <2>2. wheel' \in [Timer!Slots -> SUBSET (1..(nextId' - 1))]
    <3>1. wheel' = [s \in Timer!Slots |-> wheel'[s]]
      BY <1>1, <1>2 DEF Timer!TypeOK
    <3>2. \A s \in Timer!Slots : wheel'[s] \subseteq 1..(nextId' - 1)
      BY <1>5, <1>7, <2>1
    <3>3. QED
      BY <3>1, <3>2
  <2>3. timers' \in [Timer!Live' -> Int] /\ Timer!Live' \subseteq 1..(nextId' - 1)
    BY <1>1, <1>2, <1>3, <1>6, <2>1 DEF Timer!TypeOK, Timer!Live
  <2>4. called' \subseteq 1..(nextId' - 1) /\ nextId' \in 1..(MaxTimers + 1)
    BY <1>1, <1>2, <1>3, <2>1, TimerConstants DEF Timer!TypeOK
  <2>5. Timer!Slots' = Timer!Slots
    BY DEF Timer!Slots
  <2>6. QED
    BY <1>1, <1>2, <2>2, <2>3, <2>4, <2>5 DEF Timer!TypeOK
<1>9. Timer!WheelHoldsTimers'
  <2>1. \A s, t \in Timer!Slots : s # t => wheel'[s] \cap wheel'[t] = {}
    BY <1>1, <1>5, <1>7 DEF Timer!WheelHoldsTimers
  <2>2. ASSUME NEW id \in Timer!Live'
        PROVE  \E s \in Timer!Slots : id \in wheel'[s]
    <3>1. CASE id = nextId
      BY <1>4, <1>5, <3>1
    <3>2. CASE id \in Timer!Live
      <4>1. PICK s \in Timer!Slots : id \in wheel[s]
        BY <1>1, <3>2 DEF Timer!WheelHoldsTimers
      <4>2. QED
        BY <1>5, <4>1
    <3>3. QED
      BY <1>6, <3>1, <3>2
  <2>3. QED
    BY <2>1, <2>2 DEF Timer!WheelHoldsTimers
<1>10. called' \cap Timer!Live' = {}
  BY <1>1, <1>2, <1>6
<1>11. QED
  BY <1>8, <1>9, <1>10 DEF Timer!WheelInv

\* What forgetting does to the map.
LEMMA Forgotten ==
  ASSUME Timer!TypeOK, NEW ids, timers' = Timer!Forget(ids)
  PROVE  /\ Timer!Live' = Timer!Live \ ids /\ timers' \in [Timer!Live' -> Int]
         /\ \A id \in Timer!Live' : timers'[id] = timers[id] /\ timers[id] \in Int
BY DEF Timer!Forget, Timer!Live, Timer!TypeOK

\* Going over some ids calls those of them that are due, forgets them, and takes out
\* of the slots what is not live then.
LEMMA SweepStep ==
  ASSUME Timer!WheelInv, NEW ids, Timer!Sweep(ids), ids \subseteq Timer!Scan,
         UNCHANGED <<clock, nextId>>, currentIndex' \in Timer!Slots, threw' \in BOOLEAN
  PROVE  /\ Timer!WheelInv'
         /\ \A id \in called' \ called : Timer!Due(id)
         /\ \A id \in Timer!Live' : timers'[id] = timers[id] /\ ~(id \in ids /\ Timer!Due(id))
<1> DEFINE due == {id \in ids : Timer!Due(id)}
<1>1. Timer!TypeOK /\ Timer!WheelHoldsTimers /\ called \cap Timer!Live = {}
  BY DEF Timer!WheelInv
<1>2. /\ called' = called \cup due /\ timers' = Timer!Forget(due)
      /\ wheel' = [s \in Timer!Slots |->
           {id \in wheel[s] : id \in ids => id \in Timer!Live /\ ~Timer!Due(id)}]
  BY DEF Timer!Sweep
<1>3. due \subseteq Timer!Live /\ due \subseteq ids /\ \A id \in due : Timer!Due(id)
  BY DEF Timer!Due
<1>4. /\ Timer!Live' = Timer!Live \ due /\ timers' \in [Timer!Live' -> Int]
      /\ \A id \in Timer!Live' : timers'[id] = timers[id]
  BY <1>1, <1>2, Forgotten
<1>5. \A s \in Timer!Slots : wheel'[s] \subseteq wheel[s]
  BY <1>2
<1>6. Timer!Slots' = Timer!Slots
  BY DEF Timer!Slots
<1>7. ASSUME NEW id \in Timer!Live'
      PROVE  ~(id \in ids /\ Timer!Due(id)) /\ \E s \in Timer!Slots : id \in wheel'[s]
  <2>1. id \in Timer!Live /\ id \notin due
    BY <1>4, <1>7
  <2>2. PICK s \in Timer!Slots : id \in wheel[s]
    BY <1>1, <2>1 DEF Timer!WheelHoldsTimers
  <2>3. id \in wheel'[s]
    BY <1>2, <2>1, <2>2
  <2>4. QED
    BY <2>1, <2>2, <2>3
<1> HIDE DEF due
<1>8. Timer!TypeOK'
  <2>1. wheel' \in [Timer!Slots -> SUBSET (1..(nextId - 1))]
    <3>1. \A s \in Timer!Slots : wheel'[s] \subseteq 1..(nextId - 1)
      BY <1>1, <1>5 DEF Timer!TypeOK
    <3>2. wheel' = [s \in Timer!Slots |-> wheel'[s]]
      BY <1>2
    <3>3. QED
      BY <3>1, <3>2
  <2>2. Timer!Live' \subseteq 1..(nextId - 1) /\ called' \subseteq 1..(nextId - 1)
    BY <1>1, <1>2, <1>3, <1>4 DEF Timer!TypeOK
  <2>3. QED
    BY <1>1, <1>4, <1>6, <2>1, <2>2 DEF Timer!TypeOK
<1>9. Timer!WheelHoldsTimers'
  BY <1>1, <1>5, <1>6, <1>7 DEF Timer!WheelHoldsTimers
<1>10. called' \cap Timer!Live' = {}
  BY <1>1, <1>2, <1>4
<1>11. QED
  BY <1>2, <1>3, <1>4, <1>7, <1>8, <1>9, <1>10 DEF Timer!WheelInv

\* What tick() calls before the one that throws is among what it scans.
LEMMA EarlierIsScanned ==
  ASSUME NEW s \in Timer!Slots, NEW id
  PROVE  Timer!Earlier(s, id) \subseteq Timer!Scan
BY DEF Timer!Earlier, Timer!Scan

\* Every step keeps the wheel, and tick() calls what is due.
LEMMA TimerStep ==
  ASSUME Timer!WheelInv, [Timer!Next]_(Timer!wheelVars)
  PROVE  /\ Timer!WheelInv'
         /\ \A id \in called' \ called : Timer!Due(id)
         /\ currentIndex' # currentIndex =>
              \A id \in Timer!Live' : timers'[id] > clock
<1>1. Timer!TypeOK /\ Timer!WheelHoldsTimers /\ called \cap Timer!Live = {}
  BY DEF Timer!WheelInv
<1>2. CASE Timer!Tick
  <2>1. /\ Timer!Sweep(Timer!Scan) /\ UNCHANGED <<clock, nextId>> /\ threw' = FALSE
        /\ currentIndex' = (currentIndex + 1) % WheelSize
    BY <1>2 DEF Timer!Tick
  <2>2. currentIndex' \in Timer!Slots
    BY <1>1, <2>1, TimerConstants DEF Timer!TypeOK
  <2>3. /\ Timer!WheelInv'
        /\ \A id \in called' \ called : Timer!Due(id)
        /\ \A id \in Timer!Live' : timers'[id] = timers[id]
                                     /\ ~(id \in Timer!Scan /\ Timer!Due(id))
    BY <2>1, <2>2, SweepStep
  <2>4. ASSUME NEW id \in Timer!Live'
        PROVE  timers'[id] > clock
    <3>1. id \in Timer!Live
      BY <2>1, <2>4, <1>1, Forgotten DEF Timer!Sweep
    <3>2. id \in Timer!Scan
      BY <1>1, <3>1 DEF Timer!WheelHoldsTimers, Timer!Scan
    <3>3. ~(timers[id] <= clock) /\ timers[id] \in Int /\ clock \in Int
      BY <1>1, <2>3, <3>1, <3>2, TimerConstants DEF Timer!Due, Timer!TypeOK
    <3>4. QED
      BY <2>3, <3>3
  <2>5. QED
    BY <2>3, <2>4
<1>3. CASE Timer!TickThrows
  <2>1. PICK s \in Timer!Slots : \E id \in wheel[s] :
           /\ Timer!Sweep(Timer!Earlier(s, id))
           /\ threw' = TRUE /\ UNCHANGED <<clock, currentIndex, nextId>>
    BY <1>3 DEF Timer!TickThrows
  <2>2. PICK id \in wheel[s] :
           /\ Timer!Sweep(Timer!Earlier(s, id))
           /\ threw' = TRUE /\ UNCHANGED <<clock, currentIndex, nextId>>
    BY <2>1
  <2>3. currentIndex' \in Timer!Slots
    BY <1>1, <2>2 DEF Timer!TypeOK
  <2>4. QED
    BY <2>2, <2>3, EarlierIsScanned, SweepStep
<1>4. CASE Timer!ClockMoves
  BY <1>1, <1>4
  DEF Timer!ClockMoves, Timer!WheelInv, Timer!TypeOK, Timer!WheelHoldsTimers,
      Timer!Live,
      Timer!Slots
<1>5. ASSUME NEW d \in Delays, Timer!AddTimer(d)
      PROVE  Timer!WheelInv' /\ UNCHANGED <<called, currentIndex>>
  BY <1>5, AddStep DEF Timer!AddTimer
<1>6. ASSUME NEW id \in Timer!Live, Timer!CancelTimer(id)
      PROVE  Timer!WheelInv' /\ UNCHANGED <<called, currentIndex>>
  <2>1. /\ timers' = Timer!Forget({id})
        /\ UNCHANGED <<clock, currentIndex, wheel, nextId, called, threw>>
    BY <1>6 DEF Timer!CancelTimer
  <2>2. Timer!Live' = Timer!Live \ {id} /\ timers' \in [Timer!Live' -> Int]
    BY <1>1, <2>1, Forgotten
  <2>3. Timer!TypeOK'
    BY <1>1, <2>1, <2>2 DEF Timer!TypeOK, Timer!Slots
  <2>4. Timer!WheelHoldsTimers' /\ called' \cap Timer!Live' = {}
    BY <1>1, <2>1, <2>2 DEF Timer!WheelHoldsTimers, Timer!Slots
  <2>5. QED
    BY <2>1, <2>3, <2>4 DEF Timer!WheelInv
<1>7. CASE UNCHANGED Timer!wheelVars
  BY <1>1, <1>7
  DEF Timer!wheelVars, Timer!WheelInv, Timer!TypeOK, Timer!WheelHoldsTimers, Timer!Live,
      Timer!Slots
<1>8. QED
  BY <1>2, <1>3, <1>4, <1>5, <1>6, <1>7 DEF Timer!Next, Timer!ClockMoves

\* The inductive invariant of TimerWheel.
LEMMA TimerInvariant == Timer!Spec => []Timer!WheelInv
<1>1. Timer!Init => Timer!WheelInv
  <2> SUFFICES ASSUME Timer!Init
               PROVE  Timer!WheelInv
    OBVIOUS
  <2>1. /\ clock \in 0..1 /\ currentIndex = 0 /\ wheel = [s \in Timer!Slots |-> {}]
        /\ timers = <<>> /\ nextId = 1 /\ called = {} /\ threw = FALSE
    BY DEF Timer!Init
  <2>2. Timer!Live = {}
    BY <2>1 DEF Timer!Live
  <2>3. /\ clock \in 0..MaxTime /\ currentIndex \in Timer!Slots
        /\ nextId \in 1..(MaxTimers + 1)
    BY <2>1, TimerConstants DEF Timer!Slots
  <2>4. threw \in BOOLEAN
    BY <2>1
  <2>5. wheel \in [Timer!Slots -> SUBSET (1..(nextId - 1))] /\ timers \in [Timer!Live -> Int]
    BY <2>1, <2>2 DEF Timer!Live
  <2>6. Timer!TypeOK
    BY <2>1, <2>2, <2>3, <2>4, <2>5 DEF Timer!TypeOK
  <2>7. QED
    BY <2>1, <2>2, <2>6 DEF Timer!WheelInv, Timer!WheelHoldsTimers
<1>2. Timer!WheelInv /\ [Timer!Next]_(Timer!wheelVars) => Timer!WheelInv'
  BY TimerStep
<1>3. QED
  BY <1>1, <1>2, PTL DEF Timer!Spec

\* For any wheel, tick and delays: whatever is added, cancelled or called, and however
\* the clock moves, no timer that is live is out of the wheel or in two slots.
THEOREM NoTimerIsLost == Spec => []WheelHoldsTimers
<1>1. Timer!WheelInv => Timer!WheelHoldsTimers
  BY DEF Timer!WheelInv
<1>2. QED
  BY <1>1, TimerInvariant, TimerRuns, PTL DEF WheelHoldsTimers

\* tick() calls what is due, forgets what it has called, and leaves nothing due.
THEOREM TickCallsWhatIsDue == Spec => CalledWhenDue
<1>1. ASSUME Timer!WheelInv, [Timer!Next]_(Timer!wheelVars)
      PROVE  [/\ \A id \in called' \ called : Timer!Due(id)
              /\ called' \cap DOMAIN timers' = {}
              /\ currentIndex' # currentIndex =>
                   \A id \in DOMAIN timers' : timers'[id] > clock]_(Timer!wheelVars)
  BY <1>1, TimerStep DEF Timer!WheelInv, Timer!Live
<1>2. QED
  BY <1>1, TimerInvariant, TimerRuns, PTL
  DEF CalledWhenDue, Timer!CalledWhenDue, Timer!Spec

-------------------------------------------------------------------------------
(* Shutdown.                                                               *)

\* The part Shutdown goes by its own specification.
LEMMA ProcessRuns == Spec => Process!Spec
<1>1. Init => Process!Init
  BY DEF Init
<1>2. [Next]_vars => [Process!Next]_(Process!shutdownVars)
  BY DEF Next, vars, shutdownVars, Process!shutdownVars
<1>3. QED
  BY <1>1, <1>2, PTL DEF Spec, Process!Spec

\* What is destroyed, by the number of destructors that have returned.
LEMMA DeadByPlace ==
  ASSUME main \in 0..15
  PROVE  /\ "threadPool" \in Process!Dead <=> main > 10
         /\ "mgmtServer" \in Process!Dead <=> main > 11
         /\ "apiServer" \in Process!Dead <=> main > 12
         /\ "streamWriter" \in Process!Dead <=> main > 13
         /\ "loop" \in Process!Dead <=> main > 14
         /\ Process!Returned <=> main > 14
         /\ Process!Destroying("threadPool") <=> main = 10
         /\ Process!Destroying("streamWriter") <=> main = 13
         /\ main \in DOMAIN Process!Teardown <=> main \in 1..14
<1>1. /\ DOMAIN Process!Teardown = 1..14 /\ Len(Process!Teardown) = 14
      /\ \A i \in 1..14 : /\ Process!Teardown[i] = "threadPool" <=> i = 10
                          /\ Process!Teardown[i] = "mgmtServer" <=> i = 11
                          /\ Process!Teardown[i] = "apiServer" <=> i = 12
                          /\ Process!Teardown[i] = "streamWriter" <=> i = 13
                          /\ Process!Teardown[i] = "loop" <=> i = 14
  BY DEF Process!Teardown
<1>2. \A m : m \in Process!Dead <=> \E i \in 1..(main - 1) : Process!Teardown[i] = m
  BY DEF Process!Dead
<1>3. \A i \in 1..(main - 1) : i \in 1..14
  OBVIOUS
<1>4. QED
  BY <1>1, <1>2, <1>3 DEF Process!Returned, Process!Destroying

\* The stages of a worker and of the writer.
LEMMA Stages ==
  /\ DOMAIN Process!After = {"parse", "match", "validate", "bucket", "window", "answer", "log"}
  /\ DOMAIN Process!Uses = DOMAIN Process!After
  /\ \A s \in DOMAIN Process!After : Process!After[s] \subseteq DOMAIN Process!After \cup {"idle"}
  /\ DOMAIN Process!WriterUses = {"create", "read", "sleep", "test", "insert"}
  /\ DOMAIN Process!WriterAfter = {"create", "read", "sleep", "insert"}
  /\ \A s \in DOMAIN Process!WriterAfter :
       Process!WriterAfter[s] \subseteq DOMAIN Process!WriterUses
BY DEF Process!After, Process!Uses, Process!WriterUses, Process!WriterAfter

\* While loop() runs nothing is destroyed.
LEMMA ProcessInit == Process!Init => Process!ShutdownInv
<1> SUFFICES ASSUME Process!Init
             PROVE  Process!ShutdownInv
  OBVIOUS
<1>1. main = 0 /\ accepted = 0 /\ tasks = 0 /\ crashed = FALSE /\ writer = "create"
  BY DEF Process!Init
<1>2. Process!TypeOK
  <2>1. /\ main \in 0..(Len(Process!Teardown) + 1)
        /\ accepted \in 0..MaxAccepted /\ tasks \in 0..accepted
    BY <1>1, PartsAssumption DEF Process!Assumption, Process!Teardown
  <2>2. worker \in [Workers -> DOMAIN Process!After \cup {"idle", "stuck", "exited"}]
    BY DEF Process!Init
  <2>3. crashed \in BOOLEAN /\ writer \in DOMAIN Process!WriterUses
    BY <1>1, Stages
  <2>4. QED
    BY <2>1, <2>2, <2>3 DEF Process!TypeOK
<1>3. Process!JoinedBefore
  BY <1>1, DeadByPlace DEF Process!Init, Process!JoinedBefore
<1>4. QED
  BY <1>2, <1>3 DEF Process!ShutdownInv

\* What the types say of main, the workers and the writer.
LEMMA ProcessTyped ==
  ASSUME Process!TypeOK
  PROVE  /\ main \in 0..15 /\ crashed \in BOOLEAN
         /\ accepted \in 0..MaxAccepted /\ tasks \in 0..accepted
         /\ worker \in [Workers -> DOMAIN Process!After \cup {"idle", "stuck", "exited"}]
         /\ writer \in DOMAIN Process!WriterUses \cup {"stuck", "exited"}
         /\ MaxAccepted \in Nat /\ Workers # {}
BY PartsAssumption DEF Process!TypeOK, Process!Teardown, Process!Assumption

\* The steps of the loop's thread.
LEMMA MainStep ==
  ASSUME Process!ShutdownInv,
         Process!AcceptRequest \/ Process!LoopEnds \/ Process!Main \/ Process!LateSignal
  PROVE  Process!ShutdownInv'
<1>1. Process!TypeOK /\ Process!JoinedBefore
  BY DEF Process!ShutdownInv
<1>2. CASE Process!AcceptRequest
  <2>1. /\ main = 0 /\ main' = 0 /\ accepted' = accepted + 1 /\ tasks' = tasks + 1
        /\ accepted < MaxAccepted /\ UNCHANGED <<crashed, worker, writer>>
    BY <1>2 DEF Process!AcceptRequest
  <2>2. Process!TypeOK'
    BY <1>1, <2>1, ProcessTyped DEF Process!TypeOK
  <2>3. main' \in 0..15
    BY <2>1
  <2>4. \A w \in Workers : worker'[w] # "exited"
    BY <1>1, <2>1 DEF Process!JoinedBefore
  <2>5. ~("threadPool" \in Process!Dead') /\ ~("streamWriter" \in Process!Dead')
    BY <2>1, DeadByPlace DEF Process!Dead
  <2>6. Process!JoinedBefore'
    BY <2>4, <2>5 DEF Process!JoinedBefore
  <2>7. QED
    BY <2>2, <2>6 DEF Process!ShutdownInv
<1>3. CASE Process!LoopEnds
  <2>1. /\ main = 0 /\ main' = 1 /\ UNCHANGED <<crashed, accepted, tasks, worker, writer>>
    BY <1>3 DEF Process!LoopEnds
  <2>2. Process!TypeOK'
    BY <1>1, <2>1, ProcessTyped DEF Process!TypeOK, Process!Teardown
  <2>3. Process!Dead' = {}
    BY <2>1 DEF Process!Dead
  <2>4. Process!JoinedBefore'
    BY <1>1, <2>1, <2>3 DEF Process!JoinedBefore
  <2>5. QED
    BY <2>2, <2>4 DEF Process!ShutdownInv
<1>4. CASE Process!Main
  <2>1. /\ main \in 1..14 /\ main' = main + 1
        /\ UNCHANGED <<crashed, accepted, tasks, worker, writer>>
        /\ main = 10 => \A w \in Workers : worker[w] = "exited"
        /\ main = 13 => writer = "exited"
    BY <1>1, <1>4, ProcessTyped, DeadByPlace
    DEF Process!Main, Process!Destroy, Process!Joined
  <2>2. Process!TypeOK'
    BY <1>1, <2>1, ProcessTyped DEF Process!TypeOK, Process!Teardown
  <2>3. /\ "threadPool" \in Process!Dead' => "threadPool" \in Process!Dead \/ main = 10
        /\ "streamWriter" \in Process!Dead' => "streamWriter" \in Process!Dead \/ main = 13
    <3>1. Process!Dead' = Process!Dead \cup {Process!Teardown[main]}
      BY <2>1 DEF Process!Dead
    <3>2. /\ Process!Teardown[main] = "threadPool" => main = 10
          /\ Process!Teardown[main] = "streamWriter" => main = 13
      BY <2>1 DEF Process!Teardown
    <3>3. QED
      BY <3>1, <3>2
  <2>4. Process!JoinedBefore'
    BY <1>1, <2>1, <2>3 DEF Process!JoinedBefore
  <2>5. QED
    BY <2>2, <2>4 DEF Process!ShutdownInv
<1>5. CASE Process!LateSignal
  <2>1. crashed' = TRUE /\ UNCHANGED <<main, accepted, tasks, worker, writer>>
    BY <1>5 DEF Process!LateSignal
  <2>2. Process!TypeOK' /\ Process!JoinedBefore'
    BY <1>1, <2>1 DEF Process!TypeOK, Process!JoinedBefore, Process!Dead
  <2>3. QED
    BY <2>2 DEF Process!ShutdownInv
<1>6. QED
  BY <1>2, <1>3, <1>4, <1>5

\* A worker goes on, or leaves when the pool is destroyed and nothing is queued.
LEMMA WorkerStep ==
  ASSUME Process!ShutdownInv, NEW w \in Workers, Process!Worker(w) \/ Process!WorkerHarmed(w)
  PROVE  Process!ShutdownInv'
<1>1. Process!TypeOK /\ Process!JoinedBefore
  BY DEF Process!ShutdownInv
<1>2. UNCHANGED <<main, accepted, writer>> /\ worker[w] # "exited"
  BY Stages
  DEF Process!Worker, Process!Take, Process!Exit, Process!Proceed, Process!WorkerHarmed,
      Process!Harmed
<1>3. PICK s \in DOMAIN Process!After \cup {"idle", "stuck", "exited"} :
        /\ worker' = [worker EXCEPT ![w] = s]
        /\ s = "exited" => tasks = 0 /\ main # 0
  <2>1. CASE Process!Take(w)
    BY <2>1, Stages DEF Process!Take
  <2>2. CASE Process!Exit(w)
    <3>1. main # 0
      BY <1>1, <2>2, ProcessTyped, DeadByPlace DEF Process!Exit
    <3>2. QED
      BY <2>2, <3>1 DEF Process!Exit
  <2>3. CASE Process!Proceed(w)
    BY <2>3, Stages DEF Process!Proceed
  <2>4. CASE Process!WorkerHarmed(w)
    <3>1. worker = [worker EXCEPT ![w] = worker[w]]
      BY <1>1, ProcessTyped
    <3>2. QED
      BY <1>1, <1>2, <2>4, <3>1, ProcessTyped DEF Process!WorkerHarmed
  <2>5. QED
    BY <2>1, <2>2, <2>3, <2>4 DEF Process!Worker
<1>4. /\ tasks' = tasks \/ (tasks' = tasks - 1 /\ tasks > 0)
      /\ crashed' \in BOOLEAN
  BY <1>1, ProcessTyped
  DEF Process!Worker, Process!Take, Process!Exit, Process!Proceed, Process!WorkerHarmed
<1>5. Process!TypeOK'
  BY <1>1, <1>2, <1>3, <1>4, ProcessTyped DEF Process!TypeOK
<1>6. Process!Dead' = Process!Dead
  BY <1>2 DEF Process!Dead
<1>7. Process!JoinedBefore'
  <2>1. worker' \in [Workers -> DOMAIN Process!After \cup {"idle", "stuck", "exited"}]
        /\ worker'[w] = s /\ \A v \in Workers \ {w} : worker'[v] = worker[v]
    BY <1>1, <1>3, ProcessTyped
  <2>2. "threadPool" \notin Process!Dead
    BY <1>1, <1>2 DEF Process!JoinedBefore
  <2>3. \A v \in Workers : worker'[v] = "exited" => main' # 0 /\ tasks' = 0
    BY <1>1, <1>2, <1>3, <1>4, <2>1, ProcessTyped DEF Process!JoinedBefore
  <2>4. QED
    BY <1>1, <1>2, <1>6, <2>2, <2>3 DEF Process!JoinedBefore
<1>8. QED
  BY <1>5, <1>7 DEF Process!ShutdownInv

\* A step of the writer's thread.
LEMMA WriterStep ==
  ASSUME Process!ShutdownInv, Process!Writer \/ Process!WriterHarmed
  PROVE  Process!ShutdownInv'
<1>1. Process!TypeOK /\ Process!JoinedBefore
  BY DEF Process!ShutdownInv
<1>2. UNCHANGED <<main, accepted, tasks, worker>> /\ writer # "exited" /\ crashed' \in BOOLEAN
  BY <1>1, Stages, ProcessTyped
  DEF Process!Writer, Process!WriterTests, Process!WriterProceeds, Process!WriterHarmed
<1>3. writer' \in DOMAIN Process!WriterUses \cup {"stuck", "exited"}
  BY <1>1, Stages, ProcessTyped
  DEF Process!Writer, Process!WriterTests, Process!WriterProceeds, Process!WriterHarmed
<1>4. Process!TypeOK'
  BY <1>1, <1>2, <1>3 DEF Process!TypeOK
<1>5. Process!JoinedBefore'
  BY <1>1, <1>2 DEF Process!JoinedBefore, Process!Dead
<1>6. QED
  BY <1>4, <1>5 DEF Process!ShutdownInv

\* The inductive invariant of Shutdown.
LEMMA ProcessInvariant == Process!Spec => []Process!ShutdownInv
<1>1. Process!ShutdownInv /\ [Process!Next]_(Process!shutdownVars) => Process!ShutdownInv'
  <2> SUFFICES ASSUME Process!ShutdownInv, [Process!Next]_(Process!shutdownVars)
               PROVE  Process!ShutdownInv'
    OBVIOUS
  <2>1. CASE UNCHANGED Process!shutdownVars
    BY <2>1
    DEF Process!shutdownVars, Process!ShutdownInv, Process!TypeOK, Process!JoinedBefore,
        Process!Dead
  <2>2. QED
    BY <2>1, MainStep, WorkerStep, WriterStep DEF Process!Next
<1>2. QED
  BY <1>1, ProcessInit, PTL DEF Process!Spec

\* For any number of workers and requests: the threads end before the objects whose
\* functions they run, and main does not return over a request that nobody has taken.
THEOREM ThreadsEndFirst == Spec => []OwnersOutlive
<1>1. Process!ShutdownInv => Process!OwnersOutlive
  <2> SUFFICES ASSUME Process!ShutdownInv
               PROVE  Process!OwnersOutlive
    OBVIOUS
  <2>1. Process!TypeOK /\ Process!JoinedBefore /\ main \in 0..15
    BY ProcessTyped DEF Process!ShutdownInv
  <2>2. ASSUME NEW w \in Workers, worker[w] # "exited"
        PROVE  {"threadPool", "mgmtServer", "apiServer", "streamWriter", "loop"}
                 \cap Process!Dead = {}
    <3>1. main <= 10
      BY <2>1, <2>2, DeadByPlace DEF Process!JoinedBefore
    <3>2. QED
      BY <2>1, <3>1, DeadByPlace
  <2>3. ASSUME writer # "exited"
        PROVE  {"streamWriter", "loop"} \cap Process!Dead = {}
    <3>1. main <= 13
      BY <2>1, <2>3, DeadByPlace DEF Process!JoinedBefore
    <3>2. QED
      BY <2>1, <3>1, DeadByPlace
  <2>4. ASSUME Process!Returned
        PROVE  tasks = 0
    <3>1. \A w \in Workers : worker[w] = "exited"
      BY <2>1, <2>4, DeadByPlace DEF Process!JoinedBefore
    <3>2. Workers # {}
      BY <2>1, ProcessTyped
    <3>3. QED
      BY <2>1, <3>1, <3>2 DEF Process!JoinedBefore
  <2>5. QED
    BY <2>2, <2>3, <2>4 DEF Process!OwnersOutlive
<1>2. QED
  BY <1>1, ProcessInvariant, ProcessRuns, PTL DEF OwnersOutlive

-------------------------------------------------------------------------------
(* HttpParser.                                                             *)

\* The part HttpParser goes by its own specification.
LEMMA ParserRuns == Spec => Parser!Spec
<1>1. Init => Parser!Init
  BY DEF Init
<1>2. [Next]_vars => [Parser!Next]_(Parser!parserVars)
  BY DEF Next, vars, parserVars, Parser!parserVars
<1>3. QED
  BY <1>1, <1>2, PTL DEF Spec, Parser!Spec

\* Min of a set of naturals is its smallest element.
LEMMA MinOf ==
  ASSUME NEW T \in SUBSET Nat, T # {}
  PROVE  Parser!Min(T) \in T /\ Parser!Min(T) \in Nat /\ \A x \in T : Parser!Min(T) <= x
<1>1. PICK x \in T : \A y \in T : x <= y
  BY HasSmallest
<1>2. QED
  BY <1>1 DEF Parser!Min

\* The smallest element is Min.
LEMMA MinIs ==
  ASSUME NEW T \in SUBSET Nat, NEW m \in T, \A x \in T : m <= x
  PROVE  Parser!Min(T) = m
<1>1. Parser!Min(T) \in T /\ \A x \in T : Parser!Min(T) <= x
  BY MinOf
<1>2. Parser!Min(T) <= m /\ m <= Parser!Min(T) /\ m \in Nat /\ Parser!Min(T) \in Nat
  BY <1>1
<1>3. QED
  BY <1>2

\* The largest element is Max.
LEMMA MaxIs ==
  ASSUME NEW T \in SUBSET Nat, NEW m \in T, \A x \in T : x <= m
  PROVE  Parser!Max(T) = m
<1>1. \A y \in T : m >= y
  <2> TAKE y \in T
  <2>1. y <= m /\ y \in Nat /\ m \in Nat
    OBVIOUS
  <2>2. QED
    BY <2>1
<1>2. Parser!Max(T) \in T /\ \A y \in T : Parser!Max(T) >= y
  BY <1>1 DEF Parser!Max
<1>3. Parser!Max(T) <= m /\ Parser!Max(T) >= m /\ m \in Nat /\ Parser!Max(T) \in Nat
  BY <1>2
<1>4. QED
  BY <1>3

\* A part of a text.
LEMMA PartOf ==
  ASSUME NEW C, NEW s \in Seq(C), NEW i \in Nat \ {0}, NEW j \in 0..Len(s)
  PROVE  /\ SubSeq(s, i, j) \in Seq(C)
         /\ Len(SubSeq(s, i, j)) = IF i <= j THEN j - i + 1 ELSE 0
         /\ \A k \in 1..(j - i + 1) : SubSeq(s, i, j)[k] = s[i + k - 1]
<1>1. i \in Int /\ j \in Int /\ \A k \in i..j : s[k] \in C
  <2>1. Len(s) \in Nat /\ \A k \in 1..Len(s) : s[k] \in C
    BY ElementOfSeq, LenProperties
  <2>2. i..j \subseteq 1..Len(s)
    BY <2>1
  <2>3. QED
    BY <2>1, <2>2
<1>2. QED
  BY <1>1, SubSeqProperties

\* A part of a part is a part.
LEMMA PartOfPart ==
  ASSUME NEW C, NEW s \in Seq(C), NEW c \in 0..Len(s), NEW g \in c..Len(s),
         NEW i \in Nat \ {0}, NEW j \in 0..(g - c)
  PROVE  SubSeq(SubSeq(s, c + 1, g), i, j) = SubSeq(s, c + i, c + j)
<1> DEFINE w == SubSeq(s, c + 1, g)
           v == SubSeq(w, i, j)
           u == SubSeq(s, c + i, c + j)
<1>1. /\ Len(s) \in Nat /\ c \in Nat /\ g \in Nat /\ g <= Len(s) /\ c <= g
      /\ j \in Nat /\ j <= g - c
  BY LenProperties
<1>2. /\ w \in Seq(C) /\ Len(w) = g - c
      /\ \A k \in 1..(g - c) : w[k] = s[c + k]
  <2>1. /\ w \in Seq(C) /\ Len(w) = IF c + 1 <= g THEN g - (c + 1) + 1 ELSE 0
        /\ \A k \in 1..(g - (c + 1) + 1) : w[k] = s[(c + 1) + k - 1]
    <3>1. c + 1 \in Nat \ {0} /\ g \in 0..Len(s)
      BY <1>1
    <3>2. QED
      BY <3>1, PartOf
  <2>2. g - (c + 1) + 1 = g - c /\ \A k \in 1..(g - c) : (c + 1) + k - 1 = c + k
    BY <1>1
  <2>3. QED
    BY <1>1, <2>1, <2>2
<1> HIDE DEF w
<1>3. /\ v \in Seq(C) /\ Len(v) = IF i <= j THEN j - i + 1 ELSE 0
      /\ \A k \in 1..(j - i + 1) : v[k] = w[i + k - 1]
  <2>1. j \in 0..Len(w)
    BY <1>1, <1>2
  <2>2. QED
    BY <1>2, <2>1, PartOf
<1>4. /\ u \in Seq(C) /\ Len(u) = IF i <= j THEN j - i + 1 ELSE 0
      /\ \A k \in 1..(j - i + 1) : u[k] = s[c + i + k - 1]
  <2>1. c + i \in Nat \ {0} /\ c + j \in 0..Len(s)
    BY <1>1
  <2>2. /\ u \in Seq(C) /\ Len(u) = IF c + i <= c + j THEN (c + j) - (c + i) + 1 ELSE 0
        /\ \A k \in 1..((c + j) - (c + i) + 1) : u[k] = s[(c + i) + k - 1]
    BY <2>1, PartOf
  <2>3. (c + j) - (c + i) + 1 = j - i + 1 /\ (c + i <= c + j <=> i <= j)
    BY <1>1
  <2>4. QED
    BY <2>2, <2>3
<1> HIDE DEF u, v
<1>5. \A k \in 1..Len(v) : v[k] = u[k]
  <2> TAKE k \in 1..Len(v)
  <2>1. k \in 1..(j - i + 1) /\ i + k - 1 \in 1..(g - c) /\ c + (i + k - 1) = c + i + k - 1
    BY <1>1, <1>3
  <2>2. QED
    BY <1>2, <1>3, <1>4, <2>1
<1>6. QED
  BY <1>3, <1>4, <1>5, SeqEqual DEF u, v, w

\* Where the two patterns of the grammar occur.
LEMMA OccurrenceIs ==
  ASSUME NEW C, NEW s \in Seq(C), NEW D, NEW p \in Seq(D), Len(p) >= 1
  PROVE  /\ Parser!Occurrences(s, p) \subseteq 1..Len(s)
         /\ \A i \in 1..Len(s) :
              i \in Parser!Occurrences(s, p) <=>
                /\ i + Len(p) - 1 <= Len(s)
                /\ \A k \in 1..Len(p) : s[i + k - 1] = p[k]
<1> DEFINE Here(i) == /\ i + Len(p) - 1 <= Len(s)
                      /\ \A k \in 1..Len(p) : s[i + k - 1] = p[k]
<1>1. Len(s) \in Nat /\ DOMAIN s = 1..Len(s) /\ Len(p) \in Nat /\ DOMAIN p = 1..Len(p)
  BY LenProperties
<1>2. ASSUME NEW i \in 1..Len(s)
      PROVE  Parser!IsPrefix(p, SubSeq(s, i, Len(s))) <=> Here(i)
  <2> DEFINE w == SubSeq(s, i, Len(s))
  <2>1. /\ w \in Seq(C) /\ Len(w) = Len(s) - i + 1
        /\ \A k \in 1..(Len(s) - i + 1) : w[k] = s[i + k - 1]
    <3>1. i \in Nat \ {0} /\ Len(s) \in 0..Len(s) /\ i <= Len(s)
      BY <1>1
    <3>2. QED
      BY <3>1, PartOf
  <2> HIDE DEF w
  <2>2. SubSeq(p, 1, Len(p)) = p
    BY SubSeqFull
  <2>3. CASE Len(p) > Len(w)
    BY <1>1, <2>1, <2>3 DEF Parser!IsPrefix, w
  <2>4. CASE Len(p) <= Len(w)
    <3> DEFINE v == SubSeq(w, 1, Len(p))
    <3>1. /\ v \in Seq(C) /\ Len(v) = Len(p)
          /\ \A k \in 1..Len(p) : v[k] = w[k]
      <4>1. 1 \in Nat \ {0} /\ Len(p) \in 0..Len(w) /\ Len(p) - 1 + 1 = Len(p)
            /\ \A k \in 1..Len(p) : 1 + k - 1 = k
        BY <1>1, <2>1, <2>4
      <4>2. /\ v \in Seq(C) /\ Len(v) = IF 1 <= Len(p) THEN Len(p) - 1 + 1 ELSE 0
            /\ \A k \in 1..(Len(p) - 1 + 1) : v[k] = w[1 + k - 1]
        BY <2>1, <4>1, PartOf
      <4>3. QED
        BY <4>1, <4>2
    <3> HIDE DEF v
    <3>2. \A k \in 1..Len(p) : v[k] = s[i + k - 1]
      BY <1>1, <2>1, <2>4, <3>1
    <3>3. (\A k \in 1..Len(p) : v[k] = p[k]) <=> v = p
      <4>1. v \in Seq(C \cup D) /\ p \in Seq(C \cup D)
        BY <3>1, SeqMonotonic
      <4>2. QED
        BY <3>1, <4>1, SeqEqual
    <3>4. i + Len(p) - 1 <= Len(s)
      BY <1>1, <2>1, <2>4
    <3>5. Parser!IsPrefix(p, w) <=> v = p
      BY <2>2, <2>4 DEF Parser!IsPrefix, v
    <3>6. QED
      BY <3>2, <3>3, <3>4, <3>5 DEF w
  <2>5. QED
    BY <1>1, <2>1, <2>3, <2>4
<1>3. QED
  BY <1>1, <1>2 DEF Parser!Occurrences

\* A space is a space; a CRLF is a CR and a LF, which are not the same.
LEMMA PatternsAre ==
  ASSUME NEW C, NEW s \in Seq(C)
  PROVE  /\ Parser!Spaces(s) \subseteq 1..Len(s)
         /\ \A i \in 1..Len(s) : i \in Parser!Spaces(s) <=> s[i] = Parser!SP
         /\ Parser!Occurrences(s, Parser!CRLF) \subseteq 1..Len(s)
         /\ \A i \in 1..Len(s) :
              i \in Parser!Occurrences(s, Parser!CRLF) <=>
                i + 1 <= Len(s) /\ s[i] = Parser!CR /\ s[i + 1] = Parser!LF
<1>1. Len(s) \in Nat
  BY LenProperties
<1>2. /\ Parser!Spaces(s) \subseteq 1..Len(s)
      /\ \A i \in 1..Len(s) : i \in Parser!Spaces(s) <=> s[i] = Parser!SP
  <2> DEFINE p == <<Parser!SP>>
  <2> DEFINE D == {Parser!SP}
  <2>1. p \in Seq(D) /\ Len(p) = 1 /\ p[1] = Parser!SP /\ Len(p) >= 1
    OBVIOUS
  <2> HIDE DEF p, D
  <2>2. /\ Parser!Occurrences(s, p) \subseteq 1..Len(s)
        /\ \A i \in 1..Len(s) :
             i \in Parser!Occurrences(s, p) <=>
               /\ i + Len(p) - 1 <= Len(s)
               /\ \A k \in 1..Len(p) : s[i + k - 1] = p[k]
    <3>1. p \in Seq(D)
      BY <2>1
    <3>2. Len(p) >= 1
      BY <2>1
    <3>3. QED
      BY <3>1, <3>2, OccurrenceIs
  <2>3. \A i \in 1..Len(s) :
          (i + 1 - 1 <= Len(s) /\ \A k \in 1..1 : s[i + k - 1] = p[k]) <=> s[i] = Parser!SP
    <3> TAKE i \in 1..Len(s)
    <3>1. i + 1 - 1 = i /\ i <= Len(s) /\ 1..1 = {1}
      BY <1>1
    <3>2. QED
      BY <2>1, <3>1
  <2>4. QED
    BY <2>1, <2>2, <2>3 DEF Parser!Spaces, p
<1>3. /\ Parser!Occurrences(s, Parser!CRLF) \subseteq 1..Len(s)
      /\ \A i \in 1..Len(s) :
           i \in Parser!Occurrences(s, Parser!CRLF) <=>
             i + 1 <= Len(s) /\ s[i] = Parser!CR /\ s[i + 1] = Parser!LF
  <2> DEFINE p == Parser!CRLF
  <2> DEFINE D == {Parser!CR, Parser!LF}
  <2>1. p \in Seq(D) /\ Len(p) = 2 /\ p[1] = Parser!CR /\ p[2] = Parser!LF /\ Len(p) >= 1
    BY DEF Parser!CRLF
  <2> HIDE DEF p, D
  <2>2. /\ Parser!Occurrences(s, p) \subseteq 1..Len(s)
        /\ \A i \in 1..Len(s) :
             i \in Parser!Occurrences(s, p) <=>
               /\ i + Len(p) - 1 <= Len(s)
               /\ \A k \in 1..Len(p) : s[i + k - 1] = p[k]
    <3>1. p \in Seq(D)
      BY <2>1
    <3>2. Len(p) >= 1
      BY <2>1
    <3>3. QED
      BY <3>1, <3>2, OccurrenceIs
  <2>3. \A i \in 1..Len(s) :
          (i + 2 - 1 <= Len(s) /\ \A k \in 1..2 : s[i + k - 1] = p[k])
            <=> (i + 1 <= Len(s) /\ s[i] = Parser!CR /\ s[i + 1] = Parser!LF)
    <3> TAKE i \in 1..Len(s)
    <3>1. i + 2 - 1 = i + 1 /\ i + 1 - 1 = i /\ 1..2 = {1, 2}
      BY <1>1
    <3>2. QED
      BY <2>1, <3>1
  <2>4. QED
    BY <2>1, <2>2, <2>3 DEF p
<1>4. QED
  BY <1>2, <1>3

\* What a pattern does in the rest of a text.
LEMMA OccursInRest ==
  ASSUME NEW C, NEW s \in Seq(C), NEW c \in 0..Len(s), NEW p
  PROVE  LET w == SubSeq(s, c + 1, Len(s))
         IN  /\ w \in Seq(C) /\ Len(w) = Len(s) - c
             /\ Parser!Occurrences(w, p) \subseteq 1..(Len(s) - c)
             /\ \A i \in 1..(Len(s) - c) :
                  i \in Parser!Occurrences(w, p) <=> c + i \in Parser!Occurrences(s, p)
<1> DEFINE w == SubSeq(s, c + 1, Len(s))
<1>1. Len(s) \in Nat /\ DOMAIN s = 1..Len(s) /\ c \in Nat /\ c <= Len(s)
  BY LenProperties
<1>2. w \in Seq(C) /\ Len(w) = Len(s) - c
  <2> DEFINE n == Len(s)
  <2>1. c + 1 \in Nat \ {0}
    BY <1>1
  <2>2. n \in 0..Len(s) /\ n \in Nat /\ c <= n
    BY <1>1
  <2>3. w \in Seq(C) /\ Len(w) = IF c + 1 <= n THEN n - (c + 1) + 1 ELSE 0
    BY <2>1, <2>2, PartOf
  <2> HIDE DEF w, n
  <2>4. CASE c + 1 <= n
    <3>1. n - (c + 1) + 1 = n - c
      BY <1>1, <2>2
    <3>2. QED
      BY <2>3, <2>4, <3>1 DEF n
  <2>5. CASE ~(c + 1 <= n)
    <3>1. n - c = 0
      BY <1>1, <2>2, <2>5
    <3>2. QED
      BY <2>3, <2>5, <3>1 DEF n
  <2>6. QED
    BY <2>4, <2>5
<1>3. DOMAIN w = 1..(Len(s) - c)
  BY <1>2, LenProperties
<1>4. ASSUME NEW i \in 1..(Len(s) - c)
      PROVE  SubSeq(w, i, Len(w)) = SubSeq(s, c + i, Len(s)) /\ c + i \in DOMAIN s
  <2>1. Len(s) \in c..Len(s)
    BY <1>1
  <2>2. i \in Nat \ {0}
    BY <1>1
  <2>3. Len(s) - c \in 0..(Len(s) - c)
    BY <1>1
  <2>4. SubSeq(w, i, Len(s) - c) = SubSeq(s, c + i, c + (Len(s) - c))
    BY <2>1, <2>2, <2>3, PartOfPart
  <2> HIDE DEF w
  <2>5. c + (Len(s) - c) = Len(s) /\ c + i \in DOMAIN s
    BY <1>1
  <2>6. QED
    BY <1>2, <2>4, <2>5
<1> HIDE DEF w
<1>5. /\ Parser!Occurrences(w, p) \subseteq 1..(Len(s) - c)
      /\ \A i \in 1..(Len(s) - c) :
           i \in Parser!Occurrences(w, p) <=> c + i \in Parser!Occurrences(s, p)
  BY <1>3, <1>4 DEF Parser!Occurrences
<1>6. QED
  BY <1>2, <1>5 DEF w

\* find() in the rest of a text, and what substr() and erase() make of the rest.
LEMMA CutAtFirst ==
  ASSUME NEW C, NEW s \in Seq(C), NEW c \in 0..Len(s), NEW p, Len(p) \in Nat \ {0},
         \A i \in Parser!Occurrences(s, p) : i + Len(p) - 1 <= Len(s),
         Parser!Found(SubSeq(s, c + 1, Len(s)), p)
  PROVE  \E q \in (c + 1)..Len(s) :
           /\ q \in Parser!Occurrences(s, p) /\ q + Len(p) - 1 <= Len(s)
           /\ \A i \in Parser!Occurrences(s, p) : i > c => q <= i
           /\ Parser!Before(SubSeq(s, c + 1, Len(s)), p) = SubSeq(s, c + 1, q - 1)
           /\ Parser!After(SubSeq(s, c + 1, Len(s)), p) = SubSeq(s, q + Len(p), Len(s))
<1> DEFINE w == SubSeq(s, c + 1, Len(s))
           occ == Parser!Occurrences(w, p)
           m == Parser!Min(occ)
           q == c + m
<1>1. Len(s) \in Nat /\ c \in Nat /\ c <= Len(s)
  BY LenProperties
<1>2. /\ Len(w) = Len(s) - c /\ occ \subseteq 1..(Len(s) - c)
      /\ \A i \in 1..(Len(s) - c) : i \in occ <=> c + i \in Parser!Occurrences(s, p)
  BY OccursInRest
<1>3. occ # {} /\ occ \in SUBSET Nat
  BY <1>1, <1>2 DEF Parser!Found
<1> HIDE DEF occ
<1>4. m \in occ /\ m \in 1..(Len(s) - c) /\ \A x \in occ : m <= x
  BY <1>2, <1>3, MinOf
<1> HIDE DEF m
<1>5. q \in (c + 1)..Len(s) /\ q \in Parser!Occurrences(s, p) /\ q + Len(p) - 1 <= Len(s)
  BY <1>1, <1>2, <1>4
<1>6. ASSUME NEW i \in Parser!Occurrences(s, p), i > c
      PROVE  q <= i
  <2>1. i \in 1..Len(s)
    BY LenProperties DEF Parser!Occurrences
  <2>2. i - c \in 1..(Len(s) - c) /\ c + (i - c) = i
    BY <1>1, <1>6, <2>1
  <2>3. i - c \in occ
    BY <1>2, <2>2
  <2>4. m <= i - c
    BY <1>4, <2>3
  <2>5. QED
    BY <1>1, <1>4, <2>1, <2>4
<1>7. Parser!Before(w, p) = SubSeq(s, c + 1, q - 1)
  <2>1. Len(s) \in c..Len(s)
    BY <1>1
  <2>2. m - 1 \in 0..(Len(s) - c)
    BY <1>1, <1>4
  <2>3. SubSeq(w, 1, m - 1) = SubSeq(s, c + 1, c + (m - 1))
    BY <2>1, <2>2, PartOfPart
  <2>4. Parser!Before(w, p) = SubSeq(w, 1, m - 1)
    BY DEF Parser!Before, m, occ
  <2> HIDE DEF w
  <2>5. c + (m - 1) = q - 1
    BY <1>1, <1>4
  <2>6. QED
    BY <2>3, <2>4, <2>5
<1>8. Parser!After(w, p) = SubSeq(s, q + Len(p), Len(s))
  <2> DEFINE i == m + Len(p)
             j == Len(s) - c
  <2>1. Len(s) \in c..Len(s)
    BY <1>1
  <2>2. i \in Nat \ {0} /\ c + i = q + Len(p)
    BY <1>1, <1>4
  <2>3. j \in 0..(Len(s) - c) /\ c + j = Len(s)
    BY <1>1
  <2>4. Parser!After(w, p) = SubSeq(w, i, Len(w))
    BY DEF Parser!After, m, occ
  <2>5. Len(w) = j
    BY <1>2
  <2> HIDE DEF i, j
  <2>6. SubSeq(w, i, j) = SubSeq(s, c + i, c + j)
    BY <2>1, <2>2, <2>3, PartOfPart
  <2> HIDE DEF w, q
  <2>7. QED
    BY <2>2, <2>3, <2>4, <2>5, <2>6
<1>9. QED
  BY <1>5, <1>6, <1>7, <1>8

\* Nothing is found in the rest of a text if the pattern occurs before it only.
LEMMA NotFoundInRest ==
  ASSUME NEW C, NEW s \in Seq(C), NEW c \in 0..Len(s), NEW p,
         ~Parser!Found(SubSeq(s, c + 1, Len(s)), p)
  PROVE  \A i \in Parser!Occurrences(s, p) : i <= c
<1> SUFFICES ASSUME NEW i \in Parser!Occurrences(s, p), i > c
             PROVE  FALSE
  <2>1. \A i \in Parser!Occurrences(s, p) : i \in Nat /\ c \in Nat
    BY LenProperties DEF Parser!Occurrences
  <2>2. QED
    BY <2>1
<1>1. i \in 1..Len(s) /\ Len(s) \in Nat /\ c \in Nat
  BY LenProperties DEF Parser!Occurrences
<1>2. i - c \in 1..(Len(s) - c) /\ c + (i - c) = i
  BY <1>1
<1>3. i - c \in Parser!Occurrences(SubSeq(s, c + 1, Len(s)), p)
  BY <1>2, OccursInRest
<1>4. QED
  BY <1>3 DEF Parser!Found

\* What patterns do in the beginning t of a longer text s.
LEMMA OccursInBeginning ==
  ASSUME NEW C, NEW s \in Seq(C), NEW g \in 0..Len(s)
  PROVE  LET t == SubSeq(s, 1, g)
         IN  /\ t \in Seq(C) /\ Len(t) = g
             /\ Parser!Spaces(t) = {i \in Parser!Spaces(s) : i <= g}
             /\ Parser!Occurrences(t, Parser!CRLF) =
                  {i \in Parser!Occurrences(s, Parser!CRLF) : i < g}
             /\ \A i \in Nat \ {0}, j \in 0..g : SubSeq(t, i, j) = SubSeq(s, i, j)
<1> DEFINE t == SubSeq(s, 1, g)
<1>1. Len(s) \in Nat /\ g \in Nat /\ g <= Len(s)
  BY LenProperties
<1>2. /\ t \in Seq(C) /\ Len(t) = g /\ \A k \in 1..g : t[k] = s[k]
  <2>1. /\ t \in Seq(C) /\ Len(t) = IF 1 <= g THEN g - 1 + 1 ELSE 0
        /\ \A k \in 1..(g - 1 + 1) : t[k] = s[1 + k - 1]
    BY <1>1, PartOf
  <2>2. g - 1 + 1 = g /\ \A k \in 1..g : 1 + k - 1 = k
    BY <1>1
  <2>3. QED
    BY <1>1, <2>1, <2>2
<1>3. ASSUME NEW i \in Nat \ {0}, NEW j \in 0..g
      PROVE  SubSeq(t, i, j) = SubSeq(s, i, j)
  <2>1. /\ 0 \in 0..Len(s) /\ g \in 0..Len(s) /\ j \in 0..(g - 0) /\ 0 + 1 = 1
        /\ 0 + i = i /\ 0 + j = j
    BY <1>1
  <2>2. SubSeq(SubSeq(s, 0 + 1, g), i, j) = SubSeq(s, 0 + i, 0 + j)
    BY <2>1, PartOfPart
  <2>3. QED
    BY <2>1, <2>2
<1> HIDE DEF t
<1>4. Parser!Spaces(t) = {i \in Parser!Spaces(s) : i <= g}
  <2>1. /\ Parser!Spaces(t) \subseteq 1..g
        /\ \A i \in 1..g : i \in Parser!Spaces(t) <=> t[i] = Parser!SP
    BY <1>2, PatternsAre
  <2>2. /\ Parser!Spaces(s) \subseteq 1..Len(s)
        /\ \A i \in 1..Len(s) : i \in Parser!Spaces(s) <=> s[i] = Parser!SP
    BY PatternsAre
  <2>3. \A i \in 1..Len(s) : i <= g <=> i \in 1..g
    BY <1>1
  <2>4. 1..g \subseteq 1..Len(s)
    BY <1>1
  <2>5. QED
    BY <1>2, <2>1, <2>2, <2>3, <2>4
<1>5. Parser!Occurrences(t, Parser!CRLF) = {i \in Parser!Occurrences(s, Parser!CRLF) : i < g}
  <2> DEFINE A == Parser!Occurrences(t, Parser!CRLF)
             B == Parser!Occurrences(s, Parser!CRLF)
  <2>1. /\ A \subseteq 1..g
        /\ \A i \in 1..g : i \in A <=> i + 1 <= g /\ t[i] = Parser!CR /\ t[i + 1] = Parser!LF
    BY <1>2, PatternsAre
  <2>2. /\ B \subseteq 1..Len(s)
        /\ \A i \in 1..Len(s) :
             i \in B <=> i + 1 <= Len(s) /\ s[i] = Parser!CR /\ s[i + 1] = Parser!LF
    BY PatternsAre
  <2> HIDE DEF A, B
  <2>3. ASSUME NEW i \in A
        PROVE  i \in B /\ i < g
    <3>1. i \in 1..g /\ i + 1 <= g /\ t[i] = Parser!CR /\ t[i + 1] = Parser!LF
      BY <2>1
    <3>2. /\ i \in 1..Len(s) /\ i + 1 \in 1..g /\ i + 1 <= Len(s) /\ i < g
      BY <1>1, <3>1
    <3>3. QED
      BY <1>2, <2>2, <3>1, <3>2
  <2>4. ASSUME NEW i \in B, i < g
        PROVE  i \in A
    <3>1. i \in 1..Len(s) /\ s[i] = Parser!CR /\ s[i + 1] = Parser!LF
      BY <2>2
    <3>2. i \in 1..g /\ i + 1 \in 1..g /\ i + 1 <= g
      BY <1>1, <2>4, <3>1
    <3>3. QED
      BY <1>2, <2>1, <3>1, <3>2
  <2>5. QED
    BY <2>3, <2>4 DEF A, B
<1>6. QED
  BY <1>2, <1>3, <1>4, <1>5 DEF t

\* The spaces that end the two words, and the CRLFs that end lines.
LEMMA WordsEnd ==
  ASSUME NEW C, NEW s \in Seq(C)
  PROVE  /\ Parser!Spaces(s) \subseteq 1..Len(s)
         /\ Parser!Spaces(s) # {} =>
              /\ Parser!Space1(s) \in Parser!Spaces(s)
              /\ \A i \in Parser!Spaces(s) : Parser!Space1(s) <= i
         /\ Parser!TwoWords(s) =>
              /\ Parser!Space2(s) \in Parser!Spaces(s) /\ Parser!Space1(s) < Parser!Space2(s)
              /\ \A i \in Parser!Spaces(s) : i > Parser!Space1(s) => Parser!Space2(s) <= i
<1>1. Len(s) \in Nat /\ Parser!Spaces(s) \subseteq 1..Len(s) /\ Parser!Spaces(s) \subseteq Nat
  BY LenProperties, PatternsAre
<1>2. ASSUME Parser!Spaces(s) # {}
      PROVE  /\ Parser!Space1(s) \in Parser!Spaces(s)
             /\ \A i \in Parser!Spaces(s) : Parser!Space1(s) <= i
  BY <1>1, <1>2, MinOf DEF Parser!Space1
<1>3. ASSUME Parser!TwoWords(s)
      PROVE  /\ Parser!Space2(s) \in Parser!Spaces(s) /\ Parser!Space1(s) < Parser!Space2(s)
             /\ \A i \in Parser!Spaces(s) : i > Parser!Space1(s) => Parser!Space2(s) <= i
  <2>1. Parser!Spaces2(s) # {} /\ Parser!Spaces2(s) \in SUBSET Nat /\ Parser!Spaces(s) # {}
    BY <1>1, <1>3 DEF Parser!TwoWords, Parser!Spaces2
  <2>2. /\ Parser!Space2(s) \in Parser!Spaces2(s)
        /\ \A i \in Parser!Spaces2(s) : Parser!Space2(s) <= i
    BY <2>1, MinOf DEF Parser!Space2
  <2>3. /\ Parser!Space2(s) \in Parser!Spaces(s) /\ Parser!Space2(s) # Parser!Space1(s)
        /\ Parser!Space1(s) \in Nat /\ Parser!Space2(s) \in Nat
    BY <1>1, <1>2, <2>1, <2>2 DEF Parser!Spaces2
  <2>4. Parser!Space1(s) < Parser!Space2(s)
    BY <1>2, <2>1, <2>3
  <2>5. ASSUME NEW i \in Parser!Spaces(s), i > Parser!Space1(s)
        PROVE  Parser!Space2(s) <= i
    <3>1. i # Parser!Space1(s)
      BY <1>1, <2>3, <2>5
    <3>2. QED
      BY <2>2, <3>1 DEF Parser!Spaces2
  <2>6. QED
    BY <2>3, <2>4, <2>5
<1>4. QED
  BY <1>1, <1>2, <1>3

\* The CRLFs after the second word end lines, and no two of them overlap.
LEMMA LinesEnd ==
  ASSUME NEW C, NEW s \in Seq(C), Parser!TwoWords(s)
  PROVE  /\ Parser!Ends(s) \subseteq 1..Len(s)
         /\ Parser!Space2(s) \in 1..Len(s)
         /\ \A i \in Parser!Ends(s) :
              i > Parser!Space2(s) /\ i + 1 <= Len(s) /\ i + 1 \notin Parser!Ends(s)
         /\ \A i \in Parser!Occurrences(s, Parser!CRLF) :
              i > Parser!Space2(s) => i \in Parser!Ends(s)
         /\ \A i \in Parser!Ends(s) : i + 1 \notin Parser!Occurrences(s, Parser!CRLF)
<1>1. /\ Len(s) \in Nat /\ Parser!Occurrences(s, Parser!CRLF) \subseteq 1..Len(s)
      /\ \A i \in 1..Len(s) :
           i \in Parser!Occurrences(s, Parser!CRLF) <=>
             i + 1 <= Len(s) /\ s[i] = Parser!CR /\ s[i + 1] = Parser!LF
  BY LenProperties, PatternsAre
<1>2. Parser!Space2(s) \in 1..Len(s)
  BY WordsEnd
<1>3. Parser!CR # Parser!LF
  BY DEF Parser!CR, Parser!LF
<1>4. \A i \in Parser!Ends(s) :
         /\ i \in 1..Len(s) /\ i > Parser!Space2(s) /\ i + 1 <= Len(s)
         /\ s[i + 1] = Parser!LF
  BY <1>1 DEF Parser!Ends
<1>5. ASSUME NEW i \in Parser!Ends(s)
      PROVE  i + 1 \notin Parser!Occurrences(s, Parser!CRLF)
  <2>1. i + 1 \in 1..Len(s)
    BY <1>1, <1>4
  <2>2. QED
    BY <1>1, <1>3, <1>4, <2>1
<1>6. \A i \in Parser!Occurrences(s, Parser!CRLF) :
        i > Parser!Space2(s) => i \in Parser!Ends(s)
  BY DEF Parser!Ends
<1>7. Parser!Ends(s) \subseteq Parser!Occurrences(s, Parser!CRLF)
  BY DEF Parser!Ends
<1>8. QED
  BY <1>2, <1>4, <1>5, <1>6, <1>7

\* A text that goes on keeps its words.
LEMMA WordsStay ==
  ASSUME NEW C, NEW s \in Seq(C), NEW g \in 0..Len(s), NEW t, t = SubSeq(s, 1, g)
  PROVE  /\ Parser!Spaces(t) # {} =>
              /\ Parser!Spaces(s) # {} /\ Parser!Space1(s) = Parser!Space1(t)
              /\ Parser!Method(s) = Parser!Method(t)
         /\ Parser!TwoWords(t) =>
              /\ Parser!TwoWords(s) /\ Parser!Space2(s) = Parser!Space2(t)
              /\ Parser!Path(s) = Parser!Path(t)
<1>1. /\ t \in Seq(C) /\ Len(t) = g
      /\ Parser!Spaces(t) = {i \in Parser!Spaces(s) : i <= g}
      /\ \A i \in Nat \ {0}, j \in 0..g : SubSeq(t, i, j) = SubSeq(s, i, j)
  BY OccursInBeginning
<1>2. Len(s) \in Nat /\ g \in Nat /\ g <= Len(s)
  BY LenProperties
<1>3. Parser!Spaces(s) \subseteq Nat /\ Parser!Spaces(t) \subseteq 1..g
  BY <1>1, <1>2, WordsEnd
<1>4. ASSUME Parser!Spaces(t) # {}
      PROVE  /\ Parser!Spaces(s) # {} /\ Parser!Space1(s) = Parser!Space1(t)
             /\ Parser!Method(s) = Parser!Method(t)
  <2>1. /\ Parser!Space1(t) \in Parser!Spaces(t)
        /\ \A i \in Parser!Spaces(t) : Parser!Space1(t) <= i
    BY <1>1, <1>4, WordsEnd
  <2>2. Parser!Space1(t) \in Parser!Spaces(s) /\ Parser!Space1(t) \in 1..g
    BY <1>1, <1>3, <2>1
  <2>3. \A i \in Parser!Spaces(s) : Parser!Space1(t) <= i
    <3> TAKE i \in Parser!Spaces(s)
    <3>1. CASE i <= g
      BY <1>1, <2>1, <3>1
    <3>2. CASE ~(i <= g)
      BY <1>2, <1>3, <2>2, <3>2
    <3>3. QED
      BY <3>1, <3>2
  <2>4. Parser!Space1(s) = Parser!Space1(t)
    BY <1>3, <2>2, <2>3, MinIs DEF Parser!Space1
  <2>5. Parser!Space1(t) - 1 \in 0..g
    BY <1>2, <2>2
  <2>6. QED
    BY <1>1, <2>2, <2>4, <2>5 DEF Parser!Method
<1>5. ASSUME Parser!TwoWords(t)
      PROVE  /\ Parser!TwoWords(s) /\ Parser!Space2(s) = Parser!Space2(t)
             /\ Parser!Path(s) = Parser!Path(t)
  <2>1. Parser!Spaces(t) # {}
    BY <1>5 DEF Parser!TwoWords
  <2>2. Parser!Spaces(s) # {} /\ Parser!Space1(s) = Parser!Space1(t)
    BY <1>4, <2>1
  <2>3. /\ Parser!Space2(t) \in Parser!Spaces(t) /\ Parser!Space1(t) < Parser!Space2(t)
        /\ \A i \in Parser!Spaces(t) : i > Parser!Space1(t) => Parser!Space2(t) <= i
        /\ Parser!Space1(t) \in Parser!Spaces(t)
    BY <1>1, <1>5, <2>1, WordsEnd
  <2>4. Parser!Space1(t) \in 1..g /\ Parser!Space2(t) \in 1..g
    BY <1>3, <2>3
  <2>5. Parser!Space2(t) \in Parser!Spaces2(s)
    <3>1. Parser!Space2(t) # Parser!Space1(t)
      BY <1>2, <2>3, <2>4
    <3>2. QED
      BY <1>1, <2>2, <2>3, <3>1 DEF Parser!Spaces2
  <2>6. \A i \in Parser!Spaces2(s) : Parser!Space2(t) <= i
    <3> TAKE i \in Parser!Spaces2(s)
    <3>1. i \in Parser!Spaces(s) /\ i # Parser!Space1(t)
      BY <2>2 DEF Parser!Spaces2
    <3>2. i > Parser!Space1(t)
      <4>1. i \in Nat /\ Parser!Space1(s) <= i
        BY <1>3, <2>2, <3>1, WordsEnd
      <4>2. QED
        BY <1>2, <2>2, <2>4, <3>1, <4>1
    <3>3. CASE i <= g
      BY <1>1, <2>3, <3>1, <3>2, <3>3
    <3>4. CASE ~(i <= g)
      BY <1>2, <1>3, <2>4, <3>1, <3>4
    <3>5. QED
      BY <3>3, <3>4
  <2>7. Parser!Spaces2(s) \in SUBSET Nat
    BY <1>3 DEF Parser!Spaces2
  <2>8. Parser!Space2(s) = Parser!Space2(t)
    BY <2>5, <2>6, <2>7, MinIs DEF Parser!Space2
  <2>9. Parser!Space1(t) + 1 \in Nat \ {0} /\ Parser!Space2(t) - 1 \in 0..g
    BY <1>2, <2>4
  <2>10. Parser!Path(s) = Parser!Path(t)
    BY <1>1, <2>2, <2>8, <2>9 DEF Parser!Path
  <2>11. QED
    BY <2>2, <2>5, <2>8, <2>10 DEF Parser!TwoWords
<1>6. QED
  BY <1>4, <1>5

\* The next end of a line after the place i.
EndAfter(s, i) == Parser!Min({j \in Parser!Ends(s) : j > i})

\* The end after i is the first one after it.
LEMMA NextEnd ==
  ASSUME NEW C, NEW s \in Seq(C), Parser!TwoWords(s), NEW i, NEW e \in Parser!Ends(s), i < e,
         i \in Nat
  PROVE  /\ EndAfter(s, i) \in Parser!Ends(s) /\ i < EndAfter(s, i) /\ EndAfter(s, i) <= e
         /\ \A j \in Parser!Ends(s) : j > i => EndAfter(s, i) <= j
<1> DEFINE later == {j \in Parser!Ends(s) : j > i}
<1>1. Parser!Ends(s) \subseteq Nat
  BY LinesEnd
<1>2. e > i
  BY <1>1
<1>3. later \in SUBSET Nat /\ e \in later /\ later # {}
  BY <1>1, <1>2
<1> HIDE DEF later
<1>4. Parser!Min(later) \in later /\ \A j \in later : Parser!Min(later) <= j
  BY <1>3, MinOf
<1>5. Parser!Min(later) \in Parser!Ends(s) /\ Parser!Min(later) > i
  BY <1>4 DEF later
<1>6. i < Parser!Min(later)
  BY <1>1, <1>5
<1>7. \A j \in Parser!Ends(s) : j > i => Parser!Min(later) <= j
  BY <1>4 DEF later
<1>8. QED
  BY <1>3, <1>4, <1>5, <1>6, <1>7 DEF later, EndAfter

\* The last line that names a value.
LEMMA LastLineIs ==
  ASSUME NEW C, NEW s \in Seq(C), Parser!TwoWords(s), NEW e, NEW n \in Parser!Names(s, e)
  PROVE  /\ Parser!LastLine(s, e, n) \in Parser!Naming(s, e)
         /\ Parser!NameOf(Parser!Line(s, Parser!LastLine(s, e, n))) = n
         /\ \A i \in Parser!Naming(s, e) :
              Parser!NameOf(Parser!Line(s, i)) = n => i <= Parser!LastLine(s, e, n)
<1> DEFINE mine == {i \in Parser!Naming(s, e) : Parser!NameOf(Parser!Line(s, i)) = n}
<1>1. mine \subseteq 1..Len(s) /\ Len(s) \in Nat /\ mine # {}
  <2>1. Parser!Naming(s, e) \subseteq 1..Len(s)
    BY LinesEnd DEF Parser!Naming
  <2>2. QED
    BY <2>1, LenProperties DEF Parser!Names
<1> HIDE DEF mine
<1>2. \E m \in mine : \A i \in mine : i <= m
  BY <1>1, HasLargest
<1>3. PICK m \in mine : \A i \in mine : i <= m
  BY <1>2
<1>4. mine \in SUBSET Nat
  BY <1>1
<1>5. Parser!Max(mine) = m
  BY <1>3, <1>4, MaxIs
<1>6. Parser!LastLine(s, e, n) = m
  BY <1>5 DEF Parser!LastLine, mine
<1>7. QED
  BY <1>3, <1>6 DEF mine

\* A text that goes on keeps its lines.
LEMMA LinesStay ==
  ASSUME NEW C, NEW s \in Seq(C), NEW g \in 0..Len(s), NEW t, t = SubSeq(s, 1, g),
         Parser!TwoWords(t)
  PROVE  /\ Parser!Ends(t) = {i \in Parser!Ends(s) : i < g}
         /\ Parser!Blanks(t) = {i \in Parser!Blanks(s) : i < g}
<1>1. /\ t \in Seq(C) /\ Len(t) = g
      /\ Parser!Occurrences(t, Parser!CRLF) = {i \in Parser!Occurrences(s, Parser!CRLF) : i < g}
      /\ \A i \in Nat \ {0}, j \in 0..g : SubSeq(t, i, j) = SubSeq(s, i, j)
  BY OccursInBeginning
<1>2. Len(s) \in Nat /\ g \in Nat /\ g <= Len(s)
  BY LenProperties
<1>3. /\ Parser!TwoWords(s) /\ Parser!Space1(s) = Parser!Space1(t)
      /\ Parser!Space2(s) = Parser!Space2(t) /\ Parser!Method(s) = Parser!Method(t)
      /\ Parser!Path(s) = Parser!Path(t)
  BY WordsStay DEF Parser!TwoWords
<1>4. Parser!Ends(t) = {i \in Parser!Ends(s) : i < g}
  BY <1>1, <1>3 DEF Parser!Ends
<1>5. Parser!Ends(s) \subseteq 1..Len(s) /\ Parser!Space2(s) \in 1..Len(s)
  BY <1>3, LinesEnd
<1>6. Parser!Blanks(t) = {i \in Parser!Blanks(s) : i < g}
  <2>1. \A i \in Parser!Ends(s) : i < g => i - 2 < g
    BY <1>2, <1>5
  <2>2. QED
    BY <1>4, <2>1 DEF Parser!Blanks
<1>7. QED
  BY <1>4, <1>6

\* A text that goes on keeps what its lines up to an end say.
LEMMA RequestStays ==
  ASSUME NEW C, NEW s \in Seq(C), NEW g \in 0..Len(s), NEW t, t = SubSeq(s, 1, g),
         Parser!TwoWords(t), NEW e \in Parser!Ends(t)
  PROVE  Parser!Request(s, e) = Parser!Request(t, e) /\ Parser!Names(s, e) = Parser!Names(t, e)
<1>1. /\ t \in Seq(C) /\ Len(t) = g
      /\ Parser!Occurrences(t, Parser!CRLF) = {i \in Parser!Occurrences(s, Parser!CRLF) : i < g}
      /\ \A i \in Nat \ {0}, j \in 0..g : SubSeq(t, i, j) = SubSeq(s, i, j)
  BY OccursInBeginning
<1>2. Len(s) \in Nat /\ g \in Nat /\ g <= Len(s)
  BY LenProperties
<1>3. /\ Parser!TwoWords(s) /\ Parser!Space1(s) = Parser!Space1(t)
      /\ Parser!Space2(s) = Parser!Space2(t) /\ Parser!Method(s) = Parser!Method(t)
      /\ Parser!Path(s) = Parser!Path(t)
  BY WordsStay DEF Parser!TwoWords
<1>4. Parser!Ends(t) = {i \in Parser!Ends(s) : i < g}
  BY LinesStay
<1>5. Parser!Ends(s) \subseteq 1..Len(s) /\ Parser!Space2(s) \in 1..Len(s)
  BY <1>3, LinesEnd
<1>6. ASSUME NEW i \in Parser!Ends(t), i < e
      PROVE  Parser!Line(s, i) = Parser!Line(t, i)
  <2> DEFINE next == EndAfter(t, i)
             laterS == {j \in Parser!Ends(s) : j > i}
  <2>1. i \in Nat
    BY <1>4, <1>5
  <2>2. /\ next \in Parser!Ends(t) /\ i < next
        /\ \A j \in Parser!Ends(t) : j > i => next <= j
    BY <1>1, <1>6, <2>1, NextEnd
  <2> HIDE DEF next
  <2>3. next \in Nat /\ next < g /\ next \in Parser!Ends(s) /\ next > i
    BY <1>4, <1>5, <2>1, <2>2
  <2>4. \A j \in laterS : next <= j
    <3> TAKE j \in laterS
    <3>1. CASE j < g
      BY <1>4, <2>2, <3>1
    <3>2. CASE ~(j < g)
      BY <1>2, <1>5, <2>3, <3>2
    <3>3. QED
      BY <3>1, <3>2
  <2>5. laterS \in SUBSET Nat /\ next \in laterS
    BY <1>5, <2>3
  <2> HIDE DEF laterS
  <2>6. Parser!Min(laterS) = next
    BY <2>4, <2>5, MinIs
  <2>7. i + 2 \in Nat \ {0} /\ next - 1 \in 0..g
    BY <1>2, <2>1, <2>2, <2>3
  <2>8. SubSeq(t, i + 2, next - 1) = SubSeq(s, i + 2, next - 1)
    BY <1>1, <2>7
  <2>9. QED
    BY <2>6, <2>8 DEF Parser!Line, EndAfter, next, laterS
<1>7. QED
  <2>1. \A i \in Parser!Ends(s) : i < e => i \in Parser!Ends(t)
    <3> TAKE i \in Parser!Ends(s)
    <3>1. i \in Nat /\ e \in Nat /\ e < g
      BY <1>4, <1>5
    <3>2. QED
      BY <1>2, <1>4, <3>1
  <2>2. Parser!Ends(t) \subseteq Parser!Ends(s)
    BY <1>4
  <2>3. Parser!Naming(s, e) = Parser!Naming(t, e)
    BY <1>6, <2>1, <2>2 DEF Parser!Naming
  <2>4. \A i \in Parser!Naming(t, e) : Parser!Line(s, i) = Parser!Line(t, i)
    BY <1>6 DEF Parser!Naming
  <2>5. Parser!Names(s, e) = Parser!Names(t, e)
    BY <2>3, <2>4 DEF Parser!Names
  <2>6. ASSUME NEW n \in Parser!Names(t, e)
        PROVE  Parser!ValueOf(Parser!Line(s, Parser!LastLine(s, e, n)))
                 = Parser!ValueOf(Parser!Line(t, Parser!LastLine(t, e, n)))
    <3> DEFINE mine == {i \in Parser!Naming(t, e) : Parser!NameOf(Parser!Line(t, i)) = n}
    <3>1. {i \in Parser!Naming(s, e) : Parser!NameOf(Parser!Line(s, i)) = n} = mine
      BY <2>3, <2>4
    <3>2. Parser!LastLine(s, e, n) = Parser!LastLine(t, e, n)
      BY <3>1 DEF Parser!LastLine
    <3>3. Parser!LastLine(t, e, n) \in Parser!Naming(t, e)
      BY <1>1, LastLineIs
    <3>4. QED
      BY <2>4, <3>2, <3>3
  <2>7. Parser!Headers(s, e) = Parser!Headers(t, e)
    BY <2>5, <2>6 DEF Parser!Headers
  <2>8. Parser!Version(s) = Parser!Version(t)
    <3>1. /\ Parser!Ends(t) \in SUBSET Nat /\ Parser!Ends(t) # {} /\ Parser!Ends(s) \in SUBSET Nat
      BY <1>5, <2>2
    <3>2. /\ Parser!Min(Parser!Ends(t)) \in Parser!Ends(t)
          /\ \A j \in Parser!Ends(t) : Parser!Min(Parser!Ends(t)) <= j
      BY <3>1, MinOf
    <3>3. \A j \in Parser!Ends(s) : Parser!Min(Parser!Ends(t)) <= j
      <4> TAKE j \in Parser!Ends(s)
      <4>1. CASE j < g
        BY <1>4, <3>2, <4>1
      <4>2. CASE ~(j < g)
        <5>1. /\ Parser!Min(Parser!Ends(t)) < g /\ Parser!Min(Parser!Ends(t)) \in Nat
              /\ j \in Nat
          BY <1>4, <3>1, <3>2
        <5>2. QED
          BY <1>2, <4>2, <5>1
      <4>3. QED
        BY <4>1, <4>2
    <3>4. Parser!Min(Parser!Ends(t)) \in Parser!Ends(s)
      BY <2>2, <3>2
    <3>5. Parser!Min(Parser!Ends(s)) = Parser!Min(Parser!Ends(t))
      BY <3>1, <3>3, <3>4, MinIs
    <3>6. Parser!Space2(s) + 1 \in Nat \ {0} /\ Parser!Min(Parser!Ends(t)) - 1 \in 0..g
      <4>1. /\ Parser!Min(Parser!Ends(t)) < g /\ Parser!Min(Parser!Ends(t)) \in 1..Len(s)
        BY <1>4, <1>5, <3>2
      <4>2. QED
        BY <1>2, <1>5, <4>1
    <3>7. QED
      BY <1>1, <1>3, <3>5, <3>6 DEF Parser!Version
  <2>9. QED
    BY <1>3, <2>5, <2>7, <2>8 DEF Parser!Request

\* Before the first end of a line, there is no header line.
LEMMA NoHeadersYet ==
  ASSUME NEW C, NEW s \in Seq(C), Parser!TwoWords(s), NEW q \in Parser!Ends(s),
         \A i \in Parser!Ends(s) : q <= i
  PROVE  /\ Parser!Version(s) = SubSeq(s, Parser!Space2(s) + 1, q - 1)
         /\ Parser!Headers(s, q) = Parser!Unread.headers
         /\ \A i \in Parser!Blanks(s) : i > q
<1>1. Parser!Ends(s) \in SUBSET Nat
  BY LinesEnd
<1>2. Parser!Min(Parser!Ends(s)) = q
  BY <1>1, MinIs
<1>3. Parser!Naming(s, q) = {}
  <2>1. \A i \in Parser!Ends(s) : ~(i < q)
    BY <1>1
  <2>2. QED
    BY <2>1 DEF Parser!Naming
<1>4. Parser!Names(s, q) = {}
  BY <1>3 DEF Parser!Names
<1>5. Parser!Headers(s, q) = Parser!Unread.headers
  BY <1>4 DEF Parser!Headers, Parser!Unread
<1>6. ASSUME NEW i \in Parser!Blanks(s)
      PROVE  i > q
  <2>1. i \in Parser!Ends(s) /\ i - 2 \in Parser!Ends(s)
    BY DEF Parser!Blanks
  <2>2. q <= i - 2 /\ i \in Nat /\ q \in Nat
    BY <1>1, <2>1
  <2>3. QED
    BY <2>2
<1>7. QED
  BY <1>2, <1>5, <1>6 DEF Parser!Version

\* One more line is one more header, or replaces an earlier one, or is none.
LEMMA OneMoreLine ==
  ASSUME NEW C, NEW s \in Seq(C), Parser!TwoWords(s), NEW e \in Parser!Ends(s),
         NEW q \in Parser!Ends(s), e < q, \A j \in Parser!Ends(s) : j > e => q <= j
  PROVE  /\ Parser!Line(s, e) = SubSeq(s, e + 2, q - 1)
         /\ Parser!Headers(s, q) =
              IF Parser!NamesValue(Parser!Line(s, e))
              THEN Parser!Put(Parser!Headers(s, e), Parser!NameOf(Parser!Line(s, e)),
                              Parser!ValueOf(Parser!Line(s, e)))
              ELSE Parser!Headers(s, e)
<1>1. Parser!Ends(s) \in SUBSET Nat
  BY LinesEnd
<1>2. Parser!Line(s, e) = SubSeq(s, e + 2, q - 1)
  <2> DEFINE later == {j \in Parser!Ends(s) : j > e}
  <2>1. later \in SUBSET Nat /\ q \in later /\ \A j \in later : q <= j
    BY <1>1
  <2> HIDE DEF later
  <2>2. Parser!Min(later) = q
    BY <2>1, MinIs
  <2>3. QED
    BY <2>2 DEF Parser!Line, later
<1>3. \A i \in Parser!Ends(s) : i < q <=> (i < e \/ i = e)
  <2> TAKE i \in Parser!Ends(s)
  <2>1. i \in Nat /\ e \in Nat /\ q \in Nat
    BY <1>1
  <2>2. i > e => q <= i
    OBVIOUS
  <2>3. QED
    BY <2>1, <2>2
<1>4. \A i \in Parser!Naming(s, e) : i \in Parser!Naming(s, q)
  BY <1>3 DEF Parser!Naming
<1>5. \A i \in Parser!Naming(s, q) : i \in Parser!Naming(s, e) \/ i = e
  BY <1>3 DEF Parser!Naming
<1>6. e \in Parser!Naming(s, q) <=> Parser!NamesValue(Parser!Line(s, e))
  BY DEF Parser!Naming
<1>7. e \notin Parser!Naming(s, e)
  BY <1>1 DEF Parser!Naming
<1>8. CASE ~Parser!NamesValue(Parser!Line(s, e))
  <2>1. Parser!Naming(s, q) = Parser!Naming(s, e)
    BY <1>4, <1>5, <1>6, <1>8
  <2>2. Parser!Headers(s, q) = Parser!Headers(s, e)
    BY <2>1 DEF Parser!Headers, Parser!Names, Parser!LastLine
  <2>3. QED
    BY <1>2, <1>8, <2>2
<1>9. CASE Parser!NamesValue(Parser!Line(s, e))
  <2> DEFINE name == Parser!NameOf(Parser!Line(s, e))
             value == Parser!ValueOf(Parser!Line(s, e))
  <2>1. Parser!Names(s, q) = Parser!Names(s, e) \cup {name}
    BY <1>4, <1>5, <1>6, <1>9 DEF Parser!Names
  <2>2. Parser!LastLine(s, q, name) = e
    <3> DEFINE mine == {i \in Parser!Naming(s, q) : Parser!NameOf(Parser!Line(s, i)) = name}
    <3>1. mine \in SUBSET Nat
      BY <1>1 DEF Parser!Naming
    <3>2. e \in mine
      BY <1>6, <1>9
    <3>3. \A i \in mine : i <= e
      <4> TAKE i \in mine
      <4>1. i \in Parser!Ends(s) /\ i < q
        BY DEF Parser!Naming
      <4>2. i < e \/ i = e
        BY <1>3, <4>1
      <4>3. i \in Nat /\ e \in Nat
        BY <1>1, <4>1
      <4>4. QED
        BY <4>2, <4>3
    <3> HIDE DEF mine
    <3>4. Parser!Max(mine) = e
      BY <3>1, <3>2, <3>3, MaxIs
    <3>5. QED
      BY <3>4 DEF Parser!LastLine, mine
  <2>3. ASSUME NEW n \in Parser!Names(s, e), n # name
        PROVE  Parser!LastLine(s, q, n) = Parser!LastLine(s, e, n)
    <3>1. {i \in Parser!Naming(s, q) : Parser!NameOf(Parser!Line(s, i)) = n}
            = {i \in Parser!Naming(s, e) : Parser!NameOf(Parser!Line(s, i)) = n}
      BY <1>4, <1>5, <2>3
    <3>2. QED
      BY <3>1 DEF Parser!LastLine
  <2> DEFINE old == Parser!Headers(s, e)
  <2>4. DOMAIN old = Parser!Names(s, e)
        /\ \A n \in Parser!Names(s, e) :
             old[n] = Parser!ValueOf(Parser!Line(s, Parser!LastLine(s, e, n)))
    BY DEF Parser!Headers
  <2> HIDE DEF old, name, value
  <2>5. ASSUME NEW n \in Parser!Names(s, e) \cup {name}
        PROVE  Parser!ValueOf(Parser!Line(s, Parser!LastLine(s, q, n)))
                 = IF n = name THEN value ELSE old[n]
    <3>1. CASE n = name
      BY <2>2, <3>1 DEF value
    <3>2. CASE n # name
      BY <2>3, <2>4, <3>2
    <3>3. QED
      BY <3>1, <3>2
  <2>6. Parser!Headers(s, q) = Parser!Put(old, name, value)
    BY <2>1, <2>4, <2>5 DEF Parser!Headers, Parser!Put
  <2>7. QED
    BY <1>2, <1>9, <2>6 DEF old, name, value
<1>10. QED
  BY <1>8, <1>9

\* The next line is empty, or it is not and the header goes on behind it.
LEMMA EmptyLine ==
  ASSUME NEW C, NEW s \in Seq(C), Parser!TwoWords(s), NEW e \in Parser!Ends(s),
         \A i \in Parser!Blanks(s) : i > e
  PROVE  /\ e + 2 \in Parser!Occurrences(s, Parser!CRLF) =>
              Parser!Blanks(s) # {} /\ Parser!Stop(s) = e + 2
         /\ e + 2 \notin Parser!Occurrences(s, Parser!CRLF) =>
              \A q \in Parser!Ends(s) :
                e < q /\ (\A j \in Parser!Ends(s) : j > e => q <= j) =>
                  \A i \in Parser!Blanks(s) : i > q
<1>1. /\ Parser!Ends(s) \in SUBSET Nat /\ Parser!Space2(s) \in Nat
      /\ \A i \in Parser!Ends(s) : i > Parser!Space2(s)
      /\ \A i \in Parser!Occurrences(s, Parser!CRLF) :
           i > Parser!Space2(s) => i \in Parser!Ends(s)
      /\ \A i \in Parser!Ends(s) : i + 1 \notin Parser!Ends(s)
  BY LinesEnd
<1>2. ASSUME e + 2 \in Parser!Occurrences(s, Parser!CRLF)
      PROVE  Parser!Blanks(s) # {} /\ Parser!Stop(s) = e + 2
  <2>1. e \in Nat /\ e > Parser!Space2(s)
    BY <1>1
  <2>2. e + 2 > Parser!Space2(s) /\ (e + 2) - 2 = e
    BY <1>1, <2>1
  <2>3. e + 2 \in Parser!Blanks(s)
    BY <1>1, <1>2, <2>2 DEF Parser!Blanks
  <2>4. \A i \in Parser!Blanks(s) : e + 2 <= i
    <3> TAKE i \in Parser!Blanks(s)
    <3>1. i \in Nat /\ i > e /\ i \in Parser!Ends(s)
      BY <1>1 DEF Parser!Blanks
    <3>2. i # e + 1
      BY <1>1, <3>1
    <3>3. QED
      BY <2>1, <3>1, <3>2
  <2>5. Parser!Blanks(s) \in SUBSET Nat
    BY <1>1 DEF Parser!Blanks
  <2>6. QED
    BY <2>3, <2>4, <2>5, MinIs DEF Parser!Stop
<1>3. ASSUME e + 2 \notin Parser!Occurrences(s, Parser!CRLF),
             NEW q \in Parser!Ends(s), e < q, \A j \in Parser!Ends(s) : j > e => q <= j,
             NEW i \in Parser!Blanks(s)
      PROVE  i > q
  <2>1. i \in Parser!Ends(s) /\ i - 2 \in Parser!Ends(s) /\ i > e
    BY DEF Parser!Blanks
  <2>2. i \in Nat /\ e \in Nat /\ q \in Nat /\ i - 2 \in Nat /\ q <= i
    BY <1>1, <1>3, <2>1
  <2>3. i # e + 1 /\ i # e + 2
    BY <1>1, <1>3, <2>1 DEF Parser!Ends
  <2>4. i - 2 > e
    BY <2>1, <2>2, <2>3
  <2>5. q <= i - 2
    BY <1>3, <2>1, <2>4
  <2>6. QED
    BY <2>2, <2>5
<1>4. QED
  BY <1>2, <1>3

\* What parse() has been given, and how its buffer is the end of it.
LEMMA BufferIs ==
  ASSUME Parser!TypeOK
  PROVE  /\ Parser!Given \in Seq(Parser!Characters) /\ Len(Parser!Given) = given
         /\ given \in Nat /\ given <= Len(text) /\ Len(text) \in Nat
         /\ Parser!Consumed \in 0..Len(Parser!Given)
         /\ buffer = SubSeq(Parser!Given, Parser!Consumed + 1, Len(Parser!Given))
         /\ Len(buffer) = given - Parser!Consumed
<1>1. /\ text \in Seq(Parser!Characters) /\ given \in 0..Len(text)
      /\ Parser!Consumed \in 0..given
      /\ buffer = SubSeq(Parser!Given, Parser!Consumed + 1, given)
  BY DEF Parser!TypeOK
<1>2. Len(text) \in Nat
  BY <1>1, LenProperties
<1>3. Parser!Given \in Seq(Parser!Characters) /\ Len(Parser!Given) = given
  BY <1>1, OccursInBeginning DEF Parser!Given
<1>4. given \in Nat /\ given <= Len(text) /\ Parser!Consumed \in 0..Len(Parser!Given)
  BY <1>1, <1>2, <1>3
<1>5. Len(buffer) = given - Parser!Consumed
  <2>1. Len(SubSeq(Parser!Given, Parser!Consumed + 1, Len(Parser!Given)))
          = Len(Parser!Given) - Parser!Consumed
    BY <1>3, <1>4, OccursInRest
  <2>2. QED
    BY <1>1, <1>3, <2>1
<1>6. QED
  BY <1>1, <1>2, <1>3, <1>4, <1>5

\* A turn of the loop that leaves in the buffer what comes after the place d.
LEMMA TurnKeeps ==
  ASSUME Parser!TypeOK, UNCHANGED <<text, given, outcome>>, NEW d \in 0..given,
         buffer' = SubSeq(Parser!Given, d + 1, given),
         state' \in {"METHOD", "PATH", "VERSION", "HEADER", "BODY", "DONE"}
  PROVE  Parser!TypeOK' /\ Parser!Given' = Parser!Given /\ Parser!Consumed' = d
<1>1. /\ Parser!Given \in Seq(Parser!Characters) /\ Len(Parser!Given) = given
      /\ given \in Nat
  BY BufferIs
<1>2. Parser!Given' = Parser!Given
  BY DEF Parser!Given
<1>3. Len(buffer') = given - d
  <2>1. d \in 0..Len(Parser!Given)
    BY <1>1
  <2>2. Len(SubSeq(Parser!Given, d + 1, Len(Parser!Given))) = Len(Parser!Given) - d
    BY <1>1, <2>1, OccursInRest
  <2>3. QED
    BY <1>1, <2>2
<1>4. Parser!Consumed' = d
  <2>1. given - (given - d) = d
    BY <1>1
  <2>2. QED
    BY <1>3, <2>1 DEF Parser!Consumed
<1>5. QED
  BY <1>2, <1>4 DEF Parser!TypeOK

\* substr(0, 2) == "\r\n".
LEMMA BeginsWithCRLF ==
  ASSUME Parser!TypeOK
  PROVE  Parser!IsPrefix(Parser!CRLF, buffer) <=>
           Parser!Consumed + 1 \in Parser!Occurrences(Parser!Given, Parser!CRLF)
<1> DEFINE t == Parser!Given
           c == Parser!Consumed
<1>1. /\ t \in Seq(Parser!Characters) /\ Len(t) = given /\ given \in Nat
      /\ c \in 0..Len(t) /\ buffer = SubSeq(t, c + 1, Len(t)) /\ Len(buffer) = given - c
  BY BufferIs
<1>2. DOMAIN t = 1..Len(t)
  BY <1>1, LenProperties
<1> HIDE DEF t, c
<1>3. CASE c = Len(t)
  <2>1. Len(Parser!CRLF) = 2 /\ Len(buffer) = 0
    BY <1>1, <1>3 DEF Parser!CRLF
  <2>2. ~Parser!IsPrefix(Parser!CRLF, buffer)
    BY <2>1 DEF Parser!IsPrefix
  <2>3. c + 1 \notin DOMAIN t
    BY <1>1, <1>2, <1>3
  <2>4. QED
    BY <2>2, <2>3 DEF Parser!Occurrences, t, c
<1>4. CASE c # Len(t)
  <2>1. c + 1 \in DOMAIN t
    BY <1>1, <1>2, <1>4
  <2>2. QED
    BY <1>1, <2>1 DEF Parser!Occurrences, t, c
<1>5. QED
  BY <1>3, <1>4

\* A word, and a line, in the rest w of a text.
LEMMA CutAtSpace ==
  ASSUME NEW C, NEW s \in Seq(C), NEW c \in 0..Len(s), NEW w, w = SubSeq(s, c + 1, Len(s)),
         Parser!Found(w, <<Parser!SP>>)
  PROVE  \E q \in (c + 1)..Len(s) :
           /\ q \in Parser!Spaces(s) /\ q + 1 - 1 <= Len(s)
           /\ \A i \in Parser!Spaces(s) : i > c => q <= i
           /\ Parser!Before(w, <<Parser!SP>>) = SubSeq(s, c + 1, q - 1)
           /\ Parser!After(w, <<Parser!SP>>) = SubSeq(s, q + 1, Len(s))
<1> DEFINE p == <<Parser!SP>>
<1>1. Len(p) = 1 /\ Len(p) \in Nat \ {0}
  BY DEF Parser!CRLF
<1>2. \A i \in Parser!Spaces(s) : i \in 1..Len(s) /\ i + 1 - 1 <= Len(s)
  <2> TAKE i \in Parser!Spaces(s)
  <2>1. i \in 1..Len(s) /\ Len(s) \in Nat
    BY PatternsAre, LenProperties
  <2>2. QED
    BY <2>1
<1>3. Parser!Occurrences(s, p) = Parser!Spaces(s)
  BY DEF Parser!Spaces
<1> HIDE DEF p
<1>4. \A i \in Parser!Occurrences(s, p) : i + Len(p) - 1 <= Len(s)
  BY <1>1, <1>2, <1>3
<1>5. Parser!Found(SubSeq(s, c + 1, Len(s)), p)
  BY DEF p
<1>6. PICK q \in (c + 1)..Len(s) :
        /\ q \in Parser!Occurrences(s, p) /\ q + Len(p) - 1 <= Len(s)
        /\ \A i \in Parser!Occurrences(s, p) : i > c => q <= i
        /\ Parser!Before(SubSeq(s, c + 1, Len(s)), p) = SubSeq(s, c + 1, q - 1)
        /\ Parser!After(SubSeq(s, c + 1, Len(s)), p) = SubSeq(s, q + Len(p), Len(s))
  BY <1>1, <1>4, <1>5, CutAtFirst
<1>7. QED
  BY <1>1, <1>3, <1>6 DEF p

\* find() of a CRLF in the buffer, and what it cuts off.
LEMMA CutAtCRLF ==
  ASSUME NEW C, NEW s \in Seq(C), NEW c \in 0..Len(s), NEW w, w = SubSeq(s, c + 1, Len(s)),
         Parser!Found(w, Parser!CRLF)
  PROVE  \E q \in (c + 1)..Len(s) :
           /\ q \in Parser!Occurrences(s, Parser!CRLF) /\ q + 2 - 1 <= Len(s)
           /\ \A i \in Parser!Occurrences(s, Parser!CRLF) : i > c => q <= i
           /\ Parser!Before(w, Parser!CRLF) = SubSeq(s, c + 1, q - 1)
           /\ Parser!After(w, Parser!CRLF) = SubSeq(s, q + 2, Len(s))
<1> DEFINE p == Parser!CRLF
<1>1. Len(p) = 2 /\ Len(p) \in Nat \ {0}
  BY DEF Parser!CRLF
<1>2. \A i \in Parser!Occurrences(s, Parser!CRLF) : i \in 1..Len(s) /\ i + 2 - 1 <= Len(s)
  <2> TAKE i \in Parser!Occurrences(s, Parser!CRLF)
  <2>1. i \in 1..Len(s) /\ Len(s) \in Nat /\ i + 1 <= Len(s)
    BY PatternsAre, LenProperties
  <2>2. QED
    BY <2>1
<1>3. Parser!Occurrences(s, p) = Parser!Occurrences(s, Parser!CRLF)
  BY DEF Parser!Spaces
<1> HIDE DEF p
<1>4. \A i \in Parser!Occurrences(s, p) : i + Len(p) - 1 <= Len(s)
  BY <1>1, <1>2, <1>3
<1>5. Parser!Found(SubSeq(s, c + 1, Len(s)), p)
  BY DEF p
<1>6. PICK q \in (c + 1)..Len(s) :
        /\ q \in Parser!Occurrences(s, p) /\ q + Len(p) - 1 <= Len(s)
        /\ \A i \in Parser!Occurrences(s, p) : i > c => q <= i
        /\ Parser!Before(SubSeq(s, c + 1, Len(s)), p) = SubSeq(s, c + 1, q - 1)
        /\ Parser!After(SubSeq(s, c + 1, Len(s)), p) = SubSeq(s, q + Len(p), Len(s))
  BY <1>1, <1>4, <1>5, CutAtFirst
<1>7. QED
  BY <1>1, <1>3, <1>6 DEF p

\* Taking the words.
LEMMA MethodTaken ==
  ASSUME Parser!ParserInv, Parser!TakeMethod
  PROVE  Parser!ParserInv'
<1> DEFINE t == Parser!Given
           c == Parser!Consumed
<1>1. Parser!TypeOK /\ Parser!Progress(t)
  BY DEF Parser!ParserInv
<1>2. /\ t \in Seq(Parser!Characters) /\ Len(t) = given /\ given \in Nat
      /\ c \in 0..Len(t) /\ buffer = SubSeq(t, c + 1, Len(t))
  BY <1>1, BufferIs
<1>3. /\ outcome = "parsing" /\ state = "METHOD" /\ Parser!Found(buffer, <<Parser!SP>>)
      /\ req' = [req EXCEPT !.method = Parser!Before(buffer, <<Parser!SP>>)]
      /\ buffer' = Parser!After(buffer, <<Parser!SP>>)
      /\ state' = "PATH" /\ UNCHANGED <<text, given, outcome>>
  BY DEF Parser!TakeMethod, Parser!TakeWord
<1>4. c = 0 /\ req = Parser!Unread
  BY <1>1, <1>3 DEF Parser!Progress
<1> HIDE DEF t, c
<1>5. PICK q \in (c + 1)..Len(t) :
        /\ q \in Parser!Spaces(t)
        /\ \A i \in Parser!Spaces(t) : i > c => q <= i
        /\ Parser!Before(buffer, <<Parser!SP>>) = SubSeq(t, c + 1, q - 1)
        /\ Parser!After(buffer, <<Parser!SP>>) = SubSeq(t, q + 1, Len(t))
  BY <1>2, <1>3, CutAtSpace
<1>6. Parser!Spaces(t) \subseteq 1..Len(t) /\ q \in 0..given
  BY <1>2, <1>5, PatternsAre
<1>7. \A i \in Parser!Spaces(t) : q <= i
  BY <1>2, <1>4, <1>5, <1>6
<1>8. Parser!Space1(t) = q
  <2>1. Parser!Spaces(t) \in SUBSET Nat
    BY <1>6
  <2>2. QED
    BY <1>5, <1>7, <2>1, MinIs DEF Parser!Space1
<1>9. Parser!TypeOK' /\ Parser!Given' = t /\ Parser!Consumed' = q
  BY <1>1, <1>2, <1>3, <1>5, <1>6, TurnKeeps DEF t
<1>10. req' = [Parser!Unread EXCEPT !.method = Parser!Method(t)]
  <2>1. c + 1 = 1
    BY <1>4
  <2>2. Parser!Method(t) = SubSeq(t, c + 1, q - 1)
    BY <1>8, <2>1 DEF Parser!Method
  <2>3. QED
    BY <1>3, <1>4, <1>5, <2>2
<1>11. Parser!Spaces(t) # {}
  BY <1>5
<1>12. Parser!Progress(Parser!Given)'
  BY <1>3, <1>8, <1>9, <1>10, <1>11 DEF Parser!Progress
<1>13. QED
  BY <1>3, <1>9, <1>12 DEF Parser!ParserInv

\* The second word is the path.
LEMMA PathTaken ==
  ASSUME Parser!ParserInv, Parser!TakePath
  PROVE  Parser!ParserInv'
<1> DEFINE t == Parser!Given
           c == Parser!Consumed
<1>1. Parser!TypeOK /\ Parser!Progress(t)
  BY DEF Parser!ParserInv
<1>2. /\ t \in Seq(Parser!Characters) /\ Len(t) = given /\ given \in Nat
      /\ c \in 0..Len(t) /\ buffer = SubSeq(t, c + 1, Len(t))
  BY <1>1, BufferIs
<1>3. /\ outcome = "parsing" /\ state = "PATH" /\ Parser!Found(buffer, <<Parser!SP>>)
      /\ req' = [req EXCEPT !.path = Parser!Before(buffer, <<Parser!SP>>)]
      /\ buffer' = Parser!After(buffer, <<Parser!SP>>)
      /\ state' = "VERSION" /\ UNCHANGED <<text, given, outcome>>
  BY DEF Parser!TakePath, Parser!TakeWord
<1>4. /\ Parser!Spaces(t) # {} /\ c = Parser!Space1(t)
      /\ req = [Parser!Unread EXCEPT !.method = Parser!Method(t)]
  BY <1>1, <1>3 DEF Parser!Progress
<1> HIDE DEF t, c
<1>5. PICK q \in (c + 1)..Len(t) :
        /\ q \in Parser!Spaces(t)
        /\ \A i \in Parser!Spaces(t) : i > c => q <= i
        /\ Parser!Before(buffer, <<Parser!SP>>) = SubSeq(t, c + 1, q - 1)
        /\ Parser!After(buffer, <<Parser!SP>>) = SubSeq(t, q + 1, Len(t))
  BY <1>2, <1>3, CutAtSpace
<1>6. Parser!Spaces(t) \subseteq 1..Len(t) /\ q \in 0..given /\ q # c
  BY <1>2, <1>5, PatternsAre
<1>7. Parser!Spaces2(t) \in SUBSET Nat /\ q \in Parser!Spaces2(t)
  BY <1>4, <1>5, <1>6 DEF Parser!Spaces2
<1>8. \A i \in Parser!Spaces2(t) : q <= i
  <2> TAKE i \in Parser!Spaces2(t)
  <2>1. i \in Parser!Spaces(t) /\ i # c /\ c <= i
    BY <1>2, <1>4, WordsEnd DEF Parser!Spaces2
  <2>2. i > c
    BY <1>2, <1>7, <2>1
  <2>3. QED
    BY <1>5, <2>1, <2>2
<1>9. Parser!Space2(t) = q /\ Parser!TwoWords(t)
  BY <1>4, <1>7, <1>8, MinIs DEF Parser!Space2, Parser!TwoWords
<1>10. Parser!TypeOK' /\ Parser!Given' = t /\ Parser!Consumed' = q
  BY <1>1, <1>2, <1>3, <1>5, <1>6, TurnKeeps DEF t
<1>11. req' = [Parser!Unread EXCEPT !.method = Parser!Method(t), !.path = Parser!Path(t)]
  BY <1>3, <1>4, <1>5, <1>9 DEF Parser!Path
<1>12. Parser!Progress(Parser!Given)'
  BY <1>3, <1>9, <1>10, <1>11 DEF Parser!Progress
<1>13. QED
  BY <1>3, <1>10, <1>12 DEF Parser!ParserInv

\* What the first line has after its second space is the version.
LEMMA VersionTaken ==
  ASSUME Parser!ParserInv, Parser!TakeVersion
  PROVE  Parser!ParserInv'
<1> DEFINE t == Parser!Given
           c == Parser!Consumed
<1>1. Parser!TypeOK /\ Parser!Progress(t)
  BY DEF Parser!ParserInv
<1>2. /\ t \in Seq(Parser!Characters) /\ Len(t) = given /\ given \in Nat
      /\ c \in 0..Len(t) /\ buffer = SubSeq(t, c + 1, Len(t))
  BY <1>1, BufferIs
<1>3. /\ outcome = "parsing" /\ state = "VERSION" /\ Parser!Found(buffer, Parser!CRLF)
      /\ req' = [req EXCEPT !.version = Parser!Before(buffer, Parser!CRLF)]
      /\ buffer' = Parser!After(buffer, Parser!CRLF)
      /\ state' = "HEADER" /\ UNCHANGED <<text, given, outcome>>
  BY DEF Parser!TakeVersion, Parser!TakeWord
<1>4. /\ Parser!TwoWords(t) /\ c = Parser!Space2(t)
      /\ req = [Parser!Unread EXCEPT !.method = Parser!Method(t), !.path = Parser!Path(t)]
  BY <1>1, <1>3 DEF Parser!Progress
<1> HIDE DEF t, c
<1>5. PICK q \in (c + 1)..Len(t) :
        /\ q \in Parser!Occurrences(t, Parser!CRLF) /\ q + 2 - 1 <= Len(t)
        /\ \A i \in Parser!Occurrences(t, Parser!CRLF) : i > c => q <= i
        /\ Parser!Before(buffer, Parser!CRLF) = SubSeq(t, c + 1, q - 1)
        /\ Parser!After(buffer, Parser!CRLF) = SubSeq(t, q + 2, Len(t))
  BY <1>2, <1>3, CutAtCRLF
<1>6. q + 1 \in 0..given /\ q > c /\ (q + 1) + 1 = q + 2 /\ (q + 1) - 1 = q
  BY <1>2, <1>5
<1>7. q \in Parser!Ends(t) /\ \A i \in Parser!Ends(t) : q <= i
  BY <1>4, <1>5, <1>6 DEF Parser!Ends
<1>8. /\ Parser!Version(t) = SubSeq(t, c + 1, q - 1)
      /\ Parser!Headers(t, q) = Parser!Unread.headers
      /\ \A i \in Parser!Blanks(t) : i > q
  BY <1>2, <1>4, <1>7, NoHeadersYet
<1>9. Parser!TypeOK' /\ Parser!Given' = t /\ Parser!Consumed' = q + 1
  BY <1>1, <1>2, <1>3, <1>5, <1>6, TurnKeeps DEF t
<1>10. req' = Parser!Request(t, q)
  BY <1>3, <1>4, <1>5, <1>8 DEF Parser!Request, Parser!Unread
<1>11. Parser!Progress(Parser!Given)'
  BY <1>3, <1>4, <1>6, <1>7, <1>8, <1>9, <1>10 DEF Parser!Progress
<1>12. QED
  BY <1>3, <1>9, <1>11 DEF Parser!ParserInv

\* Taking the header.
LEMMA HeaderEnded ==
  ASSUME Parser!ParserInv, Parser!EndHeader
  PROVE  Parser!ParserInv'
<1> DEFINE t == Parser!Given
           c == Parser!Consumed
           e == c - 1
<1>1. Parser!TypeOK /\ Parser!Progress(t)
  BY DEF Parser!ParserInv
<1>2. /\ t \in Seq(Parser!Characters) /\ Len(t) = given /\ given \in Nat
      /\ c \in 0..Len(t) /\ buffer = SubSeq(t, c + 1, Len(t)) /\ Len(buffer) = given - c
  BY <1>1, BufferIs
<1>3. /\ outcome = "parsing" /\ state = "HEADER" /\ Parser!IsPrefix(Parser!CRLF, buffer)
      /\ buffer' = SubSeq(buffer, 3, Len(buffer))
      /\ state' = IF req.method = <<Parser!Post>> THEN "BODY" ELSE "DONE"
      /\ UNCHANGED <<text, given, req, outcome>>
  BY DEF Parser!EndHeader
<1>4. /\ Parser!TwoWords(t) /\ e \in Parser!Ends(t)
      /\ \A i \in Parser!Blanks(t) : i > e
      /\ req = Parser!Request(t, e)
  BY <1>1, <1>3 DEF Parser!Progress
<1>5. c + 1 \in Parser!Occurrences(t, Parser!CRLF)
  BY <1>1, <1>3, BeginsWithCRLF
<1> HIDE DEF t, c
<1>6. e + 2 = c + 1 /\ (c + 1) - 2 = e
  BY <1>2
<1>7. Parser!Blanks(t) # {} /\ Parser!Stop(t) = c + 1
  <2>1. e + 2 \in Parser!Occurrences(t, Parser!CRLF)
    BY <1>5, <1>6
  <2> HIDE DEF e
  <2>2. Parser!Blanks(t) # {} /\ Parser!Stop(t) = e + 2
    BY <1>2, <1>4, <2>1, EmptyLine
  <2>3. QED
    BY <1>6, <2>2
<1>8. req = Parser!Bodiless(t)
  BY <1>4, <1>6, <1>7 DEF Parser!Bodiless
<1>9. req.method = Parser!Method(t)
  BY <1>4 DEF Parser!Request
<1>10. c + 2 \in 0..given
  <2>1. c + 1 \in 1..Len(t) /\ (c + 1) + 1 <= Len(t)
    BY <1>2, <1>5, PatternsAre
  <2>2. QED
    BY <1>2, <2>1
<1>11. buffer' = SubSeq(t, (c + 2) + 1, given)
  <2> DEFINE j == Len(t) - c
  <2>1. Len(t) \in c..Len(t)
    BY <1>2
  <2>2. j \in 0..(Len(t) - c) /\ c + j = given /\ Len(buffer) = j
    BY <1>2
  <2> HIDE DEF j
  <2>3. SubSeq(SubSeq(t, c + 1, Len(t)), 3, j) = SubSeq(t, c + 3, c + j)
    BY <1>2, <2>1, <2>2, PartOfPart
  <2>4. c + 3 = (c + 2) + 1
    BY <1>2
  <2>5. QED
    BY <1>2, <1>3, <2>2, <2>3, <2>4
<1>12. Parser!TypeOK' /\ Parser!Given' = t /\ Parser!Consumed' = c + 2
  BY <1>1, <1>3, <1>10, <1>11, TurnKeeps DEF t
<1>13. c + 2 = Parser!Stop(t) + 1
  BY <1>2, <1>7
<1>14. Parser!Progress(Parser!Given)'
  <2>1. CASE req.method = <<Parser!Post>>
    BY <1>3, <1>4, <1>7, <1>8, <1>9, <1>12, <1>13, <2>1 DEF Parser!Progress
  <2>2. CASE req.method # <<Parser!Post>>
    <3>1. ~Parser!Bodied(t)
      BY <1>9, <2>2 DEF Parser!Bodied
    <3>2. QED
      BY <1>3, <1>4, <1>7, <1>8, <1>12, <1>13, <2>2, <3>1 DEF Parser!Progress
  <2>3. QED
    BY <2>1, <2>2
<1>15. QED
  BY <1>3, <1>12, <1>14 DEF Parser!ParserInv

\* A line that is not empty adds its value to those of the lines before it.
LEMMA HeaderTaken ==
  ASSUME Parser!ParserInv, Parser!TakeHeader
  PROVE  Parser!ParserInv'
<1> DEFINE t == Parser!Given
           c == Parser!Consumed
           e == c - 1
           line == Parser!Before(buffer, Parser!CRLF)
<1>1. Parser!TypeOK /\ Parser!Progress(t)
  BY DEF Parser!ParserInv
<1>2. /\ t \in Seq(Parser!Characters) /\ Len(t) = given /\ given \in Nat
      /\ c \in 0..Len(t) /\ buffer = SubSeq(t, c + 1, Len(t))
  BY <1>1, BufferIs
<1>3. /\ outcome = "parsing" /\ state = "HEADER" /\ ~Parser!IsPrefix(Parser!CRLF, buffer)
      /\ Parser!Found(buffer, Parser!CRLF)
      /\ buffer' = Parser!After(buffer, Parser!CRLF)
      /\ req' = IF Parser!NamesValue(line)
                THEN [req EXCEPT !.headers = Parser!Put(@, Parser!NameOf(line),
                                                        Parser!ValueOf(line))]
                ELSE req
      /\ state' = "HEADER" /\ UNCHANGED <<text, given, outcome>>
  BY DEF Parser!TakeHeader
<1>4. /\ Parser!TwoWords(t) /\ e \in Parser!Ends(t)
      /\ \A i \in Parser!Blanks(t) : i > e
      /\ req = Parser!Request(t, e)
  BY <1>1, <1>3 DEF Parser!Progress
<1>5. c + 1 \notin Parser!Occurrences(t, Parser!CRLF)
  BY <1>1, <1>3, BeginsWithCRLF
<1> HIDE DEF t, c
<1>6. e + 2 = c + 1 /\ e + 1 = c
  BY <1>2
<1>7. PICK q \in (c + 1)..Len(t) :
        /\ q \in Parser!Occurrences(t, Parser!CRLF) /\ q + 2 - 1 <= Len(t)
        /\ \A i \in Parser!Occurrences(t, Parser!CRLF) : i > c => q <= i
        /\ line = SubSeq(t, c + 1, q - 1)
        /\ Parser!After(buffer, Parser!CRLF) = SubSeq(t, q + 2, Len(t))
  BY <1>2, <1>3, CutAtCRLF
<1> HIDE DEF e, line
<1>8. /\ q + 1 \in 0..given /\ q > c /\ (q + 1) + 1 = q + 2 /\ (q + 1) - 1 = q
      /\ e < q /\ e \in Int
  BY <1>2, <1>7 DEF e
<1>9. /\ Parser!Ends(t) \subseteq 1..Len(t) /\ Parser!Space2(t) \in 1..Len(t)
      /\ e > Parser!Space2(t) /\ e + 1 \notin Parser!Occurrences(t, Parser!CRLF)
      /\ \A i \in Parser!Occurrences(t, Parser!CRLF) :
           i > Parser!Space2(t) => i \in Parser!Ends(t)
  BY <1>2, <1>4, LinesEnd
<1>10. q \in Parser!Ends(t)
  <2>1. q > Parser!Space2(t)
    BY <1>2, <1>8, <1>9
  <2>2. QED
    BY <1>7, <1>9, <2>1
<1>11. \A j \in Parser!Ends(t) : j > e => q <= j
  <2> SUFFICES ASSUME NEW j \in Parser!Ends(t), j > e
               PROVE  q <= j
    OBVIOUS
  <2>1. j \in Parser!Occurrences(t, Parser!CRLF) /\ j \in 1..Len(t)
    BY <1>9 DEF Parser!Ends
  <2>2. j # e + 1
    BY <1>9, <2>1
  <2>3. j > c
    BY <1>2, <1>6, <1>8, <2>1, <2>2
  <2>4. QED
    BY <1>7, <2>1, <2>3
<1>12. /\ Parser!Line(t, e) = SubSeq(t, e + 2, q - 1)
       /\ Parser!Headers(t, q) =
            IF Parser!NamesValue(Parser!Line(t, e))
            THEN Parser!Put(Parser!Headers(t, e), Parser!NameOf(Parser!Line(t, e)),
                            Parser!ValueOf(Parser!Line(t, e)))
            ELSE Parser!Headers(t, e)
  BY <1>2, <1>4, <1>8, <1>10, <1>11, OneMoreLine
<1>13. line = Parser!Line(t, e)
  BY <1>6, <1>7, <1>12
<1>14. req' = Parser!Request(t, q)
  <2>1. CASE Parser!NamesValue(line)
    BY <1>3, <1>4, <1>12, <1>13, <2>1 DEF Parser!Request
  <2>2. CASE ~Parser!NamesValue(line)
    BY <1>3, <1>4, <1>12, <1>13, <2>2 DEF Parser!Request
  <2>3. QED
    BY <2>1, <2>2
<1>15. \A i \in Parser!Blanks(t) : i > q
  <2>1. e + 2 \notin Parser!Occurrences(t, Parser!CRLF)
    BY <1>5, <1>6
  <2>2. QED
    BY <1>2, <1>4, <1>8, <1>10, <1>11, <2>1, EmptyLine
<1>16. Parser!TypeOK' /\ Parser!Given' = t /\ Parser!Consumed' = q + 1
  <2>1. buffer' = SubSeq(t, (q + 1) + 1, given)
    BY <1>2, <1>3, <1>7, <1>8
  <2>2. QED
    BY <1>1, <1>3, <1>8, <2>1, TurnKeeps DEF t
<1>17. Parser!Progress(Parser!Given)'
  BY <1>3, <1>4, <1>8, <1>10, <1>14, <1>15, <1>16 DEF Parser!Progress
<1>18. QED
  BY <1>3, <1>16, <1>17 DEF Parser!ParserInv

\* The first empty line.
LEMMA StopIs ==
  ASSUME NEW C, NEW s \in Seq(C), Parser!TwoWords(s), Parser!Blanks(s) # {}
  PROVE  /\ Parser!Stop(s) \in Parser!Blanks(s) /\ Parser!Stop(s) \in Nat
         /\ Parser!Stop(s) + 1 <= Len(s)
         /\ Parser!Stop(s) - 2 \in Parser!Ends(s)
         /\ \A i \in Parser!Blanks(s) : Parser!Stop(s) <= i
<1>1. Parser!Blanks(s) \in SUBSET Nat
  BY LinesEnd DEF Parser!Blanks
<1>2. /\ Parser!Stop(s) \in Parser!Blanks(s) /\ Parser!Stop(s) \in Nat
      /\ \A i \in Parser!Blanks(s) : Parser!Stop(s) <= i
  BY <1>1, MinOf DEF Parser!Stop
<1>3. QED
  BY <1>2, LinesEnd DEF Parser!Blanks

\* The body.
LEMMA InBody ==
  ASSUME Parser!ParserInv, state = "BODY"
  PROVE  /\ Parser!HasLength <=> Parser!Bodied(Parser!Given)
         /\ req.headers[Parser!ContentLength] = Parser!Declared(Parser!Given)
         /\ Parser!Length = Parser!Size(Parser!Given)
         /\ buffer = Parser!Rest(Parser!Given)
<1> DEFINE t == Parser!Given
<1>1. Parser!TypeOK /\ Parser!Progress(t)
  BY DEF Parser!ParserInv
<1>2. /\ Parser!Method(t) = <<Parser!Post>> /\ Parser!Consumed = Parser!Stop(t) + 1
      /\ req = Parser!Bodiless(t) /\ Parser!Blanks(t) # {} /\ Parser!TwoWords(t)
  BY <1>1 DEF Parser!Progress
<1>3. /\ t \in Seq(Parser!Characters)
      /\ buffer = SubSeq(t, Parser!Consumed + 1, Len(t))
  BY <1>1, BufferIs
<1> HIDE DEF t
<1>4. req.headers = Parser!Headers(t, Parser!Stop(t) - 2)
  BY <1>2 DEF Parser!Bodiless, Parser!Request
<1>5. DOMAIN req.headers = Parser!Names(t, Parser!Stop(t) - 2)
  BY <1>4 DEF Parser!Headers
<1>6. Parser!HasLength <=> Parser!Bodied(t)
  BY <1>2, <1>5 DEF Parser!HasLength, Parser!Bodied
<1>7. req.headers[Parser!ContentLength] = Parser!Declared(t)
  BY <1>4 DEF Parser!Declared
<1>8. Parser!Length = Parser!Size(t)
  BY <1>7 DEF Parser!Length, Parser!Size
<1>9. buffer = Parser!Rest(t)
  <2>1. Parser!Stop(t) \in Nat
    BY <1>2, <1>3, StopIs
  <2>2. (Parser!Stop(t) + 1) + 1 = Parser!Stop(t) + 2
    BY <2>1
  <2>3. QED
    BY <1>2, <1>3, <2>2 DEF Parser!Rest
<1>10. QED
  BY <1>6, <1>7, <1>8, <1>9 DEF t

\* A POST without Content-Length has no body.
LEMMA BodySkipped ==
  ASSUME Parser!ParserInv, Parser!SkipBody
  PROVE  Parser!ParserInv'
<1> DEFINE t == Parser!Given
<1>1. Parser!TypeOK /\ Parser!Progress(t)
  BY DEF Parser!ParserInv
<1>2. /\ outcome = "parsing" /\ state = "BODY" /\ ~Parser!HasLength /\ state' = "DONE"
      /\ UNCHANGED <<text, given, buffer, req, outcome>>
  BY DEF Parser!SkipBody
<1>3. ~Parser!Bodied(t)
  BY <1>2, InBody
<1>4. Parser!TypeOK' /\ Parser!Given' = t /\ Parser!Consumed' = Parser!Consumed
  BY <1>1, <1>2 DEF Parser!TypeOK, Parser!Given, Parser!Consumed
<1> HIDE DEF t
<1>5. Parser!Progress(Parser!Given)'
  BY <1>1, <1>2, <1>3, <1>4 DEF Parser!Progress
<1>6. QED
  BY <1>2, <1>4, <1>5 DEF Parser!ParserInv

\* The body is the first part of what follows the header, when all of it is there.
LEMMA BodyTaken ==
  ASSUME Parser!ParserInv, Parser!TakeBody
  PROVE  Parser!ParserInv'
<1> DEFINE t == Parser!Given
           c == Parser!Consumed
           size == Parser!Size(t)
<1>1. Parser!TypeOK /\ Parser!Progress(t)
  BY DEF Parser!ParserInv
<1>2. /\ t \in Seq(Parser!Characters) /\ Len(t) = given /\ given \in Nat
      /\ c \in 0..Len(t) /\ buffer = SubSeq(t, c + 1, Len(t)) /\ Len(buffer) = given - c
  BY <1>1, BufferIs
<1>3. state = "BODY" /\ outcome = "parsing"
  BY DEF Parser!TakeBody
<1>4. /\ Parser!HasLength <=> Parser!Bodied(t)
      /\ req.headers[Parser!ContentLength] = Parser!Declared(t)
      /\ Parser!Length = size
      /\ buffer = Parser!Rest(t)
  BY <1>3, InBody
<1>5. /\ Parser!Bodied(t) /\ ~Parser!Throws(Parser!Declared(t))
      /\ size \in 0..Len(buffer)
      /\ req' = [req EXCEPT !.body = SubSeq(buffer, 1, size)]
      /\ buffer' = SubSeq(buffer, size + 1, Len(buffer))
      /\ state' = "DONE" /\ UNCHANGED <<text, given, outcome>>
  BY <1>4 DEF Parser!TakeBody, Parser!Enough
<1>6. /\ Parser!TwoWords(t) /\ Parser!Blanks(t) # {} /\ c = Parser!Stop(t) + 1
      /\ req = Parser!Bodiless(t)
  BY <1>1, <1>3 DEF Parser!Progress
<1> HIDE DEF t, c, size
<1>7. c + size \in 0..given /\ size \in Nat /\ size <= given - c
  <2>1. given \in Nat /\ c \in Nat /\ c <= given
    BY <1>2
  <2>2. size \in 0..(given - c)
    BY <1>2, <1>5
  <2>3. QED
    BY <2>1, <2>2
<1>8. buffer' = SubSeq(t, (c + size) + 1, given)
  <2> DEFINE i == size + 1
             j == Len(t) - c
  <2>1. Len(t) \in c..Len(t)
    BY <1>2
  <2>2. i \in Nat \ {0} /\ c + i = (c + size) + 1
    BY <1>2, <1>7
  <2>3. j \in 0..(Len(t) - c) /\ c + j = given /\ Len(buffer) = j
    BY <1>2
  <2>4. buffer' = SubSeq(buffer, i, Len(buffer))
    BY <1>5
  <2> HIDE DEF i, j
  <2>5. SubSeq(SubSeq(t, c + 1, Len(t)), i, j) = SubSeq(t, c + i, c + j)
    BY <1>2, <2>1, <2>2, <2>3, PartOfPart
  <2>6. QED
    BY <1>2, <2>2, <2>3, <2>4, <2>5
<1>9. Parser!TypeOK' /\ Parser!Given' = t /\ Parser!Consumed' = c + size
  BY <1>1, <1>5, <1>7, <1>8, TurnKeeps DEF t
<1>10. req' = [Parser!Bodiless(t) EXCEPT !.body = SubSeq(Parser!Rest(t), 1, size)]
  BY <1>4, <1>5, <1>6
<1>11. c + size = Parser!Stop(t) + 1 + size
  BY <1>6
<1>12. Parser!Progress(Parser!Given)'
  BY <1>5, <1>6, <1>7, <1>9, <1>10, <1>11 DEF Parser!Progress, size
<1>13. QED
  BY <1>3, <1>5, <1>9, <1>12 DEF Parser!ParserInv

\* Fragments that come, answers, and the next request.
LEMMA Returned ==
  ASSUME Parser!ParserInv, Parser!Return
  PROVE  Parser!ParserInv'
<1> DEFINE t == Parser!Given
<1>1. Parser!TypeOK /\ Parser!Progress(t)
  BY DEF Parser!ParserInv
<1>2. /\ UNCHANGED <<text, given, state, buffer, req>>
      /\ outcome' \in {"partial", "complete", "threw"}
      /\ outcome' = "partial" => Parser!Starved
      /\ outcome' = "complete" => state = "DONE"
      /\ outcome' = "threw" => /\ state = "BODY" /\ Parser!HasLength
                               /\ Parser!Throws(req.headers[Parser!ContentLength])
  BY DEF Parser!Return
<1>3. Parser!TypeOK' /\ Parser!Given' = t /\ Parser!Consumed' = Parser!Consumed
  BY <1>1, <1>2 DEF Parser!TypeOK, Parser!Given, Parser!Consumed
<1>4. Parser!Starved' <=> Parser!Starved
  BY <1>2 DEF Parser!Starved, Parser!HasLength, Parser!Length
<1>5. Parser!HasLength' <=> Parser!HasLength
  BY <1>2 DEF Parser!HasLength
<1> HIDE DEF t
<1>6. Parser!Progress(Parser!Given)'
  BY <1>1, <1>2, <1>3 DEF Parser!Progress
<1>7. QED
  BY <1>2, <1>3, <1>4, <1>5, <1>6 DEF Parser!ParserInv

\* What holds of a parser that has read nothing.
LEMMA NothingRead ==
  ASSUME text \in Seq(Parser!Characters), given = 0, buffer = <<>>, state = "METHOD",
         req = Parser!Unread, outcome = "partial"
  PROVE  Parser!ParserInv
<1>1. Len(text) \in Nat
  BY LenProperties
<1>2. Parser!Consumed = 0
  <2>1. Len(buffer) = 0 /\ given = 0
    OBVIOUS
  <2>2. Parser!Consumed = given - Len(buffer)
    BY DEF Parser!Consumed
  <2>3. 0 - 0 = 0
    BY SMT
  <2>4. QED
    BY <2>1, <2>2, <2>3, Zenon
<1>3. Parser!Given = <<>>
  BY SubSeqEmpty DEF Parser!Given
<1>4. SubSeq(Parser!Given, Parser!Consumed + 1, given) = <<>>
  BY <1>2, <1>3, SubSeqEmpty
<1>5. Parser!TypeOK
  BY <1>1, <1>2, <1>4 DEF Parser!TypeOK
<1>6. Parser!Progress(Parser!Given)
  BY <1>2 DEF Parser!Progress
<1>7. QED
  BY <1>5, <1>6 DEF Parser!ParserInv

\* reset() begins anew, with what follows in the text.
LEMMA ParserReset ==
  ASSUME Parser!ParserInv, Parser!Reset
  PROVE  Parser!ParserInv'
<1>1. Parser!TypeOK
  BY DEF Parser!ParserInv
<1>2. /\ text' = SubSeq(text, given + 1, Len(text)) /\ given' = 0 /\ buffer' = <<>>
      /\ state' = "METHOD" /\ req' = Parser!Unread /\ outcome' = "partial"
  BY DEF Parser!Reset
<1>3. text \in Seq(Parser!Characters) /\ given \in 0..Len(text)
  BY <1>1 DEF Parser!TypeOK
<1>4. text' \in Seq(Parser!Characters)
  BY <1>2, <1>3, OccursInRest
<1>5. Parser!Given' = <<>>
  BY <1>2, SubSeqEmpty DEF Parser!Given
<1>6. Parser!Consumed' = 0
  <2>1. Len(buffer') = 0 /\ given' = 0
    BY <1>2
  <2>2. Parser!Consumed' = given' - Len(buffer')
    BY DEF Parser!Consumed
  <2>3. 0 - 0 = 0
    BY SMT
  <2>4. QED
    BY <2>1, <2>2, <2>3, Zenon
<1>7. SubSeq(Parser!Given', Parser!Consumed' + 1, given') = <<>>
  BY <1>2, <1>5, <1>6, SubSeqEmpty
<1>8. Parser!TypeOK'
  BY <1>2, <1>4, <1>6, <1>7, LenProperties DEF Parser!TypeOK
<1>9. Parser!Progress(Parser!Given)'
  BY <1>2, <1>6 DEF Parser!Progress
<1>10. QED
  BY <1>2, <1>8, <1>9 DEF Parser!ParserInv

\* Two parts of a text that follow each other.
LEMMA PartsTogether ==
  ASSUME NEW C, NEW s \in Seq(C), NEW c \in 0..Len(s), NEW g \in c..Len(s),
         NEW n \in g..Len(s)
  PROVE  SubSeq(s, c + 1, g) \o SubSeq(s, g + 1, n) = SubSeq(s, c + 1, n)
<1> DEFINE a == SubSeq(s, c + 1, g)
           b == SubSeq(s, g + 1, n)
           w == SubSeq(s, c + 1, n)
<1>1. /\ Len(s) \in Nat /\ c \in Nat /\ g \in Nat /\ n \in Nat
      /\ c <= g /\ g <= n /\ n <= Len(s)
  BY LenProperties
<1>2. ASSUME NEW i \in 0..Len(s), NEW j \in i..Len(s)
      PROVE  /\ SubSeq(s, i + 1, j) \in Seq(C) /\ Len(SubSeq(s, i + 1, j)) = j - i
             /\ \A k \in 1..(j - i) : SubSeq(s, i + 1, j)[k] = s[i + k]
  <2> DEFINE v == SubSeq(s, i + 1, j)
  <2>1. i + 1 \in Nat \ {0} /\ j \in 0..Len(s) /\ i \in Nat /\ j \in Nat /\ i <= j
    BY <1>1
  <2>2. /\ v \in Seq(C) /\ Len(v) = IF i + 1 <= j THEN j - (i + 1) + 1 ELSE 0
        /\ \A k \in 1..(j - (i + 1) + 1) : v[k] = s[(i + 1) + k - 1]
    BY <2>1, PartOf
  <2> HIDE DEF v
  <2>3. j - (i + 1) + 1 = j - i /\ \A k \in 1..(j - i) : (i + 1) + k - 1 = i + k
    BY <2>1
  <2>4. CASE i + 1 <= j
    BY <2>2, <2>3, <2>4 DEF v
  <2>5. CASE ~(i + 1 <= j)
    <3>1. j - i = 0
      BY <2>1, <2>5
    <3>2. QED
      BY <2>2, <2>3, <2>5, <3>1 DEF v
  <2>6. QED
    BY <2>4, <2>5
<1>3. /\ a \in Seq(C) /\ Len(a) = g - c /\ \A k \in 1..(g - c) : a[k] = s[c + k]
  BY <1>1, <1>2
<1>4. /\ b \in Seq(C) /\ Len(b) = n - g /\ \A k \in 1..(n - g) : b[k] = s[g + k]
  BY <1>1, <1>2
<1>5. /\ w \in Seq(C) /\ Len(w) = n - c /\ \A k \in 1..(n - c) : w[k] = s[c + k]
  BY <1>1, <1>2
<1> HIDE DEF a, b, w
<1>6. /\ a \o b \in Seq(C) /\ Len(a \o b) = Len(a) + Len(b)
      /\ \A k \in 1..(Len(a) + Len(b)) :
           (a \o b)[k] = IF k <= Len(a) THEN a[k] ELSE b[k - Len(a)]
  BY <1>3, <1>4, ConcatProperties
<1>7. Len(a \o b) = Len(w)
  BY <1>1, <1>3, <1>4, <1>5, <1>6
<1>8. ASSUME NEW k \in 1..Len(a \o b)
      PROVE  (a \o b)[k] = w[k]
  <2>1. k \in 1..(n - c) /\ k \in 1..(Len(a) + Len(b))
    BY <1>1, <1>3, <1>4, <1>6
  <2>2. CASE k <= Len(a)
    <3>1. k \in 1..(g - c)
      BY <1>1, <1>3, <2>1, <2>2
    <3>2. (a \o b)[k] = a[k]
      BY <1>6, <2>1, <2>2
    <3>3. QED
      BY <1>3, <1>5, <2>1, <3>1, <3>2
  <2>3. CASE ~(k <= Len(a))
    <3>1. k - (g - c) \in 1..(n - g) /\ g + (k - (g - c)) = c + k
      <4>1. k \in Nat /\ k <= n - c /\ ~(k <= g - c)
        BY <1>1, <1>3, <2>1, <2>3
      <4> HIDE <2>1
      <4>2. QED
        BY <1>1, <4>1
    <3>2. (a \o b)[k] = b[k - (g - c)]
      BY <1>3, <1>6, <2>1, <2>3
    <3>3. QED
      BY <1>4, <1>5, <2>1, <3>1, <3>2
  <2>4. QED
    BY <2>2, <2>3
<1>9. QED
  BY <1>5, <1>6, <1>7, <1>8, SeqEqual DEF a, b, w

\* A text that goes on keeps its header.
LEMMA HeaderStays ==
  ASSUME NEW C, NEW s \in Seq(C), NEW g \in 0..Len(s), NEW t, t = SubSeq(s, 1, g),
         Parser!TwoWords(t), Parser!Blanks(t) # {}
  PROVE  /\ Parser!TwoWords(s) /\ Parser!Blanks(s) # {}
         /\ Parser!Stop(s) = Parser!Stop(t) /\ Parser!Stop(t) \in Nat
         /\ Parser!Method(s) = Parser!Method(t) /\ Parser!Bodiless(s) = Parser!Bodiless(t)
         /\ Parser!Bodied(s) <=> Parser!Bodied(t)
         /\ Parser!Declared(s) = Parser!Declared(t) /\ Parser!Size(s) = Parser!Size(t)
<1>1. t \in Seq(C) /\ Len(t) = g /\ Len(s) \in Nat /\ g \in Nat /\ g <= Len(s)
  BY OccursInBeginning, LenProperties
<1>2. Parser!TwoWords(s) /\ Parser!Method(s) = Parser!Method(t)
  BY WordsStay DEF Parser!TwoWords
<1>3. /\ Parser!Ends(t) = {i \in Parser!Ends(s) : i < g}
      /\ Parser!Blanks(t) = {i \in Parser!Blanks(s) : i < g}
      /\ \A e \in Parser!Ends(t) :
           /\ Parser!Request(s, e) = Parser!Request(t, e)
           /\ Parser!Names(s, e) = Parser!Names(t, e)
  <2>1. Parser!TwoWords(t) /\ t = SubSeq(s, 1, g) /\ s \in Seq(C) /\ g \in 0..Len(s)
    OBVIOUS
  <2>2. Parser!Ends(t) = {i \in Parser!Ends(s) : i < g}
    BY <2>1, LinesStay
  <2>3. Parser!Blanks(t) = {i \in Parser!Blanks(s) : i < g}
    BY <2>1, LinesStay
  <2>4. ASSUME NEW i \in Parser!Ends(t)
        PROVE  /\ Parser!Request(s, i) = Parser!Request(t, i)
               /\ Parser!Names(s, i) = Parser!Names(t, i)
    BY <2>1, RequestStays
  <2>5. QED
    BY <2>2, <2>3, <2>4
<1>4. /\ Parser!Stop(t) \in Parser!Blanks(t) /\ Parser!Stop(t) \in Nat
      /\ Parser!Stop(t) - 2 \in Parser!Ends(t)
      /\ \A i \in Parser!Blanks(t) : Parser!Stop(t) <= i
  BY <1>1, StopIs
<1>5. Parser!Blanks(s) \in SUBSET Nat
  BY <1>2, LinesEnd DEF Parser!Blanks
<1>6. Parser!Stop(t) \in Parser!Blanks(s) /\ Parser!Stop(t) < g
  BY <1>3, <1>4
<1>7. \A i \in Parser!Blanks(s) : Parser!Stop(t) <= i
  <2> TAKE i \in Parser!Blanks(s)
  <2>1. i \in Nat
    BY <1>5
  <2>2. CASE i < g
    BY <1>3, <1>4, <2>2
  <2>3. CASE ~(i < g)
    BY <1>1, <1>4, <1>6, <2>1, <2>3
  <2>4. QED
    BY <2>2, <2>3
<1>8. Parser!Stop(s) = Parser!Stop(t)
  BY <1>5, <1>6, <1>7, MinIs DEF Parser!Stop
<1> DEFINE e == Parser!Stop(t) - 2
<1>9. Parser!Request(s, e) = Parser!Request(t, e) /\ Parser!Names(s, e) = Parser!Names(t, e)
  BY <1>3, <1>4
<1> HIDE DEF e
<1>10. Parser!Headers(s, e) = Parser!Headers(t, e)
  <2>1. /\ Parser!Request(s, e).headers = Parser!Headers(s, e)
        /\ Parser!Request(t, e).headers = Parser!Headers(t, e)
    BY DEF Parser!Request
  <2>2. QED
    BY <1>9, <2>1
<1>11. Parser!Bodiless(s) = Parser!Bodiless(t)
  BY <1>8, <1>9 DEF Parser!Bodiless, e
<1>12. Parser!Bodied(s) <=> Parser!Bodied(t)
  BY <1>2, <1>8, <1>9 DEF Parser!Bodied, e
<1>13. Parser!Declared(s) = Parser!Declared(t)
  BY <1>8, <1>10 DEF Parser!Declared, e
<1>14. Parser!Size(s) = Parser!Size(t)
  BY <1>13 DEF Parser!Size
<1>15. QED
  BY <1>2, <1>4, <1>6, <1>8, <1>11, <1>12, <1>13, <1>14

\* A text that goes on leaves parse() where it is.
LEMMA ProgressStays ==
  ASSUME NEW C, NEW s \in Seq(C), NEW g \in 0..Len(s), NEW t, t = SubSeq(s, 1, g),
         Parser!Consumed \in 0..g, Parser!Progress(t)
  PROVE  Parser!Progress(s)
<1>1. t \in Seq(C) /\ Len(t) = g /\ Len(s) \in Nat /\ g \in Nat /\ g <= Len(s)
  BY OccursInBeginning, LenProperties
<1>2. Parser!Consumed \in Nat /\ Parser!Consumed <= g
  BY <1>1
<1>3. state = "PATH" =>
        /\ Parser!Spaces(s) # {} /\ Parser!Consumed = Parser!Space1(s)
        /\ req = [Parser!Unread EXCEPT !.method = Parser!Method(s)]
  <2>1. state = "PATH" =>
          /\ Parser!Spaces(t) # {} /\ Parser!Consumed = Parser!Space1(t)
          /\ req = [Parser!Unread EXCEPT !.method = Parser!Method(t)]
    BY DEF Parser!Progress
  <2>2. QED
    BY <2>1, WordsStay
<1>4. state = "VERSION" =>
        /\ Parser!TwoWords(s) /\ Parser!Consumed = Parser!Space2(s)
        /\ req = [Parser!Unread EXCEPT !.method = Parser!Method(s), !.path = Parser!Path(s)]
  <2> SUFFICES ASSUME state = "VERSION"
               PROVE  /\ Parser!TwoWords(s) /\ Parser!Consumed = Parser!Space2(s)
                      /\ req = [Parser!Unread EXCEPT !.method = Parser!Method(s),
                                                     !.path = Parser!Path(s)]
    OBVIOUS
  <2>1. /\ Parser!TwoWords(t) /\ Parser!Consumed = Parser!Space2(t)
        /\ req = [Parser!Unread EXCEPT !.method = Parser!Method(t), !.path = Parser!Path(t)]
    BY DEF Parser!Progress
  <2>2. Parser!Spaces(t) # {}
    BY <2>1 DEF Parser!TwoWords
  <2>3. QED
    BY <2>1, <2>2, WordsStay
<1>5. CASE state = "HEADER"
  <2>1. /\ Parser!TwoWords(t) /\ Parser!Consumed - 1 \in Parser!Ends(t)
        /\ \A i \in Parser!Blanks(t) : i > Parser!Consumed - 1
        /\ req = Parser!Request(t, Parser!Consumed - 1)
    BY <1>5 DEF Parser!Progress
  <2>2. Parser!TwoWords(s)
    BY <2>1, WordsStay
  <2>3. Parser!Ends(t) = {i \in Parser!Ends(s) : i < g}
    BY <2>1, LinesStay
  <2>4. Parser!Blanks(t) = {i \in Parser!Blanks(s) : i < g}
    BY <2>1, LinesStay
  <2>5. Parser!Blanks(s) \subseteq Nat
    BY <2>2, LinesEnd DEF Parser!Blanks
  <2>6. \A i \in Parser!Blanks(s) : i > Parser!Consumed - 1
    <3> TAKE i \in Parser!Blanks(s)
    <3>1. CASE i < g
      BY <2>1, <2>4, <3>1
    <3>2. CASE ~(i < g)
      BY <1>1, <1>2, <2>5, <3>2
    <3>3. QED
      BY <3>1, <3>2
  <2> DEFINE e == Parser!Consumed - 1
  <2>7. e \in Parser!Ends(t) /\ req = Parser!Request(t, e)
    BY <2>1
  <2> HIDE DEF e
  <2>8. Parser!Request(s, e) = Parser!Request(t, e)
    BY <2>1, <2>7, RequestStays
  <2>9. e \in Parser!Ends(s) /\ req = Parser!Request(s, e)
    BY <2>3, <2>7, <2>8
  <2>10. QED
    BY <1>5, <2>2, <2>6, <2>9 DEF Parser!Progress, e
<1>6. CASE state \in {"BODY", "DONE"}
  <2>1. Parser!TwoWords(t) /\ Parser!Blanks(t) # {}
    BY <1>6 DEF Parser!Progress
  <2>2. /\ Parser!TwoWords(s) /\ Parser!Blanks(s) # {}
        /\ Parser!Stop(s) = Parser!Stop(t) /\ Parser!Stop(t) \in Nat
        /\ Parser!Method(s) = Parser!Method(t) /\ Parser!Bodiless(s) = Parser!Bodiless(t)
        /\ Parser!Bodied(s) <=> Parser!Bodied(t)
        /\ Parser!Declared(s) = Parser!Declared(t) /\ Parser!Size(s) = Parser!Size(t)
    BY <2>1, HeaderStays
  <2>3. CASE state = "BODY"
    BY <2>2, <2>3 DEF Parser!Progress
  <2>4. CASE state = "DONE" /\ ~Parser!Bodied(t)
    BY <2>2, <2>4 DEF Parser!Progress
  <2>5. CASE state = "DONE" /\ Parser!Bodied(t)
    <3> DEFINE size == Parser!Size(t)
               stop == Parser!Stop(t)
    <3>1. /\ ~Parser!Throws(Parser!Declared(t)) /\ size \in Nat
          /\ Parser!Consumed = stop + 1 + size
          /\ req = [Parser!Bodiless(t) EXCEPT !.body = SubSeq(Parser!Rest(t), 1, size)]
      BY <2>5 DEF Parser!Progress
    <3>2. /\ Parser!Rest(s) = SubSeq(s, stop + 2, Len(s))
          /\ Parser!Rest(t) = SubSeq(t, stop + 2, Len(t)) /\ stop \in Nat
      BY <2>2 DEF Parser!Rest
    <3> HIDE DEF size, stop
    <3>3. SubSeq(Parser!Rest(s), 1, size) = SubSeq(Parser!Rest(t), 1, size)
      <4> DEFINE d == stop + 1
                 j == d + size
      <4>1. stop + 1 + size <= g
        BY <1>2, <3>1
      <4>2. d \in 0..g /\ size \in 0..(g - d)
        <5>1. stop \in Nat /\ size \in Nat /\ g \in Nat
          BY <1>1, <3>1, <3>2
        <5>2. QED
          BY <4>1, <5>1, SMT
      <4>3. d + 1 = stop + 2 /\ d + 1 \in Nat \ {0} /\ j \in 0..g /\ 1 \in Nat \ {0}
        BY <1>1, <3>1, <3>2, <4>1, SMT
      <4>4. j = d + size
        OBVIOUS
      <4> HIDE DEF d, j
      <4>5. SubSeq(SubSeq(s, d + 1, Len(s)), 1, size) = SubSeq(s, d + 1, j)
        <5>1. d \in 0..Len(s) /\ Len(s) \in d..Len(s) /\ size \in 0..(Len(s) - d)
          BY <1>1, <4>2
        <5>2. QED
          BY <4>3, <4>4, <5>1, PartOfPart
      <4>6. SubSeq(SubSeq(t, d + 1, Len(t)), 1, size) = SubSeq(t, d + 1, j)
        <5>1. d \in 0..Len(t) /\ Len(t) \in d..Len(t) /\ size \in 0..(Len(t) - d)
          BY <1>1, <4>2
        <5>2. QED
          BY <1>1, <4>3, <4>4, <5>1, PartOfPart
      <4>7. SubSeq(t, d + 1, j) = SubSeq(s, d + 1, j)
        BY <4>3, OccursInBeginning
      <4>8. QED
        BY <3>2, <4>3, <4>5, <4>6, <4>7
    <3>4. QED
      BY <2>2, <2>5, <3>1, <3>3 DEF Parser!Progress, size, stop
  <2>6. QED
    BY <1>6, <2>3, <2>4, <2>5
<1>7. CASE state \notin {"HEADER", "BODY", "DONE"}
  BY <1>3, <1>4, <1>7 DEF Parser!Progress
<1>8. QED
  BY <1>5, <1>6, <1>7

\* A fragment comes, wherever parse() had stopped.
LEMMA FragmentComes ==
  ASSUME Parser!ParserInv, Parser!Parse
  PROVE  Parser!ParserInv'
<1> DEFINE C == Parser!Characters
           c == Parser!Consumed
<1>1. Parser!TypeOK /\ Parser!Progress(Parser!Given)
  BY DEF Parser!ParserInv
<1>2. PICK n \in (given + 1)..Len(text) :
        buffer' = buffer \o SubSeq(text, given + 1, n) /\ given' = n
  BY DEF Parser!Parse
<1>3. outcome' = "parsing" /\ text' = text /\ state' = state /\ req' = req
  BY DEF Parser!Parse
<1>4. /\ text \in Seq(C) /\ given \in Nat /\ given <= Len(text) /\ Len(text) \in Nat
      /\ c \in 0..given /\ Len(buffer) = given - c
      /\ buffer = SubSeq(Parser!Given, c + 1, given)
  BY <1>1, BufferIs DEF Parser!TypeOK
<1>5. n \in Nat /\ given < n /\ n <= Len(text) /\ given \in 0..n /\ c \in 0..n
  BY <1>4
<1>6. Parser!Given' = SubSeq(text, 1, n)
  BY <1>2, <1>3 DEF Parser!Given
<1> DEFINE s == SubSeq(text, 1, n)
<1>7. s \in Seq(C) /\ Len(s) = n
  BY <1>4, <1>5, OccursInBeginning
<1>8. Parser!Given = SubSeq(s, 1, given)
  <2>1. n \in 0..Len(text) /\ given \in 0..n
    BY <1>4, <1>5
  <2>2. SubSeq(SubSeq(text, 1, n), 1, given) = SubSeq(text, 1, given)
    BY <1>4, <2>1, OccursInBeginning
  <2>3. QED
    BY <2>2 DEF Parser!Given
<1> HIDE DEF s, C, c
<1>9. buffer = SubSeq(s, c + 1, given)
  <2>1. c + 1 \in Nat \ {0} /\ given \in 0..given /\ given \in 0..Len(s)
    BY <1>4, <1>5, <1>7
  <2>2. SubSeq(SubSeq(s, 1, given), c + 1, given) = SubSeq(s, c + 1, given)
    BY <1>7, <2>1, OccursInBeginning
  <2>3. QED
    BY <1>4, <1>8, <2>2
<1>10. SubSeq(text, given + 1, n) = SubSeq(s, given + 1, n)
  <2>1. given + 1 \in Nat \ {0} /\ n \in 0..n /\ n \in 0..Len(text)
    BY <1>4, <1>5
  <2>2. QED
    BY <1>4, <2>1, OccursInBeginning DEF s
<1>11. buffer' = SubSeq(s, c + 1, n)
  <2>1. c \in 0..Len(s) /\ given \in c..Len(s) /\ n \in given..Len(s)
    BY <1>4, <1>5, <1>7
  <2>2. SubSeq(s, c + 1, given) \o SubSeq(s, given + 1, n) = SubSeq(s, c + 1, n)
    BY <1>7, <2>1, PartsTogether
  <2>3. QED
    BY <1>2, <1>9, <1>10, <2>2
<1>12. Parser!Consumed' = c
  <2>1. c \in 0..Len(s) /\ c \in Nat
    BY <1>4, <1>5, <1>7
  <2>2. Len(SubSeq(s, c + 1, Len(s))) = Len(s) - c
    BY <1>7, <2>1, OccursInRest
  <2>3. Len(buffer') = n - c
    BY <1>7, <1>11, <2>2
  <2>4. Parser!Consumed' = given' - Len(buffer')
    BY DEF Parser!Consumed
  <2>5. n - (n - c) = c
    BY <1>5, <2>1
  <2>6. QED
    BY <1>2, <2>3, <2>4, <2>5
<1>13. Parser!TypeOK'
  <2>1. text' \in Seq(C) /\ given' \in 0..Len(text')
    BY <1>2, <1>3, <1>4, <1>5
  <2>2. buffer' = SubSeq(Parser!Given', Parser!Consumed' + 1, given')
    BY <1>2, <1>6, <1>11, <1>12 DEF s
  <2>3. Parser!Consumed' \in 0..given'
    BY <1>2, <1>5, <1>12
  <2>4. state' \in {"METHOD", "PATH", "VERSION", "HEADER", "BODY", "DONE"}
    BY <1>1, <1>3 DEF Parser!TypeOK
  <2>5. QED
    BY <1>3, <2>1, <2>2, <2>3, <2>4 DEF Parser!TypeOK, C
<1>14. Parser!Progress(s)
  <2>1. given \in 0..Len(s) /\ Parser!Consumed \in 0..given
    BY <1>4, <1>5, <1>7 DEF c
  <2>2. QED
    BY <1>1, <1>7, <1>8, <2>1, ProgressStays
<1>15. Parser!Given' = s
  BY <1>6 DEF s
<1>16. Parser!Progress(Parser!Given)'
  BY <1>3, <1>12, <1>14, <1>15 DEF Parser!Progress, c
<1>17. QED
  BY <1>3, <1>13, <1>16 DEF Parser!ParserInv

\* A new parser has read nothing.
LEMMA ParserStarts == Parser!Init => Parser!ParserInv
<1> SUFFICES ASSUME Parser!Init PROVE Parser!ParserInv
  OBVIOUS
<1>1. /\ text \in Texts /\ given = 0 /\ buffer = <<>> /\ state = "METHOD"
      /\ req = Parser!Unread /\ outcome = "partial"
  BY DEF Parser!Init
<1>2. text \in Seq(Parser!Characters)
  BY <1>1, PartsAssumption DEF Parser!Assumption
<1>3. QED
  BY <1>1, <1>2, NothingRead

\* Every turn of the loop keeps parse() where the grammar says.
LEMMA ParserGoesOn ==
  Parser!ParserInv /\ [Parser!Next]_(Parser!parserVars) => Parser!ParserInv'
<1> SUFFICES ASSUME Parser!ParserInv, [Parser!Next]_(Parser!parserVars)
             PROVE  Parser!ParserInv'
  OBVIOUS
<1>1. CASE Parser!Parse
  BY <1>1, FragmentComes
<1>2. CASE Parser!TakeMethod
  BY <1>2, MethodTaken
<1>3. CASE Parser!TakePath
  BY <1>3, PathTaken
<1>4. CASE Parser!TakeVersion
  BY <1>4, VersionTaken
<1>5. CASE Parser!EndHeader
  BY <1>5, HeaderEnded
<1>6. CASE Parser!TakeHeader
  BY <1>6, HeaderTaken
<1>7. CASE Parser!SkipBody
  BY <1>7, BodySkipped
<1>8. CASE Parser!TakeBody
  BY <1>8, BodyTaken
<1>9. CASE Parser!Return
  BY <1>9, Returned
<1>10. CASE Parser!Reset
  BY <1>10, ParserReset
<1>11. CASE UNCHANGED Parser!parserVars
  <2>1. UNCHANGED <<text, given, state, buffer, req, outcome>>
    BY <1>11 DEF Parser!parserVars
  <2>2. Parser!Given' = Parser!Given /\ Parser!Consumed' = Parser!Consumed
    BY <2>1 DEF Parser!Given, Parser!Consumed
  <2>3. Parser!TypeOK'
    BY <2>1, <2>2 DEF Parser!ParserInv, Parser!TypeOK
  <2>4. Parser!Progress(Parser!Given)'
    BY <2>1, <2>2 DEF Parser!ParserInv, Parser!Progress
  <2>5. (Parser!Starved' <=> Parser!Starved) /\ (Parser!HasLength' <=> Parser!HasLength)
    BY <2>1 DEF Parser!Starved, Parser!HasLength, Parser!Length
  <2>6. QED
    BY <2>1, <2>3, <2>4, <2>5 DEF Parser!ParserInv
<1>12. QED
  BY <1>1, <1>2, <1>3, <1>4, <1>5, <1>6, <1>7, <1>8, <1>9, <1>10, <1>11 DEF Parser!Next

\* A parser that waits for more waits because the grammar does.
LEMMA StarvedMeans ==
  ASSUME Parser!ParserInv, Parser!Starved
  PROVE  Parser!Meaning(Parser!Given) = [outcome |-> "partial"]
<1> DEFINE t == Parser!Given
           c == Parser!Consumed
<1>1. Parser!TypeOK /\ Parser!Progress(t)
  BY DEF Parser!ParserInv
<1>2. /\ t \in Seq(Parser!Characters) /\ Len(t) \in Nat /\ c \in 0..Len(t)
      /\ buffer = SubSeq(t, c + 1, Len(t))
  BY <1>1, BufferIs
<1> HIDE DEF t, c
<1>3. CASE state \in {"METHOD", "PATH"} /\ ~Parser!Found(buffer, <<Parser!SP>>)
  <2>1. ~Parser!Found(SubSeq(t, c + 1, Len(t)), <<Parser!SP>>)
    BY <1>2, <1>3
  <2>2. \A i \in Parser!Spaces(t) : i <= c
    BY <1>2, <2>1, NotFoundInRest DEF Parser!Spaces
  <2>3. Parser!Spaces(t) \subseteq 1..Len(t)
    BY <1>2, WordsEnd
  <2>4. CASE state = "METHOD"
    <3>1. c = 0
      BY <1>1, <2>4 DEF Parser!Progress, c
    <3>2. Parser!Spaces(t) = {}
      BY <1>2, <2>2, <2>3, <3>1
    <3>3. QED
      BY <3>2 DEF Parser!Meaning, Parser!TwoWords, t
  <2>5. CASE state = "PATH"
    <3>1. Parser!Spaces(t) # {} /\ c = Parser!Space1(t)
      BY <1>1, <2>5 DEF Parser!Progress, c
    <3>2. \A i \in Parser!Spaces(t) : Parser!Space1(t) <= i
      BY <1>2, <3>1, WordsEnd
    <3>3. \A i \in Parser!Spaces(t) : i = Parser!Space1(t)
      <4> TAKE i \in Parser!Spaces(t)
      <4>1. i \in Nat /\ c \in Nat /\ i <= c /\ c <= i
        BY <1>2, <2>2, <2>3, <3>1, <3>2
      <4>2. QED
        BY <3>1, <4>1
    <3>4. Parser!Spaces2(t) = {}
      BY <3>3 DEF Parser!Spaces2
    <3>5. QED
      BY <3>4 DEF Parser!Meaning, Parser!TwoWords, t
  <2>6. QED
    BY <1>3, <2>4, <2>5
<1>4. CASE state \in {"VERSION", "HEADER"} /\ ~Parser!Found(buffer, Parser!CRLF)
  <2>1. ~Parser!Found(SubSeq(t, c + 1, Len(t)), Parser!CRLF)
    BY <1>2, <1>4
  <2>2. \A i \in Parser!Occurrences(t, Parser!CRLF) : i <= c
    BY <1>2, <2>1, NotFoundInRest
  <2>3. Parser!TwoWords(t)
    BY <1>1, <1>4 DEF Parser!Progress
  <2>4. /\ Parser!Ends(t) \subseteq 1..Len(t)
        /\ Parser!Ends(t) \subseteq Parser!Occurrences(t, Parser!CRLF)
        /\ \A i \in Parser!Ends(t) :
             i > Parser!Space2(t) /\ i + 1 <= Len(t) /\ i + 1 \notin Parser!Ends(t)
    BY <1>2, <2>3, LinesEnd DEF Parser!Ends
  <2>5. Parser!Blanks(t) = {}
    <3> SUFFICES ASSUME NEW i \in Parser!Blanks(t)
                 PROVE  FALSE
      OBVIOUS
    <3>1. i \in Parser!Ends(t) /\ i \in Nat /\ i <= c /\ c \in Nat
      BY <1>2, <2>2, <2>4 DEF Parser!Blanks
    <3>2. CASE state = "VERSION"
      <4>1. c = Parser!Space2(t)
        BY <1>1, <3>2 DEF Parser!Progress, c
      <4>2. i > c
        BY <2>4, <3>1, <4>1
      <4>3. QED
        BY <3>1, <4>2
    <3>3. CASE state = "HEADER"
      <4>1. c - 1 \in Parser!Ends(t) /\ i > c - 1
        BY <1>1, <3>3 DEF Parser!Progress, c
      <4>2. (c - 1) + 1 \notin Parser!Ends(t)
        BY <2>4, <4>1
      <4>3. i = (c - 1) + 1
        BY <3>1, <4>1
      <4>4. QED
        BY <3>1, <4>2, <4>3
    <3>4. QED
      BY <1>4, <3>2, <3>3
  <2>6. QED
    BY <2>5 DEF Parser!Meaning, t
<1>5. CASE /\ state = "BODY" /\ Parser!HasLength
           /\ ~Parser!Throws(req.headers[Parser!ContentLength])
           /\ ~Parser!Enough(buffer, Parser!Length)
  <2>1. /\ Parser!Bodied(t) /\ ~Parser!Throws(Parser!Declared(t))
        /\ ~Parser!Enough(Parser!Rest(t), Parser!Size(t))
    BY <1>5, InBody DEF t
  <2>2. Parser!TwoWords(t) /\ Parser!Blanks(t) # {}
    BY <1>1, <1>5 DEF Parser!Progress
  <2>3. QED
    BY <2>1, <2>2 DEF Parser!Meaning, t
<1>6. QED
  BY <1>3, <1>4, <1>5 DEF Parser!Starved

\* A parser that is done has the request and left what follows it.
LEMMA DoneMeans ==
  ASSUME Parser!ParserInv, state = "DONE"
  PROVE  Parser!Meaning(Parser!Given) = [outcome |-> "complete", req |-> req, rest |-> buffer]
<1> DEFINE t == Parser!Given
           c == Parser!Consumed
           size == Parser!Size(t)
           stop == Parser!Stop(t)
<1>1. Parser!TypeOK /\ Parser!Progress(t)
  BY DEF Parser!ParserInv
<1>2. /\ t \in Seq(Parser!Characters) /\ Len(t) \in Nat /\ c \in 0..Len(t)
      /\ buffer = SubSeq(t, c + 1, Len(t))
  BY <1>1, BufferIs
<1>3. Parser!TwoWords(t) /\ Parser!Blanks(t) # {}
  BY <1>1 DEF Parser!Progress
<1> HIDE DEF t
<1>4. stop \in Nat /\ stop + 1 <= Len(t) /\ Parser!Rest(t) = SubSeq(t, stop + 2, Len(t))
  BY <1>2, <1>3, StopIs DEF Parser!Rest
<1>5. CASE ~Parser!Bodied(t)
  <2>1. c = stop + 1 /\ req = Parser!Bodiless(t)
    BY <1>1, <1>5 DEF Parser!Progress
  <2>2. (stop + 1) + 1 = stop + 2
    BY <1>4
  <2>3. buffer = Parser!Rest(t)
    BY <1>2, <1>4, <2>1, <2>2
  <2>4. QED
    BY <1>3, <1>5, <2>1, <2>3 DEF Parser!Meaning, t
<1>6. CASE Parser!Bodied(t)
  <2>1. /\ ~Parser!Throws(Parser!Declared(t)) /\ size \in Nat /\ c = stop + 1 + size
        /\ req = [Parser!Bodiless(t) EXCEPT !.body = SubSeq(Parser!Rest(t), 1, size)]
    BY <1>1, <1>6 DEF Parser!Progress
  <2> HIDE DEF c, size, stop
  <2> DEFINE d == stop + 1
             i == size + 1
             j == Len(t) - d
  <2>2. d \in 0..Len(t) /\ d + 1 = stop + 2
    BY <1>2, <1>4
  <2>3. Len(Parser!Rest(t)) = j
    <3> HIDE DEF d
    <3>1. Len(SubSeq(t, d + 1, Len(t))) = Len(t) - d
      BY <1>2, <2>2, OccursInRest
    <3>2. QED
      BY <1>4, <2>2, <3>1
  <2>4. /\ stop \in Nat /\ size \in Nat /\ c = stop + 1 + size /\ c <= Len(t)
        /\ Len(t) \in Nat
    BY <1>2, <1>4, <2>1
  <2>5. i \in Nat \ {0} /\ d + i = c + 1
    BY <2>4, SMT
  <2>6. j \in 0..(Len(t) - d) /\ Len(t) \in d..Len(t) /\ d + j = Len(t) /\ size \in 0..j
    BY <2>4, SMT
  <2>7. buffer = SubSeq(Parser!Rest(t), i, Len(Parser!Rest(t)))
    <3> HIDE DEF d, i, j
    <3>1. SubSeq(SubSeq(t, d + 1, Len(t)), i, j) = SubSeq(t, d + i, d + j)
      BY <1>2, <2>2, <2>5, <2>6, PartOfPart
    <3>2. QED
      BY <1>2, <1>4, <2>2, <2>3, <2>5, <2>6, <3>1
  <2>8. Parser!Enough(Parser!Rest(t), size)
    BY <2>3, <2>6 DEF Parser!Enough
  <2>9. Parser!Meaning(t) =
          [outcome |-> "complete",
           req |-> [Parser!Bodiless(t) EXCEPT !.body = SubSeq(Parser!Rest(t), 1, size)],
           rest |-> SubSeq(Parser!Rest(t), size + 1, Len(Parser!Rest(t)))]
    BY <1>3, <1>6, <2>1, <2>8 DEF Parser!Meaning, size
  <2>10. QED
    BY <2>1, <2>7, <2>9 DEF t
<1>7. QED
  BY <1>5, <1>6

\* Where parse() stops, its answer is the one of the grammar.
LEMMA ParserAnswers == Parser!ParserInv => Parser!FragmentsDoNotMatter
<1> SUFFICES ASSUME Parser!ParserInv, outcome # "parsing", given > 0
             PROVE  /\ outcome = Parser!Meaning(Parser!Given).outcome
                    /\ outcome = "complete" =>
                         /\ req = Parser!Meaning(Parser!Given).req
                         /\ buffer = Parser!Meaning(Parser!Given).rest
  BY DEF Parser!FragmentsDoNotMatter
<1>1. Parser!TypeOK /\ Parser!Progress(Parser!Given)
  BY DEF Parser!ParserInv
<1>2. given # 0
  BY <1>1, BufferIs
<1>3. CASE outcome = "partial"
  <2>1. Parser!Starved
    BY <1>2, <1>3 DEF Parser!ParserInv
  <2>2. QED
    BY <1>3, <2>1, StarvedMeans
<1>4. CASE outcome = "complete"
  <2>1. state = "DONE"
    BY <1>4 DEF Parser!ParserInv
  <2>2. QED
    BY <1>4, <2>1, DoneMeans
<1>5. CASE outcome = "threw"
  <2> DEFINE t == Parser!Given
  <2>1. /\ state = "BODY" /\ Parser!HasLength
        /\ Parser!Throws(req.headers[Parser!ContentLength])
    BY <1>5 DEF Parser!ParserInv
  <2>2. Parser!TwoWords(t) /\ Parser!Blanks(t) # {}
    BY <1>1, <2>1 DEF Parser!Progress
  <2>3. Parser!Bodied(t) /\ Parser!Throws(Parser!Declared(t))
    BY <2>1, InBody
  <2> HIDE DEF t
  <2>4. Parser!Meaning(t) = [outcome |-> "threw"]
    BY <2>2, <2>3 DEF Parser!Meaning
  <2>5. QED
    BY <1>5, <2>4 DEF t
<1>6. outcome \in {"parsing", "partial", "complete", "threw"}
  BY <1>1 DEF Parser!TypeOK
<1>7. QED
  BY <1>3, <1>4, <1>5, <1>6

\* However a text is cut into fragments, parse() answers what the grammar says of all it
\* was given, and leaves what follows the request in the buffer.
THEOREM ParserAnswersTheGrammar == Spec => []FragmentsDoNotMatter
<1>1. Parser!Init => Parser!ParserInv
  BY ParserStarts
<1>2. Parser!ParserInv /\ [Parser!Next]_(Parser!parserVars) => Parser!ParserInv'
  BY ParserGoesOn
<1>3. Parser!ParserInv => Parser!FragmentsDoNotMatter
  BY ParserAnswers
<1>4. QED
  BY <1>1, <1>2, <1>3, ParserRuns, PTL DEF Parser!Spec, FragmentsDoNotMatter

-------------------------------------------------------------------------------
(* All parts together.                                                     *)

\* The inductive invariant of every part holds of every behaviour of all of them.
THEOREM PartsInvariant == Spec => []PartsInv
<1>1. Parser!Spec => []Parser!ParserInv
  BY ParserStarts, ParserGoesOn, PTL DEF Parser!Spec
<1>2. Memory!Spec => []Memory!BlockInv
  BY MemoryInit, MemoryStep, PTL DEF Memory!Spec
<1>3. QED
  BY <1>1, <1>2, ParserRuns, NothingIsLost, TimerInvariant, TimerRuns, MemoryRuns,
     ContextsAreAccounted, RedisRuns, StreamTyped, StreamRuns, ProcessInvariant, ProcessRuns,
     PTL DEF PartsInv
=============================================================================
