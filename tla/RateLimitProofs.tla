---------------------------- MODULE RateLimitProofs ----------------------------
(***************************************************************************)
(* Theorems about RateLimit.tla: what the token bucket grants, what its    *)
(* key's expiry gives away, and what the counter of a second lets through, *)
(* for every rate, every resolution of the clock and any number of workers.*)
(***************************************************************************)
EXTENDS RateLimit, SequenceTheorems, TLAPS

-------------------------------------------------------------------------------
(* Arithmetic.                                                             *)

LEMMA Distributes ==
  \A a, b, r \in Int : (a + b) * r = a * r + b * r /\ (a - b) * r = a * r - b * r
  OBVIOUS

LEMMA Increases ==
  \A a, b \in Int, r \in Nat : a <= b => a * r <= b * r
  OBVIOUS

LEMMA LeavesLess ==
  \A p, q, c, z \in Int : q >= 0 /\ p + q <= c + z => p <= c + z
  OBVIOUS

\* The second a time belongs to.
LEMMA SecondOfTime ==
  ASSUME NEW t \in Nat
  PROVE  /\ SecondOf(t) \in Nat
         /\ SecondOf(t) * Second <= t
         /\ t < (SecondOf(t) + 1) * Second
  BY LimitAssumption DEF SecondOf

LEMMA SecondsInOrder ==
  ASSUME NEW t \in Nat, NEW u \in Nat, t <= u
  PROVE  SecondOf(t) <= SecondOf(u)
  BY LimitAssumption DEF SecondOf

-------------------------------------------------------------------------------
(* Types.                                                                  *)

Grant == [time : Nat, given : Nat]

LEMMA FullIsNat == Full \in Nat /\ Full = (2 * Second) * Rate /\ Second <= Full
  <1>1. \A a, b \in Nat : b >= 1 => a <= (2 * a) * b
    OBVIOUS
  <1> QED BY <1>1, LimitAssumption DEF Full

\* The second of a worker's stamp is one of those modelled.
LEMMA StampedSecond ==
  ASSUME TypeOK, NEW w \in Workers
  PROVE  /\ stamp[w] \in Nat /\ stamp[w] <= clock
         /\ SecondOf(stamp[w]) \in Seconds
         /\ SecondOf(stamp[w]) * Second <= stamp[w]
         /\ stamp[w] < (SecondOf(stamp[w]) + 1) * Second
  <1>1. /\ clock \in Nat /\ MaxClock \in Nat /\ clock <= MaxClock
        /\ stamp[w] \in Nat /\ stamp[w] <= clock
    BY LimitAssumption DEF TypeOK
  <1>2. SecondOf(stamp[w]) <= SecondOf(MaxClock)
    BY <1>1, SecondsInOrder
  <1> QED BY <1>1, <1>2, SecondOfTime DEF Seconds

\* What the script finds for a call: never more than the capacity, never more
\* than what was there and what the time since has earned.
LEMMA RefilledBounds ==
  ASSUME TypeOK, NEW now \in Nat
  PROVE  /\ Refilled(now) \in 0..Full
         /\ Elapsed(now) \in Nat
         /\ bucketTtl = 0 => Refilled(now) = Full
         /\ bucketTtl # 0 => Refilled(now) <= tokens + Elapsed(now) * Rate
  <1> DEFINE earned == Elapsed(now) * Rate
  <1>1. Elapsed(now) \in Nat
    BY DEF Elapsed, TypeOK
  <1>2. earned \in Nat
    BY <1>1, LimitAssumption
  <1>3. Refilled(now) = IF bucketTtl = 0 \/ tokens + earned > Full
                          THEN Full ELSE tokens + earned
    BY DEF Refilled
  <1>4. tokens \in 0..Full
    BY DEF TypeOK
  <1> HIDE DEF earned
  <1>5. Refilled(now) \in 0..Full
    BY <1>2, <1>3, <1>4, FullIsNat
  <1>6. bucketTtl # 0 => Refilled(now) <= tokens + earned
    BY <1>2, <1>3, <1>4, FullIsNat
  <1> QED BY <1>1, <1>3, <1>5, <1>6 DEF earned

\* The ticks that are given away are a number of ticks.
LEMMA UnearnedIsNat ==
  ASSUME TypeOK, NEW now \in 0..clock
  PROVE  Overdue(now) \in Nat /\ Unearned(now) \in Nat
  <1>1. clock \in Nat /\ now \in Nat /\ lastTime \in Nat /\ Second \in Nat
    BY LimitAssumption DEF TypeOK
  <1>2. Overdue(now) \in Nat
    BY <1>1 DEF Overdue
  <1> QED BY <1>1, <1>2 DEF Unearned

\* What a call of the script leaves behind.
LEMMA ScriptType ==
  ASSUME TypeOK, NEW now \in 0..clock,
         ScriptGrants(now) \/ ScriptDenies(now) \/ UNCHANGED bucketVars
  PROVE  /\ tokens' \in 0..Full /\ lastTime' \in 0..clock /\ bucketTtl' \in Nat
         /\ given' \in Nat /\ grants' \in Seq(Grant)
  <1>1. /\ Refilled(now) \in 0..Full /\ now \in Nat /\ clock \in Nat
        /\ tokens \in 0..Full /\ lastTime \in 0..clock /\ bucketTtl \in Nat
        /\ given \in Nat /\ grants \in Seq(Grant)
        /\ Elapsed(now) \in Nat /\ Unearned(now) \in Nat
    <2>1. clock \in Nat /\ now \in Nat
      BY LimitAssumption DEF TypeOK
    <2> QED BY <2>1, RefilledBounds, UnearnedIsNat DEF TypeOK, Grant
  <1>2. CASE ScriptGrants(now)
    <2>1. /\ tokens' = Refilled(now) - Second /\ Refilled(now) >= Second
          /\ lastTime' = now /\ bucketTtl' = clock + 3 * Second
          /\ given' = given + Unearned(now)
          /\ grants' = Append(grants, [time |-> now, given |-> given'])
      BY <1>2 DEF ScriptGrants, Granted
    <2>2. given' \in Nat /\ [time |-> now, given |-> given'] \in Grant
      BY <1>1, <2>1 DEF Grant
    <2>3. grants' \in Seq(Grant)
      BY <1>1, <2>1, <2>2, AppendProperties
    <2> QED BY <1>1, <2>1, <2>2, <2>3, FullIsNat, LimitAssumption
  <1>3. CASE ScriptDenies(now)
    <2>1. /\ tokens' = Refilled(now) /\ bucketTtl' = clock + 3 * Second
          /\ lastTime' = lastTime /\ grants' = grants
          /\ given' = given + Elapsed(now)
      BY <1>3 DEF ScriptDenies
    <2> QED BY <1>1, <2>1, LimitAssumption
  <1>4. CASE UNCHANGED bucketVars
    BY <1>1, <1>4 DEF bucketVars
  <1> QED BY <1>2, <1>3, <1>4

LEMMA TypeInit == Init => TypeOK
  BY LimitAssumption, FullIsNat DEF Init, TypeOK

\* The steps of the script: EvalGrants, EvalDenies, EvalIsRefused, EvalFails.
Evaluates(w) ==
  /\ pc[w] = "bucket"
  /\ \/ ScriptGrants(stamp[w]) \/ ScriptDenies(stamp[w]) \/ UNCHANGED bucketVars
  /\ \E p \in {"idle", "limited"} : pc' = [pc EXCEPT ![w] = p]
  /\ \E a \in {"denied", "error"} :
       answer' = answer \/ answer' = [answer EXCEPT ![w] = a]
  /\ UNCHANGED <<clock, stamp, calls, counterVars>>

LEMMA EvaluatesIsAll ==
  ASSUME NEW w \in Workers,
         EvalGrants(w) \/ EvalDenies(w) \/ EvalIsRefused(w) \/ EvalFails(w)
  PROVE  Evaluates(w)
  <1>1. CASE EvalGrants(w)
    BY <1>1 DEF EvalGrants, Evaluates
  <1>2. CASE EvalDenies(w)
    BY <1>2 DEF EvalDenies, Evaluates
  <1>3. CASE EvalIsRefused(w)
    BY <1>3 DEF EvalIsRefused, Evaluates
  <1>4. CASE EvalFails(w)
    BY <1>4 DEF EvalFails, Evaluates
  <1> QED BY <1>1, <1>2, <1>3, <1>4

\* The steps of the counter: IncrPasses, IncrRejects, IncrFails, Expire.
Counts(w) ==
  /\ pc[w] \in {"window", "expire"}
  /\ \E p \in {"idle", "expire"} : pc' = [pc EXCEPT ![w] = p]
  /\ UNCHANGED <<clock, requestVars, bucketVars>>

LEMMA CountsIsAll ==
  ASSUME NEW w \in Workers,
         IncrPasses(w) \/ IncrRejects(w) \/ IncrFails(w) \/ Expire(w)
  PROVE  Counts(w)
  <1>1. CASE IncrPasses(w)
    <2>1. (IF counter[SecondOf(stamp[w])] = 0 THEN "expire" ELSE "idle")
            \in {"idle", "expire"}
      OBVIOUS
    <2> QED BY <1>1, <2>1 DEF IncrPasses, Counts
  <1>2. CASE IncrRejects(w)
    BY <1>2 DEF IncrRejects, Counts
  <1>3. CASE IncrFails(w)
    BY <1>3 DEF IncrFails, Counts
  <1>4. CASE Expire(w)
    BY <1>4 DEF Expire, Counts
  <1> QED BY <1>1, <1>2, <1>3, <1>4

\* The second a worker counts in has a value in each of the maps.
LEMMA CounterType ==
  ASSUME TypeOK, NEW w \in Workers,
         IncrPasses(w) \/ IncrRejects(w) \/ IncrFails(w) \/ Expire(w)
  PROVE  /\ counter' \in [Seconds -> Nat] /\ counterTtl' \in [Seconds -> Nat]
         /\ passed' \in [Seconds -> Nat] /\ lost' \in [Seconds -> Nat]
         /\ rejected' \in [Seconds -> Nat] /\ expired' \in [Seconds -> Nat]
  <1> DEFINE s == SecondOf(stamp[w])
  <1>1. s \in Seconds
    BY StampedSecond
  <1>2. /\ counter \in [Seconds -> Nat] /\ counterTtl \in [Seconds -> Nat]
        /\ passed \in [Seconds -> Nat] /\ lost \in [Seconds -> Nat]
        /\ rejected \in [Seconds -> Nat] /\ expired \in [Seconds -> Nat]
        /\ clock + 2 * Second \in Nat
    BY LimitAssumption DEF TypeOK
  <1>3. /\ counter[s] + 1 \in Nat /\ passed[s] + 1 \in Nat
        /\ lost[s] + 1 \in Nat /\ rejected[s] + 1 \in Nat
    BY <1>1, <1>2
  <1> HIDE DEF s
  <1>4. CASE IncrPasses(w)
    BY <1>1, <1>2, <1>3, <1>4 DEF IncrPasses, s
  <1>5. CASE IncrRejects(w)
    BY <1>1, <1>2, <1>3, <1>5 DEF IncrRejects, s
  <1>6. CASE IncrFails(w)
    BY <1>1, <1>2, <1>3, <1>6 DEF IncrFails, s
  <1>7. CASE Expire(w)
    BY <1>1, <1>2, <1>3, <1>7 DEF Expire, s
  <1> QED BY <1>4, <1>5, <1>6, <1>7

LEMMA TypeStep == TypeOK /\ [Next]_vars => TypeOK'
  <1> SUFFICES ASSUME TypeOK, [Next]_vars PROVE TypeOK'
    OBVIOUS
  <1> USE LimitAssumption
  <1>1. CASE Tick
    <2>1. /\ pc' = pc /\ stamp' = stamp /\ answer' = answer /\ calls' = calls
          /\ tokens' = tokens /\ lastTime' = lastTime /\ given' = given
          /\ grants' = grants /\ passed' = passed /\ lost' = lost
          /\ rejected' = rejected
          /\ clock' = clock + 1 /\ clock' \in 0..MaxClock /\ clock \in Nat
      BY <1>1 DEF Tick, requestVars, TypeOK
    <2>2. stamp' \in [Workers -> 0..clock'] /\ lastTime' \in 0..clock'
      BY <2>1 DEF TypeOK
    <2>3. /\ bucketTtl' \in Nat
          /\ counter' \in [Seconds -> Nat] /\ counterTtl' \in [Seconds -> Nat]
          /\ expired' \in [Seconds -> Nat]
      BY <1>1 DEF Tick, TypeOK
    <2> QED BY <2>1, <2>2, <2>3 DEF TypeOK
  <1>2. CASE \E w \in Workers : Worker(w)
    <2>1. PICK w \in Workers : Worker(w)
      BY <1>2
    <2>2. CASE ReadTime(w)
      <3>1. /\ stamp' = [stamp EXCEPT ![w] = clock] /\ clock' = clock
            /\ pc' = [pc EXCEPT ![w] = "bucket"]
            /\ calls' \in 0..MaxCalls /\ answer' = [answer EXCEPT ![w] = "none"]
            /\ UNCHANGED <<bucketVars, counterVars>>
        BY <2>2 DEF ReadTime, TypeOK
      <3> QED BY <3>1 DEF TypeOK, bucketVars, counterVars
    <2>3. CASE EvalGrants(w) \/ EvalDenies(w) \/ EvalIsRefused(w) \/ EvalFails(w)
      <3>1. Evaluates(w)
        BY <2>3, EvaluatesIsAll
      <3>2. stamp[w] \in 0..clock
        BY DEF TypeOK
      <3>3. /\ tokens' \in 0..Full /\ lastTime' \in 0..clock /\ bucketTtl' \in Nat
            /\ given' \in Nat /\ grants' \in Seq([time : Nat, given : Nat])
        BY <3>1, <3>2, ScriptType DEF Evaluates, Grant
      <3> QED BY <3>1, <3>3 DEF Evaluates, TypeOK, counterVars
    <2>4. CASE ReadSecond(w)
      <3>1. /\ stamp' = [stamp EXCEPT ![w] = clock] /\ clock' = clock
            /\ pc' = [pc EXCEPT ![w] = "window"]
            /\ UNCHANGED <<answer, calls, bucketVars, counterVars>>
        BY <2>4 DEF ReadSecond
      <3> QED BY <3>1 DEF TypeOK, bucketVars, counterVars
    <2>5. CASE IncrPasses(w) \/ IncrRejects(w) \/ IncrFails(w) \/ Expire(w)
      <3>1. Counts(w)
        BY <2>5, CountsIsAll
      <3> QED BY <2>5, <3>1, CounterType DEF Counts, TypeOK, requestVars, bucketVars
    <2> QED BY <2>1, <2>2, <2>3, <2>4, <2>5 DEF Worker
  <1>3. CASE UNCHANGED vars
    BY <1>3 DEF TypeOK, vars, requestVars, bucketVars, counterVars
  <1> QED BY <1>1, <1>2, <1>3 DEF Next

-------------------------------------------------------------------------------
(* The bucket.                                                             *)

LEMMA AbsentBucketIsFull == TypeOK /\ KeyOutlives => AbsentIsFull
  <1> SUFFICES ASSUME TypeOK, KeyOutlives, bucketTtl = 0,
                      NEW w \in Workers, pc[w] = "bucket"
               PROVE  tokens + (stamp[w] - lastTime + Overdue(stamp[w])) * Rate >= Full
    BY DEF AbsentIsFull
  <1>1. /\ stamp[w] \in Nat /\ stamp[w] <= clock /\ clock \in Nat /\ lastTime \in Nat
        /\ tokens \in 0..Full /\ Second \in Nat
    BY LimitAssumption DEF TypeOK
  <1>2. Overdue(stamp[w]) \in Nat /\ Overdue(stamp[w]) >= clock - stamp[w] - Second
    BY <1>1 DEF Overdue
  <1> DEFINE due == stamp[w] - lastTime + Overdue(stamp[w])
  <1>3. due \in Int /\ Rate \in Nat /\ 2 * Second \in Int
    BY <1>1, <1>2, LimitAssumption
  <1>4. CASE tokens = Full /\ lastTime = 0
    <2>1. 0 <= due
      BY <1>1, <1>2, <1>4
    <2>2. 0 * Rate <= due * Rate
      BY <1>3, <2>1, Increases
    <2> HIDE DEF due
    <2>3. due * Rate \in Int /\ due * Rate >= 0
      BY <1>3, <2>2
    <2> QED BY <1>4, <2>3, FullIsNat DEF due
  <1>5. CASE clock > lastTime + 3 * Second
    <2>1. 2 * Second <= due
      BY <1>1, <1>2, <1>5
    <2>2. (2 * Second) * Rate <= due * Rate
      BY <1>3, <2>1, Increases
    <2> HIDE DEF due
    <2>3. due * Rate \in Int /\ Full <= due * Rate
      BY <1>3, <2>2, FullIsNat
    <2> QED BY <1>1, <2>3, FullIsNat DEF due
  <1> QED BY <1>4, <1>5 DEF KeyOutlives

\* Whichever branch a call takes, and however late or out of order it is, it finds no
\* more than what was there and what the ticks that its refill counts have earned.
LEMMA ScriptEarns ==
  ASSUME BucketInv, NEW w \in Workers, pc[w] = "bucket",
         ScriptGrants(stamp[w]) \/ ScriptDenies(stamp[w])
  PROVE  /\ Refills \in Nat /\ Refills' \in Nat /\ Refills <= Refills'
         /\ Refilled(stamp[w]) <= tokens + (Refills' - Refills) * Rate
  <1> DEFINE now == stamp[w]
             found == Refilled(now)
  <1>1. /\ now \in 0..clock /\ now \in Nat /\ clock \in Nat /\ lastTime \in Nat
        /\ given \in Nat /\ tokens \in 0..Full /\ Rate \in Nat /\ Second \in Nat
        /\ TypeOK /\ KeyOutlives
    <2>1. TypeOK /\ KeyOutlives
      BY DEF BucketInv
    <2>2. now \in Nat /\ now <= clock
      BY <2>1, StampedSecond
    <2>3. /\ clock \in Nat /\ lastTime \in Nat /\ given \in Nat /\ tokens \in 0..Full
          /\ Rate \in Nat /\ Second \in Nat
      BY <2>1, LimitAssumption DEF TypeOK
    <2> QED BY <2>1, <2>2, <2>3
  <1>2. /\ found \in 0..Full /\ Elapsed(now) \in Nat
        /\ bucketTtl = 0 => found = Full
        /\ bucketTtl # 0 => found <= tokens + Elapsed(now) * Rate
    BY <1>1, RefilledBounds
  <1>3. Elapsed(now) = IF now > lastTime THEN now - lastTime ELSE 0
    BY DEF Elapsed
  <1>4. CASE ScriptGrants(now) /\ bucketTtl = 0
    <2>1. lastTime' = now /\ given' = given + Overdue(now) /\ Overdue(now) \in Nat
      BY <1>1, <1>4, UnearnedIsNat DEF ScriptGrants, Granted, Unearned
    <2>2. tokens + (now - lastTime + Overdue(now)) * Rate >= Full
      BY <1>1, <1>4, AbsentBucketIsFull DEF AbsentIsFull
    <2>3. Refills' - Refills = now - lastTime + Overdue(now)
      BY <1>1, <2>1 DEF Refills
    <2>4. 0 <= now - lastTime + Overdue(now)
      <3>1. Overdue(now) >= clock - now - Second
        BY <1>1 DEF Overdue
      <3> QED BY <1>1, <1>4, <2>1, <3>1 DEF KeyOutlives
    <2>5. Refills \in Nat /\ Refills' \in Nat /\ Refills <= Refills'
      BY <1>1, <2>1, <2>3, <2>4 DEF Refills
    <2> DEFINE room == (now - lastTime + Overdue(now)) * Rate
    <2>6. room \in Int
      BY <1>1, <2>1
    <2> HIDE DEF room
    <2>7. found <= tokens + room
      BY <1>1, <1>2, <1>4, <2>2, <2>6, FullIsNat DEF room
    <2> QED BY <2>3, <2>5, <2>7 DEF room
  <1>5. CASE ScriptGrants(now) /\ bucketTtl # 0
    <2>1. lastTime' = now /\ given' = given + IF now < lastTime THEN lastTime - now ELSE 0
      BY <1>5 DEF ScriptGrants, Granted, Unearned
    <2>2. Refills' - Refills = Elapsed(now)
      BY <1>1, <1>3, <2>1 DEF Refills
    <2>3. Refills \in Nat /\ Refills' \in Nat /\ Refills <= Refills'
      BY <1>1, <1>2, <2>1, <2>2 DEF Refills
    <2> QED BY <1>2, <1>5, <2>2, <2>3
  <1>6. CASE ScriptDenies(now)
    <2>1. /\ lastTime' = lastTime /\ given' = given + Elapsed(now) /\ found < Second
      BY <1>6 DEF ScriptDenies
    <2>2. bucketTtl # 0
      BY <1>1, <1>2, <2>1, FullIsNat
    <2>3. Refills' - Refills = Elapsed(now)
      BY <1>1, <1>2, <2>1 DEF Refills
    <2>4. Refills \in Nat /\ Refills' \in Nat /\ Refills <= Refills'
      BY <1>1, <1>2, <2>1 DEF Refills
    <2> QED BY <1>2, <2>2, <2>3, <2>4
  <1> QED BY <1>4, <1>5, <1>6

LEMMA BucketInit == Init => BucketInv
  <1> SUFFICES ASSUME Init PROVE BucketInv
    OBVIOUS
  <1>1. TypeOK
    BY TypeInit
  <1>2. KeyOutlives
    BY LimitAssumption, FullIsNat DEF Init, KeyOutlives
  <1>3. Len(grants) = 0
    BY DEF Init
  <1>4. GivenGrows /\ Budget /\ BucketRate
    BY <1>3 DEF GivenGrows, Budget, BucketRate
  <1> QED BY <1>1, <1>2, <1>4 DEF BucketInv

\* An earlier grant's budget covers m more requests and what the call leaves, since
\* together they are what it found.
LEMMA BudgetGoesOn ==
  ASSUME BucketInv, NEW w \in Workers, pc[w] = "bucket",
         ScriptGrants(stamp[w]) \/ ScriptDenies(stamp[w]),
         NEW i \in 1..Len(grants), NEW m \in {0, 1},
         tokens' = Refilled(stamp[w]) - m * Second
  PROVE  /\ Start(i) \in Nat /\ Start(i) <= Refills'
         /\ (Len(grants) + m - i + 1) * Second + tokens'
              <= Full + (Refills' - Start(i)) * Rate
  <1> DEFINE n == Len(grants)
             h == Start(i)
             found == Refilled(stamp[w])
             a == (n - i + 1) * Second
             b == (Refills - h) * Rate
             c == (Refills' - Refills) * Rate
             d == m * Second
  <1>1. /\ grants \in Seq(Grant) /\ n \in Nat /\ tokens \in 0..Full
        /\ Rate \in Nat /\ Second \in Nat /\ Full \in Nat /\ stamp[w] \in Nat
        /\ found \in 0..Full
    <2>1. TypeOK
      BY DEF BucketInv
    <2>2. stamp[w] \in Nat
      BY <2>1, StampedSecond
    <2>3. found \in 0..Full
      BY <2>1, <2>2, RefilledBounds
    <2>4. grants \in Seq(Grant) /\ tokens \in 0..Full
      BY <2>1 DEF TypeOK, Grant
    <2>5. n \in Nat
      BY <2>4
    <2> QED BY <2>2, <2>3, <2>4, <2>5, FullIsNat, LimitAssumption
  <1>2. grants[i] \in Grant
    BY <1>1
  <1>3. h \in Nat
    BY <1>2 DEF Grant, Start
  <1>4. h <= Refills /\ a + tokens <= Full + b
    BY DEF BucketInv, Budget, BudgetFrom
  <1>5. /\ Refills \in Nat /\ Refills' \in Nat /\ Refills <= Refills'
        /\ found <= tokens + c
    BY ScriptEarns
  <1> HIDE DEF h, found
  <1>6. (n + m - i + 1) * Second = a + d
    <2>1. n - i + 1 \in Int /\ m \in Int /\ n + m - i + 1 = (n - i + 1) + m
      BY <1>1
    <2> QED BY <1>1, <2>1, Distributes
  <1>7. (Refills' - h) * Rate = b + c
    <2>1. /\ Refills - h \in Int /\ Refills' - Refills \in Int
          /\ Refills' - h = (Refills - h) + (Refills' - Refills)
      BY <1>3, <1>5
    <2> QED BY <1>1, <2>1, Distributes
  <1>8. a \in Int /\ b \in Int /\ c \in Int /\ d \in Int
    <2>1. n - i + 1 \in Int /\ Refills - h \in Int /\ Refills' - Refills \in Int
      BY <1>1, <1>3, <1>5
    <2> QED BY <1>1, <2>1
  <1>9. tokens' = found - d
    BY DEF found
  <1> HIDE DEF a, b, c, d
  <1>10. (a + d) + tokens' <= Full + (b + c)
    BY <1>1, <1>4, <1>5, <1>8, <1>9
  <1>11. h <= Refills'
    BY <1>3, <1>4, <1>5
  <1> QED BY <1>3, <1>6, <1>7, <1>10, <1>11 DEF h

\* The budget of grant i, for given grants, refills and tokens.
StartIn(g, i) == g[i].time + g[i].given
HasBudget(g, refills, held, i) ==
  /\ StartIn(g, i) \in Nat /\ StartIn(g, i) <= refills
  /\ (Len(g) - i + 1) * Second + held <= Full + (refills - StartIn(g, i)) * Rate

\* A grant keeps every budget, and opens one of its own.
LEMMA GrantKeepsBudget ==
  ASSUME BucketInv, NEW w \in Workers, pc[w] = "bucket", ScriptGrants(stamp[w])
  PROVE  /\ Len(grants') = Len(grants) + 1
         /\ \A i \in 1..Len(grants) : grants'[i] = grants[i]
         /\ \A i \in 1..Len(grants') :
              /\ HasBudget(grants', Refills', tokens', i)
              /\ i = Len(grants) + 1 => StartIn(grants', i) = Refills'
  <1> DEFINE now == stamp[w]
             n == Len(grants)
             new == [time |-> now, given |-> given']
  <1>1. /\ grants \in Seq(Grant) /\ now \in Nat /\ n \in Nat
        /\ Rate \in Nat /\ Second \in Nat /\ Full \in Nat /\ Full' = Full
        /\ Refilled(now) \in 0..Full
    <2>1. TypeOK
      BY DEF BucketInv
    <2>2. Full' = Full
      BY DEF Full
    <2>3. now \in Nat
      BY <2>1, StampedSecond
    <2>4. Refilled(now) \in 0..Full
      BY <2>1, <2>3, RefilledBounds
    <2>5. grants \in Seq(Grant)
      BY <2>1 DEF TypeOK, Grant
    <2>6. n \in Nat
      BY <2>5
    <2> QED BY <2>2, <2>3, <2>4, <2>5, <2>6, FullIsNat, LimitAssumption
  <1>2. /\ tokens' = Refilled(now) - 1 * Second /\ Refilled(now) >= Second
        /\ lastTime' = now /\ grants' = Append(grants, new)
    BY <1>1 DEF ScriptGrants, Granted
  <1>3. Refills' = now + given' /\ Refills' \in Nat
    BY <1>2, ScriptEarns DEF Refills
  <1>4. /\ Len(grants') = n + 1 /\ grants'[n + 1] = new
        /\ \A i \in 1..n : grants'[i] = grants[i]
    BY <1>1, <1>2, AppendProperties
  <1>5. ASSUME NEW i \in 1..Len(grants'), i = n + 1
        PROVE  StartIn(grants', i) = Refills'
    <2>1. grants'[i] = new
      BY <1>4, <1>5
    <2> QED BY <1>3, <2>1 DEF StartIn
  <1>6. ASSUME NEW i \in 1..n
        PROVE  StartIn(grants', i) = Start(i)
    BY <1>4 DEF Start, StartIn
  <1> HIDE DEF now, n, new
  <1>7. ASSUME NEW i \in 1..Len(grants')
        PROVE  HasBudget(grants', Refills', tokens', i)
    <2> DEFINE start == StartIn(grants', i)
    <2>1. CASE i = n + 1
      <3>1. start = Refills' /\ Refills' - start = 0
        BY <1>3, <1>5, <2>1
      <3>2. (Refills' - start) * Rate = 0
        BY <1>1, <3>1
      <3>3. (Len(grants') - i + 1) * Second = Second
        <4>1. Len(grants') - i + 1 = 1
          BY <1>1, <1>4, <2>1
        <4> QED BY <1>1, <4>1
      <3>4. Second + tokens' <= Full + 0
        BY <1>1, <1>2
      <3> HIDE DEF start
      <3>5. (Len(grants') - i + 1) * Second + tokens' <= Full + (Refills' - start) * Rate
        BY <3>2, <3>3, <3>4
      <3> QED BY <1>3, <3>1, <3>5 DEF HasBudget, start
    <2>2. CASE i \in 1..n
      <3>1. /\ Start(i) \in Nat /\ Start(i) <= Refills'
            /\ (Len(grants) + 1 - i + 1) * Second + tokens'
                 <= Full + (Refills' - Start(i)) * Rate
        BY <1>2, <2>2, BudgetGoesOn DEF n, now
      <3> QED BY <1>1, <1>4, <1>6, <2>2, <3>1 DEF HasBudget, n
    <2> QED BY <1>1, <1>4, <2>1, <2>2
  <1> QED BY <1>4, <1>5, <1>7 DEF n

\* Nothing that was given away is taken back.
LEMMA GivenIsKept ==
  ASSUME BucketInv, NEW w \in Workers,
         ScriptGrants(stamp[w]) \/ ScriptDenies(stamp[w])
  PROVE  GivenGrows'
  <1>1. /\ stamp[w] \in 0..clock /\ stamp[w] \in Nat /\ given \in Nat
        /\ grants \in Seq(Grant) /\ TypeOK
        /\ \A i \in 1..Len(grants) : grants[i] \in Grant /\ grants[i].given <= given
    <2>1. TypeOK /\ stamp[w] \in 0..clock /\ given \in Nat /\ grants \in Seq(Grant)
      BY DEF BucketInv, TypeOK, Grant
    <2>2. stamp[w] \in Nat
      BY <2>1, StampedSecond
    <2>3. \A i \in 1..Len(grants) : grants[i] \in Grant
      BY <2>1
    <2> QED BY <2>1, <2>2, <2>3 DEF BucketInv, GivenGrows
  <1>2. Unearned(stamp[w]) \in Nat /\ Elapsed(stamp[w]) \in Nat
    BY <1>1, UnearnedIsNat, RefilledBounds
  <1>3. ASSUME NEW i \in 1..Len(grants)
        PROVE  given' >= given => grants[i].given <= given'
    <2>1. grants[i].given \in Nat /\ given' \in Int
      BY <1>1, <1>2 DEF Grant, ScriptGrants, ScriptDenies, Granted
    <2> QED BY <1>1, <2>1
  <1>4. CASE ScriptDenies(stamp[w])
    <2>1. grants' = grants /\ given' >= given
      BY <1>1, <1>2, <1>4 DEF ScriptDenies
    <2> QED BY <1>3, <2>1 DEF GivenGrows
  <1>5. CASE ScriptGrants(stamp[w])
    <2> DEFINE new == [time |-> stamp[w], given |-> given']
    <2>1. grants' = Append(grants, new) /\ given' >= given /\ given' \in Nat
      BY <1>1, <1>2, <1>5 DEF ScriptGrants, Granted
    <2>2. /\ Len(grants') = Len(grants) + 1 /\ grants'[Len(grants) + 1] = new
          /\ \A i \in 1..Len(grants) : grants'[i] = grants[i]
          /\ Len(grants) \in Nat
      BY <1>1, <2>1, AppendProperties
    <2>3. ASSUME NEW i \in 1..Len(grants')
          PROVE  grants'[i].given <= given'
      <3>1. CASE i = Len(grants) + 1
        BY <2>1, <2>2, <3>1
      <3>2. CASE i \in 1..Len(grants)
        BY <1>3, <2>1, <2>2, <3>2
      <3> QED BY <2>2, <3>1, <3>2
    <2> QED BY <2>3 DEF GivenGrows
  <1> QED BY <1>4, <1>5

\* A call keeps what the bucket's invariant says, whichever branch it takes.
LEMMA ScriptKeepsBucket ==
  ASSUME BucketInv, TypeOK', NEW w \in Workers, pc[w] = "bucket",
         UNCHANGED clock,
         ScriptGrants(stamp[w]) \/ ScriptDenies(stamp[w])
  PROVE  KeyOutlives' /\ GivenGrows' /\ Budget' /\ BucketRate'
  <1>1. /\ stamp[w] \in Nat /\ stamp[w] <= clock /\ clock \in Nat
        /\ lastTime \in Nat /\ lastTime <= clock /\ Second \in Nat \ {0}
        /\ Len(grants) \in Nat
    BY StampedSecond, LimitAssumption DEF BucketInv, TypeOK
  <1>2. /\ bucketTtl' = clock + 3 * Second
        /\ lastTime' = stamp[w] \/ lastTime' = lastTime
    BY DEF ScriptGrants, ScriptDenies
  <1>3. KeyOutlives' /\ GivenGrows'
    BY <1>1, <1>2, GivenIsKept DEF KeyOutlives
  <1>4. CASE ScriptDenies(stamp[w])
    <2>1. grants' = grants /\ tokens' = Refilled(stamp[w]) - 0 * Second
      <3>1. Refilled(stamp[w]) \in 0..Full /\ 0 * Second = 0
        BY <1>1, RefilledBounds DEF BucketInv
      <3> QED BY <1>4, <3>1, FullIsNat DEF ScriptDenies
    <2>2. BucketRate'
      BY <2>1 DEF BucketInv, BucketRate, WithinGiven, Start, Full
    <2>3. ASSUME NEW i \in 1..Len(grants)
          PROVE  BudgetFrom(i)'
      <3>1. /\ Start(i) <= Refills'
            /\ (Len(grants) + 0 - i + 1) * Second + tokens'
                 <= Full + (Refills' - Start(i)) * Rate
        BY <2>1, BudgetGoesOn
      <3>2. Len(grants) + 0 - i + 1 = Len(grants) - i + 1
        BY <1>1
      <3>3. Start(i)' = Start(i) /\ Full' = Full /\ Len(grants') = Len(grants)
        BY <2>1 DEF Start, Full
      <3> QED BY <3>1, <3>2, <3>3 DEF BudgetFrom
    <2> QED BY <1>3, <2>1, <2>2, <2>3 DEF Budget
  <1>5. CASE ScriptGrants(stamp[w])
    <2> DEFINE n == Len(grants)
    <2>1. /\ Len(grants') = n + 1
          /\ \A i \in 1..n : grants'[i] = grants[i]
          /\ \A i \in 1..Len(grants') :
               /\ HasBudget(grants', Refills', tokens', i)
               /\ i = n + 1 => StartIn(grants', i) = Refills'
      BY <1>5, GrantKeepsBudget
    <2>4. Budget'
      BY <2>1 DEF Budget, BudgetFrom, Start, Refills, HasBudget, StartIn, Full
    <2> SUFFICES ASSUME NEW j \in 1..Len(grants'), NEW i \in 1..j
                 PROVE  WithinGiven(i, j)'
      BY <1>3, <2>4 DEF BucketRate, WithinGiven, Start
    <2>2. CASE j = n + 1
      <3> DEFINE cost == (j - i + 1) * Second
                 room == (StartIn(grants', j) - StartIn(grants', i)) * Rate
      <3> HIDE DEF cost, room
      <3>1. /\ i \in 1..Len(grants') /\ j \in 1..Len(grants')
            /\ Len(grants') - i + 1 = j - i + 1
        BY <1>1, <2>1, <2>2
      <3>2. /\ HasBudget(grants', Refills', tokens', i) /\ StartIn(grants', j) \in Nat
            /\ StartIn(grants', j) = Refills'
        BY <2>1, <2>2, <3>1 DEF HasBudget
      <3>6. cost + tokens' <= Full + room
        BY <3>1, <3>2 DEF HasBudget, cost, room
      <3>3. cost \in Int /\ room \in Int /\ Full \in Nat /\ tokens' \in Nat
        <4>1. Full' = Full
          BY DEF Full
        <4>2. j - i + 1 \in Int /\ StartIn(grants', j) - StartIn(grants', i) \in Int
          BY <3>1, <3>2, <2>2, <1>1 DEF HasBudget
        <4>3. tokens' \in 0..Full
          BY <4>1 DEF TypeOK
        <4> QED BY <4>2, <4>3, FullIsNat, LimitAssumption DEF cost, room
      <3>4. cost <= Full + room
        <4>1. tokens' \in Int /\ tokens' >= 0 /\ Full \in Int
          BY <3>3
        <4> QED BY <3>3, <3>6, <4>1, LeavesLess, Zenon
      <3> QED BY <3>4 DEF cost, room, WithinGiven, Start, StartIn, Full
    <2>3. CASE j \in 1..n
      <3>1. WithinGiven(i, j)
        BY <2>3 DEF BucketInv, BucketRate
      <3>2. grants'[i] = grants[i] /\ grants'[j] = grants[j]
        BY <1>1, <2>1, <2>3
      <3> QED BY <3>1, <3>2 DEF WithinGiven, Start, Full
    <2> QED BY <1>1, <2>1, <2>2, <2>3
  <1> QED BY <1>4, <1>5

\* Nothing else touches the bucket but time.
LEMMA BucketUntouched ==
  ASSUME BucketInv, UNCHANGED <<clock, bucketVars>>
  PROVE  KeyOutlives' /\ GivenGrows' /\ Budget' /\ BucketRate'
  <1> USE DEF bucketVars, BucketInv
  <1>1. KeyOutlives' /\ GivenGrows'
    BY DEF KeyOutlives, GivenGrows, Full
  <1>2. Budget'
    BY DEF Budget, BudgetFrom, Refills, Start, Full
  <1>3. BucketRate'
    BY DEF BucketRate, WithinGiven, Start, Full
  <1> QED BY <1>1, <1>2, <1>3

LEMMA BucketStep == BucketInv /\ [Next]_vars => BucketInv'
  <1> SUFFICES ASSUME BucketInv, [Next]_vars PROVE BucketInv'
    OBVIOUS
  <1>1. TypeOK'
    BY TypeStep DEF BucketInv
  <1>2. KeyOutlives' /\ GivenGrows' /\ Budget' /\ BucketRate'
    <2>1. CASE Tick
      <3>1. /\ clock' = clock + 1 /\ clock \in Nat /\ lastTime \in Nat
            /\ bucketTtl \in Nat
            /\ tokens' = tokens /\ lastTime' = lastTime /\ grants' = grants
            /\ given' = given
            /\ bucketTtl' = IF bucketTtl # 0 /\ bucketTtl < clock + 1
                              THEN 0 ELSE bucketTtl
        BY <2>1, LimitAssumption DEF Tick, Over, BucketInv, TypeOK
      <3>2. KeyOutlives'
        BY <3>1, LimitAssumption DEF KeyOutlives, BucketInv, Full
      <3>3. GivenGrows' /\ Budget' /\ BucketRate'
        <4>1. Budget'
          BY <3>1 DEF BucketInv, Budget, BudgetFrom, Refills, Start, Full
        <4>2. BucketRate'
          BY <3>1 DEF BucketInv, BucketRate, WithinGiven, Start, Full
        <4>3. GivenGrows'
          BY <3>1 DEF BucketInv, GivenGrows
        <4> QED BY <4>1, <4>2, <4>3
      <3> QED BY <3>2, <3>3
    <2>2. ASSUME NEW w \in Workers, Evaluates(w)
          PROVE  KeyOutlives' /\ GivenGrows' /\ Budget' /\ BucketRate'
      BY <1>1, <2>2, ScriptKeepsBucket, BucketUntouched DEF Evaluates
    <2>3. ASSUME NEW w \in Workers, Counts(w)
          PROVE  UNCHANGED <<clock, bucketVars>>
      BY <2>3 DEF Counts
    <2>4. ASSUME NEW w \in Workers, ReadTime(w) \/ ReadSecond(w)
          PROVE  UNCHANGED <<clock, bucketVars>>
      BY <2>4 DEF ReadTime, ReadSecond
    <2>5. CASE UNCHANGED vars
      BY <2>5, BucketUntouched DEF vars
    <2> QED BY <2>1, <2>2, <2>3, <2>4, <2>5, EvaluatesIsAll, CountsIsAll,
               BucketUntouched DEF Next, Worker
  <1> QED BY <1>1, <1>2 DEF BucketInv

\* The bucket stays within its capacity, and what it holds never exceeds what an
\* interval since any grant has left to grant, with keys that expire, calls of any
\* delay in any order, and denials.
THEOREM BucketInvariant == Spec => []BucketInv
  BY BucketInit, BucketStep, PTL DEF Spec

\* The three seconds after which Redis drops an unused bucket give away what a call is
\* late beyond a second, and nothing to one that is not.
THEOREM ExpiryIsFree == Spec => []AbsentIsFull
  <1>1. BucketInv => AbsentIsFull
    BY AbsentBucketIsFull DEF BucketInv
  <1> QED BY BucketInit, BucketStep, <1>1, PTL DEF Spec

\* Between any two grants the script has granted the rate, one burst, and the rate of
\* the ticks that were given away; if none was, what the header of isAllowed() says.
THEOREM BucketIsFair == Spec => [](BucketRate /\ (given = 0 => RateIsKept))
  <1>1. BucketInv => BucketRate /\ (given = 0 => RateIsKept)
    <2> SUFFICES ASSUME BucketInv, given = 0, NEW j \in 1..Len(grants), NEW i \in 1..j
                 PROVE  WithinRate(i, j)
      BY DEF RateIsKept, BucketInv
    <2>1. /\ grants \in Seq(Grant) /\ lastTime \in Nat
          /\ i \in 1..Len(grants)
      BY DEF BucketInv, TypeOK, Grant
    <2>2. PICK x \in Grant, y \in Grant : x = grants[i] /\ y = grants[j]
      BY <2>1
    <2>3. WithinGiven(i, j)
      BY DEF BucketInv, BucketRate
    <2>4. x.given = 0 /\ y.given = 0
      BY <2>1, <2>2 DEF BucketInv, GivenGrows, Grant
    <2>5. Start(j) - Start(i) = grants[j].time - grants[i].time
      BY <2>2, <2>4 DEF Start, Grant
    <2> QED BY <2>3, <2>5 DEF WithinGiven, WithinRate
  <1> QED BY BucketInit, BucketStep, <1>1, PTL DEF Spec

-------------------------------------------------------------------------------
(* The counter.                                                            *)

\* A key of a second lives until two seconds after that one began, and two more for
\* each key that was dropped before it.
TtlIsLate ==
  \A s \in Seconds :
    counterTtl[s] # 0 => counterTtl[s] >= (s + 2 * (expired[s] + 1)) * Second

DroppedInTime ==
  \A s \in Seconds : expired[s] > 0 => clock > (s + 2 * expired[s]) * Second

\* Whom it let through is in the counter, or was counted under a key that is gone.
PassedAreCounted ==
  \A s \in Seconds : /\ passed[s] <= expired[s] * Rate + counter[s]
                     /\ passed[s] <= (expired[s] + 1) * Rate

\* Before the first rejection the counter is made of requests let through.
CountedAreServed ==
  \A s \in Seconds : rejected[s] = 0 => counter[s] <= passed[s] + lost[s]

CounterInv == /\ TtlIsLate /\ DroppedInTime /\ PassedAreCounted
              /\ CountedAreServed /\ RejectedOnlyWhenFull

WindowInv == TypeOK /\ CounterInv

LEMMA WindowInit == Init => WindowInv
  <1> SUFFICES ASSUME Init PROVE WindowInv
    OBVIOUS
  <1>1. TypeOK
    BY TypeInit
  <1>2. \A s \in Seconds : /\ counter[s] = 0 /\ counterTtl[s] = 0 /\ passed[s] = 0
                           /\ lost[s] = 0 /\ rejected[s] = 0 /\ expired[s] = 0
    BY DEF Init
  <1> QED BY <1>1, <1>2, LimitAssumption
          DEF WindowInv, CounterInv, TtlIsLate, DroppedInTime, PassedAreCounted,
              CountedAreServed, RejectedOnlyWhenFull

\* One more key, with its two seconds and its limit.
LEMMA OneMoreKey ==
  ASSUME NEW s \in Nat, NEW n \in Nat
  PROVE  /\ (s + 2 * (n + 1)) * Second = (s + 2 * n) * Second + 2 * Second
         /\ (n + 1) * Rate = n * Rate + Rate
         /\ (s + 2 * n) * Second \in Nat /\ n * Rate \in Nat
  <1>1. /\ Second \in Nat /\ Rate \in Nat
        /\ s + 2 * (n + 1) = (s + 2 * n) + 2 /\ s + 2 * n \in Nat /\ 2 \in Int /\ 1 \in Int
    BY LimitAssumption
  <1>2. ((s + 2 * n) + 2) * Second = (s + 2 * n) * Second + 2 * Second
    BY <1>1, Distributes
  <1>3. (n + 1) * Rate = n * Rate + 1 * Rate
    BY <1>1, Distributes
  <1>4. \A a, b \in Nat : a * b \in Nat
    OBVIOUS
  <1> QED BY <1>1, <1>2, <1>3, <1>4

\* A worker counts in the second of its stamp, which has begun; so a key that is there
\* now may have its two seconds from now on.
LEMMA CountsInTime ==
  ASSUME WindowInv, NEW w \in Workers, NEW s \in Seconds, s = SecondOf(stamp[w])
  PROVE  clock + 2 * Second >= (s + 2 * (expired[s] + 1)) * Second
  <1>1. /\ clock \in Nat /\ s * Second <= clock /\ s \in Nat /\ expired[s] \in Nat
        /\ Second \in Nat
    <2>1. TypeOK /\ clock \in Nat /\ expired[s] \in Nat /\ Second \in Nat
      BY LimitAssumption DEF WindowInv, TypeOK
    <2>2. stamp[w] \in Nat /\ stamp[w] <= clock /\ s * Second <= stamp[w]
      BY <2>1, StampedSecond
    <2>3. s \in Nat /\ s * Second \in Nat
      BY <2>1 DEF Seconds
    <2> QED BY <2>1, <2>2, <2>3
  <1>2. expired[s] > 0 => clock > (s + 2 * expired[s]) * Second
    BY DEF WindowInv, CounterInv, DroppedInTime
  <1>3. (s + 2 * expired[s]) * Second <= clock
    <2>1. CASE expired[s] = 0
      BY <1>1, <2>1
    <2>2. CASE expired[s] > 0
      <3>1. (s + 2 * expired[s]) * Second \in Int
        BY <1>1, OneMoreKey
      <3> QED BY <1>1, <1>2, <2>2, <3>1
    <2> QED BY <1>1, <2>1, <2>2
  <1> QED BY <1>1, <1>3, OneMoreKey

LEMMA WindowStep == WindowInv /\ [Next]_vars => WindowInv'
  <1> SUFFICES ASSUME WindowInv, [Next]_vars PROVE WindowInv'
    OBVIOUS
  <1>0. /\ TypeOK
        /\ Second \in Nat \ {0} /\ Rate \in Nat \ {0} /\ clock \in Nat
        /\ counter \in [Seconds -> Nat] /\ counterTtl \in [Seconds -> Nat]
        /\ passed \in [Seconds -> Nat] /\ lost \in [Seconds -> Nat]
        /\ rejected \in [Seconds -> Nat] /\ expired \in [Seconds -> Nat]
        /\ Seconds \subseteq Nat /\ Seconds' = Seconds
    BY LimitAssumption DEF WindowInv, TypeOK, Seconds
  <1>1. TypeOK'
    BY TypeStep DEF WindowInv
  <1>2. ASSUME UNCHANGED <<clock, counterVars>> PROVE CounterInv'
    BY <1>2 DEF WindowInv, CounterInv, TtlIsLate, DroppedInTime, PassedAreCounted,
                CountedAreServed, RejectedOnlyWhenFull, counterVars
  <1>9. ASSUME NEW s \in Seconds
        PROVE  /\ counterTtl[s] # 0 => counterTtl[s] >= (s + 2 * (expired[s] + 1)) * Second
               /\ expired[s] > 0 => clock > (s + 2 * expired[s]) * Second
               /\ passed[s] <= expired[s] * Rate + counter[s]
               /\ passed[s] <= (expired[s] + 1) * Rate
               /\ rejected[s] = 0 => counter[s] <= passed[s] + lost[s]
               /\ rejected[s] > 0 => passed[s] + lost[s] >= Rate
    BY DEF WindowInv, CounterInv, TtlIsLate, DroppedInTime, PassedAreCounted,
           CountedAreServed, RejectedOnlyWhenFull
  <1> DEFINE Kept(z) ==
        /\ counterTtl'[z] # 0 => counterTtl'[z] >= (z + 2 * (expired'[z] + 1)) * Second
        /\ expired'[z] > 0 => clock' > (z + 2 * expired'[z]) * Second
        /\ passed'[z] <= expired'[z] * Rate + counter'[z]
        /\ passed'[z] <= (expired'[z] + 1) * Rate
        /\ rejected'[z] = 0 => counter'[z] <= passed'[z] + lost'[z]
        /\ rejected'[z] > 0 => passed'[z] + lost'[z] >= Rate
  <1>10. (\A z \in Seconds : Kept(z)) => CounterInv'
    BY <1>0 DEF CounterInv, TtlIsLate, DroppedInTime, PassedAreCounted,
                CountedAreServed, RejectedOnlyWhenFull
  <1>3. ASSUME Tick PROVE CounterInv'
    <2> SUFFICES ASSUME NEW s \in Seconds PROVE Kept(s)
      BY <1>10
    <2>1. /\ clock' = clock + 1
          /\ passed' = passed /\ lost' = lost /\ rejected' = rejected
      BY <1>3 DEF Tick
    <2>2. \/ /\ counter'[s] = counter[s] /\ counterTtl'[s] = counterTtl[s]
             /\ expired'[s] = expired[s]
          \/ /\ counter'[s] = 0 /\ counterTtl'[s] = 0 /\ expired'[s] = expired[s] + 1
             /\ counterTtl[s] # 0 /\ counterTtl[s] < clock + 1
      BY <1>3 DEF Tick, Over
    <2>3. s \in Nat /\ expired[s] \in Nat /\ expired[s] + 1 \in Nat
      BY <1>0
    <2>4. CASE counter'[s] = counter[s] /\ counterTtl'[s] = counterTtl[s]
               /\ expired'[s] = expired[s]
      <3>1. (s + 2 * expired[s]) * Second \in Nat
        BY <2>3, OneMoreKey
      <3>2. expired'[s] > 0 => clock' > (s + 2 * expired'[s]) * Second
        BY <1>0, <1>9, <2>1, <2>4, <3>1
      <3> QED BY <1>9, <2>1, <2>4, <3>2
    <2>5. CASE counter'[s] = 0 /\ counterTtl'[s] = 0 /\ expired'[s] = expired[s] + 1
               /\ counterTtl[s] # 0 /\ counterTtl[s] < clock + 1
      <3>1. clock' > (s + 2 * (expired[s] + 1)) * Second
        <4>1. (s + 2 * (expired[s] + 1)) * Second \in Int /\ counterTtl[s] \in Int
          BY <1>0, <2>3, OneMoreKey
        <4> QED BY <1>0, <1>9, <2>1, <2>5, <4>1
      <3>2. passed'[s] <= (expired[s] + 1) * Rate + 0
        <4>1. (expired[s] + 1) * Rate \in Nat
          BY <2>3, OneMoreKey
        <4> QED BY <1>9, <2>1, <4>1
      <3>3. passed'[s] <= ((expired[s] + 1) + 1) * Rate
        <4>1. /\ ((expired[s] + 1) + 1) * Rate = (expired[s] + 1) * Rate + Rate
              /\ (expired[s] + 1) * Rate \in Nat
          BY <2>3, OneMoreKey
        <4> QED BY <1>0, <2>1, <3>2, <4>1
      <3>4. rejected[s] = 0 => 0 <= passed[s] + lost[s]
        BY <1>0
      <3> QED BY <1>9, <2>1, <2>5, <3>1, <3>2, <3>3, <3>4
    <2> QED BY <2>2, <2>4, <2>5
  <1>4. ASSUME NEW w \in Workers,
               IncrPasses(w) \/ IncrRejects(w) \/ IncrFails(w) \/ Expire(w)
        PROVE  CounterInv'
    <2> DEFINE s == SecondOf(stamp[w])
    <2>1. s \in Seconds
      BY <1>0, StampedSecond
    <2>2. clock + 2 * Second >= (s + 2 * (expired[s] + 1)) * Second
      BY <2>1, CountsInTime
    <2> HIDE DEF s
    <2> SUFFICES ASSUME NEW z \in Seconds PROVE Kept(z)
      BY <1>10
    <2>3. clock' = clock
      BY <1>4, CountsIsAll DEF Counts
    <2>4. expired' = expired
      BY <1>4 DEF IncrPasses, IncrRejects, IncrFails, Expire
    <2>5. /\ expired[z] * Rate \in Nat
          /\ (expired[z] + 1) * Rate = expired[z] * Rate + Rate
      BY <1>0, OneMoreKey
    <2>6. CASE IncrPasses(w)
      <3>1. /\ counter[s] < Rate /\ counterTtl' = counterTtl
            /\ counter' = [counter EXCEPT ![s] = counter[s] + 1]
            /\ passed' = [passed EXCEPT ![s] = passed[s] + 1]
            /\ lost' = lost /\ rejected' = rejected
        BY <2>6 DEF IncrPasses, s
      <3>2. CASE z = s
        <4>1. counter'[z] = counter[z] + 1 /\ passed'[z] = passed[z] + 1
          BY <1>0, <2>1, <3>1, <3>2
        <4>2. /\ passed'[z] <= expired'[z] * Rate + counter'[z]
              /\ passed'[z] <= (expired'[z] + 1) * Rate
          BY <1>0, <1>9, <2>4, <2>5, <3>1, <3>2, <4>1
        <4>3. /\ rejected'[z] = 0 => counter'[z] <= passed'[z] + lost'[z]
              /\ rejected'[z] > 0 => passed'[z] + lost'[z] >= Rate
          BY <1>0, <1>9, <3>1, <4>1
        <4> QED BY <1>9, <2>3, <2>4, <3>1, <4>2, <4>3
      <3>3. CASE z # s
        <4>1. counter'[z] = counter[z] /\ passed'[z] = passed[z]
          BY <1>0, <3>1, <3>3
        <4> QED BY <1>9, <2>3, <2>4, <3>1, <4>1
      <3> QED BY <3>2, <3>3
    <2>7. CASE IncrRejects(w)
      <3>1. /\ counter[s] >= Rate /\ counterTtl' = counterTtl
            /\ counter' = [counter EXCEPT ![s] = counter[s] + 1]
            /\ rejected' = [rejected EXCEPT ![s] = rejected[s] + 1]
            /\ lost' = lost /\ passed' = passed
        BY <2>7 DEF IncrRejects, s
      <3>2. CASE z = s
        <4>1. counter'[z] = counter[z] + 1 /\ rejected'[z] = rejected[z] + 1
          BY <1>0, <2>1, <3>1, <3>2
        <4>2. /\ passed'[z] <= expired'[z] * Rate + counter'[z]
              /\ passed'[z] <= (expired'[z] + 1) * Rate
          BY <1>0, <1>9, <2>4, <2>5, <3>1, <4>1
        <4>3. rejected'[z] # 0 /\ passed'[z] + lost'[z] >= Rate
          BY <1>0, <1>9, <3>1, <3>2, <4>1
        <4> QED BY <1>9, <2>3, <2>4, <3>1, <4>2, <4>3
      <3>3. CASE z # s
        <4>1. counter'[z] = counter[z] /\ rejected'[z] = rejected[z]
          BY <1>0, <3>1, <3>3
        <4> QED BY <1>9, <2>3, <2>4, <3>1, <4>1
      <3> QED BY <3>2, <3>3
    <2>8. CASE IncrFails(w)
      <3>1. /\ counterTtl' = counterTtl /\ rejected' = rejected /\ passed' = passed
            /\ \/ /\ counter' = [counter EXCEPT ![s] = counter[s] + 1]
                  /\ lost' = [lost EXCEPT ![s] = lost[s] + 1]
               \/ counter' = counter /\ lost' = lost
        BY <2>8 DEF IncrFails, s
      <3>2. /\ lost'[z] >= lost[z] /\ counter'[z] >= counter[z]
            /\ counter'[z] - counter[z] = lost'[z] - lost[z]
            /\ lost'[z] \in Nat /\ counter'[z] \in Nat
        BY <1>0, <2>1, <3>1
      <3>3. passed'[z] <= expired'[z] * Rate + counter'[z]
        BY <1>0, <1>9, <2>4, <2>5, <3>1, <3>2
      <3>4. /\ rejected'[z] = 0 => counter'[z] <= passed'[z] + lost'[z]
            /\ rejected'[z] > 0 => passed'[z] + lost'[z] >= Rate
        BY <1>0, <1>9, <3>1, <3>2
      <3> QED BY <1>9, <2>3, <2>4, <3>1, <3>3, <3>4
    <2>9. CASE Expire(w)
      <3>1. /\ UNCHANGED <<counter, passed, lost, rejected>>
            /\ \/ counterTtl' = [counterTtl EXCEPT ![s] = clock + 2 * Second]
               \/ counterTtl' = counterTtl
        BY <2>9 DEF Expire, s
      <3>2. \/ z = s /\ counterTtl'[z] = clock + 2 * Second
            \/ counterTtl'[z] = counterTtl[z]
        BY <1>0, <2>1, <3>1
      <3>3. counterTtl'[z] # 0 => counterTtl'[z] >= (z + 2 * (expired[z] + 1)) * Second
        BY <1>9, <2>2, <3>2
      <3> QED BY <1>9, <2>3, <2>4, <3>1, <3>3
    <2> QED BY <1>4, <2>6, <2>7, <2>8, <2>9
  <1>5. ASSUME NEW w \in Workers, Evaluates(w) PROVE CounterInv'
    BY <1>2, <1>5 DEF Evaluates
  <1>6. ASSUME NEW w \in Workers, ReadTime(w) \/ ReadSecond(w) PROVE CounterInv'
    BY <1>2, <1>6 DEF ReadTime, ReadSecond
  <1>7. ASSUME UNCHANGED vars PROVE CounterInv'
    BY <1>2, <1>7 DEF vars
  <1>8. CounterInv'
    BY <1>3, <1>4, <1>5, <1>6, <1>7, EvaluatesIsAll DEF Next, Worker
  <1> QED BY <1>1, <1>8 DEF WindowInv

\* However late a request is counted, more than the limit of its second passes only
\* when the two seconds of a key are over, and so on for every further key.
THEOREM WindowIsBounded == Spec => []WindowBound
  <1>1. WindowInv => WindowBound
    <2> SUFFICES ASSUME WindowInv, NEW s \in Seconds, NEW k \in 1..MaxClock,
                        passed[s] > k * Rate
                 PROVE  clock > (s + 2 * k) * Second
      BY DEF WindowBound
    <2>1. /\ s \in Nat /\ k \in Nat /\ k > 0 /\ expired[s] \in Nat /\ clock \in Nat
          /\ passed[s] \in Nat /\ Second \in Nat /\ Rate \in Nat /\ MaxClock \in Nat
      <3>1. s \in Nat /\ k \in Nat /\ k > 0
        BY LimitAssumption DEF Seconds
      <3> QED BY <3>1, LimitAssumption DEF WindowInv, TypeOK
    <2>2. passed[s] <= (expired[s] + 1) * Rate
      BY DEF WindowInv, CounterInv, PassedAreCounted
    <2>3. k <= expired[s]
      <3> SUFFICES ASSUME expired[s] + 1 <= k PROVE FALSE
        BY <2>1
      <3>1. (expired[s] + 1) * Rate <= k * Rate
        BY <2>1, Increases
      <3>2. (expired[s] + 1) * Rate \in Int /\ k * Rate \in Int
        BY <2>1
      <3> QED BY <2>1, <2>2, <3>1, <3>2
    <2>4. clock > (s + 2 * expired[s]) * Second
      BY <2>1, <2>3 DEF WindowInv, CounterInv, DroppedInTime
    <2>5. (s + 2 * k) * Second <= (s + 2 * expired[s]) * Second
      BY <2>1, <2>3, Increases
    <2>6. (s + 2 * k) * Second \in Int /\ (s + 2 * expired[s]) * Second \in Int
      BY <2>1, OneMoreKey
    <2> QED BY <2>1, <2>4, <2>5, <2>6
  <1> QED BY WindowInit, WindowStep, <1>1, PTL DEF Spec

\* A 429 means that the rate's worth of requests went through in that second.
THEOREM RejectionIsEarned == Spec => []RejectedOnlyWhenFull
  <1>1. WindowInv => RejectedOnlyWhenFull
    BY DEF WindowInv, CounterInv
  <1> QED BY WindowInit, WindowStep, <1>1, PTL DEF Spec
===============================================================================
