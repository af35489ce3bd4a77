------------------------------- MODULE RateLimit -------------------------------
(***************************************************************************)
(* The rate limiting of one route, as the pool's workers run it for each   *)
(* request in Gateway::processApiRequest(): a token bucket kept in Redis   *)
(* by a Lua script (distributed_rate_limiter.cpp), then, when that answers *)
(* no, a counter per second kept in Redis (ratelimit_plugin.cpp).          *)
(*                                                                         *)
(* A worker reads the clock first and waits for a Redis connection after,  *)
(* without a limit, and then for Redis, so that its command reaches Redis  *)
(* any time later, after keys have expired and out of order with those of  *)
(* other workers.  A script, and each command, is one step of Redis, which *)
(* runs on the same host and has the same clock.  A command that Redis     *)
(* runs after its worker has given up is, to Redis, that of one more       *)
(* worker which still waits.                                               *)
(* Tokens are counted in units of 1/Second: one tick earns Rate units and  *)
(* a request costs Second of them, so that the script's fractions are      *)
(* whole numbers (in the code a tick is a millisecond).                    *)
(***************************************************************************)
EXTENDS Integers, Sequences, FiniteSets

CONSTANTS Workers,       \* threads of the pool
          Rate,          \* rule->rateLimit, requests per second
          Second,        \* ticks in a second
          MaxClock,      \* bound: ticks modelled
          MaxCalls       \* bound: requests modelled

\* A rule without a limit does not come here.
ASSUME LimitAssumption == /\ Rate \in Nat \ {0}
                          /\ Second \in Nat \ {0}
                          /\ MaxClock \in Nat /\ MaxCalls \in Nat

VARIABLES
  clock,           \* system_clock of the gateway's and Redis's host
  (* the workers *)
  pc,              \* where a worker is in the rate limiting of its request
  stamp,           \* what it has last read from the clock
  answer,          \* what Redis answered to the script for its request
  calls,           \* requests so far
  (* the bucket's key in Redis *)
  tokens,          \* field tokens
  lastTime,        \* field last_time
  bucketTtl,       \* when the key expires; 0: there is no key
  (* the counter's keys in Redis, one for each second *)
  counter,         \* value; 0: there is no key
  counterTtl,      \* when the key expires; 0: never
  (* history *)
  given,           \* ticks that have refilled the bucket unearned
  grants,          \* the script's grants in order: their times, and given by then
  expired,         \* by second: how many keys Redis has dropped
  passed,          \* by second: requests the counter let through
  lost,            \* by second: counted ones let through without a reply
  rejected         \* by second: requests answered 429

requestVars == <<stamp, answer, calls>>
bucketVars  == <<tokens, lastTime, bucketTtl, given, grants>>
counterVars == <<counter, counterTtl, expired, passed, lost, rejected>>
vars == <<clock, pc, requestVars, bucketVars, counterVars>>

\* capacity = rule->rateLimit * 2, in units.
Full == 2 * Rate * Second

SecondOf(t) == t \div Second
Seconds == 0..SecondOf(MaxClock)

\* The bucket may be left from an earlier run of the gateway.
Init ==
  /\ clock = 0
  /\ pc = [w \in Workers |-> "idle"]
  /\ stamp = [w \in Workers |-> 0]
  /\ answer = [w \in Workers |-> "none"]
  /\ calls = 0
  /\ lastTime = 0
  /\ \/ tokens = Full /\ bucketTtl = 0
     \/ tokens \in 0..Full /\ bucketTtl = 3 * Second
  /\ counter = [s \in Seconds |-> 0]
  /\ counterTtl = [s \in Seconds |-> 0]
  /\ given = 0 /\ grants = <<>>
  /\ expired = [s \in Seconds |-> 0]
  /\ passed = [s \in Seconds |-> 0]
  /\ lost = [s \in Seconds |-> 0]
  /\ rejected = [s \in Seconds |-> 0]

-------------------------------------------------------------------------------
(* The token bucket.                                                       *)

Elapsed(now) == IF now > lastTime THEN now - lastTime ELSE 0

\* What is in the bucket for a call stamped now.
Refilled(now) ==
  LET filled == tokens + Elapsed(now) * Rate
  IN  IF bucketTtl = 0 \/ filled > Full THEN Full ELSE filled

\* The ticks that the next refill counts although they are not between its call and
\* the one before: a grant of a call from before last_time moves last_time back; and a
\* key that was dropped fills the bucket, for a call that is more than a second late
\* sooner than the time between the calls would.
Overdue(now) == IF clock - now > Second THEN clock - now - Second ELSE 0
Unearned(now) ==
  IF bucketTtl = 0 THEN Overdue(now) ELSE IF now < lastTime THEN lastTime - now ELSE 0

Granted(now, unearned) ==
  /\ given' = given + unearned
  /\ grants' = Append(grants, [time |-> now, given |-> given'])

\* Wrong variant: the grant leaves last_time alone.
Mut_ScriptGrants(now) ==
  /\ Refilled(now) >= Second
  /\ tokens' = Refilled(now) - Second
  /\ bucketTtl' = clock + 3 * Second
  /\ Granted(now, Unearned(now))
  /\ UNCHANGED lastTime

\* Wrong variant: the key expires after one second.
Mut_ScriptGrants_Short(now) ==
  /\ Refilled(now) >= Second
  /\ tokens' = Refilled(now) - Second
  /\ lastTime' = now
  /\ bucketTtl' = clock + Second
  /\ Granted(now, Unearned(now))

\* The script's two branches.  The second keeps the refilled tokens with the old
\* last_time, from which the next call refills again.
ScriptGrants(now) ==
  /\ Refilled(now) >= Second
  /\ tokens' = Refilled(now) - Second
  /\ lastTime' = now
  /\ bucketTtl' = clock + 3 * Second
  /\ Granted(now, Unearned(now))

ScriptDenies(now) ==
  /\ Refilled(now) < Second
  /\ tokens' = Refilled(now)
  /\ bucketTtl' = clock + 3 * Second
  /\ given' = given + Elapsed(now)
  /\ UNCHANGED <<lastTime, grants>>

-------------------------------------------------------------------------------
(* A request.                                                              *)

\* It enters isAllowed() of the distributed limiter, which reads the clock.
ReadTime(w) ==
  /\ pc[w] = "idle"
  /\ calls < MaxCalls
  /\ calls' = calls + 1
  /\ stamp' = [stamp EXCEPT ![w] = clock]
  /\ answer' = [answer EXCEPT ![w] = "none"]
  /\ pc' = [pc EXCEPT ![w] = "bucket"]
  /\ UNCHANGED <<clock, bucketVars, counterVars>>

EvalGrants(w) ==
  /\ pc[w] = "bucket"
  /\ ScriptGrants(stamp[w])
  /\ pc' = [pc EXCEPT ![w] = "idle"]
  /\ UNCHANGED <<clock, stamp, answer, calls, counterVars>>

EvalDenies(w) ==
  /\ pc[w] = "bucket"
  /\ ScriptDenies(stamp[w])
  /\ answer' = [answer EXCEPT ![w] = "denied"]
  /\ pc' = [pc EXCEPT ![w] = "limited"]
  /\ UNCHANGED <<clock, stamp, calls, counterVars>>

\* Redis answers with an error: no integer, so not allowed.
EvalIsRefused(w) ==
  /\ pc[w] = "bucket"
  /\ answer' = [answer EXCEPT ![w] = "error"]
  /\ pc' = [pc EXCEPT ![w] = "limited"]
  /\ UNCHANGED <<clock, stamp, calls, bucketVars, counterVars>>

\* No connection, or no reply, whether the script has run or not: an exception,
\* which isAllowed() turns into true.
EvalFails(w) ==
  /\ pc[w] = "bucket"
  /\ \/ ScriptGrants(stamp[w])
     \/ ScriptDenies(stamp[w])
     \/ UNCHANGED bucketVars
  /\ pc' = [pc EXCEPT ![w] = "idle"]
  /\ UNCHANGED <<clock, stamp, answer, calls, counterVars>>

\* RateLimitPlugin::isAllowed() reads the clock for the name of the key.
ReadSecond(w) ==
  /\ pc[w] = "limited"
  /\ stamp' = [stamp EXCEPT ![w] = clock]
  /\ pc' = [pc EXCEPT ![w] = "window"]
  /\ UNCHANGED <<clock, answer, calls, bucketVars, counterVars>>

\* INCR answers with the new value.
IncrPasses(w) ==
  LET s == SecondOf(stamp[w])
  IN  /\ pc[w] = "window"
      /\ counter[s] < Rate
      /\ counter' = [counter EXCEPT ![s] = @ + 1]
      /\ passed' = [passed EXCEPT ![s] = @ + 1]
      /\ pc' = [pc EXCEPT ![w] = IF counter[s] = 0 THEN "expire" ELSE "idle"]
      /\ UNCHANGED <<clock, requestVars, bucketVars, counterTtl, expired, lost, rejected>>

\* Wrong variant: count < maxPerSecond.
Mut_IncrRejects(w) ==
  LET s == SecondOf(stamp[w])
  IN  /\ pc[w] = "window"
      /\ counter[s] + 1 >= Rate
      /\ counter' = [counter EXCEPT ![s] = @ + 1]
      /\ rejected' = [rejected EXCEPT ![s] = @ + 1]
      /\ pc' = [pc EXCEPT ![w] = "idle"]
      /\ UNCHANGED <<clock, requestVars, bucketVars, counterTtl, expired, passed, lost>>

IncrRejects(w) ==
  LET s == SecondOf(stamp[w])
  IN  /\ pc[w] = "window"
      /\ counter[s] >= Rate
      /\ counter' = [counter EXCEPT ![s] = @ + 1]
      /\ rejected' = [rejected EXCEPT ![s] = @ + 1]
      /\ pc' = [pc EXCEPT ![w] = "idle"]
      /\ UNCHANGED <<clock, requestVars, bucketVars, counterTtl, expired, passed, lost>>

\* incr() gives -1, which is not above the limit; Redis may have counted.
IncrFails(w) ==
  LET s == SecondOf(stamp[w])
  IN  /\ pc[w] = "window"
      /\ \/ /\ counter' = [counter EXCEPT ![s] = @ + 1]
            /\ lost' = [lost EXCEPT ![s] = @ + 1]
         \/ UNCHANGED <<counter, lost>>
      /\ pc' = [pc EXCEPT ![w] = "idle"]
      /\ UNCHANGED <<clock, requestVars, bucketVars, counterTtl, expired, passed, rejected>>

\* Wrong variant: EXPIRE with one second.
Mut_Expire(w) ==
  LET s == SecondOf(stamp[w])
  IN  /\ pc[w] = "expire"
      /\ counterTtl' = [counterTtl EXCEPT ![s] = clock + Second]
      /\ pc' = [pc EXCEPT ![w] = "idle"]
      /\ UNCHANGED <<clock, requestVars, bucketVars, counter, expired, passed, lost,
                     rejected>>

\* EXPIRE of the key this worker has created, unless it is lost.
Expire(w) ==
  LET s == SecondOf(stamp[w])
  IN  /\ pc[w] = "expire"
      /\ \/ counterTtl' = [counterTtl EXCEPT ![s] = clock + 2 * Second]
         \/ UNCHANGED counterTtl
      /\ pc' = [pc EXCEPT ![w] = "idle"]
      /\ UNCHANGED <<clock, requestVars, bucketVars, counter, expired, passed, lost,
                     rejected>>

Worker(w) ==
  \/ ReadTime(w)
  \/ EvalGrants(w) \/ EvalDenies(w) \/ EvalIsRefused(w) \/ EvalFails(w)
  \/ ReadSecond(w)
  \/ IncrPasses(w) \/ IncrRejects(w) \/ IncrFails(w) \/ Expire(w)

-------------------------------------------------------------------------------
(* Time passes, and Redis drops the keys whose time is over.               *)

Over(ttl) == ttl # 0 /\ ttl < clock + 1

Tick ==
  /\ clock < MaxClock
  /\ clock' = clock + 1
  /\ bucketTtl' = IF Over(bucketTtl) THEN 0 ELSE bucketTtl
  /\ LET gone == {s \in Seconds : Over(counterTtl[s])}
     IN  /\ counter' = [s \in Seconds |-> IF s \in gone THEN 0 ELSE counter[s]]
         /\ counterTtl' = [s \in Seconds |-> IF s \in gone THEN 0
                                             ELSE counterTtl[s]]
         /\ expired' = [s \in Seconds |-> IF s \in gone THEN expired[s] + 1
                                          ELSE expired[s]]
  /\ UNCHANGED <<pc, requestVars, tokens, lastTime, given, grants, passed, lost, rejected>>

Next == Tick \/ \E w \in Workers : Worker(w)

Spec == Init /\ [][Next]_vars

-------------------------------------------------------------------------------
(* Properties.                                                             *)

\* Type invariant; the bucket holds no less than nothing and no more than its
\* capacity.
TypeOK ==
  /\ clock \in 0..MaxClock
  /\ pc \in [Workers -> {"idle", "bucket", "limited", "window", "expire"}]
  /\ stamp \in [Workers -> 0..clock]
  /\ answer \in [Workers -> {"none", "denied", "error"}]
  /\ calls \in 0..MaxCalls
  /\ tokens \in 0..Full
  /\ lastTime \in 0..clock
  /\ bucketTtl \in Nat
  /\ counter \in [Seconds -> Nat]
  /\ counterTtl \in [Seconds -> Nat]
  /\ given \in Nat
  /\ grants \in Seq([time : Nat, given : Nat])
  /\ expired \in [Seconds -> Nat]
  /\ passed \in [Seconds -> Nat]
  /\ lost \in [Seconds -> Nat]
  /\ rejected \in [Seconds -> Nat]

\* The 3 s after which Redis drops the bucket are the two in which it fills, by the
\* capacity that gateway.cpp sets, and one for the delay of calls: a call that finds
\* no bucket would have found it full, if it had been given what it is late beyond a
\* second.
AbsentIsFull ==
  bucketTtl = 0 =>
    \A w \in Workers : pc[w] = "bucket" =>
      tokens + (stamp[w] - lastTime + Overdue(stamp[w])) * Rate >= Full

\* What the header says of the script: between any two grants at most Rate a second
\* and a burst of the capacity.
WithinRate(i, j) ==
  (j - i + 1) * Second <= Full + (grants[j].time - grants[i].time) * Rate

\* What it does, whoever is denied, late or overtaken: it grants that, and the rate of
\* the ticks given away in between, by a denial, a last_time moved back, or a key
\* dropped under a call more than a second late.  There is no fourth cause.
Start(i) == grants[i].time + grants[i].given
WithinGiven(i, j) == (j - i + 1) * Second <= Full + (Start(j) - Start(i)) * Rate
BucketRate == \A j \in 1..Len(grants) : \A i \in 1..j : WithinGiven(i, j)

\* While the key is there it outlives the tokens' time by three seconds; once it
\* is gone, either nothing was ever taken or the three seconds are over.
KeyOutlives ==
  /\ bucketTtl # 0 => bucketTtl >= lastTime + 3 * Second
  /\ bucketTtl = 0 => \/ tokens = Full /\ lastTime = 0
                      \/ clock > lastTime + 3 * Second

\* The time up to which the bucket has been refilled, ticks given away included.
Refills == lastTime + given

\* What is in the bucket counts against the budget of every interval that begins
\* with a grant, as if it had been granted already.
BudgetFrom(i) ==
  /\ Start(i) <= Refills
  /\ (Len(grants) - i + 1) * Second + tokens <= Full + (Refills - Start(i)) * Rate

Budget == \A i \in 1..Len(grants) : BudgetFrom(i)

\* Nothing that was given away is taken back.
GivenGrows == \A i \in 1..Len(grants) : grants[i].given <= given

\* The inductive invariant of the bucket.
BucketInv == TypeOK /\ KeyOutlives /\ GivenGrows /\ Budget /\ BucketRate

\* The counter of a second lets through at most Rate requests by its answers until a
\* second after it has ended, and once more for every two seconds after: late INCRs
\* are counted afresh, but no sooner than the key's two seconds are over.
WindowBound ==
  \A s \in Seconds, k \in 1..MaxClock :
    passed[s] > k * Rate => clock > (s + 2 * k) * Second

\* Nobody is answered 429 for a second in which fewer than Rate requests have
\* been let through.
RejectedOnlyWhenFull ==
  \A s \in Seconds : rejected[s] > 0 => passed[s] + lost[s] >= Rate

\* distributed_rate_limiter.h on isAllowed(): false means that the request is
\* limited.  The counter then does not let it through.
DenialIsFinal ==
  [][\A w \in Workers :
       answer[w] = "denied" /\ pc[w] = "window" /\ pc'[w] # "window" =>
         passed' = passed]_vars

\* distributed_rate_limiter.h on the parameters of isAllowed(): rate is what is
\* allowed per second, ...
RateIsKept == \A j \in 1..Len(grants) : \A i \in 1..j : WithinRate(i, j)

\* ... and capacity the greatest burst: of the calls of one instant no more are granted.
BurstIsCapacity ==
  \A t \in 0..clock :
    Cardinality({i \in DOMAIN grants : grants[i].time = t}) * Second <= Full
===============================================================================
