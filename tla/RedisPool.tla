------------------------------ MODULE RedisPool -------------------------------
(***************************************************************************)
(* The pool of Redis contexts (redis_client.cpp): RedisClient::execute()   *)
(* takes one, waiting for it without a time limit, sends its command, and  *)
(* puts it back, also when there was no reply and the context is in error. *)
(* The workers and the StreamWriter's thread call it.                      *)
(***************************************************************************)
EXTENDS Naturals, Sequences, FiniteSets, Functions

CONSTANTS Threads,      \* those that call execute()
          Contexts,     \* pool_size_ contexts
          NoContext,
          MaxExecutes   \* bound: calls of execute()

\* What is assumed of the constants.
Assumption == /\ IsFiniteSet(Threads) /\ IsFiniteSet(Contexts) /\ Contexts # {}
              /\ NoContext \notin Contexts
              /\ MaxExecutes \in Nat

VARIABLES pool,         \* pool_
          pc,           \* where a thread is in execute()
          ctx,          \* the context it has
          failed,       \* contexts in error: every further command fails at once
          executes      \* calls so far

redisVars == <<pool, pc, ctx, failed, executes>>

Asleep   == {t \in Threads : pc[t] = "waiting"}
Notified == {t \in Threads : pc[t] = "notified"}
Holders  == {t \in Threads : pc[t] \in {"command", "back"}}
Held     == {ctx[t] : t \in Holders}

\* initConnections() throws unless it connects them all.
Init ==
  /\ pool \in [1..Cardinality(Contexts) -> Contexts] /\ IsInjective(pool)
  /\ pc = [t \in Threads |-> "idle"]
  /\ ctx = [t \in Threads |-> NoContext]
  /\ failed = {}
  /\ executes = 0

-------------------------------------------------------------------------------
(* acquire().                                                              *)

\* Wrong variant: front() without pop().
Mut_Pop(t) ==
  /\ pool # <<>>
  /\ ctx' = [ctx EXCEPT ![t] = Head(pool)]
  /\ pc' = [pc EXCEPT ![t] = "command"]
  /\ UNCHANGED pool

Pop(t) ==
  /\ pool # <<>>
  /\ ctx' = [ctx EXCEPT ![t] = Head(pool)]
  /\ pool' = Tail(pool)
  /\ pc' = [pc EXCEPT ![t] = "command"]

Wait(t) ==
  /\ pool = <<>>
  /\ pc' = [pc EXCEPT ![t] = "waiting"]
  /\ UNCHANGED <<pool, ctx>>

Acquire(t) ==
  /\ pc[t] = "idle" /\ executes < MaxExecutes
  /\ executes' = executes + 1
  /\ Pop(t) \/ Wait(t)
  /\ UNCHANGED failed

\* A notified thread has the mutex again, and looks at the predicate.
Resume(t) ==
  /\ pc[t] = "notified"
  /\ Pop(t) \/ Wait(t)
  /\ UNCHANGED <<failed, executes>>

\* A thread wakes up for no reason, and finds a context.
SpuriousWake(t) ==
  /\ pc[t] = "waiting"
  /\ Pop(t)
  /\ UNCHANGED <<failed, executes>>

-------------------------------------------------------------------------------
(* The command and release().                                              *)

\* redisvCommand(): a reply, or none, within the two seconds of redisSetTimeout().
Command(t) ==
  /\ pc[t] = "command"
  /\ failed' \in {failed, failed \cup {ctx[t]}}
  /\ pc' = [pc EXCEPT ![t] = "back"]
  /\ UNCHANGED <<pool, ctx, executes>>

\* Wrong variant: a context in error is dropped.
Mut_Release(t) ==
  /\ pc[t] = "back"
  /\ ctx' = [ctx EXCEPT ![t] = NoContext]
  /\ IF ctx[t] \in failed
     THEN /\ pc' = [pc EXCEPT ![t] = "idle"]
          /\ UNCHANGED pool
     ELSE /\ pool' = Append(pool, ctx[t])
          /\ IF Asleep = {} THEN pc' = [pc EXCEPT ![t] = "idle"]
             ELSE \E u \in Asleep : pc' = [pc EXCEPT ![t] = "idle", ![u] = "notified"]
  /\ UNCHANGED <<failed, executes>>

\* Wrong variant: it notifies only when the pool was empty.
Mut_Release_Quiet(t) ==
  /\ pc[t] = "back"
  /\ pool' = Append(pool, ctx[t])
  /\ ctx' = [ctx EXCEPT ![t] = NoContext]
  /\ IF Asleep = {} \/ pool # <<>> THEN pc' = [pc EXCEPT ![t] = "idle"]
     ELSE \E u \in Asleep : pc' = [pc EXCEPT ![t] = "idle", ![u] = "notified"]
  /\ UNCHANGED <<failed, executes>>

\* notify_one() wakes one of the threads that wait, if there is one.
Release(t) ==
  /\ pc[t] = "back"
  /\ pool' = Append(pool, ctx[t])
  /\ ctx' = [ctx EXCEPT ![t] = NoContext]
  /\ IF Asleep = {} THEN pc' = [pc EXCEPT ![t] = "idle"]
     ELSE \E u \in Asleep : pc' = [pc EXCEPT ![t] = "idle", ![u] = "notified"]
  /\ UNCHANGED <<failed, executes>>

Execute(t) == Acquire(t) \/ Resume(t) \/ SpuriousWake(t) \/ Command(t) \/ Release(t)

Next == \E t \in Threads : Execute(t)

Spec == Init /\ [][Next]_redisVars

\* Weakly fair: a thread that has begun a call goes on with it.
Proceed(t) == Resume(t) \/ Command(t) \/ Release(t)

-------------------------------------------------------------------------------
(* Properties.                                                             *)

\* Type invariant; a context is in the pool once or in the hands of one thread, in
\* error or not.
TypeOK ==
  /\ pc \in [Threads -> {"idle", "waiting", "notified", "command", "back"}]
  /\ ctx \in [Threads -> Contexts \cup {NoContext}]
  /\ failed \subseteq Contexts
  /\ executes \in 0..MaxExecutes
  /\ pool \in Seq(Contexts) /\ IsInjective(pool)
  /\ \A t, u \in Holders : ctx[t] = ctx[u] => t = u
  /\ Range(pool) \cup Held = Contexts /\ Range(pool) \cap Held = {}

\* No thread sleeps beside a context that nobody was told of, although contexts are
\* taken by threads that have not waited, and by threads that were not notified.
NoContextIdles == Asleep # {} => Len(pool) <= Cardinality(Notified)

\* Without a time limit, and with fewer contexts than threads, every call ends: a
\* thread waits for others that do not wait themselves, and they give back what
\* they have whether Redis answers or not.
ExecuteEnds == \A t \in Threads : pc[t] # "idle" ~> pc[t] = "idle"
===============================================================================
