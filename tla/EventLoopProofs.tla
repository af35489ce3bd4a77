--------------------------- MODULE EventLoopProofs ----------------------------
(***************************************************************************)
(* Theorems about EventLoop.tla, for any set of posting threads and any    *)
(* number of calls: no functor is lost, repeated or overtaken, no wakeup   *)
(* is lost, and the loop implements FifoExecutor.tla.                      *)
(***************************************************************************)
EXTENDS EventLoop, QueueLemmas, TLAPS

USE MaxPostsAssumption

-------------------------------------------------------------------------------
(* Type correctness.                                                       *)

LEMMA TypeInit == Init => TypeOK
<1> SUFFICES ASSUME Init PROVE TypeOK
  OBVIOUS
<1>1. <<>> \in Seq(Functor)
  BY EmptySeq
<1>2. 0 \in 0..MaxPosts
  OBVIOUS
<1> QED BY <1>1, <1>2 DEF Init, TypeOK, Phases

LEMMA TypeStep == TypeOK /\ [Next]_vars => TypeOK'
<1> SUFFICES ASSUME TypeOK, [Next]_vars PROVE TypeOK'
  OBVIOUS
<1> USE DEF TypeOK
<1>1. CASE Enter
  BY <1>1 DEF Enter, callerVars, Phases
<1>2. CASE TestQuit
  BY <1>2 DEF TestQuit, callerVars, Phases
<1>3. CASE PollWakeup
  BY <1>3 DEF PollWakeup, PollReturns, callerVars, Phases
<1>4. CASE PollOther
  BY <1>4 DEF PollOther, PollReturns, callerVars, Phases
<1>5. CASE PollTimeout
  BY <1>5 DEF PollTimeout, PollReturns, callerVars, Phases
<1>6. CASE Dispatch
  BY <1>6 DEF Dispatch, callerVars, Phases
<1>7. CASE SwapPending
  BY <1>7, EmptySeq DEF SwapPending, callerVars, Phases
<1>8. CASE RunFunctor
  <2>1. /\ Head(functors) \in Functor
        /\ Tail(functors) \in Seq(Functor)
    BY <1>8, HeadTailProperties DEF RunFunctor
  <2>2. /\ executed' \in Seq(Functor)
        /\ functors' \in Seq(Functor)
    BY <1>8, <2>1, AppendProperties DEF RunFunctor
  <2> QED BY <1>8, <2>2 DEF RunFunctor, callerVars
<1>9. CASE RunDone
  BY <1>9 DEF RunDone, callerVars, Phases
<1>10. CASE RunInLoopInline
  BY <1>10 DEF RunInLoopInline, callerVars, loopVars
<1>11. ASSUME NEW c \in Callers, RunInLoopPush(c)
       PROVE  TypeOK'
  <2>1. posted[c] + 1 \in 1..MaxPosts
    BY <1>11 DEF RunInLoopPush
  <2>2. <<c, posted[c] + 1>> \in Functor
    BY <2>1 DEF Functor
  <2>3. /\ pendingFunctors' \in Seq(Functor)
        /\ submitted' \in Seq(Functor)
    BY <1>11, <2>2, AppendProperties DEF RunInLoopPush
  <2>4. posted' \in [Callers -> 0..MaxPosts]
    BY <1>11, <2>1 DEF RunInLoopPush
  <2> QED BY <1>11, <2>3, <2>4 DEF RunInLoopPush, loopVars
<1>12. ASSUME NEW c \in Callers, RunInLoopWakeup(c)
       PROVE  TypeOK'
  BY <1>12 DEF RunInLoopWakeup, loopVars
<1>13. CASE SignalHere
  BY <1>13 DEF SignalHere, callerVars, Phases
<1>14. CASE SignalElsewhere
  BY <1>14 DEF SignalElsewhere, callerVars
<1>15. CASE SignalWakeup
  BY <1>15 DEF SignalWakeup, callerVars, loopVars
<1>16. CASE UNCHANGED vars
  BY <1>16 DEF vars, callerVars, loopVars
<1> QED
  BY <1>1, <1>2, <1>3, <1>4, <1>5, <1>6, <1>7, <1>8, <1>9, <1>10, <1>11, <1>12,
     <1>13, <1>14, <1>15, <1>16 DEF Next, LoopThread

\* TypeOK holds throughout: in particular wakeupCount, which stands for the
\* eventfd's counter, never goes below zero.
THEOREM TypeCorrect == Spec => []TypeOK
BY TypeInit, TypeStep, PTL DEF Spec

-------------------------------------------------------------------------------
(* The queue.  What a step may do to it is said once, in QueueSteps; the   *)
(* invariants about it are proved from there.                              *)

QueueUnchanged ==
  UNCHANGED <<submitted, executed, functors, pendingFunctors, posted>>

LEMMA QueueSteps ==
  ASSUME TypeOK, [Next]_vars
  PROVE  \/ QueueUnchanged
         \/ SwapPending
         \/ RunFunctor
         \/ \E c \in Callers : RunInLoopPush(c)
BY DEF Next, LoopThread, Enter, TestQuit, PollWakeup, PollOther, PollTimeout,
       PollReturns, Dispatch, RunDone, RunInLoopInline, RunInLoopWakeup,
       SignalHere, SignalElsewhere, SignalWakeup, vars, loopVars, callerVars,
       QueueUnchanged

LEMMA FunctorsOnlyInRunStep ==
  TypeOK /\ FunctorsOnlyInRun /\ [Next]_vars => FunctorsOnlyInRun'
BY DEF FunctorsOnlyInRun, Next, LoopThread, Enter, TestQuit, PollWakeup,
       PollOther, PollTimeout, PollReturns, Dispatch, SwapPending, RunFunctor,
       RunDone, RunInLoopInline, RunInLoopPush, RunInLoopWakeup, SignalHere,
       SignalElsewhere, SignalWakeup, vars, loopVars, callerVars

LEMMA FifoStep == QueueInv /\ [Next]_vars => FifoExactlyOnce'
<1> SUFFICES ASSUME QueueInv, [Next]_vars PROVE FifoExactlyOnce'
  OBVIOUS
<1>0. /\ TypeOK /\ FunctorsOnlyInRun
      /\ submitted = executed \o functors \o pendingFunctors
      /\ executed \in Seq(Functor) /\ functors \in Seq(Functor)
      /\ pendingFunctors \in Seq(Functor)
      /\ executed \o functors \in Seq(Functor)
  BY ConcatProperties DEF QueueInv, TypeOK, FifoExactlyOnce
<1>1. CASE QueueUnchanged
  BY <1>0, <1>1 DEF QueueUnchanged, FifoExactlyOnce
<1>2. CASE SwapPending
  <2>1. functors = <<>>
    BY <1>0, <1>2 DEF SwapPending, FunctorsOnlyInRun
  <2>2. /\ executed \o functors = executed
        /\ (executed \o pendingFunctors) \o <<>> = executed \o pendingFunctors
    <3>1. executed \o pendingFunctors \in Seq(Functor)
      BY <1>0, ConcatProperties
    <3> QED BY <1>0, <2>1, <3>1, ConcatEmptySeq
  <2>3. /\ submitted' = submitted /\ executed' = executed
        /\ functors' = pendingFunctors /\ pendingFunctors' = <<>>
    BY <1>2 DEF SwapPending, callerVars
  <2> QED BY <1>0, <2>2, <2>3 DEF FifoExactlyOnce
<1>3. CASE RunFunctor
  <2>1. /\ functors # <<>>
        /\ submitted' = submitted /\ pendingFunctors' = pendingFunctors
        /\ executed' = Append(executed, Head(functors))
        /\ functors' = Tail(functors)
    BY <1>3 DEF RunFunctor, callerVars
  <2>2. Append(executed, Head(functors)) \o Tail(functors)
          = executed \o functors
    BY <1>0, <2>1, DequeueMoves
  <2> QED BY <1>0, <2>1, <2>2 DEF FifoExactlyOnce
<1>4. ASSUME NEW c \in Callers, RunInLoopPush(c)
      PROVE  FifoExactlyOnce'
  <2> DEFINE f == <<c, posted[c] + 1>>
  <2>1. f \in Functor
    BY <1>0, <1>4 DEF RunInLoopPush, TypeOK, Functor
  <2>2. /\ submitted' = Append(submitted, f)
        /\ pendingFunctors' = Append(pendingFunctors, f)
        /\ executed' = executed /\ functors' = functors
    BY <1>4 DEF RunInLoopPush, loopVars
  <2> HIDE DEF f
  <2>3. (executed \o functors) \o Append(pendingFunctors, f)
          = Append((executed \o functors) \o pendingFunctors, f)
    BY <1>0, <2>1, EnqueueMoves
  <2> QED BY <1>0, <2>2, <2>3 DEF FifoExactlyOnce
<1> QED BY <1>0, <1>1, <1>2, <1>3, <1>4, QueueSteps

LEMMA PushedOnceStep == TypeOK /\ PushedOnce /\ [Next]_vars => PushedOnce'
<1> SUFFICES ASSUME TypeOK, PushedOnce, [Next]_vars PROVE PushedOnce'
  OBVIOUS
<1>1. CASE submitted' = submitted /\ posted' = posted
  BY <1>1 DEF PushedOnce
<1>2. ASSUME NEW c \in Callers, RunInLoopPush(c)
      PROVE  PushedOnce'
  <2> DEFINE f == <<c, posted[c] + 1>>
  <2>1. f \in Functor /\ submitted \in Seq(Functor)
    BY <1>2 DEF RunInLoopPush, TypeOK, Functor
  <2>2. submitted' = Append(submitted, f)
    BY <1>2 DEF RunInLoopPush
  <2>3. /\ posted[c] \in Nat
        /\ posted' = [posted EXCEPT ![c] = @ + 1]
        /\ posted \in [Callers -> 0..MaxPosts]
    BY <1>2 DEF RunInLoopPush, TypeOK
  <2>4. f \notin Range(submitted)
    BY <2>3 DEF PushedOnce
  <2>5. /\ IsInjective(submitted')
        /\ Range(submitted') = Range(submitted) \cup {f}
    <3> HIDE DEF f
    <3> QED BY <2>1, <2>2, <2>4, InjectiveAppend, RangeOfAppend DEF PushedOnce
  <2>6. ASSUME NEW g \in Range(submitted') PROVE g[2] <= posted'[g[1]]
    <3>1. CASE g = f
      BY <2>3, <3>1
    <3>2. CASE g \in Range(submitted)
      <4>1. g \in Functor
        BY <2>1, <3>2, RangeOfSeq
      <4>2. /\ g[1] \in Callers /\ g[2] \in Nat
            /\ g[2] <= posted[g[1]] /\ posted[g[1]] \in Nat
        BY <2>3, <3>2, <4>1 DEF PushedOnce, Functor
      <4> QED BY <2>3, <4>2
    <3> QED BY <2>5, <3>1, <3>2
  <2> QED BY <2>5, <2>6 DEF PushedOnce
<1>3. \/ submitted' = submitted /\ posted' = posted
      \/ \E c \in Callers : RunInLoopPush(c)
  BY QueueSteps DEF QueueUnchanged, SwapPending, RunFunctor, callerVars
<1> QED BY <1>1, <1>2, <1>3

LEMMA QueueInvInit == Init => QueueInv
<1> SUFFICES ASSUME Init PROVE QueueInv
  OBVIOUS
<1>1. TypeOK
  BY TypeInit
<1>2. <<>> \o <<>> \o <<>> = <<>>
  BY EmptySeq, ConcatEmptySeq
<1>3. FunctorsOnlyInRun /\ FifoExactlyOnce
  BY <1>2 DEF Init, FunctorsOnlyInRun, FifoExactlyOnce
<1>4. PushedOnce
  BY DEF Init, PushedOnce, IsInjective, Range
<1> QED BY <1>1, <1>3, <1>4 DEF QueueInv

\* For any threads and any number of calls, the queue, the vector swapped out and
\* what has been called hold every functor once and in push order, with the types
\* and the two facts about the swap this rests on.
THEOREM QueueInvariant == Spec => []QueueInv
<1>1. QueueInv /\ [Next]_vars => QueueInv'
  BY TypeStep, FunctorsOnlyInRunStep, FifoStep, PushedOnceStep DEF QueueInv
<1> QED BY QueueInvInit, <1>1, PTL DEF Spec

\* Every functor pushed by runInLoop() is called, waits in the vector swapped
\* out, or waits in pendingFunctors_: in one of them, once, in push order.
THEOREM FifoCorrect == Spec => []FifoExactlyOnce
<1>1. QueueInv => FifoExactlyOnce
  BY DEF QueueInv
<1> QED BY QueueInvariant, <1>1, PTL

-------------------------------------------------------------------------------
(* The eventfd.                                                            *)

LEMMA NoLostWakeupStep ==
  TypeOK /\ NoLostWakeup /\ [Next]_vars => NoLostWakeup'
<1> SUFFICES ASSUME TypeOK, NoLostWakeup, [Next]_vars PROVE NoLostWakeup'
  OBVIOUS
<1> USE DEF NoLostWakeup
<1>1. ASSUME NEW c \in Callers, RunInLoopPush(c)
      PROVE  NoLostWakeup'
  <2>1. callerPc'[c] = "pushed"
    BY <1>1 DEF RunInLoopPush, TypeOK
  <2> QED BY <2>1
<1>2. ASSUME NEW c \in Callers, RunInLoopWakeup(c)
      PROVE  NoLostWakeup'
  BY <1>2 DEF RunInLoopWakeup, TypeOK
<1>3. CASE SignalWakeup
  BY <1>3 DEF SignalWakeup, TypeOK, loopVars, callerVars
<1>4. CASE SignalHere \/ SignalElsewhere
  BY <1>4 DEF SignalHere, SignalElsewhere, callerVars
<1>5. CASE LoopThread
  BY <1>5 DEF LoopThread, Enter, TestQuit, PollWakeup, PollOther, PollTimeout,
       PollReturns, Dispatch, SwapPending, RunFunctor, RunDone,
       RunInLoopInline, loopVars, callerVars
<1>6. CASE UNCHANGED vars
  BY <1>6 DEF vars, loopVars, callerVars
<1> QED BY <1>1, <1>2, <1>3, <1>4, <1>5, <1>6 DEF Next

\* While functors wait and the loop thread can block before it looks at them, the
\* eventfd is readable or about to be written.
THEOREM NoWakeupIsLost == Spec => []NoLostWakeup
<1>1. Init => NoLostWakeup
  BY DEF Init, NoLostWakeup
<1> QED BY <1>1, NoLostWakeupStep, TypeCorrect, PTL DEF Spec

-------------------------------------------------------------------------------
(* Refinement.                                                             *)

LEMMA ExecutorStep ==
  ASSUME QueueInv, [Next]_vars
  PROVE  [Executor!Next]_(Executor!vars)
<1>0. /\ submitted = (executed \o functors) \o pendingFunctors
      /\ executed \in Seq(Functor) /\ functors \in Seq(Functor)
      /\ pendingFunctors \in Seq(Functor)
  BY DEF QueueInv, TypeOK, FifoExactlyOnce
<1>1. CASE QueueUnchanged
  BY <1>1 DEF QueueUnchanged, Executor!vars
<1>2. CASE SwapPending
  <2>1. functors = <<>>
    BY <1>2 DEF SwapPending, FunctorsOnlyInRun, QueueInv
  <2>2. functors \o pendingFunctors = pendingFunctors \o <<>>
    BY <1>0, <2>1, ConcatEmptySeq
  <2> QED BY <1>2, <2>2 DEF SwapPending, Executor!vars
<1>3. CASE RunFunctor
  <2>1. /\ functors # <<>>
        /\ pendingFunctors' = pendingFunctors
        /\ executed' = Append(executed, Head(functors))
        /\ functors' = Tail(functors)
    BY <1>3 DEF RunFunctor
  <2>2. /\ functors \o pendingFunctors # <<>>
        /\ Head(functors \o pendingFunctors) = Head(functors)
        /\ Tail(functors \o pendingFunctors) = Tail(functors) \o pendingFunctors
    BY <1>0, <2>1, HeadTailOfConcat
  <2> QED BY <2>1, <2>2 DEF Executor!Next, Executor!Start
<1>4. ASSUME NEW c \in Callers, RunInLoopPush(c)
      PROVE  Executor!Next
  <2> DEFINE f == <<c, posted[c] + 1>>
  <2>1. f \in Functor
    BY <1>4 DEF RunInLoopPush, QueueInv, TypeOK, Functor
  <2>2. /\ pendingFunctors' = Append(pendingFunctors, f)
        /\ executed' = executed /\ functors' = functors
    BY <1>4 DEF RunInLoopPush, loopVars
  <2>3. f \notin Range(submitted)
    BY <1>4 DEF QueueInv, PushedOnce, TypeOK, RunInLoopPush
  <2> HIDE DEF f
  <2>4. (functors \o pendingFunctors)' = Append(functors \o pendingFunctors, f)
    BY <1>0, <2>1, <2>2, EnqueueMoves
  <2>5. Executor!Submitted = submitted
    <3>1. \A q, r, t \in Seq(Functor) : (q \o r) \o t = q \o (r \o t)
      BY ConcatAssociative
    <3>2. (executed \o functors) \o pendingFunctors
            = executed \o (functors \o pendingFunctors)
      BY <1>0, <3>1, Zenon
    <3> QED BY <1>0, <3>2 DEF Executor!Submitted
  <2>6. \A i \in DOMAIN submitted : submitted[i] # f
    BY <2>3 DEF Range
  <2>7. Executor!Submit(f)
    BY <2>2, <2>4, <2>5, <2>6 DEF Executor!Submit
  <2> QED BY <2>1, <2>7 DEF Executor!Next
<1> QED BY <1>1, <1>2, <1>3, <1>4, QueueSteps DEF QueueInv

\* runInLoop() and doPendingFunctors() implement the FIFO executor: every step
\* submits a new task at the end, starts the oldest, or changes neither queue
\* nor history.
THEOREM LoopImplementsExecutor == Spec => ImplementsExecutor
<1>1. Init => Executor!Init
  <2>1. <<>> \o <<>> = <<>>
    BY EmptySeq, ConcatEmptySeq
  <2> QED BY <2>1 DEF Init, Executor!Init
<1>2. QueueInv /\ [Next]_vars => [Executor!Next]_(Executor!vars)
  BY ExecutorStep
<1> QED BY <1>1, <1>2, QueueInvariant, PTL
        DEF Spec, ImplementsExecutor, Executor!Spec
===============================================================================
