------------------------------ MODULE EventLoop -------------------------------
(***************************************************************************)
(* The reactor of src/net/eventloop.cpp: one thread runs loop(), any other *)
(* thread hands it work with runInLoop() and wakes it through an eventfd,  *)
(* and a signal handler ends it with quit().  Sockets and their channels   *)
(* are the environment here (they only make epoll_wait return); they are   *)
(* modelled in TcpConnection.tla.                                          *)
(***************************************************************************)
EXTENDS Naturals, Sequences, Functions

CONSTANTS Callers,       \* threads other than the loop's: the pool's workers
          MaxPosts       \* bound: runInLoop calls made by one thread

ASSUME MaxPostsAssumption == MaxPosts \in Nat

VARIABLES
  phase,             \* where the loop thread is in loop()
  quit,              \* quit_
  pendingFunctors,   \* pendingFunctors_, guarded by mutex_
  functors,          \* the vector doPendingFunctors() has swapped out
  wakeupCount,       \* counter of the eventfd wakeupFd_
  wakeupReady,       \* this batch of epoll events holds the wakeup channel
  callerPc,          \* a caller is outside runInLoop, or between push and wakeup
  posted,            \* runInLoop calls made so far, by caller
  inlined,           \* runInLoop calls made by the loop thread itself
  signal,            \* progress of the one signal handled in a run
  submitted,         \* history: functors in the order they were pushed
  executed           \* history: functors in the order they were called

loopVars   == <<phase, quit, functors, wakeupReady, executed>>
callerVars == <<callerPc, posted, submitted>>
vars == <<loopVars, callerVars, pendingFunctors, wakeupCount, inlined, signal>>

Functor == Callers \X (1..MaxPosts)

Phases == {"boot",      \* constructed, loop() not called yet
           "test",      \* at while (!quit_)
           "poll",      \* in epoll_wait
           "dispatch",  \* running the handlers of a batch of events
           "swap",      \* about to lock mutex_ in doPendingFunctors()
           "run",       \* calling the functors swapped out
           "left"}      \* loop() has returned

Init ==
  /\ phase = "boot"
  /\ quit = FALSE
  /\ pendingFunctors = <<>>
  /\ functors = <<>>
  /\ wakeupCount = 0
  /\ wakeupReady = FALSE
  /\ callerPc = [c \in Callers |-> "outside"]
  /\ posted = [c \in Callers |-> 0]
  /\ inlined = 0
  /\ signal = "none"
  /\ submitted = <<>>
  /\ executed = <<>>

-------------------------------------------------------------------------------
(* Wrong variants of actions below, substituted for them one at a time to  *)
(* see that the properties notice.                                         *)

\* Copies the queue instead of swapping it out.
Mut_SwapPending ==
  /\ phase = "swap"
  /\ phase' = "run"
  /\ functors' = pendingFunctors
  /\ UNCHANGED <<callerVars, quit, pendingFunctors, wakeupCount, wakeupReady,
                 inlined, signal, executed>>

\* Calls the newest functor of the batch first.
Mut_RunFunctor ==
  /\ phase = "run"
  /\ functors # <<>>
  /\ executed' = Append(executed, functors[Len(functors)])
  /\ functors' = SubSeq(functors, 1, Len(functors) - 1)
  /\ UNCHANGED <<callerVars, phase, quit, pendingFunctors, wakeupCount,
                 wakeupReady, inlined, signal>>

\* Drains the eventfd after the functors have run instead of before the swap.
Mut_RunDone_Drains ==
  /\ phase = "run"
  /\ functors = <<>>
  /\ phase' = "test"
  /\ wakeupCount' = 0
  /\ UNCHANGED <<callerVars, quit, pendingFunctors, functors, wakeupReady,
                 inlined, signal, executed>>

\* Pushes without writing the eventfd.
Mut_RunInLoopWakeup(c) ==
  /\ callerPc[c] = "pushed"
  /\ callerPc' = [callerPc EXCEPT ![c] = "outside"]
  /\ UNCHANGED <<loopVars, posted, submitted, pendingFunctors, wakeupCount,
                 inlined, signal>>


-------------------------------------------------------------------------------
(* The loop thread.                                                        *)

\* loop() is entered: quit_ is cleared, whatever was requested before.
Enter ==
  /\ phase = "boot"
  /\ phase' = "test"
  /\ quit' = FALSE
  /\ UNCHANGED <<callerVars, pendingFunctors, functors, wakeupCount,
                 wakeupReady, inlined, signal, executed>>

TestQuit ==
  /\ phase = "test"
  /\ phase' = IF quit THEN "left" ELSE "poll"
  /\ UNCHANGED <<callerVars, quit, pendingFunctors, functors, wakeupCount,
                 wakeupReady, inlined, signal, executed>>

PollReturns(next, ready) ==
  /\ phase = "poll"
  /\ phase' = next
  /\ wakeupReady' = ready
  /\ UNCHANGED <<callerVars, quit, pendingFunctors, functors, wakeupCount,
                 inlined, signal, executed>>

\* epoll_wait reports the eventfd, alone or among other channels.
PollWakeup == wakeupCount > 0 /\ PollReturns("dispatch", TRUE)

\* It reports other channels only; the eventfd may be readable and still not
\* be among the 1024 events that fit in events_.
PollOther == PollReturns("dispatch", FALSE)

\* The 10 s timeout expires (numEvents = 0).
PollTimeout == wakeupCount = 0 /\ PollReturns("swap", FALSE)

\* The handlers of the batch have run; handleWakeup() reads the eventfd, which
\* resets its counter.
Dispatch ==
  /\ phase = "dispatch"
  /\ phase' = "swap"
  /\ wakeupCount' = IF wakeupReady THEN 0 ELSE wakeupCount
  /\ wakeupReady' = FALSE
  /\ UNCHANGED <<callerVars, quit, pendingFunctors, functors, inlined, signal,
                 executed>>

\* functors.swap(pendingFunctors_) under mutex_.
SwapPending ==
  /\ phase = "swap"
  /\ phase' = "run"
  /\ functors' = pendingFunctors
  /\ pendingFunctors' = <<>>
  /\ UNCHANGED <<callerVars, quit, wakeupCount, wakeupReady, inlined, signal,
                 executed>>

RunFunctor ==
  /\ phase = "run"
  /\ functors # <<>>
  /\ executed' = Append(executed, Head(functors))
  /\ functors' = Tail(functors)
  /\ UNCHANGED <<callerVars, phase, quit, pendingFunctors, wakeupCount,
                 wakeupReady, inlined, signal>>

RunDone ==
  /\ phase = "run"
  /\ functors = <<>>
  /\ phase' = "test"
  /\ UNCHANGED <<callerVars, quit, pendingFunctors, functors, wakeupCount,
                 wakeupReady, inlined, signal, executed>>

\* runInLoop() called by a handler or a functor, or by ~TcpServer once loop() has
\* returned: a plain call, no queue.
RunInLoopInline ==
  /\ phase \in {"dispatch", "run", "left"}
  /\ inlined < MaxPosts
  /\ inlined' = inlined + 1
  /\ UNCHANGED <<loopVars, callerVars, pendingFunctors, wakeupCount, signal>>

LoopThread ==
  \/ Enter \/ TestQuit
  \/ PollWakeup \/ PollOther \/ PollTimeout
  \/ Dispatch \/ SwapPending \/ RunFunctor \/ RunDone \/ RunInLoopInline

-------------------------------------------------------------------------------
(* runInLoop() on any other thread: push under mutex_, then, with mutex_   *)
(* released, write the eventfd.                                            *)

RunInLoopPush(c) ==
  /\ callerPc[c] = "outside"
  /\ posted[c] < MaxPosts
  /\ posted' = [posted EXCEPT ![c] = @ + 1]
  /\ pendingFunctors' = Append(pendingFunctors, <<c, posted[c] + 1>>)
  /\ submitted' = Append(submitted, <<c, posted[c] + 1>>)
  /\ callerPc' = [callerPc EXCEPT ![c] = "pushed"]
  /\ UNCHANGED <<loopVars, wakeupCount, inlined, signal>>

RunInLoopWakeup(c) ==
  /\ callerPc[c] = "pushed"
  /\ wakeupCount' = wakeupCount + 1
  /\ callerPc' = [callerPc EXCEPT ![c] = "outside"]
  /\ UNCHANGED <<loopVars, posted, submitted, pendingFunctors, inlined, signal>>

-------------------------------------------------------------------------------
(* SIGINT or SIGTERM: handleSig() calls quit().  The kernel picks the      *)
(* thread that runs the handler.                                           *)

\* On the loop thread: no eventfd write; epoll_wait, if the thread is in it,
\* fails with EINTR.
SignalHere ==
  /\ signal = "none"
  /\ phase # "left"
  /\ signal' = "handled"
  /\ quit' = TRUE
  /\ phase' = IF phase = "poll" THEN "swap" ELSE phase
  /\ UNCHANGED <<callerVars, pendingFunctors, functors, wakeupCount,
                 wakeupReady, inlined, executed>>

\* On another thread: quit_ is set, then the eventfd is written.
SignalElsewhere ==
  /\ signal = "none"
  /\ signal' = "flagged"
  /\ quit' = TRUE
  /\ UNCHANGED <<callerVars, phase, pendingFunctors, functors, wakeupCount,
                 wakeupReady, inlined, executed>>

SignalWakeup ==
  /\ signal = "flagged"
  /\ signal' = "handled"
  /\ wakeupCount' = wakeupCount + 1
  /\ UNCHANGED <<loopVars, callerVars, pendingFunctors, inlined>>

-------------------------------------------------------------------------------
Next ==
  \/ LoopThread
  \/ \E c \in Callers : RunInLoopPush(c) \/ RunInLoopWakeup(c)
  \/ SignalHere \/ SignalElsewhere \/ SignalWakeup

Spec == Init /\ [][Next]_vars

\* The loop thread keeps running whenever it is not blocked, epoll_wait
\* returns when the eventfd is readable, and a thread inside runInLoop() or in
\* the signal handler finishes it.  Nothing forces sockets to become ready, or
\* anybody to post or to signal; the 10 s timeout is not assumed to help.
FairSpec ==
  /\ Spec
  /\ WF_vars(Enter) /\ WF_vars(TestQuit)
  /\ WF_vars(PollWakeup) /\ WF_vars(Dispatch) /\ WF_vars(SwapPending)
  /\ WF_vars(RunFunctor) /\ WF_vars(RunDone)
  /\ \A c \in Callers : WF_vars(RunInLoopWakeup(c))
  /\ WF_vars(SignalWakeup)

-------------------------------------------------------------------------------
(* Properties.                                                             *)

\* Type invariant.
TypeOK ==
  /\ phase \in Phases
  /\ quit \in BOOLEAN
  /\ pendingFunctors \in Seq(Functor)
  /\ functors \in Seq(Functor)
  /\ wakeupCount \in Nat
  /\ wakeupReady \in BOOLEAN
  /\ callerPc \in [Callers -> {"outside", "pushed"}]
  /\ posted \in [Callers -> 0..MaxPosts]
  /\ inlined \in 0..MaxPosts
  /\ signal \in {"none", "flagged", "handled"}
  /\ submitted \in Seq(Functor)
  /\ executed \in Seq(Functor)

\* Every functor pushed by runInLoop() is, at every moment, in exactly one of:
\* already called, swapped out by doPendingFunctors(), still in
\* pendingFunctors_; and the three hold them in the order of the pushes.
FifoExactlyOnce == submitted = executed \o functors \o pendingFunctors

\* The vector swapped out is empty again before the next swap; were it not, the
\* swap would put functors back into pendingFunctors_ and lose their order.
FunctorsOnlyInRun == functors # <<>> => phase = "run"

\* The n-th call of a thread pushes its n-th functor, so no functor is pushed
\* twice.
PushedOnce ==
  /\ IsInjective(submitted)
  /\ \A f \in Range(submitted) : f[2] <= posted[f[1]]

\* The inductive invariant of the queue: the four parts need each other.
QueueInv == TypeOK /\ FunctorsOnlyInRun /\ FifoExactlyOnce /\ PushedOnce

\* No lost wakeup: while functors wait and the loop thread is anywhere from which
\* it can block in epoll_wait before its next swap, the eventfd is readable or
\* some thread is about to write it.
NoLostWakeup ==
  pendingFunctors # <<>> /\ phase \notin {"dispatch", "swap"} =>
    wakeupCount > 0 \/ \E c \in Callers : callerPc[c] = "pushed"

\* runInLoop() and doPendingFunctors() together are a FIFO executor.
Executor == INSTANCE FifoExecutor WITH
  Task    <- Functor,
  queue   <- functors \o pendingFunctors,
  started <- executed

ImplementsExecutor == Executor!Spec

\* A functor that was pushed is called unless the loop ends first; epoll_wait's
\* timeout plays no part (FairSpec does not assume it).
PostedRuns ==
  \A f \in Functor :
    (f \in Range(submitted)) ~> (f \in Range(executed) \/ phase = "left")

===============================================================================
