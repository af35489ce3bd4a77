------------------------------ MODULE AsyncLogger -----------------------------
(***************************************************************************)
(* The asynchronous logger (async_logger.hpp): log() appends to the front  *)
(* buffer; the backend thread swaps it with the back buffer, when it is    *)
(* full or the flush interval is over, and writes that to the file; the    *)
(* destructor ends the thread.  A critical section on mutex_ is one step,  *)
(* but for the backend between finding its predicate false and being       *)
(* asleep ("deciding"): the destructor does not take the mutex.            *)
(***************************************************************************)
EXTENDS Naturals, Sequences, Functions

CONSTANTS Threshold,     \* BUFFER_THRESHOLD
          MaxMessages    \* bound: calls of log()

\* What is assumed of the constants.
Assumption == MaxMessages \in Nat

VARIABLES front,      \* front_buffer_
          back,       \* what is not yet written of back_buffer_
          written,    \* the lines of the file
          logged,     \* calls of log() so far; a message is its number
          keepOn,     \* running_
          backend,    \* where the backend thread is; "off" before init()
          notified,   \* it sleeps, and has been notified
          owner       \* where the destructor is, from "alive" to "gone"

loggerVars == <<front, back, written, logged, keepOn, backend, notified, owner>>

Init ==
  /\ front = <<>> /\ back = <<>> /\ written = <<>>
  /\ logged = 0
  /\ keepOn = FALSE
  /\ backend = "off"
  /\ notified = FALSE
  /\ owner = "alive"

InitLogger ==
  /\ backend = "off" /\ owner = "alive"
  /\ keepOn' = TRUE
  /\ backend' = "test"
  /\ UNCHANGED <<front, back, written, logged, notified, owner>>

MutexFree == backend # "deciding"
Full(b)   == Len(b) >= Threshold

\* Wrong variant: the notification goes out when the buffer exceeds the threshold.
Mut_Log ==
  /\ owner = "alive" /\ MutexFree
  /\ logged < MaxMessages
  /\ logged' = logged + 1
  /\ front' = Append(front, logged')
  /\ notified' = (notified \/ (backend = "asleep" /\ Len(front') > Threshold))
  /\ UNCHANGED <<back, written, keepOn, backend, owner>>

\* log(): notify_one() reaches the backend if it is asleep.
Log ==
  /\ owner = "alive" /\ MutexFree
  /\ logged < MaxMessages
  /\ logged' = logged + 1
  /\ front' = Append(front, logged')
  /\ notified' = (notified \/ (backend = "asleep" /\ Full(front')))
  /\ UNCHANGED <<back, written, keepOn, backend, owner>>

-------------------------------------------------------------------------------
(* backend_loop().                                                         *)

TestRunning ==
  /\ backend = "test"
  /\ backend' = IF keepOn THEN "lock" ELSE "done"
  /\ UNCHANGED <<front, back, written, logged, keepOn, notified, owner>>

Predicate == ~keepOn \/ Full(front)

\* Wrong variant: the front buffer is not emptied.
Mut_Swap ==
  /\ back' = front /\ front' = front
  /\ backend' = "write"
  /\ notified' = FALSE
  /\ UNCHANGED <<written, logged, keepOn, owner>>

Swap ==
  /\ back' = front /\ front' = back
  /\ backend' = "write"
  /\ notified' = FALSE
  /\ UNCHANGED <<written, logged, keepOn, owner>>

\* wait_for() with the mutex taken: the predicate holds already, or it does not.
SwapAtOnce == backend = "lock" /\ Predicate /\ Swap

Decide ==
  /\ backend = "lock" /\ ~Predicate
  /\ backend' = "deciding"
  /\ UNCHANGED <<front, back, written, logged, keepOn, notified, owner>>

FallAsleep ==
  /\ backend = "deciding"
  /\ backend' = "asleep"
  /\ UNCHANGED <<front, back, written, logged, keepOn, notified, owner>>

\* It was notified, or woke up for no reason.
Wake == backend = "asleep" /\ notified /\ Predicate /\ Swap
SpuriousWake == backend = "asleep" /\ ~notified /\ Predicate /\ Swap

IntervalEnds == backend = "asleep" /\ Swap

Write ==
  /\ backend = "write" /\ back # <<>>
  /\ written' = Append(written, Head(back))
  /\ back' = Tail(back)
  /\ UNCHANGED <<front, logged, keepOn, backend, notified, owner>>

Flush ==
  /\ backend = "write" /\ back = <<>>
  /\ backend' = "test"
  /\ UNCHANGED <<front, back, written, logged, keepOn, notified, owner>>

-------------------------------------------------------------------------------
(* ~AsyncLogger(), at the end of the process.                              *)

StopRunning ==
  /\ owner = "alive"
  /\ owner' = "stopping"
  /\ keepOn' = FALSE
  /\ UNCHANGED <<front, back, written, logged, backend, notified>>

NotifyAll ==
  /\ owner = "stopping"
  /\ owner' = "joining"
  /\ notified' = (notified \/ backend = "asleep")
  /\ UNCHANGED <<front, back, written, logged, keepOn, backend>>

Join ==
  /\ owner = "joining" /\ backend \in {"off", "done"}
  /\ owner' = "gone"
  /\ UNCHANGED <<front, back, written, logged, keepOn, backend, notified>>

\* Both threads are weakly fair; the interval is not assumed to end.
Backend == \/ TestRunning \/ SwapAtOnce \/ Decide \/ FallAsleep \/ Wake \/ Write
           \/ Flush
Destructor == NotifyAll \/ Join

Next == \/ InitLogger \/ Log \/ Backend \/ SpuriousWake \/ IntervalEnds
        \/ StopRunning \/ Destructor

Spec == Init /\ [][Next]_loggerVars

-------------------------------------------------------------------------------
(* Properties.                                                             *)

\* Type invariant.
TypeOK ==
  /\ front \in Seq(1..MaxMessages) /\ back \in Seq(1..MaxMessages)
  /\ written \in Seq(1..MaxMessages)
  /\ logged \in 0..MaxMessages
  /\ keepOn \in BOOLEAN /\ notified \in BOOLEAN
  /\ backend \in {"off", "test", "lock", "deciding", "asleep", "write", "done"}
  /\ owner \in {"alive", "stopping", "joining", "gone"}

\* The back buffer is empty unless it is being written.  The file and the buffers
\* hold all messages, in the order of log().  Inductive.
BackIsWritten == backend # "write" => back = <<>>
InOrder       == written \o (back \o front) = [n \in 1..logged |-> n]
LogInv        == TypeOK /\ BackIsWritten /\ InOrder

Executor == INSTANCE FifoExecutor
              WITH Task <- 1..MaxMessages, queue <- back \o front, started <- written

\* Whatever is logged while the buffers change hands, the file gets the messages
\* in the order of log(), each once, and none is missing between two lines.
FileIsTheLog == Executor!Spec

\* A full front buffer is taken although nobody waits for the interval to end: the
\* notification of log() is not lost.  When the interval does end, every message
\* reaches the file unless the process ends first, and the destructor, whose
\* notification may be lost, joins the backend.
LoggedIsWritten ==
  /\ Full(front) /\ backend # "off" ~> ~Full(front) \/ owner # "alive"
  /\ WF_loggerVars(IntervalEnds) =>
       /\ \A n \in 1..MaxMessages :
            n \in Range(front) /\ backend # "off" ~>
              n \in Range(written) \/ owner # "alive"
       /\ owner = "joining" ~> owner = "gone"
===============================================================================
