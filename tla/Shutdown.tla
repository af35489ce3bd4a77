------------------------------- MODULE Shutdown -------------------------------
(***************************************************************************)
(* The end of the process (main_gateway.cpp, gateway.h): when loop()       *)
(* returns, main destroys the gateway's members in the reverse of the      *)
(* order of their declaration, then the loop, while workers still handle   *)
(* requests and the StreamWriter's thread still polls Redis.  The          *)
(* destructors of the thread pool and of the StreamWriter join their       *)
(* threads; those of the other members wait for nobody.                    *)
(*                                                                         *)
(* A thread that uses a destroyed member has undefined behaviour: it goes  *)
(* on, or waits for ever (for a mutex or a context that is gone), or takes *)
(* the process with it.                                                    *)
(***************************************************************************)
EXTENDS Naturals, Sequences, FiniteSets

CONSTANTS Workers,       \* threads of the pool
          MaxAccepted    \* bound: requests accepted

\* What is assumed of the constants.
Assumption == Workers # {} /\ MaxAccepted \in Nat

\* The members of a gateway, the last declared first; then the loop, which main has
\* constructed before the gateway.
Teardown == <<"distributedLimiter", "mgmtHandler", "logConsumer", "rateLimiter",
              "auth", "router", "redisClient", "redisPool", "mysqlPool",
              "threadPool", "mgmtServer", "apiServer", "streamWriter", "loop">>

Redis == {"redisClient", "redisPool"}

\* The members that processApiRequest() uses at each of its stages ...
Uses == [parse    |-> {},
         match    |-> {"router"},
         validate |-> {"auth"} \cup Redis,
         bucket   |-> {"distributedLimiter"} \cup Redis,
         window   |-> {"rateLimiter"} \cup Redis,
         answer   |-> {"loop"},
         log      |-> {"logConsumer"} \cup Redis]

\* ... and where it goes from there: 400, 404, 401 and 429 end with the answer, and
\* an exception of the parser without one.
After == [parse    |-> {"match", "answer", "idle"},
          match    |-> {"validate", "bucket", "answer"},
          validate |-> {"bucket", "answer"},
          bucket   |-> {"window", "answer"},
          window   |-> {"answer"},
          answer   |-> {"log", "idle"},
          log      |-> {"idle"}]

\* The same of StreamWriter::run().
WriterUses == [create |-> Redis, read |-> Redis, sleep |-> {}, test |-> {},
               insert |-> Redis \cup {"mysqlPool"}]
WriterAfter == [create |-> {"test"}, read |-> {"sleep", "insert"},
                sleep |-> {"test"}, insert |-> {"test", "sleep"}]

VARIABLES main,       \* the member that main destroys next; 0 in loop()
          crashed,    \* the process has ended by undefined behaviour
          accepted,   \* requests given to the pool
          tasks,      \* those of them that no worker has taken
          worker,     \* the stage of each worker
          writer      \* where the StreamWriter's thread is

shutdownVars == <<main, crashed, accepted, tasks, worker, writer>>

Dead       == {Teardown[i] : i \in 1..(main - 1)}
Destroying(m) == main \in DOMAIN Teardown /\ Teardown[main] = m
Returned   == main > Len(Teardown)

Init ==
  /\ main = 0
  /\ crashed = FALSE
  /\ accepted = 0 /\ tasks = 0
  /\ worker = [w \in Workers |-> "idle"]
  /\ writer = "create"

-------------------------------------------------------------------------------
(* The loop's thread.                                                      *)

AcceptRequest ==
  /\ main = 0 /\ accepted < MaxAccepted
  /\ accepted' = accepted + 1
  /\ tasks' = tasks + 1
  /\ UNCHANGED <<main, crashed, worker, writer>>

\* A signal has set quit_, and loop() returns.
LoopEnds ==
  /\ main = 0
  /\ main' = 1
  /\ UNCHANGED <<crashed, accepted, tasks, worker, writer>>

\* Wrong variant: the workers are detached.
Mut_Joined ==
  /\ Destroying("streamWriter") => writer = "exited"

\* ~ThreadPool() and ~StreamWriter() wait for their threads.
Joined ==
  /\ Destroying("threadPool") => \A w \in Workers : worker[w] = "exited"
  /\ Destroying("streamWriter") => writer = "exited"

Destroy ==
  /\ main \in DOMAIN Teardown
  /\ Joined
  /\ main' = main + 1
  /\ UNCHANGED <<crashed, accepted, tasks, worker, writer>>

\* A second signal: handleSig() calls stop() of the gateway, which reads
\* logConsumer_, and quit() of the loop, destroyed or not.
LateSignal ==
  /\ {"logConsumer", "loop"} \cap Dead # {}
  /\ crashed' = TRUE
  /\ UNCHANGED <<main, accepted, tasks, worker, writer>>

-------------------------------------------------------------------------------
(* The workers.                                                            *)

Take(w) ==
  /\ worker[w] = "idle" /\ tasks > 0
  /\ tasks' = tasks - 1
  /\ worker' = [worker EXCEPT ![w] = "parse"]
  /\ UNCHANGED <<main, crashed, accepted, writer>>

\* stop_ is set, and nothing is queued.
Exit(w) ==
  /\ worker[w] = "idle" /\ tasks = 0
  /\ Destroying("threadPool")
  /\ worker' = [worker EXCEPT ![w] = "exited"]
  /\ UNCHANGED <<main, crashed, accepted, tasks, writer>>

Proceed(w) ==
  /\ worker[w] \in DOMAIN After
  /\ \E s \in After[worker[w]] : worker' = [worker EXCEPT ![w] = s]
  /\ UNCHANGED <<main, crashed, accepted, tasks, writer>>

\* What the stage uses has been destroyed under it.
Harmed(w) == worker[w] \in DOMAIN Uses /\ Uses[worker[w]] \cap Dead # {}

WorkerHarmed(w) ==
  /\ Harmed(w)
  /\ \/ crashed' = TRUE /\ UNCHANGED worker
     \/ worker' = [worker EXCEPT ![w] = "stuck"] /\ UNCHANGED crashed
  /\ UNCHANGED <<main, accepted, tasks, writer>>

-------------------------------------------------------------------------------
(* The StreamWriter's thread.                                              *)

\* Wrong variant: while (true).
Mut_WriterTests ==
  /\ writer = "test"
  /\ writer' = "read"
  /\ UNCHANGED <<main, crashed, accepted, tasks, worker>>

\* while (running_), which the destructor clears.
WriterTests ==
  /\ writer = "test"
  /\ writer' = IF Destroying("streamWriter") THEN "exited" ELSE "read"
  /\ UNCHANGED <<main, crashed, accepted, tasks, worker>>

WriterProceeds ==
  /\ writer \in DOMAIN WriterAfter
  /\ writer' \in WriterAfter[writer]
  /\ UNCHANGED <<main, crashed, accepted, tasks, worker>>

WriterHarmed ==
  /\ writer \in DOMAIN WriterUses /\ WriterUses[writer] \cap Dead # {}
  /\ \/ crashed' = TRUE /\ UNCHANGED writer
     \/ writer' = "stuck" /\ UNCHANGED crashed
  /\ UNCHANGED <<main, accepted, tasks, worker>>

\* Each of these is weakly fair: a thread goes on until undefined behaviour has
\* stopped the process.
Main      == ~crashed /\ Destroy
Worker(w) == ~crashed /\ (Take(w) \/ Exit(w) \/ Proceed(w))
Writer    == ~crashed /\ (WriterTests \/ WriterProceeds)

Next ==
  /\ ~crashed
  /\ \/ AcceptRequest \/ LoopEnds \/ Main \/ LateSignal
     \/ \E w \in Workers : Worker(w) \/ WorkerHarmed(w)
     \/ Writer \/ WriterHarmed

Spec == Init /\ [][Next]_shutdownVars

-------------------------------------------------------------------------------
(* Properties.                                                             *)

\* Type invariant.
TypeOK ==
  /\ main \in 0..(Len(Teardown) + 1)
  /\ crashed \in BOOLEAN
  /\ accepted \in 0..MaxAccepted /\ tasks \in 0..accepted
  /\ worker \in [Workers -> DOMAIN After \cup {"idle", "stuck", "exited"}]
  /\ writer \in DOMAIN WriterUses \cup {"stuck", "exited"}

\* main gets past the thread pool when the workers have left, who leave after the
\* end of the loop and when nothing is queued, and past the StreamWriter when its
\* thread has left.  Inductive.
JoinedBefore ==
  /\ "threadPool" \in Dead => \A w \in Workers : worker[w] = "exited"
  /\ \A w \in Workers : worker[w] = "exited" => main # 0 /\ tasks = 0
  /\ "streamWriter" \in Dead => writer = "exited"
ShutdownInv == TypeOK /\ JoinedBefore

\* Late as it is, the joining comes in time for the objects whose functions the
\* threads run and for the loop they post answers to: a thread that is left finds
\* the thread pool, or the StreamWriter, and the loop alive, and what a request
\* finds destroyed is never more than the services declared after the pool.
OwnersOutlive ==
  /\ \A w \in Workers : worker[w] # "exited" =>
       {"threadPool", "mgmtServer", "apiServer", "streamWriter", "loop"} \cap Dead = {}
  /\ writer # "exited" => {"streamWriter", "loop"} \cap Dead = {}
  /\ Returned => tasks = 0

\* Once the loop has ended, main returns, with every accepted request taken to its
\* end, unless a thread has run into a destroyed member: the destructors, the
\* workers that drain the queue and the writer that polls do not wait for each
\* other.
ShutdownEnds ==
  main # 0 ~> \/ Returned
              \/ crashed \/ writer = "stuck" \/ \E w \in Workers : worker[w] = "stuck"
===============================================================================
