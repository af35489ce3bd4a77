-------------------------------- MODULE Parts ---------------------------------
(***************************************************************************)
(* Seven components that no other module composes: the header-only classes *)
(* HttpParser, AsyncLogger, TimerWheel and MemoryPool, the pool of Redis   *)
(* contexts, the call log, and the end of the process.  Every behaviour is *)
(* one of one of them, part, while the variables of the others stay as     *)
(* they are.                                                               *)
(***************************************************************************)
EXTENDS Integers, Sequences, FiniteSets

CONSTANTS Texts, MaxInt,
          Threshold, MaxMessages,
          WheelSize, TickMs, Delays, MaxTime, MaxTimers,
          MinBlockSize, MaxBlockSize, BlockCount, MaxChunks, MaxGrown, Requests, Null, Junk,
          Threads, Contexts, NoContext, MaxExecutes,
          BatchSize, MaxLen, None, MaxPushes, MaxFailures, MaxRestarts,
          Workers, MaxAccepted

VARIABLES part,
          text, given, state, buffer, req, outcome,
          front, back, written, logged, keepOn, backend, notified, owner,
          clock, currentIndex, wheel, timers, nextId, called, threw,
          freeList, word, chunks, used, free,
          pool, pc, ctx, failed, executes,
          stream, group, pending, stored, broken, writerPc, messages,
          pushed, delivered, failures, restarts,
          main, crashed, accepted, tasks, worker, writer

Parser == INSTANCE HttpParser
Logger == INSTANCE AsyncLogger
Timer  == INSTANCE TimerWheel
Memory == INSTANCE MemoryPool
Redis  == INSTANCE RedisPool
Stream == INSTANCE LogStream WITH Contexts <- Cardinality(Contexts),
                                  pc <- writerPc, given <- delivered
Process == INSTANCE Shutdown

\* Each component's conditions on its constants.
ASSUME PartsAssumption ==
  /\ Parser!Assumption
  /\ Logger!Assumption
  /\ Timer!Assumption
  /\ Memory!Assumption
  /\ Redis!Assumption
  /\ Stream!Assumption
  /\ Process!Assumption

parserVars   == <<text, given, state, buffer, req, outcome>>
loggerVars   == <<front, back, written, logged, keepOn, backend, notified, owner>>
wheelVars    == <<clock, currentIndex, wheel, timers, nextId, called, threw>>
blockVars    == <<freeList, word, chunks, used, free>>
redisVars    == <<pool, pc, ctx, failed, executes>>
streamVars   == <<stream, group, pending, delivered, stored, broken, writerPc, messages,
                  pushed, failures, restarts>>
shutdownVars == <<main, crashed, accepted, tasks, worker, writer>>
vars == <<part, parserVars, loggerVars, wheelVars, blockVars, redisVars, streamVars,
          shutdownVars>>

-------------------------------------------------------------------------------
Parts == {"HttpParser", "AsyncLogger", "TimerWheel", "MemoryPool", "RedisPool",
          "LogStream", "Shutdown"}

Init ==
  /\ part \in Parts
  /\ Parser!Init /\ Logger!Init /\ Timer!Init /\ Memory!Init /\ Redis!Init
  /\ Stream!Init /\ Process!Init

Next ==
  /\ UNCHANGED part
  /\ \/ /\ part = "HttpParser" /\ Parser!Next
        /\ UNCHANGED <<loggerVars, wheelVars, blockVars, redisVars, streamVars,
                       shutdownVars>>
     \/ /\ part = "AsyncLogger" /\ Logger!Next
        /\ UNCHANGED <<parserVars, wheelVars, blockVars, redisVars, streamVars,
                       shutdownVars>>
     \/ /\ part = "TimerWheel" /\ Timer!Next
        /\ UNCHANGED <<parserVars, loggerVars, blockVars, redisVars, streamVars,
                       shutdownVars>>
     \/ /\ part = "MemoryPool" /\ Memory!Next
        /\ UNCHANGED <<parserVars, loggerVars, wheelVars, redisVars, streamVars,
                       shutdownVars>>
     \/ /\ part = "RedisPool" /\ Redis!Next
        /\ UNCHANGED <<parserVars, loggerVars, wheelVars, blockVars, streamVars,
                       shutdownVars>>
     \/ /\ part = "LogStream" /\ Stream!Next
        /\ UNCHANGED <<parserVars, loggerVars, wheelVars, blockVars, redisVars,
                       shutdownVars>>
     \/ /\ part = "Shutdown" /\ Process!Next
        /\ UNCHANGED <<parserVars, loggerVars, wheelVars, blockVars, redisVars,
                       streamVars>>

Spec == Init /\ [][Next]_vars

-------------------------------------------------------------------------------
(* The properties, each stated in the module of its part.                  *)

\* The inductive invariants of all parts, their type invariants among them.
PartsInv == /\ Parser!ParserInv /\ Logger!LogInv /\ Timer!WheelInv /\ Memory!BlockInv
            /\ Redis!TypeOK /\ Stream!IInv /\ Process!ShutdownInv

\* http_parser.hpp: parse() answers what the grammar says of all it was given.
FragmentsDoNotMatter == Parser!FragmentsDoNotMatter

\* async_logger.hpp: the file holds the messages in the order of log().
FileIsTheLog == Logger!FileIsTheLog

\* async_logger.hpp: messages reach the file, and the destructor returns.
LoggedIsWritten == Logger!LoggedIsWritten

\* timer.hpp: the slots and the map hold the same timers.
WheelHoldsTimers == Timer!WheelHoldsTimers

\* timer.hpp: tick() calls what is due, once, and leaves nothing that is due.
CalledWhenDue == Timer!CalledWhenDue

\* memory_pool.hpp: free blocks are listed once, and blocks are large enough.
BlocksAreSound == Memory!BlocksAreSound

\* redis_client.cpp: no thread sleeps beside a free context.
NoContextIdles == Redis!NoContextIdles

\* redis_client.cpp: every execute() returns.
ExecuteEnds == Redis!ExecuteEnds

\* stream_writer.cpp: the types, what the parser makes of a reply, and a delivery
\* without gaps.
StreamInv == Stream!StreamInv

\* stream_writer.cpp: the writer is given what Redis keeps.
GivenToWriter == Stream!GivenToWriter

\* main_gateway.cpp, gateway.h: threads end before what they stand on does.
OwnersOutlive == Process!OwnersOutlive

\* main_gateway.cpp: main returns.
ShutdownEnds == Process!ShutdownEnds
===============================================================================
