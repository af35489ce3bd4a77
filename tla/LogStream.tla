------------------------------- MODULE LogStream ------------------------------
(***************************************************************************)
(* The call log: workers push entries to a Redis stream (log_consumer.cpp, *)
(* RedisClient::xadd), and the thread of StreamWriter reads them through a *)
(* consumer group and inserts them into MySQL (stream_writer.cpp).         *)
(*                                                                         *)
(* Entries are numbered in the order of the stream.  A command takes some  *)
(* context of RedisPool; one that got no reply is put back with its error, *)
(* and every later command on it fails: a context is good or broken for    *)
(* the life of the process.                                                *)
(*                                                                         *)
(* StreamWriter::stop() is left out: it is called when the pools that the  *)
(* thread uses are gone already.                                           *)
(***************************************************************************)
EXTENDS Naturals, Sequences, FiniteSets

CONSTANTS Contexts,     \* number of contexts in RedisPool
          BatchSize,    \* COUNT of XREADGROUP
          MaxLen,       \* MAXLEN of XADD
          None,         \* no group; no id, no fields in a message
          MaxPushes,    \* bound: calls of push()
          MaxFailures,  \* bound: failing commands, of Redis and of MySQL
          MaxRestarts   \* bound: restarts of the gateway

\* What is assumed of the constants.
Assumption == /\ Contexts \in Nat \ {0} /\ BatchSize \in Nat \ {0}
              /\ MaxLen \in Nat \ {0} /\ None \notin Nat
              /\ MaxPushes \in Nat /\ MaxFailures \in Nat
              /\ MaxRestarts \in Nat

VARIABLES
  (* Redis and MySQL *)
  stream,    \* entries in log_stream
  group,     \* last entry delivered to log_writers, None without the group
  pending,   \* delivered and not acknowledged
  stored,    \* entries in api_call_logs
  (* the process *)
  broken,    \* contexts in error
  pc,        \* where the writer's thread is
  messages,  \* what it has read
  (* history *)
  pushed,    \* entries so far
  given,     \* entries delivered to the group
  failures, restarts

redisVars  == <<stream, group, pending, given>>
writerVars == <<pc, messages>>
vars == <<redisVars, stored, broken, writerVars, pushed, failures, restarts>>

Init ==
  /\ stream = {} /\ group = None /\ pending = {} /\ given = {}
  /\ stored = {}
  /\ broken = 0
  /\ pc = "create" /\ messages = <<>>
  /\ pushed = 0 /\ failures = 0 /\ restarts = 0

-------------------------------------------------------------------------------
(* RedisClient::execute(): a command is answered; it gets a broken context  *)
(* and is not sent; or its reply does not come, and Redis has run it or not.*)

Replied  == broken < Contexts /\ UNCHANGED <<broken, failures>>
NotSent  == broken > 0 /\ UNCHANGED <<broken, failures>>
NoReply  == /\ broken < Contexts /\ failures < MaxFailures
            /\ broken' = broken + 1 /\ failures' = failures + 1

Command(done, notDone) == \/ Replied /\ done
                          \/ NotSent /\ notDone
                          \/ NoReply /\ (done \/ notDone)

\* XADD with MAXLEN ~: Redis drops old entries beyond the limit when it pleases.
Add(e) ==
  \E first \in 1..e :
    LET kept == {f \in stream \cup {e} : f >= first}
    IN  /\ first = 1 \/ Cardinality(kept) >= MaxLen
        /\ stream' = kept

\* push(), of any worker: its result is not looked at.
Push ==
  /\ pushed < MaxPushes
  /\ pushed' = pushed + 1
  /\ Command(Add(pushed + 1), UNCHANGED stream)
  /\ UNCHANGED <<group, pending, given, stored, writerVars, restarts>>

\* Wrong variant: the group starts at the end of the stream ("$").
Mut_CreateGroup ==
  /\ stream # {} /\ group = None
  /\ group' = pushed

\* XGROUP CREATE fails without the stream, and when the group exists.
CreateGroup ==
  /\ stream # {} /\ group = None
  /\ group' = 0

\* run() begins; whatever XGROUP CREATE says, it goes on.
Start ==
  /\ pc = "create"
  /\ \/ Command(CreateGroup, UNCHANGED group)
     \/ (stream = {} \/ group # None) /\ Replied /\ UNCHANGED group
  /\ pc' = "read"
  /\ UNCHANGED <<stream, pending, given, stored, messages, pushed, restarts>>

\* What ">" selects: the first COUNT entries that the group has not been given.
Batch ==
  LET new == {e \in stream : group # None /\ e > group}
  IN  {e \in new : Cardinality({f \in new : f < e}) < BatchSize}

MoveGroup ==
  IF Batch = {} THEN UNCHANGED group
  ELSE \E last \in Batch : (\A e \in Batch : e <= last) /\ group' = last

Deliver ==
  /\ MoveGroup
  /\ given' = given \cup Batch
  /\ pending' = pending \cup Batch

\* xreadgroup() expects the entries where the reply has the stream's name and the
\* list of entries.  It takes the list for an entry if it has two elements or more,
\* and finds no id in its first and none of the fields in its second.
Parse(batch) ==
  IF Cardinality(batch) >= 2 THEN << [id |-> None, entry |-> None] >> ELSE <<>>

\* XREADGROUP, an error of it included, and the test for no messages.
Read ==
  /\ pc = "read"
  /\ \/ Replied /\ Deliver /\ messages' = Parse(Batch)
     \/ NotSent /\ UNCHANGED <<group, pending, given>> /\ messages' = <<>>
     \/ NoReply /\ (Deliver \/ UNCHANGED <<group, pending, given>>) /\ messages' = <<>>
  /\ pc' = IF messages' = <<>> THEN "sleep" ELSE "insert"
  /\ UNCHANGED <<stream, stored, pushed, restarts>>

Wake ==
  /\ pc = "sleep"
  /\ pc' = "read"
  /\ UNCHANGED <<redisVars, stored, broken, messages, pushed, failures, restarts>>

\* MySQLPool::acquire() throws; run() catches it and forgets what it has read.
AcquireThrows ==
  /\ pc = "insert" /\ failures < MaxFailures
  /\ failures' = failures + 1
  /\ pc' = "sleep" /\ messages' = <<>>
  /\ UNCHANGED <<redisVars, stored, broken, pushed, restarts>>

\* INSERT may fail, and is refused for a message without fields; otherwise the
\* entries are in the table and their ids acknowledged, some of them in vain.
Insert ==
  LET ids == {messages[i].id : i \in DOMAIN messages}
      new == {messages[i].entry : i \in DOMAIN messages}
  IN  /\ pc = "insert"
      /\ \E ok \in BOOLEAN :
           IF ok /\ None \notin new
             THEN /\ stored' = stored \cup new
                  /\ \E acked \in SUBSET ids : pending' = pending \ acked
             ELSE UNCHANGED <<stored, pending>>
      /\ pc' = "read" /\ messages' = <<>>
      /\ UNCHANGED <<stream, group, given, broken, pushed, failures, restarts>>

\* The gateway ends, anywhere, and is started again with new contexts.
Restart ==
  /\ restarts < MaxRestarts
  /\ restarts' = restarts + 1
  /\ broken' = 0
  /\ pc' = "create" /\ messages' = <<>>
  /\ UNCHANGED <<redisVars, stored, pushed, failures>>

-------------------------------------------------------------------------------
Writer == Start \/ Read \/ Wake \/ AcquireThrows \/ Insert

Next == Push \/ Writer \/ Restart

Spec == Init /\ [][Next]_vars

\* The writer's thread runs; its commands end, Redis's after two seconds and
\* acquire() after three, and so do its pauses.
FairSpec == Spec /\ WF_vars(Writer)

-------------------------------------------------------------------------------
(* Properties.                                                             *)

\* Type invariant; an INSERT has something to insert.
TypeOK ==
  /\ stream \subseteq 1..pushed
  /\ group \in 0..pushed \cup {None}
  /\ pending \subseteq 1..pushed /\ given \subseteq 1..pushed
  /\ stored \subseteq 1..pushed
  /\ broken \in 0..Contexts
  /\ pc \in {"create", "read", "sleep", "insert"}
  /\ messages \in Seq([id : 1..pushed \cup {None}, entry : 1..pushed \cup {None}])
  /\ pc = "insert" <=> messages # <<>>
  /\ pushed \in 0..MaxPushes /\ failures \in 0..MaxFailures
  /\ restarts \in 0..MaxRestarts

\* The group's place in the stream passes no entry that it does not deliver.
NoneSkipped == \A e \in stream : group # None /\ e <= group => e \in given

\* What the parser makes of a reply, as read() keeps it: nothing, or one message
\* without id and fields.
Misread == messages \in {<<>>, << [id |-> None, entry |-> None] >>}

\* The inductive invariants of the reader, and of the stream with it.
IInv == TypeOK /\ Misread

StreamInv == IInv /\ NoneSkipped

\* With the group there and once contexts have stopped to break, the writer is
\* given every entry that Redis does not drop first.
GivenToWriter ==
  <>[](broken = 0) =>
    \A e \in 1..MaxPushes :
      (group # None /\ e \in stream) ~> (e \in given \/ e \notin stream)

\* "Redis Streams -> MySQL" (README.md:51): what the writer is given reaches the
\* table.  It does not: see Parse.
LogsReachMySQL ==
  \A e \in 1..MaxPushes : e \in given ~> e \in stored
===============================================================================
