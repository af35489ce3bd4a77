------------------------------- MODULE MCParts --------------------------------
(***************************************************************************)
(* Parts on small constants.                                               *)
(***************************************************************************)
EXTENDS Parts

CONSTANTS t1, t2, t3, t4, x1, x2

MCThreads  == {t1, t2, t3, t4}
MCContexts == {x1, x2}
MCWorkers  == {t1, t2}
MCDelays   == {-1, 1, 3}
MCRequests == {8, 9}

\* Every text of up to three characters; and requests of two methods, with and
\* without header lines of which the last may repeat Content-Length, its values
\* good and bad, with a body of two characters, one more than most declare.
SP == " "
CRLF == <<"\r", "\n">>
Value == {<<"1">>, <<SP, "2">>, <<SP, SP, "0", "1">>, <<"1", "2">>, <<"-", "1">>,
          <<"x">>, <<>>}
Line == {<<"Content-Length", ":">> \o v \o CRLF : v \in Value}
          \cup {<<"x", "\r">> \o CRLF, <<"x", ":", ":">> \o CRLF}
Lines == {<<>>} \cup Line \cup {<<"Content-Length", ":", "1">> \o CRLF \o l : l \in Line}
MCTexts ==
  UNION {[1..n -> {SP, "\r", "\n", "x"}] : n \in 0..3}
    \cup {<<m, SP, "/", SP>> \o v \o l \o CRLF \o <<"x", "\n">> :
            m \in {"POST", "x"}, v \in {CRLF, <<SP>> \o CRLF}, l \in Lines}

-------------------------------------------------------------------------------
\* Of the parts that may start in several states, those that are not the part that
\* runs start in one.
MCInit ==
  /\ Init
  /\ part # "HttpParser" => text = <<>>
  /\ part # "TimerWheel" => clock = 0
  /\ part # "RedisPool"  => pool = <<x1, x2>>

\* The fairness of the parts that have some; at rest, a part has nothing to do but
\* for the StreamWriter's thread, which runs from the start.
FairSpec ==
  /\ MCInit /\ [][Next]_vars
  /\ WF_loggerVars(Logger!Backend) /\ WF_loggerVars(Logger!Destructor)
  /\ \A t \in Threads : WF_redisVars(Redis!Proceed(t))
  /\ WF_streamVars(part = "LogStream" /\ Stream!Writer)
  /\ WF_shutdownVars(Process!Main)
  /\ \A w \in Workers : WF_shutdownVars(Process!Worker(w))
  /\ WF_shutdownVars(part = "Shutdown" /\ Process!Writer)
===============================================================================
