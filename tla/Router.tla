--------------------------------- MODULE Router --------------------------------
(***************************************************************************)
(* The routing table (router.cpp) between the management commands that     *)
(* change it, on the loop's thread (mgmt_handler.cpp, gateway.cpp), and    *)
(* the pool's workers that look requests up in it.                         *)
(*                                                                         *)
(* match() returns a pointer into rules_ and unlocks; the request reads    *)
(* the rule through it twice, for authentication and for rate limiting.    *)
(* A reload in between replaces the vector: what is read then is undefined *)
(* behaviour, any value or the end of the process.                         *)
(*                                                                         *)
(* A row of api_routes is what its need_auth says; patterns are not        *)
(* prefixes of each other, so that a path has one route.                   *)
(***************************************************************************)
EXTENDS Naturals, Sequences

CONSTANTS Routes,       \* ids of rows
          Workers,
          NoRoute,
          MaxEdits,     \* bound: changes of the table after which SQL makes none
          MaxCommands,  \* bound: management commands
          MaxRequests   \* bound: API requests

ASSUME RouterAssumption == /\ NoRoute \notin Routes
                           /\ MaxEdits \in Nat /\ MaxCommands \in Nat
                           /\ MaxRequests \in Nat

Row   == {"absent", "open", "guarded"}
Table == [Routes -> Row]
Empty == [r \in Routes |-> "absent"]

VARIABLES
  alive,      \* the process runs
  apiRoutes,  \* the table api_routes in MySQL
  rules,      \* rules_
  loads,      \* how often rules_ has been replaced
  (* the loop's thread *)
  loopPc,     \* where it is in a management command
  command,    \* the command, a route for ROUTE_DELETE
  newRules,   \* the local vector of loadFromMySQL()
  commands,
  answer,     \* its answer to the last command
  (* the workers *)
  workerPc,
  route,      \* the rule match() has returned, by its id
  token,      \* the request has a valid token
  seen,       \* loads, when match() returned
  reply,      \* status of the last response
  requests,
  (* history *)
  past,       \* contents of api_routes, in order
  rulesAt,    \* the one rules_ was loaded from; 0 for none
  newAt,      \* the one newRules was read from
  due         \* the first of them the command's reload has to show; 0 for none

loopVars   == <<loopPc, command, newRules, commands, answer, newAt, due>>
workerVars == <<workerPc, route, token, seen, reply, requests>>
tableVars  == <<rules, loads, rulesAt>>
vars == <<alive, apiRoutes, past, tableVars, loopVars, workerVars>>

\* The constructor ignores whether its load succeeded.
Init ==
  /\ alive = TRUE
  /\ apiRoutes \in Table
  /\ past = <<apiRoutes>>
  /\ loads = 0
  /\ \/ rules = apiRoutes /\ rulesAt = 1
     \/ rules = Empty /\ rulesAt = 0
  /\ loopPc = "idle" /\ command = NoRoute /\ newRules = Empty /\ newAt = 0
  /\ commands = 0 /\ answer = "none" /\ due = 0
  /\ workerPc = [w \in Workers |-> "idle"]
  /\ route = [w \in Workers |-> NoRoute]
  /\ token = [w \in Workers |-> FALSE]
  /\ seen = [w \in Workers |-> 0]
  /\ reply = [w \in Workers |-> 0]
  /\ requests = 0

-------------------------------------------------------------------------------
(* MySQL.                                                                  *)

\* Routes are added and changed with SQL; ROUTE_ADD only reloads.
EditTable ==
  /\ Len(past) <= MaxEdits
  /\ \E r \in Routes, v \in Row :
       /\ v # apiRoutes[r]
       /\ apiRoutes' = [apiRoutes EXCEPT ![r] = v]
  /\ past' = Append(past, apiRoutes')
  /\ UNCHANGED <<alive, tableVars, loopVars, workerVars>>

-------------------------------------------------------------------------------
(* The loop's thread.                                                      *)

\* ROUTE_LIST and LOG_QUERY read from MySQL, and change nothing here.
Query ==
  /\ alive /\ loopPc = "idle" /\ commands < MaxCommands
  /\ commands' = commands + 1
  /\ command' = "query" /\ answer' = "none" /\ due' = 0
  /\ loopPc' = "query"
  /\ UNCHANGED <<alive, apiRoutes, past, tableVars, newRules, newAt, workerVars>>

RouteAdd ==
  /\ alive /\ loopPc = "idle" /\ commands < MaxCommands
  /\ commands' = commands + 1
  /\ command' = "add" /\ answer' = "none" /\ due' = Len(past)
  /\ loopPc' = "load"
  /\ UNCHANGED <<alive, apiRoutes, past, tableVars, newRules, newAt, workerVars>>

RouteDelete(r) ==
  /\ alive /\ loopPc = "idle" /\ commands < MaxCommands
  /\ commands' = commands + 1
  /\ command' = r /\ answer' = "none" /\ due' = 0
  /\ loopPc' = "delete"
  /\ UNCHANGED <<alive, apiRoutes, past, tableVars, newRules, newAt, workerVars>>

Answered(a) == loopPc' = "idle" /\ answer' = a

\* acquire() throws, and nothing between it and main() catches.
AcquireThrows ==
  /\ alive /\ loopPc \in {"query", "delete", "load"}
  /\ alive' = FALSE
  /\ UNCHANGED <<apiRoutes, past, tableVars, loopVars, workerVars>>

QueryDone ==
  /\ alive /\ loopPc = "query"
  /\ Answered("rows")
  /\ UNCHANGED <<alive, apiRoutes, past, tableVars, command, newRules, newAt,
                 commands, due, workerVars>>

RowDeleted ==
  /\ apiRoutes' = [apiRoutes EXCEPT ![command] = "absent"]
  /\ past' = Append(past, apiRoutes')

\* DELETE, of a row that may be gone already; then deleteRoute() reloads.
DeleteRow ==
  /\ alive /\ loopPc = "delete"
  /\ RowDeleted /\ due' = Len(past')
  /\ loopPc' = "load"
  /\ UNCHANGED <<alive, tableVars, command, newRules, newAt, commands, answer,
                 workerVars>>

\* The DELETE fails, or its reply is lost and it has been done.
DeleteFails ==
  /\ alive /\ loopPc = "delete"
  /\ RowDeleted \/ UNCHANGED <<apiRoutes, past>>
  /\ Answered("failed")
  /\ UNCHANGED <<alive, tableVars, command, newRules, newAt, commands, due,
                 workerVars>>

\* loadFromMySQL(): the SELECT.
Select ==
  /\ alive /\ loopPc = "load"
  /\ newRules' = apiRoutes /\ newAt' = Len(past)
  /\ loopPc' = "swap"
  /\ UNCHANGED <<alive, apiRoutes, past, tableVars, command, commands, answer, due,
                 workerVars>>

\* ROUTE_ADD answers what reload() returns; ROUTE_DELETE answers ok all the same,
\* and then nothing is due.
ReloadFailed == /\ Answered(IF command = "add" THEN "failed" ELSE "ok")
                /\ due' = 0

\* Wrong variant: a failed SELECT leaves an empty table.
Mut_SelectFails ==
  /\ alive /\ loopPc = "load"
  /\ rules' = Empty /\ loads' = loads + 1
  /\ ReloadFailed
  /\ UNCHANGED <<alive, apiRoutes, past, rulesAt, command, newRules, newAt, commands,
                 workerVars>>

SelectFails ==
  /\ alive /\ loopPc = "load"
  /\ ReloadFailed
  /\ UNCHANGED <<alive, apiRoutes, past, tableVars, command, newRules, newAt,
                 commands, workerVars>>

\* Under mutex_ the new vector takes the place of the old one, which is freed.
Swap ==
  /\ alive /\ loopPc = "swap"
  /\ rules' = newRules /\ rulesAt' = newAt /\ loads' = loads + 1
  /\ Answered("ok")
  /\ UNCHANGED <<alive, apiRoutes, past, command, newRules, newAt, commands, due,
                 workerVars>>

\* A step of a command that has begun.
Commanded == \/ AcquireThrows \/ QueryDone \/ DeleteRow \/ DeleteFails
             \/ Select \/ SelectFails \/ Swap

-------------------------------------------------------------------------------
(* The workers: processApiRequest().                                       *)

Reply(w, code) ==
  /\ workerPc' = [workerPc EXCEPT ![w] = "idle"]
  /\ reply' = [reply EXCEPT ![w] = code]

\* A request for the path of r, with a valid token or not: match() finds its rule.
Match(w, r) ==
  /\ alive /\ workerPc[w] = "idle" /\ requests < MaxRequests
  /\ rules[r] # "absent"
  /\ requests' = requests + 1
  /\ workerPc' = [workerPc EXCEPT ![w] = "auth"]
  /\ route' = [route EXCEPT ![w] = r]
  /\ \E b \in BOOLEAN : token' = [token EXCEPT ![w] = b]
  /\ seen' = [seen EXCEPT ![w] = loads]
  /\ UNCHANGED <<alive, apiRoutes, past, tableVars, loopVars, reply>>

\* There is none: 404, and the request is over.
NoMatch(w, r) ==
  /\ alive /\ workerPc[w] = "idle" /\ requests < MaxRequests
  /\ rules[r] = "absent"
  /\ requests' = requests + 1
  /\ Reply(w, 404)
  /\ UNCHANGED <<alive, apiRoutes, past, tableVars, loopVars, route, token, seen>>

\* What a worker may read in needAuth: the rule, or anything once it is freed.
NeedAuth(w) == IF seen[w] = loads THEN {rules[route[w]] = "guarded"} ELSE BOOLEAN

\* Wrong variant: any token passes.
Mut_Authorized(w) ==
  /\ alive /\ workerPc[w] = "auth"
  /\ workerPc' = [workerPc EXCEPT ![w] = "limit"]
  /\ UNCHANGED <<alive, apiRoutes, past, tableVars, loopVars, route, token, seen,
                 reply, requests>>

Authorized(w) ==
  /\ alive /\ workerPc[w] = "auth"
  /\ FALSE \in NeedAuth(w) \/ token[w]
  /\ workerPc' = [workerPc EXCEPT ![w] = "limit"]
  /\ UNCHANGED <<alive, apiRoutes, past, tableVars, loopVars, route, token, seen,
                 reply, requests>>

\* validate() is false without a valid token, and with one when the GET fails.
Unauthorized(w) ==
  /\ alive /\ workerPc[w] = "auth"
  /\ TRUE \in NeedAuth(w)
  /\ Reply(w, 401)
  /\ UNCHANGED <<alive, apiRoutes, past, tableVars, loopVars, route, token, seen,
                 requests>>

\* Rate limiting, with the rule's limit and pattern, or with whatever is there.
Served(w) ==
  /\ alive /\ workerPc[w] = "limit"
  /\ \E code \in {200, 429} : Reply(w, code)
  /\ UNCHANGED <<alive, apiRoutes, past, tableVars, loopVars, route, token, seen,
                 requests>>

\* A read through the pointer to a freed rule ends the process.
ReadsFreed(w) ==
  /\ alive /\ workerPc[w] \in {"auth", "limit"} /\ seen[w] # loads
  /\ alive' = FALSE
  /\ UNCHANGED <<apiRoutes, past, tableVars, loopVars, workerVars>>

Worker(w) ==
  \/ \E r \in Routes : Match(w, r) \/ NoMatch(w, r)
  \/ Authorized(w) \/ Unauthorized(w) \/ Served(w) \/ ReadsFreed(w)

-------------------------------------------------------------------------------
Next ==
  \/ EditTable
  \/ Query \/ RouteAdd \/ \E r \in Routes : RouteDelete(r)
  \/ Commanded
  \/ \E w \in Workers : Worker(w)

Spec == Init /\ [][Next]_vars

-------------------------------------------------------------------------------
(* Properties.                                                             *)

\* Type invariant; a request that goes on has a rule.
TypeOK ==
  /\ alive \in BOOLEAN
  /\ apiRoutes \in Table /\ rules \in Table /\ newRules \in Table
  /\ past \in Seq(Table) /\ loads \in Nat
  /\ rulesAt \in 0..Len(past) /\ newAt \in 0..Len(past) /\ due \in 0..Len(past)
  /\ loopPc \in {"idle", "query", "load", "delete", "swap"}
  /\ command \in Routes \cup {NoRoute, "add", "query"}
  /\ commands \in 0..MaxCommands
  /\ answer \in {"none", "rows", "ok", "failed"}
  /\ workerPc \in [Workers -> {"idle", "auth", "limit"}]
  /\ route \in [Workers -> Routes \cup {NoRoute}]
  /\ \A w \in Workers : workerPc[w] # "idle" => route[w] # NoRoute
  /\ token \in [Workers -> BOOLEAN]
  /\ seen \in [Workers -> Nat]
  /\ reply \in [Workers -> {0, 200, 401, 404, 429}]
  /\ requests \in 0..MaxRequests

\* rules_ is what api_routes was at one moment: no failure leaves a part of it, or
\* nothing where something was loaded before.
TableIsSnapshot ==
  rules = IF rulesAt = 0 THEN Empty ELSE past[rulesAt]

\* Once ROUTE_ADD or ROUTE_DELETE has answered ok, and unless the reload after the
\* DELETE has failed, requests are matched with a table that has everything SQL did
\* before the command and the row's deletion.
OkIsServed ==
  loopPc = "idle" /\ answer = "ok" => rulesAt >= due

\* The history ends with what api_routes is now.
HistoryIsNow == Len(past) > 0 /\ apiRoutes = past[Len(past)]

\* What is about to take the place of rules_ has been read, all of it at one moment
\* that the command may show.
NewIsSnapshot ==
  loopPc = "swap" => /\ newAt \in 1..Len(past) /\ newAt >= due
                     /\ newRules = past[newAt]

\* The inductive invariant of the table.
LoadInv == TypeOK /\ HistoryIsNow /\ NewIsSnapshot /\ TableIsSnapshot /\ OkIsServed

\* A request without a valid token is served only on an open route, as long as no
\* reload frees the rule while it is in use (router.cpp:54).
NoAnonymousService ==
  [][\A w \in Workers :
       workerPc[w] = "limit" /\ workerPc'[w] = "idle" /\ reply'[w] = 200
         => token[w] \/ seen[w] # loads \/ rules[route[w]] = "open"]_vars
===============================================================================
