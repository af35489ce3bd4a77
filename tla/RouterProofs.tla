----------------------------- MODULE RouterProofs -----------------------------
(***************************************************************************)
(* Proofs about the module Router.                                         *)
(***************************************************************************)
EXTENDS Router, SequenceTheorems, TLAPS

\* A request that has passed authentication had a token, or an open route, or its
\* rule has been freed.
Authenticated ==
  \A w \in Workers :
    workerPc[w] = "limit" => \/ token[w]
                             \/ seen[w] # loads
                             \/ rules[route[w]] = "open"

\* The rule of a request is in the table, or has been freed: loads counts the swaps.
RuleIsThere ==
  \A w \in Workers : /\ seen[w] <= loads
                     /\ workerPc[w] # "idle" /\ seen[w] = loads
                          => rules[route[w]] # "absent"

Loop == Query \/ RouteAdd \/ (\E r \in Routes : RouteDelete(r)) \/ Commanded

-------------------------------------------------------------------------------
(* Lemmas.                                                                 *)

\* The history after a change of the table: a moment more, the others as before.
LEMMA Appended ==
  ASSUME past \in Seq(Table), apiRoutes' \in Table, past' = Append(past, apiRoutes')
  PROVE  /\ past' \in Seq(Table) /\ Len(past) \in Nat /\ Len(past') = Len(past) + 1
         /\ \A i \in 1..Len(past) : past'[i] = past[i]
         /\ past'[Len(past')] = apiRoutes'
BY AppendProperties, LenProperties

LEMMA EmptyIsTable == Empty \in Table
BY DEF Empty, Table, Row

\* A row's deletion leaves a table.
LEMMA DeletedIsTable ==
  ASSUME apiRoutes \in Table, RowDeleted
  PROVE  apiRoutes' \in Table /\ past' = Append(past, apiRoutes')
BY DEF RowDeleted, Table, Row

LEMMA InitLoad == Init => LoadInv
<1> SUFFICES ASSUME Init
             PROVE  LoadInv
  OBVIOUS
<1>1. apiRoutes \in Table /\ past = <<apiRoutes>>
  BY DEF Init
<1>2. past \in Seq(Table) /\ Len(past) = 1 /\ past[1] = apiRoutes
  BY <1>1
<1>3. newRules \in Table /\ rules \in Table
  BY <1>1, EmptyIsTable DEF Init
<1>4. token \in [Workers -> BOOLEAN]
  BY DEF Init
<1>5. TypeOK
  BY <1>1, <1>2, <1>3, <1>4, RouterAssumption DEF Init, TypeOK
<1>6. HistoryIsNow /\ TableIsSnapshot
  BY <1>2 DEF Init, HistoryIsNow, TableIsSnapshot
<1>7. NewIsSnapshot /\ OkIsServed
  BY DEF Init, NewIsSnapshot, OkIsServed
<1>8. QED
  BY <1>5, <1>6, <1>7 DEF LoadInv

-------------------------------------------------------------------------------
(* The loop and SQL.                                                       *)

\* SQL adds a moment to the history, and nothing else.
LEMMA EditStep ==
  ASSUME LoadInv, EditTable
  PROVE  LoadInv'
<1> USE DEF LoadInv
<1>1. /\ UNCHANGED <<alive, tableVars, loopVars, workerVars>>
      /\ past' = Append(past, apiRoutes')
  BY DEF EditTable
<1>2. apiRoutes' \in Table
  BY DEF EditTable, TypeOK, Table
<1>3. /\ past' \in Seq(Table) /\ Len(past) \in Nat /\ Len(past') = Len(past) + 1
      /\ \A i \in 1..Len(past) : past'[i] = past[i]
      /\ past'[Len(past')] = apiRoutes'
  BY <1>1, <1>2, Appended DEF TypeOK
<1>4. TypeOK'
  BY <1>1, <1>2, <1>3 DEF TypeOK, tableVars, loopVars, workerVars
<1>5. HistoryIsNow'
  BY <1>3 DEF HistoryIsNow
<1>6. NewIsSnapshot'
  BY <1>1, <1>3 DEF NewIsSnapshot, loopVars
<1>7. TableIsSnapshot'
  BY <1>1, <1>3 DEF TableIsSnapshot, tableVars, TypeOK, Empty
<1>8. OkIsServed'
  BY <1>1 DEF OkIsServed, tableVars, loopVars
<1>9. QED
  BY <1>4, <1>5, <1>6, <1>7, <1>8

\* DELETE adds one, which the reload then due has to show.
LEMMA DeleteRowStep ==
  ASSUME LoadInv, DeleteRow
  PROVE  LoadInv'
<1> USE DEF LoadInv
<1>1. /\ UNCHANGED <<alive, tableVars, command, newRules, newAt, commands, answer,
                     workerVars>>
      /\ loopPc' = "load" /\ due' = Len(past')
      /\ apiRoutes' \in Table /\ past' = Append(past, apiRoutes')
  BY DeletedIsTable DEF DeleteRow, TypeOK
<1>2. /\ past' \in Seq(Table) /\ Len(past) \in Nat /\ Len(past') = Len(past) + 1
      /\ \A i \in 1..Len(past) : past'[i] = past[i]
      /\ past'[Len(past')] = apiRoutes'
  BY <1>1, Appended DEF TypeOK
<1>3. TypeOK'
  BY <1>1, <1>2 DEF TypeOK, tableVars, workerVars
<1>4. HistoryIsNow'
  BY <1>2 DEF HistoryIsNow
<1>5. TableIsSnapshot'
  BY <1>1, <1>2 DEF TableIsSnapshot, tableVars, TypeOK, Empty
<1>6. NewIsSnapshot' /\ OkIsServed'
  BY <1>1 DEF NewIsSnapshot, OkIsServed
<1>7. QED
  BY <1>3, <1>4, <1>5, <1>6

\* A DELETE whose reply is lost adds one as well; the command is over.
LEMMA DeleteFailsStep ==
  ASSUME LoadInv, DeleteFails
  PROVE  LoadInv'
<1> USE DEF LoadInv
<1>1. /\ UNCHANGED <<alive, tableVars, command, newRules, newAt, commands, due,
                     workerVars>>
      /\ loopPc' = "idle" /\ answer' = "failed"
  BY DEF DeleteFails, Answered
<1>2. NewIsSnapshot' /\ OkIsServed'
  BY <1>1 DEF NewIsSnapshot, OkIsServed
<1>3. CASE UNCHANGED <<apiRoutes, past>>
  <2>1. TypeOK'
    BY <1>1, <1>3 DEF TypeOK, tableVars, workerVars
  <2>2. HistoryIsNow' /\ TableIsSnapshot'
    BY <1>1, <1>3 DEF HistoryIsNow, TableIsSnapshot, tableVars, Empty
  <2>3. QED
    BY <1>2, <2>1, <2>2
<1>4. CASE RowDeleted
  <2>1. apiRoutes' \in Table /\ past' = Append(past, apiRoutes')
    BY <1>4, DeletedIsTable DEF TypeOK
  <2>2. /\ past' \in Seq(Table) /\ Len(past) \in Nat /\ Len(past') = Len(past) + 1
        /\ \A i \in 1..Len(past) : past'[i] = past[i]
        /\ past'[Len(past')] = apiRoutes'
    BY <2>1, Appended DEF TypeOK
  <2>3. TypeOK'
    BY <1>1, <2>1, <2>2 DEF TypeOK, tableVars, workerVars
  <2>4. HistoryIsNow'
    BY <2>2 DEF HistoryIsNow
  <2>5. TableIsSnapshot'
    BY <1>1, <2>2 DEF TableIsSnapshot, tableVars, TypeOK, Empty
  <2>6. QED
    BY <1>2, <2>3, <2>4, <2>5
<1>5. QED
  BY <1>3, <1>4 DEF DeleteFails

\* The other steps of a command leave the history alone.
LEMMA LoopStep ==
  ASSUME LoadInv, Loop
  PROVE  LoadInv'
<1> USE DEF LoadInv
<1>1. Len(past) \in Nat /\ past \in Seq(Table)
  BY DEF TypeOK
<1>2. CASE Query
  <2>1. TypeOK'
    BY <1>1, <1>2, RouterAssumption DEF Query, TypeOK, tableVars, workerVars
  <2>2. HistoryIsNow' /\ TableIsSnapshot'
    BY <1>2 DEF Query, HistoryIsNow, TableIsSnapshot, tableVars, Empty
  <2>3. NewIsSnapshot' /\ OkIsServed'
    BY <1>2 DEF Query, NewIsSnapshot, OkIsServed
  <2>4. QED
    BY <2>1, <2>2, <2>3
<1>3. CASE RouteAdd
  <2>1. TypeOK'
    BY <1>1, <1>3, RouterAssumption DEF RouteAdd, TypeOK, tableVars, workerVars
  <2>2. HistoryIsNow' /\ TableIsSnapshot'
    BY <1>3 DEF RouteAdd, HistoryIsNow, TableIsSnapshot, tableVars, Empty
  <2>3. NewIsSnapshot' /\ OkIsServed'
    BY <1>3 DEF RouteAdd, NewIsSnapshot, OkIsServed
  <2>4. QED
    BY <2>1, <2>2, <2>3
<1>4. CASE \E r \in Routes : RouteDelete(r)
  <2>1. TypeOK'
    BY <1>1, <1>4, RouterAssumption DEF RouteDelete, TypeOK, tableVars, workerVars
  <2>2. HistoryIsNow' /\ TableIsSnapshot'
    BY <1>4 DEF RouteDelete, HistoryIsNow, TableIsSnapshot, tableVars, Empty
  <2>3. NewIsSnapshot' /\ OkIsServed'
    BY <1>4 DEF RouteDelete, NewIsSnapshot, OkIsServed
  <2>4. QED
    BY <2>1, <2>2, <2>3
<1>5. CASE AcquireThrows
  <2>1. alive' = FALSE /\ UNCHANGED <<apiRoutes, past, tableVars, loopVars, workerVars>>
    BY <1>5 DEF AcquireThrows
  <2>2. TypeOK'
    <3>1. UNCHANGED <<apiRoutes, past, rules, loads, rulesAt, loopPc, command, newRules,
                      commands, answer, newAt, due>>
      BY <2>1 DEF tableVars, loopVars
    <3>2. UNCHANGED <<workerPc, route, token, seen, reply, requests>>
      BY <2>1 DEF workerVars
    <3>3. alive' \in BOOLEAN
      BY <2>1
    <3>4. QED
      BY <3>1, <3>2, <3>3 DEF TypeOK
  <2>3. HistoryIsNow' /\ TableIsSnapshot' /\ NewIsSnapshot' /\ OkIsServed'
    BY <2>1 DEF HistoryIsNow, TableIsSnapshot, NewIsSnapshot, OkIsServed, tableVars,
                loopVars, Empty
  <2>4. QED
    BY <2>2, <2>3
<1>6. CASE QueryDone
  <2>1. TypeOK'
    BY <1>6 DEF QueryDone, Answered, TypeOK, tableVars, workerVars
  <2>2. HistoryIsNow' /\ TableIsSnapshot'
    BY <1>6 DEF QueryDone, HistoryIsNow, TableIsSnapshot, tableVars, Empty
  <2>3. NewIsSnapshot' /\ OkIsServed'
    BY <1>6 DEF QueryDone, Answered, NewIsSnapshot, OkIsServed
  <2>4. QED
    BY <2>1, <2>2, <2>3
<1>7. CASE Select
  <2>1. TypeOK'
    BY <1>1, <1>7 DEF Select, TypeOK, tableVars, workerVars
  <2>2. HistoryIsNow' /\ TableIsSnapshot' /\ OkIsServed'
    BY <1>7 DEF Select, HistoryIsNow, TableIsSnapshot, OkIsServed, tableVars, Empty
  <2>3. NewIsSnapshot'
    BY <1>1, <1>7 DEF Select, NewIsSnapshot, HistoryIsNow, TypeOK
  <2>4. QED
    BY <2>1, <2>2, <2>3
<1>8. CASE SelectFails
  <2>1. TypeOK'
    BY <1>1, <1>8 DEF SelectFails, ReloadFailed, Answered, TypeOK, tableVars, workerVars
  <2>2. HistoryIsNow' /\ TableIsSnapshot'
    BY <1>8 DEF SelectFails, HistoryIsNow, TableIsSnapshot, tableVars, Empty
  <2>3. NewIsSnapshot'
    BY <1>8 DEF SelectFails, ReloadFailed, Answered, NewIsSnapshot
  <2>4. due' = 0 /\ rulesAt' = rulesAt /\ rulesAt \in Nat
    BY <1>1, <1>8 DEF SelectFails, ReloadFailed, tableVars, TypeOK
  <2>5. OkIsServed'
    BY <2>4 DEF OkIsServed
  <2>6. QED
    BY <2>1, <2>2, <2>3, <2>5
<1>9. CASE Swap
  <2>1. newAt \in 1..Len(past) /\ newAt >= due /\ newRules = past[newAt]
    BY <1>9 DEF Swap, NewIsSnapshot
  <2>2. TypeOK'
    BY <1>1, <1>9 DEF Swap, Answered, TypeOK, workerVars
  <2>3. HistoryIsNow'
    BY <1>9 DEF Swap, HistoryIsNow
  <2>4. TableIsSnapshot'
    BY <1>9, <2>1 DEF Swap, TableIsSnapshot
  <2>5. NewIsSnapshot' /\ OkIsServed'
    BY <1>9, <2>1 DEF Swap, Answered, NewIsSnapshot, OkIsServed
  <2>6. QED
    BY <2>2, <2>3, <2>4, <2>5
<1>10. QED
  BY <1>2, <1>3, <1>4, <1>5, <1>6, <1>7, <1>8, <1>9, DeleteRowStep, DeleteFailsStep
     DEF Loop, Commanded

-------------------------------------------------------------------------------
(* The workers.                                                            *)

\* Requests read the table and change nothing in it.
LEMMA WorkerKeepsTable ==
  ASSUME NEW w \in Workers, Worker(w)
  PROVE  UNCHANGED <<apiRoutes, past, tableVars, loopVars>>
BY DEF Worker, Match, NoMatch, Authorized, Unauthorized, Served, ReadsFreed

\* What TypeOK says of a request, but for its token.
RequestTyped ==
  /\ workerPc \in [Workers -> {"idle", "auth", "limit"}]
  /\ route \in [Workers -> Routes \cup {NoRoute}]
  /\ \A w \in Workers : workerPc[w] # "idle" => route[w] # NoRoute
  /\ seen \in [Workers -> Nat]
  /\ reply \in [Workers -> {0, 200, 401, 404, 429}]
  /\ requests \in 0..MaxRequests

\* A worker's step is about its own request, whose rule is never freed later than
\* loads says.
StepOf(w) ==
  /\ RequestTyped'
  /\ \A v \in Workers \ {w} : /\ workerPc'[v] = workerPc[v] /\ seen'[v] = seen[v]
                               /\ route'[v] = route[v]
  /\ seen'[w] = seen[w] \/ seen'[w] = loads
  /\ workerPc'[w] = "limit" => Authorized(w) \/ ReadsFreed(w)

LEMMA RequestOf ==
  ASSUME TypeOK, NEW w \in Workers, Worker(w)
  PROVE  StepOf(w)
<1>1. RequestTyped /\ loads \in Nat
  BY DEF TypeOK, RequestTyped
<1> USE DEF RequestTyped, StepOf
<1>2. ASSUME NEW r \in Routes, Match(w, r)
      PROVE  StepOf(w)
  <2>1. requests' \in 0..MaxRequests
    BY <1>1, <1>2, RouterAssumption DEF Match
  <2>2. r # NoRoute
    BY RouterAssumption
  <2>3. /\ workerPc' = [workerPc EXCEPT ![w] = "auth"] /\ route' = [route EXCEPT ![w] = r]
        /\ seen' = [seen EXCEPT ![w] = loads] /\ reply' = reply
    BY <1>2 DEF Match
  <2>4. QED
    BY <1>1, <2>1, <2>2, <2>3
<1>3. ASSUME NEW r \in Routes, NoMatch(w, r)
      PROVE  StepOf(w)
  <2>1. requests' \in 0..MaxRequests
    BY <1>1, <1>3, RouterAssumption DEF NoMatch
  <2>2. /\ workerPc' = [workerPc EXCEPT ![w] = "idle"]
        /\ reply' = [reply EXCEPT ![w] = 404] /\ UNCHANGED <<route, seen>>
    BY <1>3 DEF NoMatch, Reply
  <2>3. QED
    BY <1>1, <2>1, <2>2
<1>4. CASE Authorized(w)
  <2>1. /\ workerPc' = [workerPc EXCEPT ![w] = "limit"] /\ workerPc[w] = "auth"
        /\ UNCHANGED <<route, seen, reply, requests>>
    BY <1>4 DEF Authorized
  <2>2. QED
    BY <1>1, <1>4, <2>1
<1>5. CASE Unauthorized(w) \/ Served(w)
  <2>1. CASE Unauthorized(w)
    <3>1. /\ workerPc' = [workerPc EXCEPT ![w] = "idle"]
          /\ reply' = [reply EXCEPT ![w] = 401]
          /\ UNCHANGED <<route, seen, requests>>
      BY <2>1 DEF Unauthorized, Reply
    <3>2. QED
      BY <1>1, <3>1
  <2>2. CASE Served(w)
    <3>1. PICK code \in {200, 429} : Reply(w, code)
      BY <2>2 DEF Served
    <3>2. /\ workerPc' = [workerPc EXCEPT ![w] = "idle"]
          /\ reply' = [reply EXCEPT ![w] = code]
      BY <3>1 DEF Reply
    <3>3. UNCHANGED <<route, seen, requests>>
      BY <2>2 DEF Served
    <3>4. QED
      BY <1>1, <3>2, <3>3
  <2>3. QED
    BY <1>5, <2>1, <2>2
<1>6. CASE ReadsFreed(w)
  <2>1. UNCHANGED <<workerPc, route, seen, reply, requests>>
    BY <1>6 DEF ReadsFreed, workerVars
  <2>2. QED
    BY <1>1, <1>6, <2>1
<1>7. QED
  BY <1>2, <1>3, <1>4, <1>5, <1>6 DEF Worker

LEMMA TokenOf ==
  ASSUME token \in [Workers -> BOOLEAN], NEW w \in Workers, Worker(w)
  PROVE  /\ token' \in [Workers -> BOOLEAN]
         /\ \A v \in Workers \ {w} : token'[v] = token[v]
<1>1. ASSUME NEW r \in Routes, Match(w, r)
      PROVE  \E b \in BOOLEAN : token' = [token EXCEPT ![w] = b]
  BY <1>1, Zenon DEF Match
<1>2. token' = token \/ \E b \in BOOLEAN : token' = [token EXCEPT ![w] = b]
  BY <1>1, Zenon DEF Worker, NoMatch, Authorized, Unauthorized, Served, ReadsFreed,
         workerVars
<1>3. ASSUME NEW b \in BOOLEAN, token' = [token EXCEPT ![w] = b]
      PROVE  /\ token' \in [Workers -> BOOLEAN]
             /\ \A v \in Workers \ {w} : token'[v] = token[v]
  BY <1>3, Zenon
<1>4. QED
  BY <1>2, <1>3, Zenon

LEMMA WorkerTyped ==
  ASSUME TypeOK, NEW w \in Workers, Worker(w)
  PROVE  TypeOK'
<1>1. UNCHANGED <<apiRoutes, past, tableVars, loopVars>>
  BY WorkerKeepsTable
<1>2. /\ apiRoutes' \in Table /\ rules' \in Table /\ newRules' \in Table
      /\ past' \in Seq(Table) /\ loads' \in Nat
      /\ rulesAt' \in 0..Len(past') /\ newAt' \in 0..Len(past') /\ due' \in 0..Len(past')
      /\ loopPc' \in {"idle", "query", "load", "delete", "swap"}
      /\ command' \in Routes \cup {NoRoute, "add", "query"}
      /\ commands' \in 0..MaxCommands
      /\ answer' \in {"none", "rows", "ok", "failed"}
  BY <1>1 DEF TypeOK, tableVars, loopVars
<1>3. alive' \in BOOLEAN
  <2>1. alive' = alive \/ alive' = FALSE
    BY DEF Worker, Match, NoMatch, Authorized, Unauthorized, Served, ReadsFreed
  <2>2. QED
    BY <2>1 DEF TypeOK
<1>4. /\ token' \in [Workers -> BOOLEAN]
      /\ \A v \in Workers \ {w} : token'[v] = token[v]
  BY TokenOf DEF TypeOK
<1>5. RequestTyped'
  BY RequestOf DEF StepOf
<1>6. QED
  BY <1>2, <1>3, <1>4, <1>5 DEF TypeOK, RequestTyped

LEMMA LoadStep == LoadInv /\ [Next]_vars => LoadInv'
<1> SUFFICES ASSUME LoadInv, [Next]_vars
             PROVE  LoadInv'
  OBVIOUS
<1>1. CASE EditTable
  BY <1>1, EditStep
<1>2. CASE Loop
  BY <1>2, LoopStep
<1>3. ASSUME NEW w \in Workers, Worker(w)
      PROVE  LoadInv'
  <2>1. TypeOK'
    BY <1>3, WorkerTyped DEF LoadInv
  <2>2. UNCHANGED <<apiRoutes, past, tableVars, loopVars>>
    BY <1>3, WorkerKeepsTable
  <2>3. HistoryIsNow' /\ NewIsSnapshot' /\ TableIsSnapshot' /\ OkIsServed'
    BY <2>2 DEF LoadInv, HistoryIsNow, NewIsSnapshot, TableIsSnapshot, OkIsServed,
                tableVars, loopVars, Empty
  <2>4. QED
    BY <2>1, <2>3 DEF LoadInv
<1>4. CASE UNCHANGED vars
  BY <1>4 DEF vars, LoadInv, TypeOK, HistoryIsNow, NewIsSnapshot, TableIsSnapshot,
              OkIsServed, tableVars, loopVars, workerVars, Empty
<1>5. QED
  BY <1>1, <1>2, <1>3, <1>4 DEF Next, Loop

\* For any routes, commands, failures and changes by SQL: the table in use is one
\* that api_routes had, and one that a command which answered ok may be served with.
THEOREM LoadInvariant == Spec => []LoadInv
<1>1. QED
  BY InitLoad, LoadStep, PTL DEF Spec

\* The router's variables have their types, and a request goes on only with a rule
\* that match() has found.
THEOREM TypeCorrect == Spec => []TypeOK
<1>1. LoadInv => TypeOK
  BY DEF LoadInv
<1>2. QED
  BY <1>1, LoadInvariant, PTL

\* For any routes, commands, failures and changes by SQL, loadFromMySQL() installs
\* a table that api_routes was at one moment, or leaves the one that is there.
THEOREM TableIsOneOfMySQLs == Spec => []TableIsSnapshot
<1>1. LoadInv => TableIsSnapshot
  BY DEF LoadInv
<1>2. QED
  BY <1>1, LoadInvariant, PTL

\* The answer ok of ROUTE_ADD, and of ROUTE_DELETE unless its reload failed, means
\* that rules_ is at least as new as the command.
THEOREM OkMeansServed == Spec => []OkIsServed
<1>1. LoadInv => OkIsServed
  BY DEF LoadInv
<1>2. QED
  BY <1>1, LoadInvariant, PTL

-------------------------------------------------------------------------------
(* Authentication.                                                         *)

\* A request takes a rule of the table, and a swap frees the rules of all requests.
LEMMA RuleStep ==
  ASSUME TypeOK, RuleIsThere, [Next]_vars
  PROVE  RuleIsThere'
<1>1. CASE EditTable \/ Query \/ RouteAdd \/ (\E r \in Routes : RouteDelete(r))
             \/ (Commanded /\ ~Swap) \/ UNCHANGED vars
  <2>1. UNCHANGED <<workerPc, route, seen, rules, loads>>
    BY <1>1 DEF EditTable, Query, RouteAdd, RouteDelete, Commanded, AcquireThrows,
                QueryDone, DeleteRow, DeleteFails, Select, SelectFails, vars,
                workerVars, tableVars
  <2>2. QED
    BY <2>1 DEF RuleIsThere
<1>2. CASE Swap
  <2>1. UNCHANGED <<workerPc, route, seen>> /\ loads' = loads + 1
    BY <1>2 DEF Swap, workerVars
  <2>2. \A w \in Workers : seen[w] # loads' /\ seen[w] <= loads'
    BY <2>1 DEF TypeOK, RuleIsThere
  <2>3. QED
    BY <2>1, <2>2 DEF RuleIsThere
<1>3. ASSUME NEW w \in Workers, Worker(w)
      PROVE  RuleIsThere'
  <2>1. rules' = rules /\ loads' = loads /\ loads \in Nat
    BY <1>3, WorkerKeepsTable DEF tableVars, TypeOK
  <2>2. StepOf(w)
    BY <1>3, RequestOf
  <2>3. ASSUME NEW v \in Workers \ {w}
        PROVE  UNCHANGED <<workerPc[v], seen[v], route[v]>>
    BY <2>2 DEF StepOf
  <2>4. seen'[w] <= loads'
    BY <2>1, <2>2 DEF StepOf, RuleIsThere
  <2>5. workerPc'[w] # "idle" /\ seen'[w] = loads' => rules'[route'[w]] # "absent"
    <3>1. ASSUME NEW r \in Routes, Match(w, r)
          PROVE  rules'[route'[w]] # "absent"
      BY <2>1, <3>1 DEF Match, TypeOK
    <3>2. ASSUME NEW r \in Routes, NoMatch(w, r)
          PROVE  workerPc'[w] = "idle"
      BY <3>2 DEF NoMatch, Reply, TypeOK
    <3>3. CASE Authorized(w)
      BY <2>1, <3>3 DEF Authorized, RuleIsThere
    <3>4. CASE Unauthorized(w) \/ Served(w)
      <4>1. workerPc' = [workerPc EXCEPT ![w] = "idle"]
        BY <3>4 DEF Unauthorized, Served, Reply
      <4>2. workerPc'[w] = "idle"
        BY <4>1 DEF TypeOK
      <4>3. QED
        BY <4>2
    <3>5. CASE ReadsFreed(w)
      BY <2>1, <3>5 DEF ReadsFreed, workerVars, RuleIsThere
    <3>6. QED
      BY <1>3, <3>1, <3>2, <3>3, <3>4, <3>5 DEF Worker
  <2>6. QED
    BY <2>1, <2>3, <2>4, <2>5 DEF RuleIsThere
<1>4. QED
  BY <1>1, <1>2, <1>3 DEF Next

\* loads grows with every swap, so that a freed rule stays freed.
LEMMA AuthenticatedStep ==
  ASSUME TypeOK, RuleIsThere, Authenticated, [Next]_vars
  PROVE  Authenticated'
<1>1. CASE EditTable \/ Query \/ RouteAdd \/ (\E r \in Routes : RouteDelete(r))
             \/ (Commanded /\ ~Swap) \/ UNCHANGED vars
  <2>1. UNCHANGED <<workerPc, route, token, seen, rules, loads>>
    BY <1>1 DEF EditTable, Query, RouteAdd, RouteDelete, Commanded, AcquireThrows,
                QueryDone, DeleteRow, DeleteFails, Select, SelectFails, vars,
                workerVars, tableVars
  <2>2. QED
    BY <2>1 DEF Authenticated
<1>2. CASE Swap
  <2>1. UNCHANGED <<workerPc, route, token, seen>> /\ loads' = loads + 1
    BY <1>2 DEF Swap, workerVars
  <2>2. \A w \in Workers : seen[w] # loads'
    BY <2>1 DEF TypeOK, RuleIsThere
  <2>3. QED
    BY <2>1, <2>2 DEF Authenticated
<1>3. ASSUME NEW w \in Workers, Worker(w)
      PROVE  Authenticated'
  <2>1. rules' = rules /\ loads' = loads
    BY <1>3, WorkerKeepsTable DEF tableVars
  <2>2. /\ \A v \in Workers \ {w} : /\ workerPc'[v] = workerPc[v] /\ seen'[v] = seen[v]
                                    /\ route'[v] = route[v]
        /\ workerPc'[w] = "limit" => Authorized(w) \/ ReadsFreed(w)
    BY <1>3, RequestOf DEF StepOf
  <2>3. \A v \in Workers \ {w} : token'[v] = token[v]
    BY <1>3, TokenOf DEF TypeOK
  <2>4. workerPc'[w] = "limit" => \/ token'[w]
                                  \/ seen'[w] # loads'
                                  \/ rules'[route'[w]] = "open"
    <3>1. CASE Authorized(w)
      <4>1. UNCHANGED <<route, token, seen>>
        BY <3>1 DEF Authorized
      <4>2. CASE token[w]
        BY <4>1, <4>2
      <4>3. CASE FALSE \in NeedAuth(w)
        <5>1. CASE seen[w] = loads
          <6>1. rules[route[w]] # "guarded" /\ rules[route[w]] # "absent"
            BY <4>3, <5>1, <3>1 DEF NeedAuth, Authorized, RuleIsThere
          <6>2. route[w] \in Routes
            BY <3>1 DEF Authorized, TypeOK
          <6>3. rules[route[w]] \in Row
            BY <6>2 DEF TypeOK, Table
          <6>4. QED
            BY <6>1, <6>3, <4>1, <2>1 DEF Row
        <5>2. QED
          BY <5>1, <4>1, <2>1
      <4>4. QED
        BY <3>1, <4>2, <4>3 DEF Authorized
    <3>2. CASE ReadsFreed(w)
      BY <3>2, <2>1 DEF ReadsFreed, workerVars, Authenticated
    <3>3. QED
      BY <2>2, <3>1, <3>2
  <2>5. QED
    BY <2>1, <2>2, <2>3, <2>4 DEF Authenticated
<1>4. QED
  BY <1>1, <1>2, <1>3 DEF Next

LEMMA AuthInvariant == Spec => [](TypeOK /\ RuleIsThere /\ Authenticated)
<1>1. Init => RuleIsThere /\ Authenticated
  BY DEF Init, RuleIsThere, Authenticated
<1>2. TypeOK /\ RuleIsThere /\ Authenticated /\ [Next]_vars
        => RuleIsThere' /\ Authenticated'
  BY RuleStep, AuthenticatedStep
<1>3. QED
  BY <1>1, <1>2, TypeCorrect, PTL DEF Spec

\* For any workers, routes and reloads: processApiRequest() serves a request without
\* a valid token only on a route that needs none, unless a reload freed the rule
\* that the request was using.
THEOREM NoOneIsAnonymous == Spec => NoAnonymousService
<1>1. TypeOK /\ Authenticated /\ [Next]_vars
        => [\A w \in Workers :
              workerPc[w] = "limit" /\ workerPc'[w] = "idle" /\ reply'[w] = 200
                => token[w] \/ seen[w] # loads \/ rules[route[w]] = "open"]_vars
  BY DEF Authenticated
<1>2. QED
  BY <1>1, AuthInvariant, PTL DEF Spec, NoAnonymousService
===============================================================================
