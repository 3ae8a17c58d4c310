------------------------------ MODULE ProxyPool -----------------------------
(***************************************************************************)
(* The global health of the upstream proxies and the requests that depend  *)
(* on it: the list the selector keeps in memory (internal/proxy/           *)
(* rotation.go), refreshed every 30 seconds; the fallback loops of         *)
(* sendWithRetry and connectThroughProxy (handler.go), and the tests of a  *)
(* proxy (healthcheck.go); the goroutines they leave behind, which record  *)
(* results in the proxies table (usage.go, proxy_repository.go) database   *)
(* call by database call, on both drivers; and the operator who creates,   *)
(* deletes and resets proxies.                                             *)
(*                                                                         *)
(* Proxies are numbered in the order of their addresses. A row keeps its   *)
(* status and its streak of failures, counted up to the threshold.         *)
(***************************************************************************)
EXTENDS Naturals, FiniteSets, SequencesExt

CONSTANTS
    Proxies,
    Requests,      \* slots: each holds one request at a time
    Kinds,         \* the kinds of requests
    Deployments,   \* pairs of a driver and a rotation.method
    Allowed,       \* the proxies rotation's filters let through
    MaxFallback,   \* rotation.fallback_max_retries, 1 without rotation.fallback
    MaxEvents      \* bound: requests begun and events made by the outside

Nobody == 0

ASSUME PoolAssumption ==
    /\ Proxies \subseteq Nat \ {0} /\ IsFiniteSet(Proxies)
    /\ Allowed \subseteq Proxies
    /\ Nobody \notin Requests
    /\ Kinds \subseteq {"http", "connect", "routed", "test"}
    /\ Deployments \subseteq {"mongo", "postgres"} \X
                      {"random", "round_robin", "least_conn"}
    /\ MaxFallback \in Nat /\ MaxEvents \in Nat

VARIABLES
    driver, method,  \* fixed at startup
    row,       \* the proxies table
    list,      \* the selector's cached proxies
    index,     \* RoundRobinSelector.index; for least_conn, the proxy with the
               \* fewest requests when the list was stored; counted from 0
    request,   \* the requests
    job,       \* the calls a recording goroutine has left, per request, proxy
    events,    \* history: how many of those there have been
    turn,      \* history: the proxies picked in this round of the list
    alone,     \* history: the request that has had the selector to itself
    cut        \* history: proxies some call about which was never made

vars == <<driver, method, row, list, index, request, job, events, turn,
          alone, cut>>

-----------------------------------------------------------------------------

\* Three failures in a row.
Threshold == 3

Usable == {"active", "idle"}

Row == [status : {"absent", "active", "idle", "failed"}, fails : 0..Threshold]

Exists(p) == row[p].status # "absent"

\* The proxies of GetForSelection(false).
Eligible == {p \in Proxies : row[p].status \in Usable}

\* loadActiveProxiesWithSettings, ordered by address: one list, empty when there
\* is nothing to load.
Loadable ==
    LET S == Eligible \cap Allowed
    IN  {s \in [1..Cardinality(S) -> S] :
            \A i, j \in DOMAIN s : i < j => s[i] < s[j]}

\* The calls of the recording goroutines; "check" ones record a test.
Calls == {"success", "count", "threshold", "mark", "check_ok", "check_count",
          "check_read", "check_active", "check_failed"}

Request == [pc : {"idle", "select", "failed"}, kind : Kinds \cup {"none"},
            tried : SUBSET Proxies, tries : Nat]

NoRequest == [pc |-> "idle", kind |-> "none", tried |-> {}, tries |-> 0]

\* A slot is used again once its recordings are through.
Free(r) ==
    /\ request[r].pc \in {"idle", "failed"}
    /\ \A p \in Proxies : job[r][p] = <<>>

Event == events < MaxEvents /\ events' = events + 1

\* Requests that go through the selector.
Selects(kind) == kind \in {"http", "connect"}

-----------------------------------------------------------------------------
(* The selector.                                                           *)

\* Slip: the index is left as it is.
IndexKept(n) == {index}

\* "Reset index if it's out of bounds". The counts least_conn compares are
\* those of the stored rows: it returns one proxy until the next refresh.
IndexFor(n) ==
    CASE method = "random" -> {0}
      [] method = "round_robin" -> {IF index >= n THEN 0 ELSE index}
      [] method = "least_conn" -> 0..(n - 1)

\* A new selector and its first load.
FirstIndex(n) == IF method = "least_conn" /\ n # 0 THEN 0..(n - 1) ELSE {0}

\* The tick of the refresh goroutine. It reads the table and stores the list
\* under the lock: one step, as nothing else stores it. With nothing to load the
\* old list stays.
Refresh ==
    /\ Eligible \cap Allowed # {}
    /\ list' \in Loadable
    /\ index' \in IndexFor(Len(list'))
    /\ turn' = {}
    /\ alone' = Nobody
    /\ UNCHANGED <<driver, method, row, request, job, events, cut>>

\* Slip: the index moves past the next proxy.
NextIndexSkipping == (index + 2) % Len(list)

NextIndex == (index + 1) % Len(list)

\* What Select may return; time_based, too, may return any proxy.
Selection == IF method = "random" THEN ToSet(list) ELSE {list[index + 1]}

-----------------------------------------------------------------------------
(* Requests. A try reads nothing between the choice of its proxy and its      *)
(* end, so it is one step; its recording may be arbitrarily late.            *)

\* sendWithRetry records the failure and then marks the proxy, the others only
\* record. A test on Postgres reads the streak first.
FailureCalls(kind) ==
    CASE kind = "http" -> <<"count", "mark">>
      [] kind \in {"connect", "routed"} -> <<"count">>
      [] kind = "test" ->
            IF driver = "mongo" THEN <<"check_count">> ELSE <<"check_read">>

SuccessCalls(kind) == IF kind = "test" THEN <<"check_ok">> ELSE <<"success">>

\* A site may refuse through a working proxy, or answer a block page: the client
\* is served, and the try recorded as a failure.
ServedCalls(kind) ==
    {SuccessCalls(kind)} \cup (IF kind \in {"http", "routed"} THEN {<<"count">>}
                              ELSE {})

\* The goroutine that records a try of p has these calls to make.
Records(r, p, calls) == job' = [job EXCEPT ![r][p] = calls]

\* Checkout hands out a healthy proxy of the table and a test is asked for one
\* that exists: they have one proxy to try.
HasOneProxy(r, kind) ==
    /\ Event /\ Free(r) /\ ~Selects(kind)
    /\ \E p \in IF kind = "routed" THEN Eligible
                ELSE {q \in Proxies : Exists(q)} :
       \E calls \in ServedCalls(kind) \cup {FailureCalls(kind)} :
            Records(r, p, calls)
    /\ request' = [request EXCEPT ![r] = NoRequest]
    /\ UNCHANGED <<driver, method, row, list, index, turn, alone, cut>>

Begin(r, kind) ==
    /\ Event /\ Free(r) /\ Selects(kind)
    /\ request' = [request EXCEPT ![r] =
            [NoRequest EXCEPT !.pc = "select", !.kind = kind]]
    /\ alone' = IF method = "round_robin" THEN r ELSE Nobody
    /\ UNCHANGED <<driver, method, row, list, index, job, turn, cut>>

\* What every turn of the fallback loop does: p is selected.
Selected(r, p) ==
    /\ request[r].pc = "select"
    /\ request[r].tries < MaxFallback
    /\ list # <<>>
    /\ p \in Selection
    /\ index' = IF method = "round_robin" THEN NextIndex ELSE index
    /\ turn' = IF method # "round_robin" \/ turn \cup {p} = ToSet(list) THEN {}
               ELSE turn \cup {p}
    /\ alone' = IF alone = r THEN r ELSE Nobody
    /\ UNCHANGED <<driver, method, row, list, events, cut>>

\* A proxy tried before costs the attempt.
Repeats(r, p) ==
    /\ Selected(r, p) /\ p \in request[r].tried
    /\ request' = [request EXCEPT ![r].tries = @ + 1]
    /\ UNCHANGED job

Succeeds(r, p) ==
    /\ Selected(r, p) /\ p \notin request[r].tried
    /\ request' = [request EXCEPT ![r] = NoRequest]
    /\ \E calls \in ServedCalls(request[r].kind) : Records(r, p, calls)

\* The proxy is down; or its site is, the client has gone, or an earlier try has
\* consumed the body: the code tells none of them apart. The retries on one
\* proxy are one try.
Fails(r, p) ==
    /\ Selected(r, p) /\ p \notin request[r].tried
    /\ request' = [request EXCEPT ![r] =
            [pc |-> "select", kind |-> @.kind, tried |-> @.tried \cup {p},
             tries |-> @.tries + 1]]
    /\ Records(r, p, FailureCalls(request[r].kind))

NoProxy(r) ==
    /\ request[r].pc = "select"
    /\ request[r].tries < MaxFallback
    /\ list = <<>>
    /\ request' = [request EXCEPT ![r] = NoRequest]
    /\ UNCHANGED <<driver, method, row, list, index, job, events, turn, alone,
                   cut>>

\* "all proxies failed"
GiveUp(r) ==
    /\ request[r].pc = "select"
    /\ request[r].tries = MaxFallback
    /\ request' = [request EXCEPT ![r].pc = "failed"]
    /\ UNCHANGED <<driver, method, row, list, index, job, events, turn, alone,
                   cut>>

-----------------------------------------------------------------------------
(* The recordings: updateProxyStats, UpdateProxyAfterRequest,              *)
(* UpdateProxyStatus, RecordHealthCheck, RecordHealthCheckResult.          *)

OneMore(p) == IF row[p].fails < Threshold THEN row[p].fails + 1 ELSE Threshold

\* Slip: the threshold is passed, not reached.
TooManyLate(p) == row[p].fails = Threshold

\* This failure makes it three.
TooMany(p) == OneMore(p) = Threshold

RowAfterSuccess(p) == [status |-> "active", fails |-> 0]

\* A Postgres statement counts and decides; Mongo decides in a second call.
RowAfterFailure(p) ==
    [status |-> IF driver = "postgres" /\ TooMany(p) THEN "failed"
                ELSE row[p].status,
     fails |-> OneMore(p)]

RowAfter(p, call) ==
    CASE call = "success" -> RowAfterSuccess(p)
      [] call = "check_ok" -> IF driver = "mongo" THEN RowAfterSuccess(p)
                              ELSE [row[p] EXCEPT !.status = "active"]
      [] call \in {"count", "check_count"} -> RowAfterFailure(p)
      [] call \in {"threshold", "mark", "check_failed"} ->
            [row[p] EXCEPT !.status = "failed"]
      [] call = "check_active" -> [row[p] EXCEPT !.status = "active"]
      [] call = "check_read" -> row[p]

\* The calls that follow a call because of what it found.
Follows(p, call) ==
    CASE call \in {"count", "check_count"} ->
            IF driver = "mongo" /\ Exists(p) /\ TooMany(p)
            THEN <<"threshold">> ELSE <<>>
      [] call = "check_read" ->
            IF ~Exists(p) THEN <<>>
            ELSE IF row[p].fails >= Threshold - 1
                 THEN <<"check_failed">> ELSE <<"check_active">>
      [] OTHER -> <<>>

\* Slip: the update is an upsert.
Upserted(p, call) == RowAfter(p, call)

\* No call matches the row of a deleted proxy.
Updated(p, call) == IF Exists(p) THEN RowAfter(p, call) ELSE row[p]

Record(r, p) ==
    /\ job[r][p] # <<>>
    /\ row' = [row EXCEPT ![p] = Updated(p, Head(job[r][p]))]
    /\ job' = [job EXCEPT ![r][p] = Follows(p, Head(@)) \o Tail(@)]
    /\ UNCHANGED <<driver, method, list, index, request, events,
                   turn, alone, cut>>

\* A call that fails or times out is logged; the next one is made all the same.
RecordFails(r, p) ==
    /\ Event /\ job[r][p] # <<>>
    /\ job' = [job EXCEPT ![r][p] = Tail(@)]
    /\ cut' = cut \cup {p}
    /\ UNCHANGED <<driver, method, row, list, index, request, turn, alone>>

-----------------------------------------------------------------------------
(* The outside.                                                            *)

\* Create: a new row, status idle.
Create(p) ==
    /\ Event /\ ~Exists(p)
    /\ row' = [row EXCEPT ![p] = [status |-> "idle", fails |-> 0]]
    /\ UNCHANGED <<driver, method, list, index, request, job,
                   turn, alone, cut>>

\* Delete and BulkDelete, of one.
Delete(p) ==
    /\ Event /\ Exists(p)
    /\ row' = [row EXCEPT ![p] = [status |-> "absent", fails |-> 0]]
    /\ UNCHANGED <<driver, method, list, index, request, job,
                   turn, alone, cut>>

\* cmd/resetproxies, for Mongo.
ResetProxies ==
    /\ Event /\ driver = "mongo"
    /\ \E p \in Proxies : row[p].status = "failed"
    /\ row' = [p \in Proxies |-> IF row[p].status = "failed"
                                 THEN RowAfterSuccess(p) ELSE row[p]]
    /\ UNCHANGED <<driver, method, list, index, request, job,
                   turn, alone, cut>>

NoRequests == [r \in Requests |-> NoRequest]

NoJobs == [r \in Requests |-> [p \in Proxies |-> <<>>]]

\* The table survives; New refreshes the list, which may stay empty.
Restart ==
    /\ Event
    /\ list' \in Loadable /\ index' \in FirstIndex(Len(list'))
    /\ request' = NoRequests /\ job' = NoJobs
    /\ turn' = {}
    /\ alone' = Nobody
    /\ cut' = cut \cup {p \in Proxies : \E r \in Requests : job[r][p] # <<>>}
    /\ UNCHANGED <<driver, method, row>>

Outside ==
    \/ \E p \in Proxies : Create(p) \/ Delete(p)
    \/ ResetProxies
    \/ Restart

-----------------------------------------------------------------------------

\* A new table, or one with a history.
Init ==
    /\ \E deployment \in Deployments :
        driver = deployment[1] /\ method = deployment[2]
    /\ row \in [Proxies -> {[status |-> "idle", fails |-> 0],
                           [status |-> "active", fails |-> Threshold - 1]}]
    /\ list \in Loadable /\ index \in FirstIndex(Len(list))
    /\ request = NoRequests /\ job = NoJobs
    /\ events = 0
    /\ turn = {}
    /\ alone = Nobody
    /\ cut = {}

Serve(r) ==
    \/ \E p \in Proxies : Repeats(r, p) \/ Succeeds(r, p) \/ Fails(r, p)
    \/ NoProxy(r) \/ GiveUp(r)

\* Nothing is under way: the server waits for a request.
Rest ==
    /\ \A r \in Requests : Free(r)
    /\ UNCHANGED vars

Next ==
    \/ Rest
    \/ Refresh
    \/ \E r \in Requests :
        \/ \E kind \in Kinds : Begin(r, kind) \/ HasOneProxy(r, kind)
        \/ Serve(r)
        \/ \E p \in Proxies : Record(r, p) \/ RecordFails(r, p)
    \/ Outside

Spec == Init /\ [][Next]_vars

-----------------------------------------------------------------------------
(* Properties.                                                             *)

TypeOK ==
    /\ <<driver, method>> \in Deployments
    /\ row \in [Proxies -> Row]
    /\ \A p \in Proxies : ~Exists(p) => row[p].fails = 0
    /\ list \in Seq(Proxies)
    /\ index \in Nat
    /\ request \in [Requests -> Request]
    /\ job \in [Requests -> [Proxies -> Seq(Calls)]]
    /\ cut \subseteq Proxies /\ turn \subseteq Proxies
    /\ events \in 0..MaxEvents
    /\ alone \in Requests \cup {Nobody}

\* The round-robin index is always a position of the list, whatever refreshes
\* shorten the list between two selections: Select indexes it unchecked.
IndexInRange == list # <<>> => index < Len(list)

\* Concurrent round-robin requests take turns: none is given a proxy again
\* before all the proxies of the list have been given out.
RoundRobinTakesTurns ==
    [][\A r \in Requests :
          /\ method = "round_robin" /\ Len(list) > 1 /\ events' = events
          /\ request[r].pc = "select" /\ request'[r].pc # "failed"
          /\ request'[r] # request[r]
          => turn' # turn]_vars

\* A request that had the round-robin selector to itself gives up only after it
\* has tried every proxy of the list, or as many as fallback allows.
AloneTriesAll ==
    \A r \in Requests :
        /\ request[r].pc = "failed" /\ method = "round_robin" /\ alone = r
        => Cardinality(request[r].tried) =
               IF Len(list) < MaxFallback THEN Len(list) ELSE MaxFallback

\* On Mongo, where the count and the decision are two calls: when all calls
\* about a proxy are through, a full streak has made it failed.
StreakIsFailed ==
    driver = "mongo" =>
        \A p \in Proxies \ cut :
            /\ row[p].fails = Threshold
            /\ \A r \in Requests : job[r][p] = <<>>
            => row[p].status = "failed"
=============================================================================
