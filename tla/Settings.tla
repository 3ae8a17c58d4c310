------------------------------ MODULE Settings ------------------------------
(***************************************************************************)
(* The settings: a table with one row per key, written key by key          *)
(* (repository/settings_repository.go), and what the running proxy server  *)
(* has made of them. A write changes the table only; ReloadSettings        *)
(* (proxy/server.go) reads it and then replaces the settings of the        *)
(* authentication, of the rate limiter, of the handler and the selector,   *)
(* one after the other and without a lock around them, while requests run  *)
(* and other reloads may run too.                                          *)
(*                                                                         *)
(* Values are the numbers of the writes they come from: 1 is what the      *)
(* migrations wrote, 0 the zero value of a part that was not read. A       *)
(* selector is named by the reload that made it.                           *)
(***************************************************************************)
EXTENDS Naturals, FiniteSets

CONSTANTS
    Writers, Reloads,  \* slots for PUT or reset requests, and for reloads
    Clients,           \* addresses the rate limiter tells apart
    MaxLimiters,       \* the 10000 of CleanupLimiters
    Reads,             \* the keys that a read of the table may come back with
    MaxWrites, MaxReloads   \* bounds

\* The keys a reload applies. log_retention is read by nothing that runs, and
\* healthcheck only by the first test of a proxy, which caches it for good.
Keys == {"authentication", "rate_limit", "rotation"}

ASSUME SettingsAssumption ==
    /\ MaxLimiters \in Nat /\ MaxWrites \in Nat \ {0} /\ MaxReloads \in Nat
    /\ IsFiniteSet(Clients)
    /\ Reads \subseteq SUBSET Keys

Versions == 0..MaxWrites

None == MaxWrites + 1

VARIABLES
    table,     \* the settings table
    writer,    \* the requests that write it
    reload,    \* the calls of ReloadSettings
    auth,      \* AuthMiddleware's settings
    rate,      \* RateLimitMiddleware's settings
    limiters,  \* its limiters: the settings each was made with
    handler,   \* the handler's rotation settings
    selector,  \* Server.selector: the ticker refreshes it
    used,      \* the handler's selector: requests use it
    rotation,  \* the rotation settings of a selector
    writes, reloads,  \* how many there have been
    mixed,     \* history: two writes have overlapped, or one failed half-way
    overlap,   \* history: two reloads have overlapped
    broken     \* history: the newest read has missed a key

writing == <<table, writer, writes, mixed>>
live == <<auth, rate, limiters, handler, selector, used, rotation>>
loading == <<reload, reloads, overlap, broken>>

vars == <<writing, live, loading>>

-----------------------------------------------------------------------------
(* Update and Reset.                                                       *)

NotWriting == [pc |-> "idle", version |-> 0, left |-> {}]

Writing(w) == writer[w].pc = "writing"

\* The request is well-formed: its values are validated before the first write.
BeginWrite(w) ==
    /\ writes < MaxWrites
    /\ ~Writing(w)
    /\ writes' = writes + 1
    /\ writer' = [writer EXCEPT ![w] =
            [pc |-> "writing", version |-> writes + 1, left |-> Keys]]
    /\ mixed' = (mixed \/ \E v \in Writers : Writing(v))
    /\ UNCHANGED <<table, live, loading>>

\* UpdateAll ranges over a Go map: any order.
Set(w, key) ==
    /\ Writing(w) /\ key \in writer[w].left
    /\ table' = [table EXCEPT ![key] = writer[w].version]
    /\ writer' = [writer EXCEPT ![w].left = @ \ {key}]
    /\ UNCHANGED <<writes, mixed, live, loading>>

Written(w) == writer[w].left = {}

Acknowledge(w) ==
    /\ Writing(w) /\ Written(w)
    /\ writer' = [writer EXCEPT ![w].pc = "stored"]
    /\ UNCHANGED <<table, writes, mixed, live, loading>>

\* The keys written so far stay.
WriteFails(w) ==
    /\ Writing(w) /\ writer[w].left # {}
    /\ writer' = [writer EXCEPT ![w] = NotWriting]
    /\ mixed' = TRUE
    /\ UNCHANGED <<table, writes, live, loading>>

-----------------------------------------------------------------------------
(* ReloadSettings.                                                         *)

NotReloading == [pc |-> "idle", number |-> 0, settings |-> [k \in Keys |-> 0],
                 alone |-> FALSE, writes |-> 0]

Reloading(r) == reload[r].pc \notin {"idle", "done"}

At(r, pc) == reload[r].pc = pc

\* Slip: the settings read at the start are applied again.
LoadedAtStart(read) == [k \in Keys |-> 1]

\* GetAll. On Postgres an error that ends the scan is not asked for, and
\* mapToSettings leaves the parts that were not read at their zero values. (An
\* error that is reported ends the reload before it has changed anything.)
Loaded(read) == [k \in Keys |-> IF k \in read THEN table[k] ELSE 0]

NothingRuns ==
    /\ \A s \in Reloads : ~Reloading(s)
    /\ \A w \in Writers : ~Writing(w)

\* alone and writes are history: no other reload, no write, ran meanwhile.
Load(r, read) ==
    /\ reloads < MaxReloads
    /\ ~Reloading(r)
    /\ reloads' = reloads + 1
    /\ reload' = [s \in Reloads |->
            IF s = r THEN [pc |-> "auth", number |-> reloads + 1,
                           settings |-> Loaded(read), alone |-> NothingRuns,
                           writes |-> writes]
            ELSE [reload[s] EXCEPT !.alone = @ /\ ~Reloading(s)]]
    /\ overlap' = (overlap \/ \E s \in Reloads : Reloading(s))
    /\ broken' = (read # Keys)
    /\ UNCHANGED <<writing, live>>

Continue(r, pc) == reload' = [reload EXCEPT ![r].pc = pc]

\* AuthMiddleware.UpdateSettings, under its lock.
ReloadAuth(r) ==
    /\ At(r, "auth")
    /\ auth' = reload[r].settings["authentication"]
    /\ Continue(r, "rate")
    /\ UNCHANGED <<writing, rate, limiters, handler, selector, used, rotation,
                   reloads, overlap, broken>>

NoLimiters == [c \in Clients |-> None]

\* Slip: the limiters are kept.
ClearedNot == limiters

Cleared == NoLimiters

\* RateLimitMiddleware.UpdateSettings, under its lock.
ReloadRate(r) ==
    /\ At(r, "rate")
    /\ rate' = reload[r].settings["rate_limit"]
    /\ limiters' = Cleared
    /\ Continue(r, "handler")
    /\ UNCHANGED <<writing, auth, handler, selector, used, rotation, reloads,
                   overlap, broken>>

ReloadHandler(r) ==
    /\ At(r, "handler")
    /\ handler' = reload[r].settings["rotation"]
    /\ Continue(r, "select")
    /\ UNCHANGED <<writing, auth, rate, limiters, selector, used, rotation,
                   reloads, overlap, broken>>

\* The new selector and its first refresh.
NewSelector(r) ==
    /\ At(r, "select")
    /\ rotation' = [rotation EXCEPT ![reload[r].number] =
                        reload[r].settings["rotation"]]
    /\ Continue(r, "server")
    /\ UNCHANGED <<writing, auth, rate, limiters, handler, selector, used,
                   reloads, overlap, broken>>

\* No proxy passes the filters, or the database fails: the rest stays undone.
RefreshFails(r) ==
    /\ At(r, "select")
    /\ reload' = [reload EXCEPT ![r] = NotReloading]
    /\ UNCHANGED <<writing, live, reloads, overlap, broken>>

\* The ticker will refresh the new selector.
AssignServer(r) ==
    /\ At(r, "server")
    /\ selector' = reload[r].number
    /\ Continue(r, "used")
    /\ UNCHANGED <<writing, auth, rate, limiters, handler, used, rotation,
                   reloads, overlap, broken>>

\* Slip: the handler keeps its selector.
HandedOverNot(r) == used

HandedOver(r) == reload[r].number

\* Requests will use it.
AssignHandler(r) ==
    /\ At(r, "used")
    /\ used' = HandedOver(r)
    /\ Continue(r, "done")
    /\ UNCHANGED <<writing, auth, rate, limiters, handler, selector, rotation,
                   reloads, overlap, broken>>

-----------------------------------------------------------------------------
(* Those who use the settings.                                             *)

\* A request of a client: allow makes its limiter when it has none.
Request(c) ==
    /\ limiters[c] = None
    /\ limiters' = [limiters EXCEPT ![c] = rate]
    /\ UNCHANGED <<writing, auth, rate, handler, selector, used, rotation,
                   loading>>

CleanupLimiters ==
    /\ Cardinality({c \in Clients : limiters[c] # None}) > MaxLimiters
    /\ limiters' = NoLimiters
    /\ UNCHANGED <<writing, auth, rate, handler, selector, used, rotation,
                   loading>>

\* A restart: New makes everything from what it reads of the table.
Restart(read) ==
    /\ reloads < MaxReloads
    /\ reloads' = reloads + 1
    /\ writer' = [w \in Writers |-> NotWriting]
    /\ reload' = [r \in Reloads |-> NotReloading]
    /\ auth' = Loaded(read)["authentication"]
    /\ rate' = Loaded(read)["rate_limit"]
    /\ limiters' = NoLimiters
    /\ handler' = Loaded(read)["rotation"]
    /\ selector' = reloads + 1 /\ used' = reloads + 1
    /\ rotation' = [rotation EXCEPT ![reloads + 1] = Loaded(read)["rotation"]]
    /\ mixed' = (mixed \/ \E w \in Writers : Writing(w))
    /\ overlap' = FALSE /\ broken' = (read # Keys)
    /\ UNCHANGED <<table, writes>>

-----------------------------------------------------------------------------

Init ==
    /\ table = [k \in Keys |-> 1]
    /\ writer = [w \in Writers |-> NotWriting]
    /\ reload = [r \in Reloads |-> NotReloading]
    /\ auth = 1 /\ rate = 1 /\ handler = 1
    /\ limiters = NoLimiters
    /\ selector = 0 /\ used = 0
    /\ rotation = [n \in 0..MaxReloads |-> 1]
    /\ writes = 1 /\ reloads = 0
    /\ mixed = FALSE /\ overlap = FALSE /\ broken = FALSE

ReloadSettings(r) ==
    \/ ReloadAuth(r) \/ ReloadRate(r) \/ ReloadHandler(r)
    \/ NewSelector(r) \/ RefreshFails(r) \/ AssignServer(r) \/ AssignHandler(r)

\* Nothing is under way: the server waits for a request.
Rest == NothingRuns /\ UNCHANGED vars

Next ==
    \/ Rest
    \/ \E w \in Writers :
        \/ BeginWrite(w) \/ Acknowledge(w) \/ WriteFails(w)
        \/ \E key \in Keys : Set(w, key)
    \/ \E r \in Reloads :
        ReloadSettings(r) \/ \E read \in Reads : Load(r, read)
    \/ \E c \in Clients : Request(c)
    \/ CleanupLimiters
    \/ \E read \in Reads : Restart(read)

Spec == Init /\ [][Next]_vars

-----------------------------------------------------------------------------
(* Properties.                                                             *)

TypeOK ==
    /\ table \in [Keys -> Versions]
    /\ writer \in [Writers -> [pc : {"idle", "writing", "stored"},
                               version : Versions, left : SUBSET Keys]]
    /\ reload \in [Reloads -> [pc : {"idle", "auth", "rate", "handler",
                                     "select", "server", "used", "done"},
                               number : 0..MaxReloads,
                               settings : [Keys -> Versions],
                               alone : BOOLEAN, writes : Versions]]
    /\ auth \in Versions /\ rate \in Versions /\ handler \in Versions
    /\ limiters \in [Clients -> Versions \cup {None}]
    /\ selector \in 0..MaxReloads /\ used \in 0..MaxReloads
    /\ rotation \in [0..MaxReloads -> Versions]
    /\ writes \in Versions /\ reloads \in 0..MaxReloads
    /\ mixed \in BOOLEAN /\ overlap \in BOOLEAN /\ broken \in BOOLEAN

\* A limiter in force was made with the settings in force: requests that race
\* with a reload, or with the cleanup, never keep the old rate.
LimitersFollowSettings ==
    \A c \in Clients : limiters[c] \in {rate, None}

\* Unless two reloads overlap, the selector that requests use is the one the
\* ticker refreshes whenever no reload is under way, failed ones included: the
\* two fields are assigned one after the other.
SelectorsAgree ==
    ~overlap /\ (\A r \in Reloads : ~Reloading(r)) => used = selector

\* A reload is over, nothing but its own steps ran meanwhile, and no write or
\* restart has followed.
LastAlone(r) ==
    /\ At(r, "done") /\ reload[r].alone /\ reload[r].number = reloads
    /\ reload[r].writes = writes

\* Every part of the server has the settings of the table.
Applied ==
    /\ auth = table["authentication"] /\ rate = table["rate_limit"]
    /\ handler = table["rotation"] /\ rotation[used] = table["rotation"]

\* A reload that ran alone, whose read was complete and that no write followed
\* leaves every part of the server with the settings of the table, whatever
\* earlier reads missed and earlier reloads left undone.
ReloadApplies == \A r \in Reloads : LastAlone(r) /\ ~broken => Applied

\* The last write, when it is acknowledged and no other overlapped it, is in the
\* table as a whole, whatever order its keys were written in.
AcknowledgedIsStored ==
    \A w \in Writers :
        writer[w].pc = "stored" /\ writer[w].version = writes /\ ~mixed =>
            \A k \in Keys : table[k] = writes

\* Without overlapping writes or reloads, and as long as the newest read was
\* complete, no part of the server goes back to older settings.
NeverGoesBack ==
    [][~mixed' /\ ~overlap' /\ ~broken' =>
          /\ auth' >= auth /\ rate' >= rate /\ handler' >= handler
          /\ rotation'[used'] >= rotation[used]]_vars

\* startBackgroundTasks: "Refresh proxy list every 30 seconds", the list that
\* requests use.
UsedIsRefreshed ==
    (\A r \in Reloads : ~Reloading(r)) => used = selector
=============================================================================
