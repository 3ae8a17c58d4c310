----------------------------- MODULE Migrations -----------------------------
(***************************************************************************)
(* The start of servers on one Postgres database (cmd/server/main.go,      *)
(* database/database.go) and the migrations each of them runs first        *)
(* (database/migrations.go): the version is read once, then every          *)
(* migration above it is executed and recorded in a transaction of its     *)
(* own. Servers may start together, crash anywhere, and are started again. *)
(*                                                                         *)
(* Of what the migrations do, the model keeps what depends on the data:    *)
(* version 9 removes duplicate proxies before it adds the unique           *)
(* constraint, and version 10 overwrites the timeout and the retries of    *)
(* the settings.                                                           *)
(***************************************************************************)
EXTENDS Naturals

CONSTANTS
    Servers,
    Left,         \* versions that an older release may have left the database at
    Duplicates,   \* rows with the address and protocol of an older row
    MaxFaults     \* bound: crashes and failing connections

Versions == 1..18

ASSUME MigrationsAssumption ==
    /\ Left \subseteq Versions \cup {0}
    /\ MaxFaults \in Nat

CreatesProxies == 3
CreatesSettings == 4
MakesUnique == 9
SetsTimeouts == 10

VARIABLES
    applied,     \* schema_migrations
    duplicates,  \* the duplicates among the proxies
    timeout,     \* the rotation settings: "none", "default", "operator"
    server,      \* [pc, todo, at, removed]
    faults

vars == <<applied, duplicates, timeout, server, faults>>

\* at: the migration of the open transaction, 0 when none is open.
Idle(pc, todo) == [pc |-> pc, todo |-> todo, at |-> 0, removed |-> {}]

Down == Idle("down", {})

-----------------------------------------------------------------------------
(* Migrate.                                                                *)

\* Slip: the migrations run in the order they are listed in.
Listed == <<1, 2, 3, 4, 5, 6, 7, 8, 9, 11, 12, 13, 14, 15, 10, 16, 17, 18>>
BeforeAsListed(v, w) ==
    \E i, j \in DOMAIN Listed : i < j /\ Listed[i] = v /\ Listed[j] = w

\* sort.Slice: by version.
Before(v, w) == v < w

\* The versions above getCurrentVersion, the highest one recorded.
Pending == {v \in Versions : \A w \in applied : w < v}

ReadVersion(s) ==
    /\ server[s].pc = "down"
    /\ server' = [server EXCEPT ![s] = Idle("migrating", Pending)]
    /\ UNCHANGED <<applied, duplicates, timeout, faults>>

\* Slip: the duplicates are left to the operator.
RemovedNone(v) == {}

\* Version 9 deletes what it sees; the other migrations delete nothing.
Removed(v) == IF v = MakesUnique THEN duplicates ELSE {}

\* The statements of a migration, in a transaction nobody sees yet.
Execute(s) ==
    /\ server[s].pc = "migrating"
    /\ \E v \in server[s].todo :
        /\ \A w \in server[s].todo : ~Before(w, v)
        /\ server' = [server EXCEPT ![s] = [pc |-> "executed", todo |-> @.todo,
                                            at |-> v, removed |-> Removed(v)]]
    /\ UNCHANGED <<applied, duplicates, timeout, faults>>

\* The record has the version for its primary key, the constraint has to hold.
Conflicts(s) ==
    \/ server[s].at \in applied
    \/ /\ server[s].at = MakesUnique
       /\ ~(duplicates \subseteq server[s].removed)

\* ON CONFLICT DO NOTHING of versions 4 and 7; version 10 overwrites.
TimeoutAfter(v) ==
    IF (v = CreatesSettings /\ timeout = "none") \/ v = SetsTimeouts
    THEN "default" ELSE timeout

\* The loop goes on to the next one.
Recorded(s) == Idle("migrating", server[s].todo \ {server[s].at})

Commit(s) ==
    /\ server[s].pc = "executed" /\ ~Conflicts(s)
    /\ applied' = applied \cup {server[s].at}
    /\ timeout' = TimeoutAfter(server[s].at)
    /\ duplicates' = duplicates \ server[s].removed
    /\ server' = [server EXCEPT ![s] = Recorded(s)]
    /\ UNCHANGED faults

\* The transaction is rolled back and run() returns the error.
Fail(s) ==
    /\ server[s].pc = "executed" /\ Conflicts(s)
    /\ server' = [server EXCEPT ![s] = Down]
    /\ UNCHANGED <<applied, duplicates, timeout, faults>>

Started(s) ==
    /\ server[s].pc = "migrating" /\ server[s].todo = {}
    /\ server' = [server EXCEPT ![s] = Idle("up", {})]
    /\ UNCHANGED <<applied, duplicates, timeout, faults>>

Migrate(s) == Execute(s) \/ Commit(s) \/ Fail(s) \/ Started(s)

-----------------------------------------------------------------------------
(* What happens meanwhile.                                                 *)

\* A crash, or a connection that fails: an open transaction is undone.
Stop(s) ==
    /\ server[s].pc # "down" /\ faults < MaxFaults
    /\ faults' = faults + 1
    /\ server' = [server EXCEPT ![s] = Down]
    /\ UNCHANGED <<applied, duplicates, timeout>>

\* A server of an older release, which may still run.
OldServerInserts(d) ==
    /\ CreatesProxies \in applied /\ MakesUnique \notin applied
    /\ duplicates' = duplicates \cup {d}
    /\ UNCHANGED <<applied, timeout, server, faults>>

\* The settings page, of this release or, before, of an older one.
Edit ==
    /\ timeout # "none"
    /\ timeout' = "operator"
    /\ UNCHANGED <<applied, duplicates, server, faults>>

-----------------------------------------------------------------------------

Init ==
    /\ \E v \in Left : applied = {w \in Versions : w <= v}
    /\ duplicates \in SUBSET Duplicates
    /\ duplicates # {} =>
            CreatesProxies \in applied /\ MakesUnique \notin applied
    /\ timeout = IF CreatesSettings \in applied THEN "default" ELSE "none"
    /\ server = [s \in Servers |-> Down]
    /\ faults = 0

Next ==
    \/ \E s \in Servers : ReadVersion(s) \/ Migrate(s) \/ Stop(s)
    \/ \E d \in Duplicates : OldServerInserts(d)
    \/ Edit

Spec == Init /\ [][Next]_vars

\* A server that is down is started again (restart: unless-stopped) and goes on.
Fairness == \A s \in Servers : WF_vars(ReadVersion(s) \/ Migrate(s))

FairSpec == Spec /\ Fairness

-----------------------------------------------------------------------------
(* Properties.                                                             *)

TypeOK ==
    /\ applied \subseteq Versions
    /\ duplicates \subseteq Duplicates
    /\ timeout \in {"none", "default", "operator"}
    /\ server \in [Servers -> [pc : {"down", "migrating", "executed", "up"},
                               todo : SUBSET Versions, at : Versions \cup {0},
                               removed : SUBSET Duplicates]]
    /\ \A s \in Servers :
        IF server[s].pc = "executed" THEN server[s].at \in server[s].todo
        ELSE server[s].at = 0 /\ server[s].removed = {}
    /\ faults \in 0..MaxFaults

\* The versions applied are all those up to the highest, whatever crashed where
\* and whoever applied them, so that reading the maximum is enough.
NoGaps == \A v \in applied : \A w \in Versions : w < v => w \in applied

\* A server that is up runs on a schema with every migration it knows, also
\* when another server applied them in its place.
UpMeansMigrated ==
    \A s \in Servers : server[s].pc = "up" => Versions \subseteq applied

\* Once version 10 has set the timeouts, only the operator changes them: no
\* start, alone or next to another, runs it a second time.
OnlyOperatorChanges ==
    [][(SetsTimeouts \in applied /\ timeout' # timeout)
            => timeout' = "operator"]_vars

\* Every server comes up in the end: it loses the race for a version at most
\* once per version, and duplicates that arrive under the migration only delay it.
EveryServerComesUp == \A s \in Servers : <>(server[s].pc = "up")
=============================================================================
