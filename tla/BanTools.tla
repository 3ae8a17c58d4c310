------------------------------ MODULE BanTools ------------------------------
(***************************************************************************)
(* The operator's command line tools (core/cmd/) at work on the ban rows   *)
(* while the server of DomainBans runs on the same database: banip,        *)
(* resetcooldown, clearbans, unbanreachable and recoverybackfill. They     *)
(* are processes of their own, speak to Mongo only, take no lock, and are  *)
(* modelled with APPLY=1 (a dry run writes nothing). An UpdateMany or a    *)
(* DeleteMany works document by document: here any part of the documents   *)
(* per step, so that the server's calls fall in between and a tool that is *)
(* killed leaves the rest undone.                                          *)
(***************************************************************************)
EXTENDS DomainBans

CONSTANTS
    BanIpCooldown,     \* banip -cooldown: wait before the first trial
    HistoryCap         \* historyCap: durations kept on a row

ASSUME ToolsAssumption ==
    /\ IsMongo
    /\ BanIpCooldown \in Nat
    /\ HistoryCap \in Nat

VARIABLES
    history,           \* recovery_history: durations on the row of a scope
    backfilled,        \* rows of recovery_events marked backfilled
    backfill,          \* the run of recoverybackfill
    unbanning,         \* unbanreachable: documents it read and has not written
    touched            \* history: scopes the operator banned or hurried by hand

toolVars == <<history, backfilled, backfill, unbanning, touched>>

PerScope == [Scope -> 0..HistoryCap]
None == [s \in Scope |-> 0]
NotBackfilling == [pc |-> "idle", rows |-> None]

ToolsInit ==
    /\ Init
    /\ history = None
    /\ backfilled = None
    /\ backfill = NotBackfilling
    /\ unbanning = {}
    /\ touched = {}

Gone(s) == bans[s].state = "absent"

\* A document that is deleted takes its recovery_history along, and an insert
\* of the same scope gets another _id than the one unbanreachable has read.
RowsGo ==
    /\ history' = [s \in Scope |-> IF Gone(s)' THEN 0 ELSE history[s]]
    /\ unbanning' = {s \in unbanning : ~Gone(s)'}

-----------------------------------------------------------------------------
(* The server.                                                             *)

\* RecordSuccess pushes the duration of the recovery it saw onto the row, in
\* the call that writes the row. A duration below one second is pushed too,
\* but neither tool nor estimate counts it, and it is left out here.
PushesRecovery(r) == At(r, "success_write") /\ At(r, "recovery_event")'

PushRecovery(r) ==
    /\ WriteSuccess(r)
    /\ PushesRecovery(r)
    /\ history' = [history EXCEPT ![req[r].scope] = Bump(@, HistoryCap)]
    /\ UNCHANGED <<backfilled, backfill, unbanning, touched>>

ServerStep ==
    /\ Next
    /\ RowsGo
    /\ UNCHANGED <<backfilled, backfill, touched>>

-----------------------------------------------------------------------------
(* banip, resetcooldown, clearbans, unbanreachable.                        *)

ServerKeeps == UNCHANGED <<confirmed, confirmedCache, req, recoveryEvents>>

\* banip's $set with upsert: a ban with a full streak and a schedule of the
\* operator's, whatever the row held.
AfterBanIp(row) ==
    [row EXCEPT !.state = "banned",
                !.failed_count = FailureThreshold,
                !.banned_at = 0,
                !.next_probe_at = BanIpCooldown,
                !.probe_attempt = 0,
                !.successful_since_recovery = 0]

BanIp(s) ==
    /\ Write(s, AfterBanIp(bans[s]))
    /\ touched' = touched \cup {s}
    /\ ServerKeeps
    /\ UNCHANGED <<history, backfilled, backfill, unbanning>>

\* time.Unix(0, 0): before every other due time.
Epoch == -Cardinality(Scope)

AfterReset(row) ==
    IF Banned(row) THEN [row EXCEPT !.next_probe_at = Epoch, !.probe_attempt = 0]
    ELSE row

ResetCooldown ==
    \E S \in SUBSET {s \in Scope : ~Gone(s)} :
        /\ S # {}
        /\ bans' = [s \in Scope |-> IF s \in S THEN AfterReset(bans[s]) ELSE bans[s]]
        /\ touched' = touched \cup {s \in S : Banned(bans[s])}
        /\ ServerKeeps
        /\ UNCHANGED <<history, backfilled, backfill, unbanning>>

ClearBans ==
    \E S \in SUBSET {s \in Scope : ~Gone(s)} :
        /\ S # {}
        /\ bans' = [s \in Scope |-> IF s \in S THEN NoRow ELSE bans[s]]
        /\ RowsGo
        /\ ServerKeeps
        /\ UNCHANGED <<backfilled, backfill, touched>>

\* unbanreachable reads the banned documents, then probes them all; the
\* probes take up to ten minutes (here: any time).
StartUnbanning ==
    /\ unbanning = {}
    /\ unbanning' = ListCooldowns
    /\ ServerKeeps
    /\ UNCHANGED <<bans, history, backfilled, backfill, touched>>

\* A probe passed: UpdateOne by _id, with no look at what the row is by now.
\* The fields are those of RecordSuccess, without its recovery_history.
Unban(s) ==
    /\ s \in unbanning
    /\ Write(s, AfterSuccess(bans[s]))
    /\ unbanning' = unbanning \ {s}
    /\ ServerKeeps
    /\ UNCHANGED <<history, backfilled, backfill, touched>>

\* A probe failed, the write failed, or the tool was killed.
LeaveBanned(s) ==
    /\ s \in unbanning
    /\ unbanning' = unbanning \ {s}
    /\ ServerKeeps
    /\ UNCHANGED <<bans, history, backfilled, backfill, touched>>

-----------------------------------------------------------------------------
(* recoverybackfill: read the histories, delete the rows of earlier runs,  *)
(* insert a row per duration. The operator runs one at a time.             *)

BackfillKeeps ==
    /\ ServerKeeps
    /\ UNCHANGED <<bans, history, unbanning, touched>>

\* "nothing to backfill" when no row has a history.
ReadHistories ==
    /\ backfill.pc = "idle"
    /\ history # None
    /\ backfill' = [pc |-> "read", rows |-> history]
    /\ BackfillKeeps
    /\ UNCHANGED backfilled

\* Slip: rows of earlier runs are kept.
ClearedNot(rows) == rows

Cleared(rows) == None

DeletePrevious ==
    /\ backfill.pc = "read"
    /\ backfilled' = Cleared(backfilled)
    /\ backfill' = [backfill EXCEPT !.pc = "cleared"]
    /\ BackfillKeeps

InsertRows ==
    /\ backfill.pc = "cleared"
    /\ backfilled' = [s \in Scope |-> backfilled[s] + backfill.rows[s]]
    /\ backfill' = NotBackfilling
    /\ BackfillKeeps

\* Killed or failed: the DeleteMany or the InsertMany got through in part.
BackfillFails ==
    /\ backfill.pc # "idle"
    /\ \E rows \in PerScope :
        /\ \A s \in Scope :
            rows[s] <= IF backfill.pc = "read" THEN backfilled[s]
                       ELSE backfill.rows[s]
        /\ backfilled' = rows
    /\ backfill' = NotBackfilling
    /\ BackfillKeeps

-----------------------------------------------------------------------------

ToolsNext ==
    \/ ServerStep
    \/ \E r \in Requests : PushRecovery(r)
    \/ \E s \in Scope : BanIp(s) \/ Unban(s) \/ LeaveBanned(s)
    \/ ResetCooldown \/ ClearBans \/ StartUnbanning
    \/ ReadHistories \/ DeletePrevious \/ InsertRows \/ BackfillFails

ToolsSpec == ToolsInit /\ [][ToolsNext]_<<vars, toolVars>>

-----------------------------------------------------------------------------
(* Properties.                                                             *)

\* With the tools on the same rows, a failure still counts, and a scope is
\* still banned, only where its domain had a real success, unless the operator
\* banned that scope by hand: clears, resets and late unbans between the two
\* calls of a RecordFailure leave no junk behind.
JunkOnlyByHand ==
    \A s \in Scope \ touched :
        bans[s].failed_count > 0 \/ Banned(bans[s]) =>
            s.domain \in confirmed \ InfraDomains

\* A second real request goes through a banned proxy while its trial is out
\* only if the operator hurried that scope: rows that are cleared, unbanned or
\* banned anew under a running trial are not due before it is over.
SecondTrialOnlyByHand ==
    ShortFlights =>
        \A q, r \in Requests :
            /\ At(q, "sent") /\ req[q].trial
            /\ At(r, "sent") /\ req[r].trial
            /\ req[q].scope = req[r].scope
            /\ req[q].scope \notin touched
            => q = r

\* "Re-running is safe: rows written by a previous run are deleted first, so
\* the tool converges rather than multiplying observations"
\* (recoverybackfill/main.go:18), killed runs and rows cleared in between
\* included: never more rows than a document can hold durations.
BackfillConverges == \A s \in Scope : backfilled[s] <= HistoryCap
=============================================================================
