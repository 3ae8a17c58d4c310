----------------------------- MODULE DomainBans -----------------------------
(***************************************************************************)
(* The ban lifecycle Active -> Banned -> Cooldown -> Recovery Test ->      *)
(* Active of every (proxy, machine, domain) scope, as routed requests      *)
(* drive it:                                                               *)
(*   - BanRepository (internal/repository/ban_repository.go), both         *)
(*     drivers: on Mongo most operations are several calls, on Postgres    *)
(*     most are one statement; every call is one step here, so calls of    *)
(*     concurrent requests interleave;                                     *)
(*   - the ban part of UsageTracker.RecordRequest (internal/proxy/         *)
(*     usage.go), which runs in a goroutine of its own after the answer;   *)
(*   - the claim and the choice of a proxy by which a checkout starts a    *)
(*     request (internal/repository/assignment_repository.go).             *)
(*                                                                         *)
(* A request is a slot of Requests: idle, then "sent" upstream, then, when *)
(* the answer is recorded, at one of the calls of RecordRequest. The       *)
(* recording runs under a 5 s context, far shorter than a tick: the clock  *)
(* does not advance during one (Tick), but other requests' calls do.       *)
(***************************************************************************)
EXTENDS BanRows, FiniteSets

CONSTANTS
    Proxies, Machines, Domains,
    InfraDomains,      \* the domains isInfraDomain filters out
    Requests,          \* bound: requests in flight at once
    IsMongo,           \* db.IsMongo(): the driver
    MaxFlight,         \* bound: ticks from the checkout of a request to its record
    LogCap             \* bound: observations counted per scope

ASSUME InstanceAssumption ==
    /\ IsMongo \in BOOLEAN
    /\ InfraDomains \subseteq Domains
    /\ MaxFlight \in Nat
    /\ LogCap \in Nat
    /\ IsFiniteSet(Proxies) /\ IsFiniteSet(Machines) /\ IsFiniteSet(Domains)

\* A request is answered (or times out) before a fresh ban's first trial and
\* before a trial's hold expires: minutes against 30 and 60 minutes.
ShortFlights ==
    /\ MaxFlight < InitialCooldown
    /\ MaxFlight < TrialHoldWindow

VARIABLES
    bans,              \* proxy_domain_bans
    confirmed,         \* confirmed_domains
    confirmedCache,    \* BanRepository.confirmedCache of the proxy process
    req,               \* the requests in flight
    recoveryEvents     \* recovery_events: observations banked per scope

vars == <<bans, confirmed, confirmedCache, req, recoveryEvents>>

-----------------------------------------------------------------------------

Scope == [proxy : Proxies, machine : Machines, domain : Domains]

\* Where a request stands: upstream, or at a call of RecordRequest.
Recording == {"success_read", "success_write", "recovery_event",
              "failure_count", "failure_ban", "trial_write", "trial_event"}
Pc == {"idle", "sent"} \cup Recording

\* read: what the FindOne/SELECT of the call returned (the fields it selects).
Slot == [pc : Pc, scope : Scope \cup {Nil}, trial : BOOLEAN,
         age : 0..MaxFlight, read : Row]

Idle == [pc |-> "idle", scope |-> Nil, trial |-> FALSE, age |-> 0,
         read |-> NoRow]

Sent(s, isTrial) == [Idle EXCEPT !.pc = "sent", !.scope = s, !.trial = isTrial]

At(r, pc) == req[r].pc = pc

\* The row of the scope that request r is about.
RowOf(r) == bans[req[r].scope]

Write(s, row) == bans' = [bans EXCEPT ![s] = row]

Goto(r, pc) == req' = [req EXCEPT ![r].pc = pc]

Done(r) == req' = [req EXCEPT ![r] = Idle]

\* After RecordSuccess returns: a trial goes on to RecordTrialEvent.
AfterRecordSuccess(slot) ==
    IF slot.trial THEN [slot EXCEPT !.pc = "trial_event", !.read = NoRow] ELSE Idle

Init ==
    /\ bans = [s \in Scope |-> NoRow]
    /\ confirmed = {}
    /\ confirmedCache = {}
    /\ req = [r \in Requests |-> Idle]
    /\ recoveryEvents = [s \in Scope |-> 0]

-----------------------------------------------------------------------------
(* Starting a request.                                                     *)

DueScopes(m, d) ==
    {s \in Scope : s.machine = m /\ s.domain = d /\ Due(bans[s])}

\* Slip: the sort descends.
LatestDue(m, d) ==
    {s \in DueScopes(m, d) :
        \A t \in DueScopes(m, d) :
            bans[s].next_probe_at >= bans[t].next_probe_at}

\* The sort of ClaimTrialProxy: next_probe_at ascending.
SoonestDue(m, d) ==
    {s \in DueScopes(m, d) :
        \A t \in DueScopes(m, d) :
            bans[s].next_probe_at <= bans[t].next_probe_at}

\* Postgres skips rows that another statement has locked (SKIP LOCKED), so a
\* claim may pass over the soonest.
Claimable(m, d) == IF IsMongo THEN SoonestDue(m, d) ELSE DueScopes(m, d)

\* ClaimTrialProxy, and the claimed proxy is globally healthy: the request is
\* routed through it as a trial.
ClaimTrial(r, m, d) ==
    /\ At(r, "idle")
    /\ \E s \in Claimable(m, d) :
        /\ Write(s, AfterClaim(bans[s]))
        /\ req' = [req EXCEPT ![r] = Sent(s, TRUE)]
    /\ UNCHANGED <<confirmed, confirmedCache, recoveryEvents>>

\* The claimed proxy is deleted or globally failed (its status is owned by
\* the proxy catalogue), or the claim's answer is lost: the hold stays, the checkout goes on to a Dispatch.
ClaimWithoutTrial(m, d) ==
    /\ \E s \in Claimable(m, d) : Write(s, AfterClaim(bans[s]))
    /\ UNCHANGED <<confirmed, confirmedCache, req, recoveryEvents>>

\* A normal choice, sticky or fresh. It is meant to be of a proxy not banned for
\* the scope, but errors pass for the answer "not banned": IsBanned's query on
\* Postgres, and on both drivers a scan of BannedProxyIDsForDomain that breaks off.
Dispatch(r, s) ==
    /\ At(r, "idle")
    /\ req' = [req EXCEPT ![r] = Sent(s, FALSE)]
    /\ UNCHANGED <<bans, confirmed, confirmedCache, recoveryEvents>>

\* A checkout hands out a proxy whose ban an error has hidden from it.
DispatchBanned ==
    \E r \in Requests, s \in Scope : Banned(bans[s]) /\ Dispatch(r, s)

-----------------------------------------------------------------------------
(* RecordRequest, a normal request.                                        *)

\* Slip: no test for a confirmed domain.
IsDomainConfirmedAlways(d) == TRUE

\* isInfraDomain: ads, trackers, push services.
IsInfraDomain(d) == d \in InfraDomains

\* IsDomainConfirmed: cache first, then the collection.
IsDomainConfirmed(d) == d \in confirmedCache \cup confirmed

\* Success: MarkDomainConfirmed. A write that times out is ignored
\* (shouldIgnoreUsageDBError) and RecordSuccess runs all the same.
ReportSuccess(r) ==
    LET d == req[r].scope.domain IN
    /\ At(r, "sent") /\ ~req[r].trial
    /\ ~IsInfraDomain(d)
    /\ \/ /\ confirmed' = confirmed \cup {d}
          /\ confirmedCache' = confirmedCache \cup {d}
       \/ /\ d \notin confirmedCache
          /\ UNCHANGED <<confirmed, confirmedCache>>
    /\ Goto(r, "success_read")
    /\ UNCHANGED <<bans, recoveryEvents>>

\* Failure on a domain that has had a real success.
ReportFailure(r) ==
    LET d == req[r].scope.domain IN
    /\ At(r, "sent") /\ ~req[r].trial
    /\ ~IsInfraDomain(d)
    /\ IsDomainConfirmed(d)
    /\ confirmedCache' = confirmedCache \cup {d}
    /\ Goto(r, "failure_count")
    /\ UNCHANGED <<bans, confirmed, recoveryEvents>>

\* Infra domains, and failures on domains not confirmed yet, do not count.
IgnoreResult(r) ==
    LET d == req[r].scope.domain IN
    /\ At(r, "sent") /\ ~req[r].trial
    /\ IsInfraDomain(d) \/ ~IsDomainConfirmed(d)
    /\ Done(r)
    /\ UNCHANGED <<bans, confirmed, confirmedCache, recoveryEvents>>

\* RecordFailure on Mongo, call 1: $inc; the count returned decides on call 2.
CountFailure(r) ==
    LET row == AfterFailureCount(RowOf(r)) IN
    /\ IsMongo
    /\ At(r, "failure_count")
    /\ Write(req[r].scope, row)
    /\ IF row.failed_count >= FailureThreshold
       THEN Goto(r, "failure_ban")
       ELSE Done(r)
    /\ UNCHANGED <<confirmed, confirmedCache, recoveryEvents>>

\* RecordFailure on Mongo, call 2: the ban, whatever the row holds by now.
BanScope(r) ==
    /\ IsMongo
    /\ At(r, "failure_ban")
    /\ Write(req[r].scope, AfterBan(RowOf(r)))
    /\ Done(r)
    /\ UNCHANGED <<confirmed, confirmedCache, recoveryEvents>>

\* RecordFailure on Postgres: one statement.
UpsertFailure(r) ==
    /\ ~IsMongo
    /\ At(r, "failure_count")
    /\ Write(req[r].scope, AfterFailureUpsert(RowOf(r)))
    /\ Done(r)
    /\ UNCHANGED <<confirmed, confirmedCache, recoveryEvents>>

-----------------------------------------------------------------------------
(* RecordSuccess, both drivers: read, write, then bank the recovery if the *)
(* read saw a ban. A passed trial enters here (RecordProbeResult).         *)

ReadBeforeSuccess(r) ==
    /\ \/ At(r, "success_read")
       \/ At(r, "sent") /\ req[r].trial
    /\ req' = [req EXCEPT ![r].pc = "success_write",
                          ![r].read = [NoRow EXCEPT !.state = RowOf(r).state,
                                                    !.banned_at = RowOf(r).banned_at]]
    /\ UNCHANGED <<bans, confirmed, confirmedCache, recoveryEvents>>

\* Whether the row RecordSuccess read was banned with a banned_at.
SawBan(read) == Banned(read) /\ read.banned_at # Nil

WriteSuccess(r) ==
    LET slot == req[r] IN
    /\ At(r, "success_write")
    /\ Write(slot.scope, AfterSuccess(RowOf(r)))
    /\ req' = [req EXCEPT ![r] = IF SawBan(slot.read)
                                 THEN [slot EXCEPT !.pc = "recovery_event"]
                                 ELSE AfterRecordSuccess(slot)]
    /\ UNCHANGED <<confirmed, confirmedCache, recoveryEvents>>

\* recordRecoveryEvent: a recovery of less than a second is dropped, an
\* insert that fails is swallowed.
BankRecovery(r) ==
    /\ At(r, "recovery_event")
    /\ \/ recoveryEvents' = [recoveryEvents EXCEPT ![req[r].scope] = Bump(@, LogCap)]
       \/ UNCHANGED recoveryEvents
    /\ req' = [req EXCEPT ![r] = AfterRecordSuccess(@)]
    /\ UNCHANGED <<bans, confirmed, confirmedCache>>

-----------------------------------------------------------------------------
(* A failed trial: RecordProbeResult(false) reads attempt and ban age,     *)
(* then writes the next schedule; then the audit entry.                    *)

ReadBeforeTrialFailure(r) ==
    /\ At(r, "sent") /\ req[r].trial
    /\ RowOf(r).state # "absent"
    /\ req' = [req EXCEPT ![r].pc = "trial_write",
                          ![r].read = [NoRow EXCEPT
                              !.probe_attempt = RowOf(r).probe_attempt,
                              !.banned_at = RowOf(r).banned_at]]
    /\ UNCHANGED <<bans, confirmed, confirmedCache, recoveryEvents>>

\* The scope was cleared while its trial was out: ErrNoDocuments/ErrNoRows
\* fails RecordRequest, before the audit entry.
TrialScopeGone(r) ==
    /\ At(r, "sent") /\ req[r].trial
    /\ RowOf(r).state = "absent"
    /\ Done(r)
    /\ UNCHANGED <<bans, confirmed, confirmedCache, recoveryEvents>>

WriteTrialFailure(r) ==
    /\ At(r, "trial_write")
    /\ Write(req[r].scope, AfterFailedTrial(RowOf(r), req[r].read))
    /\ req' = [req EXCEPT ![r].pc = "trial_event", ![r].read = NoRow]
    /\ UNCHANGED <<confirmed, confirmedCache, recoveryEvents>>

\* RecordTrialEvent: a read of probe_attempt and an insert in an audit trail
\* that only the dashboard reads; the entry itself is left out.
LogTrial(r) ==
    /\ At(r, "trial_event")
    /\ Done(r)
    /\ UNCHANGED <<bans, confirmed, confirmedCache, recoveryEvents>>

-----------------------------------------------------------------------------
(* Failures, the operator and the clock.                                   *)

\* The request goes no further: the client left, a statistics write failed
\* before the ban accounting, or the 5 s context expired between two calls.
Lose(r) ==
    /\ ~At(r, "idle")
    /\ Done(r)
    /\ UNCHANGED <<bans, confirmed, confirmedCache, recoveryEvents>>

\* The process restarts: the goroutines and the cache are gone.
Restart ==
    /\ req' = [r \in Requests |-> Idle]
    /\ confirmedCache' = {}
    /\ UNCHANGED <<bans, confirmed, recoveryEvents>>

\* ListCooldowns, and ListBans with a classification to filter by: what the
\* dashboard and /api/v1/bans show.
ListCooldowns == {s \in Scope : Banned(bans[s])}

ListBans(classification) ==
    {s \in ListCooldowns : ClassifyBan(bans[s]) = classification}

\* ClearAllCooldowns. Postgres deletes in one statement; Mongo's DeleteMany
\* deletes document by document, here any part of them per step.
ClearCooldowns ==
    LET all == ListCooldowns IN
    /\ \E S \in IF IsMongo THEN SUBSET all ELSE {all} :
        /\ S # {}
        /\ bans' = [s \in Scope |-> IF s \in S THEN NoRow ELSE bans[s]]
    /\ UNCHANGED <<confirmed, confirmedCache, req, recoveryEvents>>

\* How many banned scopes are due after s by now.
LaterDue(s) ==
    Cardinality({t \in Scope : /\ Banned(bans[t])
                               /\ bans[t].next_probe_at \in Int
                               /\ bans[t].next_probe_at <= 1
                               /\ bans[t].next_probe_at > bans[s].next_probe_at})

\* A row one tick later. Once due, only the order of the due times shows
\* (SoonestDue), so a due row keeps minus its rank instead of its lateness.
\* A parked trial stays parked: 100 years.
Aged(s) ==
    LET row == bans[s] IN
    [row EXCEPT
        !.banned_at = IF @ = Nil THEN Nil ELSE Bump(@, AgeCap),
        !.next_probe_at = IF @ = Nil \/ @ = ParkedWait THEN @
                          ELSE IF @ > 1 THEN @ - 1
                          ELSE -LaterDue(s)]

\* The clock. It advances neither during a recording nor past MaxFlight.
ClockFree ==
    \A r \in Requests : \/ At(r, "idle")
                        \/ At(r, "sent") /\ req[r].age < MaxFlight

Tick ==
    /\ ClockFree
    /\ bans' = [s \in Scope |-> Aged(s)]
    /\ req' = [r \in Requests |->
                  IF At(r, "sent") THEN [req[r] EXCEPT !.age = @ + 1] ELSE req[r]]
    /\ UNCHANGED <<confirmed, confirmedCache, recoveryEvents>>

-----------------------------------------------------------------------------

\* The steps by which a request in flight ends.
Progress(r) ==
    \/ ReportSuccess(r) \/ ReportFailure(r) \/ IgnoreResult(r)
    \/ CountFailure(r) \/ BanScope(r) \/ UpsertFailure(r)
    \/ ReadBeforeSuccess(r) \/ WriteSuccess(r) \/ BankRecovery(r)
    \/ ReadBeforeTrialFailure(r) \/ TrialScopeGone(r)
    \/ WriteTrialFailure(r) \/ LogTrial(r)
    \/ Lose(r)

Start ==
    \/ \E r \in Requests, m \in Machines, d \in Domains : ClaimTrial(r, m, d)
    \/ \E m \in Machines, d \in Domains : ClaimWithoutTrial(m, d)
    \/ \E r \in Requests, s \in Scope : Dispatch(r, s)

Next ==
    \/ Start
    \/ \E r \in Requests : Progress(r)
    \/ Restart
    \/ ClearCooldowns
    \/ Tick

Spec == Init /\ [][Next]_vars

\* Scheduling. A recording runs to its end or to its 5 s timeout. Time does
\* not stop, and overlapping recordings, a few seconds each, do not hold the
\* clock for ever. The database errors that let a banned proxy through come to
\* an end (on Mongo every failure through one renews its ban and its cooldown).
\* Routed requests for a (machine, domain) keep coming, and every one of them
\* tries to claim first.
Fairness ==
    /\ \A r \in Requests : WF_vars(Progress(r))
    /\ []<>ClockFree
    /\ SF_vars(Tick)
    /\ <>[][~DispatchBanned]_vars
    /\ \A m \in Machines, d \in Domains :
        WF_vars(ClaimWithoutTrial(m, d) \/ \E r \in Requests : ClaimTrial(r, m, d))

FairSpec == Spec /\ Fairness

-----------------------------------------------------------------------------
(* Properties.                                                             *)

TypeOK ==
    /\ bans \in [Scope -> Row]
    /\ confirmed \subseteq Domains
    /\ confirmedCache \subseteq Domains
    /\ req \in [Requests -> Slot]
    /\ \A r \in Requests : At(r, "idle") \/ req[r].scope \in Scope
    /\ recoveryEvents \in [Scope -> 0..LogCap]

\* No ban is stranded: a banned row always carries the date of its ban and a
\* next trial (ClaimTrialProxy's filter never matches a NULL, so a banned row
\* without one would stay banned for good), and no success counted since
\* (what classifyBan's never_recovered relies on).
BannedIsScheduled ==
    \A s \in Scope : Banned(bans[s]) =>
        /\ bans[s].banned_at # Nil
        /\ bans[s].next_probe_at # Nil
        /\ bans[s].successful_since_recovery = 0

\* Junk domains never enter the accounting: a counted failure or a ban is on
\* a domain that has produced a real success, whichever proxy and machine
\* saw it, and across restarts of the process and its cache.
OnlyConfirmedDomainsCount ==
    \A s \in Scope : (bans[s].failed_count > 0 \/ Banned(bans[s])) =>
        /\ s.domain \in confirmed
        /\ s.domain \notin InfraDomains

\* At most one request at a time is out as the trial of a scope, as long as
\* requests are shorter than the hold and than a fresh ban's cooldown:
\* the hold of ClaimTrialProxy, the backoff of RecordProbeResult and the
\* cooldown of RecordFailure never make the scope due under a running trial.
OneTrialPerScope ==
    ShortFlights =>
        \A q, r \in Requests :
            /\ At(q, "sent") /\ req[q].trial
            /\ At(r, "sent") /\ req[r].trial
            /\ req[q].scope = req[r].scope
            => q = r

\* A scope is banned exactly when its streak is at the threshold
\* ("failureThreshold is the number of consecutive failures within a scope
\* before the proxy is banned for that scope", ban_repository.go:93).
BannedIffStreak ==
    \A s \in Scope : Banned(bans[s]) <=> bans[s].failed_count >= FailureThreshold

\* A ban stands on a streak: no success came between the failures that
\* reached the threshold and the ban (the same line of the code, for the
\* driver that counts and bans in two calls).
BannedMeansStreak ==
    \A s \in Scope : Banned(bans[s]) => bans[s].failed_count >= FailureThreshold

\* While a ban lasts its ladder only climbs: "Repeat failures while already
\* banned ... do not change the probe attempt counter (that's owned by
\* RecordProbeResult)" (ban_repository.go:388). Postgres keeps it; Mongo's ban
\* call starts the ladder anew whatever the row has become since the count.
LadderOnlyClimbs ==
    [][\A s \in Scope : Banned(bans[s]) /\ Banned(bans'[s]) =>
           bans'[s].probe_attempt >= bans[s].probe_attempt]_vars

\* While a ban lasts its next trial is never pulled forward: what postpones
\* it (a claim, a failed trial) is not undone by another request's result
\* (Postgres: a repeat failure of a banned scope leaves the schedule alone).
NeverPulledForward ==
    [][Tick \/ \A s \in Scope : Banned(bans[s]) /\ Banned(bans'[s]) =>
           bans'[s].next_probe_at >= bans[s].next_probe_at]_vars

\* With STOP_PROBING_PERMANENT a scope leaves the rotation for good only with
\* enough failed trials on its row: nextProbeAfterFailedTrial judges an attempt
\* that was read before other requests lifted or renewed the ban, and what it
\* parks still carries that attempt (a ban renewed in between restarts at 0
\* with a schedule of its own, and is never left parked at 0).
ParkedAfterEnoughTrials ==
    \A s \in Scope :
        Banned(bans[s]) /\ bans[s].next_probe_at = ParkedWait
            => bans[s].probe_attempt >= PermanentTrialThreshold

\* "Permanent" is a verdict on the ban: once the operator has read it in the
\* list, the scope stays in it until the ban ends. A claim, a stale trial
\* result or a repeat failure does not put a definitive ban back among the
\* recovering ones.
PermanentStaysPermanent ==
    [][\A s \in ListBans("permanent") :
           s \in ListBans("permanent")' \/ ~Banned(bans'[s])]_vars

\* What the rows are to BanCycle: a banned scope has a full streak and the
\* ladder of its probe_attempt, any other the streak of its failed_count.
CycleOf(row) ==
    IF Banned(row)
    THEN [streak |-> FailureThreshold, attempt |-> row.probe_attempt]
    ELSE [streak |-> row.failed_count, attempt |-> 0]

Cycle == INSTANCE BanCycle WITH
    Scopes <- Scope,
    Threshold <- FailureThreshold,
    cycle <- [s \in Scope |-> CycleOf(bans[s])]

\* On Postgres the rows, with all the calls, late answers and stale reads of
\* concurrent requests, implement the simple cycle of BanCycle: bans come from
\* failures in a row only, end by successes and clears only, and climb.
ImplementsCycle == Cycle!Spec

\* Every ban comes up for a trial (unless it ends before), and every scope
\* that is due gets claimed: requests through one proxy's scope cannot
\* starve another proxy of the same (machine, domain).
EveryBanComesDue ==
    \A s \in Scope : Banned(bans[s]) ~> (Due(bans[s]) \/ ~Banned(bans[s]))

EveryDueTrialIsClaimed ==
    \A s \in Scope : Due(bans[s]) ~> ~Due(bans[s])
=============================================================================
