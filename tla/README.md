# Rota proxy management: TLA+ models

This directory is a verification development for the Go server under
`src/core`: TLA+ modules translated from the source, TLC configurations that
check them on small instances, and TLAPS proofs for every value of the
constants. Paths below are relative to `src/core/internal` unless they say
otherwise. Tables of definitions against source lines, runs, mutants, findings,
hazards and theorems are in `PROJECT.json`.

- [1. Inventory](#1-inventory)
- [2. Plan](#2-plan)
- [3. What is modelled now](#3-what-is-modelled-now)
- [4. Runs, bounds, fairness](#4-runs-bounds-fairness)
- [5. Proofs](#5-proofs)
- [6. Disagreements between code and comments](#6-disagreements-between-code-and-comments)
- [7. What is not modelled](#7-what-is-not-modelled)

## 1. Inventory

The server accepts scrapers' requests on a proxy port, sends each through one
of many upstream proxies, and learns from the results which proxy is banned by
which site for which machine. A dashboard and an HTTP API manage proxies,
settings and auxiliary listeners. There are two database drivers: MongoDB (the
deployed one), where an operation is often several calls, and Postgres, where
most operations are one statement. `db.IsMongo()` chooses.

How the parts interact on the request path:

    scraper -> proxy handler -> AssignmentRepository.Checkout -> upstream proxy
                                  |  ClaimTrialProxy / IsBanned      |
                                  v                                  v  (answer)
                             BanRepository <---- UsageTracker.RecordRequest
                                                 (goroutine, 5 s context)

| Component (files) | State | Operations | Hard behaviour | What makes it correct |
|---|---|---|---|---|
| **Ban lifecycle**, `repository/ban_repository.go` | `proxy_domain_bans`, one row per (proxy, machine, domain); `confirmed_domains` and its in-process cache | `RecordSuccess`, `RecordFailure`, `RecordProbeResult`, `ClaimTrialProxy`, `IsBanned`, `MarkDomainConfirmed`, `IsDomainConfirmed`, `ClearAllCooldowns` | results of concurrent requests interleave call by call and arrive late; lost trials; restarts; operator clears | no ban is stranded; only failures in a row ban; only real domains count; one trial at a time; ladder and schedule only move forward; every ban is eventually retried |
| **Usage accounting**, `proxy/usage.go` | none of its own | `RecordRequest`, `RecordHealthCheck` | runs after the answer, under a timeout, in the order answers come; fails between two writes | the ban accounting above; global status follows consecutive failures |
| **Recovery observations**, `repository/recovery_estimates.go` | `recovery_events` | `recordRecoveryEvent`, aggregation | best effort, from an earlier read | one observation per recovery, made by trials |
| **Checkout**, `repository/assignment_repository.go` | `proxy_assignments`, last pick per (machine, country) | `Checkout`, `CheckoutRotate`, `Release` | lookup, status, ban filter, choice and upsert are separate calls; concurrent callers share an assignment and a last pick | a banned proxy is only handed out as a trial; a refusal is true; an eligible assignment is reused; no immediate repeat in rotate mode |
| **Proxy handler**, `proxy/handler.go`, `routing.go`, `transport.go` | none across requests | `sendViaRoutedProxy`, `ConnectThroughChosenProxy`, retries and fallback | records in a goroutine after the answer | every result is recorded under the scope it was routed for |
| **Catalogue and health**, `repository/proxy_repository.go`, `proxy/healthcheck.go` | `proxies` (status, consecutive failures) | create, delete, `UpdateProxyAfterRequest`, `RecordHealthCheckResult` | count and status written by two calls on Mongo; ids are max + 1 under a unique index, and the highest one is reused after a deletion | failed exactly after three failures in a row; a new proxy does not inherit an old one's bans |
| **Auxiliary listeners**, `proxy/aux_listener.go` | port -> live socket | `Start` (strict), `Apply` (reconcile), `Close` | ports held by others; listeners that swap ports | bound ports = desired minus reported failures; unchanged listeners are untouched |
| **Listener sync**, `services/listener_sync.go` | `.env` file, in-memory configuration, sockets | `Add`, `Update`, `Delete`, `applyLive` | file, memory and sockets change one after the other; crash; parse of what was rendered | what is bound live is what a restart would bind |
| **Selectors, settings**, `proxy/rotation.go`, `server.go`, `repository/settings_repository.go` | cached proxy list, round-robin index, settings | `Select`, `Refresh`, `ReloadSettings`, `UpdateAll` | partial failure of a reload; pointers replaced unlocked | settings and selector belong together; index in range |
| **Rate limit, authentication**, `proxy/middleware.go` | limiter per client IP | `allow`, `UpdateSettings`, `CleanupLimiters` | map growth; reset on reload | bound on what an interval lets through |
| **Catalogue's ids and countries**, `repository/proxy_repository.go`, `services/country_detector.go` | ids, countries, rows of other tables that name a proxy | create (also in bulk), update, delete, detection pass | late writes for a deleted proxy; ids read before the insert; a batch full of proxies without an answer | a proxy never inherits another one's history; every proxy is located |
| **Start and migrations**, `cmd/server/main.go`, `database/migrations.go` | `schema_migrations`, the schema | `Migrate`, start, crash, restart | two servers at once; version 10 listed after 15; duplicates arriving under a unique constraint | no version skipped; none run twice; every server comes up |
| Log stream, `api/handlers/websocket_handler.go`, `repository/log_repository.go` | cursor, filter, bounded channel | poll, send | nothing writes the logs it polls | section 7 |
| **Operator tools**, `src/core/cmd/*` | none | `banip`, `clearbans`, `resetcooldown`, `resetproxies`, `unbanreachable`, `recoverybackfill` | write the same rows while requests run | keep the invariants of the ban rows |
| Log cleanup, probe worker, dashboard, logger | - | - | - | section 7 |

The hazards these behaviours amount to are listed one by one, with their line,
in `PROJECT.json`, each with the properties of section 4 that would catch it or
a note on why none does: most of the notes say that the code does the
hazardous thing, so that no property could hold.

## 2. Plan

| Order | Modules | State |
|---|---|---|
| 1 | `BanRows`, `DomainBans`, `DomainBansProofs` | done |
| 2 | `BanCycle`, the abstract cycle of a scope: `DomainBans` implements it on Postgres (also in `DomainBansProofs`) | done |
| 3 | `Checkout`, `CheckoutProofs` | done |
| 4 | `ProxyPool`, `ProxyPoolProofs`: global health, selectors, retries and the recordings they leave behind | done |
| 5 | `AuxRegistry`, `ListenerSync` (composed), `ListenerSyncProofs` | done |
| 6 | `Settings`, `SettingsProofs` | done |
| 7 | `Catalogue`, `CatalogueProofs` | done |
| 8 | `Migrations`, `MigrationsProofs` | done |
| 9 | `BanTools`, `BanToolsProofs`: the operator's tools composed with `DomainBans` | done |

Every invariant and every action property that a run checks is now a theorem;
what is left to the runs alone is liveness (section 5). To prove next: the
safety half of `AssignmentsSettle` (what a late upsert of a checkout may still write
once nothing changes outside), and, worth stating as an abstract specification
first, that file and memory of `ListenerSync` together implement one variable that a
mutation replaces as a whole or not at all.

Which module composes which: `DomainBans` is built from the writes of
`BanRows`; `BanTools` adds the tools to the server of `DomainBans`; `ListenerSync`
drives the sockets of `AuxRegistry`; `DomainBans` refines `BanCycle`. `Checkout`
and `ProxyPool` look at the same tables as `DomainBans` and let what it does
happen as changes from outside; joining them would multiply the states without
a property that needs both.

## 3. What is modelled now

### `BanRows`: one row and its writes

A row is a record of the columns that steer the lifecycle (`state`,
`failed_count`, `banned_at`, `next_probe_at`, `probe_attempt`,
`successful_since_recovery`). `state` has two extra values: `absent` (no
row) and `unset` (Mongo's upsert in `RecordFailure` inserts a document without a
state). Each repository write is an operator from row to row: `AfterSuccess`,
`AfterFailureCount` and `AfterBan` (Mongo's two calls of `RecordFailure`),
`AfterFailureUpsert` (the Postgres statement), `AfterFailedTrial`,
`AfterClaim`. `ProbeBackoff` and `NextProbeAfterFailedTrial` are the schedule.

*Time.* `next_probe_at` is kept as the wait that remains and `banned_at` as
the ban's age, in ticks. A due row keeps only the rank of its due time among
the due rows (all the sort of `ClaimTrialProxy` sees), which keeps the state
finite. A tick is long against the 5 s of a recording, so the clock stands still
while some recording is under way.

*Counters* saturate where the code stops distinguishing: `CountCap`,
`AttemptCap` (the backoff has reached its cap there), `AgeCap`; the assumption
`CapsAssumption` says so. `HoldAssumption` states the proportions of the code's
constants: the hold of a trial (60 min) is no longer than one doubling of the
base (2 x 30 min) and than the cap (24 h).

The module also holds the *slips*: variants of a write that a plausible mistake
would produce, not used by the specification. They show that a property can
fail (the mutants of `PROJECT.json`).

### `DomainBans`: the lifecycle under concurrent requests

| Variable | Code |
|---|---|
| `bans` | the collection / table `proxy_domain_bans` |
| `confirmed`, `confirmedCache` | `confirmed_domains`, `BanRepository.confirmedCache` |
| `req` | requests in flight: upstream (`sent`) or at one database call of `RecordRequest`, with what that recording has read |
| `recoveryEvents` | observations in `recovery_events`, counted per scope |

| Actions | Code |
|---|---|
| `ClaimTrial`, `ClaimWithoutTrial`, `Dispatch` | `checkoutInternal`: claim a due scope and send the request as its trial; claim, but the proxy is gone or globally failed (the hold stays); choose any proxy, a banned one too (below) |
| `ReportSuccess`, `ReportFailure`, `IgnoreResult` | the switch of `RecordRequest` up to the first ban write: infra domains and failures on unconfirmed domains are dropped, a success confirms the domain, best effort |
| `CountFailure`, `BanScope` / `UpsertFailure` | `RecordFailure` on Mongo, call by call / on Postgres |
| `ReadBeforeSuccess`, `WriteSuccess`, `BankRecovery` | `RecordSuccess`, also of a passed trial |
| `ReadBeforeTrialFailure`, `TrialScopeGone`, `WriteTrialFailure`, `LogTrial` | `RecordProbeResult(false)` and `RecordTrialEvent` |
| `Lose` | the client leaves, an earlier statistics write fails, or the context expires between two calls |
| `Restart`, `ClearCooldowns`, `Tick` | process restart; the operator's clear (document by document on Mongo); the clock |

What is abstracted: the country and port carried on the row, `last_*_at`,
the capped history of durations and the success counters that only the dashboard
reads; the content of a trial's audit entry; how `Dispatch` chooses a proxy
(`Checkout`). `Dispatch` may hand out a banned proxy on both drivers: on Postgres
`IsBanned` answers "not banned" when its query fails, and neither driver asks
whether the scan of `BannedProxyIDsForDomain` broke off. So what the runs and proofs
say of the rows does not rest on the ban filter. On Postgres a claim may pass over
a soonest row that is locked (`SKIP LOCKED`).

### `Checkout`: what concurrent callers are handed

One action per database call of `checkoutInternal` and `pickRotate`, because
everything a checkout looks at may change between two of its calls.

| Variable | Code |
|---|---|
| `assignment` | `proxy_assignments`: one row per (machine, domain) on both drivers |
| `lastPicked` | `lastPickedByScope`, in memory |
| `status`, `countryOf`, `ban` | the global status and the country of `proxies`; `proxy_domain_bans`, as clear, banned, or due (banned with its cooldown elapsed) |
| `co` | the checkouts in progress: the next call, and what was read so far |
| `seen` | history of a checkout: the proxies it met healthy, healthy in the country (`local`) or clear at some moment, those eligible and those in the country (`native`) at every moment, the assignment it had all the time |

| Actions | Code |
|---|---|
| `Start` | `Checkout` / `CheckoutRotate`, from the proxy server or the API (`allowTrial`) |
| `Claim`, `NoClaim`, `TrialProxy` | the claim of a due proxy and its status; a lost claim keeps the hold |
| `Lookup`, `StickyProxy`, `StickyBan` | the sticky path: assignment, status whatever the country, ban |
| `Pool`, `AnyPool`, `FilterBanned`, `Upsert` | the fresh path: the country's pool, the fallback, the ban filter and the choice, the row |
| `LastRead`, `LastStore` | the two critical sections of `pickRotate` |
| `Abort`, `Leave` | a call that fails and says so; the answer is taken |
| `SetStatus`, `SetCountry`, `Delete`, `SetBan`, `Release`, `Restart` | what health checks, the country detector, recordings, the API and a restart change meanwhile |

One machine is enough because every key holds the machine id. How a ban moves
between its three values is `DomainBans`; here it may do so at any time. The
random choice is any choice. `touchAssignment` and the columns `assigned_at`,
`last_used_at`, `request_count`, `target_country` of the row are statistics no
decision reads. On Postgres the foreign keys make `Delete` cascade and refuse a
late `Upsert`; on Mongo both rows outlive the proxy. With `SilentErrors`, calls
whose failure nobody reports may fail: `IsBanned` on Postgres answers "not
banned", and a scan that breaks off counts as complete (neither loop asks the
cursor for its error). It is off in the passing runs, since the properties
do not hold with it (section 6).

### `BanCycle`: what the ban lifecycle promises

One variable: per scope a streak of failures and the attempt of its ban. A scope
is banned by a full streak, counted one by one; a ban only climbs its ladder; a
success or the operator's clear ends it. No rows, requests, reads or clocks.
`DomainBans!CycleOf` maps a row to it (a banned row has a full streak), and
`DomainBans!ImplementsCycle` is the abstract specification under that mapping.
It holds on Postgres; on Mongo a ban can be written over a success (section 6).

### `BanTools`: the operator's tools beside the running server

`banip`, `resetcooldown`, `clearbans`, `unbanreachable` and `recoverybackfill` are
processes of their own that write the server's Mongo rows without a lock. Each
write of a tool is a step between any two calls of the server. New state:
`history` (the `recovery_history` of a row), `backfilled` and `backfill` (the
tool's rows and its run), `unbanning` (what `unbanreachable` has read and not yet
written), `touched` (history: scopes banned or hurried by hand). Any part of the
documents may be written per step, which is also a tool that was killed. Dry runs
write nothing and are left out; the operator runs one copy of a tool at a
time; the ten minutes `unbanreachable` gives itself are any time; recoveries under
a second, which the history drops, are left out.

### `ProxyPool`: global health, selection, retries

| Variable | Code |
|---|---|
| `row` | `proxies`: status and consecutive failures, up to the threshold of 3 |
| `list`, `index` | the selector's cached proxies and its position |
| `request` | requests and tests in progress: what they have tried |
| `job` | the database calls a recording goroutine still has to make, in order |
| `turn`, `alone`, `cut` | history for the properties |

`Begin`, `Repeats`, `Succeeds`, `Fails`, `NoProxy`, `GiveUp` are the loops of
`sendWithRetry` and `connectThroughProxy`, `HasOneProxy` the routed requests and
the tests of a proxy, `Record` and `RecordFails` the next call of a goroutine
(`updateProxyStats`, `UpdateProxyStatus`, `RecordHealthCheck`; two calls where the
driver makes two), `Refresh` the ticker. Outside: `Create`, `Delete`,
`ResetProxies` (the tool), `Restart`. Response times and success rates, which two
optional filters of the selector look at, are a constant set of proxies that pass
(`Allowed`). `Loadable` is what a query ordered by address returns: the one ascending
listing of what may be used. The index of a selector that has none (`least_conn`)
is whichever proxy has the fewest requests.

### `AuxRegistry` and `ListenerSync`: listeners, their file, their sockets

`AuxRegistry` has the process (`down`, `booting`, `up`), the sockets (`active`),
the ports other processes hold, and what `Start` or `Apply` is working towards
(`want`, `delta`), socket by socket. `ListenerSync` has the two lines of the
`.env` file, its temporary sibling, the configuration in memory and the mutation in
progress; its steps write, rename, adopt and apply, and it drives the registry.
`Crash` may fall between any two. The file is kept as the entries it was rendered
from, and `Parse` is what the next start makes of them. The dashboard takes any
text for a country: a comma splits an entry in two pieces (`Reparse`), and an
entry whose country holds a colon, or nothing after its last comma, is skipped
(`Unreadable`). Names that mix the two, or have a slash after the comma, are left
out. The lists come from the file: `godotenv` does not override a variable of the
real environment, so a deployment that sets `AUX_LISTENERS` there does not see
what the dashboard saves, and is not modelled. `Apply` reports a port that is
declared twice; `AuxRegistry` leaves that branch out, because no caller's lists
have one (`PortsDistinct`, proved). `ErrNoEnvFile` is one more way to fail before
anything is written (`PersistFails`); a graceful shutdown does less than a crash;
edits of the file by hand while the server runs are not modelled.

### `Settings`: the table, the reload, the limiters

The table has a key per part, written one by one in any order, and may fail after
any. `ReloadSettings` is one step per assignment, since nothing locks it against
requests or another reload; `NewSelector` stands for the construction and first
refresh. Values are the numbers of the writes they come from, selectors the
numbers of the reloads that made them: that is all the properties tell apart. A
failing refresh leaves what was assigned so far. A read of the table (`Load`,
`Restart`) comes back with some of the keys (`Reads`): on Postgres `GetAll` never
asks `rows.Err()`, so a scan that breaks off passes for complete, and the parts it
missed are applied as zero values (0). `broken` remembers whether the newest read
was such a one. A read that fails with an error ends the reload before its first
assignment. On Mongo the few documents come with `Find` itself, whose error is
returned; an empty collection is filled with the defaults, which is `Init`.

### `Catalogue`: ids, histories, countries

Creations, alone and in bulk, with the id read before the insert on Mongo and
taken from a sequence on Postgres; updates of address and country; deletions with the cascade of the
driver; requests through a proxy that write a row of another table after it is
gone; passes of the country detector, from the loop and from the API, that work
through a batch read before (a set of ids with the addresses read; `UpNext` is
the order in which a pass takes them). `origin` numbers creations, so that an id that is
used again can be told from its first owner. A detection the API request of which
is cancelled skips the rest of its batch (`Skip`).

### `Migrations`: servers that start together

`Migrate` as a read of the highest version and a transaction per version above it,
for any number of servers, which crash and are started again. Of what the 18
migrations do the model keeps what depends on data: version 9 removes duplicates
and adds the unique constraint, version 10 overwrites the operator's timeouts.

### MC modules

`MCDomainBans` and `MCBanTools` add the symmetry of requests, `MCSettings` of
the slots (off in liveness runs); `MCCheckout` gives the proxies their
first countries and a bound on last picks; `MCListenerSync` says what the dashboard asks for and which country has a
comma or a colon; `MCSettings` what a read may come back with; `MCProxyPool` pairs a driver with a rotation method; `MCCatalogue` and
`MCMigrations` are plain instances.

## 4. Runs, bounds, fairness

| Run | Instance | States | Shows |
|---|---|---|---|
| `bans_mongo` | Mongo, 1 scope, 2 requests, threshold 2, the tools | 0.8 M | `BannedIsScheduled`, `JunkOnlyByHand`, `SecondTrialOnlyByHand`, `BackfillConverges` |
| `bans_postgres` | 1 scope, 3 requests, threshold 3, parking on | 0.1 M | `OnlyConfirmedDomainsCount`, `OneTrialPerScope`, `BannedIffStreak`, `ParkedAfterEnoughTrials`, `LadderOnlyClimbs`, `NeverPulledForward`, `PermanentStaysPermanent`, and the refinement `ImplementsCycle` |
| `bans_liveness` | Mongo, 2 proxies, 2 domains (one infra), 1 request, fairness | 16 k | `EveryBanComesDue`, `EveryDueTrialIsClaimed` |
| `bans_mongo_streak` | Mongo, 1 proxy, 2 requests | | a comment the code does not live up to (section 6) |
| `checkout` | Postgres, 2 proxies, 2 checkouts (both sticky or one rotating), 2 outside changes | 1.8 M | `HandedOutWasEligible`, `RefusedOnlyWithoutEligible`, `CountryPreferred`, `StickyWhileEligible` |
| `checkout_settle` | Mongo, 2 sticky checkouts, 3 outside changes | 0.3 M | `AssignmentsSettle` |
| `pool` | 2 proxies, 2 requests or tests, 3 events; round robin on Mongo, least connections on Postgres | 3.9 M | `IndexInRange`, `AloneTriesAll`, `StreakIsFailed`, `RoundRobinTakesTurns` |
| `listeners` | 3 ports (one a server's own), 2 machines (one not of the fleet), 4 countries, one with a comma and one with a colon | 3.4 M | `PortsDistinct`, `ConfirmedSurvives`, `ConfigFollowsFile`, `BoundOrReported`, `ReportIsTrue`, `UnchangedStayUp` |
| `settings` | 1 writer, 2 reloads at a time, 1 write after the initial one, 3 reloads or restarts, reads of all, one or none of the keys | 3.4 M | `LimitersFollowSettings`, `SelectorsAgree`, `ReloadApplies` |
| `settings_reload` | 2 reloads | | a code bug (section 6) |
| `catalogue` | both drivers, 2 creating requests, bulks of 2, 3 creations, 2 events, 2 passes | 0.2 M | `HistoryIsOwn`, `RefusedForItsAddress`, `EveryProxyIsLocated` |
| `migrations` | 2 servers, starts from version 0, 8, 9 or 15, 2 duplicates, 3 faults | 29 k | `NoGaps`, `EveryServerComesUp` |

`pool`, `listeners` and `catalogue` also check the type invariant of their module;
those of `DomainBans`, `Checkout`, `Settings` and `Migrations` are proved (section 5)
and not run, and so are the properties marked *proved* below. Every run that
passes checks deadlock: nothing in the models may stop for good. Where the bounds end the changes from outside, `Rest`
stands for the server that waits, and only with nothing under way.

The properties:

- **`BannedIsScheduled`**: a banned row has a ban date and a next trial, and no
  success counted. `ClaimTrialProxy` never selects a NULL, so a row without a next
  trial would stay banned for good.
- **`OnlyConfirmedDomainsCount`**: failures and bans exist only for domains that
  have produced a real success, across cache losses and skipped writes.
- **`OneTrialPerScope`**: while requests are shorter than the hold and than a
  fresh ban's cooldown (`ShortFlights`), a scope never has two trials out.
- **`BannedIffStreak`** (Postgres): banned exactly when the streak is at the
  threshold.
- **`ParkedAfterEnoughTrials`**: a scope out of rotation for good has enough
  failed trials on its row.
- **`LadderOnlyClimbs`, `NeverPulledForward`** (Postgres): while a ban lasts, no
  stale write lowers its attempt or brings its trial forward.
- **`PermanentStaysPermanent`** (Postgres): a ban the listings class as permanent
  stays in that class until it ends, whatever claims, stale trials and failures
  do to its row.
- **`ImplementsCycle`** (Postgres): the rows implement `BanCycle`.
- **`JunkOnlyByHand`, `SecondTrialOnlyByHand`**: with the tools at work, what the
  two properties above say holds for every scope the operator has not banned or
  hurried by hand: clears and late unbans leave no junk and no second trial.
- **`BackfillConverges`**: a backfill that is killed or run again does not
  multiply observations.
- **`EveryBanComesDue`, `EveryDueTrialIsClaimed`**: nothing stays banned without
  being retried, and one proxy's trials do not starve another's.
- **`HandedOutWasEligible`**: what a checkout hands out was healthy at some moment
  of it and, unless it is a trial, not banned at some moment of it. More cannot be
  asked: the reads are separate, and the last of them may already be out of date.
- **`RefusedOnlyWithoutEligible`**: "no eligible proxy" is true, up to one thing
  the code does: the fallback to other countries looks at the country's pool
  before the ban filter, so a country whose healthy proxies are all banned
  refuses although other countries could serve. The property says that this is
  the only exception: no proxy that was eligible and in the country throughout is
  passed over, whatever moves in or out meanwhile.
- **`CountryPreferred`**: a fresh pick of a proxy that was at no moment of the
  checkout healthy and of the country means the country was without a healthy
  proxy at some moment of it.
- **`StickyWhileEligible`**: an assignment nobody changed meanwhile, to a proxy
  eligible throughout, is reused (or a trial claimed first), whatever country is
  asked for.
- **`AssignmentsSettle`**: with no more outside changes, assignments stop moving.
  It needs no fairness: only infinitely many changes could violate it.
- **`IndexInRange`**: `Select` indexes its list unchecked; refreshes shorten the
  list between two selections.
- **`RoundRobinTakesTurns`, `AloneTriesAll`**: concurrent requests are given the
  proxies in turn; a request that was alone gives up only after trying all of the
  list, or as many as fallback allows. (A request that is not alone may meet a
  proxy twice, and the attempt is spent: what the code does.)
- **`StreakIsFailed`** (Mongo): when all calls about a proxy are through, a full
  streak has made it failed, although count and decision are two calls.
- **`PortsDistinct`**: no sequence of mutations, crashes and restarts puts two
  entries on one port, in memory or in what the next strict `Start` makes of the
  file.
- **`ConfirmedSurvives`**: a crash leaves the lists confirmed last or those of the
  mutation it interrupted, whole, never a mixture or a loss.
- **`ConfigFollowsFile`**: between mutations memory and file agree, failed writes
  included, up to what the file does to a country it cannot keep.
- **`BoundOrReported`, `ReportIsTrue`**: each configured listener is up, or the
  last answer said that it is not; the answer is what happened to the sockets,
  for every mixture of closed, rebound and failing ports.
- **`UnchangedStayUp`**: no mutation touches a listener it does not change.
- **`LimitersFollowSettings`**: no client keeps a limiter of older settings.
- **`SelectorsAgree`**: requests use the selector that the ticker refreshes,
  unless two reloads have overlapped (then they may not: section 6).
- **`ReloadApplies`**, and *proved* `NeverGoesBack`: a reload that ran alone and
  whose read was complete applies the table as a whole, whatever earlier reads
  missed and earlier reloads left undone; without overlaps, and as long as the newest
  read was complete, nothing goes back, over failures and restarts. Without the
  condition on the read neither holds (section 6).
- *Proved* `AcknowledgedIsStored`: a write that was acknowledged is in the table as a
  whole unless another overlapped it.
- **`HistoryIsOwn`** (Postgres): rows that name a proxy are its own, however late
  they were written. Mongo uses ids again and cascades nothing, so it is not
  asked there.
- **`RefusedForItsAddress`**: a creation alone is refused only because its address
  is taken, as the error says; concurrent ones on Mongo also for their id.
- **`EveryProxyIsLocated`**: every proxy with an IP address that stays has a
  country for good in the end, as long as the ones that never get one do not fill a
  batch. It is asked of each creation: an earlier holder of the id does not count.
- **`NoGaps`**, and *proved* `UpMeansMigrated`: reading the highest version is enough, whatever
  crashed where; a server that is up has every version it knows.
- *Proved* `OnlyOperatorChanges`: no start, alone or beside another, sets the timeouts
  back a second time.
- **`EveryServerComesUp`**: the loser of a race for a version, and the victim of
  late duplicates, comes up in the end.

*Why these bounds.* Two requests are what it takes to interleave two recordings
of one scope; three are needed for a stale trial, a renewed ban and a late
failure to meet, which is where the ladder of a ban can break (and does on Mongo,
section 6): so the two action properties are checked with three.
Two proxies share a (machine, domain) where the order of claims matters.
Machines and further domains add nothing: no operation touches two of them
(`OnlyConfirmedDomainsCount` relates the proxies of one domain). Threshold 2 and 3,
first cooldown and hold of 2 ticks and a flight of at most 1 keep the order of the
real durations (requests are minutes; cooldown and hold 30 and 60 minutes), with
`AttemptCap` past one doubling except in `bans_mongo`, where no checked property
depends on the ladder. `PermanentMinAge` 5 lets the parking condition depend on age and count
both. `LogCap` counts observations only where they are checked.

For checkout, two callers interleave every pair of calls; a third would only
repeat what one of them does, and everything else that can happen to a checkout
comes from the outside changes, two or three of them (`MaxChanges`), each in any
place. `Watched` names the callers whose history is kept and `Rotators` those that
may rotate; one of each keeps the passing run small, the other caller takes every
sticky step meanwhile. `LastPicksOfCountries`, the one state constraint of the
project, follows the last picks of rotating calls for the country only: a rotating
call without a country is checked up to its answer and its last pick is not carried
into later calls. Two proxies distinguish a proxy of the country from one
abroad, an assigned from a better one, a banned from a clear one.

The tools run with one scope and two requests: each tool writes one row at a time,
and the calls that a tool can fall between belong to one recording or one trial.
The backfill's counters go to one past the cap of a document.

In `pool`, two proxies and two requests are the smallest list with a turn to
take and a streak two recordings can share; an event is a request or a change from
outside, and three of them let a refresh, a deletion and a recording meet. Rows
start idle, or one failure short of the threshold. A routed request only adds the
recording of a success or failure that tests and CONNECT requests make too; it is
not among the kinds of this run. `MaxFallback` equals the number of proxies, so
that giving up early would show.

In `listeners`, three ports allow a swap, a move to a free port and a port that
nothing may have (`p3`, a server's own); the entries whose country the file changes
or loses are asked for on two ports and on one, which already meet every other
entry there; one mutation is in flight at a time (the
code's mutex). There is no bound on mutations, crashes or restarts.

In `settings`, one writer suffices since the properties exclude overlapping
writes, whose failures the one writer has too; two reloads overlap in every way
two can. `SomeReads` has a complete read, one of nothing and one that breaks off
after a key. The proofs of section 5 cover any number of writers and reloads and any reads.

In `catalogue`, three creations make an id used twice and a third one beside it; a
batch of two with one address that is never located lets that one stand in the
way. In `migrations`, the starting versions lie around the two that look at data
and before the one listed out of order; three faults hit one server before, within
and after a migration.

*Fairness*, in `DomainBans!Fairness`: each recording ends (its context does), time
goes on, and for every (machine, domain) routed requests keep coming and each
tries to claim a due trial first (`checkoutInternal` starts with the claim).
`Lose` and every result stay possible, so trials may be lost for ever; the hold is
what brings the scope back. `[]<>ClockFree` says that recordings of a few
seconds do not overlap without end: the coarse clock stands still during each, an
artefact of the abstraction and not a claim about load.
`<>[][~DispatchBanned]_vars` says that the errors which hide a ban from a checkout
come to an end: on Mongo each failure of a banned proxy renews its ban, so with
such errors for ever its trial need never come due. With one request slot
it adds nothing to the fairness of recordings; it is stated so that the formula is
right for more.

In `Catalogue` the loop's timer fires again and again and a pass goes on (it is a
loop over a slice); that a lookup which is tried for ever succeeds at some time is
an assumption about the service, stated as strong fairness per proxy. In
`Migrations` a server that is down is started again (`restart: unless-stopped`,
`src/docker-compose.yml:9`) and a migration in progress goes on; faults are bounded.

## 5. Proofs

| Theorem of `DomainBansProofs` | Statement |
|---|---|
| `TypeCorrect` | `Spec => []TypeOK` |
| `NoBanIsStranded` | `Spec => []BannedIsScheduled` |
| `OnlyTriedScopesAreParked` | `Spec => []ParkedAfterEnoughTrials` |
| `StreakBansOnPostgres` | `~IsMongo => (Spec => []BannedIffStreak)` |
| `JunkNeverCounts` | `Spec => []OnlyConfirmedDomainsCount` |
| `OneTrialAtATime` | `Spec => []OneTrialPerScope` |
| `LadderClimbsOnPostgres` | `~IsMongo /\ ShortFlights => (Spec => LadderOnlyClimbs)` |
| `TrialsAreNotPulledForward` | `~IsMongo /\ ShortFlights /\ InitialCooldown <= TrialHoldWindow => (Spec => NeverPulledForward)` |
| `PostgresImplementsCycle` | `~IsMongo /\ ShortFlights => (Spec => ImplementsCycle)` |
| `PermanentBansStay` | `~IsMongo /\ ShortFlights => (Spec => PermanentStaysPermanent)` |

They hold for every number of proxies, machines, domains and requests, every
threshold of at least 2 and every schedule that satisfies the named assumptions of
`BanRows` and `DomainBans` (which TLC evaluates in every run). The hypotheses are
those of the code's constants: a request is minutes, the first cooldown 30, the hold
of a trial 60.

| Theorem of `CheckoutProofs` | Statement |
|---|---|
| `CheckoutTypeCorrect` | `Spec => []TypeOK` |
| `EligibleHandedOut` | `~SilentErrors => (Spec => []HandedOutWasEligible)` |
| `RefusalIsTrue` | `~SilentErrors => (Spec => []RefusedOnlyWithoutEligible)` |
| `CountryComesFirst` | `~SilentErrors => (Spec => []CountryPreferred)` |
| `StickyHolds` | `~SilentErrors => (Spec => []StickyWhileEligible)` |

These hold on both drivers, for every number of proxies, countries, domains, callers
(all watched, all rotating if one likes) and outside changes, of countries too.

*The argument.* `TypeOK` is inductive. `RowChanges` then reduces a step to what
it may make of one row (unchanged, one of the writes, or a tick older), and the
row properties follow write by write: `BannedIsScheduled` and `BannedIffStreak`
are inductive as they stand; parking needs `ParkedInv` (no wait exceeds the parked
one, so none ages into it).

- `OnlyConfirmedDomainsCount` is not inductive: a failure is counted one call
  after its domain was found confirmed. `ConfirmedInv` adds that the cache is
  contained in the collection and that whoever is at `failure_count` or
  `failure_ban` is on a confirmed domain that is not infra.
- `OneTrialPerScope` is not inductive either: what keeps a second trial away is
  time. `HeldBack` says that a scope whose trial is out has more wait left than
  the trial has flight left (`next_probe_at + age > MaxFlight`). A claim
  establishes it with the hold; a tick takes one from the wait and adds one to
  the age; every write that reschedules leaves at least the hold or the first
  cooldown (`WaitAfterStep`, from the bounds of `ProbeBackoff`). So the scope of
  a running trial is never due and cannot be claimed (`OneOut`).
- `LadderOnlyClimbs` on Postgres needs `ReadIsCurrent`: between the read and the
  write of a failed trial the row's attempt cannot have passed the one read,
  because only another failed trial of the scope could have raised it, which
  `OneOut` excludes.
- `NeverPulledForward` on Postgres needs `OutWaitsItsHold`: while a trial is out its
  scope waits no longer than a hold, because what sets the wait meanwhile is a
  claim or a fresh ban, and another failed trial of the scope there is not (`OneOut`).
  So the backoff a trial writes, at least a hold, postpones whatever it meets.
- *The refinement* follows `RowChanges` once more: each write of a row is a step
  of its scope's cycle or leaves it alone. A failed trial needs `ReadIsCurrent`,
  else a stale read could lower the ladder, and `BannedIffStreak`, else a failure
  could find a ban without a full streak. All other scopes stutter.
- *A permanent ban* needs the same two, and that the age of a ban only grows.
- The checkout properties talk about an answer and what held during the call;
  none is inductive, since the answer is put together from reads made earlier.
  `CallsInv` says, for each point a call can be at, what its local variables and
  its history have in common: a proxy in hand was seen healthy (and clear, past
  the ban check), what is in the pool was seen healthy, an eligible proxy missing
  from the pool is missing because of the country, an assignment held all the time
  is the one in hand. Its four parts (`SawEligible`, `SawAll`, `SawCountry`,
  `SawAssignment`) are proved step by step; the history only ever grows
  (or shrinks, for what held all the time), which takes care of the steps of others.

| Theorem of `MigrationsProofs` | Statement |
|---|---|
| `MigrationsTypeCorrect` | `Spec => []TypeOK` |
| `NoVersionIsSkipped` | `Spec => []NoGaps` |
| `NoServerOnAnOldSchema` | `Spec => []UpMeansMigrated` |
| `TimeoutsSetOnce` | `Spec => OnlyOperatorChanges` |

For any number of servers, faults and duplicates, and any starting versions.
`NoGaps` is not inductive: a server acts on a list it read earlier. Two facts make
it so: what is not on a migrating server's list is applied (`NothingForgotten`),
and the open migration is the lowest of the list (`LowestFirst`), so that what
lies below the version it commits is applied, by whomever.

| Theorem of `SettingsProofs` | Statement |
|---|---|
| `SettingsTypeCorrect` | `Spec => []TypeOK` |
| `LimitersAreCurrent` | `Spec => []LimitersFollowSettings` |
| `OneSelector` | `Spec => []SelectorsAgree` |
| `LoneReloadApplies` | `Spec => []ReloadApplies` |
| `AcknowledgedWriteIsWhole` | `Spec => []AcknowledgedIsStored` |
| `SettingsGoForward` | `Spec => NeverGoesBack` |

For any number of requests, reloads, clients, writes and limiters. The invariant
says of each request and reload on its way what it has achieved so far:
`StoredSoFar` which keys of the newest write are in the table, `AppliedSoFar` which
parts of the server have what the newest reload read, `HandingOver` that the
two selectors differ only between the two assignments of the one reload there
is, `OrderInv` that nothing in force is newer than a complete read of a reload under
way and no read newer than the table. `LoneReloadApplies` and `SettingsGoForward` are
about complete reads (`~broken` in the properties); the others hold for any.

| Theorem of `BanToolsProofs` | Statement |
|---|---|
| `ToolsInvariant` | `ToolsSpec => []ToolsInv` |
| `ToolsStrandNoBan` | `ToolsSpec => []BannedIsScheduled` |
| `ToolsLeaveNoJunk` | `ToolsSpec => []JunkOnlyByHand` |
| `ToolsAddNoTrial` | `ToolsSpec => []SecondTrialOnlyByHand` |
| `RerunningConverges` | `ToolsSpec => []BackfillConverges` |

The module extends `DomainBansProofs`: its lemmas are about one step of the
server from any state that satisfies the invariant at the scope concerned, so they
serve for the scopes the operator has not touched. `HeldUntouched` and
`OneUntouched` are `HeldBack` and `OneOut` for those; `CountingGenuine` holds for
all. A tool's write ends a ban, or is a schedule the operator answers for
(`ByHand`), and that is all `ToolKeepsRows` needs. The backfill converges because
what it inserts into is empty (`Emptied`), killed runs included.

| Theorem of `ListenerSyncProofs` | Statement |
|---|---|
| `FilesInvariant`, `SyncInvariant` | `Spec => []FilesInv`, `Spec => []SyncInv` |
| `TypeCorrect` | `Spec => []TypeOK` |
| `PortsStayDistinct` | `Spec => []PortsDistinct` |
| `NothingConfirmedIsLost` | `Spec => []ConfirmedSurvives` |
| `FileIsFollowed` | `Spec => []ConfigFollowsFile` |
| `ListenersAreConfigured` | `Spec => []BoundOrReported` |
| `ReportsAreTrue` | `Spec => []ReportIsTrue` |
| `OthersKeepTheirSockets` | `Spec => UnchangedStayUp` |

For any number of ports, machines and countries. None of the properties is
inductive: they compare file, memory and sockets at rest, and a mutation moves
them one after the other. `FilesInv` says for each point of a mutation how far the
file has come before the memory (`FileAndCfg`) and before what was confirmed
(`FileAndAcked`), up to parsing; that the sibling of the file is the file to be
(`TmpIsTarget`); and that the lists about to be written fit beside each other
(`OpFits`, what `portOwner` has checked). `SocketsInv` adds where the sockets are:
as the mutation found them until it applies (`NothingMoved`), and from then on port
by port what was reported of each (`Reported`). `SyncAssumption` has what the round
trip through the file needs: what follows the last comma of a name has none itself,
so that a second parse changes nothing more.

| Theorem of `ProxyPoolProofs` | Statement |
|---|---|
| `PoolInvariant` | `Spec => []PoolInv` |
| `TypeCorrect` | `Spec => []TypeOK` |
| `SelectIsInRange` | `Spec => []IndexInRange` |
| `GivingUpIsEarned` | `Spec => []AloneTriesAll` |
| `FullStreakFails` | `Spec => []StreakIsFailed` |
| `TakingTurns` | `Spec => RoundRobinTakesTurns` |

For any finite set of proxies (their ids are numbers), any requests, attempts and
events; `PoolAssumption` sets `Nobody` apart from the requests. The idea is `Past`:
the positions the index has passed in the last so many selections. What a request
alone has tried is the past of its tries (`TriedInOrder`), what a round has given
out the past of some number below the length of the list (`TurnInOrder`), and a
selection adds exactly one position that is new as long as not all are passed. That
a list holds a proxy once (`ListedOnce`) turns positions into proxies. `StreakIsFailed`
needs `StreakIsNoticed`: a full streak without the status has a recording whose next
call is the decision, which in turn needs that recordings of Mongo are made of
Mongo's calls (`OnlyMongoCalls`).

| Theorem of `CatalogueProofs` | Statement |
|---|---|
| `CatalogueInvariant` | `Spec => []CatalogueInv` |
| `TypeCorrect` | `Spec => []TypeOK` |
| `HistoryStaysOwn` | `Spec => []HistoryIsOwn` |
| `RefusalsAreTrue` | `Spec => []RefusedForItsAddress` |

For any number of callers, addresses, creations and events. That no id passes its
bound is a count: each creation begun is still to come (`Pending`) or has used one
number (`Counted`). `HistoryIsOwn` needs, on Postgres, that nothing is named, served
or listed beyond the sequence and that what is named exists with the origin it was
named for (`IdsNotReused`). `RefusedForItsAddress` needs that nobody has come between
a caller alone and the id it has read (`AloneIsAlone`), and that `NextProxyID` is free
(`NextIsFree`, from the well-foundedness of the naturals). `CatalogueAssumption` keeps
`"none"` from being an address.

*Only model-checked*, because the prover handles neither fairness nor `<>`:
`EveryBanComesDue`, `EveryDueTrialIsClaimed`, `AssignmentsSettle`,
`EveryProxyIsLocated`, `EveryServerComesUp`; and the runs of section 6, which are
counterexamples. The theorems carry the conditions of their properties: on
Postgres, while flights are short, while no error is silent; where these fail the
code does otherwise (section 6).

## 6. Disagreements between code and comments

Two are runs that end with a counterexample.

- `bans_mongo_streak`: a ban is for "consecutive failures"
  (`ban_repository.go:93`). On Mongo a success between the count and the ban of
  another request is overwritten: banned with a streak of 0.
- `settings_reload`: "Refresh proxy list every 30 seconds"
  (`proxy/server.go:264`). Two calls of `ReloadSettings` that interleave between the
  two assignments of lines 349 and 350 leave requests on one selector and the
  ticker on the other, until the next reload.

The others are visible in the modules' actions and were met while modelling.

*Bans.*
- "Repeat failures while already banned reset the cooldown clock but do not
  change the probe attempt counter" (`ban_repository.go:388`). On Mongo the ban
  call of a failure counted earlier sets the counter of a renewed ban back to 0;
  on Postgres the clock is not reset.
- "Every time a banned scope actually comes back to life we bank one observation"
  (`recovery_estimates.go:3`). Two successes that read the same ban bank two.
- "a recovery is only observed when a trial succeeds" (`recovery_estimates.go:9`). A
  normal request sent before the ban and answered after it lifts the ban and banks
  a time that no trial measured.
- "A site-specific failure here does NOT flip the proxy globally"
  (`usage.go:124`): `updateProxyStats`, called just before, counts the same failure
  towards the global status.
- `recoverybackfill` says "Re-running is safe" (`main.go:18`): the rows do not
  multiply (`BackfillConverges`), but rows of documents cleared since are deleted
  and not written again, durations the server banked itself are counted a second
  time, and two runs at once multiply.

*Checkout.*
- "guaranteeing it isn't the same as the immediately preceding pick"
  (`assignment_repository.go:74`). The last pick is read in one critical section
  and stored in another; two concurrent calls pick the same proxy.
- "banned proxies are excluded from the eligible pool"
  (`assignment_repository.go:47`). On Postgres `IsBanned` returns "not banned" for
  every error of its query, and `BannedProxyIDsForDomain` does not ask whether its
  scan broke off (`Checkout` with `SilentErrors`).
- `assignment_repository.go:610` says that Mongo's unique index on (machine,
  domain) "is not wired up at startup" and `:305` that `EnsureMongoIndexes` is called
  once at startup. Nothing calls it; `MigrateMongo` (`database/database.go:289`)
  creates the same index.

*Pool.*
- "Immediately mark proxy as failed to prevent further selection"
  (`handler.go:368`): the mark is made in a goroutine, after the statistics, and a
  selector goes on with its cached list for up to 30 seconds.
- "Mark as failed after 3 consecutive failures" (`usage.go:379`): the count it
  looks at on Postgres is the total the row keeps, read before the write.

*Settings.*
- "GetAll retrieves all settings" (`settings_repository.go:65`) and "ReloadSettings
  reloads settings from database and updates components" (`proxy/server.go:325`). On
  Postgres the loop of `GetAll` (104-119) never asks `rows.Err()`. A scan that
  breaks off passes for complete: the parts it missed become zero values, so
  authentication and the rate limit may be off and the rotation method the default
  one, and the reload reports success. This lasts until the next reload or restart
  with a complete read. `ReloadApplies` without `~broken` is violated by a single
  such reload.

*Listeners.*
- The package comment of `listener_sync.go` says that manual entries "are never
  touched"; `Update` and `Delete` rewrite them. The comment of
  `listener_sync_handler.go:18` says that listeners bind only at server start; they
  are reconciled after every mutation.
- `portOwner` keeps one from a port "already used elsewhere"
  (`listener_sync.go:378`): it knows the two lists and not the server's own two
  ports. A listener asked for on one of these fails live, and is saved; a restart
  binds it first, and the server cannot listen.
- A country with a comma, which the dashboard accepts, comes back from the file as
  something else: without a machine, with the rest of the name, or not at all. One
  with a colon, or with nothing after its last comma, does not come back.

## 7. What is not modelled

- *Log stream and log cleanup*: nothing calls `LogRepository.Create` or adds the
  hook that would, so the collection the stream polls stays empty; the cleanup
  service is never constructed. There is no behaviour to check.
- *Synthetic probe worker*, `NextProbeBatch`, `ReclaimProbe`: commented out in
  `cmd/server/main.go`. `probetest` prints only.
- *Recovery estimates and dashboard queries*: read-only aggregation.
- *Credentials*: the comparison of proxy and API passwords, JWT.
- *The token bucket* of a limiter, the lookup service of geoip, the wire protocols
  of upstream proxies, TimescaleDB's policies: libraries and services.
- *Request bodies*: that a retry sends a consumed body is listed as a hazard; in
  `ProxyPool` a retry may fail for any reason.
- *The Next.js dashboard*, generated API documentation, formatting of handlers, the
  logger: no state the server relies on.
