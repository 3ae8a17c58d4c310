------------------------------ MODULE BanRows ------------------------------
(***************************************************************************)
(* One row of proxy_domain_bans and what each repository call writes in it *)
(* (core/internal/repository/ban_repository.go). A row belongs to a scope: *)
(* a (proxy, machine, domain) triple.                                      *)
(*                                                                         *)
(* Time. Timestamps are kept relative to the clock, in ticks:              *)
(* next_probe_at is the wait until the trial (0 or less once it is due),   *)
(* banned_at the age of the ban. A tick ages the rows (DomainBans!Tick).   *)
(*                                                                         *)
(* Counters saturate where the code stops telling their values apart:      *)
(* failed_count is only compared with the threshold, probe_attempt only    *)
(* feeds a capped backoff and a threshold, banned_at only a minimum age,   *)
(* successful_since_recovery only a test for zero.                         *)
(***************************************************************************)
EXTENDS Integers

CONSTANTS
    FailureThreshold,          \* failureThreshold: failures in a row before a ban
    InitialCooldown,           \* initialCooldownFor: wait before the first trial
    ProbeBackoffBase,          \* probeBackoffBase: unit of the doubling schedule
    MaxCooldown,               \* maxCooldown: cap of the schedule
    TrialHoldWindow,           \* trialHoldWindow: how far a claim pushes the trial
    StopProbingPermanent,      \* stopProbingPermanent(): the opt-in flag
    PermanentTrialThreshold,   \* permanentTrialThreshold()
    PermanentMinAge,           \* permanentMinAge()
    ParkedWait,                \* permanentParkDuration: stands for "never"
    CountCap,                  \* bound: failed_count saturates here
    AttemptCap,                \* bound: probe_attempt saturates here
    AgeCap,                    \* bound: banned_at saturates here
    Nil                        \* NULL / a missing field

\* 1 << n for the n that probeBackoff shifts by (larger ones return early).
Shl == <<2, 4, 8, 16, 32, 64, 128, 256, 512, 1024>>

\* probeBackoff: wait after the n-th failed trial, doubling up to the cap.
ProbeBackoff(n) ==
    LET k == IF n < 1 THEN 1 ELSE n
    IN  IF k > 10 \/ ProbeBackoffBase * Shl[k] > MaxCooldown
        THEN MaxCooldown
        ELSE ProbeBackoffBase * Shl[k]

ASSUME DurationsAssumption ==
    /\ InitialCooldown \in Nat \ {0}
    /\ ProbeBackoffBase \in Nat \ {0}
    /\ TrialHoldWindow \in Nat \ {0}
    /\ MaxCooldown \in Nat
    /\ ParkedWait \in Nat
    /\ MaxCooldown < ParkedWait
    /\ InitialCooldown < ParkedWait
    /\ TrialHoldWindow < ParkedWait
    /\ StopProbingPermanent \in BOOLEAN
    /\ PermanentTrialThreshold \in Nat \ {0}
    /\ PermanentMinAge \in Nat
    /\ Nil \notin Int

\* The proportions between the constants of ban_repository.go: the hold is
\* one full doubling of the base, no longer than the cap.
ASSUME HoldAssumption ==
    /\ TrialHoldWindow <= 2 * ProbeBackoffBase
    /\ TrialHoldWindow <= MaxCooldown

\* The caps lose nothing the code looks at.
ASSUME CapsAssumption ==
    /\ FailureThreshold \in Nat
    /\ FailureThreshold >= 2
    /\ CountCap \in Nat
    /\ CountCap >= FailureThreshold
    /\ AttemptCap \in Nat \ {0}
    /\ ProbeBackoff(AttemptCap) = MaxCooldown
    /\ AgeCap \in Nat
    /\ StopProbingPermanent => /\ AttemptCap >= PermanentTrialThreshold
                               /\ AgeCap >= PermanentMinAge

-----------------------------------------------------------------------------

\* "absent": no document. "unset": a document without a state field, which
\* Mongo's RecordFailure inserts (its upsert sets no state).
RowState == {"absent", "unset", "active", "banned"}

Row == [state : RowState,
        failed_count : 0..CountCap,
        banned_at : 0..AgeCap \cup {Nil},
        next_probe_at : Int \cup {Nil},
        probe_attempt : 0..AttemptCap,
        successful_since_recovery : {0, 1}]

NoRow == [state |-> "absent", failed_count |-> 0, banned_at |-> Nil,
          next_probe_at |-> Nil, probe_attempt |-> 0,
          successful_since_recovery |-> 0]

Banned(row) == row.state = "banned"

Bump(n, cap) == IF n < cap THEN n + 1 ELSE cap

\* The filter of ClaimTrialProxy and NextProbeBatch: a NULL never matches.
Due(row) == Banned(row) /\ row.next_probe_at # Nil /\ row.next_probe_at <= 0

-----------------------------------------------------------------------------
(* Slips, none of them used by the specification: what a plausible mistake *)
(* in a write would make of it. Each breaks a property of DomainBans.      *)

\* The failure streak survives a success.
AfterSuccessKeepingStreak(row) ==
    [state |-> "active", failed_count |-> row.failed_count, banned_at |-> Nil,
     next_probe_at |-> Nil, probe_attempt |-> 0,
     successful_since_recovery |-> 1]

\* The successes since the last recovery survive the ban.
AfterBanKeepingSuccesses(row) ==
    IF row.state = "absent" THEN row
    ELSE [row EXCEPT !.state = "banned", !.banned_at = 0,
                     !.next_probe_at = InitialCooldown, !.probe_attempt = 0]

\* The ban sets no next_probe_at.
AfterBanUnscheduled(row) ==
    IF row.state = "absent" THEN row
    ELSE [row EXCEPT !.state = "banned", !.banned_at = 0, !.probe_attempt = 0,
                     !.successful_since_recovery = 0]

\* The trial is claimed without a hold.
AfterClaimUnheld(row) == row

\* The wait grows by one base per failed trial instead of doubling.
NextProbeLinear(attempt, bannedAt) == ProbeBackoffBase * attempt

\* Parked by the age of the ban alone.
NextProbeParkedByAge(attempt, bannedAt) ==
    IF StopProbingPermanent /\ bannedAt # Nil /\ bannedAt >= PermanentMinAge
    THEN ParkedWait
    ELSE ProbeBackoff(attempt)

-----------------------------------------------------------------------------
(* What the writes of the repository leave in the row.                     *)

\* RecordSuccess, both drivers: the row is active again, whatever it was.
AfterSuccess(row) ==
    [state |-> "active", failed_count |-> 0, banned_at |-> Nil,
     next_probe_at |-> Nil, probe_attempt |-> 0,
     successful_since_recovery |-> 1]

\* RecordFailure on Mongo, first call: FindOneAndUpdate with $inc and upsert.
AfterFailureCount(row) ==
    [row EXCEPT !.failed_count = Bump(@, CountCap),
                !.state = IF @ = "absent" THEN "unset" ELSE @]

\* The fields a ban sets. Mongo's UpdateOne has no upsert: no row, no write.
AfterBan(row) ==
    IF row.state = "absent" THEN row
    ELSE [row EXCEPT !.state = "banned",
                     !.banned_at = 0,
                     !.next_probe_at = InitialCooldown,
                     !.probe_attempt = 0,
                     !.successful_since_recovery = 0]

\* Slip: a CASE of the upsert forgets that the row may be banned already.
AfterFailureUpsertUnguarded(row) ==
    LET counted == [row EXCEPT !.failed_count = Bump(@, CountCap)]
    IN  IF row.state = "absent"
        THEN [NoRow EXCEPT !.state = "active", !.failed_count = 1]
        ELSE IF row.failed_count + 1 >= FailureThreshold THEN AfterBan(counted)
        ELSE counted

\* RecordFailure on Postgres: one INSERT .. ON CONFLICT, whose CASEs rewrite
\* the ban fields only when the row was not banned yet.
AfterFailureUpsert(row) ==
    LET counted == [row EXCEPT !.failed_count = Bump(@, CountCap)]
    IN  IF row.state = "absent"
        THEN [NoRow EXCEPT !.state = "active", !.failed_count = 1]
        ELSE IF row.failed_count + 1 >= FailureThreshold /\ ~Banned(row)
        THEN AfterBan(counted)
        ELSE counted

\* nextProbeAfterFailedTrial: backoff, or parked for good when the flag is on
\* and the ban has both enough failed trials and enough age.
NextProbeAfterFailedTrial(attempt, bannedAt) ==
    IF /\ StopProbingPermanent
       /\ attempt >= PermanentTrialThreshold
       /\ bannedAt # Nil
       /\ bannedAt >= PermanentMinAge
    THEN ParkedWait
    ELSE ProbeBackoff(attempt)

\* RecordProbeResult(failed), the write: computed from the attempt and the
\* ban age that an earlier read returned, with no check of the state.
AfterFailedTrial(row, read) ==
    IF row.state = "absent" THEN row
    ELSE LET attempt == Bump(read.probe_attempt, AttemptCap)
         IN  [row EXCEPT !.probe_attempt = attempt,
                         !.next_probe_at =
                             NextProbeAfterFailedTrial(attempt, read.banned_at)]

\* classifyBan: how a banned row shows in the listings.
ClassifyBan(row) ==
    IF ~Banned(row) \/ row.probe_attempt = 0 THEN "cooldown"
    ELSE IF /\ row.probe_attempt >= PermanentTrialThreshold
            /\ row.successful_since_recovery = 0
            /\ row.banned_at # Nil
            /\ row.banned_at >= PermanentMinAge
    THEN "permanent"
    ELSE "recovering"

\* ClaimTrialProxy: the due row is held forward.
AfterClaim(row) == [row EXCEPT !.next_probe_at = TrialHoldWindow]
=============================================================================
