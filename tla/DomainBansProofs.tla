-------------------------- MODULE DomainBansProofs --------------------------
(***************************************************************************)
(* What holds of DomainBans for every number of proxies, machines, domains *)
(* and requests in flight, every threshold and every schedule: TLAPS       *)
(* proofs. The lemmas on rows come first, then one section per theorem.    *)
(***************************************************************************)
EXTENDS DomainBans, FiniteSetTheorems, TLAPS

-----------------------------------------------------------------------------
(* Lemmas on the waits and the rows.                                       *)

\* Every entry of the table of shifts at least doubles.
LEMMA ShlType ==
    ASSUME NEW k \in 1..10
    PROVE  Shl[k] \in Nat /\ Shl[k] >= 2
BY DEF Shl

\* A backoff is a wait, and no shorter than the hold of a claimed trial.
LEMMA ProbeBackoffBounds ==
    ASSUME NEW n \in Int
    PROVE  /\ ProbeBackoff(n) \in Nat
           /\ ProbeBackoff(n) >= TrialHoldWindow
           /\ ProbeBackoff(n) <= MaxCooldown
<1> DEFINE k == IF n < 1 THEN 1 ELSE n
<1>1. k \in Int /\ k >= 1
  OBVIOUS
<1>2. CASE k > 10
  BY <1>1, <1>2, DurationsAssumption, HoldAssumption DEF ProbeBackoff
<1>3. CASE k <= 10
  <2>1. k \in 1..10
    BY <1>1, <1>3
  <2>2. Shl[k] \in Nat /\ Shl[k] >= 2
    BY <2>1, ShlType
  <2>3. ProbeBackoffBase * Shl[k] \in Nat
    BY <2>2, DurationsAssumption
  <2>4. ProbeBackoffBase * Shl[k] >= 2 * ProbeBackoffBase
    BY <2>2, DurationsAssumption
  <2>5. ProbeBackoff(n) = IF ProbeBackoffBase * Shl[k] > MaxCooldown
                          THEN MaxCooldown ELSE ProbeBackoffBase * Shl[k]
    BY <1>3, <2>1 DEF ProbeBackoff
  <2> QED
    BY <2>3, <2>4, <2>5, DurationsAssumption, HoldAssumption
<1> QED
  BY <1>1, <1>2, <1>3

LEMMA NextProbeBounds ==
    ASSUME NEW attempt \in Int, NEW bannedAt
    PROVE  /\ NextProbeAfterFailedTrial(attempt, bannedAt) \in Nat
           /\ NextProbeAfterFailedTrial(attempt, bannedAt) >= TrialHoldWindow
BY ProbeBackoffBounds, DurationsAssumption DEF NextProbeAfterFailedTrial

LEMMA BumpType ==
    ASSUME NEW cap \in Nat, NEW n \in 0..cap
    PROVE  /\ Bump(n, cap) \in 0..cap
           /\ Bump(n, cap) >= n
           /\ cap > 0 => Bump(n, cap) > 0
BY DEF Bump

LEMMA NoRowType == NoRow \in Row
BY CapsAssumption DEF NoRow, Row, RowState

LEMMA AfterSuccessType ==
    ASSUME NEW row \in Row
    PROVE  AfterSuccess(row) \in Row
BY CapsAssumption DEF AfterSuccess, Row, RowState

LEMMA AfterFailureCountType ==
    ASSUME NEW row \in Row
    PROVE  AfterFailureCount(row) \in Row
<1>1. Bump(row.failed_count, CountCap) \in 0..CountCap
  BY BumpType, CapsAssumption DEF Row
<1> QED
  BY <1>1 DEF AfterFailureCount, Row, RowState

LEMMA AfterBanType ==
    ASSUME NEW row \in Row
    PROVE  AfterBan(row) \in Row
<1>1. 0 \in 0..AgeCap /\ 0 \in 0..AttemptCap /\ InitialCooldown \in Int
  BY CapsAssumption, DurationsAssumption
<1> QED
  BY <1>1 DEF AfterBan, Row, RowState

LEMMA AfterFailureUpsertType ==
    ASSUME NEW row \in Row
    PROVE  AfterFailureUpsert(row) \in Row
<1> DEFINE counted == [row EXCEPT !.failed_count = Bump(@, CountCap)]
<1>1. Bump(row.failed_count, CountCap) \in 0..CountCap
  BY BumpType, CapsAssumption DEF Row
<1>2. counted \in Row
  BY <1>1 DEF Row
<1>3. AfterBan(counted) \in Row
  BY <1>2, AfterBanType
<1>4. [NoRow EXCEPT !.state = "active", !.failed_count = 1] \in Row
  <2>1. NoRow \in Row /\ 1 \in 0..CountCap
    BY NoRowType, CapsAssumption
  <2> QED
    BY <2>1 DEF Row, RowState
<1> QED
  BY <1>2, <1>3, <1>4 DEF AfterFailureUpsert

LEMMA AfterFailedTrialType ==
    ASSUME NEW row \in Row, NEW read \in Row
    PROVE  AfterFailedTrial(row, read) \in Row
<1> DEFINE attempt == Bump(read.probe_attempt, AttemptCap)
<1>1. attempt \in 0..AttemptCap
  BY BumpType, CapsAssumption DEF Row
<1>2. NextProbeAfterFailedTrial(attempt, read.banned_at) \in Int
  BY <1>1, NextProbeBounds, CapsAssumption
<1> QED
  BY <1>1, <1>2 DEF AfterFailedTrial, Row

LEMMA AfterClaimType ==
    ASSUME NEW row \in Row
    PROVE  AfterClaim(row) \in Row
BY DurationsAssumption DEF AfterClaim, Row

-----------------------------------------------------------------------------
(* The clock.                                                              *)

LEMMA ScopeIsFinite == IsFiniteSet(Scope)
<1> DEFINE Triples == (Proxies \X Machines) \X Domains
           toScope == [t \in Triples |->
                          [proxy |-> t[1][1], machine |-> t[1][2], domain |-> t[2]]]
<1>1. IsFiniteSet(Triples)
  BY FS_Product, InstanceAssumption
<1>2. toScope \in [Triples -> Scope]
  BY DEF Scope
<1>3. ASSUME NEW s \in Scope
      PROVE  \E t \in Triples : toScope[t] = s
  <2>1. <<<<s.proxy, s.machine>>, s.domain>> \in Triples
    BY DEF Scope
  <2>2. toScope[<<<<s.proxy, s.machine>>, s.domain>>] = s
    BY <2>1 DEF Scope
  <2> QED
    BY <2>1, <2>2
<1>4. toScope \in Surjection(Triples, Scope)
  BY <1>2, <1>3 DEF Surjection
<1> QED
  BY <1>1, <1>4, FS_Surjection

LEMMA LaterDueType ==
    ASSUME NEW s \in Scope
    PROVE  LaterDue(s) \in Nat
<1> DEFINE later == {t \in Scope : /\ Banned(bans[t])
                                   /\ bans[t].next_probe_at \in Int
                                   /\ bans[t].next_probe_at <= 1
                                   /\ bans[t].next_probe_at > bans[s].next_probe_at}
<1>1. IsFiniteSet(later)
  BY ScopeIsFinite, FS_Subset
<1>2. Cardinality(later) \in Nat
  BY <1>1, FS_CardinalityType
<1> QED
  BY <1>2 DEF LaterDue

LEMMA AgedType ==
    ASSUME NEW s \in Scope, bans[s] \in Row
    PROVE  Aged(s) \in Row
<1>1. LaterDue(s) \in Nat
  BY LaterDueType
<1>2. bans[s].banned_at # Nil => Bump(bans[s].banned_at, AgeCap) \in 0..AgeCap
  BY BumpType, CapsAssumption DEF Row
<1> DEFINE bannedAt == IF bans[s].banned_at = Nil THEN Nil
                       ELSE Bump(bans[s].banned_at, AgeCap)
           wait == bans[s].next_probe_at
           nextProbe == IF wait = Nil \/ wait = ParkedWait THEN wait
                        ELSE IF wait > 1 THEN wait - 1 ELSE -LaterDue(s)
<1>3. bannedAt \in 0..AgeCap \cup {Nil}
  BY <1>2
<1>4. nextProbe \in Int \cup {Nil}
  BY <1>1 DEF Row
<1>5. Aged(s) = [bans[s] EXCEPT !.banned_at = bannedAt, !.next_probe_at = nextProbe]
  BY DEF Aged
<1> QED
  BY <1>3, <1>4, <1>5 DEF Row

-----------------------------------------------------------------------------
(* Type correctness.                                                       *)

LEMMA SlotTypes ==
    /\ Idle \in Slot
    /\ \A s \in Scope, isTrial \in BOOLEAN : Sent(s, isTrial) \in Slot
    /\ \A slot \in Slot : AfterRecordSuccess(slot) \in Slot
<1>1. NoRow \in Row /\ 0 \in 0..MaxFlight
  BY NoRowType, InstanceAssumption
<1>2. Idle \in Slot
  BY <1>1 DEF Idle, Slot, Pc
<1>3. \A s \in Scope, isTrial \in BOOLEAN : Sent(s, isTrial) \in Slot
  BY <1>2 DEF Sent, Slot, Pc
<1>4. \A slot \in Slot : AfterRecordSuccess(slot) \in Slot
  BY <1>1, <1>2 DEF AfterRecordSuccess, Slot, Pc, Recording
<1> QED
  BY <1>2, <1>3, <1>4

\* What a Write of a row and a Goto or Done of a request keep.
LEMMA WriteType ==
    ASSUME bans \in [Scope -> Row], NEW s \in Scope, NEW row \in Row, Write(s, row)
    PROVE  bans' \in [Scope -> Row]
BY DEF Write

LEMMA GotoType ==
    ASSUME req \in [Requests -> Slot], NEW r \in Requests, NEW pc \in Pc, Goto(r, pc)
    PROVE  /\ req' \in [Requests -> Slot]
           /\ \A q \in Requests : req'[q].scope = req[q].scope
           /\ \A q \in Requests : q # r => req'[q] = req[q]
           /\ req'[r].pc = pc
BY DEF Goto, Slot

LEMMA DoneType ==
    ASSUME req \in [Requests -> Slot], NEW r \in Requests, Done(r)
    PROVE  /\ req' \in [Requests -> Slot]
           /\ \A q \in Requests : q # r => req'[q] = req[q]
           /\ req'[r] = Idle
BY SlotTypes DEF Done

\* A request that is not idle has a scope, and the scope has a row.
LEMMA BusyScope ==
    ASSUME TypeOK, NEW r \in Requests, ~At(r, "idle")
    PROVE  req[r].scope \in Scope /\ RowOf(r) \in Row /\ req[r] \in Slot
BY DEF TypeOK, RowOf

LEMMA TypeInit == Init => TypeOK
BY NoRowType, SlotTypes, InstanceAssumption DEF Init, TypeOK, At, Idle

LEMMA TypeStart == TypeOK /\ Start => TypeOK'
<1> SUFFICES ASSUME TypeOK, Start PROVE TypeOK'
  OBVIOUS
<1>1. ASSUME NEW s \in Scope
      PROVE  AfterClaim(bans[s]) \in Row
  BY AfterClaimType DEF TypeOK
<1>2. ASSUME NEW r \in Requests, NEW m \in Machines, NEW d \in Domains,
             ClaimTrial(r, m, d)
      PROVE  TypeOK'
  <2>1. PICK s \in Claimable(m, d) : /\ Write(s, AfterClaim(bans[s]))
                                      /\ req' = [req EXCEPT ![r] = Sent(s, TRUE)]
    BY <1>2 DEF ClaimTrial
  <2>2. s \in Scope
    BY DEF Claimable, SoonestDue, DueScopes
  <2>3. Sent(s, TRUE) \in Slot /\ Sent(s, TRUE).scope = s
    BY <2>2, SlotTypes DEF Sent, Idle
  <2> QED
    BY <1>1, <1>2, <2>1, <2>2, <2>3, WriteType DEF TypeOK, ClaimTrial, At
<1>3. ASSUME NEW m \in Machines, NEW d \in Domains, ClaimWithoutTrial(m, d)
      PROVE  TypeOK'
  <2>1. PICK s \in Claimable(m, d) : Write(s, AfterClaim(bans[s]))
    BY <1>3 DEF ClaimWithoutTrial
  <2>2. s \in Scope
    BY DEF Claimable, SoonestDue, DueScopes
  <2> QED
    BY <1>1, <1>3, <2>1, <2>2, WriteType DEF TypeOK, ClaimWithoutTrial, At
<1>4. ASSUME NEW r \in Requests, NEW s \in Scope, Dispatch(r, s)
      PROVE  TypeOK'
  <2>1. Sent(s, FALSE) \in Slot /\ Sent(s, FALSE).scope = s
    BY SlotTypes DEF Sent, Idle
  <2> QED
    BY <1>4, <2>1 DEF TypeOK, Dispatch, At
<1> QED
  BY <1>2, <1>3, <1>4 DEF Start

LEMMA TypeProgress ==
    ASSUME TypeOK, NEW r \in Requests, Progress(r)
    PROVE  TypeOK'
<1>1. ASSUME ReportSuccess(r)
      PROVE  TypeOK'
  <2>1. "success_read" \in Pc
    BY DEF Pc, Recording
  <2>2. req[r].scope \in Scope /\ req[r].scope.domain \in Domains
    BY <1>1, BusyScope DEF ReportSuccess, At, Scope
  <2> QED
    BY <1>1, <2>1, <2>2, GotoType DEF TypeOK, ReportSuccess, At
<1>2. ASSUME ReportFailure(r)
      PROVE  TypeOK'
  <2>1. "failure_count" \in Pc
    BY DEF Pc, Recording
  <2>2. req[r].scope \in Scope /\ req[r].scope.domain \in Domains
    BY <1>2, BusyScope DEF ReportFailure, At, Scope
  <2> QED
    BY <1>2, <2>1, <2>2, GotoType DEF TypeOK, ReportFailure, At
<1>3. ASSUME Done(r), UNCHANGED <<bans, confirmed, confirmedCache, recoveryEvents>>
      PROVE  TypeOK'
  BY <1>3, DoneType DEF TypeOK, At, Idle
<1>4. ASSUME CountFailure(r)
      PROVE  TypeOK'
  <2>1. req[r].scope \in Scope /\ RowOf(r) \in Row
    BY <1>4, BusyScope DEF CountFailure, At
  <2>2. bans' \in [Scope -> Row]
    BY <1>4, <2>1, AfterFailureCountType, WriteType DEF CountFailure, TypeOK
  <2>3. "failure_ban" \in Pc
    BY DEF Pc, Recording
  <2>4. Goto(r, "failure_ban") \/ Done(r)
    BY <1>4 DEF CountFailure
  <2>5. CASE Goto(r, "failure_ban")
    BY <1>4, <2>1, <2>2, <2>3, <2>5, GotoType DEF TypeOK, CountFailure, At
  <2>6. CASE Done(r)
    BY <1>4, <2>2, <2>6, DoneType DEF TypeOK, CountFailure, At, Idle
  <2> QED
    BY <2>4, <2>5, <2>6
<1>5. ASSUME BanScope(r)
      PROVE  TypeOK'
  <2>1. req[r].scope \in Scope /\ RowOf(r) \in Row
    BY <1>5, BusyScope DEF BanScope, At
  <2>2. bans' \in [Scope -> Row]
    BY <1>5, <2>1, AfterBanType, WriteType DEF BanScope, TypeOK
  <2> QED
    BY <1>5, <2>2, DoneType DEF TypeOK, BanScope, At, Idle
<1>6. ASSUME UpsertFailure(r)
      PROVE  TypeOK'
  <2>1. req[r].scope \in Scope /\ RowOf(r) \in Row
    BY <1>6, BusyScope DEF UpsertFailure, At
  <2>2. bans' \in [Scope -> Row]
    BY <1>6, <2>1, AfterFailureUpsertType, WriteType DEF UpsertFailure, TypeOK
  <2> QED
    BY <1>6, <2>2, DoneType DEF TypeOK, UpsertFailure, At, Idle
<1>7. ASSUME ReadBeforeSuccess(r)
      PROVE  TypeOK'
  <2>1. req[r].scope \in Scope /\ RowOf(r) \in Row /\ req[r] \in Slot
    BY <1>7, BusyScope DEF ReadBeforeSuccess, At
  <2> DEFINE read == [NoRow EXCEPT !.state = RowOf(r).state,
                                   !.banned_at = RowOf(r).banned_at]
             slot == [req[r] EXCEPT !.pc = "success_write", !.read = read]
  <2>2. read \in Row
    BY <2>1, NoRowType DEF Row
  <2>3. slot \in Slot /\ slot.scope = req[r].scope
    BY <2>1, <2>2 DEF Slot, Pc, Recording
  <2>4. req' = [req EXCEPT ![r] = slot]
    BY <1>7 DEF ReadBeforeSuccess, TypeOK
  <2> HIDE DEF slot
  <2> QED
    BY <1>7, <2>1, <2>3, <2>4 DEF TypeOK, ReadBeforeSuccess, At
<1>8. ASSUME WriteSuccess(r)
      PROVE  TypeOK'
  <2>1. req[r].scope \in Scope /\ RowOf(r) \in Row /\ req[r] \in Slot
    BY <1>8, BusyScope DEF WriteSuccess, At
  <2>2. bans' \in [Scope -> Row]
    BY <1>8, <2>1, AfterSuccessType, WriteType DEF WriteSuccess, TypeOK
  <2> DEFINE slot == IF SawBan(req[r].read) THEN [req[r] EXCEPT !.pc = "recovery_event"]
                     ELSE AfterRecordSuccess(req[r])
  <2>3. [req[r] EXCEPT !.pc = "recovery_event"] \in Slot
    BY <2>1 DEF Slot, Pc, Recording
  <2>4. AfterRecordSuccess(req[r]) \in Slot
    BY <2>1, SlotTypes
  <2>5. slot.pc = "idle" \/ slot.scope = req[r].scope
    BY <2>1 DEF AfterRecordSuccess, Idle, Slot
  <2>6. slot \in Slot
    BY <2>3, <2>4
  <2>7. req' = [req EXCEPT ![r] = slot]
    BY <1>8 DEF WriteSuccess
  <2> HIDE DEF slot
  <2> QED
    BY <1>8, <2>1, <2>2, <2>5, <2>6, <2>7 DEF TypeOK, WriteSuccess, At
<1>9. ASSUME BankRecovery(r)
      PROVE  TypeOK'
  <2>1. req[r].scope \in Scope /\ req[r] \in Slot
    BY <1>9, BusyScope DEF BankRecovery, At
  <2>2. AfterRecordSuccess(req[r]) \in Slot
    BY <2>1, SlotTypes
  <2>3. \/ AfterRecordSuccess(req[r]).pc = "idle"
        \/ AfterRecordSuccess(req[r]).scope = req[r].scope
    BY <2>1 DEF AfterRecordSuccess, Idle, Slot
  <2>4. req' = [req EXCEPT ![r] = AfterRecordSuccess(req[r])]
    BY <1>9 DEF BankRecovery
  <2>5. Bump(recoveryEvents[req[r].scope], LogCap) \in 0..LogCap
    BY <2>1, BumpType, InstanceAssumption DEF TypeOK
  <2> QED
    BY <1>9, <2>1, <2>2, <2>3, <2>4, <2>5 DEF TypeOK, BankRecovery, At
<1>10. ASSUME ReadBeforeTrialFailure(r)
       PROVE  TypeOK'
  <2>1. req[r].scope \in Scope /\ RowOf(r) \in Row /\ req[r] \in Slot
    BY <1>10, BusyScope DEF ReadBeforeTrialFailure, At
  <2> DEFINE read == [NoRow EXCEPT !.probe_attempt = RowOf(r).probe_attempt,
                                   !.banned_at = RowOf(r).banned_at]
             slot == [req[r] EXCEPT !.pc = "trial_write", !.read = read]
  <2>2. read \in Row
    BY <2>1, NoRowType DEF Row
  <2>3. slot \in Slot /\ slot.scope = req[r].scope
    BY <2>1, <2>2 DEF Slot, Pc, Recording
  <2>4. req' = [req EXCEPT ![r] = slot]
    BY <1>10 DEF ReadBeforeTrialFailure, TypeOK
  <2> HIDE DEF slot
  <2> QED
    BY <1>10, <2>1, <2>3, <2>4 DEF TypeOK, ReadBeforeTrialFailure, At
<1>11. ASSUME WriteTrialFailure(r)
       PROVE  TypeOK'
  <2>1. req[r].scope \in Scope /\ RowOf(r) \in Row /\ req[r] \in Slot
    BY <1>11, BusyScope DEF WriteTrialFailure, At
  <2>2. req[r].read \in Row
    BY <2>1 DEF Slot
  <2>3. bans' \in [Scope -> Row]
    BY <1>11, <2>1, <2>2, AfterFailedTrialType, WriteType DEF WriteTrialFailure, TypeOK
  <2> DEFINE slot == [req[r] EXCEPT !.pc = "trial_event", !.read = NoRow]
  <2>4. slot \in Slot /\ slot.scope = req[r].scope
    BY <2>1, NoRowType DEF Slot, Pc, Recording
  <2>5. req' = [req EXCEPT ![r] = slot]
    BY <1>11 DEF WriteTrialFailure, TypeOK
  <2> HIDE DEF slot
  <2> QED
    BY <1>11, <2>1, <2>3, <2>4, <2>5 DEF TypeOK, WriteTrialFailure, At
<1> QED
  BY <1>1, <1>2, <1>3, <1>4, <1>5, <1>6, <1>7, <1>8, <1>9, <1>10, <1>11
     DEF Progress, IgnoreResult, TrialScopeGone, LogTrial, Lose

LEMMA TypeRest == TypeOK /\ (Restart \/ ClearCooldowns \/ Tick) => TypeOK'
<1> SUFFICES ASSUME TypeOK, Restart \/ ClearCooldowns \/ Tick PROVE TypeOK'
  OBVIOUS
<1>1. CASE Restart
  BY <1>1, SlotTypes DEF TypeOK, Restart, At, Idle
<1>2. CASE ClearCooldowns
  BY <1>2, NoRowType DEF TypeOK, ClearCooldowns, At
<1>3. CASE Tick
  <2>1. \A s \in Scope : Aged(s) \in Row
    BY AgedType DEF TypeOK
  <2>2. ASSUME NEW r \in Requests
        PROVE  /\ req'[r] \in Slot
               /\ req'[r].pc = req[r].pc
               /\ req'[r].scope = req[r].scope
    <3>1. CASE At(r, "sent")
      <4>1. req[r].age + 1 \in 0..MaxFlight
        BY <1>3, <3>1, InstanceAssumption DEF Tick, ClockFree, At, TypeOK, Slot
      <4>2. [req[r] EXCEPT !.age = req[r].age + 1] \in Slot
        BY <4>1 DEF TypeOK, Slot
      <4>3. req'[r] = [req[r] EXCEPT !.age = req[r].age + 1]
        BY <1>3, <3>1 DEF Tick
      <4> QED
        BY <4>2, <4>3 DEF TypeOK, Slot
    <3>2. CASE ~At(r, "sent")
      BY <1>3, <3>2 DEF Tick, TypeOK
    <3> QED
      BY <3>1, <3>2
  <2>3. req' \in [Requests -> Slot]
    BY <1>3, <2>2 DEF Tick
  <2> QED
    BY <1>3, <2>1, <2>2, <2>3 DEF TypeOK, Tick, At
<1> QED
  BY <1>1, <1>2, <1>3

\* The state always has the types of the tables and of the requests: no write
\* of any driver, in any interleaving, leaves a row half made.
THEOREM TypeCorrect == Spec => []TypeOK
<1>1. TypeOK /\ [Next]_vars => TypeOK'
  <2>1. TypeOK /\ UNCHANGED vars => TypeOK'
    BY DEF TypeOK, vars, At
  <2> QED
    BY <2>1, TypeStart, TypeProgress, TypeRest DEF Next
<1> QED
  BY <1>1, TypeInit, PTL DEF Spec

-----------------------------------------------------------------------------
(***************************************************************************)
(* Safety. A step is first reduced to what it may do to one row (RowChange) *)
(* and to the failures that are being counted (CountingSteps); the         *)
(* invariants follow from those lemmas.                                    *)
(***************************************************************************)

\* What a step may make of the row of scope s, and who may.
RowChange(s) ==
    \/ bans'[s] = bans[s]
    \/ Due(bans[s]) /\ bans'[s] = AfterClaim(bans[s])
    \/ bans'[s] = AfterSuccess(bans[s])
    \/ bans'[s] = NoRow
    \/ Tick /\ bans'[s] = Aged(s)
    \/ /\ IsMongo
       /\ \E r \in Requests : At(r, "failure_count") /\ req[r].scope = s
       /\ bans'[s] = AfterFailureCount(bans[s])
    \/ /\ IsMongo
       /\ \E r \in Requests : At(r, "failure_ban") /\ req[r].scope = s
       /\ bans'[s] = AfterBan(bans[s])
    \/ /\ ~IsMongo
       /\ \E r \in Requests : At(r, "failure_count") /\ req[r].scope = s
       /\ bans'[s] = AfterFailureUpsert(bans[s])
    \/ \E r \in Requests :
        /\ At(r, "trial_write") /\ req[r].scope = s
        /\ bans'[s] = AfterFailedTrial(bans[s], req[r].read)
        /\ req'[r].pc = "trial_event"

LEMMA RowChangesStart ==
    ASSUME TypeOK, Start, NEW s \in Scope
    PROVE  RowChange(s)
<1>1. ASSUME NEW t, t \in Scope, Due(bans[t]), Write(t, AfterClaim(bans[t]))
      PROVE  RowChange(s)
  BY <1>1 DEF RowChange, Write, TypeOK
<1>2. ASSUME NEW m \in Machines, NEW d \in Domains,
             \E t \in Claimable(m, d) : Write(t, AfterClaim(bans[t]))
      PROVE  RowChange(s)
  BY <1>1, <1>2 DEF Claimable, SoonestDue, DueScopes
<1>3. ASSUME NEW r \in Requests, NEW m \in Machines, NEW d \in Domains,
             ClaimTrial(r, m, d)
      PROVE  RowChange(s)
  BY <1>2, <1>3 DEF ClaimTrial
<1>4. ASSUME NEW m \in Machines, NEW d \in Domains, ClaimWithoutTrial(m, d)
      PROVE  RowChange(s)
  BY <1>2, <1>4 DEF ClaimWithoutTrial
<1>5. ASSUME NEW r \in Requests, NEW t \in Scope, Dispatch(r, t)
      PROVE  RowChange(s)
  BY <1>5 DEF Dispatch, RowChange
<1> QED
  BY <1>3, <1>4, <1>5 DEF Start

LEMMA RowChangesProgress ==
    ASSUME TypeOK, NEW r \in Requests, Progress(r), NEW s \in Scope
    PROVE  RowChange(s)
<1>1. ASSUME bans' = bans
      PROVE  RowChange(s)
  BY <1>1 DEF RowChange
<1>2. ASSUME CountFailure(r)
      PROVE  RowChange(s)
  BY <1>2 DEF CountFailure, Write, RowOf, RowChange, TypeOK
<1>3. ASSUME BanScope(r)
      PROVE  RowChange(s)
  BY <1>3 DEF BanScope, Write, RowOf, RowChange, TypeOK
<1>4. ASSUME UpsertFailure(r)
      PROVE  RowChange(s)
  BY <1>4 DEF UpsertFailure, Write, RowOf, RowChange, TypeOK
<1>5. ASSUME WriteSuccess(r)
      PROVE  RowChange(s)
  BY <1>5 DEF WriteSuccess, Write, RowOf, RowChange, TypeOK
<1>6. ASSUME WriteTrialFailure(r)
      PROVE  RowChange(s)
  <2>1. req'[r].pc = "trial_event"
    BY <1>6 DEF WriteTrialFailure, TypeOK, Slot
  <2> QED
    BY <1>6, <2>1 DEF WriteTrialFailure, Write, RowOf, RowChange, TypeOK
<1> QED
  BY <1>1, <1>2, <1>3, <1>4, <1>5, <1>6
     DEF Progress, ReportSuccess, ReportFailure, IgnoreResult, ReadBeforeSuccess,
         BankRecovery, ReadBeforeTrialFailure, TrialScopeGone, LogTrial, Lose

LEMMA RowChanges ==
    ASSUME TypeOK, [Next]_vars, NEW s \in Scope
    PROVE  RowChange(s)
<1>1. CASE UNCHANGED vars \/ Restart
  BY <1>1 DEF vars, Restart, RowChange
<1>2. CASE ClearCooldowns
  BY <1>2 DEF ClearCooldowns, RowChange
<1>3. CASE Tick
  BY <1>3 DEF Tick, RowChange
<1> QED
  BY <1>1, <1>2, <1>3, RowChangesStart, RowChangesProgress DEF Next

\* No write makes Nil of a wait that it sets.
LEMMA NilIsNoTime == Nil \notin Int
BY DurationsAssumption

-----------------------------------------------------------------------------
(* No ban is stranded.                                                     *)

RowScheduled(row) ==
    Banned(row) => /\ row.banned_at # Nil
                   /\ row.next_probe_at # Nil
                   /\ row.successful_since_recovery = 0

LEMMA ScheduledStep ==
    ASSUME TypeOK, BannedIsScheduled, [Next]_vars, NEW s \in Scope
    PROVE  RowScheduled(bans'[s])
<1>1. bans[s] \in Row /\ RowScheduled(bans[s])
  BY DEF TypeOK, BannedIsScheduled, RowScheduled
<1>2. CASE Due(bans[s]) /\ bans'[s] = AfterClaim(bans[s])
  BY <1>1, <1>2, DurationsAssumption, NilIsNoTime
     DEF RowScheduled, AfterClaim, Banned, Row
<1>3. CASE bans'[s] = AfterSuccess(bans[s]) \/ bans'[s] = NoRow
  BY <1>3 DEF RowScheduled, AfterSuccess, NoRow, Banned
<1>4. CASE bans'[s] = Aged(s)
  <2>1. LaterDue(s) \in Nat
    BY LaterDueType
  <2>2. bans[s].banned_at # Nil => Bump(bans[s].banned_at, AgeCap) \in Int
    BY <1>1, BumpType, CapsAssumption DEF Row
  <2> DEFINE bannedAt == IF bans[s].banned_at = Nil THEN Nil
                         ELSE Bump(bans[s].banned_at, AgeCap)
             wait == bans[s].next_probe_at
             nextProbe == IF wait = Nil \/ wait = ParkedWait THEN wait
                          ELSE IF wait > 1 THEN wait - 1 ELSE -LaterDue(s)
  <2>3. bans[s].banned_at # Nil => bannedAt # Nil
    BY <2>2, NilIsNoTime
  <2>4. wait # Nil => nextProbe # Nil
    BY <1>1, <2>1, NilIsNoTime, DurationsAssumption DEF Row
  <2>5. Aged(s) = [bans[s] EXCEPT !.banned_at = bannedAt, !.next_probe_at = nextProbe]
    BY DEF Aged
  <2> HIDE DEF bannedAt, nextProbe
  <2> QED
    BY <1>1, <1>4, <2>3, <2>4, <2>5 DEF RowScheduled, Banned, Row
<1>5. CASE bans'[s] = AfterFailureCount(bans[s])
  BY <1>1, <1>5 DEF RowScheduled, AfterFailureCount, Banned, Row
<1>6. ASSUME NEW row \in Row, RowScheduled(row)
      PROVE  RowScheduled(AfterBan(row))
  BY <1>6, NilIsNoTime, DurationsAssumption DEF RowScheduled, AfterBan, Banned, Row
<1>7. CASE bans'[s] = AfterFailureUpsert(bans[s])
  <2> DEFINE counted == [bans[s] EXCEPT !.failed_count = Bump(@, CountCap)]
  <2>1. Bump(bans[s].failed_count, CountCap) \in 0..CountCap
    BY <1>1, BumpType, CapsAssumption DEF Row
  <2>2. counted \in Row /\ RowScheduled(counted)
    BY <1>1, <2>1 DEF Row, RowScheduled, Banned
  <2>3. ~Banned([NoRow EXCEPT !.state = "active", !.failed_count = 1])
    BY DEF Banned, NoRow
  <2> QED
    BY <1>6, <1>7, <2>2, <2>3 DEF AfterFailureUpsert, RowScheduled
<1>8. ASSUME NEW r \in Requests, At(r, "trial_write"), req[r].scope = s,
             bans'[s] = AfterFailedTrial(bans[s], req[r].read)
      PROVE  RowScheduled(bans'[s])
  <2> DEFINE attempt == Bump(req[r].read.probe_attempt, AttemptCap)
  <2>1. attempt \in 0..AttemptCap
    BY BumpType, CapsAssumption DEF TypeOK, Slot, Row
  <2>2. NextProbeAfterFailedTrial(attempt, req[r].read.banned_at) # Nil
    BY <2>1, NextProbeBounds, NilIsNoTime, CapsAssumption
  <2> QED
    BY <1>1, <1>8, <2>2 DEF RowScheduled, AfterFailedTrial, Banned, Row
<1> QED
  BY <1>1, <1>2, <1>3, <1>4, <1>5, <1>6, <1>7, <1>8, RowChanges DEF RowChange

\* Every ban has a date and a next trial that ClaimTrialProxy can find, and no
\* success since: with any number of requests, on both drivers, whatever the
\* operator clears.
THEOREM NoBanIsStranded == Spec => []BannedIsScheduled
<1>1. Init => BannedIsScheduled
  BY DEF Init, BannedIsScheduled, Banned, NoRow
<1>2. TypeOK /\ BannedIsScheduled /\ [Next]_vars => BannedIsScheduled'
  <2> SUFFICES ASSUME TypeOK, BannedIsScheduled, [Next]_vars
               PROVE  BannedIsScheduled'
    OBVIOUS
  <2> QED
    BY ScheduledStep DEF BannedIsScheduled, RowScheduled
<1> QED
  BY <1>1, <1>2, TypeCorrect, PTL DEF Spec

-----------------------------------------------------------------------------
(* A ban is parked for good only after enough failed trials.               *)

\* Inductive: no wait is longer than the parked one, so no wait ages into it.
RowParked(row) ==
    row.next_probe_at \in Int =>
        /\ row.next_probe_at <= ParkedWait
        /\ row.next_probe_at = ParkedWait => row.probe_attempt >= PermanentTrialThreshold

ParkedInv == \A s \in Scope : RowParked(bans[s])

LEMMA ParkedBan ==
    ASSUME NEW row \in Row, RowParked(row)
    PROVE  RowParked(AfterBan(row))
BY DurationsAssumption DEF RowParked, AfterBan, Row

LEMMA ParkedTrial ==
    ASSUME NEW row \in Row, RowParked(row), NEW read \in Row
    PROVE  RowParked(AfterFailedTrial(row, read))
<1> DEFINE attempt == Bump(read.probe_attempt, AttemptCap)
           wait == NextProbeAfterFailedTrial(attempt, read.banned_at)
<1>1. attempt \in 0..AttemptCap
  BY BumpType, CapsAssumption DEF Row
<1>2. /\ ProbeBackoff(attempt) \in Nat
      /\ ProbeBackoff(attempt) < ParkedWait
  BY <1>1, ProbeBackoffBounds, DurationsAssumption, CapsAssumption
<1>3. \/ wait = ParkedWait /\ attempt >= PermanentTrialThreshold
      \/ wait = ProbeBackoff(attempt)
  BY DEF NextProbeAfterFailedTrial
<1>4. CASE row.state = "absent"
  BY <1>4 DEF AfterFailedTrial
<1>5. CASE row.state # "absent"
  <2>1. /\ AfterFailedTrial(row, read).next_probe_at = wait
        /\ AfterFailedTrial(row, read).probe_attempt = attempt
    BY <1>5 DEF AfterFailedTrial, Row
  <2> HIDE DEF wait, attempt
  <2> QED
    BY <1>2, <1>3, <2>1, DurationsAssumption DEF RowParked
<1> QED
  BY <1>4, <1>5

LEMMA ParkedAged ==
    ASSUME TypeOK, NEW s \in Scope, RowParked(bans[s])
    PROVE  RowParked(Aged(s))
<1> DEFINE wait == bans[s].next_probe_at
           nextProbe == IF wait = Nil \/ wait = ParkedWait THEN wait
                        ELSE IF wait > 1 THEN wait - 1 ELSE -LaterDue(s)
<1>1. bans[s] \in Row /\ LaterDue(s) \in Nat
  BY LaterDueType DEF TypeOK
<1>2. /\ Aged(s).next_probe_at = nextProbe
      /\ Aged(s).probe_attempt = bans[s].probe_attempt
  BY <1>1 DEF Aged, Row
<1>3. \/ nextProbe = wait
      \/ nextProbe \in Int /\ nextProbe < ParkedWait
  <2>1. CASE wait = Nil \/ wait = ParkedWait
    BY <2>1
  <2>2. CASE ~(wait = Nil \/ wait = ParkedWait) /\ wait > 1
    <3>1. wait \in Int /\ wait <= ParkedWait
      BY <1>1, <2>2 DEF RowParked, Row
    <3> QED
      BY <2>2, <3>1, DurationsAssumption
  <2>3. CASE ~(wait = Nil \/ wait = ParkedWait) /\ ~(wait > 1)
    BY <1>1, <2>3, DurationsAssumption
  <2> QED
    BY <2>1, <2>2, <2>3
<1> HIDE DEF nextProbe
<1> QED
  BY <1>2, <1>3, DurationsAssumption DEF RowParked

LEMMA ParkedStep ==
    ASSUME TypeOK, ParkedInv, [Next]_vars, NEW s \in Scope
    PROVE  RowParked(bans'[s])
<1>1. bans[s] \in Row /\ RowParked(bans[s])
  BY DEF TypeOK, ParkedInv
<1>2. CASE bans'[s] = AfterClaim(bans[s])
  BY <1>1, <1>2, DurationsAssumption DEF RowParked, AfterClaim, Row
<1>3. CASE bans'[s] = AfterSuccess(bans[s]) \/ bans'[s] = NoRow
  BY <1>3, NilIsNoTime DEF RowParked, AfterSuccess, NoRow
<1>4. CASE bans'[s] = Aged(s)
  BY <1>1, <1>4, ParkedAged
<1>5. CASE bans'[s] = AfterFailureCount(bans[s])
  BY <1>1, <1>5 DEF RowParked, AfterFailureCount, Row
<1>6. CASE bans'[s] = AfterBan(bans[s])
  BY <1>1, <1>6, ParkedBan
<1>7. CASE bans'[s] = AfterFailureUpsert(bans[s])
  <2> DEFINE counted == [bans[s] EXCEPT !.failed_count = Bump(@, CountCap)]
  <2>1. Bump(bans[s].failed_count, CountCap) \in 0..CountCap
    BY <1>1, BumpType, CapsAssumption DEF Row
  <2>2. counted \in Row /\ RowParked(counted)
    BY <1>1, <2>1 DEF Row, RowParked
  <2>3. RowParked([NoRow EXCEPT !.state = "active", !.failed_count = 1])
    BY NilIsNoTime DEF RowParked, NoRow
  <2> HIDE DEF counted
  <2>4. \/ bans'[s] = [NoRow EXCEPT !.state = "active", !.failed_count = 1]
        \/ bans'[s] = counted \/ bans'[s] = AfterBan(counted)
    BY <1>7 DEF AfterFailureUpsert, counted
  <2> QED
    BY <2>2, <2>3, <2>4, ParkedBan
<1>8. ASSUME NEW r \in Requests, bans'[s] = AfterFailedTrial(bans[s], req[r].read)
      PROVE  RowParked(bans'[s])
  BY <1>1, <1>8, ParkedTrial DEF TypeOK, Slot
<1> QED
  BY <1>1, <1>2, <1>3, <1>4, <1>5, <1>6, <1>7, <1>8, RowChanges DEF RowChange

\* With the parking switched on or off, on both drivers: a banned scope whose
\* next trial is a century away has failed enough trials, and what a stale
\* read of an earlier ban parks carries that earlier ban's count with it.
THEOREM OnlyTriedScopesAreParked == Spec => []ParkedAfterEnoughTrials
<1>1. Init => ParkedInv
  BY NilIsNoTime DEF Init, ParkedInv, RowParked, NoRow
<1>2. TypeOK /\ ParkedInv /\ [Next]_vars => ParkedInv'
  BY ParkedStep DEF ParkedInv
<1>3. ParkedInv => ParkedAfterEnoughTrials
  BY DurationsAssumption DEF ParkedInv, RowParked, ParkedAfterEnoughTrials
<1> QED
  BY <1>1, <1>2, <1>3, TypeCorrect, PTL DEF Spec

-----------------------------------------------------------------------------
(* On Postgres a scope is banned exactly when its streak is.               *)

RowStreak(row) == Banned(row) <=> row.failed_count >= FailureThreshold

LEMMA StreakUpsert ==
    ASSUME NEW row \in Row, RowStreak(row)
    PROVE  RowStreak(AfterFailureUpsert(row))
<1> DEFINE counted == [row EXCEPT !.failed_count = Bump(@, CountCap)]
<1>1. /\ Bump(row.failed_count, CountCap) \in 0..CountCap
      /\ row.failed_count \in 0..CountCap
  BY BumpType, CapsAssumption DEF Row
<1>2. counted.state = row.state /\ counted.failed_count = Bump(row.failed_count, CountCap)
  BY DEF Row
<1>3. CASE row.state = "absent"
  BY <1>3, CapsAssumption DEF RowStreak, AfterFailureUpsert, Banned, NoRow
<1>4. CASE /\ row.state # "absent"
           /\ row.failed_count + 1 >= FailureThreshold /\ ~Banned(row)
  <2>1. Bump(row.failed_count, CountCap) >= FailureThreshold
    BY <1>1, <1>4, CapsAssumption DEF Bump
  <2>2. /\ AfterBan(counted).state = "banned"
        /\ AfterBan(counted).failed_count = counted.failed_count
    BY <1>2, <1>4 DEF AfterBan, Row
  <2>3. AfterFailureUpsert(row) = AfterBan(counted)
    BY <1>4 DEF AfterFailureUpsert
  <2> HIDE DEF counted
  <2> QED
    BY <1>2, <2>1, <2>2, <2>3 DEF RowStreak, Banned
<1>5. CASE /\ row.state # "absent"
           /\ ~(row.failed_count + 1 >= FailureThreshold /\ ~Banned(row))
  <2>1. Bump(row.failed_count, CountCap) >= FailureThreshold <=> Banned(row)
    BY <1>1, <1>5, CapsAssumption DEF Bump, RowStreak
  <2>2. AfterFailureUpsert(row) = counted
    BY <1>5 DEF AfterFailureUpsert
  <2> HIDE DEF counted
  <2> QED
    BY <1>2, <2>1, <2>2 DEF RowStreak, Banned
<1> QED
  BY <1>3, <1>4, <1>5

LEMMA StreakStep ==
    ASSUME TypeOK, BannedIffStreak, ~IsMongo, [Next]_vars, NEW s \in Scope
    PROVE  RowStreak(bans'[s])
<1>1. bans[s] \in Row /\ RowStreak(bans[s])
  BY DEF TypeOK, BannedIffStreak, RowStreak
<1>2. CASE bans'[s] = AfterClaim(bans[s])
  BY <1>1, <1>2 DEF RowStreak, AfterClaim, Banned, Row
<1>3. CASE bans'[s] = AfterSuccess(bans[s]) \/ bans'[s] = NoRow
  BY <1>3, CapsAssumption DEF RowStreak, AfterSuccess, NoRow, Banned
<1>4. CASE bans'[s] = Aged(s)
  BY <1>1, <1>4 DEF RowStreak, Aged, Banned, Row
<1>5. ASSUME NEW r \in Requests, bans'[s] = AfterFailedTrial(bans[s], req[r].read)
      PROVE  RowStreak(bans'[s])
  BY <1>1, <1>5 DEF RowStreak, AfterFailedTrial, Banned, Row
<1> QED
  BY <1>1, <1>2, <1>3, <1>4, <1>5, StreakUpsert, RowChanges DEF RowChange

\* On Postgres, where a failure is counted and bans in one statement, a scope
\* is banned exactly when failureThreshold failures in a row were counted.
THEOREM StreakBansOnPostgres == ~IsMongo => (Spec => []BannedIffStreak)
<1> SUFFICES ASSUME ~IsMongo PROVE Spec => []BannedIffStreak
  OBVIOUS
<1>1. Init => BannedIffStreak
  BY CapsAssumption DEF Init, BannedIffStreak, Banned, NoRow
<1>2. TypeOK /\ BannedIffStreak /\ [Next]_vars => BannedIffStreak'
  <2> SUFFICES ASSUME TypeOK, BannedIffStreak, [Next]_vars
               PROVE  BannedIffStreak'
    OBVIOUS
  <2> QED
    BY StreakStep DEF BannedIffStreak, RowStreak
<1> QED
  BY <1>1, <1>2, TypeCorrect, PTL DEF Spec

-----------------------------------------------------------------------------
(* Only confirmed domains count.                                           *)

\* A request whose failure is being counted.
Counting(r) == At(r, "failure_count") \/ At(r, "failure_ban")

\* Domain d has produced a real success and is no infrastructure.
Genuine(d) == d \in confirmed /\ ~IsInfraDomain(d)

\* OnlyConfirmedDomainsCount is inductive together with what makes it so: the
\* cache holds nothing the collection does not, and IsDomainConfirmed was
\* asked before the counting began.
CountingGenuine ==
    /\ confirmedCache \subseteq confirmed
    /\ \A r \in Requests : Counting(r) => Genuine(req[r].scope.domain)

ConfirmedInv == OnlyConfirmedDomainsCount /\ CountingGenuine

LEMMA ConfirmedGrows ==
    ASSUME [Next]_vars, confirmedCache \subseteq confirmed
    PROVE  confirmed \subseteq confirmed' /\ confirmedCache' \subseteq confirmed'
<1>1. CASE \E r \in Requests : ReportSuccess(r)
  BY <1>1 DEF ReportSuccess
<1>2. CASE \E r \in Requests : ReportFailure(r)
  BY <1>2 DEF ReportFailure, IsDomainConfirmed
<1>3. CASE Restart
  BY <1>3 DEF Restart
<1>4. CASE UNCHANGED <<confirmed, confirmedCache>>
  BY <1>4
<1>5. CASE Start
  BY <1>4, <1>5 DEF Start, ClaimTrial, ClaimWithoutTrial, Dispatch
<1>6. CASE ClearCooldowns \/ Tick \/ UNCHANGED vars
  BY <1>4, <1>6 DEF ClearCooldowns, Tick, vars
<1>7. ASSUME NEW r \in Requests, Progress(r)
      PROVE  confirmed \subseteq confirmed' /\ confirmedCache' \subseteq confirmed'
  BY <1>1, <1>2, <1>4, <1>7
     DEF Progress, IgnoreResult, CountFailure, BanScope, UpsertFailure,
         ReadBeforeSuccess, WriteSuccess, BankRecovery, ReadBeforeTrialFailure,
         TrialScopeGone, WriteTrialFailure, LogTrial, Lose
<1> QED
  BY <1>3, <1>5, <1>6, <1>7 DEF Next

\* How a request comes to count a failure.
LEMMA CountingSteps ==
    ASSUME TypeOK, [Next]_vars, NEW r \in Requests, Counting(r)'
    PROVE  \/ Counting(r) /\ req'[r].scope = req[r].scope
           \/ ReportFailure(r) /\ req'[r].scope = req[r].scope
<1>1. ASSUME req'[r] = req[r]
      PROVE  Counting(r) /\ req'[r].scope = req[r].scope
  BY <1>1 DEF Counting, At
<1>2. ASSUME NEW m \in Machines, NEW d \in Domains, NEW q \in Requests,
             ClaimTrial(q, m, d)
      PROVE  Counting(r) /\ req'[r].scope = req[r].scope
  BY <1>1, <1>2 DEF ClaimTrial, TypeOK, Sent, Idle, Counting, At
<1>3. ASSUME NEW q \in Requests, NEW s \in Scope, Dispatch(q, s)
      PROVE  Counting(r) /\ req'[r].scope = req[r].scope
  BY <1>1, <1>3 DEF Dispatch, TypeOK, Sent, Idle, Counting, At
<1>4. CASE Start
  BY <1>1, <1>2, <1>3, <1>4 DEF Start, ClaimWithoutTrial
<1>5. CASE Restart
  BY <1>5 DEF Restart, Counting, At, Idle
<1>6. CASE ClearCooldowns \/ UNCHANGED vars
  BY <1>1, <1>6 DEF ClearCooldowns, vars
<1>7. CASE Tick
  <2>1. /\ req'[r].pc = req[r].pc
        /\ req'[r].scope = req[r].scope
    BY <1>7 DEF Tick, TypeOK, Slot
  <2> QED
    BY <2>1 DEF Counting, At
<1>8. ASSUME NEW q \in Requests, Progress(q)
      PROVE  \/ Counting(r) /\ req'[r].scope = req[r].scope
             \/ ReportFailure(r) /\ req'[r].scope = req[r].scope
  <2>1. CASE q # r
    <3>1. req'[r] = req[r]
      BY <1>8, <2>1
         DEF Progress, ReportSuccess, ReportFailure, IgnoreResult, CountFailure,
             BanScope, UpsertFailure, ReadBeforeSuccess, WriteSuccess, BankRecovery,
             ReadBeforeTrialFailure, TrialScopeGone, WriteTrialFailure, LogTrial,
             Lose, Goto, Done, TypeOK
    <3> QED
      BY <1>1, <3>1
  <2>2. CASE q = r
    <3>1. req[r] \in Slot
      BY DEF TypeOK
    <3>2. CASE ReportFailure(r)
      BY <3>1, <3>2 DEF ReportFailure, Goto, TypeOK, Slot
    <3>3. CASE CountFailure(r)
      <4>1. CASE Goto(r, "failure_ban")
        BY <3>1, <3>3, <4>1 DEF CountFailure, Counting, At, Goto, TypeOK, Slot
      <4>2. CASE Done(r)
        BY <4>2 DEF Done, TypeOK, Counting, At, Idle
      <4> QED
        BY <3>3, <4>1, <4>2 DEF CountFailure
    <3>4. CASE Done(r)
      BY <3>4 DEF Done, TypeOK, Counting, At, Idle
    <3>5. CASE ReportSuccess(r)
      BY <3>1, <3>5 DEF ReportSuccess, Goto, TypeOK, Counting, At, Slot
    <3>6. CASE ReadBeforeSuccess(r) \/ ReadBeforeTrialFailure(r) \/ WriteTrialFailure(r)
      BY <3>1, <3>6 DEF ReadBeforeSuccess, ReadBeforeTrialFailure, WriteTrialFailure,
                        TypeOK, Counting, At, Slot
    <3>7. CASE WriteSuccess(r) \/ BankRecovery(r)
      <4>1. AfterRecordSuccess(req[r]).pc \in {"idle", "trial_event"}
        BY <3>1 DEF AfterRecordSuccess, Idle, Slot
      <4>2. \/ req'[r] = [req[r] EXCEPT !.pc = "recovery_event"]
            \/ req'[r] = AfterRecordSuccess(req[r])
        BY <3>7 DEF WriteSuccess, BankRecovery, TypeOK
      <4>3. [req[r] EXCEPT !.pc = "recovery_event"].pc = "recovery_event"
        BY <3>1 DEF Slot
      <4>4. req'[r].pc \in {"idle", "trial_event", "recovery_event"}
        BY <4>1, <4>2, <4>3
      <4> QED
        BY <4>4 DEF Counting, At
    <3>8. CASE \/ IgnoreResult(r) \/ BanScope(r) \/ UpsertFailure(r)
               \/ TrialScopeGone(r) \/ LogTrial(r) \/ Lose(r)
      BY <3>4, <3>8 DEF IgnoreResult, BanScope, UpsertFailure, TrialScopeGone,
                        LogTrial, Lose
    <3>9. Progress(r)
      BY <1>8, <2>2
    <3> QED
      BY <3>2, <3>3, <3>5, <3>6, <3>7, <3>8, <3>9 DEF Progress
  <2> QED
    BY <2>1, <2>2
<1> QED
  BY <1>4, <1>5, <1>6, <1>7, <1>8 DEF Next

\* Nothing but a counted failure makes a row count.
LEMMA CountedRows ==
    ASSUME TypeOK, [Next]_vars, NEW s \in Scope,
           bans'[s].failed_count > 0 \/ Banned(bans'[s])
    PROVE  \/ bans[s].failed_count > 0 \/ Banned(bans[s])
           \/ \E r \in Requests : Counting(r) /\ req[r].scope = s
<1>1. bans[s] \in Row
  BY DEF TypeOK
<1>2. CASE bans'[s] = AfterClaim(bans[s]) \/ bans'[s] = Aged(s)
  BY <1>1, <1>2 DEF AfterClaim, Aged, Banned, Row
<1>3. CASE bans'[s] = AfterSuccess(bans[s]) \/ bans'[s] = NoRow
  BY <1>3 DEF AfterSuccess, NoRow, Banned
<1>4. ASSUME NEW r \in Requests, bans'[s] = AfterFailedTrial(bans[s], req[r].read)
      PROVE  bans[s].failed_count > 0 \/ Banned(bans[s])
  BY <1>1, <1>4 DEF AfterFailedTrial, Banned, Row
<1> QED
  BY <1>2, <1>3, <1>4, RowChanges DEF RowChange, Counting

LEMMA CountingStep ==
    ASSUME TypeOK, CountingGenuine, [Next]_vars
    PROVE  CountingGenuine' /\ confirmed \subseteq confirmed'
<1>1. confirmed \subseteq confirmed' /\ confirmedCache' \subseteq confirmed'
  BY ConfirmedGrows DEF CountingGenuine
<1>2. ASSUME NEW r \in Requests, Counting(r)'
      PROVE  Genuine(req[r].scope.domain)' /\ req'[r].scope = req[r].scope
  <2>1. CASE Counting(r) /\ req'[r].scope = req[r].scope
    BY <1>1, <2>1 DEF CountingGenuine, Genuine, IsInfraDomain
  <2>2. CASE ReportFailure(r) /\ req'[r].scope = req[r].scope
    BY <1>1, <2>2
       DEF CountingGenuine, Genuine, IsInfraDomain, ReportFailure, IsDomainConfirmed
  <2> QED
    BY <1>2, <2>1, <2>2, CountingSteps
<1>3. (\A r \in Requests : Counting(r) => Genuine(req[r].scope.domain))'
  BY <1>2 DEF Genuine
<1> QED
  BY <1>1, <1>3 DEF CountingGenuine

LEMMA ConfirmedStep == TypeOK /\ ConfirmedInv /\ [Next]_vars => ConfirmedInv'
<1> SUFFICES ASSUME TypeOK, ConfirmedInv, [Next]_vars
             PROVE  ConfirmedInv'
  OBVIOUS
<1>1. CountingGenuine' /\ confirmed \subseteq confirmed'
  BY CountingStep DEF ConfirmedInv
<1>2. ASSUME NEW s \in Scope, bans'[s].failed_count > 0 \/ Banned(bans'[s])
      PROVE  s.domain \in confirmed' /\ s.domain \notin InfraDomains
  BY <1>1, <1>2, CountedRows
     DEF ConfirmedInv, OnlyConfirmedDomainsCount, CountingGenuine, Genuine,
         IsInfraDomain
<1>3. OnlyConfirmedDomainsCount'
  BY <1>2 DEF OnlyConfirmedDomainsCount
<1> QED
  BY <1>1, <1>3 DEF ConfirmedInv

\* A counted failure or a ban is on a domain that has had a real success and
\* is no ad, tracker or push infrastructure, across restarts and whatever
\* proxy and machine the success came through.
THEOREM JunkNeverCounts == Spec => []OnlyConfirmedDomainsCount
<1>1. Init => ConfirmedInv
  BY DEF Init, ConfirmedInv, OnlyConfirmedDomainsCount, CountingGenuine, Banned,
         NoRow, Counting, At, Idle
<1>2. ConfirmedInv => OnlyConfirmedDomainsCount
  BY DEF ConfirmedInv
<1> QED
  BY <1>1, <1>2, ConfirmedStep, TypeCorrect, PTL DEF Spec

-----------------------------------------------------------------------------
(***************************************************************************)
(* At most one trial of a scope is out at a time, and what follows from it *)
(* for the ladder of a ban.                                                *)
(***************************************************************************)

\* The trial of a scope is out from its claim until its result has rewritten
\* the schedule (or it failed to: then the request is gone).
Out(r) == (At(r, "sent") /\ req[r].trial) \/ At(r, "trial_write")

\* While a trial is out its scope is not due: what is left of the wait is
\* more than what is left of the longest request.
Held(r) ==
    Banned(RowOf(r)) => RowOf(r).next_probe_at + req[r].age > MaxFlight

HeldBack == ShortFlights => \A r \in Requests : Out(r) => Held(r)

OneOut ==
    ShortFlights =>
        \A q, r \in Requests :
            Out(q) /\ Out(r) /\ req[q].scope = req[r].scope => q = r

TrialInv == BannedIsScheduled /\ HeldBack /\ OneOut

\* On Postgres nothing but the trial itself climbs the ladder that it read.
ReadIsCurrent ==
    ShortFlights /\ ~IsMongo =>
        \A r \in Requests :
            At(r, "trial_write") /\ Banned(RowOf(r)) =>
                RowOf(r).probe_attempt <= req[r].read.probe_attempt

-----------------------------------------------------------------------------
(* What a step does to the requests whose trial is out.                    *)

\* Request r has just claimed the due scope s, alone in this step.
Claimed(r, s) ==
    /\ s \in Scope /\ Due(bans[s])
    /\ bans'[s] = AfterClaim(bans[s])
    /\ req'[r].scope = s /\ req'[r].age = 0 /\ At(r, "sent")'
    /\ \A q \in Requests : q # r => req'[q] = req[q]

\* The slot of r stays that of the same trial: it ages with the clock, or its
\* failure is read.
Kept(r) ==
    /\ Out(r)
    /\ req'[r].scope = req[r].scope
    /\ \/ ~Tick /\ req'[r].age = req[r].age
       \/ Tick /\ At(r, "sent") /\ req[r].age < MaxFlight
               /\ req'[r].age = req[r].age + 1

LEMMA OutSteps ==
    ASSUME TypeOK, [Next]_vars, NEW r \in Requests, Out(r)'
    PROVE  Kept(r) \/ \E s \in Scope : Claimed(r, s)
<1>0. req[r] \in Slot
  BY DEF TypeOK
<1>1. ASSUME Tick
      PROVE  Kept(r)
  <2>1. /\ req'[r].pc = req[r].pc
        /\ req'[r].scope = req[r].scope
        /\ req'[r].trial = req[r].trial
    BY <1>0, <1>1 DEF Tick
  <2>2. At(r, "sent") /\ req[r].age < MaxFlight
    BY <1>1, <2>1 DEF Tick, ClockFree, Out, At
  <2>3. req'[r].age = req[r].age + 1
    BY <1>0, <1>1, <2>2 DEF Tick, Slot
  <2> QED
    BY <1>1, <2>1, <2>2, <2>3 DEF Kept, Out, At
<1>2. ASSUME ~Tick, req'[r] = req[r]
      PROVE  Kept(r)
  BY <1>2 DEF Kept, Out, At
<1>3. ASSUME ~Tick, NEW q \in Requests, NEW m \in Machines, NEW d \in Domains,
             ClaimTrial(q, m, d)
      PROVE  Kept(r) \/ \E s \in Scope : Claimed(r, s)
  <2>1. PICK s \in Claimable(m, d) : /\ Write(s, AfterClaim(bans[s]))
                                      /\ req' = [req EXCEPT ![q] = Sent(s, TRUE)]
    BY <1>3 DEF ClaimTrial
  <2>2. s \in Scope /\ Due(bans[s])
    BY DEF Claimable, SoonestDue, DueScopes
  <2>3. CASE q # r
    BY <1>2, <1>3, <2>1, <2>3 DEF TypeOK
  <2>4. CASE q = r
    <3>1. bans'[s] = AfterClaim(bans[s])
      BY <2>1, <2>2 DEF Write, TypeOK
    <3>2. req'[r] = Sent(s, TRUE)
      BY <2>1, <2>4 DEF TypeOK
    <3>3. req'[r].scope = s /\ req'[r].age = 0 /\ At(r, "sent")'
      BY <3>2 DEF Sent, Idle, At
    <3>4. \A p \in Requests : p # r => req'[p] = req[p]
      BY <2>1, <2>4 DEF TypeOK
    <3> QED
      BY <2>2, <3>1, <3>3, <3>4 DEF Claimed
  <2> QED
    BY <2>3, <2>4
<1>4. ASSUME ~Tick, NEW q \in Requests, NEW s \in Scope, Dispatch(q, s)
      PROVE  Kept(r)
  <2>1. q # r
    BY <1>4 DEF Dispatch, TypeOK, Sent, Idle, Out, At
  <2> QED
    BY <1>2, <1>4, <2>1 DEF Dispatch, TypeOK
<1>5. ASSUME ~Tick, Restart \/ ClearCooldowns \/ UNCHANGED vars
      PROVE  Kept(r)
  <2>1. CASE Restart
    BY <2>1 DEF Restart, Out, At, Idle
  <2>2. CASE ClearCooldowns \/ UNCHANGED vars
    BY <1>2, <1>5, <2>2 DEF ClearCooldowns, vars
  <2> QED
    BY <1>5, <2>1, <2>2
<1>6. ASSUME ~Tick, NEW q \in Requests, Progress(q), q # r
      PROVE  Kept(r)
  <2>1. req'[r] = req[r]
    BY <1>6
       DEF Progress, ReportSuccess, ReportFailure, IgnoreResult, CountFailure,
           BanScope, UpsertFailure, ReadBeforeSuccess, WriteSuccess, BankRecovery,
           ReadBeforeTrialFailure, TrialScopeGone, WriteTrialFailure, LogTrial,
           Lose, Goto, Done, TypeOK
  <2> QED
    BY <1>2, <1>6, <2>1
<1>7. ASSUME ~Tick, Progress(r)
      PROVE  Kept(r)
  <2>1. CASE ReadBeforeTrialFailure(r)
    <3>1. /\ req'[r].scope = req[r].scope
          /\ req'[r].age = req[r].age
          /\ Out(r)
      BY <1>0, <2>1 DEF ReadBeforeTrialFailure, TypeOK, Slot, Out
    <3> QED
      BY <1>7, <3>1 DEF Kept
  <2>2. CASE Done(r)
    BY <2>2 DEF Done, TypeOK, Out, At, Idle
  <2>3. CASE CountFailure(r)
    <3>1. CASE Goto(r, "failure_ban")
      BY <1>0, <3>1 DEF Goto, TypeOK, Out, At, Slot
    <3> QED
      BY <2>2, <2>3, <3>1 DEF CountFailure
  <2>4. CASE ReportSuccess(r) \/ ReportFailure(r)
    BY <1>0, <2>4 DEF ReportSuccess, ReportFailure, Goto, TypeOK, Out, At, Slot
  <2>5. CASE ReadBeforeSuccess(r)
    <3>1. req'[r].pc = "success_write"
      BY <1>0, <2>5 DEF ReadBeforeSuccess, TypeOK, Slot
    <3> QED
      BY <3>1 DEF Out, At
  <2>6. CASE WriteSuccess(r) \/ BankRecovery(r)
    <3>1. AfterRecordSuccess(req[r]).pc \in {"idle", "trial_event"}
      BY <1>0 DEF AfterRecordSuccess, Idle, Slot
    <3>2. \/ req'[r] = [req[r] EXCEPT !.pc = "recovery_event"]
          \/ req'[r] = AfterRecordSuccess(req[r])
      BY <2>6 DEF WriteSuccess, BankRecovery, TypeOK
    <3>3. [req[r] EXCEPT !.pc = "recovery_event"].pc = "recovery_event"
      BY <1>0 DEF Slot
    <3> QED
      BY <3>1, <3>2, <3>3 DEF Out, At
  <2>7. CASE WriteTrialFailure(r)
    BY <1>0, <2>7 DEF WriteTrialFailure, TypeOK, Slot, Out, At
  <2>8. CASE \/ IgnoreResult(r) \/ BanScope(r) \/ UpsertFailure(r)
             \/ TrialScopeGone(r) \/ LogTrial(r) \/ Lose(r)
    BY <2>2, <2>8 DEF IgnoreResult, BanScope, UpsertFailure, TrialScopeGone,
                      LogTrial, Lose
  <2> QED
    BY <1>7, <2>1, <2>3, <2>4, <2>5, <2>6, <2>7, <2>8 DEF Progress
<1>8. ASSUME ~Tick, NEW m \in Machines, NEW d \in Domains, ClaimWithoutTrial(m, d)
      PROVE  Kept(r)
  BY <1>2, <1>8 DEF ClaimWithoutTrial
<1> QED
  BY <1>1, <1>3, <1>4, <1>5, <1>6, <1>7, <1>8 DEF Next, Start

-----------------------------------------------------------------------------
(* One trial per scope.                                                    *)

\* A step that leaves a scope banned leaves it a wait longer than any request
\* still has to go, or the wait it had.
LEMMA WaitAfterStep ==
    ASSUME TypeOK, BannedIsScheduled, ShortFlights, [Next]_vars,
           NEW s \in Scope, Banned(bans'[s])
    PROVE  \/ bans'[s].next_probe_at > MaxFlight
           \/ Banned(bans[s]) /\ bans'[s].next_probe_at = bans[s].next_probe_at
           \/ /\ Tick /\ Banned(bans[s])
              /\ bans[s].next_probe_at > 1
              /\ bans'[s].next_probe_at = bans[s].next_probe_at - 1
           \/ Tick /\ Banned(bans[s]) /\ bans[s].next_probe_at <= 1
<1>1. /\ bans[s] \in Row
      /\ MaxFlight < InitialCooldown /\ MaxFlight < TrialHoldWindow
      /\ Banned(bans[s]) => bans[s].next_probe_at \in Int
  BY DEF TypeOK, ShortFlights, BannedIsScheduled, Row
<1>2. CASE bans'[s] = AfterClaim(bans[s])
  BY <1>1, <1>2 DEF AfterClaim, Row
<1>3. CASE bans'[s] = AfterSuccess(bans[s]) \/ bans'[s] = NoRow
  BY <1>3 DEF AfterSuccess, NoRow, Banned
<1>4. CASE Tick /\ bans'[s] = Aged(s)
  <2>1. Banned(bans[s])
    BY <1>1, <1>4 DEF Aged, Banned, Row
  <2>2. CASE bans[s].next_probe_at = ParkedWait
    BY <1>1, <1>4, <2>1, <2>2 DEF Aged, Row
  <2>3. CASE bans[s].next_probe_at # ParkedWait /\ bans[s].next_probe_at > 1
    <3>1. bans'[s].next_probe_at = bans[s].next_probe_at - 1
      BY <1>1, <1>4, <2>1, <2>3, NilIsNoTime DEF Aged, Row
    <3> QED
      BY <1>4, <2>1, <2>3, <3>1
  <2>4. CASE bans[s].next_probe_at # ParkedWait /\ ~(bans[s].next_probe_at > 1)
    BY <1>1, <1>4, <2>1, <2>4
  <2> QED
    BY <2>2, <2>3, <2>4
<1>5. CASE bans'[s] = AfterFailureCount(bans[s])
  BY <1>1, <1>5 DEF AfterFailureCount, Banned, Row
<1>6. ASSUME NEW row \in Row, Banned(AfterBan(row))
      PROVE  AfterBan(row).next_probe_at = InitialCooldown
  BY <1>6 DEF AfterBan, Banned, Row
<1>7. CASE bans'[s] = AfterBan(bans[s])
  BY <1>1, <1>6, <1>7
<1>8. CASE bans'[s] = AfterFailureUpsert(bans[s])
  <2> DEFINE counted == [bans[s] EXCEPT !.failed_count = Bump(@, CountCap)]
  <2>1. Bump(bans[s].failed_count, CountCap) \in 0..CountCap
    BY <1>1, BumpType, CapsAssumption DEF Row
  <2>2. /\ counted \in Row
        /\ counted.state = bans[s].state
        /\ counted.next_probe_at = bans[s].next_probe_at
    BY <1>1, <2>1 DEF Row
  <2>3. ~Banned([NoRow EXCEPT !.state = "active", !.failed_count = 1])
    BY DEF Banned, NoRow
  <2>4. bans'[s] = counted \/ bans'[s] = AfterBan(counted)
    BY <1>8, <2>3 DEF AfterFailureUpsert
  <2> HIDE DEF counted
  <2> QED
    BY <1>1, <1>6, <2>2, <2>4 DEF Banned
<1>9. ASSUME NEW r \in Requests, bans'[s] = AfterFailedTrial(bans[s], req[r].read)
      PROVE  bans'[s].next_probe_at > MaxFlight
  <2> DEFINE attempt == Bump(req[r].read.probe_attempt, AttemptCap)
             wait == NextProbeAfterFailedTrial(attempt, req[r].read.banned_at)
  <2>1. attempt \in 0..AttemptCap
    BY BumpType, CapsAssumption DEF TypeOK, Slot, Row
  <2>2. wait \in Nat /\ wait >= TrialHoldWindow
    BY <2>1, NextProbeBounds, CapsAssumption
  <2>3. bans[s].state # "absent"
    BY <1>9 DEF AfterFailedTrial, Banned
  <2>4. bans'[s].next_probe_at = wait
    BY <1>1, <1>9, <2>3 DEF AfterFailedTrial, Row
  <2> HIDE DEF wait
  <2> QED
    BY <1>1, <2>2, <2>4, DurationsAssumption, InstanceAssumption
<1> QED
  BY <1>2, <1>3, <1>4, <1>5, <1>7, <1>8, <1>9, RowChanges DEF RowChange

\* No scope whose trial is out is due.
LEMMA OutIsNotDue ==
    ASSUME TypeOK, BannedIsScheduled, NEW r \in Requests, Out(r), Held(r)
    PROVE  ~Due(RowOf(r))
<1>1. /\ req[r].scope \in Scope /\ RowOf(r) \in Row
      /\ req[r].age \in 0..MaxFlight
  BY BusyScope DEF Out, At, Slot
<1>2. CASE Banned(RowOf(r))
  <2>1. RowOf(r).next_probe_at \in Int
    BY <1>1, <1>2 DEF BannedIsScheduled, RowOf, Row
  <2>2. RowOf(r).next_probe_at + req[r].age > MaxFlight
    BY <1>2 DEF Held
  <2> QED
    BY <1>1, <2>1, <2>2, InstanceAssumption DEF Due
<1> QED
  BY <1>2 DEF Due

\* A trial that stays out stays held back, and a new one is.
LEMMA HeldStep ==
    ASSUME TypeOK, BannedIsScheduled, [Next]_vars, ShortFlights,
           NEW r \in Requests, Out(r)', Kept(r) => Held(r)
    PROVE  Held(r)'
<1> SUFFICES ASSUME Banned(RowOf(r))'
             PROVE  (RowOf(r).next_probe_at + req[r].age > MaxFlight)'
  BY DEF Held
<1>0. MaxFlight \in Nat /\ MaxFlight < TrialHoldWindow /\ TrialHoldWindow \in Nat
  BY InstanceAssumption, DurationsAssumption DEF ShortFlights
<1>1. ASSUME NEW s \in Scope, Claimed(r, s)
      PROVE  (RowOf(r).next_probe_at + req[r].age > MaxFlight)'
  <2>1. bans'[s].next_probe_at = TrialHoldWindow
    BY <1>1 DEF Claimed, AfterClaim, TypeOK, Row
  <2> QED
    BY <1>0, <1>1, <2>1 DEF Claimed, RowOf
<1>2. CASE Kept(r)
  <2> DEFINE s == req[r].scope
  <2>1. s \in Scope /\ bans[s] \in Row /\ req[r].age \in 0..MaxFlight
    BY <1>2, BusyScope DEF Kept, Out, At, Slot, RowOf
  <2>2. Banned(bans'[s])
    BY <1>2 DEF Kept, RowOf
  <2>3. Banned(bans[s]) => /\ bans[s].next_probe_at \in Int
                           /\ bans[s].next_probe_at + req[r].age > MaxFlight
    BY <1>2, <2>1 DEF BannedIsScheduled, Held, RowOf, Kept, Row
  <2>4. req'[r].age \in Int /\ req'[r].age >= req[r].age
    BY <1>2, <2>1 DEF Kept
  <2>5. CASE bans'[s].next_probe_at > MaxFlight
    <3>1. bans'[s] \in Row
      BY <2>1, TypeStart, TypeProgress, TypeRest DEF Next, TypeOK, vars
    <3>2. bans'[s].next_probe_at \in Int
      <4>1. RowScheduled(bans'[s])
        BY <2>1, ScheduledStep
      <4> QED
        BY <2>2, <3>1, <4>1 DEF RowScheduled, Row
    <3> QED
      BY <1>0, <1>2, <2>1, <2>4, <2>5, <3>2 DEF Kept, RowOf
  <2>6. CASE Banned(bans[s]) /\ bans'[s].next_probe_at = bans[s].next_probe_at
    BY <1>0, <1>2, <2>1, <2>3, <2>4, <2>6 DEF Kept, RowOf
  <2>7. CASE /\ Tick /\ Banned(bans[s])
             /\ bans[s].next_probe_at > 1
             /\ bans'[s].next_probe_at = bans[s].next_probe_at - 1
    <3>1. req'[r].age = req[r].age + 1
      BY <1>2, <2>7 DEF Kept
    <3> QED
      BY <1>0, <1>2, <2>1, <2>3, <2>7, <3>1 DEF Kept, RowOf
  <2>8. CASE Tick /\ Banned(bans[s]) /\ bans[s].next_probe_at <= 1
    <3>1. req[r].age < MaxFlight
      BY <1>2, <2>8 DEF Kept
    <3> QED
      BY <1>0, <2>1, <2>3, <2>8, <3>1
  <2> QED
    BY <2>1, <2>2, <2>5, <2>6, <2>7, <2>8, WaitAfterStep
<1> QED
  BY <1>1, <1>2, OutSteps

\* Two trials of one scope were both out before: a claim finds the scope due.
LEMMA BothWereOut ==
    ASSUME TypeOK, BannedIsScheduled, [Next]_vars,
           NEW q \in Requests, NEW r \in Requests, Out(q)', Out(r)',
           req'[q].scope = req'[r].scope, q # r,
           Out(q) /\ req[q].scope = req'[q].scope => Held(q),
           Out(r) /\ req[r].scope = req'[r].scope => Held(r)
    PROVE  Kept(q) /\ Kept(r) /\ req[q].scope = req[r].scope
<1>1. ASSUME NEW p \in Requests, NEW o \in Requests, p # o, Out(o)',
             Out(o) /\ req[o].scope = req'[o].scope => Held(o),
             req'[o].scope = req'[p].scope, NEW s \in Scope, Claimed(p, s)
      PROVE  FALSE
  <2>1. Out(o) /\ req[o].scope = s /\ req'[o].scope = s
    BY <1>1 DEF Claimed, Out, At
  <2>2. Due(RowOf(o))
    BY <1>1, <2>1 DEF Claimed, RowOf
  <2> QED
    BY <1>1, <2>1, <2>2, OutIsNotDue
<1>2. Kept(q) /\ Kept(r)
  BY <1>1, OutSteps
<1> QED
  BY <1>2 DEF Kept

LEMMA HeldBackStep == TypeOK /\ TrialInv /\ [Next]_vars => HeldBack'
<1> SUFFICES ASSUME TypeOK, TrialInv, [Next]_vars, ShortFlights,
                    NEW r \in Requests, Out(r)'
             PROVE  Held(r)'
  BY DEF HeldBack, ShortFlights
<1> QED
  BY HeldStep DEF TrialInv, HeldBack, Kept

LEMMA OneOutStep == TypeOK /\ TrialInv /\ [Next]_vars => OneOut'
<1> SUFFICES ASSUME TypeOK, TrialInv, [Next]_vars, ShortFlights,
                    NEW q \in Requests, NEW r \in Requests, Out(q)', Out(r)',
                    req'[q].scope = req'[r].scope, q # r
             PROVE  FALSE
  BY DEF OneOut, ShortFlights
<1>1. Kept(q) /\ Kept(r) /\ req[q].scope = req[r].scope
  BY BothWereOut DEF TrialInv, HeldBack
<1> QED
  BY <1>1 DEF Kept, TrialInv, OneOut

LEMMA TrialStep == TypeOK /\ TrialInv /\ [Next]_vars => TrialInv'
<1>1. TypeOK /\ BannedIsScheduled /\ [Next]_vars => BannedIsScheduled'
  BY ScheduledStep DEF BannedIsScheduled, RowScheduled
<1> QED
  BY <1>1, HeldBackStep, OneOutStep DEF TrialInv

LEMMA TrialInit == Init => TrialInv
<1>1. Init => BannedIsScheduled
  BY DEF Init, BannedIsScheduled, Banned, NoRow
<1>2. ASSUME Init, NEW r \in Requests
      PROVE  ~Out(r)
  BY <1>2 DEF Init, Out, At, Idle
<1> QED
  BY <1>1, <1>2 DEF TrialInv, HeldBack, OneOut

\* As long as every request is shorter than the hold of a claim and than the
\* cooldown of a fresh ban, two real requests are never spent at once on the
\* trial of one scope, whatever bans, clears and restarts happen meanwhile.
THEOREM OneTrialAtATime == Spec => []OneTrialPerScope
<1>1. TrialInv => OneTrialPerScope
  BY DEF TrialInv, OneOut, OneTrialPerScope, Out
<1> QED
  BY <1>1, TrialInit, TrialStep, TypeCorrect, PTL DEF Spec

-----------------------------------------------------------------------------
(* The ladder of a ban on Postgres.                                        *)

\* A failed trial is about to be written by the request that read the row, as
\* it was read in this step or before.
LEMMA TrialReadSteps ==
    ASSUME TypeOK, [Next]_vars, NEW r \in Requests, At(r, "trial_write")'
    PROVE  \/ ReadBeforeTrialFailure(r)
           \/ At(r, "trial_write") /\ req'[r] = req[r]
<1>0. req[r] \in Slot
  BY DEF TypeOK
<1>1. CASE Tick
  BY <1>0, <1>1 DEF Tick, ClockFree, At, Slot
<1>2. CASE Restart
  BY <1>2 DEF Restart, Idle, At
<1>3. CASE Start
  <2>1. ASSUME NEW q \in Requests, NEW s, NEW isTrial,
               req' = [req EXCEPT ![q] = Sent(s, isTrial)]
        PROVE  req'[r] = req[r]
    BY <2>1 DEF TypeOK, Sent, Idle, At
  <2>2. req'[r] = req[r]
    BY <1>3, <2>1 DEF Start, ClaimTrial, ClaimWithoutTrial, Dispatch
  <2> QED
    BY <2>2 DEF At
<1>4. ASSUME req'[r] = req[r]
      PROVE  At(r, "trial_write") /\ req'[r] = req[r]
  BY <1>4 DEF At
<1>5. ASSUME NEW q \in Requests, Progress(q), q # r
      PROVE  req'[r] = req[r]
  BY <1>5
     DEF Progress, ReportSuccess, ReportFailure, IgnoreResult, CountFailure,
         BanScope, UpsertFailure, ReadBeforeSuccess, WriteSuccess, BankRecovery,
         ReadBeforeTrialFailure, TrialScopeGone, WriteTrialFailure, LogTrial,
         Lose, Goto, Done, TypeOK
<1>6. ASSUME Progress(r)
      PROVE  ReadBeforeTrialFailure(r)
  <2>1. ASSUME Done(r)
        PROVE  FALSE
    BY <2>1 DEF Done, TypeOK, At, Idle
  <2>2. ASSUME NEW pc \in Pc, Goto(r, pc), pc # "trial_write"
        PROVE  FALSE
    BY <1>0, <2>2 DEF Goto, TypeOK, At, Slot
  <2>3. ~CountFailure(r)
    BY <2>1, <2>2 DEF CountFailure, Pc, Recording
  <2>4. ~ReportSuccess(r) /\ ~ReportFailure(r)
    BY <2>2 DEF ReportSuccess, ReportFailure, Pc, Recording
  <2>5. ~ReadBeforeSuccess(r)
    BY <1>0 DEF ReadBeforeSuccess, TypeOK, At, Slot
  <2>6. ~WriteSuccess(r) /\ ~BankRecovery(r)
    <3>1. AfterRecordSuccess(req[r]).pc \in {"idle", "trial_event"}
      BY <1>0 DEF AfterRecordSuccess, Idle, Slot
    <3>2. [req[r] EXCEPT !.pc = "recovery_event"].pc = "recovery_event"
      BY <1>0 DEF Slot
    <3> QED
      BY <3>1, <3>2 DEF WriteSuccess, BankRecovery, TypeOK, At
  <2>7. ~WriteTrialFailure(r)
    BY <1>0 DEF WriteTrialFailure, TypeOK, At, Slot
  <2>8. /\ ~IgnoreResult(r) /\ ~BanScope(r) /\ ~UpsertFailure(r)
        /\ ~TrialScopeGone(r) /\ ~LogTrial(r) /\ ~Lose(r)
    BY <2>1 DEF IgnoreResult, BanScope, UpsertFailure, TrialScopeGone, LogTrial, Lose
  <2> QED
    BY <1>6, <2>3, <2>4, <2>5, <2>6, <2>7, <2>8 DEF Progress
<1> QED
  BY <1>1, <1>2, <1>3, <1>4, <1>5, <1>6 DEF Next, ClearCooldowns, vars

\* What a step leaves in probe_attempt of a scope that it leaves banned.
LEMMA AttemptAfterStep ==
    ASSUME TypeOK, ~IsMongo, [Next]_vars, NEW s \in Scope, Banned(bans'[s])
    PROVE  \/ ~Banned(bans[s]) /\ bans'[s].probe_attempt = 0
           \/ bans'[s].probe_attempt = bans[s].probe_attempt /\ Banned(bans[s])
           \/ \E q \in Requests :
                /\ At(q, "trial_write") /\ req[q].scope = s
                /\ req'[q].pc = "trial_event"
                /\ Banned(bans[s])
                /\ bans'[s].probe_attempt = Bump(req[q].read.probe_attempt, AttemptCap)
<1>0. bans[s] \in Row
  BY DEF TypeOK
<1>1. CASE bans'[s] = bans[s]
  BY <1>1
<1>2. CASE bans'[s] = AfterClaim(bans[s])
  BY <1>0, <1>2 DEF AfterClaim, Banned, Row
<1>3. CASE bans'[s] = AfterSuccess(bans[s]) \/ bans'[s] = NoRow
  BY <1>3 DEF AfterSuccess, NoRow, Banned
<1>4. CASE bans'[s] = Aged(s)
  BY <1>0, <1>4 DEF Aged, Banned, Row
<1>5. CASE bans'[s] = AfterFailureUpsert(bans[s])
  <2> DEFINE counted == [bans[s] EXCEPT !.failed_count = Bump(@, CountCap)]
  <2>1. /\ counted.state = bans[s].state
        /\ counted.probe_attempt = bans[s].probe_attempt
        /\ AfterBan(counted).probe_attempt = 0 \/ AfterBan(counted) = counted
    BY <1>0 DEF Row, AfterBan
  <2>2. ~Banned([NoRow EXCEPT !.state = "active", !.failed_count = 1])
    BY DEF Banned, NoRow
  <2>3. \/ bans'[s] = counted
        \/ ~Banned(bans[s]) /\ bans'[s] = AfterBan(counted)
    BY <1>5, <2>2 DEF AfterFailureUpsert
  <2> HIDE DEF counted
  <2> QED
    BY <2>1, <2>3 DEF Banned
<1>6. ASSUME NEW q \in Requests, At(q, "trial_write"), req[q].scope = s,
             bans'[s] = AfterFailedTrial(bans[s], req[q].read),
             req'[q].pc = "trial_event"
      PROVE  /\ Banned(bans[s])
             /\ bans'[s].probe_attempt = Bump(req[q].read.probe_attempt, AttemptCap)
  BY <1>0, <1>6 DEF AfterFailedTrial, Banned, Row
<1> QED
  BY <1>1, <1>2, <1>3, <1>4, <1>5, <1>6, RowChanges DEF RowChange

LadderInv == TrialInv /\ ReadIsCurrent

LEMMA ReadIsCurrentStep ==
    TypeOK /\ LadderInv /\ [Next]_vars => ReadIsCurrent'
<1> SUFFICES ASSUME TypeOK, LadderInv, [Next]_vars, ShortFlights, ~IsMongo,
                    NEW r \in Requests, At(r, "trial_write")', Banned(RowOf(r))'
             PROVE  (RowOf(r).probe_attempt <= req[r].read.probe_attempt)'
  BY DEF ReadIsCurrent, ShortFlights
<1>1. CASE ReadBeforeTrialFailure(r)
  <2>1. /\ req[r].scope \in Scope
        /\ bans[req[r].scope].probe_attempt \in Int
    BY <1>1, BusyScope, CapsAssumption DEF ReadBeforeTrialFailure, At, RowOf, Row
  <2>2. /\ req'[r].scope = req[r].scope
        /\ req'[r].read.probe_attempt = bans[req[r].scope].probe_attempt
        /\ bans' = bans
    BY <1>1 DEF ReadBeforeTrialFailure, TypeOK, Slot, RowOf, NoRow
  <2> QED
    BY <2>1, <2>2 DEF RowOf
<1>2. CASE At(r, "trial_write") /\ req'[r] = req[r]
  <2> DEFINE s == req[r].scope
  <2>1. /\ s \in Scope /\ bans[s].probe_attempt \in Int
        /\ req[r].read.probe_attempt \in Nat
    BY <1>2, BusyScope, CapsAssumption DEF At, RowOf, Row, Slot
  <2>2. Banned(bans'[s])
    BY <1>2 DEF RowOf
  <2>3. Banned(bans[s]) => bans[s].probe_attempt <= req[r].read.probe_attempt
    BY <1>2 DEF LadderInv, ReadIsCurrent, RowOf
  <2>4. ASSUME NEW q \in Requests, At(q, "trial_write"), req[q].scope = s,
               req'[q].pc = "trial_event"
        PROVE  FALSE
    <3>1. q = r
      BY <1>2, <2>4 DEF LadderInv, TrialInv, OneOut, Out
    <3> QED
      BY <1>2, <2>4, <3>1 DEF At
  <2>5. bans'[s].probe_attempt <= req[r].read.probe_attempt
    BY <2>1, <2>2, <2>3, <2>4, AttemptAfterStep
  <2> QED
    BY <1>2, <2>5 DEF RowOf
<1> QED
  BY <1>1, <1>2, TrialReadSteps

\* A ban that lasts keeps its attempt or climbs.
LEMMA ClimbStep ==
    ASSUME ~IsMongo, ShortFlights, TypeOK, LadderInv, [Next]_vars,
           NEW s \in Scope, Banned(bans[s]), Banned(bans'[s])
    PROVE  bans'[s].probe_attempt >= bans[s].probe_attempt
<1>1. bans[s].probe_attempt \in 0..AttemptCap
  BY DEF TypeOK, Row
<1>2. ASSUME NEW q \in Requests, At(q, "trial_write"), req[q].scope = s,
             bans'[s].probe_attempt = Bump(req[q].read.probe_attempt, AttemptCap)
      PROVE  bans'[s].probe_attempt >= bans[s].probe_attempt
  <2>1. bans[s].probe_attempt <= req[q].read.probe_attempt
    BY <1>2 DEF LadderInv, ReadIsCurrent, RowOf
  <2>2. req[q].read.probe_attempt \in 0..AttemptCap
    BY DEF TypeOK, Slot, Row
  <2> QED
    BY <1>1, <1>2, <2>1, <2>2, CapsAssumption DEF Bump
<1> QED
  BY <1>1, <1>2, AttemptAfterStep, CapsAssumption

LEMMA LadderInit == Init => LadderInv
<1>1. ASSUME Init, NEW r \in Requests
      PROVE  ~At(r, "trial_write")
  BY <1>1 DEF Init, At, Idle
<1> QED
  BY <1>1, TrialInit DEF LadderInv, ReadIsCurrent

\* The ladder of a ban on Postgres: a failed trial writes the attempt after
\* the one it read, and neither a claim, a repeat failure nor a success can
\* have put the row further up the ladder in between. (On Mongo it is not so:
\* the second call of a RecordFailure restarts the ladder of a later ban.)
THEOREM LadderClimbsOnPostgres ==
    ~IsMongo /\ ShortFlights => (Spec => LadderOnlyClimbs)
<1> SUFFICES ASSUME ~IsMongo, ShortFlights
             PROVE  Spec => LadderOnlyClimbs
  OBVIOUS
<1> DEFINE Climbs == \A s \in Scope : Banned(bans[s]) /\ Banned(bans'[s]) =>
                        bans'[s].probe_attempt >= bans[s].probe_attempt
<1>1. TypeOK /\ LadderInv /\ [Next]_vars => LadderInv'
  BY TrialStep, ReadIsCurrentStep DEF LadderInv
<1>2. TypeOK /\ LadderInv /\ [Next]_vars => Climbs
  BY ClimbStep
<1>3. LadderOnlyClimbs <=> [][Climbs]_vars
  BY DEF LadderOnlyClimbs
<1> HIDE DEF Climbs
<1> QED
  BY <1>1, <1>2, <1>3, LadderInit, TypeCorrect, PTL DEF Spec

-----------------------------------------------------------------------------
(* The schedule of a ban on Postgres.                                      *)

\* No ban waits longer than the hold of a trial while one is out.
OutWaitsItsHold ==
    ShortFlights /\ ~IsMongo /\ InitialCooldown <= TrialHoldWindow =>
        \A r \in Requests :
            Out(r) /\ Banned(RowOf(r)) => RowOf(r).next_probe_at <= TrialHoldWindow

ScheduleInv == TrialInv /\ OutWaitsItsHold

\* What a step leaves in next_probe_at of a scope that it leaves banned.
LEMMA ScheduleAfterStep ==
    ASSUME TypeOK, BannedIsScheduled, ~IsMongo, [Next]_vars,
           NEW s \in Scope, Banned(bans'[s])
    PROVE  \/ ~Banned(bans[s]) /\ bans'[s].next_probe_at = InitialCooldown
           \/ Banned(bans[s]) /\ bans'[s].next_probe_at = bans[s].next_probe_at
           \/ Due(bans[s]) /\ bans'[s].next_probe_at = TrialHoldWindow
           \/ /\ Tick /\ Banned(bans[s]) /\ bans'[s].next_probe_at \in Int
              /\ \/ bans'[s].next_probe_at <= bans[s].next_probe_at
                 \/ bans'[s].next_probe_at <= 0
           \/ /\ Banned(bans[s])
              /\ bans'[s].next_probe_at \in Nat
              /\ bans'[s].next_probe_at >= TrialHoldWindow
              /\ \E q \in Requests :
                   /\ At(q, "trial_write") /\ req[q].scope = s
                   /\ req'[q].pc = "trial_event"
<1>0. /\ bans[s] \in Row
      /\ Banned(bans[s]) => bans[s].next_probe_at \in Int
  BY DEF TypeOK, BannedIsScheduled, Row
<1>1. CASE bans'[s] = bans[s]
  BY <1>1
<1>2. CASE Due(bans[s]) /\ bans'[s] = AfterClaim(bans[s])
  BY <1>0, <1>2 DEF AfterClaim, Row
<1>3. CASE bans'[s] = AfterSuccess(bans[s]) \/ bans'[s] = NoRow
  BY <1>3 DEF AfterSuccess, NoRow, Banned
<1>4. CASE Tick /\ bans'[s] = Aged(s)
  <2>1. LaterDue(s) \in Nat
    BY LaterDueType
  <2>2. Banned(bans[s])
    BY <1>0, <1>4 DEF Aged, Banned, Row
  <2> DEFINE wait == bans[s].next_probe_at
             nextProbe == IF wait = Nil \/ wait = ParkedWait THEN wait
                          ELSE IF wait > 1 THEN wait - 1 ELSE -LaterDue(s)
  <2>3. nextProbe \in Int /\ (nextProbe <= wait \/ nextProbe <= 0)
    BY <1>0, <2>1, <2>2
  <2>4. bans'[s].next_probe_at = nextProbe
    BY <1>0, <1>4 DEF Aged, Row
  <2> HIDE DEF nextProbe
  <2> QED
    BY <1>4, <2>2, <2>3, <2>4
<1>5. CASE bans'[s] = AfterFailureUpsert(bans[s])
  <2> DEFINE counted == [bans[s] EXCEPT !.failed_count = Bump(@, CountCap)]
  <2>1. /\ counted.state = bans[s].state
        /\ counted.next_probe_at = bans[s].next_probe_at
        /\ \/ AfterBan(counted).next_probe_at = InitialCooldown
           \/ AfterBan(counted) = counted
    BY <1>0 DEF Row, AfterBan
  <2>2. ~Banned([NoRow EXCEPT !.state = "active", !.failed_count = 1])
    BY DEF Banned, NoRow
  <2>3. \/ bans'[s] = counted
        \/ ~Banned(bans[s]) /\ bans'[s] = AfterBan(counted)
    BY <1>5, <2>2 DEF AfterFailureUpsert
  <2> HIDE DEF counted
  <2> QED
    BY <2>1, <2>3 DEF Banned
<1>6. ASSUME NEW q \in Requests, At(q, "trial_write"), req[q].scope = s,
             bans'[s] = AfterFailedTrial(bans[s], req[q].read),
             req'[q].pc = "trial_event"
      PROVE  /\ Banned(bans[s])
             /\ bans'[s].next_probe_at \in Nat
             /\ bans'[s].next_probe_at >= TrialHoldWindow
  <2> DEFINE attempt == Bump(req[q].read.probe_attempt, AttemptCap)
             wait == NextProbeAfterFailedTrial(attempt, req[q].read.banned_at)
  <2>1. attempt \in 0..AttemptCap
    BY BumpType, CapsAssumption DEF TypeOK, Slot, Row
  <2>2. wait \in Nat /\ wait >= TrialHoldWindow
    BY <2>1, NextProbeBounds, CapsAssumption
  <2>3. Banned(bans[s])
    BY <1>0, <1>6 DEF AfterFailedTrial, Banned, Row
  <2>4. bans'[s].next_probe_at = wait
    BY <1>0, <1>6, <2>3 DEF AfterFailedTrial, Banned, Row
  <2> HIDE DEF wait
  <2> QED
    BY <2>2, <2>3, <2>4
<1> QED
  BY <1>1, <1>2, <1>3, <1>4, <1>5, <1>6, RowChanges DEF RowChange

LEMMA OutWaitsStep ==
    TypeOK /\ ScheduleInv /\ [Next]_vars => OutWaitsItsHold'
<1> SUFFICES ASSUME TypeOK, ScheduleInv, [Next]_vars, ShortFlights, ~IsMongo,
                    InitialCooldown <= TrialHoldWindow,
                    NEW r \in Requests, Out(r)', Banned(RowOf(r))'
             PROVE  (RowOf(r).next_probe_at <= TrialHoldWindow)'
  BY DEF OutWaitsItsHold, ShortFlights
<1>0. TrialHoldWindow \in Nat /\ InitialCooldown \in Nat
  BY DurationsAssumption
<1>1. ASSUME NEW s \in Scope, Claimed(r, s)
      PROVE  (RowOf(r).next_probe_at <= TrialHoldWindow)'
  <2>1. bans'[s].next_probe_at = TrialHoldWindow
    BY <1>1 DEF Claimed, AfterClaim, TypeOK, Row
  <2> QED
    BY <1>0, <1>1, <2>1 DEF Claimed, RowOf
<1>2. CASE Kept(r)
  <2> DEFINE s == req[r].scope
  <2>1. s \in Scope /\ bans[s] \in Row
    BY <1>2, BusyScope DEF Kept, Out, At, RowOf
  <2>2. Banned(bans'[s])
    BY <1>2 DEF Kept, RowOf
  <2>3. Banned(bans[s]) => /\ bans[s].next_probe_at \in Int
                           /\ bans[s].next_probe_at <= TrialHoldWindow
    BY <1>2, <2>1
       DEF ScheduleInv, TrialInv, BannedIsScheduled, OutWaitsItsHold, RowOf, Kept, Row
  <2>4. ASSUME NEW q \in Requests, At(q, "trial_write"), req[q].scope = s,
               req'[q].pc = "trial_event"
        PROVE  FALSE
    <3>1. q = r
      BY <1>2, <2>4 DEF ScheduleInv, TrialInv, OneOut, Out, Kept
    <3> QED
      BY <2>4, <3>1 DEF Out, At
  <2>5. bans'[s].next_probe_at <= TrialHoldWindow
    BY <1>0, <2>1, <2>2, <2>3, <2>4, ScheduleAfterStep DEF ScheduleInv, TrialInv
  <2> QED
    BY <1>2, <2>5 DEF Kept, RowOf
<1> QED
  BY <1>1, <1>2, OutSteps

\* Between ticks a ban that lasts keeps its next trial or postpones it.
LEMMA PostponeStep ==
    ASSUME ~IsMongo, ShortFlights, InitialCooldown <= TrialHoldWindow,
           TypeOK, ScheduleInv, [Next]_vars, ~Tick,
           NEW s \in Scope, Banned(bans[s]), Banned(bans'[s])
    PROVE  bans'[s].next_probe_at >= bans[s].next_probe_at
<1>0. bans[s].next_probe_at \in Int /\ TrialHoldWindow \in Nat
  BY DurationsAssumption DEF TypeOK, ScheduleInv, TrialInv, BannedIsScheduled, Row
<1>1. ASSUME NEW q \in Requests, At(q, "trial_write"), req[q].scope = s
      PROVE  bans[s].next_probe_at <= TrialHoldWindow
  BY <1>1 DEF ScheduleInv, OutWaitsItsHold, Out, RowOf
<1>2. CASE Due(bans[s]) /\ bans'[s].next_probe_at = TrialHoldWindow
  BY <1>0, <1>2 DEF Due
<1>3. CASE /\ bans'[s].next_probe_at \in Nat
           /\ bans'[s].next_probe_at >= TrialHoldWindow
           /\ \E q \in Requests : At(q, "trial_write") /\ req[q].scope = s
  BY <1>0, <1>1, <1>3
<1> QED
  BY <1>0, <1>2, <1>3, ScheduleAfterStep DEF ScheduleInv, TrialInv

\* The schedule of a ban on Postgres, with the proportions of the code's
\* durations (a fresh ban waits no longer than a trial's hold): what postpones
\* a trial, a claim or a failed trial, is not undone by the result of another
\* request, a late one or one computed from an old read included.
THEOREM TrialsAreNotPulledForward ==
    ~IsMongo /\ ShortFlights /\ InitialCooldown <= TrialHoldWindow
        => (Spec => NeverPulledForward)
<1> SUFFICES ASSUME ~IsMongo, ShortFlights, InitialCooldown <= TrialHoldWindow
             PROVE  Spec => NeverPulledForward
  OBVIOUS
<1> DEFINE Postponed == Tick \/ \A s \in Scope : Banned(bans[s]) /\ Banned(bans'[s]) =>
                           bans'[s].next_probe_at >= bans[s].next_probe_at
<1>1. TypeOK /\ ScheduleInv /\ [Next]_vars => ScheduleInv'
  BY TrialStep, OutWaitsStep DEF ScheduleInv
<1>2. TypeOK /\ ScheduleInv /\ [Next]_vars => Postponed
  BY PostponeStep
<1>3. NeverPulledForward <=> [][Postponed]_vars
  BY DEF NeverPulledForward
<1>4. Init => ScheduleInv
  <2>1. ASSUME Init, NEW r \in Requests
        PROVE  ~Out(r)
    BY <2>1 DEF Init, Out, At, Idle
  <2> QED
    BY <2>1, TrialInit DEF ScheduleInv, OutWaitsItsHold
<1> HIDE DEF Postponed
<1> QED
  BY <1>1, <1>2, <1>3, <1>4, TypeCorrect, PTL DEF Spec

-----------------------------------------------------------------------------
(***************************************************************************)
(* On Postgres, DomainBans implements BanCycle: every step of the rows is  *)
(* a step of the abstract cycle of one scope, a clear of all, or a stutter. *)
(* The invariants proved above say which.                                  *)
(***************************************************************************)

Clean == [streak |-> 0, attempt |-> 0]

\* A missing row has no streak.
AbsentIsClean ==
    \A s \in Scope : bans[s].state = "absent" => bans[s].failed_count = 0

LEMMA AbsentInit == Init => AbsentIsClean
BY DEF Init, AbsentIsClean, NoRow

LEMMA AbsentStep == TypeOK /\ AbsentIsClean /\ [Next]_vars => AbsentIsClean'
<1> SUFFICES ASSUME TypeOK, AbsentIsClean, [Next]_vars,
                    NEW s \in Scope, bans'[s].state = "absent"
             PROVE  bans'[s].failed_count = 0
  BY DEF AbsentIsClean
<1>1. bans[s] \in Row /\ (bans[s].state = "absent" => bans[s].failed_count = 0)
  BY DEF TypeOK, AbsentIsClean
<1>2. CASE bans'[s] = AfterSuccess(bans[s]) \/ bans'[s] = NoRow
  BY <1>2 DEF AfterSuccess, NoRow
<1>3. CASE Due(bans[s]) /\ bans'[s] = AfterClaim(bans[s])
  BY <1>1, <1>3 DEF AfterClaim, Row
<1>4. CASE bans'[s] = Aged(s)
  BY <1>1, <1>4 DEF Aged, Row
<1>5. CASE bans'[s] = AfterFailureCount(bans[s])
  <2>1. bans'[s].state # "absent"
    BY <1>1, <1>5 DEF AfterFailureCount, Row
  <2> QED
    BY <2>1
<1>6. CASE bans'[s] = AfterBan(bans[s])
  BY <1>1, <1>6 DEF AfterBan, Row
<1>7. CASE bans'[s] = AfterFailureUpsert(bans[s])
  <2>1. bans'[s].state # "absent"
    BY <1>1, <1>7 DEF AfterFailureUpsert, AfterBan, NoRow, Row
  <2> QED
    BY <2>1
<1>8. ASSUME NEW r \in Requests,
             bans'[s] = AfterFailedTrial(bans[s], req[r].read)
      PROVE  bans'[s].failed_count = 0
  BY <1>1, <1>8 DEF AfterFailedTrial, Row
<1> QED
  BY <1>1, <1>2, <1>3, <1>4, <1>5, <1>6, <1>7, <1>8, RowChanges DEF RowChange

-----------------------------------------------------------------------------
(* What a step makes of the cycle of one scope.                            *)

CycleInv == LadderInv /\ BannedIffStreak /\ AbsentIsClean

\* The four things that may become of a scope's cycle.
CycleChange(old, new) ==
    \/ new = CycleOf(old)
    \/ new = Clean
    \/ /\ ~Banned(old)
       /\ new = [streak |-> old.failed_count + 1, attempt |-> 0]
    \/ /\ Banned(old)
       /\ \E a \in old.probe_attempt..AttemptCap :
            new = [streak |-> FailureThreshold, attempt |-> a]

LEMMA CycleUpsert ==
    ASSUME NEW row \in Row, RowStreak(row),
           row.state = "absent" => row.failed_count = 0
    PROVE  CycleChange(row, CycleOf(AfterFailureUpsert(row)))
<1> DEFINE counted == [row EXCEPT !.failed_count = Bump(@, CountCap)]
<1>1. /\ row.failed_count \in 0..CountCap
      /\ ~Banned(row) => /\ row.failed_count < FailureThreshold
                         /\ Bump(row.failed_count, CountCap) = row.failed_count + 1
  BY CapsAssumption DEF Row, RowStreak, Bump
<1>2. /\ counted.state = row.state
      /\ counted.probe_attempt = row.probe_attempt
      /\ counted.failed_count = Bump(row.failed_count, CountCap)
  BY DEF Row
<1>3. CASE row.state = "absent"
  <2>1. /\ AfterFailureUpsert(row).state = "active"
        /\ AfterFailureUpsert(row).failed_count = 1
    BY <1>3 DEF AfterFailureUpsert, NoRow
  <2> QED
    BY <1>3, <2>1 DEF CycleChange, CycleOf, Banned
<1>4. CASE /\ row.state # "absent"
           /\ row.failed_count + 1 >= FailureThreshold /\ ~Banned(row)
  <2>1. AfterFailureUpsert(row) = AfterBan(counted)
    BY <1>4 DEF AfterFailureUpsert
  <2>2. /\ AfterFailureUpsert(row).state = "banned"
        /\ AfterFailureUpsert(row).probe_attempt = 0
    BY <1>2, <1>4, <2>1 DEF AfterBan, Row
  <2>3. row.failed_count + 1 = FailureThreshold
    BY <1>1, <1>4, CapsAssumption
  <2> QED
    BY <1>4, <2>2, <2>3 DEF CycleChange, CycleOf, Banned
<1>5. CASE /\ row.state # "absent"
           /\ ~(row.failed_count + 1 >= FailureThreshold /\ ~Banned(row))
  <2>1. AfterFailureUpsert(row) = counted
    BY <1>5 DEF AfterFailureUpsert
  <2> HIDE DEF counted
  <2> QED
    BY <1>1, <1>2, <2>1 DEF CycleChange, CycleOf, Banned
<1> QED
  BY <1>3, <1>4, <1>5

LEMMA CycleRowStep ==
    ASSUME ~IsMongo, ShortFlights, TypeOK, CycleInv, [Next]_vars,
           NEW s \in Scope
    PROVE  CycleChange(bans[s], CycleOf(bans'[s]))
<1>1. /\ bans[s] \in Row /\ RowStreak(bans[s])
      /\ bans[s].state = "absent" => bans[s].failed_count = 0
  BY DEF TypeOK, CycleInv, BannedIffStreak, AbsentIsClean, RowStreak
<1>2. CASE bans'[s] = AfterSuccess(bans[s]) \/ bans'[s] = NoRow
  BY <1>2 DEF AfterSuccess, NoRow, CycleOf, CycleChange, Clean, Banned
<1>3. CASE Due(bans[s]) /\ bans'[s] = AfterClaim(bans[s])
  BY <1>1, <1>3 DEF AfterClaim, CycleOf, CycleChange, Banned, Row
<1>4. CASE bans'[s] = Aged(s)
  BY <1>1, <1>4 DEF Aged, CycleOf, CycleChange, Banned, Row
<1>5. CASE bans'[s] = AfterFailureUpsert(bans[s])
  BY <1>1, <1>5, CycleUpsert
<1>6. ASSUME NEW r \in Requests,
             bans'[s] = AfterFailedTrial(bans[s], req[r].read)
      PROVE  CycleChange(bans[s], CycleOf(bans'[s]))
  <2>1. /\ bans'[s].state = bans[s].state
        /\ bans'[s].failed_count = bans[s].failed_count
    BY <1>1, <1>6 DEF AfterFailedTrial, Row
  <2>2. CASE ~Banned(bans[s])
    BY <2>1, <2>2 DEF CycleOf, CycleChange, Banned
  <2>3. CASE Banned(bans[s])
    <3>1. Banned(bans'[s])
      BY <2>1, <2>3 DEF Banned
    <3>2. bans'[s].probe_attempt >= bans[s].probe_attempt
      BY <2>3, <3>1, ClimbStep DEF CycleInv
    <3>3. bans'[s].probe_attempt \in 0..AttemptCap
      <4>1. /\ req[r].read.probe_attempt \in 0..AttemptCap
            /\ bans[s].state # "absent"
        BY <2>3 DEF TypeOK, Slot, Row, Banned
      <4>2. bans'[s].probe_attempt = Bump(req[r].read.probe_attempt, AttemptCap)
        BY <1>1, <1>6, <4>1 DEF AfterFailedTrial, Row
      <4> QED
        BY <4>1, <4>2, BumpType, CapsAssumption
    <3>4. bans'[s].probe_attempt \in bans[s].probe_attempt..AttemptCap
      BY <1>1, <3>2, <3>3, CapsAssumption DEF Row
    <3> QED
      BY <2>3, <3>1, <3>4 DEF CycleOf, CycleChange
  <2> QED
    BY <2>2, <2>3
<1>7. CASE bans'[s] = bans[s]
  BY <1>7 DEF CycleChange
<1> QED
  BY <1>2, <1>3, <1>4, <1>5, <1>6, <1>7, RowChanges DEF RowChange

\* Only the operator's clear and the clock touch more than one row.
OneRow == \E t \in Scope : \A s \in Scope \ {t} : bans'[s] = bans[s]

LEMMA OneRowAtATime ==
    ASSUME TypeOK, [Next]_vars
    PROVE  bans' = bans \/ OneRow \/ Tick \/ ClearCooldowns
<1>1. ASSUME NEW t \in Scope, NEW row, Write(t, row)
      PROVE  OneRow
  BY <1>1 DEF OneRow, Write, TypeOK
<1>2. ASSUME NEW r \in Requests, ~At(r, "idle"), NEW row,
             Write(req[r].scope, row)
      PROVE  OneRow
  BY <1>1, <1>2, BusyScope
<1>3. ASSUME Start
      PROVE  bans' = bans \/ OneRow
  <2>1. ASSUME NEW m \in Machines, NEW d \in Domains, NEW t \in Claimable(m, d)
        PROVE  t \in Scope
    BY <2>1 DEF Claimable, SoonestDue, DueScopes
  <2> QED
    BY <1>1, <1>3, <2>1 DEF Start, ClaimTrial, ClaimWithoutTrial, Dispatch
<1>4. ASSUME NEW r \in Requests, Progress(r)
      PROVE  bans' = bans \/ OneRow
  <2>1. CASE CountFailure(r) \/ BanScope(r) \/ UpsertFailure(r)
    BY <1>2, <2>1 DEF CountFailure, BanScope, UpsertFailure, At
  <2>2. CASE WriteSuccess(r) \/ WriteTrialFailure(r)
    BY <1>2, <2>2 DEF WriteSuccess, WriteTrialFailure, At
  <2> QED
    BY <1>4, <2>1, <2>2
       DEF Progress, ReportSuccess, ReportFailure, IgnoreResult,
           ReadBeforeSuccess, BankRecovery, ReadBeforeTrialFailure,
           TrialScopeGone, LogTrial, Lose
<1> QED
  BY <1>3, <1>4 DEF Next, Restart, vars

-----------------------------------------------------------------------------
(* The refinement.                                                         *)

Abs == [s \in Scope |-> CycleOf(bans[s])]

LEMMA CycleInit == Init => Cycle!Init
BY DEF Init, Cycle!Init, Cycle!Clean, CycleOf, NoRow, Banned

\* A row whose cycle has a full streak is banned.
LEMMA InBanIsBanned ==
    ASSUME TypeOK, BannedIffStreak, NEW s \in Scope
    PROVE  CycleOf(bans[s]).streak = FailureThreshold <=> Banned(bans[s])
BY CapsAssumption DEF BannedIffStreak, CycleOf, TypeOK, Row

\* One row changes: its scope fails, has a trial fail, recovers, or stutters.
LEMMA CycleOneStep ==
    ASSUME ~IsMongo, ShortFlights, TypeOK, CycleInv, [Next]_vars, OneRow
    PROVE  Cycle!Next \/ Abs' = Abs
<1> PICK t \in Scope : \A s \in Scope \ {t} : bans'[s] = bans[s]
  BY DEF OneRow
<1> DEFINE new == CycleOf(bans'[t])
<1>1. CycleChange(bans[t], new)
  BY CycleRowStep
<1>2. Abs' = [Abs EXCEPT ![t] = new]
  BY DEF Abs
<1>3. Abs[t] = CycleOf(bans[t]) /\ Abs \in [Scope -> {CycleOf(bans[s]) : s \in Scope}]
  BY DEF Abs
<1>4. (Abs[t].streak = FailureThreshold) <=> Banned(bans[t])
  BY <1>3, InBanIsBanned DEF CycleInv
<1> HIDE DEF new
<1>5. CASE new = CycleOf(bans[t])
  BY <1>2, <1>3, <1>5
<1>6. CASE new = Clean
  BY <1>2, <1>6 DEF Cycle!Next, Cycle!Recover, Cycle!Clean, Clean, Abs
<1>7. CASE /\ ~Banned(bans[t])
           /\ new = [streak |-> bans[t].failed_count + 1, attempt |-> 0]
  <2>1. Abs[t] = [streak |-> bans[t].failed_count, attempt |-> 0]
    BY <1>3, <1>7 DEF CycleOf
  <2>2. [Abs[t] EXCEPT !.streak = @ + 1] = new
    BY <1>7, <2>1
  <2>3. Abs' = [Abs EXCEPT ![t].streak = @ + 1]
    BY <1>2, <1>3, <2>2
  <2> QED
    BY <1>4, <1>7, <2>3 DEF Cycle!Next, Cycle!Fail, Cycle!InBan, Abs
<1>8. ASSUME Banned(bans[t]), NEW a \in bans[t].probe_attempt..AttemptCap,
             new = [streak |-> FailureThreshold, attempt |-> a]
      PROVE  Cycle!Next
  <2>1. Abs[t] = [streak |-> FailureThreshold, attempt |-> bans[t].probe_attempt]
    BY <1>3, <1>8 DEF CycleOf
  <2>2. [Abs[t] EXCEPT !.attempt = a] = new
    BY <1>8, <2>1
  <2>3. Abs' = [Abs EXCEPT ![t].attempt = a]
    BY <1>2, <1>3, <2>2
  <2>4. a \in Abs[t].attempt..AttemptCap
    BY <1>8, <2>1
  <2> QED
    BY <1>4, <1>8, <2>3, <2>4 DEF Cycle!Next, Cycle!TrialFails, Cycle!InBan, Abs
<1> QED
  BY <1>1, <1>5, <1>6, <1>7, <1>8 DEF CycleChange

LEMMA CycleStep ==
    ASSUME ~IsMongo, ShortFlights, TypeOK, CycleInv, [Next]_vars
    PROVE  Cycle!Next \/ Abs' = Abs
<1>1. CASE bans' = bans
  BY <1>1 DEF Abs
<1>2. CASE OneRow
  BY <1>2, CycleOneStep
<1>3. CASE Tick
  <2>1. ASSUME NEW s \in Scope
        PROVE  CycleOf(bans'[s]) = CycleOf(bans[s])
    BY <1>3 DEF Tick, Aged, CycleOf, Banned, TypeOK, Row
  <2> QED
    BY <2>1 DEF Abs
<1>4. CASE ClearCooldowns
  <2>1. bans' = [s \in Scope |-> IF Banned(bans[s]) THEN NoRow ELSE bans[s]]
    BY <1>4 DEF ClearCooldowns, ListCooldowns
  <2>2. CycleOf(NoRow) = Clean
    BY DEF CycleOf, NoRow, Banned, Clean
  <2>3. ASSUME NEW s \in Scope
        PROVE  Abs'[s] = IF Abs[s].streak = FailureThreshold THEN Clean ELSE Abs[s]
    <3>1. (Abs[s].streak = FailureThreshold) <=> Banned(bans[s])
      BY InBanIsBanned DEF CycleInv, Abs
    <3> QED
      BY <2>1, <2>2, <3>1 DEF Abs
  <2>4. Abs' = [s \in Scope |-> IF Abs[s].streak = FailureThreshold THEN Clean
                                ELSE Abs[s]]
    BY <2>3 DEF Abs
  <2> QED
    BY <2>4 DEF Cycle!Next, Cycle!ClearAll, Cycle!InBan, Cycle!Clean, Clean, Abs
<1> QED
  BY <1>1, <1>2, <1>3, <1>4, OneRowAtATime

\* On Postgres, with requests shorter than the hold and the first cooldown,
\* the ban rows under any interleaving of requests, restarts and clears
\* implement the cycle of BanCycle: a ban takes a full streak, ends by a
\* success or a clear, and climbs its ladder meanwhile. (Mongo does not: there
\* a ban may be written over a streak that a success has ended.)
THEOREM PostgresImplementsCycle ==
    ~IsMongo /\ ShortFlights => (Spec => ImplementsCycle)
<1> SUFFICES ASSUME ~IsMongo, ShortFlights
             PROVE  Spec => ImplementsCycle
  OBVIOUS
<1>1. TypeOK /\ LadderInv /\ [Next]_vars => LadderInv'
  BY TrialStep, ReadIsCurrentStep DEF LadderInv
<1>2. Spec => []BannedIffStreak
  BY StreakBansOnPostgres
<1>3. TypeOK /\ LadderInv /\ BannedIffStreak /\ AbsentIsClean /\ [Next]_vars
        => [Cycle!Next]_Abs
  BY CycleStep DEF CycleInv
<1>4. ImplementsCycle <=> Cycle!Init /\ [][Cycle!Next]_Abs
  BY DEF ImplementsCycle, Cycle!Spec, Abs
<1> HIDE DEF Abs
<1> QED
  BY <1>1, <1>2, <1>3, <1>4, CycleInit, LadderInit, AbsentInit, AbsentStep,
     TypeCorrect, PTL DEF Spec

-----------------------------------------------------------------------------
(* The verdict "permanent".                                                *)

\* A ban that lasts keeps its date, only grows older, and has no success.
LEMMA AgeStep ==
    ASSUME ~IsMongo, TypeOK, BannedIsScheduled, BannedIsScheduled', [Next]_vars,
           NEW s \in Scope, Banned(bans[s]), Banned(bans'[s])
    PROVE  /\ bans'[s].successful_since_recovery = 0
           /\ bans'[s].banned_at # Nil
           /\ bans'[s].banned_at >= bans[s].banned_at
<1>1. /\ bans[s] \in Row /\ bans[s].banned_at \in 0..AgeCap
      /\ bans'[s].successful_since_recovery = 0
      /\ bans'[s].banned_at # Nil
  BY DEF TypeOK, BannedIsScheduled, Row
<1>2. CASE bans'[s] = bans[s]
  BY <1>1, <1>2, CapsAssumption
<1>3. CASE bans'[s] = AfterClaim(bans[s])
  BY <1>1, <1>3, CapsAssumption DEF AfterClaim, Row
<1>4. CASE bans'[s] = AfterSuccess(bans[s]) \/ bans'[s] = NoRow
  BY <1>4 DEF AfterSuccess, NoRow, Banned
<1>5. CASE bans'[s] = Aged(s)
  <2>1. bans'[s].banned_at = Bump(bans[s].banned_at, AgeCap)
    BY <1>1, <1>5, NilIsNoTime DEF Aged, Row
  <2> QED
    BY <1>1, <2>1, CapsAssumption DEF Bump
<1>6. CASE bans'[s] = AfterFailureUpsert(bans[s])
  <2>1. bans'[s].banned_at = bans[s].banned_at
    BY <1>1, <1>6 DEF AfterFailureUpsert, Banned, Row
  <2> QED
    BY <1>1, <2>1, CapsAssumption
<1>7. ASSUME NEW r \in Requests,
             bans'[s] = AfterFailedTrial(bans[s], req[r].read)
      PROVE  bans'[s].banned_at >= bans[s].banned_at
  <2>1. bans'[s].banned_at = bans[s].banned_at
    BY <1>1, <1>7 DEF AfterFailedTrial, Row
  <2> QED
    BY <1>1, <2>1, CapsAssumption
<1> QED
  BY <1>1, <1>2, <1>3, <1>4, <1>5, <1>6, <1>7, RowChanges DEF RowChange

\* On Postgres, with requests shorter than the hold and the first cooldown, a
\* scope that the ban list classifies permanent stays in that class until its
\* ban ends: attempts, age and the absence of a success all last.
THEOREM PermanentBansStay ==
    ~IsMongo /\ ShortFlights => (Spec => PermanentStaysPermanent)
<1> SUFFICES ASSUME ~IsMongo, ShortFlights
             PROVE  Spec => PermanentStaysPermanent
  OBVIOUS
<1> DEFINE Stays == \A s \in ListBans("permanent") :
                       s \in ListBans("permanent")' \/ ~Banned(bans'[s])
<1>1. TypeOK /\ LadderInv /\ [Next]_vars => LadderInv'
  BY TrialStep, ReadIsCurrentStep DEF LadderInv
<1>2. /\ TypeOK /\ LadderInv /\ BannedIsScheduled /\ BannedIsScheduled'
      /\ TypeOK' /\ [Next]_vars
      => Stays
  <2> SUFFICES ASSUME TypeOK, LadderInv, BannedIsScheduled, BannedIsScheduled',
                      TypeOK', [Next]_vars,
                      NEW s \in ListBans("permanent"), Banned(bans'[s])
               PROVE  s \in ListBans("permanent")'
    OBVIOUS
  <2>1. /\ s \in Scope /\ Banned(bans[s])
        /\ bans[s].probe_attempt >= PermanentTrialThreshold
        /\ bans[s].banned_at # Nil /\ bans[s].banned_at >= PermanentMinAge
    BY DEF ListBans, ListCooldowns, ClassifyBan
  <2>2. /\ bans[s] \in Row /\ bans'[s] \in Row
    BY <2>1 DEF TypeOK
  <2>3. bans'[s].probe_attempt >= PermanentTrialThreshold
    BY <2>1, <2>2, ClimbStep, CapsAssumption, DurationsAssumption DEF Row
  <2>4. /\ bans'[s].successful_since_recovery = 0
        /\ bans'[s].banned_at # Nil
        /\ bans'[s].banned_at >= PermanentMinAge
    BY <2>1, <2>2, AgeStep, CapsAssumption, DurationsAssumption DEF Row
  <2>5. bans'[s].probe_attempt # 0
    BY <2>2, <2>3, CapsAssumption, DurationsAssumption DEF Row
  <2> QED
    BY <2>1, <2>3, <2>4, <2>5 DEF ListBans, ListCooldowns, ClassifyBan
<1>3. PermanentStaysPermanent <=> [][Stays]_vars
  BY DEF PermanentStaysPermanent
<1>4. Spec => []BannedIsScheduled
  BY NoBanIsStranded
<1> HIDE DEF Stays
<1> QED
  BY <1>1, <1>2, <1>3, <1>4, LadderInit, TypeCorrect, PTL DEF Spec
=============================================================================
