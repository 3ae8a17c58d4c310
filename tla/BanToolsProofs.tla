--------------------------- MODULE BanToolsProofs ---------------------------
(***************************************************************************)
(* The operator's tools beside the server. A step of the server is a step  *)
(* of DomainBans, and the lemmas of DomainBansProofs say what it does to   *)
(* one row, one request, one trial: here they are put together for the     *)
(* scopes the operator has not touched by hand. What is left are the       *)
(* tools' own writes.                                                      *)
(***************************************************************************)
EXTENDS BanTools, DomainBansProofs

ToolTypes ==
    /\ history \in PerScope /\ backfilled \in PerScope
    /\ backfill \in [pc : {"idle", "read", "cleared"}, rows : PerScope]
    /\ unbanning \subseteq Scope /\ touched \subseteq Scope

\* recoverybackfill inserts into what it has emptied.
Emptied == backfill.pc = "cleared" => backfilled = None

\* The trials of scopes the operator has not hurried.
HeldUntouched ==
    ShortFlights =>
        \A r \in Requests : Out(r) /\ req[r].scope \notin touched => Held(r)

OneUntouched ==
    ShortFlights =>
        \A q, r \in Requests :
            Out(q) /\ Out(r) /\ req[q].scope = req[r].scope
            /\ req[q].scope \notin touched => q = r

\* Inductive: what holds of the rows and the requests, and of the tools.
RowsInv ==
    /\ TypeOK /\ JunkOnlyByHand /\ CountingGenuine
    /\ BannedIsScheduled /\ HeldUntouched /\ OneUntouched

ToolsInv == RowsInv /\ ToolTypes /\ Emptied

\* What a tool may do to the rows by itself: end a ban, or renew or hurry one
\* that the operator then answers for.
ByHand(s) ==
    \/ bans'[s] = bans[s]
    \/ ~Banned(bans'[s]) /\ bans'[s].failed_count = 0
    \/ s \in touched' /\ RowScheduled(bans'[s])

-----------------------------------------------------------------------------
(* The rows and the requests.                                              *)

LEMMA ToolsTypeStep ==
    ASSUME TypeOK, [Next]_vars
    PROVE  TypeOK'
<1>1. CASE UNCHANGED vars
  BY <1>1 DEF TypeOK, vars, At
<1> QED
  BY <1>1, TypeStart, TypeProgress, TypeRest DEF Next

\* A step of the server: DomainBans as it is, at the scopes left alone.
LEMMA ServerKeepsRows ==
    ASSUME RowsInv, [Next]_vars, touched' = touched
    PROVE  RowsInv'
<1>1. TypeOK'
  BY ToolsTypeStep DEF RowsInv
<1>2. CountingGenuine' /\ confirmed \subseteq confirmed'
  BY CountingStep DEF RowsInv
<1>3. BannedIsScheduled'
  BY ScheduledStep DEF RowsInv, BannedIsScheduled, RowScheduled
<1>4. ASSUME NEW s \in Scope, s \notin touched,
             bans'[s].failed_count > 0 \/ Banned(bans'[s])
      PROVE  s.domain \in confirmed' \ InfraDomains
  BY <1>2, <1>4, CountedRows
     DEF RowsInv, JunkOnlyByHand, CountingGenuine, Genuine, IsInfraDomain
<1>5. JunkOnlyByHand'
  BY <1>4 DEF JunkOnlyByHand
<1>6. ASSUME ShortFlights, NEW r \in Requests, Out(r)', req'[r].scope \notin touched
      PROVE  Held(r)'
  BY <1>6, HeldStep DEF RowsInv, HeldUntouched, Kept
<1>7. HeldUntouched'
  BY <1>6 DEF HeldUntouched, ShortFlights
<1>8. ASSUME ShortFlights, NEW q \in Requests, NEW r \in Requests, Out(q)', Out(r)',
             req'[q].scope = req'[r].scope, req'[q].scope \notin touched, q # r
      PROVE  FALSE
  <2>1. Kept(q) /\ Kept(r) /\ req[q].scope = req[r].scope
    BY <1>8, BothWereOut DEF RowsInv, HeldUntouched
  <2> QED
    BY <1>8, <2>1 DEF Kept, RowsInv, OneUntouched
<1>9. OneUntouched'
  BY <1>8 DEF OneUntouched, ShortFlights
<1> QED
  BY <1>1, <1>2, <1>3, <1>5, <1>7, <1>9 DEF RowsInv

\* A step of a tool.
LEMMA ToolKeepsRows ==
    ASSUME RowsInv, ServerKeeps, bans' \in [Scope -> Row], touched \subseteq touched',
           \A s \in Scope : ByHand(s)
    PROVE  RowsInv'
<1>0. req' = req /\ confirmed' = confirmed /\ confirmedCache' = confirmedCache
      /\ recoveryEvents' = recoveryEvents
  BY DEF ServerKeeps
<1>1. TypeOK'
  BY <1>0 DEF RowsInv, TypeOK, At
<1>2. JunkOnlyByHand'
  <2> SUFFICES ASSUME NEW s \in Scope, s \notin touched',
                      bans'[s].failed_count > 0 \/ Banned(bans'[s])
               PROVE  s.domain \in confirmed \ InfraDomains
    BY <1>0 DEF JunkOnlyByHand
  <2>1. bans'[s] = bans[s] /\ s \notin touched
    BY DEF ByHand
  <2> QED
    BY <2>1 DEF RowsInv, JunkOnlyByHand
<1>3. CountingGenuine'
  BY <1>0 DEF RowsInv, CountingGenuine, Counting, Genuine, At
<1>4. BannedIsScheduled'
  <2> SUFFICES ASSUME NEW s \in Scope
               PROVE  RowScheduled(bans'[s])
    BY DEF BannedIsScheduled, RowScheduled
  <2>1. RowScheduled(bans[s])
    BY DEF RowsInv, BannedIsScheduled, RowScheduled
  <2> QED
    BY <2>1 DEF ByHand, RowScheduled
<1>5. ASSUME ShortFlights, NEW r \in Requests, Out(r), req[r].scope \notin touched'
      PROVE  Held(r)'
  <2>1. req[r].scope \in Scope
    BY <1>5, BusyScope DEF RowsInv, Out, At
  <2>2. Held(r)
    BY <1>5 DEF RowsInv, HeldUntouched
  <2> QED
    BY <1>0, <1>5, <2>1, <2>2 DEF ByHand, Held, RowOf
<1>6. HeldUntouched'
  BY <1>0, <1>5 DEF HeldUntouched, Out, At, ShortFlights
<1>7. OneUntouched'
  BY <1>0 DEF RowsInv, OneUntouched, Out, At, ShortFlights
<1> QED
  BY <1>1, <1>2, <1>3, <1>4, <1>6, <1>7 DEF RowsInv

-----------------------------------------------------------------------------
(* The writes of the tools.                                                *)

LEMMA BanIpKeepsRows ==
    ASSUME RowsInv, NEW s \in Scope, BanIp(s)
    PROVE  RowsInv'
<1>1. bans[s] \in Row
  BY DEF RowsInv, TypeOK
<1>2. FailureThreshold \in 0..CountCap /\ 0 \in 0..AgeCap /\ 0 \in 0..AttemptCap
  BY CapsAssumption
<1>3. BanIpCooldown \in Int /\ 0 # Nil /\ BanIpCooldown # Nil
  BY ToolsAssumption, NilIsNoTime
<1>4. AfterBanIp(bans[s]) \in Row
  BY <1>1, <1>2, <1>3 DEF AfterBanIp, Row, RowState
<1>5. RowScheduled(AfterBanIp(bans[s]))
  BY <1>1, <1>3 DEF AfterBanIp, Row, RowScheduled
<1>6. bans' \in [Scope -> Row]
  BY <1>4, WriteType DEF BanIp, RowsInv, TypeOK
<1>7. ASSUME NEW t \in Scope
      PROVE  ByHand(t)
  BY <1>5 DEF BanIp, Write, RowsInv, TypeOK, ByHand
<1> QED
  BY <1>6, <1>7, ToolKeepsRows DEF BanIp

LEMMA ResetKeepsRows ==
    ASSUME RowsInv, ResetCooldown
    PROVE  RowsInv'
<1>1. PICK S \in SUBSET {s \in Scope : ~Gone(s)} :
          /\ bans' = [s \in Scope |-> IF s \in S THEN AfterReset(bans[s]) ELSE bans[s]]
          /\ touched' = touched \cup {s \in S : Banned(bans[s])}
  BY DEF ResetCooldown
<1>2. Epoch \in Int /\ Epoch # Nil /\ 0 \in 0..AttemptCap
  BY ScopeIsFinite, FS_CardinalityType, NilIsNoTime, CapsAssumption DEF Epoch
<1>3. ASSUME NEW s \in Scope
      PROVE  AfterReset(bans[s]) \in Row /\ RowScheduled(AfterReset(bans[s]))
  <2>1. bans[s] \in Row /\ RowScheduled(bans[s])
    BY DEF RowsInv, TypeOK, BannedIsScheduled, RowScheduled
  <2>2. [bans[s] EXCEPT !.next_probe_at = Epoch, !.probe_attempt = 0] \in Row
    BY <1>2, <2>1 DEF Row
  <2> QED
    BY <1>2, <2>1, <2>2 DEF AfterReset, RowScheduled, Banned, Row
<1>4. bans' \in [Scope -> Row]
  BY <1>1, <1>3 DEF RowsInv, TypeOK
<1>5. ASSUME NEW s \in Scope
      PROVE  ByHand(s)
  <2>1. CASE s \in S /\ Banned(bans[s])
    BY <1>1, <1>3, <2>1 DEF ByHand
  <2>2. CASE ~(s \in S /\ Banned(bans[s]))
    BY <1>1, <2>2 DEF ByHand, AfterReset
  <2> QED
    BY <2>1, <2>2
<1> QED
  BY <1>1, <1>4, <1>5, ToolKeepsRows DEF ResetCooldown

LEMMA ClearKeepsRows ==
    ASSUME RowsInv, ClearBans
    PROVE  RowsInv'
<1>1. PICK S : bans' = [s \in Scope |-> IF s \in S THEN NoRow ELSE bans[s]]
  BY DEF ClearBans
<1>2. bans' \in [Scope -> Row]
  BY <1>1, NoRowType DEF RowsInv, TypeOK
<1>3. ASSUME NEW s \in Scope
      PROVE  ByHand(s)
  BY <1>1 DEF ByHand, NoRow, Banned
<1> QED
  BY <1>2, <1>3, ToolKeepsRows DEF ClearBans

LEMMA UnbanKeepsRows ==
    ASSUME RowsInv, NEW s \in Scope, Unban(s)
    PROVE  RowsInv'
<1>1. bans' \in [Scope -> Row]
  BY AfterSuccessType, WriteType DEF Unban, RowsInv, TypeOK
<1>2. ASSUME NEW t \in Scope
      PROVE  ByHand(t)
  BY DEF Unban, Write, RowsInv, TypeOK, ByHand, AfterSuccess, Banned
<1> QED
  BY <1>1, <1>2, ToolKeepsRows DEF Unban

\* The steps of a tool that leave the rows alone.
LEMMA ReaderKeepsRows ==
    ASSUME RowsInv, ServerKeeps, UNCHANGED <<bans, touched>>
    PROVE  RowsInv'
<1>1. bans' \in [Scope -> Row] /\ \A s \in Scope : ByHand(s)
  BY DEF RowsInv, TypeOK, ByHand
<1> QED
  BY <1>1, ToolKeepsRows

LEMMA RowsStep == RowsInv /\ [ToolsNext]_<<vars, toolVars>> => RowsInv'
<1> SUFFICES ASSUME RowsInv, [ToolsNext]_<<vars, toolVars>>
             PROVE  RowsInv'
  OBVIOUS
<1>1. CASE ServerStep \/ UNCHANGED <<vars, toolVars>>
  BY <1>1, ServerKeepsRows DEF ServerStep, toolVars
<1>2. CASE \E r \in Requests : PushRecovery(r)
  BY <1>2, ServerKeepsRows DEF PushRecovery, Next, Progress
<1>3. CASE \/ StartUnbanning \/ \E s \in Scope : LeaveBanned(s)
           \/ ReadHistories \/ DeletePrevious \/ InsertRows \/ BackfillFails
  BY <1>3, ReaderKeepsRows
     DEF StartUnbanning, LeaveBanned, ReadHistories, DeletePrevious, InsertRows,
         BackfillFails, BackfillKeeps
<1> QED
  BY <1>1, <1>2, <1>3, BanIpKeepsRows, ResetKeepsRows, ClearKeepsRows,
     UnbanKeepsRows DEF ToolsNext

-----------------------------------------------------------------------------
(* The tools' own state.                                                   *)

LEMMA NoneType == None \in PerScope
BY ToolsAssumption DEF None, PerScope

\* A row that goes takes its history along, and is no longer to be unbanned.
LEMMA RowsGoType ==
    ASSUME ToolTypes, RowsGo
    PROVE  history' \in PerScope /\ unbanning' \subseteq Scope
<1>1. 0 \in 0..HistoryCap
  BY ToolsAssumption
<1> QED
  BY <1>1 DEF ToolTypes, RowsGo, PerScope

LEMMA PushType ==
    ASSUME TypeOK, ToolTypes, NEW r \in Requests, PushRecovery(r)
    PROVE  history' \in PerScope
<1>1. req[r].scope \in Scope
  BY BusyScope DEF PushRecovery, WriteSuccess, At
<1>2. history[req[r].scope] \in 0..HistoryCap
  BY <1>1 DEF ToolTypes, PerScope
<1>3. Bump(history[req[r].scope], HistoryCap) \in 0..HistoryCap
  BY <1>2, BumpType, ToolsAssumption
<1> QED
  BY <1>1, <1>3 DEF PushRecovery, ToolTypes, PerScope

LEMMA BackfillStep ==
    ASSUME ToolTypes, Emptied,
           ReadHistories \/ DeletePrevious \/ InsertRows \/ BackfillFails
    PROVE  ToolTypes' /\ Emptied'
<1>1. NotBackfilling \in [pc : {"idle", "read", "cleared"}, rows : PerScope]
  BY NoneType DEF NotBackfilling
<1>2. CASE ReadHistories
  BY <1>2 DEF ReadHistories, BackfillKeeps, ToolTypes, Emptied
<1>3. CASE DeletePrevious
  <2>1. backfill' \in [pc : {"idle", "read", "cleared"}, rows : PerScope]
    BY <1>3 DEF DeletePrevious, ToolTypes
  <2> QED
    BY <1>3, <2>1, NoneType
       DEF DeletePrevious, Cleared, BackfillKeeps, ToolTypes, Emptied
<1>4. CASE InsertRows
  <2>1. ASSUME NEW s \in Scope
        PROVE  backfilled[s] + backfill.rows[s] \in 0..HistoryCap
    <3>1. backfilled[s] = 0 /\ backfill.rows[s] \in 0..HistoryCap
      BY <1>4 DEF InsertRows, Emptied, None, ToolTypes, PerScope
    <3> QED
      BY <3>1, ToolsAssumption
  <2>2. backfilled' \in PerScope
    BY <1>4, <2>1 DEF InsertRows, PerScope
  <2> QED
    BY <1>1, <1>4, <2>2
       DEF InsertRows, NotBackfilling, BackfillKeeps, ToolTypes, Emptied
<1>5. CASE BackfillFails
  BY <1>1, <1>5
     DEF BackfillFails, NotBackfilling, BackfillKeeps, ToolTypes, Emptied
<1> QED
  BY <1>2, <1>3, <1>4, <1>5

LEMMA ToolTypesStep ==
    RowsInv /\ ToolTypes /\ Emptied /\ [ToolsNext]_<<vars, toolVars>>
        => ToolTypes' /\ Emptied'
<1> SUFFICES ASSUME RowsInv, ToolTypes, Emptied, [ToolsNext]_<<vars, toolVars>>
             PROVE  ToolTypes' /\ Emptied'
  OBVIOUS
<1>1. CASE UNCHANGED <<vars, toolVars>>
  BY <1>1 DEF toolVars, ToolTypes, Emptied
<1>2. CASE ServerStep
  BY <1>2, RowsGoType DEF ServerStep, ToolTypes, Emptied
<1>3. CASE \E r \in Requests : PushRecovery(r)
  BY <1>3, PushType DEF PushRecovery, ToolTypes, Emptied, RowsInv
<1>4. CASE \E s \in Scope : BanIp(s) \/ Unban(s) \/ LeaveBanned(s)
  BY <1>4 DEF BanIp, Unban, LeaveBanned, ToolTypes, Emptied
<1>5. CASE ResetCooldown
  BY <1>5 DEF ResetCooldown, ToolTypes, Emptied
<1>6. CASE ClearBans
  BY <1>6, RowsGoType DEF ClearBans, ToolTypes, Emptied
<1>7. CASE StartUnbanning
  BY <1>7 DEF StartUnbanning, ListCooldowns, ToolTypes, Emptied
<1> QED
  BY <1>1, <1>2, <1>3, <1>4, <1>5, <1>6, <1>7, BackfillStep DEF ToolsNext

LEMMA ToolsStart == ToolsInit => ToolsInv
<1> SUFFICES ASSUME ToolsInit PROVE ToolsInv
  OBVIOUS
<1>1. TypeOK /\ BannedIsScheduled
  BY TypeInit, TrialInit DEF ToolsInit, TrialInv
<1>2. JunkOnlyByHand /\ CountingGenuine
  BY DEF ToolsInit, Init, JunkOnlyByHand, CountingGenuine, Counting, At, Idle,
         Banned, NoRow
<1>3. HeldUntouched /\ OneUntouched
  BY DEF ToolsInit, Init, HeldUntouched, OneUntouched, Out, At, Idle
<1>4. ToolTypes /\ Emptied
  BY NoneType DEF ToolsInit, ToolTypes, Emptied, NotBackfilling
<1> QED
  BY <1>1, <1>2, <1>3, <1>4 DEF ToolsInv, RowsInv

-----------------------------------------------------------------------------
(* Theorems.                                                               *)

\* The invariant behind the rest: the tools' writes between any two calls of
\* the server, in part or in full, keep the rows well formed and scheduled.
THEOREM ToolsInvariant == ToolsSpec => []ToolsInv
<1>1. ToolsInv /\ [ToolsNext]_<<vars, toolVars>> => ToolsInv'
  BY RowsStep, ToolTypesStep DEF ToolsInv
<1> QED
  BY <1>1, ToolsStart, PTL DEF ToolsSpec

\* Clears, resets, hand bans and late unbans between the calls of the server
\* strand no ban either: every banned row has a date and a next trial.
THEOREM ToolsStrandNoBan == ToolsSpec => []BannedIsScheduled
<1>1. ToolsInv => BannedIsScheduled
  BY DEF ToolsInv, RowsInv
<1> QED
  BY <1>1, ToolsInvariant, PTL

\* Whatever the tools do between the two calls of a RecordFailure, only the
\* operator's own banip makes a row of a domain without a success count.
THEOREM ToolsLeaveNoJunk == ToolsSpec => []JunkOnlyByHand
<1>1. ToolsInv => JunkOnlyByHand
  BY DEF ToolsInv, RowsInv
<1> QED
  BY <1>1, ToolsInvariant, PTL

\* Clearing or unbanning a scope while its trial is out, and a ban anew, do
\* not send a second request through it: only resetcooldown and banip may.
THEOREM ToolsAddNoTrial == ToolsSpec => []SecondTrialOnlyByHand
<1>1. ToolsInv => SecondTrialOnlyByHand
  BY DEF ToolsInv, RowsInv, OneUntouched, SecondTrialOnlyByHand, Out
<1> QED
  BY <1>1, ToolsInvariant, PTL

\* However often recoverybackfill is killed and run again, a scope has no more
\* backfilled rows than its document can hold durations.
THEOREM RerunningConverges == ToolsSpec => []BackfillConverges
<1>1. ToolsInv => BackfillConverges
  BY ToolsAssumption DEF ToolsInv, ToolTypes, PerScope, BackfillConverges
<1> QED
  BY <1>1, ToolsInvariant, PTL
=============================================================================
