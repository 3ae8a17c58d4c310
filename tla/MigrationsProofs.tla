-------------------------- MODULE MigrationsProofs --------------------------
(***************************************************************************)
(* The migrations for any number of servers, crashes and duplicates, and   *)
(* any version a database may have been left at. What makes the safety     *)
(* properties inductive: a server that migrates has nothing left to do but *)
(* what it read as pending, and the open migration is the lowest of it.    *)
(***************************************************************************)
EXTENDS Migrations, TLAPS

Busy(s) == server[s].pc \in {"migrating", "executed"}

\* What is not on the list of a migrating server is applied.
NothingForgotten ==
    \A s \in Servers : Busy(s) => Versions \ server[s].todo \subseteq applied

LowestFirst ==
    \A s \in Servers : server[s].pc = "executed" =>
        \A w \in server[s].todo : ~(w < server[s].at)

MigrationsInv ==
    TypeOK /\ NoGaps /\ UpMeansMigrated /\ NothingForgotten /\ LowestFirst

LEMMA InvInit == Init => MigrationsInv
<1> SUFFICES ASSUME Init PROVE MigrationsInv
  OBVIOUS
<1> PICK v \in Left : applied = {w \in Versions : w <= v}
  BY DEF Init
<1>1. TypeOK
  BY MigrationsAssumption DEF Init, TypeOK, Down, Idle
<1>2. NoGaps
  BY MigrationsAssumption DEF NoGaps, Versions
<1> QED
  BY <1>1, <1>2
     DEF MigrationsInv, Init, UpMeansMigrated, NothingForgotten, LowestFirst,
         Busy, Down, Idle

-----------------------------------------------------------------------------
(* The steps of one server.                                                *)

LEMMA ReadVersionStep ==
    ASSUME MigrationsInv, NEW s \in Servers, ReadVersion(s)
    PROVE  MigrationsInv'
<1>1. server' = [server EXCEPT ![s] = [pc |-> "migrating", todo |-> Pending,
                                       at |-> 0, removed |-> {}]]
  BY DEF ReadVersion, Idle
<1>2. Pending \subseteq Versions /\ Versions \ Pending \subseteq applied
  <2>1. ASSUME NEW v \in Versions, NEW w \in applied, ~(w < v)
        PROVE  v \in applied
    BY <2>1 DEF MigrationsInv, NoGaps, TypeOK, Versions
  <2> QED
    BY <2>1 DEF Pending
<1>3. TypeOK'
  BY <1>1, <1>2 DEF ReadVersion, MigrationsInv, TypeOK
<1>4. NothingForgotten' /\ LowestFirst' /\ UpMeansMigrated' /\ NoGaps'
  BY <1>1, <1>2
     DEF ReadVersion, MigrationsInv, TypeOK, NothingForgotten, LowestFirst, Busy,
         UpMeansMigrated, NoGaps
<1> QED
  BY <1>3, <1>4 DEF MigrationsInv

LEMMA ExecuteStep ==
    ASSUME MigrationsInv, NEW s \in Servers, Execute(s)
    PROVE  MigrationsInv'
<1> PICK v \in server[s].todo :
        /\ \A w \in server[s].todo : ~Before(w, v)
        /\ server' = [server EXCEPT ![s] =
                        [pc |-> "executed", todo |-> server[s].todo,
                         at |-> v, removed |-> Removed(v)]]
  BY DEF Execute
<1>1. /\ v \in Versions
      /\ Removed(v) \subseteq Duplicates
  BY DEF MigrationsInv, TypeOK, Removed
<1>2. TypeOK'
  BY <1>1 DEF Execute, MigrationsInv, TypeOK
<1>3. NothingForgotten' /\ LowestFirst' /\ UpMeansMigrated' /\ NoGaps'
  BY DEF Execute, MigrationsInv, TypeOK, NothingForgotten, LowestFirst, Busy,
         UpMeansMigrated, NoGaps, Before
<1> QED
  BY <1>2, <1>3 DEF MigrationsInv

LEMMA CommitStep ==
    ASSUME MigrationsInv, NEW s \in Servers, Commit(s)
    PROVE  MigrationsInv'
<1> DEFINE v == server[s].at
<1>1. /\ server' = [server EXCEPT ![s] =
                    [pc |-> "migrating", todo |-> server[s].todo \ {v},
                     at |-> 0, removed |-> {}]]
      /\ applied' = applied \cup {v}
      /\ v \in Versions /\ v \in server[s].todo
      /\ server[s].pc = "executed"
  BY DEF Commit, Recorded, Idle, MigrationsInv, TypeOK
<1>2. TypeOK'
  BY <1>1 DEF Commit, TimeoutAfter, MigrationsInv, TypeOK
<1>3. NoGaps'
  <2>1. ASSUME NEW w \in Versions, w < v
        PROVE  w \in applied
    BY <1>1, <2>1 DEF MigrationsInv, LowestFirst, NothingForgotten, Busy
  <2> QED
    BY <1>1, <2>1 DEF MigrationsInv, NoGaps
<1>4. NothingForgotten' /\ LowestFirst' /\ UpMeansMigrated'
  BY <1>1 DEF MigrationsInv, TypeOK, NothingForgotten, LowestFirst, Busy,
              UpMeansMigrated
<1> QED
  BY <1>2, <1>3, <1>4 DEF MigrationsInv

LEMMA StartedStep ==
    ASSUME MigrationsInv, NEW s \in Servers, Started(s)
    PROVE  MigrationsInv'
<1>1. server' = [server EXCEPT ![s] =
                    [pc |-> "up", todo |-> {}, at |-> 0, removed |-> {}]]
  BY DEF Started, Idle
<1>2. Versions \subseteq applied
  BY DEF Started, MigrationsInv, NothingForgotten, Busy
<1> QED
  BY <1>1, <1>2
     DEF Started, MigrationsInv, TypeOK, NothingForgotten, LowestFirst, Busy,
         UpMeansMigrated, NoGaps

LEMMA DownStep ==
    ASSUME MigrationsInv, NEW s \in Servers, Fail(s) \/ Stop(s)
    PROVE  MigrationsInv'
<1>1. /\ server' = [server EXCEPT ![s] =
                    [pc |-> "down", todo |-> {}, at |-> 0, removed |-> {}]]
      /\ UNCHANGED <<applied, duplicates, timeout>>
      /\ faults' \in 0..MaxFaults
  BY MigrationsAssumption DEF Fail, Stop, Down, Idle, MigrationsInv, TypeOK
<1> QED
  BY <1>1 DEF MigrationsInv, TypeOK, NothingForgotten, LowestFirst, Busy,
              UpMeansMigrated, NoGaps

LEMMA OutsideStep ==
    ASSUME MigrationsInv,
           (\E d \in Duplicates : OldServerInserts(d)) \/ Edit \/ UNCHANGED vars
    PROVE  MigrationsInv'
BY DEF OldServerInserts, Edit, vars, MigrationsInv, TypeOK, NothingForgotten,
       LowestFirst, Busy, UpMeansMigrated, NoGaps

LEMMA InvStep == MigrationsInv /\ [Next]_vars => MigrationsInv'
BY ReadVersionStep, ExecuteStep, CommitStep, StartedStep, DownStep, OutsideStep
   DEF Next, Migrate

LEMMA InvAlways == Spec => []MigrationsInv
BY InvInit, InvStep, PTL DEF Spec

-----------------------------------------------------------------------------

\* The types hold; in particular an open transaction is about a version that is
\* still to do, and no server carries one over a crash.
THEOREM MigrationsTypeCorrect == Spec => []TypeOK
BY InvAlways, PTL DEF MigrationsInv

\* The applied versions have no gap, however many servers migrate at once and
\* wherever they crash: Migrate's reading of the maximum is enough.
THEOREM NoVersionIsSkipped == Spec => []NoGaps
BY InvAlways, PTL DEF MigrationsInv

\* A server that is up runs on a schema with every version it knows.
THEOREM NoServerOnAnOldSchema == Spec => []UpMeansMigrated
BY InvAlways, PTL DEF MigrationsInv

\* Version 10 overwrites the operator's timeouts once at most: the record of a
\* version has it for its key, and version 4 only fills in what is missing.
THEOREM TimeoutsSetOnce == Spec => OnlyOperatorChanges
<1> DEFINE Kept == (SetsTimeouts \in applied /\ timeout' # timeout)
                        => timeout' = "operator"
<1>1. MigrationsInv /\ [Next]_vars => Kept
  <2> SUFFICES ASSUME MigrationsInv, [Next]_vars, SetsTimeouts \in applied,
                      timeout' # timeout
               PROVE  timeout' = "operator"
    OBVIOUS
  <2>1. CASE Edit
    BY <2>1 DEF Edit
  <2>2. ASSUME NEW s \in Servers, Commit(s)
        PROVE  FALSE
    <3>1. server[s].at \in {CreatesSettings, SetsTimeouts}
      BY <2>2 DEF Commit, TimeoutAfter
    <3>2. CreatesSettings \in applied
      BY DEF MigrationsInv, NoGaps, CreatesSettings, SetsTimeouts, Versions
    <3> QED
      BY <2>2, <3>1, <3>2 DEF Commit, Conflicts
  <2> QED
    BY <2>1, <2>2
       DEF Next, ReadVersion, Migrate, Execute, Fail, Started, Stop,
           OldServerInserts, vars
<1>2. OnlyOperatorChanges <=> [][Kept]_vars
  BY DEF OnlyOperatorChanges
<1> HIDE DEF Kept
<1> QED
  BY <1>1, <1>2, InvAlways, PTL DEF Spec
=============================================================================
