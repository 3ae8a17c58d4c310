------------------------------ MODULE BanCycle ------------------------------
(***************************************************************************)
(* What the ban lifecycle promises, without rows, requests, reads or       *)
(* clocks (core/internal/repository/ban_repository.go, the comments of     *)
(* BanRepository, failureThreshold and RecordFailure): per scope, a streak *)
(* of failures and, once the streak is at the threshold, a ban with a      *)
(* ladder of failed trials.                                                *)
(*                                                                         *)
(*   - a scope is banned by Threshold failures in a row, counted one by    *)
(*     one, and by nothing else;                                           *)
(*   - a ban starts at the foot of its ladder, and only climbs it;         *)
(*   - a ban ends by a success, or with all others by the operator.        *)
(*                                                                         *)
(* DomainBans implements it on Postgres (DomainBans!ImplementsCycle).      *)
(***************************************************************************)
EXTENDS Integers

CONSTANTS Scopes, Threshold, AttemptCap

VARIABLE cycle

\* A scope without history; attempt stays 0 until the scope is banned.
Clean == [streak |-> 0, attempt |-> 0]

InBan(s) == cycle[s].streak = Threshold

Init == cycle = [s \in Scopes |-> Clean]

\* A failure of a scope that is not banned; the Threshold-th one bans it.
Fail(s) ==
    /\ ~InBan(s)
    /\ cycle' = [cycle EXCEPT ![s].streak = @ + 1]

\* A failed trial: the ladder is climbed, at the cap it is stayed on.
TrialFails(s) ==
    /\ InBan(s)
    /\ \E attempt \in cycle[s].attempt..AttemptCap :
        cycle' = [cycle EXCEPT ![s].attempt = attempt]

\* A success, of a trial or of any other request.
Recover(s) == cycle' = [cycle EXCEPT ![s] = Clean]

\* The operator lifts all bans at once; unfinished streaks go on.
ClearAll == cycle' = [s \in Scopes |-> IF InBan(s) THEN Clean ELSE cycle[s]]

Next ==
    \/ \E s \in Scopes : Fail(s) \/ TrialFails(s) \/ Recover(s)
    \/ ClearAll

Spec == Init /\ [][Next]_cycle
=============================================================================
