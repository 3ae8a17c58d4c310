---------------------------- MODULE ListenerSync ----------------------------
(***************************************************************************)
(* ListenerSync (internal/services/listener_sync.go): the dashboard adds,  *)
(* changes and deletes auxiliary listeners. Each mutation rewrites one     *)
(* line of the .env file, then the configuration in memory, then the       *)
(* sockets (AuxRegistry), all under s.mu: there is one in flight. The      *)
(* process may crash between any two steps and starts from the file.       *)
(***************************************************************************)
EXTENDS AuxRegistry

CONSTANTS
    AfterComma,   \* the part of a country's name after its last comma
    Unreadable,   \* names no parse reads back: a colon, nothing after the comma
    Managed       \* the entries the dashboard can ask for

ASSUME SyncAssumption ==
    /\ AfterComma \in [Countries -> Countries \cup {None}]
    /\ \A c \in Countries :
            AfterComma[c] # None => /\ AfterComma[AfterComma[c]] = None
                                    /\ AfterComma[c] \notin Unreadable
    /\ Unreadable \subseteq Countries
    /\ Managed \subseteq Entry

VARIABLES
    env,    \* the two lines of .env, as the entries they were rendered from
    tmp,    \* the .env.tmp sibling, None when absent or stale
    cfg,    \* cfg.AuxListenersSheet and cfg.AuxListeners
    op,     \* the mutation holding s.mu
    acked   \* history: the lists as the operator last had them confirmed

syncVars == <<env, tmp, cfg, op, acked>>
vars == <<auxVars, syncVars>>

-----------------------------------------------------------------------------

Line == {"managed", "manual"}

Lists == [Line -> SUBSET Entry]

NoLists == [l \in Line |-> {}]

AllOf(lists) == lists["managed"] \cup lists["manual"]

\* Slip: of a name with a comma only what follows is read, if anything.
ReparseTail(e) == [e EXCEPT !.country = AfterComma[e.country]]

\* One entry as it is read again. The line is split at commas: of
\* `m/Korea, Republic of:8001` the piece before the comma is skipped as
\* malformed, and the piece after it names no machine.
Reparse(e) ==
    IF AfterComma[e.country] = None THEN e
    ELSE [e EXCEPT !.machine = None, !.country = AfterComma[e.country]]

\* parseAuxListeners of what String rendered: `m/Congo: Kinshasa:8001`, with no
\* number in its second field, and `:8001` are skipped with a warning.
Parse(lists) ==
    [l \in Line |->
        {Reparse(e) : e \in {f \in lists[l] : f.country \notin Unreadable}}]

\* Slip: only the managed list is searched.
PortOwnedManaged(p) == p \in EntryPorts(cfg["managed"])

\* portOwner: a port of either list is taken.
PortOwned(p) == p \in EntryPorts(AllOf(cfg))

Idle == op.pc = "idle"

\* A mutation that passed its checks: line l is to become entries.
Mutate(l, entries) ==
    /\ op' = [pc |-> "write", line |-> l, entries |-> entries,
              before |-> active]
    /\ UNCHANGED <<auxVars, env, tmp, cfg, acked>>

Add(e) ==
    /\ process = "up" /\ Idle
    /\ e.machine \in Fleet
    /\ ~PortOwned(e.port)
    /\ Mutate("managed", cfg["managed"] \cup {e})

\* The list an entry is edited or deleted in: the managed one first.
LineOf(p) ==
    IF p \in EntryPorts(cfg["managed"]) THEN "managed" ELSE "manual"

\* Update: a patch may set any of the fields, the port included.
Update(p, e) ==
    /\ process = "up" /\ Idle
    /\ PortOwned(p)
    /\ e.machine \in Fleet
    /\ e.port # p => ~PortOwned(e.port)
    /\ LET line == cfg[LineOf(p)]
       IN  Mutate(LineOf(p), {f \in line : f.port # p} \cup {e})

\* Delete: nothing to do unless an entry has the port.
Delete(p) ==
    /\ process = "up" /\ Idle
    /\ PortOwned(p)
    /\ Mutate(LineOf(p), {f \in cfg[LineOf(p)] : f.port # p})

-----------------------------------------------------------------------------
(* The rest of a mutation: persistManaged, persistManual and applied.      *)

\* Slip: the file is truncated and written in place.
WriteInPlace ==
    /\ op.pc = "write"
    /\ env' = [env EXCEPT ![op.line] = {}]
    /\ tmp' = [env EXCEPT ![op.line] = op.entries]
    /\ op' = [op EXCEPT !.pc = "rename"]
    /\ UNCHANGED <<auxVars, cfg, acked>>

\* writeEnvKey keeps every other line, and writes to a sibling of the file.
WriteTmp ==
    /\ op.pc = "write"
    /\ tmp' = [env EXCEPT ![op.line] = op.entries]
    /\ op' = [op EXCEPT !.pc = "rename"]
    /\ UNCHANGED <<auxVars, env, cfg, acked>>

Rename ==
    /\ op.pc = "rename"
    /\ env' = tmp
    /\ tmp' = None
    /\ op' = [op EXCEPT !.pc = "adopt"]
    /\ UNCHANGED <<auxVars, cfg, acked>>

\* Slip: the configuration is changed before the file is.
PersistFailsLate ==
    /\ op.pc \in {"write", "rename"}
    /\ tmp' = None
    /\ cfg' = [cfg EXCEPT ![op.line] = op.entries]
    /\ op' = [op EXCEPT !.pc = "idle", !.before = None]
    /\ UNCHANGED <<auxVars, env, acked>>

\* No .env file, or it cannot be read, written or replaced: the mutation is
\* answered with the error, and nothing has changed.
PersistFails ==
    /\ op.pc \in {"write", "rename"}
    /\ tmp' = None
    /\ op' = [op EXCEPT !.pc = "idle", !.before = None]
    /\ UNCHANGED <<auxVars, env, cfg, acked>>

\* The configuration follows the file; Apply resolves it.
Adopt ==
    /\ op.pc = "adopt"
    /\ cfg' = [cfg EXCEPT ![op.line] = op.entries]
    /\ op' = [op EXCEPT !.pc = "apply"]
    /\ ApplyResolve(AllOf(cfg'))
    /\ UNCHANGED <<env, tmp, acked>>

Reconcile(p) ==
    /\ op.pc = "apply"
    /\ ApplyClose(p) \/ ApplyBind(p)
    /\ UNCHANGED syncVars

\* The answer carries the lists and what Apply did.
Confirm ==
    /\ op.pc = "apply" /\ Reconciled
    /\ op' = [op EXCEPT !.pc = "idle"]
    /\ acked' = cfg
    /\ UNCHANGED <<auxVars, env, tmp, cfg>>

-----------------------------------------------------------------------------

\* config.Load and StartAuxListeners. The lists are the file's: this takes it
\* that AUX_LISTENERS and AUX_LISTENERS_SHEET are not also set in the process's
\* real environment, which godotenv.Load would leave alone.
Boot ==
    /\ process = "down"
    /\ cfg' = Parse(env)
    /\ Start(cfg'["managed"], cfg'["manual"])
    /\ UNCHANGED <<active, held, delta, env, tmp, op, acked>>

Starting ==
    /\ \/ \E p \in Ports : StartBind(p)
       \/ StartAborts
       \/ ServeAborts
    /\ UNCHANGED syncVars

\* From here the dashboard shows what was loaded.
StartServing ==
    /\ Serve
    /\ acked' = cfg
    /\ UNCHANGED <<env, tmp, cfg, op>>

\* A crash, or a shutdown, which closes the sockets too.
Crash ==
    /\ process # "down"
    /\ Die
    /\ op' = [op EXCEPT !.pc = "idle", !.before = None]
    /\ UNCHANGED <<env, tmp, cfg, acked>>

Others ==
    /\ \E p \in Ports : OthersTake(p) \/ OthersFree(p)
    /\ UNCHANGED syncVars

\* A .env file with hand-maintained entries on ports of their own.
Init ==
    /\ AuxInit
    /\ \E e \in Entry : env \in {NoLists, [NoLists EXCEPT !["manual"] = {e}]}
    /\ tmp = None
    /\ cfg = NoLists
    /\ op = [pc |-> "idle", line |-> "managed", entries |-> {}, before |-> None]
    /\ acked = env

Next ==
    \/ Boot \/ Starting \/ StartServing \/ Crash \/ Others
    \/ \E e \in Managed : Add(e) \/ \E p \in Ports : Update(p, e)
    \/ \E p \in Ports : Delete(p) \/ Reconcile(p)
    \/ WriteTmp \/ Rename \/ PersistFails \/ Adopt \/ Confirm

Spec == Init /\ [][Next]_vars

-----------------------------------------------------------------------------
(* Properties.                                                             *)

TypeOK ==
    /\ process \in {"down", "booting", "up"}
    /\ active \in [Ports -> Key \cup {None}]
    /\ held \subseteq Ports
    /\ want \in [Ports -> Key \cup {None}]
    /\ delta \in [added : SUBSET Ports, removed : SUBSET Ports,
                  rebound : SUBSET Ports, failed : SUBSET Ports]
    /\ env \in Lists /\ cfg \in Lists /\ acked \in Lists
    /\ tmp \in Lists \cup {None}
    /\ op \in [pc : {"idle", "write", "rename", "adopt", "apply"},
               line : Line, entries : SUBSET Entry,
               before : [Ports -> Key \cup {None}] \cup {None}]

Distinct(lists) ==
    /\ \A l, k \in Line : \A e \in lists[l], f \in lists[k] :
            e.port = f.port => l = k /\ e = f

\* The lists the file is about to have.
Target(lists) == [lists EXCEPT ![op.line] = op.entries]

\* No sequence of mutations, crashes and restarts puts two listeners on one
\* port, in one list or across the two: the file stays one the process can
\* start with (Start refuses a port declared twice), the entries it skips aside.
PortsDistinct ==
    process = "up" => Distinct(cfg) /\ Distinct(Parse(env))

\* Whatever was confirmed is in the file: a crash at any point leaves the
\* lists confirmed last or those of the mutation it interrupted, whole.
ConfirmedSurvives ==
    \/ Parse(env) = Parse(acked)
    \/ Parse(env) = Parse(Target(acked))

\* Between mutations the configuration is the file's, the failed ones included,
\* up to what the next start will make of a country it cannot read back.
ConfigFollowsFile ==
    process = "up" /\ op.pc \in {"idle", "write", "rename"} =>
        Parse(cfg) = Parse(env)

\* Between mutations each configured listener is up as configured, or the last
\* answer reported its port as failed; nothing else listens.
BoundOrReported ==
    process = "up" /\ Idle =>
        \A p \in Ports :
            active[p] = IF p \in delta.failed THEN None
                        ELSE Resolved(AllOf(cfg))[p]

\* The answer to a mutation is what happened to the sockets.
ReportIsTrue ==
    process = "up" /\ Idle /\ op.before # None =>
        LET was == {p \in Ports : op.before[p] # None}
            is == {p \in Ports : active[p] # None}
        IN  /\ delta.added = is \ was
            /\ delta.removed \subseteq was \ is
            /\ was \ is \subseteq delta.removed \cup delta.failed
            /\ delta.removed \cap delta.failed = {}
            /\ delta.rebound = {p \in is \cap was : active[p] # op.before[p]}
            /\ delta.failed \cap is = {}

\* A mutation never touches the socket of a listener whose routing it leaves
\* alone: its connections survive (the reason the registry exists).
UnchangedStayUp ==
    [][\A p \in Ports :
          process' = "up" /\ active[p] # None /\ active'[p] # active[p] =>
              Resolved(AllOf(cfg))[p] # active[p]]_vars
=============================================================================
