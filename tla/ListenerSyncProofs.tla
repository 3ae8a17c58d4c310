-------------------------- MODULE ListenerSyncProofs --------------------------
(***************************************************************************)
(* The listeners for any fleet, file and ports. Each property of the runs  *)
(* speaks of one stage of a mutation, mostly of the time between two. What *)
(* makes them inductive is what each stage leaves for the next one: how    *)
(* far file, configuration and sockets have come (SyncInv).                *)
(***************************************************************************)
EXTENDS ListenerSync, TLAPS

\* File and configuration have not met yet what the mutation asks for.
Before == {"idle", "write", "rename"}

Specs == [Ports -> Key \cup {None}]

\* What a mutation is about to write is a list the process can start with,
\* beside the other list.
OpFits ==
    op.pc # "idle" =>
        /\ process = "up"
        /\ \A e, f \in op.entries : e.port = f.port => e = f
        /\ \A l \in Line : l # op.line =>
              \A e \in op.entries, f \in cfg[l] : e.port # f.port
        /\ \A e \in op.entries : Resolves(e)

CfgResolves == process # "down" => \A l \in Line : \A e \in cfg[l] : Resolves(e)

ListsDistinct == Distinct(Parse(env)) /\ Distinct(cfg)

\* The sibling of the file holds the file the mutation is to leave.
TmpIsTarget == op.pc = "rename" => tmp = Target(env)

\* How far the file and the configuration have come.
FileAndCfg ==
    /\ process # "down" /\ op.pc \in Before => Parse(cfg) = Parse(env)
    /\ op.pc = "adopt" => Parse(Target(cfg)) = Parse(env)
    /\ op.pc = "apply" => Parse(cfg) = Parse(env)

\* And the file with respect to what was confirmed.
FileAndAcked ==
    /\ ConfirmedSurvives
    /\ process = "up" /\ op.pc \in Before => Parse(env) = Parse(acked)
    /\ op.pc \in {"adopt", "apply"} => Parse(env) = Parse(Target(acked))

FilesInv ==
    /\ TypeOK /\ OpFits /\ CfgResolves /\ ListsDistinct /\ TmpIsTarget
    /\ FileAndCfg /\ FileAndAcked

-----------------------------------------------------------------------------

\* While the process is down nothing is bound, and what is bound while it
\* starts is what it wants.
StartingSound ==
    /\ process # "up" => delta = NoDelta /\ op.before = None
    /\ process = "down" => active = NoSpecs
    /\ process = "booting" =>
        /\ want = Resolved(AllOf(cfg))
        /\ \A p \in Ports : active[p] \in {None, want[p]}

\* Until Apply the sockets are those the mutation began with.
NothingMoved ==
    op.pc \in {"write", "rename", "adopt"} => op.before = active

BoundAsConfigured ==
    process = "up" /\ op.pc # "apply" =>
        \A p \in Ports :
            active[p] = IF p \in delta.failed THEN None
                        ELSE Resolved(AllOf(cfg))[p]

\* What the reconciliation has done to port p, and reported, so far.
Reported(p) ==
    /\ p \in delta.failed =>
        want[p] # None /\ active[p] = None /\ p \notin delta.rebound
    /\ p \in delta.removed =>
        op.before[p] # None /\ want[p] = None /\ active[p] = None
    /\ p \in delta.rebound =>
        /\ op.before[p] # None /\ want[p] # None /\ want[p] # op.before[p]
        /\ active[p] \in {None, want[p]}
    /\ p \in delta.added <=> op.before[p] = None /\ active[p] # None
    /\ op.before[p] # None /\ active[p] = None =>
        p \in delta.removed \cup delta.rebound \cup delta.failed
    /\ active[p] # None =>
        active[p] = op.before[p] \/ active[p] = want[p]
    /\ op.before[p] # None /\ active[p] # None /\ active[p] # op.before[p] =>
        p \in delta.rebound

ApplySound ==
    op.pc = "apply" =>
        /\ want = Resolved(AllOf(cfg))
        /\ op.before \in Specs
        /\ \A p \in Ports : Reported(p)

SocketsInv ==
    /\ StartingSound /\ NothingMoved /\ BoundAsConfigured /\ ApplySound
    /\ ReportIsTrue

SyncInv == FilesInv /\ SocketsInv

-----------------------------------------------------------------------------
(* What is rendered and parsed.                                            *)

\* Parsing keeps the port, and a second parse changes nothing more.
LEMMA ReparseOnce ==
    ASSUME NEW e \in Entry
    PROVE  /\ Reparse(e) \in Entry
           /\ Reparse(e).port = e.port
           /\ Reparse(Reparse(e)) = Reparse(e)
           /\ e.country \notin Unreadable => Reparse(e).country \notin Unreadable
<1>1. CASE AfterComma[e.country] = None
  BY <1>1 DEF Reparse
<1>2. CASE AfterComma[e.country] # None
  <2> DEFINE c == AfterComma[e.country]
  <2>1. c \in Countries /\ AfterComma[c] = None /\ c \notin Unreadable
    BY <1>2, SyncAssumption DEF Entry
  <2>2. Reparse(e) = [port |-> e.port, machine |-> None, country |-> c,
                      mode |-> e.mode]
    BY <1>2 DEF Reparse, Entry
  <2>3. Reparse(e) \in Entry /\ Reparse(e).port = e.port
        /\ Reparse(e).country = c
    BY <2>1, <2>2 DEF Entry
  <2> QED
    BY <2>1, <2>3 DEF Reparse
<1> QED
  BY <1>1, <1>2

\* What an element of a parsed line comes from.
LEMMA ParsedFrom ==
    ASSUME NEW lists \in Lists, NEW l \in Line, NEW x
    PROVE  x \in Parse(lists)[l] <=>
             \E e \in lists[l] : e.country \notin Unreadable /\ x = Reparse(e)
  BY DEF Parse

LEMMA ParseOnce ==
    ASSUME NEW lists \in Lists
    PROVE  Parse(lists) \in Lists /\ Parse(Parse(lists)) = Parse(lists)
<1>1. Parse(lists) \in Lists
  BY ReparseOnce DEF Parse, Lists
<1>2. ASSUME NEW l \in Line
      PROVE  Parse(Parse(lists))[l] = Parse(lists)[l]
  <2>1. ASSUME NEW x \in Parse(lists)[l]
        PROVE  x.country \notin Unreadable /\ Reparse(x) = x
    BY ParsedFrom, ReparseOnce DEF Lists
  <2>2. \A x : x \in Parse(Parse(lists))[l] <=> x \in Parse(lists)[l]
    BY <1>1, <2>1, ParsedFrom
  <2> QED
    BY <2>2 DEF Parse
<1>3. Parse(Parse(lists)) = [l \in Line |-> Parse(Parse(lists))[l]]
      /\ Parse(lists) = [l \in Line |-> Parse(lists)[l]]
  BY DEF Parse
<1> QED
  BY <1>1, <1>2, <1>3

LEMMA ParseDistinct ==
    ASSUME NEW lists \in Lists, Distinct(lists)
    PROVE  Distinct(Parse(lists))
<1> SUFFICES ASSUME NEW l \in Line, NEW k \in Line,
                    NEW x \in Parse(lists)[l], NEW y \in Parse(lists)[k],
                    x.port = y.port
             PROVE  l = k /\ x = y
  BY DEF Distinct
<1>1. PICK e \in lists[l] : x = Reparse(e)
  BY ParsedFrom
<1>2. PICK f \in lists[k] : y = Reparse(f)
  BY ParsedFrom
<1>3. e.port = f.port
  BY <1>1, <1>2, ReparseOnce DEF Lists
<1> QED
  BY <1>1, <1>2, <1>3 DEF Distinct

\* Two files that are parsed alike are so after the mutation of one line.
LEMMA SameTarget ==
    ASSUME NEW a \in Lists, NEW b \in Lists, Parse(a) = Parse(b), TypeOK
    PROVE  Parse(Target(a)) = Parse(Target(b))
<1>1. ASSUME NEW l \in Line
      PROVE  Parse(Target(a))[l] = Parse(Target(b))[l]
  <2>1. Parse(a)[l] = Parse(b)[l]
    OBVIOUS
  <2>2. CASE l = op.line
    BY <2>2 DEF Parse, Target, Lists
  <2>3. CASE l # op.line
    BY <2>1, <2>3 DEF Parse, Target, Lists
  <2> QED
    BY <2>2, <2>3
<1> QED
  BY <1>1 DEF Parse

LEMMA TargetOnce ==
    ASSUME NEW a \in Lists, TypeOK
    PROVE  /\ Target(a) \in Lists
           /\ Target(Target(a)) = Target(a)
  BY DEF Target, Lists, TypeOK

\* A mutation that fits keeps the lists distinct.
LEMMA TargetDistinct ==
    ASSUME TypeOK, Distinct(cfg), OpFits, op.pc # "idle"
    PROVE  Distinct(Target(cfg))
<1> SUFFICES ASSUME NEW l \in Line, NEW k \in Line,
                    NEW e \in Target(cfg)[l], NEW f \in Target(cfg)[k],
                    e.port = f.port
             PROVE  l = k /\ e = f
  BY DEF Distinct
<1>1. cfg \in Lists
  BY DEF TypeOK
<1>2. CASE l = op.line /\ k = op.line
  BY <1>1, <1>2 DEF Target, Lists, OpFits
<1>3. CASE l = op.line /\ k # op.line
  BY <1>1, <1>3 DEF Target, Lists, OpFits
<1>4. CASE l # op.line /\ k = op.line
  BY <1>1, <1>4 DEF Target, Lists, OpFits
<1>5. CASE l # op.line /\ k # op.line
  BY <1>1, <1>5 DEF Target, Lists, Distinct
<1> QED
  BY <1>2, <1>3, <1>4, <1>5

\* A step that leaves file and configuration alone.
LEMMA ListsStay ==
    ASSUME ListsDistinct, UNCHANGED <<env, cfg>>
    PROVE  ListsDistinct'
<1>1. Parse(env)' = Parse(env)
  BY DEF Parse, Reparse
<1> QED
  BY <1>1 DEF ListsDistinct, Distinct

LEMMA ResolvedTypes ==
    ASSUME NEW entries \in SUBSET Entry
    PROVE  Resolved(entries) \in Specs
<1> SUFFICES ASSUME NEW p \in Ports, \E e \in entries : e.port = p /\ Resolves(e)
             PROVE  Resolved(entries)[p] \in Key
  BY DEF Resolved, Specs
<1> DEFINE c == CHOOSE e \in entries : e.port = p /\ Resolves(e)
<1>1. c \in Entry /\ Resolves(c)
  OBVIOUS
<1>2. Resolve(c) \in Key
  BY <1>1 DEF Resolve, Resolves, Entry, Key
<1>3. Resolved(entries)[p] = Resolve(c)
  BY DEF Resolved
<1> QED
  BY <1>2, <1>3

LEMMA AllOfTypes ==
    ASSUME NEW lists \in Lists
    PROVE  AllOf(lists) \in SUBSET Entry
  BY DEF AllOf, Lists, Line

-----------------------------------------------------------------------------
(* File, configuration and what was confirmed: one lemma per step.         *)

LEMMA FilesInit == Init => FilesInv
<1> SUFFICES ASSUME Init PROVE FilesInv
  OBVIOUS
<1>1. env \in Lists /\ Distinct(env) /\ NoLists \in Lists /\ Distinct(NoLists)
  BY DEF Init, NoLists, Lists, Line, Distinct
<1>3. Distinct(Parse(env))
  BY <1>1, ParseDistinct
<1>2. TypeOK
  BY <1>1 DEF Init, AuxInit, TypeOK, NoSpecs, NoDelta, Line
<1> QED
  BY <1>1, <1>2, <1>3
     DEF FilesInv, OpFits, CfgResolves, ListsDistinct, TmpIsTarget, FileAndCfg,
         FileAndAcked, ConfirmedSurvives, Before, Init, AuxInit

\* A mutation that fits is begun: nothing has changed.
LEMMA MutateFiles ==
    ASSUME FilesInv, process = "up", Idle,
           NEW l \in Line, NEW entries \in SUBSET Entry,
           \A e, f \in entries : e.port = f.port => e = f,
           \A k \in Line : k # l =>
              \A e \in entries, f \in cfg[k] : e.port # f.port,
           \A e \in entries : Resolves(e),
           Mutate(l, entries)
    PROVE  FilesInv'
<1>1. /\ op' = [pc |-> "write", line |-> l, entries |-> entries,
                before |-> active]
      /\ UNCHANGED <<process, active, held, want, delta, env, tmp, cfg, acked>>
  BY DEF Mutate, auxVars
<1>2. TypeOK'
  BY <1>1 DEF FilesInv, TypeOK
<1>3. OpFits' /\ CfgResolves' /\ ListsDistinct' /\ TmpIsTarget'
  BY <1>1, ListsStay
     DEF FilesInv, OpFits, CfgResolves, TmpIsTarget,
         Resolves, MachineOf
<1>4. FileAndCfg' /\ FileAndAcked'
  <2>1. Parse(env) = Parse(acked) /\ Parse(cfg) = Parse(env)
    BY DEF FilesInv, FileAndCfg, FileAndAcked, Idle, Before
  <2>2. Parse(env)' = Parse(acked)' /\ Parse(cfg)' = Parse(env)'
    BY <1>1, <2>1 DEF Parse, Reparse
  <2> QED
    BY <1>1, <2>2 DEF FileAndCfg, FileAndAcked, ConfirmedSurvives, Before
<1> QED
  BY <1>2, <1>3, <1>4 DEF FilesInv

LEMMA AddFiles ==
    ASSUME FilesInv, NEW e \in Entry, Add(e)
    PROVE  FilesInv'
<1> DEFINE entries == cfg["managed"] \cup {e}
<1>1. cfg \in Lists /\ "managed" \in Line /\ entries \in SUBSET Entry
  BY DEF FilesInv, TypeOK, Lists, Line
<1>2. \A l \in Line : \A f \in cfg[l] : f.port # e.port
  BY DEF Add, PortOwned, EntryPorts, AllOf, Line
<1>3. \A x, y \in entries : x.port = y.port => x = y
  BY <1>1, <1>2 DEF FilesInv, ListsDistinct, Distinct
<1>4. \A k \in Line : k # "managed" =>
        \A x \in entries, y \in cfg[k] : x.port # y.port
  BY <1>1, <1>2 DEF FilesInv, ListsDistinct, Distinct
<1>5. \A x \in entries : Resolves(x)
  <2>1. Resolves(e)
    BY AuxAssumption DEF Add, Resolves, MachineOf
  <2> QED
    BY <1>1, <2>1 DEF FilesInv, CfgResolves, Add
<1> QED
  BY <1>1, <1>3, <1>4, <1>5, MutateFiles DEF Add

\* The list that has a port, and that no other list has it.
LEMMA LineOfPort ==
    ASSUME FilesInv, NEW p \in Ports, PortOwned(p)
    PROVE  /\ LineOf(p) \in Line
           /\ \A k \in Line : k # LineOf(p) => \A f \in cfg[k] : f.port # p
  BY DEF FilesInv, ListsDistinct, Distinct, PortOwned, LineOf, EntryPorts, AllOf,
         Line

LEMMA UpdateFiles ==
    ASSUME FilesInv, NEW p \in Ports, NEW e \in Entry, Update(p, e)
    PROVE  FilesInv'
<1> DEFINE l == LineOf(p)
           entries == {f \in cfg[l] : f.port # p} \cup {e}
<1>1. cfg \in Lists /\ l \in Line /\ entries \in SUBSET Entry
  BY LineOfPort DEF FilesInv, TypeOK, Lists, Update
<1>2. \A k \in Line : \A f \in cfg[k] : f.port = e.port => k = l /\ f.port = p
  <2>1. CASE e.port = p
    BY <2>1, LineOfPort DEF Update
  <2>2. CASE e.port # p
    BY <2>2 DEF Update, PortOwned, EntryPorts, AllOf, Line
  <2> QED
    BY <2>1, <2>2
<1>3. \A x, y \in entries : x.port = y.port => x = y
  BY <1>1, <1>2 DEF FilesInv, ListsDistinct, Distinct
<1>4. \A k \in Line : k # l => \A x \in entries, y \in cfg[k] : x.port # y.port
  BY <1>1, <1>2 DEF FilesInv, ListsDistinct, Distinct
<1>5. \A x \in entries : Resolves(x)
  <2>1. Resolves(e)
    BY AuxAssumption DEF Update, Resolves, MachineOf
  <2> QED
    BY <1>1, <2>1 DEF FilesInv, CfgResolves, Update
<1> HIDE DEF entries, l
<1> QED
  BY <1>1, <1>3, <1>4, <1>5, MutateFiles DEF Update, entries, l

LEMMA DeleteFiles ==
    ASSUME FilesInv, NEW p \in Ports, Delete(p)
    PROVE  FilesInv'
<1> DEFINE l == LineOf(p)
           entries == {f \in cfg[l] : f.port # p}
<1>1. cfg \in Lists /\ l \in Line /\ entries \in SUBSET Entry
  BY LineOfPort DEF FilesInv, TypeOK, Lists, Delete
<1>2. /\ \A x, y \in entries : x.port = y.port => x = y
      /\ \A k \in Line : k # l => \A x \in entries, y \in cfg[k] : x.port # y.port
      /\ \A x \in entries : Resolves(x)
  BY <1>1 DEF FilesInv, ListsDistinct, Distinct, CfgResolves, Delete
<1> HIDE DEF entries, l
<1> QED
  BY <1>1, <1>2, MutateFiles DEF Delete, entries, l

\* A step that only moves sockets, or ends a start.
LEMMA SocketFiles ==
    ASSUME FilesInv, UNCHANGED syncVars, TypeOK',
           process' = process \/ (process = "booting" /\ process' = "down")
    PROVE  FilesInv'
<1>1. UNCHANGED <<env, tmp, cfg, op, acked>>
  BY DEF syncVars
<1>2. process = "booting" => op.pc = "idle"
  BY DEF FilesInv, OpFits
<1>3. OpFits' /\ CfgResolves' /\ ListsDistinct' /\ TmpIsTarget'
  BY <1>1, <1>2, ListsStay
     DEF FilesInv, OpFits, CfgResolves, TmpIsTarget,
         Resolves, MachineOf, Target
<1>4. FileAndCfg' /\ FileAndAcked'
  <2>1. /\ Parse(env)' = Parse(env) /\ Parse(cfg)' = Parse(cfg)
        /\ Parse(acked)' = Parse(acked)
        /\ Parse(Target(cfg))' = Parse(Target(cfg))
        /\ Parse(Target(acked))' = Parse(Target(acked))
    BY <1>1 DEF Parse, Reparse, Target
  <2> QED
    BY <1>1, <1>2, <2>1
       DEF FilesInv, FileAndCfg, FileAndAcked, ConfirmedSurvives, Before
<1> QED
  BY <1>3, <1>4 DEF FilesInv

LEMMA WriteTmpFiles ==
    ASSUME FilesInv, WriteTmp
    PROVE  FilesInv'
<1> USE DEF FilesInv
<1>1. /\ op.pc = "write" /\ process = "up"
      /\ op' = [op EXCEPT !.pc = "rename"]
      /\ tmp' = Target(env)
      /\ UNCHANGED <<process, active, held, want, delta, env, cfg, acked>>
  BY DEF WriteTmp, auxVars, OpFits, Target
<1>2. /\ op'.pc = "rename" /\ op'.line = op.line /\ op'.entries = op.entries
      /\ op'.before = op.before
  BY <1>1 DEF TypeOK
<1>3. TypeOK'
  BY <1>1, TargetOnce DEF TypeOK
<1>4. OpFits' /\ CfgResolves' /\ ListsDistinct' /\ TmpIsTarget'
  BY <1>1, <1>2, ListsStay
     DEF OpFits, CfgResolves, TmpIsTarget,
         Resolves, MachineOf, Target
<1>5. FileAndCfg' /\ FileAndAcked'
  <2>1. /\ Parse(env)' = Parse(env) /\ Parse(cfg)' = Parse(cfg)
        /\ Parse(acked)' = Parse(acked)
    BY <1>1 DEF Parse, Reparse
  <2> QED
    BY <1>1, <1>2, <2>1
       DEF FileAndCfg, FileAndAcked, ConfirmedSurvives, Before
<1> QED
  BY <1>3, <1>4, <1>5

\* The file becomes what the mutation wrote: the lists it will have confirmed.
LEMMA RenameFiles ==
    ASSUME FilesInv, Rename
    PROVE  FilesInv'
<1> USE DEF FilesInv
<1>1. /\ op.pc = "rename" /\ process = "up"
      /\ op' = [op EXCEPT !.pc = "adopt"]
      /\ env' = Target(env) /\ tmp' = None
      /\ UNCHANGED <<process, active, held, want, delta, cfg, acked>>
  BY DEF Rename, auxVars, OpFits, TmpIsTarget
<1>2. /\ op'.pc = "adopt" /\ op'.line = op.line /\ op'.entries = op.entries
      /\ op'.before = op.before
  BY <1>1 DEF TypeOK
<1>3. TypeOK'
  BY <1>1, TargetOnce DEF TypeOK
<1>4. Parse(cfg) = Parse(env) /\ Parse(env) = Parse(acked)
  BY <1>1 DEF FileAndCfg, FileAndAcked, Before
<1>5. Distinct(Parse(env'))
  <2>1. Parse(env') = Parse(Target(cfg))
    BY <1>1, <1>4, SameTarget DEF TypeOK
  <2>2. Target(cfg) \in Lists /\ Distinct(Target(cfg))
    BY <1>1, TargetOnce, TargetDistinct DEF TypeOK, ListsDistinct
  <2> QED
    BY <2>1, <2>2, ParseDistinct
<1>6. OpFits' /\ CfgResolves' /\ ListsDistinct' /\ TmpIsTarget'
  <2>1. Distinct(cfg)'
    BY <1>1 DEF ListsDistinct, Distinct
  <2> QED
    BY <1>1, <1>2, <1>5, <2>1
       DEF OpFits, CfgResolves, ListsDistinct, TmpIsTarget, Resolves, MachineOf,
           Parse, Reparse
<1>7. FileAndCfg' /\ FileAndAcked'
  <2>1. /\ Parse(Target(cfg)) = Parse(env')
        /\ Parse(env') = Parse(Target(acked))
    BY <1>1, <1>4, SameTarget DEF TypeOK
  <2>2. /\ Target(cfg)' = Target(cfg)
        /\ Target(acked)' = Target(acked)
    BY <1>1, <1>2 DEF Target
  <2> QED
    BY <1>2, <2>1, <2>2
       DEF FileAndCfg, FileAndAcked, ConfirmedSurvives, Before
<1> QED
  BY <1>3, <1>6, <1>7

\* A failed write leaves file and configuration as they were.
LEMMA PersistFailsFiles ==
    ASSUME FilesInv, PersistFails
    PROVE  FilesInv'
<1> USE DEF FilesInv
<1>1. /\ op.pc \in {"write", "rename"} /\ process = "up"
      /\ op' = [op EXCEPT !.pc = "idle", !.before = None]
      /\ tmp' = None
      /\ UNCHANGED <<process, active, held, want, delta, env, cfg, acked>>
  BY DEF PersistFails, auxVars, OpFits
<1>2. op' = [pc |-> "idle", line |-> op.line, entries |-> op.entries,
             before |-> None]
  BY <1>1 DEF TypeOK
<1>3. TypeOK'
  BY <1>1, <1>2 DEF TypeOK
<1>4. OpFits' /\ CfgResolves' /\ ListsDistinct' /\ TmpIsTarget'
  BY <1>1, <1>2, ListsStay
     DEF OpFits, CfgResolves, TmpIsTarget,
         Resolves, MachineOf
<1>5. FileAndCfg' /\ FileAndAcked'
  <2>1. /\ Parse(env)' = Parse(env) /\ Parse(cfg)' = Parse(cfg)
        /\ Parse(acked)' = Parse(acked)
    BY <1>1 DEF Parse, Reparse
  <2> QED
    BY <1>1, <1>2, <2>1
       DEF FileAndCfg, FileAndAcked, ConfirmedSurvives, Before
<1> QED
  BY <1>3, <1>4, <1>5

LEMMA AdoptFiles ==
    ASSUME FilesInv, Adopt
    PROVE  FilesInv'
<1> USE DEF FilesInv
<1>1. /\ op.pc = "adopt" /\ process = "up"
      /\ op' = [op EXCEPT !.pc = "apply"]
      /\ cfg' = Target(cfg)
      /\ ApplyResolve(AllOf(cfg'))
      /\ UNCHANGED <<process, active, held, env, tmp, acked>>
  BY DEF Adopt, ApplyResolve, OpFits, Target
<1>2. /\ op'.pc = "apply" /\ op'.line = op.line /\ op'.entries = op.entries
      /\ op'.before = op.before
  BY <1>1 DEF TypeOK
<1>3. cfg' \in Lists /\ AllOf(cfg') \in SUBSET Entry
  BY <1>1, TargetOnce, AllOfTypes DEF TypeOK
<1>4. TypeOK'
  <2>1. want' \in Specs
    BY <1>1, <1>3, ResolvedTypes DEF ApplyResolve
  <2>2. /\ delta'.failed \in SUBSET Ports
        /\ delta' = [added |-> {}, removed |-> {}, rebound |-> {},
                     failed |-> delta'.failed]
    <3> DEFINE failed == {e.port : e \in {f \in AllOf(cfg') : ~Resolves(f)}}
    <3>1. failed \in SUBSET Ports
      BY <1>3 DEF Entry
    <3>2. delta' = [NoDelta EXCEPT !.failed = failed]
      BY <1>1 DEF ApplyResolve
    <3> HIDE DEF failed
    <3> QED
      BY <3>1, <3>2 DEF NoDelta
  <2> QED
    BY <1>1, <1>3, <2>1, <2>2 DEF TypeOK, Specs
<1>5. Distinct(cfg')
  BY <1>1, TargetDistinct DEF TypeOK, ListsDistinct
<1>6. \A l \in Line : l # op.line => cfg'[l] = cfg[l]
  BY <1>1 DEF Target, TypeOK, Lists
<1>7. cfg'[op.line] = op.entries
  BY <1>1 DEF Target, TypeOK, Lists
<1>8. OpFits' /\ CfgResolves' /\ ListsDistinct' /\ TmpIsTarget'
  <2>1. Distinct(Parse(env))'
    <3>1. Parse(env)' = Parse(env)
      BY <1>1 DEF Parse, Reparse
    <3> QED
      BY <3>1 DEF ListsDistinct, Distinct
  <2> QED
    BY <1>1, <1>2, <1>5, <1>6, <1>7, <2>1
       DEF OpFits, CfgResolves, ListsDistinct, TmpIsTarget, Resolves, MachineOf
<1>9. FileAndCfg' /\ FileAndAcked'
  <2>1. Parse(cfg') = Parse(env') /\ Parse(env') = Parse(Target(acked))
    BY <1>1 DEF FileAndCfg, FileAndAcked
  <2>2. Target(acked)' = Target(acked)
    BY <1>1, <1>2 DEF Target
  <2> QED
    BY <1>2, <2>1, <2>2
       DEF FileAndCfg, FileAndAcked, ConfirmedSurvives, Before
<1> QED
  BY <1>4, <1>8, <1>9

\* The deltas of Apply's steps, field by field.
LEMMA CloseDelta ==
    ASSUME TypeOK, NEW p \in Ports, ApplyClose(p)
    PROVE  /\ delta' \in [added : SUBSET Ports, removed : SUBSET Ports,
                          rebound : SUBSET Ports, failed : SUBSET Ports]
           /\ delta'.added = delta.added /\ delta'.failed = delta.failed
           /\ delta'.rebound = IF want[p] # None THEN delta.rebound \cup {p}
                               ELSE delta.rebound
           /\ delta'.removed = IF want[p] # None THEN delta.removed
                               ELSE delta.removed \cup {p}
<1>1. CASE want[p] # None
  <2>1. delta' = [delta EXCEPT !.rebound = delta.rebound \cup {p}]
    BY <1>1 DEF ApplyClose
  <2> QED
    BY <1>1, <2>1 DEF TypeOK
<1>2. CASE want[p] = None
  <2>1. delta' = [delta EXCEPT !.removed = delta.removed \cup {p}]
    BY <1>2 DEF ApplyClose
  <2> QED
    BY <1>2, <2>1 DEF TypeOK
<1> QED
  BY <1>1, <1>2

LEMMA BindDelta ==
    ASSUME TypeOK, NEW p \in Ports, ApplyBind(p)
    PROVE  /\ delta' \in [added : SUBSET Ports, removed : SUBSET Ports,
                          rebound : SUBSET Ports, failed : SUBSET Ports]
           /\ delta'.removed = delta.removed
           /\ delta'.failed = IF InUse(p) THEN delta.failed \cup {p}
                              ELSE delta.failed
           /\ delta'.rebound = IF InUse(p) THEN delta.rebound \ {p}
                               ELSE delta.rebound
           /\ delta'.added = IF InUse(p) \/ p \in delta.rebound THEN delta.added
                             ELSE delta.added \cup {p}
<1>1. CASE InUse(p)
  <2>1. delta' = [added |-> delta.added, removed |-> delta.removed,
                  rebound |-> delta.rebound \ {p},
                  failed |-> delta.failed \cup {p}]
    <3>1. delta' = Failed(p)
      BY <1>1 DEF ApplyBind
    <3> QED
      BY <3>1 DEF Failed, TypeOK
  <2> QED
    BY <1>1, <2>1 DEF TypeOK
<1>2. CASE ~InUse(p) /\ p \in delta.rebound
  BY <1>2 DEF ApplyBind, TypeOK
<1>3. CASE ~InUse(p) /\ p \notin delta.rebound
  <2>1. delta' = [delta EXCEPT !.added = delta.added \cup {p}]
    BY <1>3 DEF ApplyBind
  <2> QED
    BY <1>3, <2>1 DEF TypeOK
<1> QED
  BY <1>1, <1>2, <1>3

LEMMA ReconcileFiles ==
    ASSUME FilesInv, NEW p \in Ports, Reconcile(p)
    PROVE  FilesInv'
<1>1. UNCHANGED syncVars /\ UNCHANGED <<process, held, want>>
  BY DEF Reconcile, ApplyClose, ApplyBind
<1>2. active' \in Specs
  BY DEF Reconcile, ApplyClose, ApplyBind, FilesInv, TypeOK, Specs
<1>3. delta' \in [added : SUBSET Ports, removed : SUBSET Ports,
                  rebound : SUBSET Ports, failed : SUBSET Ports]
  BY CloseDelta, BindDelta DEF Reconcile, FilesInv
<1>4. TypeOK'
  BY <1>1, <1>2, <1>3 DEF FilesInv, TypeOK, syncVars, Specs
<1> QED
  BY <1>1, <1>4, SocketFiles

LEMMA ConfirmFiles ==
    ASSUME FilesInv, Confirm
    PROVE  FilesInv'
<1> USE DEF FilesInv
<1>1. /\ op.pc = "apply" /\ process = "up"
      /\ op' = [op EXCEPT !.pc = "idle"]
      /\ acked' = cfg
      /\ UNCHANGED <<process, active, held, want, delta, env, tmp, cfg>>
  BY DEF Confirm, auxVars, OpFits
<1>2. op' = [pc |-> "idle", line |-> op.line, entries |-> op.entries,
             before |-> op.before]
  BY <1>1 DEF TypeOK
<1>3. TypeOK'
  BY <1>1, <1>2 DEF TypeOK
<1>4. OpFits' /\ CfgResolves' /\ ListsDistinct' /\ TmpIsTarget'
  BY <1>1, <1>2, ListsStay
     DEF OpFits, CfgResolves, TmpIsTarget,
         Resolves, MachineOf
<1>5. FileAndCfg' /\ FileAndAcked'
  <2>1. Parse(cfg') = Parse(env') /\ Parse(env') = Parse(acked')
    BY <1>1 DEF FileAndCfg
  <2> QED
    BY <1>2, <2>1 DEF FileAndCfg, FileAndAcked, ConfirmedSurvives, Before
<1> QED
  BY <1>3, <1>4, <1>5

\* A start reads the file, whatever a crash left of it.
LEMMA BootFiles ==
    ASSUME FilesInv, Boot
    PROVE  FilesInv'
<1> USE DEF FilesInv
<1>1. /\ process = "down" /\ op.pc = "idle"
      /\ cfg' = Parse(env)
      /\ Start(cfg'["managed"], cfg'["manual"])
      /\ UNCHANGED <<active, held, delta, env, tmp, op, acked>>
  BY DEF Boot, OpFits
<1>2. /\ cfg' \in Lists /\ Parse(cfg') = Parse(env)
      /\ Distinct(cfg')
  BY <1>1, ParseOnce DEF TypeOK, ListsDistinct
<1>3. TypeOK' /\ CfgResolves'
  <2>1. CASE UNCHANGED <<process, want>>
    BY <1>1, <1>2, <2>1 DEF TypeOK, CfgResolves
  <2>2. CASE process' = "booting"
    <3>1. \A e \in AllOf(cfg') : Resolves(e)
      BY <1>1, <2>2 DEF Start, AllOf
    <3>2. want' = Resolved(AllOf(cfg')) /\ want' \in Specs
      BY <1>1, <1>2, <2>2, AllOfTypes, ResolvedTypes DEF Start, AllOf
    <3>3. TypeOK'
      BY <1>1, <1>2, <2>2, <3>2 DEF TypeOK, Specs
    <3> QED
      BY <2>2, <3>1, <3>3
         DEF CfgResolves, AllOf, Line, Resolves, MachineOf
  <2> QED
    BY <1>1, <2>1, <2>2 DEF Start
<1>4. OpFits' /\ ListsDistinct' /\ TmpIsTarget'
  <2>1. Parse(env)' = Parse(env)
    BY <1>1 DEF Parse, Reparse
  <2> QED
    BY <1>1, <1>2, <2>1 DEF OpFits, ListsDistinct, TmpIsTarget, Distinct
<1>5. FileAndCfg' /\ FileAndAcked'
  <2>1. Parse(cfg') = Parse(env')
    BY <1>1, <1>2
  <2>2. process' # "up"
    BY <1>1 DEF Start
  <2>3. /\ Parse(env)' = Parse(env) /\ Parse(acked)' = Parse(acked)
        /\ Parse(Target(acked))' = Parse(Target(acked))
    BY <1>1 DEF Parse, Reparse, Target
  <2> QED
    BY <1>1, <2>1, <2>2, <2>3
       DEF FileAndCfg, FileAndAcked, ConfirmedSurvives, Before
<1> QED
  BY <1>3, <1>4, <1>5

LEMMA StartingFiles ==
    ASSUME FilesInv, Starting
    PROVE  FilesInv'
<1>1. UNCHANGED syncVars
  BY DEF Starting
<1>2. CASE \E p \in Ports : StartBind(p)
  <2>1. TypeOK' /\ process' = process
    BY <1>1, <1>2 DEF StartBind, FilesInv, TypeOK, syncVars
  <2> QED
    BY <1>1, <2>1, SocketFiles
<1>3. CASE StartAborts \/ ServeAborts
  <2>1. process = "booting" /\ Die
    BY <1>3 DEF StartAborts, ServeAborts
  <2>2. TypeOK' /\ process' = "down"
    BY <1>1, <2>1 DEF Die, NoSpecs, NoDelta, FilesInv, TypeOK, syncVars
  <2> QED
    BY <1>1, <2>1, <2>2, SocketFiles
<1> QED
  BY <1>2, <1>3 DEF Starting

\* Serving begins with what was read from the file.
LEMMA StartServingFiles ==
    ASSUME FilesInv, StartServing
    PROVE  FilesInv'
<1> USE DEF FilesInv
<1>1. /\ process = "booting" /\ process' = "up" /\ op.pc = "idle"
      /\ acked' = cfg
      /\ UNCHANGED <<active, held, want, delta, env, tmp, cfg, op>>
  BY DEF StartServing, Serve, OpFits
<1>2. TypeOK'
  BY <1>1 DEF TypeOK
<1>3. OpFits' /\ CfgResolves' /\ ListsDistinct' /\ TmpIsTarget'
  BY <1>1, ListsStay
     DEF OpFits, CfgResolves, TmpIsTarget,
         Resolves, MachineOf
<1>4. FileAndCfg' /\ FileAndAcked'
  <2>1. Parse(cfg') = Parse(env') /\ Parse(env') = Parse(acked')
    BY <1>1 DEF FileAndCfg, Before
  <2> QED
    BY <1>1, <2>1 DEF FileAndCfg, FileAndAcked, ConfirmedSurvives, Before
<1> QED
  BY <1>2, <1>3, <1>4

\* A crash: the file, and what is known of the mutation under way, remain.
LEMMA CrashFiles ==
    ASSUME FilesInv, Crash
    PROVE  FilesInv'
<1> USE DEF FilesInv
<1>1. /\ process' = "down"
      /\ op' = [op EXCEPT !.pc = "idle", !.before = None]
      /\ Die
      /\ UNCHANGED <<held, env, tmp, cfg, acked>>
  BY DEF Crash, Die
<1>2. op' = [pc |-> "idle", line |-> op.line, entries |-> op.entries,
             before |-> None]
  BY <1>1 DEF TypeOK
<1>3. TypeOK'
  BY <1>1, <1>2 DEF TypeOK, Die, NoSpecs, NoDelta
<1>4. OpFits' /\ CfgResolves' /\ ListsDistinct' /\ TmpIsTarget'
  BY <1>1, <1>2, ListsStay DEF OpFits, CfgResolves, TmpIsTarget
<1>5. FileAndCfg' /\ FileAndAcked'
  <2>1. Target(acked)' = Target(acked)
    BY <1>1, <1>2 DEF Target
  <2>2. ConfirmedSurvives'
    BY <1>1, <2>1 DEF FileAndAcked, ConfirmedSurvives
  <2> QED
    BY <1>1, <1>2, <2>2 DEF FileAndCfg, FileAndAcked
<1> QED
  BY <1>3, <1>4, <1>5

LEMMA OthersFiles ==
    ASSUME FilesInv, Others
    PROVE  FilesInv'
<1>1. UNCHANGED syncVars /\ UNCHANGED <<process, active, want, delta>>
      /\ held' \subseteq Ports
  BY DEF Others, OthersTake, OthersFree, FilesInv, TypeOK
<1>2. TypeOK'
  BY <1>1 DEF FilesInv, TypeOK, syncVars
<1> QED
  BY <1>1, <1>2, SocketFiles

LEMMA FilesStep == FilesInv /\ [Next]_vars => FilesInv'
<1> SUFFICES ASSUME FilesInv, [Next]_vars PROVE FilesInv'
  OBVIOUS
<1>1. CASE \E e \in Managed : Add(e) \/ \E p \in Ports : Update(p, e)
  BY <1>1, AddFiles, UpdateFiles, SyncAssumption
<1>2. CASE \E p \in Ports : Delete(p) \/ Reconcile(p)
  BY <1>2, DeleteFiles, ReconcileFiles
<1>3. CASE Boot \/ Starting \/ StartServing \/ Crash \/ Others
  BY <1>3, BootFiles, StartingFiles, StartServingFiles, CrashFiles, OthersFiles
<1>4. CASE WriteTmp \/ Rename \/ PersistFails \/ Adopt \/ Confirm
  BY <1>4, WriteTmpFiles, RenameFiles, PersistFailsFiles, AdoptFiles,
     ConfirmFiles
<1>5. CASE UNCHANGED vars
  <2>1. UNCHANGED syncVars /\ UNCHANGED <<process, active, held, want, delta>>
    BY <1>5 DEF vars, auxVars
  <2>2. TypeOK'
    BY <2>1 DEF FilesInv, TypeOK, syncVars
  <2> QED
    BY <2>1, <2>2, SocketFiles
<1> QED
  BY <1>1, <1>2, <1>3, <1>4, <1>5 DEF Next

THEOREM FilesInvariant == Spec => []FilesInv
  BY FilesInit, FilesStep, PTL DEF Spec

\* Type correctness: the file, the lists and the sockets stay what they are
\* declared to be, and the sibling of the file is a whole file when it is renamed.
THEOREM TypeCorrect == Spec => []TypeOK
<1>1. FilesInv => TypeOK
  BY DEF FilesInv
<1> QED
  BY <1>1, FilesInvariant, PTL

\* No two listeners are ever given the same port, in memory or in the file,
\* within a list or across the two, whatever is added, moved and deleted
\* (Add, Update, Delete, portOwner) and wherever the process crashes.
THEOREM PortsStayDistinct == Spec => []PortsDistinct
<1>1. FilesInv => PortsDistinct
  BY DEF FilesInv, ListsDistinct, PortsDistinct
<1> QED
  BY <1>1, FilesInvariant, PTL

\* A crash never costs what was confirmed (writeEnvKey, renamed over the
\* file): the file holds the lists confirmed last, or those of the mutation
\* that was interrupted.
THEOREM NothingConfirmedIsLost == Spec => []ConfirmedSurvives
<1>1. FilesInv => ConfirmedSurvives
  BY DEF FilesInv, FileAndAcked
<1> QED
  BY <1>1, FilesInvariant, PTL

\* Between mutations the configuration in memory is what the next start will
\* read (applied, persistManaged, persistManual), after a failed one too.
THEOREM FileIsFollowed == Spec => []ConfigFollowsFile
<1>1. FilesInv => ConfigFollowsFile
  BY DEF FilesInv, FileAndCfg, ConfigFollowsFile, Before
<1> QED
  BY <1>1, FilesInvariant, PTL

-----------------------------------------------------------------------------
(* The sockets: what each stage has done to them and reported of it.       *)

LEMMA SocketsInit == Init => SocketsInv
  BY DEF Init, AuxInit, SocketsInv, StartingSound, NothingMoved,
         BoundAsConfigured, ApplySound, ReportIsTrue

\* The stages before Apply leave sockets and configuration alone.
LEMMA StageSockets ==
    ASSUME SyncInv, UNCHANGED <<process, active, want, delta, cfg>>,
           process = "up", op.pc \in Before,
           \/ op'.pc \in {"write", "rename", "adopt"} /\ op'.before = active
           \/ op'.pc = "idle" /\ op'.before = None
    PROVE  SocketsInv'
<1>1. StartingSound' /\ NothingMoved' /\ ApplySound' /\ ReportIsTrue'
  BY DEF StartingSound, NothingMoved, ApplySound, ReportIsTrue, Idle
<1>2. BoundAsConfigured'
  BY DEF SyncInv, SocketsInv, BoundAsConfigured, Before
<1> QED
  BY <1>1, <1>2 DEF SocketsInv

LEMMA BeginSockets ==
    ASSUME SyncInv, NEW l, NEW entries, Mutate(l, entries), Idle, process = "up"
    PROVE  SocketsInv'
  BY StageSockets DEF Mutate, Idle, Before, auxVars

LEMMA PersistSockets ==
    ASSUME SyncInv, WriteTmp \/ Rename \/ PersistFails
    PROVE  SocketsInv'
<1>1. /\ process = "up" /\ op.pc \in {"write", "rename"}
      /\ UNCHANGED <<process, active, want, delta, cfg>>
  BY DEF WriteTmp, Rename, PersistFails, auxVars, SyncInv, FilesInv, OpFits
<1>2. op.before = active
  BY <1>1 DEF SyncInv, SocketsInv, NothingMoved
<1>3. CASE WriteTmp \/ Rename
  <2>1. op'.pc \in {"rename", "adopt"} /\ op'.before = op.before
    BY <1>3 DEF WriteTmp, Rename, SyncInv, FilesInv, TypeOK
  <2> QED
    BY <1>1, <1>2, <2>1, StageSockets DEF Before
<1>4. CASE PersistFails
  <2>1. op' = [pc |-> "idle", line |-> op.line, entries |-> op.entries,
               before |-> None]
    BY <1>4 DEF PersistFails, SyncInv, FilesInv, TypeOK
  <2> QED
    BY <1>1, <2>1, StageSockets DEF Before
<1> QED
  BY <1>3, <1>4

\* Apply begins: everything resolves, nothing has been moved or reported.
LEMMA AdoptSockets ==
    ASSUME SyncInv, FilesInv', Adopt
    PROVE  SocketsInv'
<1>1. /\ op.pc = "adopt" /\ process = "up" /\ process' = "up"
      /\ active' = active
      /\ ApplyResolve(AllOf(cfg'))
  BY DEF Adopt, ApplyResolve, SyncInv, FilesInv, OpFits
<1>2. op'.pc = "apply" /\ op'.before = active
  BY DEF Adopt, SyncInv, FilesInv, TypeOK, SocketsInv, NothingMoved
<1>3. op'.before \in Specs
  BY <1>2 DEF SyncInv, FilesInv, TypeOK, Specs
<1>4. {f \in AllOf(cfg') : ~Resolves(f)} = {}
  BY <1>1 DEF FilesInv, CfgResolves, AllOf, Line, Resolves, MachineOf
<1>5. /\ want' = Resolved(AllOf(cfg'))
      /\ delta' = [added |-> {}, removed |-> {}, rebound |-> {}, failed |-> {}]
  BY <1>1, <1>4 DEF ApplyResolve, NoDelta
<1>6. ASSUME NEW p \in Ports PROVE Reported(p)'
  BY <1>1, <1>2, <1>5 DEF Reported
<1> QED
  BY <1>1, <1>2, <1>3, <1>5, <1>6
     DEF SocketsInv, StartingSound, NothingMoved, BoundAsConfigured, ApplySound,
         ReportIsTrue, Idle

\* A port is closed: it is bound again later, or reported as removed.
LEMMA CloseReported ==
    ASSUME SyncInv, op.pc = "apply", UNCHANGED op, NEW p \in Ports,
           ApplyClose(p), NEW q \in Ports
    PROVE  Reported(q)'
<1>1. /\ active \in Specs /\ Reported(q) /\ Reported(p) /\ TypeOK
  BY DEF SyncInv, SocketsInv, ApplySound, FilesInv, TypeOK, Specs
<1>2. /\ active[p] # None /\ active[p] # want[p] /\ want' = want
      /\ active' = [active EXCEPT ![p] = None]
  BY DEF ApplyClose, Stale
<1>3. active[p] = op.before[p]
  BY <1>1, <1>2 DEF Reported
<1>4. CASE q # p
  <2>1. active'[q] = active[q]
    BY <1>1, <1>2, <1>4 DEF Specs
  <2>2. /\ q \in delta'.added <=> q \in delta.added
        /\ q \in delta'.failed <=> q \in delta.failed
        /\ q \in delta'.rebound <=> q \in delta.rebound
        /\ q \in delta'.removed <=> q \in delta.removed
    <3>1. CASE want[p] # None
      BY <1>1, <1>4, <3>1, CloseDelta
    <3>2. CASE want[p] = None
      BY <1>1, <1>4, <3>2, CloseDelta
    <3> QED
      BY <3>1, <3>2
  <2> QED
    BY <1>1, <1>2, <2>1, <2>2 DEF Reported
<1>5. CASE q = p
  <2>1. active'[p] = None
    BY <1>1, <1>2 DEF Specs
  <2>2. p \notin delta.failed /\ p \notin delta.removed
    BY <1>1, <1>2 DEF Reported
  <2>3. p \notin delta.added
    BY <1>1, <1>2, <1>3 DEF Reported
  <2>4. p \notin delta'.failed /\ p \notin delta'.added
    BY <1>1, <2>2, <2>3, CloseDelta
  <2>5. CASE want[p] # None
    <3>1. p \in delta'.rebound /\ p \notin delta'.removed
      BY <1>1, <2>2, <2>5, CloseDelta
    <3> QED
      BY <1>2, <1>3, <1>5, <2>1, <2>4, <2>5, <3>1 DEF Reported
  <2>6. CASE want[p] = None
    <3>1. p \notin delta.rebound
      BY <1>1, <2>6 DEF Reported
    <3>2. p \in delta'.removed /\ p \notin delta'.rebound
      BY <1>1, <2>6, <3>1, CloseDelta
    <3> QED
      BY <1>2, <1>3, <1>5, <2>1, <2>4, <2>6, <3>2 DEF Reported
  <2> QED
    BY <2>5, <2>6
<1> QED
  BY <1>4, <1>5

\* A port is bound, or fails and is reported as nothing else.
LEMMA BindReported ==
    ASSUME SyncInv, op.pc = "apply", UNCHANGED op, NEW p \in Ports,
           ApplyBind(p), NEW q \in Ports
    PROVE  Reported(q)'
<1>1. /\ active \in Specs /\ Reported(q) /\ Reported(p) /\ TypeOK
  BY DEF SyncInv, SocketsInv, ApplySound, FilesInv, TypeOK, Specs
<1>2. /\ want[p] # None /\ active[p] = None /\ p \notin delta.failed
      /\ want' = want
  BY DEF ApplyBind, Missing, Unbound
<1>3. p \notin delta.removed /\ p \notin delta.added
  BY <1>1, <1>2 DEF Reported
<1>4. CASE q # p
  <2>1. active'[q] = active[q]
    BY <1>1, <1>4 DEF Specs, ApplyBind
  <2>2. /\ q \in delta'.added <=> q \in delta.added
        /\ q \in delta'.failed <=> q \in delta.failed
        /\ q \in delta'.rebound <=> q \in delta.rebound
        /\ q \in delta'.removed <=> q \in delta.removed
    BY <1>1, <1>4, BindDelta
  <2> QED
    BY <1>1, <1>2, <2>1, <2>2 DEF Reported
<1>5. CASE q = p /\ InUse(p)
  <2>1. active'[p] = None
    BY <1>2, <1>5 DEF ApplyBind
  <2>2. /\ p \in delta'.failed /\ p \notin delta'.rebound
        /\ p \notin delta'.removed /\ p \notin delta'.added
    BY <1>1, <1>3, <1>5, BindDelta
  <2> QED
    BY <1>2, <1>5, <2>1, <2>2 DEF Reported
<1>6. CASE q = p /\ ~InUse(p)
  <2>1. active'[p] = want[p]
    BY <1>1, <1>6 DEF ApplyBind, Specs
  <2>2. p \notin delta'.failed /\ p \notin delta'.removed
    BY <1>1, <1>2, <1>3, <1>6, BindDelta
  <2>3. p \in delta'.rebound <=> p \in delta.rebound
    BY <1>1, <1>6, BindDelta
  <2>4. p \in delta'.added <=> p \notin delta.rebound
    BY <1>1, <1>3, <1>6, BindDelta
  <2>5. p \in delta.rebound <=> op.before[p] # None
    BY <1>1, <1>2, <1>3 DEF Reported
  <2> QED
    BY <1>1, <1>2, <1>6, <2>1, <2>2, <2>3, <2>4, <2>5 DEF Reported
<1> QED
  BY <1>4, <1>5, <1>6

LEMMA ReconcileSockets ==
    ASSUME SyncInv, NEW p \in Ports, Reconcile(p)
    PROVE  SocketsInv'
<1>1. /\ op.pc = "apply" /\ process = "up"
      /\ ApplyClose(p) \/ ApplyBind(p)
      /\ UNCHANGED <<process, want, cfg, op>>
  BY DEF Reconcile, ApplyClose, ApplyBind, syncVars, SyncInv, FilesInv, OpFits
<1>2. \A q \in Ports : Reported(q)'
  BY <1>1, CloseReported, BindReported
<1> QED
  BY <1>1, <1>2
     DEF SyncInv, SocketsInv, StartingSound, NothingMoved, BoundAsConfigured,
         ApplySound, ReportIsTrue, Idle

\* When nothing is left to close or to bind, each port is as configured or
\* reported, and the report sorts the ports by what happened to them.
LEMMA ConfirmSockets ==
    ASSUME SyncInv, Confirm
    PROVE  SocketsInv'
<1>1. /\ op.pc = "apply" /\ process = "up" /\ Reconciled
      /\ UNCHANGED <<process, active, held, want, delta, cfg>>
  BY DEF Confirm, auxVars, SyncInv, FilesInv, OpFits
<1>2. op'.pc = "idle" /\ op'.before = op.before
  BY DEF Confirm, SyncInv, FilesInv, TypeOK
<1>3. /\ TypeOK /\ want = Resolved(AllOf(cfg))
      /\ \A p \in Ports : Reported(p)
  BY <1>1 DEF SyncInv, FilesInv, SocketsInv, ApplySound
<1>4. \A p \in Ports : active[p] = IF p \in delta.failed THEN None ELSE want[p]
  BY <1>1, <1>3 DEF Reconciled, Stale, Missing, Unbound, Reported
<1>5. BoundAsConfigured'
  BY <1>1, <1>3, <1>4 DEF BoundAsConfigured
<1>6. ReportIsTrue'
  <2> DEFINE was == {p \in Ports : op.before[p] # None}
             is == {p \in Ports : active[p] # None}
  <2>1. delta.added = is \ was
    BY <1>3 DEF TypeOK, Reported
  <2>2. delta.removed \subseteq was \ is
    BY <1>3 DEF TypeOK, Reported
  <2>3. delta.rebound \subseteq is \cap was
    BY <1>3, <1>4 DEF TypeOK, Reported
  <2>4. was \ is \subseteq delta.removed \cup delta.failed
    BY <1>3, <2>3 DEF TypeOK, Reported
  <2>5. delta.removed \cap delta.failed = {} /\ delta.failed \cap is = {}
    BY <1>3 DEF TypeOK, Reported
  <2>6. delta.rebound = {p \in is \cap was : active[p] # op.before[p]}
    BY <1>3, <1>4, <2>3 DEF TypeOK, Reported
  <2> QED
    BY <1>1, <1>2, <2>1, <2>2, <2>4, <2>5, <2>6 DEF ReportIsTrue
<1> QED
  BY <1>1, <1>2, <1>5, <1>6
     DEF SocketsInv, StartingSound, NothingMoved, ApplySound

LEMMA BootSockets ==
    ASSUME SyncInv, Boot
    PROVE  SocketsInv'
<1>1. /\ process = "down" /\ op.pc = "idle"
      /\ Start(cfg'["managed"], cfg'["manual"])
      /\ UNCHANGED <<active, held, delta, env, tmp, op, acked>>
  BY DEF Boot, SyncInv, FilesInv, OpFits
<1>2. \/ process' = "down"
      \/ process' = "booting" /\ want' = Resolved(AllOf(cfg'))
  BY <1>1 DEF Start, AllOf
<1>3. /\ delta = NoDelta /\ op.before = None /\ active = NoSpecs
  BY <1>1 DEF SyncInv, SocketsInv, StartingSound
<1> QED
  BY <1>1, <1>2, <1>3
     DEF SocketsInv, StartingSound, NothingMoved, BoundAsConfigured, ApplySound,
         ReportIsTrue, NoSpecs, NoDelta

LEMMA DieSockets ==
    ASSUME Die, op'.pc = "idle", op'.before = None
    PROVE  SocketsInv'
  BY DEF Die, SocketsInv, StartingSound, NothingMoved, BoundAsConfigured,
         ApplySound, ReportIsTrue, NoSpecs, NoDelta

LEMMA StartingSockets ==
    ASSUME SyncInv, Starting
    PROVE  SocketsInv'
<1>1. /\ process = "booting" /\ op.pc = "idle" /\ op.before = None
      /\ UNCHANGED <<env, tmp, cfg, op, acked>>
  BY DEF Starting, StartBind, StartAborts, ServeAborts, syncVars, SyncInv,
         FilesInv, OpFits, SocketsInv, StartingSound
<1>2. CASE \E p \in Ports : StartBind(p)
  BY <1>1, <1>2
     DEF StartBind, SyncInv, FilesInv, TypeOK, SocketsInv, StartingSound,
         NothingMoved, BoundAsConfigured, ApplySound, ReportIsTrue
<1>3. CASE StartAborts \/ ServeAborts
  BY <1>1, <1>3, DieSockets DEF StartAborts, ServeAborts
<1> QED
  BY <1>2, <1>3 DEF Starting

\* Everything that was to be bound is: the servers listen last.
LEMMA StartServingSockets ==
    ASSUME SyncInv, StartServing
    PROVE  SocketsInv'
<1>1. /\ process = "booting" /\ Unbound = {} /\ process' = "up" /\ op.pc = "idle"
      /\ UNCHANGED <<active, held, want, delta, cfg, op>>
  BY DEF StartServing, Serve, SyncInv, FilesInv, OpFits
<1>2. /\ delta = NoDelta /\ op.before = None
      /\ want = Resolved(AllOf(cfg))
      /\ \A p \in Ports : active[p] \in {None, want[p]}
  BY <1>1 DEF SyncInv, SocketsInv, StartingSound
<1>3. \A p \in Ports : active[p] = want[p]
  BY <1>1, <1>2 DEF Unbound
<1>4. delta.failed = {}
  BY <1>2 DEF NoDelta
<1> QED
  BY <1>1, <1>2, <1>3, <1>4
     DEF SocketsInv, StartingSound, NothingMoved, BoundAsConfigured, ApplySound,
         ReportIsTrue

LEMMA CrashSockets ==
    ASSUME SyncInv, Crash
    PROVE  SocketsInv'
<1>1. op' = [pc |-> "idle", line |-> op.line, entries |-> op.entries,
             before |-> None]
  BY DEF Crash, SyncInv, FilesInv, TypeOK
<1> QED
  BY <1>1, DieSockets DEF Crash

LEMMA SameSockets ==
    ASSUME SyncInv, UNCHANGED <<process, active, want, delta, cfg, op>>
    PROVE  SocketsInv'
  BY DEF SyncInv, SocketsInv, StartingSound, NothingMoved, BoundAsConfigured,
         ApplySound, ReportIsTrue, Idle, Reported

LEMMA SyncStep == SyncInv /\ [Next]_vars => SyncInv'
<1> SUFFICES ASSUME SyncInv, [Next]_vars PROVE SyncInv'
  OBVIOUS
<1>1. FilesInv'
  BY FilesStep DEF SyncInv
<1>2. SocketsInv'
  <2>1. CASE \E e \in Managed : Add(e) \/ \E p \in Ports : Update(p, e)
    BY <2>1, BeginSockets DEF Add, Update
  <2>2. CASE \E p \in Ports : Delete(p) \/ Reconcile(p)
    BY <2>2, BeginSockets, ReconcileSockets DEF Delete
  <2>3. CASE Boot \/ Starting \/ StartServing \/ Crash
    BY <2>3, BootSockets, StartingSockets, StartServingSockets, CrashSockets
  <2>4. CASE WriteTmp \/ Rename \/ PersistFails \/ Adopt \/ Confirm
    BY <1>1, <2>4, PersistSockets, AdoptSockets, ConfirmSockets
  <2>5. CASE Others \/ UNCHANGED vars
    BY <2>5, SameSockets
       DEF Others, OthersTake, OthersFree, vars, auxVars, syncVars
  <2> QED
    BY <2>1, <2>2, <2>3, <2>4, <2>5 DEF Next
<1> QED
  BY <1>1, <1>2 DEF SyncInv

THEOREM SyncInvariant == Spec => []SyncInv
<1>1. Init => SyncInv
  BY FilesInit, SocketsInit DEF SyncInv
<1> QED
  BY <1>1, SyncStep, PTL DEF Spec

\* Between mutations every configured listener is bound as configured (Start,
\* Apply), or the last answer said its port failed; nothing else is bound.
THEOREM ListenersAreConfigured == Spec => []BoundOrReported
<1>1. SyncInv => BoundOrReported
  BY DEF SyncInv, SocketsInv, BoundAsConfigured, BoundOrReported, Idle
<1> QED
  BY <1>1, SyncInvariant, PTL

\* The AuxDelta of a confirmed mutation is what happened to the sockets, the
\* ports that swapped, failed and came back included (AuxRegistry.Apply).
THEOREM ReportsAreTrue == Spec => []ReportIsTrue
<1>1. SyncInv => ReportIsTrue
  BY DEF SyncInv, SocketsInv
<1> QED
  BY <1>1, SyncInvariant, PTL

\* While the process serves, a bound socket is only closed when the
\* configuration wants its port differently, or not at all (ApplyClose).
THEOREM OthersKeepTheirSockets == Spec => UnchangedStayUp
<1> DEFINE Kept == \A p \in Ports :
              process' = "up" /\ active[p] # None /\ active'[p] # active[p] =>
                  Resolved(AllOf(cfg))[p] # active[p]
<1>1. SyncInv /\ [Next]_vars => [Kept]_vars
  <2> SUFFICES ASSUME SyncInv, Next, NEW p \in Ports, process' = "up",
                      active[p] # None, active'[p] # active[p]
               PROVE  Resolved(AllOf(cfg))[p] # active[p]
    OBVIOUS
  <2>1. PICK q \in Ports : Reconcile(q)
    BY DEF Next, Boot, Starting, StartBind, StartAborts, ServeAborts, Die,
           StartServing, Serve, Crash, Others, OthersTake, OthersFree, Add,
           Update, Delete, Mutate, WriteTmp, Rename, PersistFails, Adopt,
           ApplyResolve, Confirm, auxVars
  <2>2. op.pc = "apply" /\ want = Resolved(AllOf(cfg)) /\ active \in Specs
    BY <2>1 DEF Reconcile, SyncInv, SocketsInv, ApplySound, FilesInv, TypeOK, Specs
  <2>3. CASE ApplyClose(q)
    BY <2>2, <2>3 DEF ApplyClose, Stale, Specs
  <2>4. CASE ApplyBind(q)
    BY <2>2, <2>4 DEF ApplyBind, Missing, Unbound, Specs
  <2> QED
    BY <2>1, <2>3, <2>4 DEF Reconcile
<1> QED
  BY <1>1, SyncInvariant, PTL DEF Spec, UnchangedStayUp
=============================================================================
