--------------------------- MODULE SettingsProofs ---------------------------
(***************************************************************************)
(* The settings for any number of requests, reloads, clients and writes.   *)
(* The inductive invariant says of every request and every reload on its   *)
(* way what it has achieved so far, unless another one has overlapped it.  *)
(***************************************************************************)
EXTENDS Settings, TLAPS

ReloadPc == {"idle", "auth", "rate", "handler", "select", "server", "used",
             "done"}

Storing(w) == writer[w].pc # "idle"

\* A request under way or stored has a number of its own.
WritesDiffer ==
    /\ \A w \in Writers : writer[w].version <= writes
    /\ \A v, w \in Writers :
        Storing(v) /\ Storing(w) /\ writer[v].version = writer[w].version
            => v = w

\* The newest request, when no other is under way: what it has written.
StoredSoFar ==
    /\ \A w \in Writers : writer[w].pc = "stored" => writer[w].left = {}
    /\ ~mixed => \A w \in Writers :
        /\ Writing(w) => writer[w].version = writes
        /\ Storing(w) /\ writer[w].version = writes =>
                \A k \in Keys \ writer[w].left : table[k] = writes

WritesInv == WritesDiffer /\ StoredSoFar

LoneReload ==
    ~overlap => \A r, s \in Reloads : Reloading(r) /\ Reloading(s) => r = s

\* The two selectors differ only between the two assignments.
HandingOver ==
    ~overlap =>
        /\ \A r \in Reloads : At(r, "used") => selector = reload[r].number
        /\ used = selector \/ \E r \in Reloads : At(r, "used")

SelectorsInv == LoneReload /\ HandingOver

\* The newest reload, when it is alone, is the only one under way.
Newest(r) == reload[r].alone /\ reload[r].number = reloads

AloneIsLast ==
    \A r \in Reloads :
        /\ reload[r].number <= reloads /\ reload[r].writes <= writes
        /\ Newest(r) => \A s \in Reloads : Reloading(s) => s = r
        /\ Newest(r) /\ reload[r].writes = writes =>
                /\ ~broken => reload[r].settings = table
                /\ \A w \in Writers : ~Writing(w)

AppliedSoFar ==
    \A r \in Reloads : Newest(r) =>
        /\ reload[r].pc # "auth" => auth = reload[r].settings["authentication"]
        /\ reload[r].pc \notin {"auth", "rate"} =>
                rate = reload[r].settings["rate_limit"]
        /\ reload[r].pc \notin {"auth", "rate", "handler"} =>
                handler = reload[r].settings["rotation"]
        /\ reload[r].pc \in {"server", "used", "done"} =>
                rotation[reload[r].number] = reload[r].settings["rotation"]
        /\ reload[r].pc = "done" => used = reload[r].number

AppliesInv == AloneIsLast /\ AppliedSoFar

\* Nothing is newer than the table.
TableIsNewest ==
    /\ \A k \in Keys : table[k] <= writes
    /\ ~mixed =>
        /\ auth <= table["authentication"] /\ rate <= table["rate_limit"]
        /\ handler <= table["rotation"]
        /\ \A n \in 0..MaxReloads : rotation[n] <= table["rotation"]
        /\ \A r \in Reloads : \A k \in Keys : reload[r].settings[k] <= table[k]

\* Nothing is newer than what the reload under way has read, if that is all.
ReloadIsNewer ==
    ~mixed /\ ~overlap /\ ~broken => \A r \in Reloads : Reloading(r) =>
        /\ auth <= reload[r].settings["authentication"]
        /\ rate <= reload[r].settings["rate_limit"]
        /\ handler <= reload[r].settings["rotation"]
        /\ rotation[used] <= reload[r].settings["rotation"]
        /\ reload[r].pc \in {"server", "used"} =>
                rotation[reload[r].number] = reload[r].settings["rotation"]

OrderInv == TableIsNewest /\ ReloadIsNewer

SettingsInv ==
    /\ TypeOK /\ LimitersFollowSettings
    /\ WritesInv /\ SelectorsInv /\ AppliesInv /\ OrderInv

-----------------------------------------------------------------------------
(* The steps, by what they touch.                                          *)

WriterStep ==
    \E w \in Writers :
        \/ BeginWrite(w) \/ Acknowledge(w) \/ WriteFails(w)
        \/ \E key \in Keys : Set(w, key)

ReloadStep ==
    \E r \in Reloads :
        ReloadSettings(r) \/ \E read \in Reads : Load(r, read)

RestartStep == \E read \in Reads : Restart(read)

LimiterStep == (\E c \in Clients : Request(c)) \/ CleanupLimiters

LEMMA StepKinds ==
    [Next]_vars <=> WriterStep \/ ReloadStep \/ LimiterStep \/ RestartStep
                        \/ UNCHANGED vars
BY DEF Next, Rest, WriterStep, ReloadStep, LimiterStep, RestartStep

LEMMA WriterStepLeaves == WriterStep => UNCHANGED <<live, loading>>
BY DEF WriterStep, BeginWrite, Acknowledge, WriteFails, Set

LEMMA ReloadStepLeaves == ReloadStep => UNCHANGED writing
BY DEF ReloadStep, Load, ReloadSettings, ReloadAuth, ReloadRate, ReloadHandler,
       NewSelector, RefreshFails, AssignServer, AssignHandler

LEMMA LimiterStepLeaves ==
    LimiterStep => UNCHANGED <<writing, loading, auth, rate, handler, selector,
                               used, rotation>>
BY DEF LimiterStep, Request, CleanupLimiters

-----------------------------------------------------------------------------
(* Types.                                                                  *)

LEMMA TypeInit == Init => TypeOK
<1>1. 0 \in Versions /\ 1 \in Versions /\ 0 \in 0..MaxReloads
  BY SettingsAssumption DEF Versions
<1>2. NotReloading \in [pc : ReloadPc, number : 0..MaxReloads,
                       settings : [Keys -> Versions],
                       alone : BOOLEAN, writes : Versions]
  BY <1>1 DEF NotReloading, ReloadPc
<1>3. NotWriting \in [pc : {"idle", "writing", "stored"},
                     version : Versions, left : SUBSET Keys]
  BY <1>1 DEF NotWriting
<1> SUFFICES ASSUME Init PROVE TypeOK
  OBVIOUS
<1>4. /\ table \in [Keys -> Versions]
      /\ limiters \in [Clients -> Versions \cup {None}]
      /\ rotation \in [0..MaxReloads -> Versions]
  BY <1>1 DEF Init, NoLimiters
<1>5. /\ writer \in [Writers -> [pc : {"idle", "writing", "stored"},
                                version : Versions, left : SUBSET Keys]]
      /\ reload \in [Reloads -> [pc : ReloadPc, number : 0..MaxReloads,
                                settings : [Keys -> Versions],
                                alone : BOOLEAN, writes : Versions]]
  BY <1>2, <1>3 DEF Init
<1> QED
  BY <1>1, <1>4, <1>5 DEF Init, TypeOK, ReloadPc

LEMMA WriterTypes == TypeOK /\ WriterStep => TypeOK'
<1> SUFFICES ASSUME TypeOK, NEW w \in Writers,
                    \/ BeginWrite(w) \/ Acknowledge(w) \/ WriteFails(w)
                    \/ \E key \in Keys : Set(w, key)
             PROVE  TypeOK'
  BY DEF WriterStep
<1>1. CASE BeginWrite(w)
  BY <1>1, SettingsAssumption DEF BeginWrite, TypeOK, Versions, live, loading
<1>2. CASE Acknowledge(w)
  BY <1>2, ZenonT(40) DEF Acknowledge, TypeOK, live, loading
<1>3. CASE WriteFails(w)
  BY <1>3, SettingsAssumption
     DEF WriteFails, NotWriting, TypeOK, Versions, live, loading
<1>4. ASSUME NEW key \in Keys, Set(w, key)
      PROVE  TypeOK'
  <2>1. /\ writer[w].version \in Versions
        /\ writer' = [writer EXCEPT ![w].left = @ \ {key}]
        /\ table' = [table EXCEPT ![key] = writer[w].version]
        /\ UNCHANGED <<writes, mixed, live, loading>>
    BY <1>4 DEF Set, TypeOK
  <2>2. table' \in [Keys -> Versions]
    BY <2>1 DEF TypeOK
  <2>3. writer' \in [Writers -> [pc : {"idle", "writing", "stored"},
                                version : Versions, left : SUBSET Keys]]
    BY <2>1, SMTT(20) DEF TypeOK
  <2> QED
    BY <2>1, <2>2, <2>3 DEF TypeOK, live, loading
<1> QED
  BY <1>1, <1>2, <1>3, <1>4

LEMMA ContinueTypes ==
    ASSUME TypeOK, NEW r \in Reloads, NEW pc \in ReloadPc, Continue(r, pc)
    PROVE  /\ reload' \in [Reloads -> [pc : ReloadPc, number : 0..MaxReloads,
                                       settings : [Keys -> Versions],
                                       alone : BOOLEAN, writes : Versions]]
           /\ \A s \in Reloads :
                /\ reload'[s].pc = IF s = r THEN pc ELSE reload[s].pc
                /\ reload'[s].number = reload[s].number
                /\ reload'[s].settings = reload[s].settings
                /\ reload'[s].alone = reload[s].alone
                /\ reload'[s].writes = reload[s].writes
BY ZenonT(40) DEF Continue, TypeOK, ReloadPc

\* What every reload's record keeps of its type.
LEMMA ReloadRecord ==
    ASSUME TypeOK, NEW r \in Reloads
    PROVE  /\ reload[r].pc \in ReloadPc /\ reload[r].number \in 0..MaxReloads
           /\ reload[r].settings \in [Keys -> Versions]
           /\ \A k \in Keys : reload[r].settings[k] \in Versions
           /\ reload[r].alone \in BOOLEAN /\ reload[r].writes \in Versions
BY DEF TypeOK, ReloadPc

\* What a read returns: the table, or 0 for a key it has missed.
LEMMA LoadedKeys ==
    ASSUME TypeOK, NEW read \in Reads
    PROVE  /\ Loaded(read) \in [Keys -> Versions]
           /\ \A k \in Keys : Loaded(read)[k] \in {0, table[k]}
           /\ read = Keys => Loaded(read) = table
BY SettingsAssumption DEF Loaded, TypeOK, Versions

LEMMA LoadTypes ==
    ASSUME TypeOK, NEW r \in Reloads, NEW read \in Reads, Load(r, read)
    PROVE  /\ TypeOK'
           /\ reload'[r].pc = "auth"
           /\ reload'[r].number = reloads + 1
           /\ reload'[r].settings = Loaded(read)
           /\ reload'[r].alone = NothingRuns
           /\ reload'[r].writes = writes
           /\ \A s \in Reloads \ {r} :
                /\ reload'[s].pc = reload[s].pc
                /\ reload'[s].number = reload[s].number
                /\ reload'[s].settings = reload[s].settings
                /\ reload'[s].alone = (reload[s].alone /\ ~Reloading(s))
                /\ reload'[s].writes = reload[s].writes
<1> DEFINE Types == [pc : ReloadPc, number : 0..MaxReloads,
                     settings : [Keys -> Versions],
                     alone : BOOLEAN, writes : Versions]
           New == [pc |-> "auth", number |-> reloads + 1,
                   settings |-> Loaded(read), alone |-> NothingRuns,
                   writes |-> writes]
           Old(s) == [reload[s] EXCEPT !.alone = @ /\ ~Reloading(s)]
<1>1. reload' = [s \in Reloads |-> IF s = r THEN New ELSE Old(s)]
  BY DEF Load
<1>2. New \in Types
  <2>1. reloads + 1 \in 0..MaxReloads
    BY SettingsAssumption DEF Load, TypeOK
  <2>2. NothingRuns \in BOOLEAN
    BY DEF NothingRuns
  <2> QED
    BY <2>1, <2>2, LoadedKeys DEF TypeOK, ReloadPc
<1>3. ASSUME NEW s \in Reloads
      PROVE  /\ Old(s) \in Types
             /\ Old(s).pc = reload[s].pc
             /\ Old(s).number = reload[s].number
             /\ Old(s).settings = reload[s].settings
             /\ Old(s).alone = (reload[s].alone /\ ~Reloading(s))
             /\ Old(s).writes = reload[s].writes
  <2>1. reload[s] \in Types
    BY DEF TypeOK, ReloadPc
  <2>2. Reloading(s) \in BOOLEAN
    BY DEF Reloading
  <2> QED
    BY <2>1, <2>2
<1> HIDE DEF New, Old, Types
<1>4. reload' \in [Reloads -> Types]
  BY <1>1, <1>2, <1>3
<1>5. TypeOK'
  <2>1. reloads' \in 0..MaxReloads /\ overlap' \in BOOLEAN
        /\ broken' \in BOOLEAN
    BY SettingsAssumption DEF Load, TypeOK
  <2> QED
    BY <1>4, <2>1 DEF Load, TypeOK, Types, ReloadPc, writing, live
<1> QED
  BY <1>1, <1>3, <1>5 DEF New

LEMMA ReloadTypes == TypeOK /\ ReloadStep => TypeOK'
<1> SUFFICES ASSUME TypeOK, NEW r \in Reloads,
                    ReloadSettings(r) \/ \E read \in Reads : Load(r, read)
             PROVE  TypeOK'
  BY DEF ReloadStep
<1> USE DEF ReloadPc
<1>1. CASE \E read \in Reads : Load(r, read)
  BY <1>1, LoadTypes
<1>2. CASE ReloadAuth(r)
  BY <1>2, ContinueTypes, ReloadRecord DEF ReloadAuth, TypeOK, writing, Keys
<1>3. CASE ReloadRate(r)
  BY <1>3, ContinueTypes, ReloadRecord
     DEF ReloadRate, Cleared, NoLimiters, TypeOK, writing, Keys
<1>4. CASE ReloadHandler(r)
  BY <1>4, ContinueTypes, ReloadRecord DEF ReloadHandler, TypeOK, writing, Keys
<1>5. CASE NewSelector(r)
  BY <1>5, ContinueTypes, ReloadRecord DEF NewSelector, TypeOK, writing, Keys
<1>6. CASE RefreshFails(r)
  <2>1. NotReloading \in [pc : ReloadPc, number : 0..MaxReloads,
                          settings : [Keys -> Versions],
                          alone : BOOLEAN, writes : Versions]
    BY SettingsAssumption DEF NotReloading, Versions
  <2> QED
    BY <1>6, <2>1 DEF RefreshFails, TypeOK, writing, live
<1>7. CASE AssignServer(r)
  BY <1>7, ContinueTypes, ReloadRecord DEF AssignServer, TypeOK, writing
<1>8. CASE AssignHandler(r)
  BY <1>8, ContinueTypes, ReloadRecord
     DEF AssignHandler, HandedOver, TypeOK, writing
<1> QED
  BY <1>1, <1>2, <1>3, <1>4, <1>5, <1>6, <1>7, <1>8 DEF ReloadSettings

LEMMA LimiterTypes == TypeOK /\ LimiterStep => TypeOK'
<1> SUFFICES ASSUME TypeOK, LimiterStep
             PROVE  limiters' \in [Clients -> Versions \cup {None}]
  BY LimiterStepLeaves DEF TypeOK, writing, loading
<1> QED
  BY DEF LimiterStep, Request, CleanupLimiters, NoLimiters, TypeOK

LEMMA RestartTypes == TypeOK /\ RestartStep => TypeOK'
<1> SUFFICES ASSUME TypeOK, NEW read \in Reads, Restart(read) PROVE TypeOK'
  BY DEF RestartStep
<1>1. 0 \in Versions /\ 0 \in 0..MaxReloads /\ reloads + 1 \in 0..MaxReloads
  BY SettingsAssumption DEF Versions, Restart, TypeOK
<1>2. NotReloading \in [pc : ReloadPc, number : 0..MaxReloads,
                       settings : [Keys -> Versions],
                       alone : BOOLEAN, writes : Versions]
  BY <1>1 DEF NotReloading, ReloadPc
<1>3. NotWriting \in [pc : {"idle", "writing", "stored"},
                     version : Versions, left : SUBSET Keys]
  BY <1>1 DEF NotWriting
<1>4. /\ limiters' \in [Clients -> Versions \cup {None}]
      /\ rotation' \in [0..MaxReloads -> Versions]
      /\ auth' \in Versions /\ rate' \in Versions /\ handler' \in Versions
  BY <1>1, LoadedKeys DEF Restart, NoLimiters, TypeOK, Keys
<1>5. /\ writer' \in [Writers -> [pc : {"idle", "writing", "stored"},
                                 version : Versions, left : SUBSET Keys]]
      /\ reload' \in [Reloads -> [pc : ReloadPc, number : 0..MaxReloads,
                                 settings : [Keys -> Versions],
                                 alone : BOOLEAN, writes : Versions]]
  BY <1>2, <1>3 DEF Restart
<1>6. /\ mixed' \in BOOLEAN /\ overlap' \in BOOLEAN /\ broken' \in BOOLEAN
      /\ UNCHANGED <<table, writes>> /\ reloads' = reloads + 1
      /\ selector' = reloads + 1 /\ used' = reloads + 1
  BY DEF Restart, TypeOK
<1> QED
  BY <1>1, <1>4, <1>5, <1>6 DEF TypeOK, ReloadPc

LEMMA TypeStep == TypeOK /\ [Next]_vars => TypeOK'
<1>1. TypeOK /\ UNCHANGED vars => TypeOK'
  BY DEF TypeOK, vars, writing, live, loading
<1> QED
  BY <1>1, StepKinds, WriterTypes, ReloadTypes, LimiterTypes, RestartTypes

-----------------------------------------------------------------------------
(* Requests that write.                                                    *)

LEMMA WritesInit == Init => WritesInv
BY DEF Init, WritesInv, WritesDiffer, StoredSoFar, Storing, Writing, NotWriting

\* What an idle slot or a stored request turns into.
LEMMA BeginKeepsWrites ==
    ASSUME TypeOK, WritesInv, NEW w \in Writers, BeginWrite(w)
    PROVE  WritesInv'
<1>1. /\ writes \in Nat /\ writes' = writes + 1 /\ table' = table
      /\ \A v \in Writers : writer[v].version \in Nat
  BY SettingsAssumption DEF BeginWrite, TypeOK, Versions
<1>2. /\ writer'[w] = [pc |-> "writing", version |-> writes + 1, left |-> Keys]
      /\ \A v \in Writers \ {w} : writer'[v] = writer[v]
  BY DEF BeginWrite, TypeOK
<1>3. ~mixed' => ~mixed /\ \A v \in Writers : ~Writing(v)
  BY DEF BeginWrite, TypeOK
<1>4. WritesDiffer'
  BY <1>1, <1>2 DEF WritesInv, WritesDiffer, Storing
<1>5. StoredSoFar'
  BY <1>1, <1>2, <1>3
     DEF WritesInv, WritesDiffer, StoredSoFar, Storing, Writing
<1> QED
  BY <1>4, <1>5 DEF WritesInv

LEMMA SetKeepsWrites ==
    ASSUME TypeOK, WritesInv, NEW w \in Writers, NEW key \in Keys, Set(w, key)
    PROVE  WritesInv'
<1>1. /\ writer'[w].pc = writer[w].pc /\ writer'[w].version = writer[w].version
      /\ writer'[w].left = writer[w].left \ {key}
      /\ \A v \in Writers \ {w} : writer'[v] = writer[v]
      /\ UNCHANGED <<writes, mixed>>
  BY DEF Set, TypeOK
<1>2. /\ table'[key] = writer[w].version
      /\ \A k \in Keys \ {key} : table'[k] = table[k]
  BY DEF Set, TypeOK
<1>3. Writing(w)
  BY DEF Set
<1>4. WritesDiffer'
  BY <1>1 DEF WritesInv, WritesDiffer, Storing
<1>5. StoredSoFar'
  BY <1>1, <1>2, <1>3
     DEF WritesInv, WritesDiffer, StoredSoFar, Storing, Writing
<1> QED
  BY <1>4, <1>5 DEF WritesInv

LEMMA WritesStep == TypeOK /\ WritesInv /\ [Next]_vars => WritesInv'
<1> SUFFICES ASSUME TypeOK, WritesInv, [Next]_vars PROVE WritesInv'
  OBVIOUS
<1> USE DEF WritesInv, WritesDiffer, StoredSoFar, Storing, Writing
<1>1. CASE UNCHANGED writing
  BY <1>1 DEF writing
<1>2. CASE WriterStep
  <2> PICK w \in Writers : \/ BeginWrite(w) \/ Acknowledge(w) \/ WriteFails(w)
                           \/ \E key \in Keys : Set(w, key)
    BY <1>2 DEF WriterStep
  <2>1. CASE Acknowledge(w)
    BY <2>1 DEF Acknowledge, Written, TypeOK
  <2>2. CASE WriteFails(w)
    BY <2>2, SettingsAssumption DEF WriteFails, NotWriting, TypeOK, Versions
  <2> QED
    BY <2>1, <2>2, BeginKeepsWrites, SetKeepsWrites
<1>3. CASE RestartStep
  BY <1>3, SettingsAssumption
     DEF RestartStep, Restart, NotWriting, TypeOK, Versions
<1> QED
  BY <1>1, <1>2, <1>3, StepKinds, ReloadStepLeaves, LimiterStepLeaves DEF vars

-----------------------------------------------------------------------------
(* The two selectors.                                                      *)

LEMMA SelectorsInit == Init => SelectorsInv
BY DEF Init, SelectorsInv, LoneReload, HandingOver, Reloading, At, NotReloading

LEMMA ReloadKeepsSelectors ==
    ASSUME TypeOK, SelectorsInv, NEW r \in Reloads,
           ReloadSettings(r) \/ \E read \in Reads : Load(r, read)
    PROVE  SelectorsInv'
<1> USE DEF SelectorsInv, LoneReload, HandingOver, Reloading, At, ReloadPc
<1>1. ASSUME NEW read \in Reads, Load(r, read)
      PROVE  SelectorsInv'
  <2>1. ~overlap' => ~overlap /\ \A s \in Reloads : ~Reloading(s)
    BY <1>1 DEF Load, TypeOK
  <2>2. UNCHANGED <<selector, used>>
    BY <1>1 DEF Load, live
  <2> QED
    BY <1>1, <2>1, <2>2, LoadTypes
<1>2. ASSUME NEW pc \in {"rate", "handler", "select", "server"},
             Reloading(r), ~At(r, "used"), Continue(r, pc),
             UNCHANGED <<selector, used, overlap>>
      PROVE  SelectorsInv'
  <2>1. \A s \in Reloads :
            /\ reload'[s].pc = IF s = r THEN pc ELSE reload[s].pc
            /\ reload'[s].number = reload[s].number
    BY <1>2, ContinueTypes
  <2> QED
    BY <1>2, <2>1
<1>3. CASE ReloadAuth(r) \/ ReloadRate(r) \/ ReloadHandler(r) \/ NewSelector(r)
  <2>1. /\ Reloading(r) /\ ~At(r, "used")
        /\ UNCHANGED <<selector, used, overlap>>
        /\ \E pc \in {"rate", "handler", "select", "server"} : Continue(r, pc)
    BY <1>3 DEF ReloadAuth, ReloadRate, ReloadHandler, NewSelector
  <2> QED
    BY <1>2, <2>1
<1>4. CASE RefreshFails(r)
  BY <1>4 DEF RefreshFails, NotReloading, live, TypeOK
<1>5. CASE AssignServer(r)
  BY <1>5, ContinueTypes DEF AssignServer
<1>6. CASE AssignHandler(r)
  BY <1>6, ContinueTypes DEF AssignHandler, HandedOver
<1> QED
  BY <1>1, <1>3, <1>4, <1>5, <1>6 DEF ReloadSettings

LEMMA SelectorsStep == TypeOK /\ SelectorsInv /\ [Next]_vars => SelectorsInv'
<1> SUFFICES ASSUME TypeOK, SelectorsInv, [Next]_vars PROVE SelectorsInv'
  OBVIOUS
<1> USE DEF SelectorsInv, LoneReload, HandingOver, Reloading, At
<1>1. CASE UNCHANGED <<loading, selector, used>>
  BY <1>1 DEF loading
<1>2. CASE RestartStep
  BY <1>2 DEF RestartStep, Restart, NotReloading
<1>3. CASE ReloadStep
  BY <1>3, ReloadKeepsSelectors DEF ReloadStep
<1> QED
  BY <1>1, <1>2, <1>3, StepKinds, WriterStepLeaves, LimiterStepLeaves
     DEF vars, live

-----------------------------------------------------------------------------
(* A reload on its own.                                                    *)

LEMMA AppliesInit == Init => AppliesInv
BY DEF Init, AppliesInv, AloneIsLast, AppliedSoFar, Newest, Reloading,
       NotReloading

LEMMA WriterKeepsApplies ==
    ASSUME TypeOK, AppliesInv, WriterStep
    PROVE  AppliesInv'
<1>1. AppliedSoFar'
  BY WriterStepLeaves
     DEF AppliesInv, AppliedSoFar, Newest, live, loading
<1>2. PICK w \in Writers : \/ BeginWrite(w) \/ Acknowledge(w) \/ WriteFails(w)
                           \/ \E key \in Keys : Set(w, key)
  BY DEF WriterStep
<1>3. UNCHANGED <<reload, reloads>>
  BY WriterStepLeaves DEF loading
<1>4. \A r \in Reloads : reload[r].writes \in Nat /\ writes \in Nat
  BY ReloadRecord, SettingsAssumption DEF Versions, TypeOK
<1>5. CASE BeginWrite(w)
  BY <1>1, <1>3, <1>4, <1>5
     DEF BeginWrite, AppliesInv, AloneIsLast, Newest, Reloading
<1>6. CASE ~BeginWrite(w)
  <2>1. Writing(w) /\ writes' = writes
    BY <1>2, <1>6 DEF Acknowledge, WriteFails, Set
  <2> QED
    BY <1>1, <1>3, <2>1 DEF AppliesInv, AloneIsLast, Newest, Reloading
<1> QED
  BY <1>5, <1>6

LEMMA LoadKeepsApplies ==
    ASSUME TypeOK, AppliesInv, NEW r \in Reloads, NEW read \in Reads,
           Load(r, read)
    PROVE  AppliesInv'
<1>1. /\ reloads' = reloads + 1 /\ reloads \in Nat /\ writes \in Nat
      /\ broken' = (read # Keys)
      /\ UNCHANGED <<table, writer, writes, live>>
  BY SettingsAssumption DEF Load, TypeOK, Versions, writing
<1>2. \A s \in Reloads : reload[s].number \in Nat /\ reload[s].number <= reloads
  BY SettingsAssumption, ReloadRecord DEF AppliesInv, AloneIsLast
<1>3. ASSUME NEW s \in Reloads, Newest(s)'
      PROVE  s = r /\ NothingRuns
  BY <1>1, <1>2, <1>3, LoadTypes DEF Newest
<1>4. \A s \in Reloads : reload'[s].number <= reloads'
  BY <1>1, <1>2, LoadTypes
<1>5. \A s \in Reloads : reload'[s].writes <= writes'
  <2>1. \A s \in Reloads : reload[s].writes <= writes /\ writes <= writes
    BY <1>1 DEF AppliesInv, AloneIsLast
  <2> QED
    BY <1>1, <2>1, LoadTypes
<1>6. ASSUME NEW s \in Reloads, Newest(s)', NEW q \in Reloads, Reloading(q)'
      PROVE  q = s
  <2>1. s = r /\ NothingRuns
    BY <1>3, <1>6
  <2>2. ~Reloading(q)
    BY <2>1 DEF NothingRuns
  <2>3. reload'[q].pc # reload[q].pc
    BY <1>6, <2>2 DEF Reloading
  <2> QED
    BY <2>1, <2>3, LoadTypes
<1>7. ASSUME NEW s \in Reloads, Newest(s)'
      PROVE  /\ ~broken' => reload'[s].settings = table'
             /\ \A w \in Writers : ~Writing(w)'
  <2>1. s = r /\ NothingRuns
    BY <1>3, <1>7
  <2>2. \A w \in Writers : Writing(w)' <=> Writing(w)
    BY <1>1 DEF Writing
  <2>3. read = Keys => Loaded(read) = table
    BY LoadedKeys
  <2>4. ~broken' => Loaded(read) = table
    BY <1>1, <2>3
  <2>5. reload'[s].settings = Loaded(read)
    BY <2>1, LoadTypes
  <2>6. table' = table
    BY <1>1
  <2>7. \A w \in Writers : ~Writing(w)
    BY <2>1 DEF NothingRuns
  <2> QED
    BY <2>2, <2>4, <2>5, <2>6, <2>7
<1>8. AloneIsLast'
  BY <1>4, <1>5, <1>6, <1>7 DEF AloneIsLast
<1>9. AppliedSoFar'
  BY <1>3, LoadTypes DEF AppliedSoFar
<1> QED
  BY <1>8, <1>9 DEF AppliesInv

\* ReloadSettings step by step: the pc moves on, the settings are applied.
LEMMA ReloadKeepsApplies ==
    ASSUME TypeOK, AppliesInv, NEW r \in Reloads, ReloadSettings(r)
    PROVE  AppliesInv'
<1> USE DEF AppliesInv
<1>1. Reloading(r) /\ UNCHANGED <<writing, reloads, broken>>
  BY DEF ReloadSettings, ReloadAuth, ReloadRate, ReloadHandler, NewSelector,
         RefreshFails, AssignServer, AssignHandler, Reloading, At
<1>2. ASSUME NEW s \in Reloads, Newest(s)
      PROVE  s = r
  BY <1>1, <1>2 DEF AloneIsLast
<1>3. CASE RefreshFails(r)
  <2>1. /\ reload'[r] = NotReloading
        /\ \A s \in Reloads \ {r} : reload'[s] = reload[s]
    BY <1>3 DEF RefreshFails, TypeOK
  <2>2. reloads \in Nat /\ writes \in Nat
    BY SettingsAssumption DEF TypeOK, Versions
  <2>3. \A s \in Reloads : ~Newest(s)'
    BY <1>1, <1>2, <2>1 DEF Newest, NotReloading
  <2>4. AloneIsLast'
    BY <1>1, <2>1, <2>2, <2>3
       DEF AloneIsLast, NotReloading, Writing, writing
  <2> QED
    BY <2>3, <2>4 DEF AppliedSoFar
<1>4. ASSUME NEW pc \in ReloadPc, Continue(r, pc)
      PROVE  AloneIsLast'
  <2>1. \A s \in Reloads :
            /\ reload'[s].number = reload[s].number
            /\ reload'[s].settings = reload[s].settings
            /\ reload'[s].alone = reload[s].alone
            /\ reload'[s].writes = reload[s].writes
            /\ Reloading(s)' => Reloading(s)
    BY <1>1, <1>4, ContinueTypes DEF Reloading
  <2> QED
    BY <1>1, <2>1 DEF AloneIsLast, Newest, Writing, writing
<1>5. ASSUME NEW pc \in ReloadPc, Continue(r, pc),
             NEW s \in Reloads, Newest(s)'
      PROVE  /\ s = r /\ Newest(r) /\ reload'[r].pc = pc
             /\ reload'[r].number = reload[r].number
             /\ reload'[r].settings = reload[r].settings
  <2>1. Newest(s)
    BY <1>1, <1>5, ContinueTypes DEF Newest
  <2> QED
    BY <1>2, <1>5, <2>1, ContinueTypes
<1> USE DEF ReloadPc
<1>6. CASE ReloadAuth(r)
  BY <1>4, <1>5, <1>6 DEF ReloadAuth, At, AppliedSoFar
<1>7. CASE ReloadRate(r)
  BY <1>4, <1>5, <1>7 DEF ReloadRate, At, AppliedSoFar
<1>8. CASE ReloadHandler(r)
  BY <1>4, <1>5, <1>8 DEF ReloadHandler, At, AppliedSoFar
<1>9. CASE NewSelector(r)
  BY <1>4, <1>5, <1>9, ReloadRecord DEF NewSelector, At, AppliedSoFar, TypeOK
<1>10. CASE AssignServer(r)
  BY <1>4, <1>5, <1>10 DEF AssignServer, At, AppliedSoFar
<1>11. CASE AssignHandler(r)
  BY <1>4, <1>5, <1>11 DEF AssignHandler, HandedOver, At, AppliedSoFar
<1> QED
  BY <1>3, <1>6, <1>7, <1>8, <1>9, <1>10, <1>11 DEF ReloadSettings

LEMMA AppliesStep == TypeOK /\ AppliesInv /\ [Next]_vars => AppliesInv'
<1> SUFFICES ASSUME TypeOK, AppliesInv, [Next]_vars PROVE AppliesInv'
  OBVIOUS
<1>1. CASE UNCHANGED <<writing, loading, auth, rate, handler, selector, used,
                       rotation>>
  BY <1>1 DEF AppliesInv, AloneIsLast, AppliedSoFar, Newest, Reloading, Writing,
              writing, loading
<1>2. CASE RestartStep
  <2>1. /\ \A r \in Reloads : reload'[r] = NotReloading
        /\ reloads' = reloads + 1 /\ reloads \in Nat
        /\ writes' = writes /\ writes \in Nat
    BY <1>2, SettingsAssumption DEF RestartStep, Restart, TypeOK, Versions
  <2>2. \A r \in Reloads : /\ reload'[r].number <= reloads'
                           /\ reload'[r].writes <= writes'
                           /\ ~reload'[r].alone
    BY <2>1 DEF NotReloading
  <2>3. AloneIsLast' /\ AppliedSoFar'
    BY <2>2 DEF AloneIsLast, AppliedSoFar, Newest
  <2> QED
    BY <2>3 DEF AppliesInv
<1>3. CASE ReloadStep
  BY <1>3, LoadKeepsApplies, ReloadKeepsApplies DEF ReloadStep
<1> QED
  BY <1>1, <1>2, <1>3, StepKinds, WriterKeepsApplies, LimiterStepLeaves
     DEF vars, live

-----------------------------------------------------------------------------
(* Nothing goes back.                                                      *)

LEMMA OrderInit == Init => OrderInv
<1> SUFFICES ASSUME Init PROVE OrderInv
  OBVIOUS
<1>1. \A r \in Reloads : reload[r] = NotReloading
  BY DEF Init
<1> QED
  BY <1>1
     DEF Init, OrderInv, TableIsNewest, ReloadIsNewer, Reloading, NotReloading,
         Keys

LEMMA Numbers ==
    ASSUME TypeOK
    PROVE  /\ auth \in Nat /\ rate \in Nat /\ handler \in Nat /\ writes \in Nat
           /\ \A k \in Keys : table[k] \in Nat
           /\ \A n \in 0..MaxReloads : rotation[n] \in Nat
           /\ \A r \in Reloads : \A k \in Keys : reload[r].settings[k] \in Nat
           /\ used \in 0..MaxReloads
BY SettingsAssumption, ReloadRecord DEF TypeOK, Versions

LEMMA WriterKeepsOrder ==
    ASSUME TypeOK, WritesInv, OrderInv, WriterStep
    PROVE  OrderInv'
<1>1. UNCHANGED <<live, loading>>
  BY WriterStepLeaves
<1>2. mixed => mixed'
  BY DEF WriterStep, BeginWrite, Acknowledge, WriteFails, Set
<1>3. ReloadIsNewer'
  BY <1>1, <1>2 DEF OrderInv, ReloadIsNewer, Reloading, live, loading
<1>4. PICK w \in Writers : \/ BeginWrite(w) \/ Acknowledge(w) \/ WriteFails(w)
                           \/ \E key \in Keys : Set(w, key)
  BY DEF WriterStep
<1>5. /\ \A k \in Keys : table'[k] <= writes'
      /\ ~mixed => \A k \in Keys : table[k] <= table'[k]
  <2>1. CASE BeginWrite(w)
    BY <2>1, Numbers DEF BeginWrite, OrderInv, TableIsNewest
  <2>2. CASE Acknowledge(w) \/ WriteFails(w)
    BY <2>2, Numbers DEF Acknowledge, WriteFails, OrderInv, TableIsNewest
  <2>3. ASSUME NEW key \in Keys, Set(w, key)
        PROVE  <1>5!1 /\ <1>5!2
    <3>1. /\ Writing(w) /\ writes' = writes
          /\ table'[key] = writer[w].version
          /\ \A k \in Keys \ {key} : table'[k] = table[k]
      BY <2>3 DEF Set, TypeOK
    <3>2. writer[w].version <= writes /\ (~mixed => writer[w].version = writes)
      BY <3>1 DEF WritesInv, WritesDiffer, StoredSoFar
    <3> QED
      BY <3>1, <3>2, Numbers DEF OrderInv, TableIsNewest
  <2> QED
    BY <1>4, <2>1, <2>2, <2>3
<1>6. TableIsNewest'
  <2>1. \A k \in Keys : table'[k] \in Nat
    <3>1. table' \in [Keys -> Versions]
      BY WriterTypes DEF TypeOK
    <3> QED
      BY <3>1, SettingsAssumption DEF Versions
  <2>2. ASSUME ~mixed', NEW k \in Keys, NEW n \in Nat, n <= table[k]
        PROVE  n <= table'[k]
    BY <1>2, <1>5, <2>1, <2>2, Numbers
  <2>3. UNCHANGED <<auth, rate, handler, rotation, reload>>
    BY <1>1 DEF live, loading
  <2>4. {"authentication", "rate_limit", "rotation"} = Keys
    BY DEF Keys
  <2> QED
    BY <1>2, <1>5, <2>2, <2>3, <2>4, Numbers DEF OrderInv, TableIsNewest
<1> QED
  BY <1>3, <1>6 DEF OrderInv

LEMMA LoadKeepsOrder ==
    ASSUME TypeOK, OrderInv, NEW r \in Reloads, NEW read \in Reads,
           Load(r, read)
    PROVE  OrderInv'
<1>1. /\ UNCHANGED <<table, writes, mixed, auth, rate, handler, rotation, used>>
      /\ broken' = (read # Keys)
  BY DEF Load, writing, live
<1>2. /\ ~broken' => reload'[r].settings = table
      /\ \A k \in Keys : reload'[r].settings[k] <= table[k]
      /\ \A s \in Reloads \ {r} : reload'[s].settings = reload[s].settings
  <2>1. /\ reload'[r].settings = Loaded(read)
        /\ \A s \in Reloads \ {r} : reload'[s].settings = reload[s].settings
    BY LoadTypes
  <2>2. \A k \in Keys : Loaded(read)[k] <= table[k]
    BY LoadedKeys, Numbers
  <2>3. ~broken' => Loaded(read) = table
    BY <1>1, LoadedKeys
  <2> QED
    BY <2>1, <2>2, <2>3
<1>3. TableIsNewest'
  BY <1>1, <1>2, Numbers DEF OrderInv, TableIsNewest
<1>4. ASSUME ~overlap', NEW s \in Reloads, Reloading(s)'
      PROVE  s = r
  <2>1. ~Reloading(s)
    BY <1>4 DEF Load, TypeOK
  <2> QED
    BY <1>4, <2>1, LoadTypes DEF Reloading
<1>5. reload'[r].pc = "auth"
  BY LoadTypes
<1>6. ReloadIsNewer'
  BY <1>1, <1>2, <1>4, <1>5, Numbers
     DEF OrderInv, TableIsNewest, ReloadIsNewer, Keys
<1> QED
  BY <1>3, <1>6 DEF OrderInv

LEMMA ReloadKeepsOrder ==
    ASSUME TypeOK, SelectorsInv, OrderInv, NEW r \in Reloads, ReloadSettings(r)
    PROVE  OrderInv'
<1> USE DEF OrderInv
<1>1. Reloading(r) /\ UNCHANGED <<table, writes, mixed, overlap, broken>>
  BY DEF ReloadSettings, ReloadAuth, ReloadRate, ReloadHandler, NewSelector,
         RefreshFails, AssignServer, AssignHandler, Reloading, At, writing
<1>2. ASSUME ~overlap, NEW s \in Reloads, Reloading(s)
      PROVE  s = r
  BY <1>1, <1>2 DEF SelectorsInv, LoneReload
<1>3. CASE RefreshFails(r)
  <2>1. /\ reload'[r] = NotReloading
        /\ \A s \in Reloads \ {r} : reload'[s] = reload[s]
        /\ UNCHANGED <<auth, rate, handler, rotation>>
    BY <1>3 DEF RefreshFails, TypeOK, live
  <2>2. \A k \in Keys : reload'[r].settings[k] = 0 /\ 0 <= table[k]
    BY <2>1, Numbers DEF NotReloading
  <2>3. TableIsNewest'
    BY <1>1, <2>1, <2>2 DEF TableIsNewest
  <2>4. ReloadIsNewer'
    BY <1>1, <1>2, <2>1 DEF ReloadIsNewer, Reloading, NotReloading
  <2> QED
    BY <2>3, <2>4
<1>4. ASSUME NEW pc \in ReloadPc, Continue(r, pc),
             NEW s \in Reloads
      PROVE  /\ reload'[s].settings = reload[s].settings
             /\ reload'[s].number = reload[s].number
             /\ ~overlap' /\ Reloading(s)' => s = r /\ reload'[s].pc = pc
  BY <1>1, <1>2, <1>4, ContinueTypes DEF Reloading
<1>5. /\ {"authentication", "rate_limit", "rotation"} = Keys
      /\ reload[r].number \in 0..MaxReloads
  BY ReloadRecord DEF Keys
<1> USE DEF ReloadPc, TableIsNewest, ReloadIsNewer
<1>6. CASE ReloadAuth(r)
  BY <1>1, <1>4, <1>5, <1>6, Numbers DEF ReloadAuth, At
<1>7. CASE ReloadRate(r)
  BY <1>1, <1>4, <1>5, <1>7, Numbers DEF ReloadRate, At
<1>8. CASE ReloadHandler(r)
  BY <1>1, <1>4, <1>5, <1>8, Numbers DEF ReloadHandler, At
<1>9. CASE NewSelector(r)
  <2>1. /\ At(r, "select") /\ Continue(r, "server")
        /\ UNCHANGED <<auth, rate, handler, used>>
    BY <1>9 DEF NewSelector
  <2>2. \A n \in 0..MaxReloads :
            rotation'[n] = IF n = reload[r].number
                           THEN reload[r].settings["rotation"] ELSE rotation[n]
    BY <1>5, <1>9 DEF NewSelector, TypeOK
  <2>3. TableIsNewest'
    BY <1>1, <1>4, <1>5, <2>1, <2>2, Numbers
  <2>4. ReloadIsNewer'
    BY <1>1, <1>4, <1>5, <2>1, <2>2, Numbers
  <2> QED
    BY <2>3, <2>4
<1>10. CASE AssignServer(r)
  BY <1>1, <1>4, <1>5, <1>10, Numbers DEF AssignServer, At
<1>11. CASE AssignHandler(r)
  BY <1>1, <1>4, <1>5, <1>11, Numbers DEF AssignHandler, HandedOver, At
<1> QED
  BY <1>3, <1>6, <1>7, <1>8, <1>9, <1>10, <1>11 DEF ReloadSettings

LEMMA RestartKeepsOrder ==
    ASSUME TypeOK, OrderInv, NEW read \in Reads, Restart(read)
    PROVE  OrderInv'
<1>1. /\ UNCHANGED <<table, writes>> /\ (mixed => mixed')
      /\ auth' = Loaded(read)["authentication"]
      /\ rate' = Loaded(read)["rate_limit"]
      /\ handler' = Loaded(read)["rotation"]
      /\ \A r \in Reloads : reload'[r] = NotReloading
  BY DEF Restart
<1>2. \A n \in 0..MaxReloads :
        rotation'[n] = rotation[n] \/ rotation'[n] = Loaded(read)["rotation"]
  BY DEF Restart, TypeOK
<1>3. /\ {"authentication", "rate_limit", "rotation"} = Keys
      /\ \A k \in Keys : Loaded(read)[k] <= table[k]
  BY LoadedKeys, Numbers DEF Keys
<1>4. TableIsNewest'
  BY <1>1, <1>2, <1>3, Numbers DEF OrderInv, TableIsNewest, NotReloading
<1>5. ReloadIsNewer'
  BY <1>1 DEF ReloadIsNewer, Reloading, NotReloading
<1> QED
  BY <1>4, <1>5 DEF OrderInv

LEMMA OrderStep ==
    TypeOK /\ WritesInv /\ SelectorsInv /\ OrderInv /\ [Next]_vars => OrderInv'
<1> SUFFICES ASSUME TypeOK, WritesInv, SelectorsInv, OrderInv, [Next]_vars
             PROVE  OrderInv'
  OBVIOUS
<1>1. CASE UNCHANGED <<writing, loading, auth, rate, handler, used, rotation>>
  BY <1>1 DEF OrderInv, TableIsNewest, ReloadIsNewer, Reloading, writing, loading
<1>2. CASE ReloadStep
  BY <1>2, LoadKeepsOrder, ReloadKeepsOrder DEF ReloadStep
<1> QED
  BY <1>1, <1>2, StepKinds, WriterKeepsOrder, RestartKeepsOrder,
     LimiterStepLeaves DEF RestartStep, vars, live

-----------------------------------------------------------------------------
(* The limiters, and the whole.                                            *)

LEMMA LimitersStep ==
    TypeOK /\ LimitersFollowSettings /\ [Next]_vars => LimitersFollowSettings'
<1> SUFFICES ASSUME TypeOK, LimitersFollowSettings, [Next]_vars
             PROVE  LimitersFollowSettings'
  OBVIOUS
<1> USE DEF LimitersFollowSettings, NoLimiters
<1>1. CASE UNCHANGED <<limiters, rate>>
  BY <1>1
<1>2. ASSUME NEW r \in Reloads,
             ReloadSettings(r) \/ \E read \in Reads : Load(r, read)
      PROVE  UNCHANGED <<limiters, rate>> \/ limiters' = NoLimiters
  BY <1>2 DEF Load, ReloadSettings, ReloadAuth, ReloadRate, Cleared,
              ReloadHandler, NewSelector, RefreshFails, AssignServer,
              AssignHandler, live
<1>3. ASSUME NEW c \in Clients, Request(c)
      PROVE  LimitersFollowSettings'
  BY <1>3 DEF Request, TypeOK
<1>4. CleanupLimiters \/ RestartStep => limiters' = NoLimiters
  BY DEF CleanupLimiters, RestartStep, Restart
<1> QED
  BY <1>1, <1>2, <1>3, <1>4, StepKinds, WriterStepLeaves
     DEF ReloadStep, LimiterStep, vars, live

LEMMA InvAlways == Spec => []SettingsInv
<1>1. Init => SettingsInv
  BY TypeInit, WritesInit, SelectorsInit, AppliesInit, OrderInit
     DEF SettingsInv, LimitersFollowSettings, Init, NoLimiters
<1>2. SettingsInv /\ [Next]_vars => SettingsInv'
  BY TypeStep, LimitersStep, WritesStep, SelectorsStep, AppliesStep, OrderStep
     DEF SettingsInv
<1> QED
  BY <1>1, <1>2, PTL DEF Spec

\* The types hold, whatever requests, reloads and restarts overlap.
THEOREM SettingsTypeCorrect == Spec => []TypeOK
BY InvAlways, PTL DEF SettingsInv

\* A client's limiter is never of older settings than the ones in force,
\* however requests, reloads and the cleanup interleave.
THEOREM LimitersAreCurrent == Spec => []LimitersFollowSettings
BY InvAlways, PTL DEF SettingsInv

\* Only overlapping reloads can leave requests on a selector that the ticker
\* does not refresh; a reload that fails half-way cannot.
THEOREM OneSelector == Spec => []SelectorsAgree
<1>1. SettingsInv => SelectorsAgree
  BY DEF SettingsInv, SelectorsInv, HandingOver, SelectorsAgree, Reloading, At
<1> QED
  BY <1>1, InvAlways, PTL

\* A reload that ran alone after the last write, and whose read was complete, has
\* applied the whole table, whatever earlier reads missed.
THEOREM LoneReloadApplies == Spec => []ReloadApplies
<1>1. SettingsInv => ReloadApplies
  BY DEF SettingsInv, AppliesInv, AloneIsLast, AppliedSoFar, Newest,
         ReloadApplies, LastAlone, Applied, At
<1> QED
  BY <1>1, InvAlways, PTL

\* A write that was acknowledged, and that none overlapped, is in the table
\* under every key.
THEOREM AcknowledgedWriteIsWhole == Spec => []AcknowledgedIsStored
<1>1. SettingsInv => AcknowledgedIsStored
  BY DEF SettingsInv, WritesInv, StoredSoFar, AcknowledgedIsStored, Storing
<1> QED
  BY <1>1, InvAlways, PTL

\* While neither writes nor reloads overlap, and unless the newest read missed a
\* key, no part of the server goes back to older settings, also over failing
\* reloads and restarts, and after reads that broke off before.
THEOREM SettingsGoForward == Spec => NeverGoesBack
<1> DEFINE Forward == ~mixed' /\ ~overlap' /\ ~broken' =>
                        /\ auth' >= auth /\ rate' >= rate /\ handler' >= handler
                        /\ rotation'[used'] >= rotation[used]
<1>1. SettingsInv /\ [Next]_vars => Forward
  <2> SUFFICES ASSUME SettingsInv, [Next]_vars, ~mixed', ~overlap', ~broken'
               PROVE  /\ auth' >= auth /\ rate' >= rate /\ handler' >= handler
                      /\ rotation'[used'] >= rotation[used]
    OBVIOUS
  <2> USE DEF SettingsInv
  <2>1. CASE UNCHANGED <<auth, rate, handler, rotation, used>>
    BY <2>1, Numbers
  <2>2. ASSUME NEW r \in Reloads, ReloadSettings(r), ~RefreshFails(r)
        PROVE  /\ auth' >= auth /\ rate' >= rate /\ handler' >= handler
               /\ rotation'[used'] >= rotation[used]
    <3>1. Reloading(r) /\ UNCHANGED <<mixed, overlap, broken>>
      BY <2>2 DEF ReloadSettings, ReloadAuth, ReloadRate, ReloadHandler,
                  NewSelector, AssignServer, AssignHandler, Reloading, At,
                  writing
    <3>2. /\ auth <= reload[r].settings["authentication"]
          /\ rate <= reload[r].settings["rate_limit"]
          /\ handler <= reload[r].settings["rotation"]
          /\ rotation[used] <= reload[r].settings["rotation"]
          /\ reload[r].pc = "used" =>
                rotation[reload[r].number] = reload[r].settings["rotation"]
      BY <3>1 DEF OrderInv, ReloadIsNewer
    <3>3. /\ reload[r].number \in 0..MaxReloads
          /\ {"authentication", "rate_limit", "rotation"} = Keys
      BY ReloadRecord DEF Keys
    <3>4. CASE NewSelector(r)
      BY <3>2, <3>3, <3>4, Numbers DEF NewSelector, TypeOK
    <3> QED
      BY <2>2, <3>2, <3>3, <3>4, Numbers, SMTT(20)
         DEF ReloadSettings, ReloadAuth, ReloadRate, ReloadHandler,
             AssignServer, AssignHandler, HandedOver, At
  <2>3. ASSUME NEW read \in Reads, Restart(read)
        PROVE  /\ auth' >= auth /\ rate' >= rate /\ handler' >= handler
               /\ rotation'[used'] >= rotation[used]
    <3> Loaded(read) = table
      BY <2>3, LoadedKeys DEF Restart
    <3>1. /\ auth' = table["authentication"] /\ rate' = table["rate_limit"]
          /\ handler' = table["rotation"] /\ ~mixed
          /\ rotation'[used'] = table["rotation"]
      BY <2>3, SettingsAssumption DEF Restart, TypeOK
    <3> QED
      BY <3>1, Numbers DEF OrderInv, TableIsNewest, Keys
  <2>4. ASSUME NEW r \in Reloads,
               RefreshFails(r) \/ \E read \in Reads : Load(r, read)
        PROVE  UNCHANGED live
    BY <2>4 DEF Load, RefreshFails
  <2> QED
    BY <2>1, <2>2, <2>3, <2>4, StepKinds, WriterStepLeaves, LimiterStepLeaves
       DEF ReloadStep, RestartStep, vars, live
<1>2. NeverGoesBack <=> [][Forward]_vars
  BY DEF NeverGoesBack
<1> HIDE DEF Forward
<1> QED
  BY <1>1, <1>2, InvAlways, PTL DEF Spec
=============================================================================
