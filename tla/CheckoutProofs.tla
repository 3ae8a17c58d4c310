--------------------------- MODULE CheckoutProofs ---------------------------
(***************************************************************************)
(* What every checkout is worth, for every set of proxies, domains,        *)
(* countries and concurrent callers and any number of changes by others.   *)
(***************************************************************************)
EXTENDS Checkout, TLAPS

-----------------------------------------------------------------------------
(* Types.                                                                  *)

LEMMA UnsetType == Unset \in Call /\ Unset.pc = "idle"
<1>1. (CHOOSE d \in Domains : TRUE) \in Domains
  BY CheckoutAssumption
<1> QED
  BY <1>1 DEF Unset, IdleCall, Call, Mode, Target, ProxyOrNil

LEMMA UnseenType == Unseen \in History
BY DEF Unseen, History, ProxyOrNil

LEMMA SeenNowType ==
    ASSUME TypeOK, NEW w \in Watched
    PROVE  SeenNow(w) \in History
BY CheckoutAssumption
DEF TypeOK, SeenNow, History, Healthy, Clear, Of, ProxyOrNil, Call

LEMMA ObserveType ==
    ASSUME TypeOK, Observe
    PROVE  seen' \in [Watched -> History]
BY UnseenType, SeenNowType DEF Observe, TypeOK

\* A call that is about to look at a proxy has one.
WellFormed(call) ==
    /\ call \in Call
    /\ call.pc \in {"trial_proxy", "sticky_proxy", "sticky_ban", "upsert"} =>
            call.proxy \in Proxies

\* What the helpers make of a call.
LEMMA CallsType ==
    ASSUME NEW call \in Call
    PROVE  /\ \A pc \in Busy \cup {"idle", "answered"} :
                [call EXCEPT !.pc = pc] \in Call
           /\ \A p \in ProxyOrNil, pc \in Busy :
                [call EXCEPT !.proxy = p, !.pool = {}, !.pc = pc] \in Call
           /\ \A pool \in SUBSET Proxies, pc \in Busy :
                [call EXCEPT !.pool = pool, !.pc = pc] \in Call
           /\ \A p \in ProxyOrNil, kind \in Answer :
                [call EXCEPT !.proxy = p, !.answer = kind, !.pc = "answered",
                             !.pool = {}, !.last = Nil] \in Call
BY DEF Call, ProxyOrNil

LEMMA BecomeType ==
    ASSUME TypeOK, NEW c \in Callers, NEW call, WellFormed(call),
           Become(c, call)
    PROVE  /\ co' \in [Callers -> Call]
           /\ \A k \in Callers : WellFormed(co'[k])
           /\ co'[c] = call
           /\ \A k \in Callers \ {c} : co'[k] = co[k]
BY DEF Become, TypeOK, WellFormed

\* The call of c alone moves, to a well-formed one.
Moved(c) == \E call : WellFormed(call) /\ Become(c, call)

LEMMA HelpersMove ==
    ASSUME TypeOK, NEW c \in Callers
    PROVE  /\ \A pc \in Busy : Goto(c, pc) /\ pc \in {"lookup", "pool"} => Moved(c)
           /\ Goto(c, "sticky_ban") /\ co[c].proxy \in Proxies => Moved(c)
           /\ \A p \in Proxies, pc \in Busy : Hold(c, p, pc) => Moved(c)
           /\ \A pc \in {"lookup", "pool"} : Hold(c, Nil, pc) => Moved(c)
           /\ \A pool \in SUBSET Proxies,
                pc \in {"any_pool", "filter", "last_read"} :
                    Gather(c, pool, pc) => Moved(c)
           /\ \A p \in ProxyOrNil, kind \in Answer : HandOut(c, p, kind) => Moved(c)
           /\ Done(c) => Moved(c)
<1>0. co[c] \in Call
  BY DEF TypeOK
<1>1. ASSUME NEW pc \in {"lookup", "pool"}, Goto(c, pc)
      PROVE  Moved(c)
  <2>0. pc \in Busy
    BY DEF Busy
  <2>1. WellFormed([co[c] EXCEPT !.pc = pc])
    BY <1>0, <2>0, CallsType DEF WellFormed, Call
  <2> QED
    BY <2>1, <1>1 DEF Moved, Goto
<1>2. ASSUME Goto(c, "sticky_ban"), co[c].proxy \in Proxies
      PROVE  Moved(c)
  <2>0. "sticky_ban" \in Busy
    BY DEF Busy
  <2>1. WellFormed([co[c] EXCEPT !.pc = "sticky_ban"])
    BY <1>0, <1>2, <2>0, CallsType DEF WellFormed, Call
  <2> QED
    BY <2>1, <1>2 DEF Moved, Goto
<1>3. ASSUME NEW p \in ProxyOrNil, NEW pc \in Busy, Hold(c, p, pc),
             p \in Proxies \/ pc \in {"lookup", "pool"}
      PROVE  Moved(c)
  <2>1. WellFormed([co[c] EXCEPT !.proxy = p, !.pool = {}, !.pc = pc])
    BY <1>0, <1>3, CallsType DEF WellFormed, Call
  <2> QED
    BY <2>1, <1>3 DEF Moved, Hold
<1>4. ASSUME NEW pool \in SUBSET Proxies,
             NEW pc \in {"any_pool", "filter", "last_read"},
             Gather(c, pool, pc)
      PROVE  Moved(c)
  <2>0. pc \in Busy
    BY DEF Busy
  <2>1. WellFormed([co[c] EXCEPT !.pool = pool, !.pc = pc])
    BY <1>0, <2>0, CallsType DEF WellFormed, Call
  <2> QED
    BY <2>1, <1>4 DEF Moved, Gather
<1>5. ASSUME NEW p \in ProxyOrNil, NEW kind \in Answer, HandOut(c, p, kind)
      PROVE  Moved(c)
  <2>1. WellFormed([co[c] EXCEPT !.proxy = p, !.answer = kind,
                        !.pc = "answered", !.pool = {}, !.last = Nil])
    BY <1>0, CallsType, ZenonT(40) DEF WellFormed, Call
  <2> QED
    BY <2>1, <1>5 DEF Moved, HandOut
<1>6. ASSUME Done(c)
      PROVE  Moved(c)
  BY <1>6, UnsetType DEF Moved, Done, WellFormed
<1> QED
  BY <1>1, <1>2, <1>3, <1>4, <1>5, <1>6 DEF ProxyOrNil, Busy

\* Every step of a caller leaves it with a well-formed call.
LEMMA StepMoves ==
    ASSUME TypeOK, NEW c \in Callers, Step(c)
    PROVE  Moved(c)
<1>0. co[c] \in Call
  BY DEF TypeOK
<1> USE HelpersMove, <1>0
<1>1. ASSUME NEW mode \in Mode, NEW d \in Domains, NEW t \in Target,
             NEW trial \in BOOLEAN, Start(c, mode, d, t, trial)
      PROVE  Moved(c)
  <2> DEFINE call == [IdleCall(d) EXCEPT
                        !.pc = IF trial THEN "claim" ELSE "lookup",
                        !.mode = mode, !.country = t]
  <2>0. (IF trial THEN "claim" ELSE "lookup") \in {"claim", "lookup"}
    OBVIOUS
  <2>1. call \in Call
    BY <2>0 DEF IdleCall, Call, Busy, ProxyOrNil, Answer
  <2>2. call.pc \in {"claim", "lookup"}
    BY <2>0 DEF IdleCall
  <2>3. WellFormed(call)
    BY <2>1, <2>2 DEF WellFormed
  <2> QED
    BY <2>3, <1>1 DEF Start, Moved
<1>2. CASE Claim(c)
  BY <1>2 DEF Claim, DueProxies, Selection, Busy
<1>3. CASE NoClaim(c)
  BY <1>3 DEF NoClaim, Selection, Busy
<1>4. CASE TrialProxy(c)
  BY <1>4 DEF TrialProxy, Selection, Busy, Answer, Healthy, ProxyOrNil
<1>5. CASE Lookup(c)
  <2>1. HasExisting(co[c].domain) => assignment[co[c].domain] \in Proxies
    BY DEF TypeOK, HasExisting, ProxyOrNil, Call
  <2> QED
    BY <1>5, <2>1 DEF Lookup, Busy
<1>6. CASE StickyProxy(c)
  BY <1>6 DEF StickyProxy, Busy, Reusable, Healthy
<1>7. CASE StickyBan(c)
  <2>1. co[c].proxy \in Proxies
    BY <1>7 DEF StickyBan, TypeOK, At
  <2> QED
    BY <1>7, <2>1 DEF StickyBan, Busy, Answer, ProxyOrNil
<1>8. CASE Pool(c)
  BY <1>8 DEF Pool, Scan, EligiblePool, Healthy
<1>9. CASE AnyPool(c)
  BY <1>9 DEF AnyPool, Scan, EligiblePool, Healthy
<1>10. CASE FilterBanned(c)
  <2>1. co[c].pool \in SUBSET Proxies
    BY <1>0 DEF Call
  <2> QED
    BY <1>10, <2>1 DEF FilterBanned, Answer, Busy, ProxyOrNil
<1>11. CASE Upsert(c)
  BY <1>11, <1>0 DEF Upsert, Answer, Call
<1>12. CASE LastRead(c)
  <2> DEFINE call == [co[c] EXCEPT !.last = lastPicked[co[c].country],
                                   !.pc = "last_store"]
  <2>1. lastPicked[co[c].country] \in ProxyOrNil
    BY DEF TypeOK, Call
  <2>2. WellFormed(call)
    BY <2>1 DEF WellFormed, Call, Busy
  <2> QED
    BY <2>2, <1>12 DEF LastRead, Moved
<1>13. CASE LastStore(c)
  <2>1. co[c].pool \in SUBSET Proxies
    BY <1>0 DEF Call
  <2> QED
    BY <1>13, <2>1 DEF LastStore, Candidates, Answer, ProxyOrNil
<1>14. CASE Abort(c) \/ Leave(c)
  BY <1>14 DEF Abort, Leave
<1> QED
  BY <1>1, <1>2, <1>3, <1>4, <1>5, <1>6, <1>7, <1>8, <1>9, <1>10, <1>11,
     <1>12, <1>13, <1>14 DEF Step

BanType == [Domains -> [Proxies -> {"clear", "banned", "due"}]]

LEMMA BanWriteType ==
    ASSUME ban \in BanType, NEW d \in Domains, NEW p \in Proxies,
           NEW b \in {"clear", "banned", "due"}
    PROVE  [ban EXCEPT ![d][p] = b] \in BanType
<1>1. [ban[d] EXCEPT ![p] = b] \in [Proxies -> {"clear", "banned", "due"}]
  BY DEF BanType
<1>2. [ban EXCEPT ![d][p] = b] = [ban EXCEPT ![d] = [ban[d] EXCEPT ![p] = b]]
  OBVIOUS
<1> QED
  BY <1>1, <1>2 DEF BanType

\* What a step of a caller does to the rest of the state.
LEMMA StepShared ==
    ASSUME TypeOK, NEW c \in Callers, Step(c)
    PROVE  /\ UNCHANGED <<status, countryOf, changes>>
           /\ ban' \in BanType
           /\ assignment' \in [Domains -> ProxyOrNil]
           /\ lastPicked' \in [Target -> ProxyOrNil]
<1>0. co[c] \in Call
  BY DEF TypeOK
<1>1. CASE Claim(c)
  <2>1. PICK p \in DueProxies(co[c].domain) :
            ban' = [ban EXCEPT ![co[c].domain][p] = "banned"]
    BY <1>1 DEF Claim
  <2>2. ban \in BanType /\ co[c].domain \in Domains /\ p \in Proxies
    BY <1>0 DEF TypeOK, BanType, Call, DueProxies
  <2>3. ban' \in BanType
    BY <2>1, <2>2, BanWriteType
  <2> QED
    BY <1>1, <2>3 DEF Claim, TypeOK
<1>2. CASE Upsert(c)
  BY <1>2, <1>0 DEF Upsert, TypeOK, BanType, Call
<1>3. CASE LastStore(c)
  <2>1. Candidates(co[c].pool, co[c].last) \subseteq Proxies
    BY <1>0 DEF Candidates, Call
  <2> QED
    BY <1>3, <2>1 DEF LastStore, TypeOK, BanType, ProxyOrNil
<1>4. CASE UNCHANGED <<status, countryOf, ban, assignment, lastPicked, changes>>
  BY <1>4 DEF TypeOK, BanType
<1> QED
  BY <1>1, <1>2, <1>3, <1>4
  DEF Step, Start, NoClaim, TrialProxy, Lookup, StickyProxy, StickyBan, Pool,
      AnyPool, FilterBanned, LastRead, Abort, Leave

LEMMA EnvironmentType ==
    ASSUME TypeOK, Environment
    PROVE  /\ status' \in [Proxies -> {"healthy", "failed", "deleted"}]
           /\ countryOf' \in [Proxies -> Target]
           /\ ban' \in BanType
           /\ assignment' \in [Domains -> ProxyOrNil]
           /\ lastPicked' \in [Target -> ProxyOrNil]
           /\ changes' \in 0..MaxChanges
           /\ co' \in [Callers -> Call]
           /\ \A k \in Callers : co'[k] = co[k] \/ co'[k] = Unset
<1> USE CheckoutAssumption DEF TypeOK
<1>0. Environment => changes' \in 0..MaxChanges
  BY DEF Environment, SetStatus, SetCountry, Delete, SetBan, Release, Restart, Change
<1>1. ASSUME NEW p \in Proxies, SetStatus(p)
      PROVE  /\ status' \in [Proxies -> {"healthy", "failed", "deleted"}]
             /\ UNCHANGED <<countryOf, ban, assignment, lastPicked, co>>
  BY <1>1 DEF SetStatus
<1>6. ASSUME NEW p \in Proxies, SetCountry(p)
      PROVE  /\ countryOf' \in [Proxies -> Target]
             /\ UNCHANGED <<status, ban, assignment, lastPicked, co>>
  BY <1>6 DEF SetCountry
<1>2. ASSUME NEW p \in Proxies, Delete(p)
      PROVE  /\ status' \in [Proxies -> {"healthy", "failed", "deleted"}]
             /\ ban' \in BanType
             /\ assignment' \in [Domains -> ProxyOrNil]
             /\ UNCHANGED <<countryOf, lastPicked, co>>
  <2>1. CASE IsMongo
    BY <1>2, <2>1 DEF Delete, BanType
  <2>2. CASE ~IsMongo
    <3>1. \A d \in Domains : [ban[d] EXCEPT ![p] = "clear"]
                                \in [Proxies -> {"clear", "banned", "due"}]
      OBVIOUS
    <3>3. ban' = [d \in Domains |-> [ban[d] EXCEPT ![p] = "clear"]]
      BY <1>2, <2>2 DEF Delete
    <3>2. ban' \in BanType
      BY <3>1, <3>3, Zenon DEF BanType
    <3> QED
      BY <1>2, <2>2, <3>2 DEF Delete, ProxyOrNil
  <2> QED
    BY <2>1, <2>2
<1>3. ASSUME NEW d \in Domains, NEW p \in Proxies, SetBan(d, p)
      PROVE  /\ ban' \in BanType
             /\ UNCHANGED <<status, countryOf, assignment, lastPicked, co>>
  <2>1. ban \in BanType
    BY DEF BanType
  <2>2. PICK b \in {"clear", "banned", "due"} : ban' = [ban EXCEPT ![d][p] = b]
    BY <1>3 DEF SetBan
  <2>3. ban' \in BanType
    BY <2>1, <2>2, BanWriteType
  <2> QED
    BY <1>3, <2>3 DEF SetBan
<1>4. ASSUME NEW d \in Domains, Release(d)
      PROVE  /\ assignment' \in [Domains -> ProxyOrNil]
             /\ UNCHANGED <<status, countryOf, ban, lastPicked, co>>
  BY <1>4 DEF Release, ProxyOrNil
<1>5. ASSUME Restart
      PROVE  /\ lastPicked' \in [Target -> ProxyOrNil]
             /\ co' = [k \in Callers |-> Unset]
             /\ UNCHANGED <<status, countryOf, ban, assignment>>
  BY <1>5 DEF Restart, ProxyOrNil
<1> QED
  BY <1>0, <1>1, <1>2, <1>3, <1>4, <1>5, <1>6, UnsetType DEF Environment, BanType

LEMMA NextType == TypeOK /\ [Next]_vars => TypeOK'
<1> SUFFICES ASSUME TypeOK, Next
             PROVE  TypeOK'
  BY DEF vars, TypeOK, History, Call
<1>0. seen' \in [Watched -> History]
  BY ObserveType DEF Next
<1>1. ASSUME NEW c \in Callers, Step(c)
      PROVE  TypeOK'
  <2>1. PICK call : WellFormed(call) /\ Become(c, call)
    BY <1>1, StepMoves DEF Moved
  <2>2. co' \in [Callers -> Call] /\ \A k \in Callers : WellFormed(co'[k])
    BY <2>1, BecomeType
  <2> QED
    BY <1>0, <1>1, <2>2, StepShared DEF TypeOK, BanType, WellFormed
<1>2. CASE Environment
  <2>1. \A k \in Callers : WellFormed(co'[k])
    BY <1>2, EnvironmentType, UnsetType DEF WellFormed, TypeOK
  <2> QED
    BY <1>0, <1>2, <2>1, EnvironmentType DEF TypeOK, BanType, WellFormed
<1> QED
  BY <1>1, <1>2 DEF Next

\* The assignments, bans, statuses and calls keep their types under every
\* interleaving, and no call looks at a proxy it has not got.
THEOREM CheckoutTypeCorrect == Spec => []TypeOK
<1>1. Init => TypeOK
  BY UnsetType, UnseenType, CheckoutAssumption
  DEF Init, TypeOK, ProxyOrNil, Target, WellFormed
<1> QED
  BY <1>1, NextType, PTL DEF Spec

-----------------------------------------------------------------------------
(* What a call may hand out. The inductive invariant says of each call, at *)
(* each of its database calls, what it has already made sure of: the       *)
(* promises hold of the answer because each read only narrows the choice   *)
(* while the history h of the call only grows.                             *)

\* The proxies a call still holds have been seen healthy, and after the ban
\* filter clear as well.
SawEligible(call, h) ==
    /\ call.pc = "sticky_ban" => call.proxy \in h.healthy
    /\ call.pc = "filter" => call.pool \subseteq h.healthy
    /\ call.pc = "upsert" => call.proxy \in h.healthy \cap h.clear
    /\ call.pc \in {"last_read", "last_store"} =>
            call.pool \subseteq h.healthy \cap h.clear
    /\ call.pc = "answered" /\ call.answer \in {"sticky", "fresh"} =>
            call.proxy \in h.healthy \cap h.clear
    /\ call.pc = "answered" /\ call.answer = "trial" => call.proxy \in h.healthy
    /\ call.pc = "answered" => call.answer \in Answer

\* The pool misses no proxy that stays eligible, unless it is the country's.
SawAll(call, h) ==
    /\ call.pc = "any_pool" => call.country # NoCountry
    /\ call.pc = "filter" =>
            \/ h.always \subseteq call.pool
            \/ /\ call.country # NoCountry
               /\ call.pool # {} /\ call.pool \subseteq h.local
               /\ h.always \cap h.native \subseteq call.pool
    /\ call.pc = "answered" /\ call.answer = "refused" =>
            \/ h.always = {}
            \/ /\ call.country # NoCountry
               /\ h.local # {}
               /\ h.always \cap h.native = {}

\* The pool leaves the country only once the country was found empty.
SawCountry(call, h) ==
    /\ call.pc = "any_pool" => h.empty
    /\ call.pc \in {"filter", "last_read", "last_store"} =>
            h.empty \/ call.country = NoCountry \/ call.pool \subseteq h.local
    /\ call.pc = "upsert" \/ (call.pc = "answered" /\ call.answer = "fresh") =>
            h.empty \/ call.country = NoCountry \/ call.proxy \in h.local

\* A call that selects afresh has met no lasting assignment to a proxy that
\* stays eligible.
SawAssignment(call, h) ==
    /\ call.pc \in {"sticky_proxy", "sticky_ban"} => h.held \subseteq {call.proxy}
    /\ call.pc \in {"last_read", "last_store"} => call.mode = "rotate"
    /\ call.pc \in {"pool", "any_pool", "filter", "upsert"} /\ call.mode # "rotate" =>
            h.held \cap h.always = {}
    /\ call.pc = "answered" /\ call.mode # "rotate"
       /\ call.answer \in {"fresh", "refused"} => h.held \cap h.always = {}
    /\ call.pc = "answered" /\ call.answer = "sticky" => h.held \subseteq {call.proxy}

Saw(call, h) == /\ SawEligible(call, h) /\ SawAll(call, h)
                /\ SawCountry(call, h) /\ SawAssignment(call, h)

CallsInv == \A w \in Watched : Saw(co[w], seen[w])

\* How one step changes what a busy call has seen.
LEMMA SeenGrows ==
    ASSUME TypeOK, NEW w \in Watched, NEW h, h = SeenNow(w)
    PROVE  /\ seen[w].healthy \cup Healthy \subseteq h.healthy
           /\ seen[w].local \cup (Healthy \cap Of(co[w].country)) \subseteq h.local
           /\ seen[w].clear \cup Clear(co[w].domain) \subseteq h.clear
           /\ h.native \subseteq seen[w].native \cap Of(co[w].country)
           /\ h.always \subseteq seen[w].always \cap Healthy \cap Clear(co[w].domain)
           /\ seen[w].empty => h.empty
           /\ co[w].country # NoCountry /\ Healthy \cap Of(co[w].country) = {} => h.empty
           /\ h.held \subseteq seen[w].held \cap {assignment[co[w].domain]}
           /\ h.always \subseteq Proxies
BY DEF SeenNow, TypeOK, History

LEMMA SawGrows ==
    ASSUME TypeOK, NEW w \in Watched, co[w].pc \in Busy, Saw(co[w], seen[w])
    PROVE  Saw(co[w], SeenNow(w))
<1> DEFINE h == SeenNow(w)
<1> HIDE DEF h
<1>1. /\ seen[w].healthy \subseteq h.healthy
      /\ seen[w].local \subseteq h.local
      /\ h.native \subseteq seen[w].native
      /\ seen[w].clear \subseteq h.clear
      /\ h.always \subseteq seen[w].always
      /\ seen[w].empty => h.empty
      /\ h.held \subseteq seen[w].held
  BY SeenGrows DEF h
<1>2. co[w].pc # "answered"
  BY DEF Busy
<1>3. SawEligible(co[w], h)
  BY <1>1, <1>2 DEF Saw, SawEligible
<1>4. SawAll(co[w], h)
  BY <1>1, <1>2 DEF Saw, SawAll
<1>5. SawCountry(co[w], h)
  BY <1>1, <1>2 DEF Saw, SawCountry
<1>6. SawAssignment(co[w], h)
  BY <1>1, <1>2 DEF Saw, SawAssignment
<1> QED
  BY <1>3, <1>4, <1>5, <1>6 DEF Saw, h

\* A step that leaves a call alone leaves its promises alone.
LEMMA OthersKeep ==
    ASSUME TypeOK, Observe, NEW w \in Watched, Saw(co[w], seen[w]),
           co'[w] = co[w] \/ co'[w] = Unset
    PROVE  Saw(co'[w], seen'[w])
<1>1. CASE co'[w].pc = "idle"
  BY <1>1 DEF Saw, SawEligible, SawAll, SawCountry, SawAssignment
<1>2. CASE co'[w].pc # "idle" /\ co[w].pc \in Busy
  <2>1. co'[w] = co[w] /\ seen'[w] = SeenNow(w)
    BY <1>2, UnsetType DEF Observe
  <2> QED
    BY <1>2, <2>1, SawGrows
<1>3. CASE co'[w].pc # "idle" /\ co[w].pc \notin Busy
  <2>1. co'[w] = co[w] /\ seen'[w] = seen[w]
    BY <1>3, UnsetType DEF Observe
  <2> QED
    BY <2>1
<1> QED
  BY <1>1, <1>2, <1>3

\* What the history h of a call knows more than kept, after one more step.
Grown(call, kept, h) ==
    /\ kept.healthy \cup Healthy \subseteq h.healthy
    /\ kept.local \cup (Healthy \cap Of(call.country)) \subseteq h.local
    /\ kept.clear \cup Clear(call.domain) \subseteq h.clear
    /\ h.native \subseteq kept.native \cap Of(call.country)
    /\ h.always \subseteq kept.always \cap Healthy \cap Clear(call.domain)
    /\ kept.empty => h.empty
    /\ call.country # NoCountry /\ Healthy \cap Of(call.country) = {} => h.empty
    /\ h.held \subseteq kept.held \cap {assignment[call.domain]}
    /\ h.always \subseteq Proxies

\* Each database call of a checkout establishes what the next one relies on;
\* call is the call after the step, h its history.
LEMMA OwnStepKeeps ==
    ASSUME TypeOK, Observe, ~SilentErrors, NEW w \in Watched,
           Saw(co[w], seen[w]), Step(w),
           NEW old, old = co[w], NEW kept, kept = seen[w],
           NEW call, call = co'[w], NEW h, h = seen'[w]
    PROVE  Saw(call, h)
<1>0. /\ w \in Callers /\ old \in Call /\ Saw(old, kept)
      /\ \A r : Become(w, r) => call = r
  BY CheckoutAssumption DEF TypeOK, Become
<1>1. CASE call.pc \in {"idle", "claim", "lookup", "trial_proxy"}
  BY <1>1 DEF Saw, SawEligible, SawAll, SawCountry, SawAssignment
<1>2. ASSUME call.pc # "idle", old.pc \in Busy
      PROVE  Grown(old, kept, h)
  <2>1. h = SeenNow(w)
    BY <1>2 DEF Observe
  <2> QED
    BY <2>1, SeenGrows DEF Grown
<1>3. CASE \E mode \in Mode, e \in Domains, t \in Target, trial \in BOOLEAN :
            Start(w, mode, e, t, trial)
  <2>1. call.pc \in {"claim", "lookup"}
    BY <1>3, <1>0 DEF Start, IdleCall
  <2> QED
    BY <1>1, <2>1
<1>4. CASE Hold(w, Nil, Selection(old.mode)) \/ Goto(w, Selection(old.mode))
  <2>1. /\ call.pc \in {"lookup", "pool"}
        /\ call.pc = "pool" => call.mode = "rotate"
    BY <1>4, <1>0 DEF Hold, Goto, Selection, Call
  <2> QED
    BY <2>1 DEF Saw, SawEligible, SawAll, SawCountry, SawAssignment
<1>5. CASE Claim(w) \/ NoClaim(w)
  <2>1. ASSUME NEW p, Hold(w, p, "trial_proxy")
        PROVE  call.pc = "trial_proxy"
    BY <2>1, <1>0 DEF Hold, Call
  <2> QED
    BY <1>1, <1>4, <1>5, <2>1 DEF Claim, NoClaim
<1>6. CASE TrialProxy(w)
  <2>1. old.pc = "trial_proxy"
    BY <1>6 DEF TrialProxy, At
  <2>2. CASE old.proxy \in Healthy /\ HandOut(w, old.proxy, "trial")
    <3>1. /\ call.pc = "answered" /\ call.answer = "trial"
          /\ call.proxy = old.proxy
      BY <2>2, <1>0 DEF HandOut, Call
    <3>2. Grown(old, kept, h)
      BY <1>2, <2>1, <3>1 DEF Busy
    <3> QED
      BY <1>0, <2>1, <2>2, <3>1, <3>2
      DEF Grown, Answer, Saw, SawEligible, SawAll, SawCountry, SawAssignment
  <2> QED
    BY <1>4, <1>6, <2>2 DEF TrialProxy
<1>7. CASE Lookup(w)
  <2>1. old.pc = "lookup"
    BY <1>7 DEF Lookup, At
  <2>2. CASE Hold(w, assignment[old.domain], "sticky_proxy")
    <3>1. call.pc = "sticky_proxy" /\ call.proxy = assignment[old.domain]
      BY <2>2, <1>0 DEF Hold, Call
    <3>2. Grown(old, kept, h)
      BY <1>2, <2>1, <3>1 DEF Busy
    <3> QED
      BY <1>0, <2>1, <2>2, <3>1, <3>2
      DEF Grown, Answer, Saw, SawEligible, SawAll, SawCountry, SawAssignment
  <2>3. CASE ~HasExisting(old.domain) /\ Goto(w, "pool")
    <3>1. call.pc = "pool" /\ assignment[old.domain] = Nil /\ Nil \notin Proxies
      BY <2>3, <1>0, CheckoutAssumption DEF Goto, HasExisting, Call
    <3>2. Grown(old, kept, h)
      BY <1>2, <2>1, <3>1 DEF Busy
    <3> QED
      BY <1>0, <2>1, <2>3, <3>1, <3>2
      DEF Grown, Answer, Saw, SawEligible, SawAll, SawCountry, SawAssignment
  <2> QED
    BY <1>7, <2>2, <2>3 DEF Lookup
<1>8. CASE StickyProxy(w)
  <2>1. old.pc = "sticky_proxy"
    BY <1>8 DEF StickyProxy, At
  <2>2. CASE Reusable(old.proxy, old.country) /\ Goto(w, "sticky_ban")
    <3>1. call.pc = "sticky_ban" /\ call.proxy = old.proxy /\ old.proxy \in Healthy
      BY <2>2, <1>0 DEF Goto, Reusable, Call
    <3>2. Grown(old, kept, h)
      BY <1>2, <2>1, <3>1 DEF Busy
    <3> QED
      BY <1>0, <2>1, <2>2, <3>1, <3>2
      DEF Grown, Answer, Saw, SawEligible, SawAll, SawCountry, SawAssignment
  <2>3. CASE ~Reusable(old.proxy, old.country) /\ Hold(w, Nil, "pool")
    <3>1. call.pc = "pool" /\ old.proxy \notin Healthy
      BY <2>3, <1>0 DEF Hold, Reusable, Call
    <3>2. Grown(old, kept, h)
      BY <1>2, <2>1, <3>1 DEF Busy
    <3> QED
      BY <1>0, <2>1, <2>3, <3>1, <3>2
      DEF Grown, Answer, Saw, SawEligible, SawAll, SawCountry, SawAssignment
  <2> QED
    BY <1>8, <2>2, <2>3 DEF StickyProxy
<1>9. CASE StickyBan(w)
  <2>1. old.pc = "sticky_ban"
    BY <1>9 DEF StickyBan, At
  <2>2. CASE old.proxy \in Clear(old.domain) /\ HandOut(w, old.proxy, "sticky")
    <3>1. /\ call.pc = "answered" /\ call.answer = "sticky"
          /\ call.proxy = old.proxy
      BY <2>2, <1>0 DEF HandOut, Call
    <3>2. Grown(old, kept, h)
      BY <1>2, <2>1, <3>1 DEF Busy
    <3> QED
      BY <1>0, <2>1, <2>2, <3>1, <3>2
      DEF Grown, Answer, Saw, SawEligible, SawAll, SawCountry, SawAssignment
  <2>3. CASE old.proxy \notin Clear(old.domain) /\ Hold(w, Nil, "pool")
    <3>1. call.pc = "pool"
      BY <2>3, <1>0 DEF Hold, Call
    <3>2. Grown(old, kept, h)
      BY <1>2, <2>1, <3>1 DEF Busy
    <3> QED
      BY <1>0, <2>1, <2>3, <3>1, <3>2
      DEF Grown, Answer, Saw, SawEligible, SawAll, SawCountry, SawAssignment
  <2> QED
    BY <1>9, <2>2, <2>3 DEF StickyBan
<1>10. CASE Pool(w)
  <2>1. old.pc = "pool"
    BY <1>10 DEF Pool, At
  <2>2. CASE FallsBack(EligiblePool(old.country), old.country) /\ Gather(w, {}, "any_pool")
    <3>1. /\ call.pc = "any_pool" /\ call.pool = {} /\ call.country = old.country
          /\ call.mode = old.mode
      BY <2>2, <1>0 DEF Gather, Call
    <3>2. Grown(old, kept, h)
      BY <1>2, <2>1, <3>1 DEF Busy
    <3> QED
      BY <1>0, <2>1, <2>2, <3>1, <3>2
      DEF Grown, Answer, Saw, SawEligible, SawAll, SawCountry, SawAssignment, FallsBack, EligiblePool
  <2>3. CASE /\ ~FallsBack(EligiblePool(old.country), old.country)
             /\ Gather(w, EligiblePool(old.country), "filter")
    <3>1. /\ call.pc = "filter" /\ call.pool = EligiblePool(old.country)
          /\ call.country = old.country /\ call.mode = old.mode
      BY <2>3, <1>0 DEF Gather, Call
    <3>2. Grown(old, kept, h)
      BY <1>2, <2>1, <3>1 DEF Busy
    <3> QED
      BY <1>0, <2>1, <2>3, <3>1, <3>2
      DEF Grown, Answer, Saw, SawEligible, SawAll, SawCountry, SawAssignment, FallsBack, EligiblePool
  <2> QED
    BY <1>10, <2>2, <2>3 DEF Pool, Scan, FallsBack
<1>11. CASE AnyPool(w)
  <2>1. old.pc = "any_pool"
    BY <1>11 DEF AnyPool, At
  <2>2. CASE Gather(w, Healthy, "filter")
    <3>1. /\ call.pc = "filter" /\ call.pool = Healthy
          /\ call.country = old.country /\ call.mode = old.mode
      BY <2>2, <1>0 DEF Gather, Call
    <3>2. Grown(old, kept, h)
      BY <1>2, <2>1, <3>1 DEF Busy
    <3> QED
      BY <1>0, <2>1, <2>2, <3>1, <3>2
      DEF Grown, Answer, Saw, SawEligible, SawAll, SawCountry, SawAssignment
  <2> QED
    BY <1>11, <2>2 DEF AnyPool, Scan, EligiblePool
<1>12. CASE FilterBanned(w)
  <2> DEFINE left == old.pool \ BannedProxyIDsForDomain(old.domain)
  <2>1. /\ old.pc = "filter" /\ left \subseteq old.pool
        /\ left = old.pool \cap Clear(old.domain)
    BY <1>0, <1>12 DEF FilterBanned, At, BannedProxyIDsForDomain, Clear, Call
  <2> HIDE DEF left
  <2>2. CASE left = {} /\ HandOut(w, Nil, "refused")
    <3>1. /\ call.pc = "answered" /\ call.answer = "refused"
          /\ call.country = old.country /\ call.mode = old.mode
      BY <2>2, <1>0 DEF HandOut, Call
    <3>2. Grown(old, kept, h)
      BY <1>2, <2>1, <3>1 DEF Busy
    <3> QED
      BY <1>0, <2>1, <2>2, <3>1, <3>2
      DEF Grown, Answer, Saw, SawEligible, SawAll, SawCountry, SawAssignment
  <2>3. CASE old.mode = "rotate" /\ Gather(w, left, "last_read")
    <3>1. /\ call.pc = "last_read" /\ call.pool = left
          /\ call.country = old.country /\ call.mode = "rotate"
      BY <2>3, <1>0 DEF Gather, Call
    <3>2. Grown(old, kept, h)
      BY <1>2, <2>1, <3>1 DEF Busy
    <3> QED
      BY <1>0, <2>1, <2>3, <3>1, <3>2
      DEF Grown, Answer, Saw, SawEligible, SawAll, SawCountry, SawAssignment
  <2>4. ASSUME NEW p \in left, Hold(w, p, "upsert")
        PROVE  Saw(call, h)
    <3>1. /\ call.pc = "upsert" /\ call.proxy = p
          /\ call.country = old.country /\ call.mode = old.mode
      BY <2>4, <1>0 DEF Hold, Call
    <3>2. Grown(old, kept, h)
      BY <1>2, <2>1, <3>1 DEF Busy
    <3> QED
      BY <1>0, <2>1, <2>4, <3>1, <3>2
      DEF Grown, Answer, Saw, SawEligible, SawAll, SawCountry, SawAssignment
  <2> QED
    BY <1>12, <2>2, <2>3, <2>4 DEF FilterBanned, Scan, left
<1>13. CASE Upsert(w)
  <2>1. old.pc = "upsert"
    BY <1>13 DEF Upsert, At
  <2>2. CASE HandOut(w, old.proxy, "fresh")
    <3>1. /\ call.pc = "answered" /\ call.answer = "fresh"
          /\ call.proxy = old.proxy
          /\ call.country = old.country /\ call.mode = old.mode
      BY <2>2, <1>0 DEF HandOut, Call
    <3>2. Grown(old, kept, h)
      BY <1>2, <2>1, <3>1 DEF Busy
    <3> QED
      BY <1>0, <2>1, <2>2, <3>1, <3>2
      DEF Grown, Answer, Saw, SawEligible, SawAll, SawCountry, SawAssignment
  <2>3. Done(w) => call.pc = "idle"
    BY <1>0, UnsetType DEF Done
  <2> QED
    BY <1>1, <1>13, <2>2, <2>3 DEF Upsert
<1>14. CASE LastRead(w)
  <2>1. old.pc = "last_read"
    BY <1>14 DEF LastRead, At
  <2>2. /\ call.pc = "last_store" /\ call.pool = old.pool
        /\ call.country = old.country /\ call.mode = old.mode
    BY <1>0, <1>14 DEF LastRead, Call
  <2>3. Grown(old, kept, h)
    BY <1>2, <2>1, <2>2 DEF Busy
  <2> QED
    BY <1>0, <2>1, <2>2, <2>3
    DEF Grown, Answer, Saw, SawEligible, SawAll, SawCountry, SawAssignment
<1>15. CASE LastStore(w)
  <2>1. old.pc = "last_store"
    BY <1>15 DEF LastStore, At
  <2>2. PICK p \in old.pool : HandOut(w, p, "fresh")
    BY <1>15 DEF LastStore, Candidates
  <2>3. /\ call.pc = "answered" /\ call.answer = "fresh" /\ call.proxy = p
        /\ call.country = old.country /\ call.mode = old.mode
    BY <1>0, <2>2 DEF HandOut, Call
  <2>4. Grown(old, kept, h)
    BY <1>2, <2>1, <2>3 DEF Busy
  <2> QED
    BY <1>0, <2>1, <2>2, <2>3, <2>4
    DEF Grown, Answer, Saw, SawEligible, SawAll, SawCountry, SawAssignment
<1>16. CASE Abort(w) \/ Leave(w)
  <2>1. call.pc = "idle"
    BY <1>0, <1>16, UnsetType DEF Abort, Leave, Done
  <2> QED
    BY <1>1, <2>1
<1> QED
  BY <1>3, <1>5, <1>6, <1>7, <1>8, <1>9, <1>10, <1>11, <1>12, <1>13, <1>14,
     <1>15, <1>16 DEF Step

LEMMA CallsNext == ~SilentErrors /\ TypeOK /\ CallsInv /\ [Next]_vars => CallsInv'
<1> SUFFICES ASSUME ~SilentErrors, TypeOK, CallsInv, [Next]_vars
             PROVE  CallsInv'
  OBVIOUS
<1>1. ASSUME NEW c \in Callers, Step(c), Observe
      PROVE  CallsInv'
  <2>1. ASSUME NEW w \in Watched, w # c
        PROVE  co'[w] = co[w]
    <3>1. w \in Callers
      BY CheckoutAssumption
    <3> QED
      BY <1>1, <2>1, <3>1, StepMoves, BecomeType DEF Moved
  <2>2. ASSUME NEW w \in Watched
        PROVE  Saw(co'[w], seen'[w])
    <3>1. Saw(co[w], seen[w])
      BY DEF CallsInv
    <3> QED
      BY <1>1, <2>1, <3>1, OthersKeep, OwnStepKeeps
  <2> QED
    BY <2>2 DEF CallsInv, Saw, SawEligible, SawAll, SawCountry, SawAssignment
<1>2. CASE Environment /\ Observe
  <2>1. ASSUME NEW w \in Watched
        PROVE  Saw(co'[w], seen'[w])
    <3>1. w \in Callers /\ Saw(co[w], seen[w])
      BY CheckoutAssumption DEF CallsInv
    <3> QED
      BY <1>2, <3>1, EnvironmentType, OthersKeep
  <2> QED
    BY <2>1 DEF CallsInv, Saw, SawEligible, SawAll, SawCountry, SawAssignment
<1>3. CASE UNCHANGED vars
  BY <1>3 DEF vars, CallsInv, Saw, SawEligible, SawAll, SawCountry, SawAssignment
<1> QED
  BY <1>1, <1>2, <1>3 DEF Next

LEMMA CallsInvariant == ~SilentErrors => (Spec => [](TypeOK /\ CallsInv))
<1> SUFFICES ASSUME ~SilentErrors PROVE Spec => [](TypeOK /\ CallsInv)
  OBVIOUS
<1>1. Init => CallsInv
  BY UnsetType, CheckoutAssumption
  DEF Init, CallsInv, Saw, SawEligible, SawAll, SawCountry, SawAssignment
<1>2. TypeOK /\ CallsInv /\ [Next]_vars => CallsInv'
  BY CallsNext
<1> QED
  BY <1>1, <1>2, CheckoutTypeCorrect, PTL DEF Spec

\* Unless an error goes unreported, no checkout of any number of concurrent
\* ones hands out a proxy that was failed, or (but for a trial) banned for the
\* scope, during the whole checkout.
THEOREM EligibleHandedOut == ~SilentErrors => (Spec => []HandedOutWasEligible)
<1>1. TypeOK /\ CallsInv => HandedOutWasEligible
  BY DEF CallsInv, Saw, SawEligible, HandedOutWasEligible, NoBannedHandedOut,
         HandedOut, At
<1> QED
  BY <1>1, CallsInvariant, PTL

\* ... "no eligible proxy" is only said when no proxy was eligible throughout,
\* or the target country's healthy proxies were all banned.
THEOREM RefusalIsTrue == ~SilentErrors => (Spec => []RefusedOnlyWithoutEligible)
<1>1. TypeOK /\ CallsInv => RefusedOnlyWithoutEligible
  BY DEF CallsInv, Saw, SawAll, RefusedOnlyWithoutEligible, HandedOut, At
<1> QED
  BY <1>1, CallsInvariant, PTL

\* ... a fresh pick from elsewhere means that the target country was found
\* without a healthy proxy.
THEOREM CountryComesFirst == ~SilentErrors => (Spec => []CountryPreferred)
<1>1. TypeOK /\ CallsInv => CountryPreferred
  <2> SUFFICES ASSUME TypeOK, CallsInv, NEW w \in Watched,
                      HandedOut(w, {"fresh"}), co[w].country # NoCountry,
                      co[w].proxy \notin seen[w].local
               PROVE  seen[w].empty
    BY DEF CountryPreferred
  <2> QED
    BY DEF CallsInv, Saw, SawCountry, HandedOut, At
<1> QED
  BY <1>1, CallsInvariant, PTL

\* ... an assignment that lasts through the checkout, to a proxy that stays
\* eligible, is the one that is reused.
THEOREM StickyHolds == ~SilentErrors => (Spec => []StickyWhileEligible)
<1>1. TypeOK /\ CallsInv => StickyWhileEligible
  <2> SUFFICES ASSUME TypeOK, CallsInv, NEW w \in Watched,
                      At(w, "answered"), co[w].mode # "rotate",
                      seen[w].held \cap seen[w].always # {},
                      co[w].answer # "trial"
               PROVE  co[w].answer = "sticky" /\ co[w].proxy \in seen[w].held
    BY DEF StickyWhileEligible
  <2>1. co[w].answer \in {"sticky", "fresh", "refused"}
    BY DEF CallsInv, Saw, SawEligible, At, Answer
  <2> QED
    BY <2>1 DEF CallsInv, Saw, SawAssignment, At
<1> QED
  BY <1>1, CallsInvariant, PTL
=============================================================================
