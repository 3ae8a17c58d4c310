------------------------------ MODULE Checkout ------------------------------
(***************************************************************************)
(* AssignmentRepository (internal/repository/assignment_repository.go):    *)
(* what Checkout and CheckoutRotate hand out to concurrent callers of one  *)
(* machine, database call by database call, while the proxies' global      *)
(* status, the bans and the sticky assignments change under them.          *)
(*                                                                         *)
(* One machine suffices: every key (assignment, ban scope, last pick)      *)
(* holds the machine id. A scope's ban has three values here - "clear",    *)
(* "banned", and "due" for banned with the cooldown elapsed; DomainBans    *)
(* models how they follow each other.                                      *)
(***************************************************************************)
EXTENDS Naturals, FiniteSets

CONSTANTS
    Proxies, Domains, Callers,
    Rotators,               \* the callers that may ask for rotate mode
    Watched,                \* the callers whose checkouts the history follows
    Countries,
    FirstCountry,           \* the country of each proxy to begin with
    NoCountry,              \* targetCountry = "", and a NULL country
    Nil,
    IsMongo,                \* db.IsMongo(): the driver
    SilentErrors,           \* calls whose failure nobody reports may fail
    MaxChanges              \* bound: changes made by others than the callers

ASSUME CheckoutAssumption ==
    /\ Domains # {}
    /\ FirstCountry \in [Proxies -> Countries \cup {NoCountry}]
    /\ Rotators \subseteq Callers /\ Watched \subseteq Callers
    /\ NoCountry \notin Countries
    /\ Nil \notin Proxies
    /\ IsMongo \in BOOLEAN /\ SilentErrors \in BOOLEAN
    /\ MaxChanges \in Nat

VARIABLES
    status,       \* proxies: globally healthy (active, idle), failed or deleted
    countryOf,    \* proxies: the country column
    ban,          \* proxy_domain_bans
    assignment,   \* proxy_assignments, unique per (machine, domain)
    lastPicked,   \* lastPickedByScope, in memory
    co,           \* the calls of checkoutInternal
    seen,         \* history: what held during each call
    changes       \* history: changes made by others

vars == <<status, countryOf, ban, assignment, lastPicked, co, seen, changes>>

-----------------------------------------------------------------------------

\* Checkout and CheckoutRotate.
Mode == {"sticky", "rotate"}

\* The call a checkout is about to make.
Busy == {"claim", "trial_proxy", "lookup", "sticky_proxy", "sticky_ban",
         "pool", "any_pool", "filter", "upsert", "last_read", "last_store"}

Answer == {"trial", "sticky", "fresh", "refused"}

Target == Countries \cup {NoCountry}
ProxyOrNil == Proxies \cup {Nil}

Call == [pc : Busy \cup {"idle", "answered"}, mode : Mode, domain : Domains,
         country : Target, proxy : ProxyOrNil, pool : SUBSET Proxies,
         last : ProxyOrNil, answer : Answer \cup {Nil}]

IdleCall(d) ==
    [pc |-> "idle", mode |-> "sticky", domain |-> d, country |-> NoCountry,
     proxy |-> Nil, pool |-> {}, last |-> Nil, answer |-> Nil]

Unset == IdleCall(CHOOSE d \in Domains : TRUE)

Healthy == {p \in Proxies : status[p] = "healthy"}
Clear(d) == {p \in Proxies : ban[d][p] = "clear"}
DueProxies(d) == {p \in Proxies : ban[d][p] = "due"}

\* The proxies of a target country; none without one.
Of(country) == {p \in Proxies : country # NoCountry /\ countryOf[p] = country}

\* What a call has met between its start and its last database call: proxies
\* healthy once, healthy and in the country at once, clear once, eligible all the
\* time, in the country all the time, whether the country was ever without a
\* healthy proxy, and the assignment it had all the time.
History == [healthy : SUBSET Proxies, local : SUBSET Proxies,
            clear : SUBSET Proxies, always : SUBSET Proxies,
            native : SUBSET Proxies, empty : BOOLEAN, held : SUBSET ProxyOrNil]

Unseen == [healthy |-> {}, local |-> {}, clear |-> {}, always |-> Proxies,
           native |-> Proxies, empty |-> FALSE, held |-> ProxyOrNil]

SeenNow(c) ==
    LET h == seen[c]
        d == co[c].domain
        home == Of(co[c].country)
    IN  [healthy |-> h.healthy \cup Healthy,
         local |-> h.local \cup (Healthy \cap home),
         clear |-> h.clear \cup Clear(d),
         always |-> h.always \cap Healthy \cap Clear(d),
         native |-> h.native \cap home,
         empty |-> h.empty \/ (co[c].country # NoCountry
                              /\ Healthy \cap home = {}),
         held |-> h.held \cap {assignment[d]}]

\* Part of every step: busy calls take the state they are in into account.
Observe ==
    seen' = [c \in Watched |->
                IF co'[c].pc = "idle" THEN Unseen
                ELSE IF co[c].pc \in Busy THEN SeenNow(c) ELSE seen[c]]

Init ==
    /\ status = [p \in Proxies |-> "healthy"]
    /\ countryOf = FirstCountry
    /\ ban = [d \in Domains |-> [p \in Proxies |-> "clear"]]
    /\ assignment = [d \in Domains |-> Nil]
    /\ lastPicked = [t \in Target |-> Nil]
    /\ co = [c \in Callers |-> Unset]
    /\ seen = [c \in Watched |-> Unseen]
    /\ changes = 0

-----------------------------------------------------------------------------
(* Checkout, CheckoutRotate, checkoutInternal: one action per call.        *)

At(c, pc) == co[c].pc = pc
Become(c, call) == co' = [co EXCEPT ![c] = call]
Goto(c, pc) == Become(c, [co[c] EXCEPT !.pc = pc])
Hold(c, p, pc) == Become(c, [co[c] EXCEPT !.proxy = p, !.pool = {}, !.pc = pc])
Gather(c, pool, pc) == Become(c, [co[c] EXCEPT !.pool = pool, !.pc = pc])
HandOut(c, p, kind) ==
    Become(c, [co[c] EXCEPT !.proxy = p, !.answer = kind, !.pc = "answered",
                            !.pool = {}, !.last = Nil])
Done(c) == Become(c, Unset)

\* Where selection starts once no trial was claimed.
Selection(mode) == IF mode = "rotate" THEN "pool" ELSE "lookup"

\* allowTrial: TRUE for the proxy server, FALSE for the API's checkout, which
\* observes no result and is always sticky.
Start(c, mode, d, country, allowTrial) ==
    /\ At(c, "idle")
    /\ mode = "rotate" => c \in Rotators /\ allowTrial
    /\ Become(c, [IdleCall(d) EXCEPT
                    !.pc = IF allowTrial THEN "claim" ELSE "lookup",
                    !.mode = mode, !.country = country])
    /\ UNCHANGED <<status, countryOf, ban, assignment, lastPicked, changes>>

\* ClaimTrialProxy takes a due proxy and holds it for this request.
Claim(c) ==
    /\ At(c, "claim")
    /\ \E p \in DueProxies(co[c].domain) :
        /\ ban' = [ban EXCEPT ![co[c].domain][p] = "banned"]
        /\ \/ Hold(c, p, "trial_proxy")
           \/ Goto(c, Selection(co[c].mode))  \* the answer was lost: terr # nil
    /\ UNCHANGED <<status, countryOf, assignment, lastPicked, changes>>

\* Nothing is due, or the claim failed.
NoClaim(c) ==
    /\ At(c, "claim")
    /\ Goto(c, Selection(co[c].mode))
    /\ UNCHANGED <<status, countryOf, ban, assignment, lastPicked, changes>>

\* fetchProxyIfHealthy of the claimed proxy.
TrialProxy(c) ==
    /\ At(c, "trial_proxy")
    /\ \/ /\ co[c].proxy \in Healthy
          /\ HandOut(c, co[c].proxy, "trial")
       \/ Hold(c, Nil, Selection(co[c].mode))  \* gone, failed, or the read failed
    /\ UNCHANGED <<status, countryOf, ban, assignment, lastPicked, changes>>

\* hasExisting of lookupAssignment.
HasExisting(d) == assignment[d] # Nil

Lookup(c) ==
    /\ At(c, "lookup")
    /\ \/ HasExisting(co[c].domain)
          /\ Hold(c, assignment[co[c].domain], "sticky_proxy")
       \/ ~HasExisting(co[c].domain) /\ Goto(c, "pool")
    /\ UNCHANGED <<status, countryOf, ban, assignment, lastPicked, changes>>

\* Slip: fetchProxyIfHealthy is given the country of the request.
ReusableInCountry(p, country) ==
    p \in Healthy /\ (country = NoCountry \/ countryOf[p] = country)

\* fetchProxyIfHealthy of the assigned proxy, whatever its country.
Reusable(p, country) == p \in Healthy

StickyProxy(c) ==
    /\ At(c, "sticky_proxy")
    /\ \/ Reusable(co[c].proxy, co[c].country) /\ Goto(c, "sticky_ban")
       \/ ~Reusable(co[c].proxy, co[c].country) /\ Hold(c, Nil, "pool")
    /\ UNCHANGED <<status, countryOf, ban, assignment, lastPicked, changes>>

\* isScopeBanned; touchAssignment then only updates statistics. On Postgres
\* IsBanned takes every error of its query for "not banned".
StickyBan(c) ==
    /\ At(c, "sticky_ban")
    /\ \/ /\ \/ co[c].proxy \in Clear(co[c].domain)
             \/ ~IsMongo /\ SilentErrors
          /\ HandOut(c, co[c].proxy, "sticky")
       \/ /\ co[c].proxy \notin Clear(co[c].domain)
          /\ Hold(c, Nil, "pool")
    /\ UNCHANGED <<status, countryOf, ban, assignment, lastPicked, changes>>

\* Slip: the country is not asked for.
EligiblePoolAnyCountry(country) == Healthy

\* eligiblePool: the healthy proxies, of the target country if one is given.
EligiblePool(country) ==
    IF country = NoCountry THEN Healthy ELSE Healthy \cap Of(country)

\* A scan that breaks off is taken for its end: neither loop asks the cursor
\* for its error.
Scan(result) == IF SilentErrors THEN SUBSET result ELSE {result}

\* Slip: no fallback.
FallsBackNever(pool, country) == FALSE

\* Fall back to any healthy proxy when the country has none.
FallsBack(pool, country) == pool = {} /\ country # NoCountry

Pool(c) ==
    /\ At(c, "pool")
    /\ \E pool \in Scan(EligiblePool(co[c].country)) :
        Gather(c, pool, IF FallsBack(pool, co[c].country) THEN "any_pool"
                        ELSE "filter")
    /\ UNCHANGED <<status, countryOf, ban, assignment, lastPicked, changes>>

AnyPool(c) ==
    /\ At(c, "any_pool")
    /\ \E pool \in Scan(EligiblePool(NoCountry)) :
        Gather(c, pool, "filter")
    /\ UNCHANGED <<status, countryOf, ban, assignment, lastPicked, changes>>

\* Slip: a ban whose cooldown has elapsed no longer counts.
BannedUntilDue(d) == {p \in Proxies : ban[d][p] = "banned"}

\* A due proxy is still banned.
BannedProxyIDsForDomain(d) == {p \in Proxies : ban[d][p] # "clear"}

\* filterBanned and the choice. An empty pool is not filtered, and refused.
FilterBanned(c) ==
    /\ At(c, "filter")
    /\ \E banned \in Scan(BannedProxyIDsForDomain(co[c].domain)) :
        LET left == co[c].pool \ banned
        IN  \/ left = {} /\ HandOut(c, Nil, "refused")
            \/ /\ left # {} /\ co[c].mode = "rotate"
               /\ Gather(c, left, "last_read")
            \/ /\ co[c].mode # "rotate"
               /\ \E p \in left : Hold(c, p, "upsert")
    /\ UNCHANGED <<status, countryOf, ban, assignment, lastPicked, changes>>

\* upsertAssignment. The foreign key of Postgres refuses a deleted proxy.
Upsert(c) ==
    /\ At(c, "upsert")
    /\ IsMongo \/ status[co[c].proxy] # "deleted"
    /\ assignment' = [assignment EXCEPT ![co[c].domain] = co[c].proxy]
    /\ \/ HandOut(c, co[c].proxy, "fresh")
       \/ Done(c)                   \* the answer was lost
    /\ UNCHANGED <<status, countryOf, ban, lastPicked, changes>>

\* pickRotate: the last pick is read under rotateMu ...
LastRead(c) ==
    /\ At(c, "last_read")
    /\ Become(c, [co[c] EXCEPT !.last = lastPicked[co[c].country],
                               !.pc = "last_store"])
    /\ UNCHANGED <<status, countryOf, ban, assignment, lastPicked, changes>>

\* The last pick is skipped unless it is the only one left.
Candidates(pool, last) == IF pool = {last} THEN pool ELSE pool \ {last}

\* ... and the new one stored in a critical section of its own.
LastStore(c) ==
    /\ At(c, "last_store")
    /\ \E p \in Candidates(co[c].pool, co[c].last) :
        /\ lastPicked' = [lastPicked EXCEPT ![co[c].country] = p]
        /\ HandOut(c, p, "fresh")
    /\ UNCHANGED <<status, countryOf, ban, assignment, changes>>

\* A database call fails and its error is returned to the caller.
Abort(c) ==
    /\ \/ co[c].pc \in {"lookup", "sticky_proxy", "pool", "any_pool", "filter",
                        "upsert"}
       \/ co[c].pc = "sticky_ban" /\ IsMongo
    /\ Done(c)
    /\ UNCHANGED <<status, countryOf, ban, assignment, lastPicked, changes>>

\* The caller takes the answer.
Leave(c) ==
    /\ At(c, "answered")
    /\ Done(c)
    /\ UNCHANGED <<status, countryOf, ban, assignment, lastPicked, changes>>

Step(c) ==
    \/ \E mode \in Mode, d \in Domains, t \in Target, trial \in BOOLEAN :
            Start(c, mode, d, t, trial)
    \/ Claim(c) \/ NoClaim(c) \/ TrialProxy(c)
    \/ Lookup(c) \/ StickyProxy(c) \/ StickyBan(c)
    \/ Pool(c) \/ AnyPool(c) \/ FilterBanned(c) \/ Upsert(c)
    \/ LastRead(c) \/ LastStore(c) \/ Abort(c) \/ Leave(c)

-----------------------------------------------------------------------------
(* What others change meanwhile.                                           *)

Change == changes < MaxChanges /\ changes' = changes + 1

\* Health checks, recorded requests and the API fail and revive proxies.
SetStatus(p) ==
    /\ Change
    /\ \E s \in {"healthy", "failed"} :
        /\ status[p] \notin {s, "deleted"}
        /\ status' = [status EXCEPT ![p] = s]
    /\ UNCHANGED <<countryOf, ban, assignment, lastPicked, co>>

\* The country detector and the API change the country of a proxy.
SetCountry(p) ==
    /\ Change
    /\ status[p] # "deleted"
    /\ \E t \in Target \ {countryOf[p]} : countryOf' = [countryOf EXCEPT ![p] = t]
    /\ UNCHANGED <<status, ban, assignment, lastPicked, co>>

\* ProxyRepository.Delete; on Postgres bans and assignments go with it.
Delete(p) ==
    /\ Change
    /\ status[p] # "deleted"
    /\ status' = [status EXCEPT ![p] = "deleted"]
    /\ IF ~IsMongo
       THEN /\ assignment' = [d \in Domains |-> IF assignment[d] = p THEN Nil
                                                ELSE assignment[d]]
            /\ ban' = [d \in Domains |-> [ban[d] EXCEPT ![p] = "clear"]]
       ELSE UNCHANGED <<assignment, ban>>
    /\ UNCHANGED <<countryOf, lastPicked, co>>

\* A failure bans, time makes the ban due, a success or the operator lifts it.
SetBan(d, p) ==
    /\ Change
    /\ IsMongo \/ status[p] # "deleted"   \* the foreign key
    /\ \/ ban[d][p] = "clear" /\ ban' = [ban EXCEPT ![d][p] = "banned"]
       \/ ban[d][p] = "banned" /\ ban' = [ban EXCEPT ![d][p] = "due"]
       \/ ban[d][p] # "clear" /\ ban' = [ban EXCEPT ![d][p] = "clear"]
    /\ UNCHANGED <<status, countryOf, assignment, lastPicked, co>>

\* Release, DELETE /api/v1/proxy.
Release(d) ==
    /\ Change
    /\ assignment[d] # Nil
    /\ assignment' = [assignment EXCEPT ![d] = Nil]
    /\ UNCHANGED <<status, countryOf, ban, lastPicked, co>>

\* The process restarts: the calls and the last picks are gone.
Restart ==
    /\ Change
    /\ lastPicked' = [t \in Target |-> Nil]
    /\ co' = [c \in Callers |-> Unset]
    /\ UNCHANGED <<status, countryOf, ban, assignment>>

Environment ==
    \/ \E p \in Proxies : SetStatus(p) \/ SetCountry(p) \/ Delete(p)
    \/ \E d \in Domains, p \in Proxies : SetBan(d, p)
    \/ \E d \in Domains : Release(d)
    \/ Restart

Next == ((\E c \in Callers : Step(c)) \/ Environment) /\ Observe

Spec == Init /\ [][Next]_vars

-----------------------------------------------------------------------------
(* Properties.                                                             *)

\* Every variable has its type; a call that is about to look at a proxy has one.
TypeOK ==
    /\ status \in [Proxies -> {"healthy", "failed", "deleted"}]
    /\ countryOf \in [Proxies -> Target]
    /\ ban \in [Domains -> [Proxies -> {"clear", "banned", "due"}]]
    /\ assignment \in [Domains -> ProxyOrNil]
    /\ lastPicked \in [Target -> ProxyOrNil]
    /\ co \in [Callers -> Call]
    /\ seen \in [Watched -> History]
    /\ changes \in 0..MaxChanges
    /\ \A c \in Callers :
        co[c].pc \in {"trial_proxy", "sticky_proxy", "sticky_ban", "upsert"} =>
            co[c].proxy \in Proxies

HandedOut(c, kinds) == At(c, "answered") /\ co[c].answer \in kinds

\* A proxy that was banned for the scope during the whole checkout is handed
\* out by neither the sticky nor the fresh path: "sticky assignments whose
\* proxy is currently banned for the scope are abandoned and re-picked, and
\* banned proxies are excluded from the eligible pool" (SetBanRepo).
NoBannedHandedOut ==
    \A c \in Watched :
        HandedOut(c, {"sticky", "fresh"}) => co[c].proxy \in seen[c].clear

\* What a checkout hands out was healthy at some moment of that checkout, and
\* not banned for the scope at some moment of it unless it is a trial: status,
\* ban and assignment are read by different calls and change in between.
HandedOutWasEligible ==
    /\ NoBannedHandedOut
    /\ \A c \in Watched :
        HandedOut(c, {"sticky", "fresh", "trial"}) =>
            co[c].proxy \in seen[c].healthy

\* ErrNoEligibleProxy is true: a proxy that was healthy and not banned during
\* the whole checkout is passed over only because the target country had a
\* healthy proxy of its own, and not if it was in that country all the time (the
\* country is soft towards failed proxies, not towards bans).
RefusedOnlyWithoutEligible ==
    \A c \in Watched : HandedOut(c, {"refused"}) =>
        \/ seen[c].always = {}
        \/ /\ co[c].country # NoCountry
           /\ seen[c].local # {}
           /\ seen[c].always \cap seen[c].native = {}

\* A fresh pick of a proxy that was at no moment of the checkout both healthy and
\* of the target country is made only if, at some moment of it, no proxy was.
CountryPreferred ==
    \A c \in Watched :
        /\ HandedOut(c, {"fresh"})
        /\ co[c].country # NoCountry
        /\ co[c].proxy \notin seen[c].local
        => seen[c].empty

\* An assignment that nobody changed during a checkout, to a proxy that was
\* eligible throughout, is what the checkout reuses, whatever country it asks
\* for: other callers' failures, bans and late picks do not flip it.
StickyWhileEligible ==
    \A c \in Watched :
        /\ At(c, "answered")
        /\ co[c].mode # "rotate"
        /\ seen[c].held \cap seen[c].always # {}
        => \/ co[c].answer = "trial"
           \/ co[c].answer = "sticky" /\ co[c].proxy \in seen[c].held

\* Once statuses and bans stop changing, the assignments stop moving: late
\* upserts of concurrent checkouts die out and every caller ends up on the
\* same sticky proxy.
AssignmentsSettle == <>[][assignment' = assignment]_vars
=============================================================================
