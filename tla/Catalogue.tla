------------------------------ MODULE Catalogue -----------------------------
(***************************************************************************)
(* The catalogue of proxies (repository/proxy_repository.go behind         *)
(* handlers/proxy_handler.go): creation one by one or in bulk, update,     *)
(* deletion, on both drivers; the rows of other tables that name a proxy   *)
(* by its id, written by requests that may end after the proxy has gone;   *)
(* and the country detector (services/country_detector.go), which works    *)
(* through a batch it read before.                                         *)
(*                                                                         *)
(* An address stands for an address with its protocol. Creations are       *)
(* numbered: origin says which creation a row goes back to, whatever id it *)
(* was given.                                                              *)
(***************************************************************************)
EXTENDS Naturals, Sequences, FiniteSets, FiniteSetsExt

CONSTANTS
    Drivers,      \* "mongo", "postgres"
    Addresses,
    Locatable,    \* the addresses that are IP addresses
    Callers,      \* slots for requests that create proxies
    Batch,        \* the 500 of RunOnce
    MaxBulk,      \* bound: addresses per request
    MaxCreated,   \* bound: creations, and the ids
    MaxEvents     \* bound: updates, deletions, requests, forced passes

ASSUME CatalogueAssumption ==
    /\ Drivers \subseteq {"mongo", "postgres"}
    /\ Locatable \subseteq Addresses /\ "none" \notin Addresses
    /\ Batch \in Nat \ {0} /\ MaxBulk \in Nat \ {0}
    /\ MaxCreated \in Nat /\ MaxEvents \in Nat

Ids == 1..MaxCreated

None == 0

VARIABLES
    driver,
    proxies,   \* the proxies table, by id: [origin, address, country]
    sequence,  \* the last id Postgres has given out
    caller,    \* the requests that create
    serving,   \* requests through a proxy: its id and origin
    named,     \* the origin a row of another table goes back to, by proxy id
    batch,     \* what the passes of the detector still have to look at, as read
    made,      \* history: rows created
    tried,     \* history: creations begun
    events     \* history: updates, deletions, requests, forced passes

vars == <<driver, proxies, sequence, caller, serving, named, batch, made, tried,
          events>>

NoProxy == [origin |-> None, address |-> "none", country |-> "none"]

Exists(id) == proxies[id] # NoProxy

Taken(address) == \E id \in Ids : proxies[id].address = address

-----------------------------------------------------------------------------
(* Create and BulkCreate.                                                  *)

Waiting == [pc |-> "idle", todo |-> <<>>, id |-> None, alone |-> TRUE,
            last |-> "none"]

Creating(c) == caller[c].todo # <<>>

Begin(c, addresses) ==
    /\ ~Creating(c)
    /\ tried + Len(addresses) <= MaxCreated
    /\ tried' = tried + Len(addresses)
    /\ caller' = [d \in Callers |->
            IF d = c THEN [pc |-> "number", todo |-> addresses, id |-> None,
                           alone |-> \A e \in Callers : ~Creating(e),
                           last |-> "none"]
            ELSE [caller[d] EXCEPT !.alone = @ /\ ~Creating(d)]]
    /\ UNCHANGED <<driver, proxies, sequence, serving, named, batch, made, events>>

\* Slip: the number of proxies counts, not the highest id.
NextByCount == Cardinality({id \in Ids : Exists(id)}) + 1

\* nextProxyID: the highest id in use, plus one.
NextProxyID == Max({0} \cup {id \in Ids : Exists(id)}) + 1

\* On Mongo the id is read before the insertion.
ReadNextID(c) ==
    /\ driver = "mongo"
    /\ Creating(c) /\ caller[c].pc = "number"
    /\ caller' = [caller EXCEPT ![c].pc = "insert", ![c].id = NextProxyID]
    /\ UNCHANGED <<driver, proxies, sequence, serving, named, batch, made, tried,
                   events>>

\* The id the row would get: Postgres numbers it in the statement.
NewID(c) == IF driver = "mongo" THEN caller[c].id ELSE sequence + 1

\* The unique indexes, on the address and on the id.
Clashes(c) == Taken(Head(caller[c].todo)) \/ Exists(NewID(c))

\* The next address of the bulk, whatever became of this one; last is history.
Proceed(c, result) ==
    caller' = [caller EXCEPT ![c] =
            [pc |-> "number", todo |-> Tail(@.todo), id |-> None,
             alone |-> @.alone, last |-> result]]

MayInsert(c) ==
    /\ Creating(c)
    /\ caller[c].pc = IF driver = "mongo" THEN "insert" ELSE "number"

Insert(c) ==
    /\ MayInsert(c) /\ ~Clashes(c)
    /\ proxies' = [proxies EXCEPT ![NewID(c)] =
            [origin |-> made + 1,
             address |-> Head(caller[c].todo), country |-> "none"]]
    /\ Proceed(c, "created")
    /\ sequence' = IF driver = "mongo" THEN sequence ELSE sequence + 1
    /\ made' = made + 1
    /\ UNCHANGED <<driver, serving, named, batch, tried, events>>

\* "proxy with address ... already exists". A sequence number is spent.
InsertFails(c) ==
    /\ MayInsert(c) /\ Clashes(c)
    /\ Proceed(c, IF Taken(Head(caller[c].todo)) THEN "address" ELSE "id")
    /\ sequence' = IF driver = "mongo" THEN sequence ELSE sequence + 1
    /\ UNCHANGED <<driver, proxies, serving, named, batch, made, tried, events>>

-----------------------------------------------------------------------------
Event == events < MaxEvents /\ events' = events + 1

(* Update and Delete.                                                      *)

Countries == Locatable \cup {"none"}

\* What is not given stays as it is. An address that clashes is refused; an
\* empty country may be given, and counts as none.
Update(id, address, country) ==
    /\ Event /\ Exists(id)
    /\ address # proxies[id].address => ~Taken(address)
    /\ proxies' = [proxies EXCEPT ![id].address = address, ![id].country = country]
    /\ UNCHANGED <<driver, sequence, caller, serving, named, batch, made, tried>>

\* Slip: nothing cascades.
CascadeNever(id) == named

\* ON DELETE CASCADE, on Postgres; Mongo deletes the proxy only.
Cascade(id) ==
    IF driver = "postgres" THEN [named EXCEPT ![id] = None] ELSE named

Delete(id) ==
    /\ Event /\ Exists(id)
    /\ proxies' = [proxies EXCEPT ![id] = NoProxy]
    /\ named' = Cascade(id)
    /\ UNCHANGED <<driver, sequence, caller, serving, batch, made, tried>>

-----------------------------------------------------------------------------
(* Requests, which write assignments, bans and recoveries by proxy id.     *)

Serve(id) ==
    /\ Event /\ Exists(id)
    /\ serving' = serving \cup {[id |-> id, origin |-> proxies[id].origin]}
    /\ UNCHANGED <<driver, proxies, sequence, caller, named, batch, made, tried>>

\* REFERENCES proxies(id), on Postgres.
Accepted(id) == driver = "postgres" => Exists(id)

\* A row that is there is kept: upserts are by proxy id.
Served(s) ==
    /\ serving' = serving \ {s}
    /\ named' = IF Accepted(s.id) /\ named[s.id] = None
                THEN [named EXCEPT ![s.id] = s.origin] ELSE named
    /\ UNCHANGED <<driver, proxies, sequence, caller, batch, made, tried, events>>

-----------------------------------------------------------------------------
(* The country detector.                                                   *)

\* ORDER BY id LIMIT; Mongo's natural order is the order of creation, too.
First(ids) == {id \in ids : Cardinality({i \in ids : i < id}) < Batch}

ListWithoutCountry(force) ==
    First({id \in Ids : Exists(id) /\ (force \/ proxies[id].country = "none")})

\* RunOnce, of the loop or of a call of the API, which may force it. A listing
\* that breaks off unnoticed is a pass that skips what it missed (Skip).
Runners == {"loop", "api"}

StartPass(run, force) ==
    /\ batch[run] = {}
    /\ force => run = "api"
    /\ batch' = [batch EXCEPT ![run] =
            {[id |-> id, address |-> proxies[id].address] :
                id \in ListWithoutCountry(force)}]
    /\ IF run = "api" THEN Event ELSE UNCHANGED events
    /\ UNCHANGED <<driver, proxies, sequence, caller, serving, named, made, tried>>

\* A pass goes through its batch in the order of the ids.
UpNext(run) == CHOOSE p \in batch[run] : \A q \in batch[run] : p.id <= q.id

\* Slip: the update inserts a row that has gone.
LocatedUpserted(p) == [proxies EXCEPT ![p.id].country = p.address]

\* UpdateCountry writes where the id is; the row may have gone.
Located(p) ==
    IF Exists(p.id) THEN [proxies EXCEPT ![p.id].country = p.address] ELSE proxies

\* The country of the address that was read, for the row that has the id now.
Locate(run) ==
    /\ batch[run] # {} /\ UpNext(run).address \in Locatable
    /\ batch' = [batch EXCEPT ![run] = @ \ {UpNext(run)}]
    /\ proxies' = Located(UpNext(run))
    /\ UNCHANGED <<driver, sequence, caller, serving, named, made, tried, events>>

\* Slip: a lookup that fails ends the pass.
RestNone(run) == {}

Rest(run) == batch[run] \ {UpNext(run)}

\* Not an IP address, or the lookup fails.
Skip(run) ==
    /\ batch[run] # {}
    /\ batch' = [batch EXCEPT ![run] = Rest(run)]
    /\ UNCHANGED <<driver, proxies, sequence, caller, serving, named, made, tried,
                   events>>

-----------------------------------------------------------------------------

Init ==
    /\ driver \in Drivers
    /\ proxies = [id \in Ids |-> NoProxy]
    /\ sequence = 0
    /\ caller = [c \in Callers |-> Waiting]
    /\ serving = {} /\ named = [id \in Ids |-> None]
    /\ batch = [run \in Runners |-> {}]
    /\ made = 0 /\ tried = 0 /\ events = 0

Create(c) == ReadNextID(c) \/ Insert(c) \/ InsertFails(c)

Next ==
    \/ \E c \in Callers :
        \/ Create(c)
        \/ \E n \in 1..MaxBulk : \E addresses \in [1..n -> Addresses] :
                Begin(c, addresses)
    \/ \E id \in Ids :
        \/ Delete(id) \/ Serve(id)
        \/ \E address \in Addresses, country \in Countries :
                Update(id, address, country)
    \/ \E s \in serving : Served(s)
    \/ \E run \in Runners :
        \/ \E force \in BOOLEAN : StartPass(run, force)
        \/ Locate(run) \/ Skip(run)

Spec == Init /\ [][Next]_vars

\* The loop's timer fires again and again, a pass goes on, and lookups that are
\* tried again and again succeed.
Fairness ==
    /\ WF_vars(StartPass("loop", FALSE))
    /\ WF_vars(Locate("loop") \/ Skip("loop"))
    /\ \A id \in Ids : SF_vars(Locate("loop") /\ UpNext("loop").id = id)

FairSpec == Spec /\ Fairness

-----------------------------------------------------------------------------
(* Properties.                                                             *)

TypeOK ==
    /\ driver \in Drivers
    /\ \A id \in Ids : Exists(id) =>
        /\ proxies[id].origin \in 1..MaxCreated
        /\ proxies[id].address \in Addresses
        /\ proxies[id].country \in Countries
    /\ sequence \in 0..MaxCreated
    /\ \A c \in Callers :
        /\ caller[c].pc \in {"idle", "number", "insert"}
        /\ caller[c].id \in Ids \cup {None}
        /\ caller[c].todo \in Seq(Addresses)
    /\ \A s \in serving : s.id \in Ids /\ s.origin \in 1..MaxCreated
    /\ named \in [Ids -> 0..MaxCreated]
    /\ \A run \in Runners : \A p \in batch[run] : p.id \in Ids
    /\ made \in 0..MaxCreated /\ tried \in 0..MaxCreated /\ events \in 0..MaxEvents

\* On Postgres the assignments, bans and recoveries that name a proxy are its
\* own, however late they were written: a proxy never inherits the history of
\* a deleted one.
HistoryIsOwn ==
    driver = "postgres" =>
        \A id \in Ids : named[id] # None => named[id] = proxies[id].origin

\* A creation that had the catalogue to itself is refused only because its
\* address is taken, as the error says.
RefusedForItsAddress ==
    \A c \in Callers : caller[c].last = "id" => ~caller[c].alone

\* Row id is the proxy of creation number n, at an address that can be located.
CanLocate(id, n) ==
    proxies[id].origin = n /\ proxies[id].address \in Locatable

\* Every proxy with an IP address that stays in the catalogue has a country for
\* good in the end, however many proxies the pass cannot locate come before it,
\* as long as they do not fill a batch: an id that was another proxy's before,
\* or a country that is taken away again, does not count.
EveryProxyIsLocated ==
    \A id \in Ids, n \in 1..MaxCreated :
        <>[]CanLocate(id, n) => <>[](CanLocate(id, n) /\ proxies[id].country # "none")
=============================================================================
