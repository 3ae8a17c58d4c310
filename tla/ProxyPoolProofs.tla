--------------------------- MODULE ProxyPoolProofs ---------------------------
(***************************************************************************)
(* The selector and the recordings for any number of proxies, requests and *)
(* attempts. What a round-robin request has tried, and what a round has    *)
(* given out, are the positions of the list just behind the index (Past):  *)
(* whether the next proxy is new is then a matter of how many there are.   *)
(***************************************************************************)
EXTENDS ProxyPool, FiniteSetTheorems, TLAPS

\* The positions of a list, counted from 0.
Slots(l) == 0..(Len(l) - 1)

\* Those that the last t selections returned, when the index has come to x.
Window(l, x, t) ==
    {i \in Slots(l) : \/ i < x /\ x <= i + t
                      \/ Len(l) + x <= i + t}

Past(l, x, t) == {l[i + 1] : i \in Window(l, x, t)}

Injective(l) == \A i, j \in DOMAIN l : l[i] = l[j] => i = j

\* As many tries as there are proxies, at most.
AtMostAll(l, t) == IF t < Len(l) THEN t ELSE Len(l)

-----------------------------------------------------------------------------
(* The invariant.                                                          *)

\* An address is listed once.
ListedOnce == Injective(list)

\* A request alone has tried what the index has passed since it began.
TriedInOrder ==
    \A r \in Requests :
        /\ request[r].pc \in {"select", "failed"}
        /\ method = "round_robin" /\ alone = r
        => /\ request[r].tried = Past(list, index, request[r].tries)
           /\ Cardinality(request[r].tried) = AtMostAll(list, request[r].tries)

GivenUpAtTheEnd ==
    \A r \in Requests : request[r].pc = "failed" => request[r].tries = MaxFallback

\* A round gives out one position after the other, and never all of them: with
\* the last one the next round begins.
TurnInOrder ==
    method = "round_robin" =>
        \E t \in 0..Len(list) : (t = 0 \/ t < Len(list)) /\ turn = Past(list, index, t)

\* The selector serves the requests that go through it.
SelectorsOwn ==
    \A r \in Requests : request[r].pc = "select" => Selects(request[r].kind)

\* A request records only what it has tried.
TriedIsRecorded ==
    \A r \in Requests, p \in Proxies :
        request[r].pc = "select" /\ p \notin request[r].tried => job[r][p] = <<>>

\* Mongo's recordings decide nothing from a status they read before.
MongoCalls == {"success", "count", "threshold", "mark", "check_ok", "check_count"}

OnlyMongoCalls ==
    driver = "mongo" =>
        \A r \in Requests, p \in Proxies : job[r][p] \in Seq(MongoCalls)

\* A full streak that has not made its proxy failed is about to.
StreakIsNoticed ==
    driver = "mongo" =>
        \A p \in Proxies \ cut :
            row[p].fails = Threshold /\ row[p].status # "failed" =>
                \E r \in Requests :
                    job[r][p] # <<>> /\ Head(job[r][p]) = "threshold"

PoolInv ==
    /\ TypeOK /\ ListedOnce /\ IndexInRange
    /\ TriedInOrder /\ GivenUpAtTheEnd /\ TurnInOrder
    /\ SelectorsOwn /\ TriedIsRecorded /\ OnlyMongoCalls /\ StreakIsNoticed

-----------------------------------------------------------------------------
(* Lists, windows and how many a request has tried.                        *)

\* A listing has every proxy that was to be loaded, and each of them once.
LEMMA Listing ==
    ASSUME NEW s \in Loadable
    PROVE  /\ s \in Seq(Proxies) /\ Injective(s)
           /\ Eligible \cap Allowed # {} => s # <<>>
<1> DEFINE S == Eligible \cap Allowed
<1>1. S \subseteq Proxies /\ IsFiniteSet(S)
  BY PoolAssumption, FS_Subset DEF Eligible
<1>2. Cardinality(S) \in Nat /\ (Cardinality(S) = 0 <=> S = {})
  BY <1>1, FS_CardinalityType, FS_EmptySet
<1>3. /\ s \in [1..Cardinality(S) -> S]
      /\ \A i, j \in DOMAIN s : i < j => s[i] < s[j]
  BY DEF Loadable
<1> HIDE DEF S
<1>4. s \in Seq(Proxies) /\ Len(s) = Cardinality(S)
  BY <1>1, <1>2, <1>3
<1>5. \A i, j \in DOMAIN s : s[i] = s[j] => i = j
  <2> SUFFICES ASSUME NEW i \in DOMAIN s, NEW j \in DOMAIN s, s[i] = s[j]
               PROVE  i = j
    OBVIOUS
  <2>1. i \in Nat /\ j \in Nat /\ s[i] \in Nat
    <3>1. i \in 1..Cardinality(S) /\ j \in 1..Cardinality(S) /\ s[i] \in S
      BY <1>3
    <3>2. \A k \in 1..Cardinality(S) : k \in Nat
      BY <1>2
    <3> QED
      BY <1>1, <3>1, <3>2, PoolAssumption
  <2>2. ~(i < j) /\ ~(j < i)
    BY <1>3, <2>1
  <2> QED
    BY <2>1, <2>2
<1>6. S # {} => s # <<>>
  BY <1>2, <1>4
<1> QED
  BY <1>4, <1>5, <1>6 DEF S, Injective

\* The index goes round.
LEMMA NextIndexIs ==
    ASSUME NEW n \in Nat \ {0}, NEW i \in 0..(n - 1)
    PROVE  (i + 1) % n = IF i + 1 = n THEN 0 ELSE i + 1
  OBVIOUS

LEMMA NothingPassed ==
    ASSUME NEW l \in Seq(Proxies), NEW x \in Nat PROVE Past(l, x, 0) = {}
  BY DEF Past, Window, Slots

\* A selection passes one position more.
LEMMA PastGrows ==
    ASSUME NEW l \in Seq(Proxies), NEW x \in Slots(l), NEW t \in Nat
    PROVE  Past(l, (x + 1) % Len(l), t + 1) = Past(l, x, t) \cup {l[x + 1]}
<1> DEFINE n == Len(l)
           y == (x + 1) % n
<1>1. n \in Nat \ {0} /\ x \in 0..(n - 1) /\ Slots(l) = 0..(n - 1)
  BY DEF Slots
<1>2. y = IF x + 1 = n THEN 0 ELSE x + 1
  BY <1>1, NextIndexIs
<1> HIDE DEF y
<1>3. ASSUME NEW i \in Slots(l)
      PROVE  i \in Window(l, y, t + 1) <=> i \in Window(l, x, t) \/ i = x
  <2>1. i \in Window(l, y, t + 1) <=> \/ i < y /\ y <= i + (t + 1)
                                      \/ n + y <= i + (t + 1)
    BY DEF Window
  <2>2. i \in Window(l, x, t) <=> \/ i < x /\ x <= i + t
                                  \/ n + x <= i + t
    BY DEF Window
  <2> QED
    BY <1>1, <1>2, <2>1, <2>2
<1>4. Window(l, y, t + 1) = Window(l, x, t) \cup {x}
  BY <1>1, <1>3 DEF Window
<1> QED
  BY <1>4 DEF Past, y

\* The next proxy has been passed when all have.
LEMMA SeenIfAll ==
    ASSUME NEW l \in Seq(Proxies), Injective(l), NEW x \in Slots(l), NEW t \in Nat
    PROVE  l[x + 1] \in Past(l, x, t) <=> Len(l) <= t
<1>1. Len(l) \in Nat /\ x \in Nat /\ x < Len(l)
  BY DEF Slots
<1>2. l[x + 1] \in Past(l, x, t) <=> x \in Window(l, x, t)
  <2>1. \A i \in Window(l, x, t) : i + 1 \in DOMAIN l /\ x + 1 \in DOMAIN l
    BY <1>1 DEF Window, Slots
  <2>2. \A i \in Window(l, x, t) : l[i + 1] = l[x + 1] => i = x
    <3> SUFFICES ASSUME NEW i \in Window(l, x, t), l[i + 1] = l[x + 1]
                 PROVE  i = x
      OBVIOUS
    <3>1. i + 1 = x + 1 /\ i \in Nat
      BY <2>1 DEF Injective, Window, Slots
    <3> QED
      BY <1>1, <3>1
  <2> QED
    BY <2>2 DEF Past
<1>3. x \in Window(l, x, t) <=> Len(l) + x <= x + t
  BY <1>1 DEF Window
<1> QED
  BY <1>1, <1>2, <1>3

LEMMA AllAtTheEnd ==
    ASSUME NEW l \in Seq(Proxies), NEW x \in Slots(l)
    PROVE  Past(l, x, Len(l)) = ToSet(l)
<1>1. Len(l) \in Nat /\ x \in Nat /\ x < Len(l)
  BY DEF Slots
<1>2. Window(l, x, Len(l)) = Slots(l)
  BY <1>1 DEF Window, Slots
<1>3. \A k \in DOMAIN l : k - 1 \in Slots(l) /\ (k - 1) + 1 = k
  BY <1>1 DEF Slots
<1>4. \A i \in Slots(l) : i + 1 \in DOMAIN l
  BY <1>1 DEF Slots
<1> QED
  BY <1>2, <1>3, <1>4 DEF Past, ToSet

-----------------------------------------------------------------------------
(* The first states, and the steps of the selector.                        *)

LEMMA PoolInit == Init => PoolInv
<1> SUFFICES ASSUME Init PROVE PoolInv
  OBVIOUS
<1> USE PoolAssumption
<1>1. /\ list \in Seq(Proxies) /\ ListedOnce
  BY Listing DEF Init, ListedOnce
<1>2. /\ <<driver, method>> \in Deployments
      /\ events = 0 /\ turn = {} /\ alone = Nobody /\ cut = {}
      /\ request = NoRequests /\ job = NoJobs
  <2>1. PICK deployment \in Deployments :
            driver = deployment[1] /\ method = deployment[2]
    BY DEF Init
  <2>2. deployment = <<driver, method>>
    BY <2>1
  <2> QED
    BY <2>2 DEF Init
<1>3. /\ row \in [Proxies -> Row]
      /\ \A p \in Proxies : Exists(p) /\ row[p].fails # Threshold
  BY DEF Init, Row, Exists, Threshold
<1>4. /\ request \in [Requests -> Request]
      /\ \A r \in Requests : request[r].pc = "idle"
  BY <1>2 DEF NoRequests, NoRequest, Request
<1>5. /\ job \in [Requests -> [Proxies -> Seq(Calls)]]
      /\ \A r \in Requests, p \in Proxies : job[r][p] = <<>>
  BY <1>2 DEF NoJobs
<1>9. index \in Nat /\ (list # <<>> => index < Len(list))
  <2>1. Len(list) \in Nat /\ (list # <<>> => Len(list) # 0)
    BY <1>1
  <2>2. index \in FirstIndex(Len(list))
    BY DEF Init
  <2> QED
    BY <2>1, <2>2 DEF FirstIndex
<1>6. TypeOK
  BY <1>1, <1>2, <1>3, <1>4, <1>5, <1>9 DEF TypeOK
<1>7. IndexInRange /\ TurnInOrder
  <2>1. Len(list) \in Nat
    BY <1>1
  <2> QED
    BY <1>1, <1>2, <1>9, <2>1, NothingPassed DEF IndexInRange, TurnInOrder
<1>8. OnlyMongoCalls
  BY <1>5 DEF OnlyMongoCalls
<1> QED
  BY <1>1, <1>3, <1>4, <1>5, <1>6, <1>7, <1>8
     DEF PoolInv, TriedInOrder, GivenUpAtTheEnd, SelectorsOwn, TriedIsRecorded,
         StreakIsNoticed

LEMMA Methods ==
    ASSUME TypeOK
    PROVE  /\ driver \in {"mongo", "postgres"}
           /\ method \in {"random", "round_robin", "least_conn"}
  BY PoolAssumption DEF TypeOK

\* A new list and an index for it.
LEMMA NewList ==
    ASSUME PoolInv, list' \in Loadable, index' \in Nat, turn' = {}, alone' = Nobody,
           UNCHANGED method, list' # <<>> => index' < Len(list')
    PROVE  /\ list' \in Seq(Proxies) /\ ListedOnce' /\ IndexInRange'
           /\ TriedInOrder' /\ TurnInOrder'
<1>1. list' \in Seq(Proxies) /\ ListedOnce'
  BY Listing DEF ListedOnce
<1>2. TriedInOrder'
  BY PoolAssumption DEF TriedInOrder
<1>3. Past(list', index', 0) = {}
  BY <1>1, NothingPassed
<1>4. Len(list') \in Nat
  BY <1>1
<1> QED
  BY <1>1, <1>2, <1>3, <1>4 DEF IndexInRange, TurnInOrder

LEMMA RefreshStep == ASSUME PoolInv, Refresh PROVE PoolInv'
<1>1. /\ TypeOK /\ Eligible \cap Allowed # {} /\ list' \in Loadable
      /\ index' \in IndexFor(Len(list')) /\ turn' = {} /\ alone' = Nobody
      /\ UNCHANGED <<driver, method, row, request, job, events, cut>>
  BY DEF Refresh, PoolInv
<1>2. list' \in Seq(Proxies) /\ list' # <<>>
  BY <1>1, Listing
<1>3. index' \in Nat /\ index' < Len(list')
  <2>1. Len(list') \in Nat \ {0} /\ index \in Nat
    BY <1>1, <1>2 DEF TypeOK
  <2> QED
    BY <1>1, <2>1, Methods DEF IndexFor
<1>4. ListedOnce' /\ IndexInRange' /\ TriedInOrder' /\ TurnInOrder'
  BY <1>1, <1>3, NewList
<1>5. TypeOK'
  BY <1>1, <1>2, <1>3 DEF TypeOK, Exists
<1> QED
  BY <1>1, <1>4, <1>5
     DEF PoolInv, GivenUpAtTheEnd, SelectorsOwn, TriedIsRecorded, OnlyMongoCalls,
         StreakIsNoticed

\* What a selection does to the selector, whatever comes of the try. For a round
\* robin the turn is not what it was: a property of its own follows from that.
LEMMA SelectedFacts ==
    ASSUME PoolInv, NEW r \in Requests, NEW p \in Proxies, Selected(r, p)
    PROVE  /\ index \in Slots(list) /\ index' \in Nat /\ UNCHANGED list
           /\ IndexInRange' /\ ListedOnce' /\ TurnInOrder'
           /\ turn' \subseteq Proxies
           /\ method = "round_robin" => p = list[index + 1] /\ index' = NextIndex
           /\ method = "round_robin" /\ Len(list) > 1 => turn' # turn
           /\ alone' = IF alone = r THEN r ELSE Nobody
<1>1. /\ TypeOK /\ list # <<>> /\ p \in Selection
      /\ index' = IF method = "round_robin" THEN NextIndex ELSE index
      /\ turn' = IF method # "round_robin" \/ turn \cup {p} = ToSet(list) THEN {}
                 ELSE turn \cup {p}
      /\ alone' = IF alone = r THEN r ELSE Nobody
      /\ UNCHANGED <<driver, method, row, list, events, cut>>
  BY DEF Selected, PoolInv
<1>2. /\ list \in Seq(Proxies) /\ Len(list) \in Nat \ {0}
      /\ index \in Slots(list) /\ index \in 0..(Len(list) - 1)
  BY <1>1 DEF TypeOK, PoolInv, IndexInRange, Slots
<1>3. index' \in Nat /\ index' < Len(list)
  BY <1>1, <1>2, NextIndexIs DEF NextIndex
<1>4. IndexInRange' /\ ListedOnce'
  BY <1>1, <1>3 DEF IndexInRange, PoolInv, ListedOnce
<1>5. method = "round_robin" => p = list[index + 1] /\ index' = NextIndex
  BY <1>1 DEF Selection
<1>6. turn' \subseteq Proxies
  BY <1>1 DEF TypeOK
<1>7. ASSUME method = "round_robin"
      PROVE  TurnInOrder' /\ (Len(list) > 1 => turn' # turn)
  <2>1. PICK t \in 0..Len(list) : (t = 0 \/ t < Len(list)) /\ turn = Past(list, index, t)
    BY <1>7 DEF PoolInv, TurnInOrder
  <2>2. t \in Nat /\ t < Len(list) /\ t + 1 \in Nat
    BY <1>2, <2>1
  <2>3. Past(list, index', t + 1) = turn \cup {p}
    BY <1>1, <1>2, <1>5, <1>7, <2>1, <2>2, PastGrows DEF NextIndex
  <2>4. p \notin turn
    BY <1>2, <1>5, <1>7, <2>1, <2>2, SeenIfAll DEF PoolInv, ListedOnce
  <2>5. index' \in Slots(list)
    BY <1>1, <1>2, <1>3 DEF Slots
  <2>6. CASE turn \cup {p} = ToSet(list)
    <3>1. turn' = {} /\ Past(list, index', 0) = {}
      BY <1>1, <1>2, <1>3, <2>6, NothingPassed
    <3>2. TurnInOrder'
      BY <1>1, <1>2, <3>1 DEF TurnInOrder
    <3>3. ASSUME Len(list) > 1, turn = {} PROVE FALSE
      <4>1. 1 \in DOMAIN list /\ 2 \in DOMAIN list
        BY <1>2, <3>3
      <4>2. \A k \in DOMAIN list : list[k] = p
        BY <2>6, <3>3 DEF ToSet
      <4> QED
        BY <4>1, <4>2 DEF PoolInv, ListedOnce, Injective
    <3> QED
      BY <3>1, <3>2, <3>3
  <2>7. CASE turn \cup {p} # ToSet(list)
    <3>1. turn' = turn \cup {p}
      BY <1>1, <1>7, <2>7
    <3>2. t + 1 # Len(list)
      <4>1. Past(list, index', Len(list)) = ToSet(list)
        BY <1>2, <2>5, AllAtTheEnd
      <4> QED
        BY <2>3, <2>7, <4>1
    <3>3. t + 1 \in 0..Len(list) /\ t + 1 < Len(list)
      BY <1>2, <2>2, <3>2
    <3> QED
      BY <1>1, <2>3, <2>4, <3>1, <3>3 DEF TurnInOrder
  <2> QED
    BY <2>6, <2>7
<1>8. method # "round_robin" => TurnInOrder'
  BY <1>1 DEF TurnInOrder
<1> QED
  BY <1>1, <1>2, <1>3, <1>4, <1>5, <1>6, <1>7, <1>8

-----------------------------------------------------------------------------
(* The tries of a request.                                                 *)

\* Every kind of request records calls there are, on Mongo those of Mongo.
LEMMA CallsFit ==
    ASSUME NEW kind \in Kinds,
           NEW calls \in ServedCalls(kind) \cup {FailureCalls(kind)}
    PROVE  /\ calls \in Seq(Calls)
           /\ driver = "mongo" => calls \in Seq(MongoCalls)
<1>1. kind \in {"http", "connect", "routed", "test"}
  BY PoolAssumption
<1>2. calls \in {<<"success">>, <<"count">>, <<"count", "mark">>, <<"check_ok">>}
      \/ calls = IF driver = "mongo" THEN <<"check_count">> ELSE <<"check_read">>
  BY <1>1 DEF ServedCalls, SuccessCalls, FailureCalls
<1>3. /\ "success" \in MongoCalls /\ "count" \in MongoCalls /\ "mark" \in MongoCalls
      /\ "check_ok" \in MongoCalls /\ "check_count" \in MongoCalls
      /\ MongoCalls \subseteq Calls /\ "check_read" \in Calls
  BY DEF Calls, MongoCalls
<1>4. \A S : (\A x \in S : <<x>> \in Seq(S)) /\ (\A x, y \in S : <<x, y>> \in Seq(S))
  OBVIOUS
<1>5. Seq(MongoCalls) \subseteq Seq(Calls)
  BY <1>3
<1> QED
  BY <1>2, <1>3, <1>4, <1>5

\* A goroutine starts for a proxy the request had nothing to record about.
LEMMA RecordsStep ==
    ASSUME PoolInv, NEW r \in Requests, NEW p \in Proxies, job[r][p] = <<>>,
           NEW calls \in Seq(Calls), driver = "mongo" => calls \in Seq(MongoCalls),
           Records(r, p, calls), UNCHANGED <<driver, row, cut>>
    PROVE  /\ job' \in [Requests -> [Proxies -> Seq(Calls)]]
           /\ \A q \in Proxies : q # p => job'[r][q] = job[r][q]
           /\ \A o \in Requests : o # r => job'[o] = job[o]
           /\ OnlyMongoCalls' /\ StreakIsNoticed'
<1>1. /\ job \in [Requests -> [Proxies -> Seq(Calls)]]
      /\ job' = [job EXCEPT ![r][p] = calls]
  BY DEF Records, PoolInv, TypeOK
<1>2. /\ job' \in [Requests -> [Proxies -> Seq(Calls)]]
      /\ job'[r][p] = calls
      /\ \A q \in Proxies : q # p => job'[r][q] = job[r][q]
      /\ \A o \in Requests : o # r => job'[o] = job[o]
  BY <1>1
<1>3. OnlyMongoCalls'
  <2> SUFFICES ASSUME driver = "mongo", NEW o \in Requests, NEW q \in Proxies
               PROVE  job'[o][q] \in Seq(MongoCalls)
    BY DEF OnlyMongoCalls
  <2>1. job[o][q] \in Seq(MongoCalls)
    BY DEF PoolInv, OnlyMongoCalls
  <2> QED
    BY <1>2, <2>1
<1>4. StreakIsNoticed'
  <2> SUFFICES ASSUME driver = "mongo", NEW q \in Proxies \ cut,
                      row[q].fails = Threshold, row[q].status # "failed"
               PROVE  \E o \in Requests :
                        job'[o][q] # <<>> /\ Head(job'[o][q]) = "threshold"
    BY DEF StreakIsNoticed
  <2>1. PICK o \in Requests : job[o][q] # <<>> /\ Head(job[o][q]) = "threshold"
    BY DEF PoolInv, StreakIsNoticed
  <2>2. job'[o][q] = job[o][q]
    BY <1>2, <2>1
  <2> QED
    BY <2>1, <2>2
<1> QED
  BY <1>2, <1>3, <1>4

\* Of two requests only one has the selector to itself.
LEMMA TriedInOrderOf ==
    ASSUME NEW r \in Requests, alone' \in {r, Nobody},
           /\ request'[r].pc \in {"select", "failed"}
           /\ method' = "round_robin" /\ alone' = r
           => /\ request'[r].tried = Past(list', index', request'[r].tries)
              /\ Cardinality(request'[r].tried) = AtMostAll(list', request'[r].tries)
    PROVE  TriedInOrder'
<1>1. \A o \in Requests : alone' = o => o = r
  BY PoolAssumption
<1> QED
  BY <1>1 DEF TriedInOrder

LEMMA RepeatsStep ==
    ASSUME PoolInv, NEW r \in Requests, NEW p \in Proxies, Repeats(r, p)
    PROVE  PoolInv'
<1>1. /\ TypeOK /\ Selected(r, p) /\ p \in request[r].tried
      /\ request' = [request EXCEPT ![r].tries = @ + 1]
      /\ request[r].pc = "select"
      /\ UNCHANGED <<driver, method, row, list, events, cut, job>>
  BY DEF Repeats, Selected, PoolInv
<1>2. /\ index \in Slots(list) /\ index' \in Nat
      /\ IndexInRange' /\ ListedOnce' /\ TurnInOrder' /\ turn' \subseteq Proxies
      /\ method = "round_robin" => p = list[index + 1] /\ index' = NextIndex
      /\ alone' = IF alone = r THEN r ELSE Nobody
  BY <1>1, SelectedFacts
<1>3. /\ request' \in [Requests -> Request]
      /\ request'[r].tries = request[r].tries + 1
      /\ request'[r].tried = request[r].tried
      /\ request'[r].pc = "select" /\ request'[r].kind = request[r].kind
      /\ \A o \in Requests : o # r => request'[o] = request[o]
      /\ request[r].tries \in Nat
  <2>1. request \in [Requests -> Request] /\ request[r] \in Request
    BY <1>1 DEF TypeOK
  <2>2. [request[r] EXCEPT !.tries = @ + 1] \in Request
    BY <2>1 DEF Request
  <2> QED
    BY <1>1, <2>1, <2>2 DEF Request
<1>4. TypeOK'
  BY <1>1, <1>2, <1>3 DEF TypeOK, Exists
<1>5. TriedInOrder'
  <2> DEFINE t == request[r].tries
  <2>1. ASSUME method = "round_robin", alone = r
        PROVE  /\ request[r].tried = Past(list, index', t + 1)
               /\ Cardinality(request[r].tried) = AtMostAll(list, t + 1)
    <3>1. /\ request[r].tried = Past(list, index, t)
          /\ Cardinality(request[r].tried) = AtMostAll(list, t)
      BY <1>1, <2>1 DEF PoolInv, TriedInOrder
    <3>2. list \in Seq(Proxies) /\ Injective(list) /\ Len(list) \in Nat /\ t \in Nat
      BY <1>1, <1>3 DEF TypeOK, PoolInv, ListedOnce
    <3>3. p = list[index + 1] /\ index' = (index + 1) % Len(list)
      BY <1>2, <2>1 DEF NextIndex
    <3>4. Len(list) <= t
      BY <1>1, <1>2, <3>1, <3>2, <3>3, SeenIfAll
    <3>5. Past(list, index', t + 1) = Past(list, index, t) \cup {p}
      BY <1>2, <3>2, <3>3, PastGrows
    <3>6. AtMostAll(list, t) = Len(list) /\ AtMostAll(list, t + 1) = Len(list)
      BY <3>2, <3>4 DEF AtMostAll
    <3> QED
      BY <1>1, <3>1, <3>5, <3>6
  <2>2. /\ alone' \in {r, Nobody} /\ (alone' = r => alone = r)
        /\ request'[r].tries = t + 1 /\ method' = method /\ list' = list
    BY <1>1, <1>2, <1>3, PoolAssumption
  <2> HIDE DEF t
  <2> QED
    BY <1>3, <2>1, <2>2, TriedInOrderOf
<1>6. /\ GivenUpAtTheEnd' /\ SelectorsOwn'
      /\ TriedIsRecorded' /\ OnlyMongoCalls' /\ StreakIsNoticed'
  BY <1>1, <1>3
     DEF PoolInv, GivenUpAtTheEnd, SelectorsOwn, TriedIsRecorded, OnlyMongoCalls,
         StreakIsNoticed
<1> QED
  BY <1>2, <1>4, <1>5, <1>6 DEF PoolInv

LEMMA FailsStep ==
    ASSUME PoolInv, NEW r \in Requests, NEW p \in Proxies, Fails(r, p)
    PROVE  PoolInv'
<1> DEFINE calls == FailureCalls(request[r].kind)
<1>1. /\ TypeOK /\ Selected(r, p) /\ p \notin request[r].tried
      /\ request' = [request EXCEPT ![r] =
            [pc |-> "select", kind |-> @.kind, tried |-> @.tried \cup {p},
             tries |-> @.tries + 1]]
      /\ Records(r, p, calls)
      /\ request[r].pc = "select"
      /\ UNCHANGED <<driver, method, row, list, events, cut>>
  BY DEF Fails, Selected, PoolInv
<1>2. /\ index \in Slots(list) /\ index' \in Nat
      /\ IndexInRange' /\ ListedOnce' /\ TurnInOrder' /\ turn' \subseteq Proxies
      /\ method = "round_robin" => p = list[index + 1] /\ index' = NextIndex
      /\ alone' = IF alone = r THEN r ELSE Nobody
  BY <1>1, SelectedFacts
<1>3. /\ request' \in [Requests -> Request]
      /\ request'[r].tries = request[r].tries + 1
      /\ request'[r].tried = request[r].tried \cup {p}
      /\ request'[r].pc = "select" /\ request'[r].kind = request[r].kind
      /\ \A o \in Requests : o # r => request'[o] = request[o]
      /\ request[r].tries \in Nat
  <2> DEFINE old == request[r]
             new == [pc |-> "select", kind |-> old.kind,
                     tried |-> old.tried \cup {p}, tries |-> old.tries + 1]
  <2>1. request \in [Requests -> Request] /\ old \in Request
    BY <1>1 DEF TypeOK
  <2>2. /\ new \in Request /\ new.tries = old.tries + 1
        /\ new.tried = old.tried \cup {p}
        /\ new.pc = "select" /\ new.kind = old.kind /\ old.tries \in Nat
    BY <2>1 DEF Request
  <2>3. request' = [request EXCEPT ![r] = new]
    BY <1>1, <2>1
  <2> HIDE DEF new
  <2> QED
    BY <1>1, <2>1, <2>2, <2>3
<1>4. calls \in Seq(Calls) /\ (driver = "mongo" => calls \in Seq(MongoCalls))
  <2>1. request[r].kind \in Kinds
    BY <1>1 DEF PoolInv, SelectorsOwn, Selects, TypeOK, Request
  <2> QED
    BY <2>1, CallsFit
<1>5. job[r][p] = <<>>
  BY <1>1 DEF PoolInv, TriedIsRecorded
<1> HIDE DEF calls
<1>6. /\ job' \in [Requests -> [Proxies -> Seq(Calls)]]
      /\ \A q \in Proxies : q # p => job'[r][q] = job[r][q]
      /\ \A o \in Requests : o # r => job'[o] = job[o]
      /\ OnlyMongoCalls' /\ StreakIsNoticed'
  BY <1>1, <1>4, <1>5, RecordsStep
<1>7. TypeOK'
  BY <1>1, <1>2, <1>3, <1>6 DEF TypeOK, Exists
<1>8. TriedInOrder'
  <2> DEFINE t == request[r].tries
             tried == request[r].tried
  <2>1. ASSUME method = "round_robin", alone = r
        PROVE  /\ tried \cup {p} = Past(list, index', t + 1)
               /\ Cardinality(tried \cup {p}) = AtMostAll(list, t + 1)
    <3>1. /\ tried = Past(list, index, t)
          /\ Cardinality(tried) = AtMostAll(list, t)
      BY <1>1, <2>1 DEF PoolInv, TriedInOrder
    <3>2. list \in Seq(Proxies) /\ Injective(list) /\ Len(list) \in Nat /\ t \in Nat
      BY <1>1, <1>3 DEF TypeOK, PoolInv, ListedOnce
    <3>3. p = list[index + 1] /\ index' = (index + 1) % Len(list)
      BY <1>2, <2>1 DEF NextIndex
    <3>4. ~(Len(list) <= t)
      BY <1>1, <1>2, <3>1, <3>2, <3>3, SeenIfAll
    <3>5. Past(list, index', t + 1) = Past(list, index, t) \cup {p}
      BY <1>2, <3>2, <3>3, PastGrows
    <3>6. AtMostAll(list, t) = t /\ AtMostAll(list, t + 1) = t + 1
      BY <3>2, <3>4 DEF AtMostAll
    <3>7. IsFiniteSet(tried)
      <4>1. tried \subseteq Proxies
        BY <1>1 DEF TypeOK, Request
      <4> QED
        BY <4>1, PoolAssumption, FS_Subset
    <3>8. Cardinality(tried \cup {p}) = Cardinality(tried) + 1
      BY <1>1, <3>7, FS_AddElement
    <3> QED
      BY <3>1, <3>5, <3>6, <3>8
  <2>2. /\ alone' \in {r, Nobody} /\ (alone' = r => alone = r)
        /\ request'[r].tries = t + 1 /\ request'[r].tried = tried \cup {p}
        /\ method' = method /\ list' = list
    BY <1>1, <1>2, <1>3, PoolAssumption
  <2> HIDE DEF t, tried
  <2> QED
    BY <2>1, <2>2, TriedInOrderOf
<1>9. GivenUpAtTheEnd' /\ SelectorsOwn'
  BY <1>1, <1>3 DEF PoolInv, GivenUpAtTheEnd, SelectorsOwn
<1>10. TriedIsRecorded'
  <2> SUFFICES ASSUME NEW o \in Requests, NEW q \in Proxies,
                      request'[o].pc = "select", q \notin request'[o].tried
               PROVE  job'[o][q] = <<>>
    BY DEF TriedIsRecorded
  <2>1. CASE o = r
    <3>1. q # p /\ q \notin request[r].tried
      BY <1>3, <2>1
    <3>2. job[r][q] = <<>>
      BY <1>1, <3>1 DEF PoolInv, TriedIsRecorded
    <3> QED
      BY <1>6, <2>1, <3>1, <3>2
  <2>2. CASE o # r
    <3>1. request'[o] = request[o] /\ job'[o] = job[o]
      BY <1>3, <1>6, <2>2
    <3>2. request[o].pc = "select" /\ q \notin request[o].tried
      BY <3>1
    <3>3. job[o][q] = <<>>
      BY <3>2 DEF PoolInv, TriedIsRecorded
    <3> QED
      BY <3>1, <3>3
  <2> QED
    BY <2>1, <2>2
<1> QED
  BY <1>2, <1>6, <1>7, <1>8, <1>9, <1>10 DEF PoolInv

LEMMA NoRequestFits ==
    /\ NoRequest \in Request
    /\ NoRequest.pc = "idle" /\ NoRequest.tried = {} /\ NoRequest.tries = 0
  BY DEF NoRequest, Request

LEMMA SucceedsStep ==
    ASSUME PoolInv, NEW r \in Requests, NEW p \in Proxies, Succeeds(r, p)
    PROVE  PoolInv'
<1>1. /\ TypeOK /\ Selected(r, p) /\ p \notin request[r].tried
      /\ request' = [request EXCEPT ![r] = NoRequest]
      /\ request[r].pc = "select"
      /\ UNCHANGED <<driver, method, row, list, events, cut>>
  BY DEF Succeeds, Selected, PoolInv
<1>2. /\ index' \in Nat
      /\ IndexInRange' /\ ListedOnce' /\ TurnInOrder' /\ turn' \subseteq Proxies
      /\ alone' = IF alone = r THEN r ELSE Nobody
  BY <1>1, SelectedFacts
<1>3. /\ request' \in [Requests -> Request] /\ request'[r].pc = "idle"
      /\ \A o \in Requests : o # r => request'[o] = request[o]
  BY <1>1, NoRequestFits DEF TypeOK
<1>4. PICK calls \in ServedCalls(request[r].kind) : Records(r, p, calls)
  BY DEF Succeeds
<1>5. calls \in Seq(Calls) /\ (driver = "mongo" => calls \in Seq(MongoCalls))
  <2>1. request[r].kind \in Kinds
    BY <1>1 DEF PoolInv, SelectorsOwn, Selects, TypeOK, Request
  <2> QED
    BY <1>4, <2>1, CallsFit
<1>6. /\ job' \in [Requests -> [Proxies -> Seq(Calls)]]
      /\ \A o \in Requests : o # r => job'[o] = job[o]
      /\ OnlyMongoCalls' /\ StreakIsNoticed'
  <2>1. job[r][p] = <<>>
    BY <1>1 DEF PoolInv, TriedIsRecorded
  <2> QED
    BY <1>1, <1>4, <1>5, <2>1, RecordsStep
<1>7. TypeOK'
  <2>1. alone' \in Requests \cup {Nobody}
    BY <1>2
  <2> QED
    BY <1>1, <1>2, <1>3, <1>6, <2>1 DEF TypeOK, Exists
<1>8. TriedInOrder'
  BY <1>2, <1>3, TriedInOrderOf
<1>9. GivenUpAtTheEnd' /\ SelectorsOwn'
  BY <1>1, <1>3 DEF PoolInv, GivenUpAtTheEnd, SelectorsOwn
<1>10. TriedIsRecorded'
  <2> SUFFICES ASSUME NEW o \in Requests, NEW q \in Proxies,
                      request'[o].pc = "select", q \notin request'[o].tried
               PROVE  job'[o][q] = <<>>
    BY DEF TriedIsRecorded
  <2>1. CASE o = r
    BY <1>3, <2>1
  <2>2. CASE o # r
    <3>1. request'[o] = request[o] /\ job'[o] = job[o]
      BY <1>3, <1>6, <2>2
    <3>2. request[o].pc = "select" /\ q \notin request[o].tried
      BY <3>1
    <3>3. job[o][q] = <<>>
      BY <3>2 DEF PoolInv, TriedIsRecorded
    <3> QED
      BY <3>1, <3>3
  <2> QED
    BY <2>1, <2>2
<1> QED
  BY <1>2, <1>6, <1>7, <1>8, <1>9, <1>10 DEF PoolInv

-----------------------------------------------------------------------------
(* The steps that select nothing.                                          *)

\* The selector, the table and the recordings stay; one request changes its state
\* to one in which it does not select, or to the beginning of selecting.
LEMMA RequestStep ==
    ASSUME PoolInv, NEW r \in Requests, NEW now \in Request,
           request' = [request EXCEPT ![r] = now],
           now.pc = "select" => /\ now.tried = {} /\ now.tries = 0
                                /\ Selects(now.kind)
                                /\ \A p \in Proxies : job[r][p] = <<>>,
           now.pc = "failed" => /\ now.tries = MaxFallback /\ request[r].pc = "select"
                                /\ now.tries = request[r].tries
                                /\ now.tried = request[r].tried /\ alone' = alone,
           alone' \in {alone, Nobody, r}, events' \in 0..MaxEvents,
           UNCHANGED <<driver, method, row, list, index, turn, cut>>
    PROVE  /\ ListedOnce' /\ IndexInRange' /\ TurnInOrder'
           /\ TriedInOrder' /\ GivenUpAtTheEnd' /\ SelectorsOwn'
           /\ UNCHANGED job => PoolInv'
<1>1. /\ TypeOK /\ request' \in [Requests -> Request] /\ request'[r] = now
      /\ \A o \in Requests : o # r => request'[o] = request[o]
  BY DEF PoolInv, TypeOK
<1>2. ListedOnce' /\ IndexInRange' /\ TurnInOrder'
  BY DEF PoolInv, ListedOnce, IndexInRange, TurnInOrder
<1>3. GivenUpAtTheEnd' /\ SelectorsOwn'
  BY <1>1 DEF PoolInv, GivenUpAtTheEnd, SelectorsOwn
<1>4. TriedInOrder'
  <2> SUFFICES ASSUME NEW o \in Requests, alone' = o, method = "round_robin",
                      request'[o].pc \in {"select", "failed"}
               PROVE  /\ request'[o].tried = Past(list, index, request'[o].tries)
                      /\ Cardinality(request'[o].tried) =
                            AtMostAll(list, request'[o].tries)
    BY DEF TriedInOrder
  <2>1. CASE o # r
    <3>1. alone = o
      BY <2>1, PoolAssumption
    <3> QED
      BY <1>1, <2>1, <3>1 DEF PoolInv, TriedInOrder
  <2>2. CASE o = r /\ now.pc = "failed"
    BY <1>1, <2>2 DEF PoolInv, TriedInOrder
  <2>3. CASE o = r /\ now.pc = "select"
    <3>1. list \in Seq(Proxies) /\ index \in Nat /\ Len(list) \in Nat
      BY <1>1 DEF TypeOK
    <3>2. Past(list, index, 0) = {} /\ AtMostAll(list, 0) = 0
      BY <3>1, NothingPassed DEF AtMostAll
    <3> QED
      BY <1>1, <2>3, <3>2, FS_EmptySet
  <2> QED
    BY <1>1, <2>1, <2>2, <2>3
<1>5. ASSUME UNCHANGED job PROVE PoolInv'
  <2>1. TypeOK'
    BY <1>1, <1>5 DEF TypeOK, Exists
  <2>2. TriedIsRecorded'
    BY <1>1, <1>5 DEF PoolInv, TriedIsRecorded
  <2>3. OnlyMongoCalls' /\ StreakIsNoticed'
    BY <1>5 DEF PoolInv, OnlyMongoCalls, StreakIsNoticed
  <2> QED
    BY <1>2, <1>3, <1>4, <2>1, <2>2, <2>3 DEF PoolInv
<1> QED
  BY <1>2, <1>3, <1>4, <1>5

LEMMA NoProxyStep ==
    ASSUME PoolInv, NEW r \in Requests, NoProxy(r) PROVE PoolInv'
<1>1. /\ request' = [request EXCEPT ![r] = NoRequest]
      /\ UNCHANGED <<driver, method, row, list, index, job, events, turn, alone,
                     cut>>
      /\ events \in 0..MaxEvents
  BY DEF NoProxy, PoolInv, TypeOK
<1> QED
  BY <1>1, NoRequestFits, RequestStep

LEMMA GiveUpStep ==
    ASSUME PoolInv, NEW r \in Requests, GiveUp(r) PROVE PoolInv'
<1> DEFINE now == [request[r] EXCEPT !.pc = "failed"]
<1>1. /\ request' = [request EXCEPT ![r] = now] /\ request[r].pc = "select"
      /\ request[r].tries = MaxFallback /\ request[r] \in Request
      /\ UNCHANGED <<driver, method, row, list, index, job, events, turn, alone,
                     cut>>
      /\ events \in 0..MaxEvents
  BY DEF GiveUp, PoolInv, TypeOK
<1>2. /\ now \in Request /\ now.pc = "failed" /\ now.tries = request[r].tries
      /\ now.tried = request[r].tried
  BY <1>1 DEF Request
<1> HIDE DEF now
<1> QED
  BY <1>1, <1>2, RequestStep

LEMMA BeginStep ==
    ASSUME PoolInv, NEW r \in Requests, NEW kind \in Kinds, Begin(r, kind)
    PROVE  PoolInv'
<1> DEFINE now == [NoRequest EXCEPT !.pc = "select", !.kind = kind]
<1>1. /\ request' = [request EXCEPT ![r] = now]
      /\ alone' \in {alone, Nobody, r} /\ events' \in 0..MaxEvents
      /\ Selects(kind) /\ \A p \in Proxies : job[r][p] = <<>>
      /\ UNCHANGED <<driver, method, row, list, index, job, turn, cut>>
  BY PoolAssumption DEF Begin, Event, Free, PoolInv, TypeOK
<1>2. /\ now \in Request /\ now.pc = "select" /\ now.tries = 0 /\ now.tried = {}
      /\ now.kind = kind
  BY DEF NoRequest, Request
<1> HIDE DEF now
<1> QED
  BY <1>1, <1>2, RequestStep

LEMMA HasOneProxyStep ==
    ASSUME PoolInv, NEW r \in Requests, NEW kind \in Kinds, HasOneProxy(r, kind)
    PROVE  PoolInv'
<1>1. /\ TypeOK /\ request' = [request EXCEPT ![r] = NoRequest]
      /\ events' \in 0..MaxEvents
      /\ \A p \in Proxies : job[r][p] = <<>>
      /\ UNCHANGED <<driver, method, row, list, index, turn, alone, cut>>
  BY PoolAssumption DEF HasOneProxy, Event, Free, PoolInv, TypeOK
<1>2. PICK p \in Proxies, calls \in ServedCalls(kind) \cup {FailureCalls(kind)} :
            Records(r, p, calls)
  BY DEF HasOneProxy, Eligible
<1>3. /\ job' \in [Requests -> [Proxies -> Seq(Calls)]]
      /\ \A o \in Requests : o # r => job'[o] = job[o]
      /\ OnlyMongoCalls' /\ StreakIsNoticed'
  BY <1>1, <1>2, CallsFit, RecordsStep
<1>4. /\ ListedOnce' /\ IndexInRange' /\ TurnInOrder'
      /\ TriedInOrder' /\ GivenUpAtTheEnd' /\ SelectorsOwn'
  BY <1>1, NoRequestFits, RequestStep
<1>5. /\ request' \in [Requests -> Request] /\ request'[r].pc = "idle"
      /\ \A o \in Requests : o # r => request'[o] = request[o]
  BY <1>1, NoRequestFits DEF TypeOK
<1>6. TypeOK'
  BY <1>1, <1>3, <1>5 DEF TypeOK, Exists
<1>7. TriedIsRecorded'
  <2> SUFFICES ASSUME NEW o \in Requests, NEW q \in Proxies, request'[o].pc = "select",
                      q \notin request'[o].tried
               PROVE  job'[o][q] = <<>>
    BY DEF TriedIsRecorded
  <2>1. o # r /\ request'[o] = request[o] /\ job'[o] = job[o]
    BY <1>3, <1>5
  <2> QED
    BY <2>1 DEF PoolInv, TriedIsRecorded
<1> QED
  BY <1>3, <1>4, <1>6, <1>7 DEF PoolInv

-----------------------------------------------------------------------------
(* The recordings.                                                         *)

\* What one goroutine has left shrinks, or grows by what a call found.
LEMMA JobChanges ==
    ASSUME PoolInv, NEW r \in Requests, NEW p \in Proxies, job[r][p] # <<>>,
           NEW left \in Seq(Calls), driver = "mongo" => left \in Seq(MongoCalls),
           job' = [job EXCEPT ![r][p] = left],
           UNCHANGED <<driver, request>>
    PROVE  /\ job' \in [Requests -> [Proxies -> Seq(Calls)]]
           /\ job'[r][p] = left
           /\ \A q \in Proxies : q # p => job'[r][q] = job[r][q]
           /\ \A o \in Requests : o # r => job'[o] = job[o]
           /\ OnlyMongoCalls' /\ TriedIsRecorded'
<1>1. job \in [Requests -> [Proxies -> Seq(Calls)]]
  BY DEF PoolInv, TypeOK
<1>2. /\ job' \in [Requests -> [Proxies -> Seq(Calls)]]
      /\ job'[r][p] = left
      /\ \A q \in Proxies : q # p => job'[r][q] = job[r][q]
      /\ \A o \in Requests : o # r => job'[o] = job[o]
  BY <1>1
<1>3. OnlyMongoCalls'
  <2> SUFFICES ASSUME driver = "mongo", NEW o \in Requests, NEW q \in Proxies
               PROVE  job'[o][q] \in Seq(MongoCalls)
    BY DEF OnlyMongoCalls
  <2>1. job[o][q] \in Seq(MongoCalls)
    BY DEF PoolInv, OnlyMongoCalls
  <2> QED
    BY <1>2, <2>1
<1>4. TriedIsRecorded'
  <2> SUFFICES ASSUME NEW o \in Requests, NEW q \in Proxies,
                      request[o].pc = "select", q \notin request[o].tried
               PROVE  job'[o][q] = <<>>
    BY DEF TriedIsRecorded
  <2>1. job[o][q] = <<>>
    BY DEF PoolInv, TriedIsRecorded
  <2>2. o # r \/ q # p
    BY <2>1
  <2> QED
    BY <1>2, <2>1, <2>2
<1> QED
  BY <1>2, <1>3, <1>4

\* What the calls do to a row that is there.
LEMMA RowAfterFits ==
    ASSUME TypeOK, NEW p \in Proxies, Exists(p), NEW call \in Calls
    PROVE  /\ RowAfter(p, call) \in Row
           /\ RowAfter(p, call).status # "absent"
<1> DEFINE old == row[p]
<1>1. old \in Row /\ old.status # "absent"
  BY DEF TypeOK, Exists
<1>2. /\ OneMore(p) \in 0..Threshold
      /\ RowAfterSuccess(p) \in Row /\ RowAfterSuccess(p).status # "absent"
  BY <1>1 DEF OneMore, RowAfterSuccess, Row, Threshold
<1>3. RowAfterFailure(p) \in Row /\ RowAfterFailure(p).status # "absent"
  BY <1>1, <1>2 DEF RowAfterFailure, Row
<1>4. \A status \in {"active", "failed"} :
        /\ [old EXCEPT !.status = status] \in Row
        /\ [old EXCEPT !.status = status].status # "absent"
  <2> HIDE DEF old
  <2> QED
    BY <1>1 DEF Row
<1>5. call \in {"success", "check_ok", "count", "check_count", "threshold", "mark",
                "check_failed", "check_active", "check_read"}
  BY DEF Calls
<1>6. RowAfter(p, call) \in {RowAfterSuccess(p), RowAfterFailure(p), old,
                             [old EXCEPT !.status = "active"],
                             [old EXCEPT !.status = "failed"]}
  BY <1>5 DEF RowAfter
<1> HIDE DEF old
<1> QED
  BY <1>1, <1>2, <1>3, <1>4, <1>6

LEMMA RecordStep ==
    ASSUME PoolInv, NEW r \in Requests, NEW p \in Proxies, Record(r, p)
    PROVE  PoolInv'
<1> DEFINE call == Head(job[r][p])
           left == Follows(p, call) \o Tail(job[r][p])
<1>1. /\ TypeOK /\ job[r][p] # <<>> /\ job[r][p] \in Seq(Calls)
      /\ row' = [row EXCEPT ![p] = Updated(p, call)]
      /\ job' = [job EXCEPT ![r][p] = left]
      /\ UNCHANGED <<driver, method, list, index, request, events, turn, alone, cut>>
  BY DEF Record, PoolInv, TypeOK
<1>2. /\ call \in Calls /\ Tail(job[r][p]) \in Seq(Calls)
      /\ driver = "mongo" => call \in MongoCalls
                             /\ Tail(job[r][p]) \in Seq(MongoCalls)
  BY <1>1 DEF PoolInv, OnlyMongoCalls
<1>3. /\ Follows(p, call) \in Seq(Calls)
      /\ driver = "mongo" => Follows(p, call) \in Seq(MongoCalls)
  <2>1. Follows(p, call) \in {<<>>, <<"threshold">>}
        \/ /\ call = "check_read"
           /\ Follows(p, call) \in {<<"check_failed">>, <<"check_active">>}
    BY <1>2 DEF Follows
  <2>2. /\ "threshold" \in MongoCalls /\ "check_read" \notin MongoCalls
        /\ "threshold" \in Calls /\ "check_failed" \in Calls /\ "check_active" \in Calls
    BY DEF Calls, MongoCalls
  <2>3. \A S : <<>> \in Seq(S) /\ \A x \in S : <<x>> \in Seq(S)
    OBVIOUS
  <2> HIDE DEF call
  <2> QED
    BY <1>2, <2>1, <2>2, <2>3
<1>4. left \in Seq(Calls) /\ (driver = "mongo" => left \in Seq(MongoCalls))
  BY <1>2, <1>3
<1> HIDE DEF left
<1>5. /\ job' \in [Requests -> [Proxies -> Seq(Calls)]]
      /\ job'[r][p] = left
      /\ \A q \in Proxies : q # p => job'[r][q] = job[r][q]
      /\ \A o \in Requests : o # r => job'[o] = job[o]
      /\ OnlyMongoCalls' /\ TriedIsRecorded'
  BY <1>1, <1>4, JobChanges
<1>6. /\ row' \in [Proxies -> Row]
      /\ \A q \in Proxies : q # p => row'[q] = row[q]
      /\ row'[p] = Updated(p, call)
      /\ row'[p].status = "absent" => row'[p].fails = 0
  <2>1. /\ Updated(p, call) \in Row
        /\ Updated(p, call).status = "absent" => Updated(p, call).fails = 0
    BY <1>1, <1>2, RowAfterFits DEF Updated, TypeOK, Exists
  <2> QED
    BY <1>1, <2>1 DEF TypeOK
<1>7. TypeOK'
  BY <1>1, <1>5, <1>6 DEF TypeOK, Exists
<1>8. StreakIsNoticed'
  <2> SUFFICES ASSUME driver = "mongo", NEW q \in Proxies \ cut,
                      row'[q].fails = Threshold, row'[q].status # "failed"
               PROVE  \E o \in Requests :
                        job'[o][q] # <<>> /\ Head(job'[o][q]) = "threshold"
    BY <1>1 DEF StreakIsNoticed
  <2>1. CASE q # p
    <3>1. PICK o \in Requests : job[o][q] # <<>> /\ Head(job[o][q]) = "threshold"
      BY <1>6, <2>1 DEF PoolInv, StreakIsNoticed
    <3>2. job'[o][q] = job[o][q]
      BY <1>5, <2>1
    <3> QED
      BY <3>1, <3>2
  <2>2. CASE q = p
    <3>1. Exists(p)
      BY <1>1, <1>6, <2>2 DEF Updated, TypeOK, Exists, Threshold
    <3>2. row'[p] = RowAfter(p, call) /\ call \in MongoCalls
      BY <1>2, <1>6, <3>1 DEF Updated
    <3>3. call \in {"count", "check_count"}
      <4>1. call \notin {"success", "check_ok"}
        BY <2>2, <3>2 DEF RowAfter, RowAfterSuccess, Threshold
      <4>2. call \notin {"threshold", "mark"}
        <5>1. row[p] \in Row
          BY <1>1 DEF TypeOK
        <5> QED
          BY <2>2, <3>2, <5>1 DEF RowAfter, Row
      <4> QED
        BY <3>2, <4>1, <4>2 DEF MongoCalls
    <3>4. TooMany(p)
      BY <2>2, <3>2, <3>3 DEF RowAfter, RowAfterFailure, TooMany
    <3>5. left = <<"threshold">> \o Tail(job[r][p])
      BY <3>1, <3>3, <3>4 DEF Follows, left
    <3>6. left # <<>> /\ Head(left) = "threshold"
      <4>1. "threshold" \in Calls
        BY DEF Calls
      <4>2. /\ <<"threshold">> \in Seq(Calls)
            /\ Len(left) = 1 + Len(Tail(job[r][p])) /\ left[1] = "threshold"
        BY <1>2, <3>5, <4>1
      <4> QED
        BY <1>2, <1>4, <4>2
    <3> QED
      BY <1>5, <2>2, <3>6
  <2> QED
    BY <2>1, <2>2
<1>9. /\ ListedOnce' /\ IndexInRange' /\ TurnInOrder'
      /\ TriedInOrder' /\ GivenUpAtTheEnd' /\ SelectorsOwn'
  BY <1>1 DEF PoolInv, ListedOnce, IndexInRange, TurnInOrder, TriedInOrder,
              GivenUpAtTheEnd, SelectorsOwn
<1> QED
  BY <1>5, <1>7, <1>8, <1>9 DEF PoolInv

LEMMA RecordFailsStep ==
    ASSUME PoolInv, NEW r \in Requests, NEW p \in Proxies, RecordFails(r, p)
    PROVE  PoolInv'
<1>1. /\ TypeOK /\ job[r][p] # <<>> /\ job[r][p] \in Seq(Calls)
      /\ job' = [job EXCEPT ![r][p] = Tail(job[r][p])]
      /\ cut' = cut \cup {p} /\ events' \in 0..MaxEvents
      /\ UNCHANGED <<driver, method, row, list, index, request, turn, alone>>
  BY PoolAssumption DEF RecordFails, Event, PoolInv, TypeOK
<1>2. /\ Tail(job[r][p]) \in Seq(Calls)
      /\ driver = "mongo" => Tail(job[r][p]) \in Seq(MongoCalls)
  <2>1. driver = "mongo" => job[r][p] \in Seq(MongoCalls)
    BY DEF PoolInv, OnlyMongoCalls
  <2> QED
    BY <1>1, <2>1
<1>3. /\ job' \in [Requests -> [Proxies -> Seq(Calls)]]
      /\ \A q \in Proxies : q # p => job'[r][q] = job[r][q]
      /\ \A o \in Requests : o # r => job'[o] = job[o]
      /\ OnlyMongoCalls' /\ TriedIsRecorded'
  BY <1>1, <1>2, JobChanges
<1>4. TypeOK'
  BY <1>1, <1>3 DEF TypeOK, Exists
<1>5. StreakIsNoticed'
  <2> SUFFICES ASSUME driver = "mongo", NEW q \in Proxies \ cut', q # p,
                      row[q].fails = Threshold, row[q].status # "failed"
               PROVE  \E o \in Requests :
                        job'[o][q] # <<>> /\ Head(job'[o][q]) = "threshold"
    BY <1>1 DEF StreakIsNoticed
  <2>1. PICK o \in Requests : job[o][q] # <<>> /\ Head(job[o][q]) = "threshold"
    BY <1>1 DEF PoolInv, StreakIsNoticed
  <2>2. job'[o][q] = job[o][q]
    BY <1>3
  <2> QED
    BY <2>1, <2>2
<1>6. /\ ListedOnce' /\ IndexInRange' /\ TurnInOrder'
      /\ TriedInOrder' /\ GivenUpAtTheEnd' /\ SelectorsOwn'
  BY <1>1 DEF PoolInv, ListedOnce, IndexInRange, TurnInOrder, TriedInOrder,
              GivenUpAtTheEnd, SelectorsOwn
<1> QED
  BY <1>3, <1>4, <1>5, <1>6 DEF PoolInv

-----------------------------------------------------------------------------
(* The outside.                                                            *)

\* The operator changes rows, and never to a full streak.
LEMMA RowsStep ==
    ASSUME PoolInv, row' \in [Proxies -> Row], events' \in 0..MaxEvents,
           \A p \in Proxies : \/ row'[p] = row[p]
                              \/ row'[p].fails = 0,
           UNCHANGED <<driver, method, list, index, request, job, turn, alone, cut>>
    PROVE  PoolInv'
<1>1. TypeOK'
  BY DEF PoolInv, TypeOK, Exists
<1>2. StreakIsNoticed'
  BY DEF PoolInv, StreakIsNoticed, Threshold
<1> QED
  BY <1>1, <1>2 DEF PoolInv, ListedOnce, IndexInRange, TurnInOrder, TriedInOrder,
                    GivenUpAtTheEnd, SelectorsOwn, TriedIsRecorded, OnlyMongoCalls

LEMMA OperatorStep ==
    ASSUME PoolInv, (\E p \in Proxies : Create(p) \/ Delete(p)) \/ ResetProxies
    PROVE  PoolInv'
<1>1. row \in [Proxies -> Row]
  BY DEF PoolInv, TypeOK
<1>2. \A status \in {"absent", "active", "idle"} :
        [status |-> status, fails |-> 0] \in Row
  BY DEF Row, Threshold
<1>3. /\ row' \in [Proxies -> Row] /\ events' \in 0..MaxEvents
      /\ \A p \in Proxies : row'[p] = row[p] \/ row'[p].fails = 0
      /\ UNCHANGED <<driver, method, list, index, request, job, turn, alone, cut>>
  <2>1. ASSUME Event PROVE events' \in 0..MaxEvents
    BY <2>1, PoolAssumption DEF Event, PoolInv, TypeOK
  <2>2. CASE \E p \in Proxies : Create(p) \/ Delete(p)
    BY <1>1, <1>2, <2>1, <2>2 DEF Create, Delete
  <2>3. CASE ResetProxies
    BY <1>1, <1>2, <2>1, <2>3 DEF ResetProxies, RowAfterSuccess
  <2> QED
    BY <2>2, <2>3
<1> QED
  BY <1>3, RowsStep

LEMMA RestartStep == ASSUME PoolInv, Restart PROVE PoolInv'
<1>1. /\ TypeOK /\ list' \in Loadable /\ index' \in FirstIndex(Len(list'))
      /\ request' = NoRequests /\ job' = NoJobs /\ turn' = {} /\ alone' = Nobody
      /\ cut' = cut \cup {p \in Proxies : \E r \in Requests : job[r][p] # <<>>}
      /\ events' \in 0..MaxEvents
      /\ UNCHANGED <<driver, method, row>>
  BY PoolAssumption DEF Restart, Event, PoolInv, TypeOK
<1>2. index' \in Nat /\ (list' # <<>> => index' < Len(list'))
  <2>1. list' \in Seq(Proxies)
    BY <1>1, Listing
  <2>2. Len(list') \in Nat /\ (list' # <<>> => Len(list') # 0)
    BY <2>1
  <2> QED
    BY <1>1, <2>2 DEF FirstIndex
<1>3. list' \in Seq(Proxies) /\ ListedOnce' /\ IndexInRange' /\ TriedInOrder' /\ TurnInOrder'
  BY <1>1, <1>2, NewList
<1>4. /\ request' \in [Requests -> Request]
      /\ \A r \in Requests : request'[r].pc = "idle"
  BY <1>1, NoRequestFits DEF NoRequests
<1>5. /\ job' \in [Requests -> [Proxies -> Seq(Calls)]]
      /\ \A r \in Requests, p \in Proxies : job'[r][p] = <<>>
  BY <1>1 DEF NoJobs
<1>6. TypeOK'
  BY <1>1, <1>2, <1>3, <1>4, <1>5 DEF TypeOK, Exists
<1>7. GivenUpAtTheEnd' /\ SelectorsOwn' /\ TriedIsRecorded' /\ OnlyMongoCalls'
  BY <1>4, <1>5 DEF GivenUpAtTheEnd, SelectorsOwn, TriedIsRecorded, OnlyMongoCalls
<1>8. StreakIsNoticed'
  <2> SUFFICES ASSUME driver = "mongo", NEW p \in Proxies \ cut',
                      row[p].fails = Threshold, row[p].status # "failed"
               PROVE  FALSE
    BY <1>1 DEF StreakIsNoticed
  <2>1. \E r \in Requests : job[r][p] # <<>>
    BY <1>1 DEF PoolInv, StreakIsNoticed
  <2> QED
    BY <1>1, <2>1
<1> QED
  BY <1>3, <1>6, <1>7, <1>8 DEF PoolInv

LEMMA UnchangedStep == ASSUME PoolInv, UNCHANGED vars PROVE PoolInv'
  BY DEF vars, PoolInv, TypeOK, Exists, ListedOnce, IndexInRange, TurnInOrder,
         TriedInOrder, GivenUpAtTheEnd, SelectorsOwn, TriedIsRecorded,
         OnlyMongoCalls, StreakIsNoticed

LEMMA PoolStep == PoolInv /\ [Next]_vars => PoolInv'
<1> SUFFICES ASSUME PoolInv, [Next]_vars PROVE PoolInv'
  OBVIOUS
<1>1. ASSUME NEW r \in Requests, NEW kind \in Kinds,
             Begin(r, kind) \/ HasOneProxy(r, kind)
      PROVE  PoolInv'
  BY <1>1, BeginStep, HasOneProxyStep
<1>2. ASSUME NEW r \in Requests, Serve(r) PROVE PoolInv'
  BY <1>2, RepeatsStep, SucceedsStep, FailsStep, NoProxyStep, GiveUpStep DEF Serve
<1>3. ASSUME NEW r \in Requests, NEW p \in Proxies, Record(r, p) \/ RecordFails(r, p)
      PROVE  PoolInv'
  BY <1>3, RecordStep, RecordFailsStep
<1>4. CASE Outside
  BY <1>4, OperatorStep, RestartStep DEF Outside
<1>5. CASE Refresh
  BY <1>5, RefreshStep
<1>6. CASE Rest \/ UNCHANGED vars
  BY <1>6, UnchangedStep DEF Rest
<1> QED
  BY <1>1, <1>2, <1>3, <1>4, <1>5, <1>6 DEF Next

-----------------------------------------------------------------------------
(* The theorems.                                                           *)

\* The invariant of which the properties are parts or consequences.
THEOREM PoolInvariant == Spec => []PoolInv
<1> QED
  BY PoolInit, PoolStep, PTL DEF Spec

\* Rows, lists, requests and recordings have the shapes the code gives them, and
\* the row of a deleted proxy stays without a streak (no update is an upsert).
THEOREM TypeCorrect == Spec => []TypeOK
<1>1. PoolInv => TypeOK
  BY DEF PoolInv
<1> QED
  BY <1>1, PoolInvariant, PTL

\* RoundRobinSelector.Select indexes its list without a check of its own, and is
\* never past its end: Refresh resets the index that a shorter list leaves behind.
THEOREM SelectIsInRange == Spec => []IndexInRange
<1>1. PoolInv => IndexInRange
  BY DEF PoolInv
<1> QED
  BY <1>1, PoolInvariant, PTL

\* A round-robin request whose selections no other came between answers "all
\* proxies failed" only after trying as many different proxies as fallback and
\* the list allow (sendWithRetry, connectThroughProxy).
THEOREM GivingUpIsEarned == Spec => []AloneTriesAll
<1>1. PoolInv => AloneTriesAll
  <2> SUFFICES ASSUME PoolInv, NEW r \in Requests, request[r].pc = "failed",
                      method = "round_robin", alone = r
               PROVE  Cardinality(request[r].tried) =
                        IF Len(list) < MaxFallback THEN Len(list) ELSE MaxFallback
    BY DEF AloneTriesAll
  <2>1. /\ Cardinality(request[r].tried) = AtMostAll(list, request[r].tries)
        /\ request[r].tries = MaxFallback
    BY DEF PoolInv, TriedInOrder, GivenUpAtTheEnd
  <2>2. Len(list) \in Nat
    BY DEF PoolInv, TypeOK
  <2> QED
    BY <2>1, <2>2, PoolAssumption DEF AtMostAll
<1> QED
  BY <1>1, PoolInvariant, PTL

\* On Mongo the count of a failure and the decision it calls for are two updates
\* that other goroutines run between: the decision is never lost unless its call
\* is (updateProxyStats, RecordHealthCheckResult).
THEOREM FullStreakFails == Spec => []StreakIsFailed
<1>1. PoolInv => StreakIsFailed
  BY DEF PoolInv, StreakIsNoticed, StreakIsFailed
<1> QED
  BY <1>1, PoolInvariant, PTL

\* A selection that is not the last of its round adds a proxy to it: no proxy is
\* given out twice in a round, whichever requests select.
THEOREM TakingTurns == Spec => RoundRobinTakesTurns
<1> DEFINE Turn == \A r \in Requests :
              /\ method = "round_robin" /\ Len(list) > 1 /\ events' = events
              /\ request[r].pc = "select" /\ request'[r].pc # "failed"
              /\ request'[r] # request[r]
              => turn' # turn
<1>1. PoolInv /\ [Next]_vars => [Turn]_vars
  <2> SUFFICES ASSUME PoolInv, Next, NEW r \in Requests,
                      method = "round_robin", Len(list) > 1, events' = events,
                      request[r].pc = "select", request'[r].pc # "failed",
                      request'[r] # request[r]
               PROVE  turn' # turn
    OBVIOUS
  <2>1. events \in Nat /\ request \in [Requests -> Request] /\ list # <<>>
    <3>1. list # <<>>
      OBVIOUS
    <3> QED
      BY <3>1, PoolAssumption DEF PoolInv, TypeOK
  <2>2. ~Event
    BY <2>1 DEF Event
  <2>3. ~UNCHANGED request
    OBVIOUS
  <2>4. PICK o \in Requests : Serve(o)
    BY <2>2, <2>3
       DEF Next, Rest, Refresh, Begin, HasOneProxy, Record, RecordFails, Outside,
           Create, Delete, ResetProxies, Restart, vars
  <2>5. PICK p \in Proxies : Repeats(o, p) \/ Succeeds(o, p) \/ Fails(o, p)
    <3>1. ~NoProxy(o)
      BY <2>1 DEF NoProxy
    <3>2. ~GiveUp(o)
      BY <2>1 DEF GiveUp, Request
    <3> QED
      BY <2>4, <3>1, <3>2 DEF Serve
  <2>6. Selected(o, p)
    BY <2>5 DEF Repeats, Succeeds, Fails
  <2> QED
    BY <2>6, SelectedFacts
<1> QED
  BY <1>1, PoolInvariant, PTL DEF Spec, RoundRobinTakesTurns
=============================================================================
