--------------------------- MODULE CatalogueProofs ---------------------------
(***************************************************************************)
(* The catalogue for any number of callers, addresses and proxies. That    *)
(* the ids stay in their bounds is a matter of counting: every id used up  *)
(* was an address some request still had before it (Pending). That they    *)
(* are the right ids takes, on Postgres, a sequence that never goes back,  *)
(* and on Mongo, a caller that nobody overtakes.                           *)
(***************************************************************************)
EXTENDS Catalogue, FiniteSetTheorems, TLAPS

ProxyRow == [origin : 0..MaxCreated, address : Addresses \cup {"none"},
             country : Countries]

Call == [pc : {"idle", "number", "insert"}, todo : Seq(Addresses),
         id : Ids \cup {None}, alone : BOOLEAN,
         last : {"none", "created", "address", "id"}]

BatchItem == [id : Ids, address : Addresses]

Types ==
    /\ driver \in Drivers
    /\ proxies \in [Ids -> ProxyRow]
    /\ \A id \in Ids : Exists(id) =>
        proxies[id].origin # None /\ proxies[id].address \in Addresses
    /\ caller \in [Callers -> Call]
    /\ batch \in [Runners -> SUBSET BatchItem]
    /\ serving \subseteq [id : Ids, origin : 1..MaxCreated]
    /\ named \in [Ids -> 0..MaxCreated]
    /\ made \in Nat /\ sequence \in Nat
    /\ tried \in 0..MaxCreated /\ events \in 0..MaxEvents

\* The addresses the requests still have before them.
Pending ==
    {x \in Callers \X (1..MaxCreated) : x[2] <= Len(caller[x[1]].todo)}

\* Each creation begun is pending or has used up an id at most.
Counted ==
    /\ \A c \in Callers : Len(caller[c].todo) <= MaxCreated
    /\ IsFiniteSet(Pending)
    /\ made + Cardinality(Pending) <= tried
    /\ sequence + Cardinality(Pending) <= tried

\* On Mongo no id is ahead of the creations, the ids read for the next insert
\* included.
IdsInOrder ==
    /\ driver = "mongo" => \A id \in Ids : Exists(id) => id <= made
    /\ \A c \in Callers : caller[c].pc = "insert" =>
        /\ driver = "mongo" /\ Creating(c)
        /\ caller[c].id \in 1..(made + 1)

\* On Postgres an id that the sequence has not given out is nobody's, and one
\* that it has stays with its creation.
IdsNotReused ==
    driver = "postgres" =>
        /\ \A id \in Ids : Exists(id) => id <= sequence
        /\ \A id \in Ids : named[id] # None =>
            Exists(id) /\ named[id] = proxies[id].origin
        /\ \A s \in serving :
            /\ s.id <= sequence
            /\ Exists(s.id) => s.origin = proxies[s.id].origin

\* Nobody has come between a request that is alone and the id it has read.
AloneIsAlone ==
    \A c \in Callers : Creating(c) /\ caller[c].alone =>
        /\ \A d \in Callers : Creating(d) => d = c
        /\ caller[c].pc = "insert" => ~Exists(caller[c].id)

CatalogueInv ==
    /\ Types /\ Counted /\ IdsInOrder /\ IdsNotReused /\ AloneIsAlone
    /\ RefusedForItsAddress

-----------------------------------------------------------------------------
(* Highest ids, and how pending addresses are counted.                     *)

\* A set of naturals that is bounded has a highest element.
LEMMA HighestOf ==
    ASSUME NEW b \in Nat, NEW S \in SUBSET (0..b), S # {}
    PROVE  Max(S) \in S /\ \A x \in S : x <= Max(S)
<1> DEFINE R == OpToRel(<, Nat)
           T == {b - x : x \in S}
<1>1. IsWellFoundedOn(R, Nat)
  BY NatLessThanWellFounded
<1>2. \A x, y \in Nat : <<x, y>> \in R <=> x < y
  BY DEF OpToRel
<1> HIDE DEF R
<1>3. PICK n \in T : \A m \in T : <<m, n>> \notin R
  <2>1. T \subseteq Nat
    OBVIOUS
  <2>2. \E x \in S : b - x \in T
    OBVIOUS
  <2> HIDE DEF T
  <2> QED
    BY <1>1, <2>1, <2>2, WFMin
<1>4. PICK x \in S : n = b - x
  OBVIOUS
<1>5. \A y \in S : x >= y
  <2> SUFFICES ASSUME NEW y \in S PROVE x >= y
    OBVIOUS
  <2>1. b - y \in T /\ b - y \in Nat /\ n \in Nat
    OBVIOUS
  <2>2. ~(b - y < n)
    BY <1>2, <1>3, <2>1
  <2> QED
    BY <1>4, <2>2
<1> QED
  BY <1>5 DEF Max

\* nextProxyID is free, and past every id in use.
LEMMA NextIsFree ==
    ASSUME NEW b \in Nat, \A id \in Ids : Exists(id) => id <= b
    PROVE  /\ NextProxyID \in 1..(b + 1)
           /\ \A id \in Ids : Exists(id) => id < NextProxyID
<1> DEFINE S == {0} \cup {id \in Ids : Exists(id)}
<1>1. S \in SUBSET (0..b) /\ S # {}
  BY CatalogueAssumption DEF Ids
<1>2. NextProxyID = Max(S) + 1
  BY DEF NextProxyID
<1>3. \A id \in Ids : Exists(id) => id \in S
  OBVIOUS
<1> HIDE DEF S
<1>4. Max(S) \in S /\ \A x \in S : x <= Max(S)
  BY <1>1, HighestOf
<1>5. Max(S) \in 0..b
  BY <1>1, <1>4
<1> QED
  BY <1>2, <1>3, <1>4, <1>5, CatalogueAssumption DEF Ids

\* An address less before one caller.
LEMMA OnePendingLess ==
    ASSUME Types, Counted, NEW c \in Callers, caller[c].todo # <<>>,
           caller' \in [Callers -> Call],
           caller'[c].todo = Tail(caller[c].todo),
           \A d \in Callers : d # c => caller'[d].todo = caller[d].todo
    PROVE  /\ IsFiniteSet(Pending) /\ IsFiniteSet(Pending')
           /\ Cardinality(Pending) \in Nat /\ Cardinality(Pending') \in Nat
           /\ Cardinality(Pending) = Cardinality(Pending') + 1
           /\ \A d \in Callers : Len(caller'[d].todo) <= MaxCreated
<1> DEFINE n == Len(caller[c].todo)
<1>1. /\ n \in 1..MaxCreated
      /\ Len(caller'[c].todo) = n - 1
      /\ \A d \in Callers : Len(caller[d].todo) \in Nat
  <2>1. caller[c].todo \in Seq(Addresses)
        /\ \A d \in Callers : caller[d].todo \in Seq(Addresses)
    BY DEF Types, Call
  <2>2. n \in Nat /\ n # 0 /\ n <= MaxCreated
    BY <2>1 DEF Counted
  <2> QED
    BY <2>1, <2>2, CatalogueAssumption
<1>2. Pending' = Pending \ {<<c, n>>} /\ <<c, n>> \in Pending
  <2>1. <<c, n>> \in Pending
    BY <1>1 DEF Pending
  <2>2. ASSUME NEW d \in Callers, NEW i \in 1..MaxCreated
        PROVE  <<d, i>> \in Pending' <=> <<d, i>> \in Pending /\ <<d, i>> # <<c, n>>
    <3>1. /\ <<d, i>> \in Pending <=> i <= Len(caller[d].todo)
          /\ <<d, i>> \in Pending' <=> i <= Len(caller'[d].todo)
      BY DEF Pending
    <3>2. CASE d = c
      <4>1. i \in Nat /\ n \in Nat
        BY <1>1, CatalogueAssumption
      <4>2. i <= n - 1 <=> i <= n /\ i # n
        BY <4>1
      <4> QED
        BY <1>1, <3>1, <3>2, <4>2
    <3>3. CASE d # c
      BY <3>1, <3>3
    <3> QED
      BY <3>2, <3>3
  <2>3. Pending \subseteq Callers \X (1..MaxCreated)
        /\ Pending' \subseteq Callers \X (1..MaxCreated)
    BY DEF Pending
  <2> QED
    BY <2>1, <2>2, <2>3
<1>3. IsFiniteSet(Pending)
  BY DEF Counted
<1>4. IsFiniteSet(Pending') /\ Cardinality(Pending') = Cardinality(Pending) - 1
  BY <1>2, <1>3, FS_RemoveElement
<1>5. Cardinality(Pending) \in Nat /\ Cardinality(Pending') \in Nat
  BY <1>3, <1>4, FS_CardinalityType
<1>6. \A d \in Callers : Len(caller'[d].todo) <= MaxCreated
  <2>1. n - 1 <= MaxCreated
    BY <1>1, CatalogueAssumption
  <2> QED
    BY <1>1, <2>1 DEF Counted
<1> QED
  BY <1>3, <1>4, <1>5, <1>6

\* The addresses of a request that begins.
LEMMA MorePending ==
    ASSUME Types, Counted, NEW c \in Callers, caller[c].todo = <<>>,
           NEW addresses \in Seq(Addresses), Len(addresses) <= MaxCreated,
           caller' \in [Callers -> Call],
           caller'[c].todo = addresses,
           \A d \in Callers : d # c => caller'[d].todo = caller[d].todo
    PROVE  /\ IsFiniteSet(Pending')
           /\ Cardinality(Pending) \in Nat /\ Cardinality(Pending') \in Nat
           /\ Cardinality(Pending') = Cardinality(Pending) + Len(addresses)
           /\ \A d \in Callers : Len(caller'[d].todo) <= MaxCreated
<1> DEFINE n == Len(addresses)
           more == {c} \X (1..n)
<1>1. n \in 0..MaxCreated /\ Len(caller[c].todo) = 0
  BY CatalogueAssumption
<1>2. Pending' = Pending \cup more /\ Pending \cap more = {}
  <2>1. ASSUME NEW d \in Callers, NEW i \in 1..MaxCreated
        PROVE  /\ <<d, i>> \in Pending' <=> <<d, i>> \in Pending \/ <<d, i>> \in more
               /\ ~(<<d, i>> \in Pending /\ <<d, i>> \in more)
    BY <1>1, CatalogueAssumption DEF Pending
  <2>2. /\ Pending \subseteq Callers \X (1..MaxCreated)
        /\ Pending' \subseteq Callers \X (1..MaxCreated)
        /\ more \subseteq Callers \X (1..MaxCreated)
    BY <1>1, CatalogueAssumption DEF Pending
  <2> HIDE DEF more
  <2> QED
    BY <2>1, <2>2
<1>3. IsFiniteSet(more) /\ Cardinality(more) = n
  <2>1. IsFiniteSet(1..n) /\ Cardinality(1..n) = n
    <3>1. n \in Nat
      BY <1>1, CatalogueAssumption
    <3> HIDE DEF n
    <3> QED
      BY <3>1, FS_Interval
  <2>2. IsFiniteSet({c}) /\ Cardinality({c}) = 1
    BY FS_Singleton
  <2>3. IsFiniteSet(more) /\ Cardinality(more) = Cardinality({c}) * Cardinality(1..n)
    BY <2>1, <2>2, FS_Product
  <2> QED
    BY <1>1, <2>1, <2>2, <2>3, CatalogueAssumption
<1>4. IsFiniteSet(Pending) /\ Cardinality(Pending \cap more) = 0
  BY <1>2, FS_EmptySet DEF Counted
<1> HIDE DEF more
<1>5. /\ IsFiniteSet(Pending')
      /\ Cardinality(Pending') = Cardinality(Pending) + Cardinality(more)
                                 - Cardinality(Pending \cap more)
  BY <1>2, <1>3, <1>4, FS_Union
<1>6. Cardinality(Pending) \in Nat
  BY <1>4, FS_CardinalityType
<1>7. \A d \in Callers : Len(caller'[d].todo) <= MaxCreated
  BY DEF Counted
<1> QED
  BY <1>1, <1>3, <1>4, <1>5, <1>6, <1>7

\* Nothing of the pending addresses changes with anything else.
LEMMA SamePending ==
    ASSUME Types, Counted, caller' \in [Callers -> Call],
           \A d \in Callers : caller'[d].todo = caller[d].todo
    PROVE  /\ Pending' = Pending
           /\ Cardinality(Pending) \in Nat
           /\ \A d \in Callers : Len(caller'[d].todo) <= MaxCreated
<1>1. IsFiniteSet(Pending)
  BY DEF Counted
<1> QED
  BY <1>1, FS_CardinalityType DEF Counted, Pending

\* The batch has a next item as long as it is not empty.
LEMMA UpNextIsThere ==
    ASSUME Types, NEW run \in Runners, batch[run] # {}
    PROVE  UpNext(run) \in batch[run] /\ UpNext(run) \in BatchItem
<1> DEFINE S == {MaxCreated - p.id : p \in batch[run]}
<1>1. MaxCreated \in Nat /\ batch[run] \subseteq BatchItem
  BY CatalogueAssumption DEF Types
<1>2. \A p \in batch[run] : p.id \in Nat /\ p.id <= MaxCreated
  BY <1>1 DEF BatchItem, Ids
<1>3. S \in SUBSET (0..MaxCreated)
  BY <1>1, <1>2
<1>4. S # {}
  <2>1. PICK p \in batch[run] : TRUE
    OBVIOUS
  <2>2. MaxCreated - p.id \in S
    BY <2>1
  <2> QED
    BY <2>2
<1>5. PICK x \in S : \A y \in S : y <= x
  <2> HIDE DEF S
  <2> QED
    BY <1>1, <1>3, <1>4, HighestOf
<1>6. PICK p \in batch[run] : x = MaxCreated - p.id
  BY <1>5
<1>7. \A q \in batch[run] : p.id <= q.id
  <2> SUFFICES ASSUME NEW q \in batch[run] PROVE p.id <= q.id
    OBVIOUS
  <2>1. MaxCreated - q.id <= MaxCreated - p.id
    BY <1>5, <1>6
  <2> QED
    BY <1>1, <1>2, <2>1
<1> QED
  BY <1>1, <1>6, <1>7 DEF UpNext

-----------------------------------------------------------------------------
(* The requests that create.                                               *)

LEMMA CatalogueInit == Init => CatalogueInv
<1> SUFFICES ASSUME Init PROVE CatalogueInv
  OBVIOUS
<1> USE CatalogueAssumption
<1>1. NoProxy \in ProxyRow /\ Waiting \in Call /\ Waiting.todo = <<>>
  BY DEF NoProxy, ProxyRow, Countries, Waiting, Call, None, Ids
<1>2. Types
  BY <1>1 DEF Init, Types, Exists, None, Ids
<1>3. Counted
  <2>1. \A c \in Callers : Len(caller[c].todo) = 0
    BY <1>1 DEF Init
  <2>2. Pending = {}
    BY <2>1 DEF Pending
  <2> QED
    BY <2>1, <2>2, FS_EmptySet DEF Counted, Init
<1>4. \A id \in Ids : ~Exists(id)
  BY DEF Init, Exists
<1>5. \A c \in Callers : ~Creating(c) /\ caller[c].pc = "idle"
                         /\ caller[c].last = "none"
  BY DEF Init, Creating, Waiting
<1>6. \A id \in Ids : named[id] = None
  BY DEF Init
<1> QED
  BY <1>2, <1>3, <1>4, <1>5, <1>6
     DEF CatalogueInv, IdsInOrder, IdsNotReused, AloneIsAlone,
         RefusedForItsAddress, Init

\* A request has a creation before it, so the counts are not at their end.
LEMMA RoomForOne ==
    ASSUME CatalogueInv, NEW c \in Callers, Creating(c)
    PROVE  made + 1 \in Ids /\ sequence + 1 \in Ids
<1>1. Types /\ Counted /\ caller[c].todo \in Seq(Addresses) /\ caller[c].todo # <<>>
  BY DEF CatalogueInv, Types, Call, Creating
<1>2. Len(caller[c].todo) \in Nat /\ Len(caller[c].todo) # 0
  BY <1>1
<1>3. <<c, 1>> \in Pending
  BY <1>1, <1>2, CatalogueAssumption DEF Pending, Counted
<1>4. IsFiniteSet(Pending) /\ Cardinality(Pending) # 0 /\ Cardinality(Pending) \in Nat
  BY <1>1, <1>3, FS_EmptySet, FS_CardinalityType DEF Counted
<1> QED
  BY <1>1, <1>4, CatalogueAssumption DEF Types, Counted, Ids

LEMMA BeginStep ==
    ASSUME CatalogueInv, NEW c \in Callers, NEW n \in 1..MaxBulk,
           NEW addresses \in [1..n -> Addresses], Begin(c, addresses)
    PROVE  CatalogueInv'
<1>1. /\ Types /\ Counted /\ caller[c].todo = <<>>
      /\ caller \in [Callers -> Call]
  BY DEF CatalogueInv, Begin, Creating, Types
<1>2. addresses \in Seq(Addresses) /\ Len(addresses) \in Nat
  BY CatalogueAssumption
<1>3. /\ tried + Len(addresses) <= MaxCreated
      /\ tried' = tried + Len(addresses)
      /\ UNCHANGED <<driver, proxies, sequence, serving, named, batch, made, events>>
  BY DEF Begin
<1>4. ASSUME NEW d \in Callers, d # c
      PROVE  /\ caller'[d] \in Call
             /\ caller'[d].todo = caller[d].todo
             /\ caller'[d].pc = caller[d].pc /\ caller'[d].id = caller[d].id
             /\ caller'[d].last = caller[d].last
             /\ caller'[d].alone <=> caller[d].alone /\ ~Creating(d)
  <2> DEFINE still == caller[d].alone /\ ~Creating(d)
  <2>1. caller'[d] = [caller[d] EXCEPT !.alone = still]
    BY <1>4 DEF Begin
  <2>2. still \in BOOLEAN
    OBVIOUS
  <2>3. caller[d] \in Call
    BY <1>1
  <2>4. /\ caller'[d] \in Call /\ caller'[d].alone = still
        /\ caller'[d].todo = caller[d].todo
        /\ caller'[d].pc = caller[d].pc /\ caller'[d].id = caller[d].id
        /\ caller'[d].last = caller[d].last
    <3> HIDE DEF still
    <3> QED
      BY <2>1, <2>2, <2>3 DEF Call
  <2> QED
    BY <2>4
<1>5. caller'[c] = [pc |-> "number", todo |-> addresses, id |-> None,
                    alone |-> \A e \in Callers : ~Creating(e), last |-> "none"]
  BY DEF Begin
<1>6. caller'[c] \in Call /\ caller'[c].todo = addresses
  BY <1>2, <1>5 DEF Call
<1>7. caller' \in [Callers -> Call]
  BY <1>4, <1>6 DEF Begin
<1>8. Types'
  BY <1>1, <1>2, <1>3, <1>7, CatalogueAssumption DEF Types, Exists
<1>9. Counted'
  <2>1. /\ IsFiniteSet(Pending')
        /\ Cardinality(Pending) \in Nat /\ Cardinality(Pending') \in Nat
        /\ Cardinality(Pending') = Cardinality(Pending) + Len(addresses)
        /\ \A d \in Callers : Len(caller'[d].todo) <= MaxCreated
    <3>1. Len(addresses) <= MaxCreated
      BY <1>1, <1>2, <1>3, CatalogueAssumption DEF Types
    <3> QED
      BY <1>1, <1>2, <1>4, <1>6, <1>7, <3>1, MorePending
  <2> QED
    BY <1>1, <1>2, <1>3, <2>1, CatalogueAssumption DEF Counted, Types
<1>10. IdsInOrder' /\ IdsNotReused' /\ RefusedForItsAddress'
  BY <1>3, <1>4, <1>5
     DEF CatalogueInv, IdsInOrder, IdsNotReused, RefusedForItsAddress, Creating,
         Exists
<1>11. AloneIsAlone'
  BY <1>1, <1>4, <1>5 DEF AloneIsAlone, Creating
<1> QED
  BY <1>8, <1>9, <1>10, <1>11 DEF CatalogueInv

\* On Mongo: the id that is read is past all ids in use.
LEMMA ReadNextIDStep ==
    ASSUME CatalogueInv, NEW c \in Callers, ReadNextID(c)
    PROVE  CatalogueInv'
<1>1. /\ Types /\ Counted /\ Creating(c) /\ driver = "mongo"
      /\ caller \in [Callers -> Call]
      /\ UNCHANGED <<driver, proxies, sequence, serving, named, batch, made, tried,
                     events>>
  BY DEF CatalogueInv, ReadNextID, Types
<1>2. made + 1 \in Ids /\ made \in Nat
  BY <1>1, RoomForOne DEF Types
<1>3. /\ NextProxyID \in 1..(made + 1) /\ NextProxyID \in Ids
      /\ \A id \in Ids : Exists(id) => id < NextProxyID
  BY <1>1, <1>2, NextIsFree, CatalogueAssumption DEF CatalogueInv, IdsInOrder, Ids
<1>4. /\ caller'[c] = [pc |-> "insert", todo |-> caller[c].todo, id |-> NextProxyID,
                       alone |-> caller[c].alone, last |-> caller[c].last]
      /\ \A d \in Callers : d # c => caller'[d] = caller[d]
      /\ DOMAIN caller' = Callers
  BY <1>1 DEF ReadNextID, Call
<1>5. caller' \in [Callers -> Call]
  <2>1. caller'[c] \in Call
    BY <1>1, <1>3, <1>4 DEF Call
  <2> QED
    BY <1>1, <1>4, <2>1 DEF ReadNextID
<1>6. Types'
  BY <1>1, <1>5 DEF Types, Exists
<1>7. \A d \in Callers : caller'[d].todo = caller[d].todo
  BY <1>4
<1>8. Counted'
  BY <1>1, <1>5, <1>7, SamePending DEF Counted
<1>9. ~Exists(NextProxyID)
  BY <1>3, CatalogueAssumption DEF Ids
<1>10. IdsInOrder' /\ IdsNotReused' /\ RefusedForItsAddress'
  BY <1>1, <1>2, <1>3, <1>4
     DEF CatalogueInv, IdsInOrder, IdsNotReused, RefusedForItsAddress, Creating,
         Exists
<1>11. AloneIsAlone'
  BY <1>1, <1>4, <1>9 DEF CatalogueInv, AloneIsAlone, Creating, Exists
<1> QED
  BY <1>6, <1>8, <1>10, <1>11 DEF CatalogueInv

\* What an insertion, or its failure, leaves of the request.
LEMMA ProceedCall ==
    ASSUME CatalogueInv, NEW c \in Callers, Creating(c),
           NEW result \in {"created", "address", "id"}, Proceed(c, result)
    PROVE  /\ caller' \in [Callers -> Call]
           /\ caller'[c] = [pc |-> "number", todo |-> Tail(caller[c].todo),
                            id |-> None, alone |-> caller[c].alone,
                            last |-> result]
           /\ \A d \in Callers : d # c => caller'[d] = caller[d]
           /\ caller[c].todo \in Seq(Addresses) /\ caller[c].todo # <<>>
           /\ Head(caller[c].todo) \in Addresses
<1>1. /\ caller \in [Callers -> Call] /\ caller[c].todo \in Seq(Addresses)
      /\ caller[c].todo # <<>> /\ caller[c].alone \in BOOLEAN
  BY DEF CatalogueInv, Types, Call, Creating
<1>2. caller' = [caller EXCEPT ![c] =
            [pc |-> "number", todo |-> Tail(caller[c].todo), id |-> None,
             alone |-> caller[c].alone, last |-> result]]
  BY DEF Proceed
<1>3. Tail(caller[c].todo) \in Seq(Addresses) /\ Head(caller[c].todo) \in Addresses
  BY <1>1
<1>4. [pc |-> "number", todo |-> Tail(caller[c].todo), id |-> None,
       alone |-> caller[c].alone, last |-> result] \in Call
  BY <1>1, <1>3 DEF Call
<1> QED
  BY <1>1, <1>2, <1>3, <1>4

\* What the request of an insertion has before and after it.
LEMMA ProceedCounts ==
    ASSUME CatalogueInv, NEW c \in Callers, Creating(c),
           NEW result \in {"created", "address", "id"}, Proceed(c, result),
           made' \in {made, made + 1}, sequence' \in {sequence, sequence + 1},
           UNCHANGED tried
    PROVE  Counted'
<1>1. /\ IsFiniteSet(Pending) /\ IsFiniteSet(Pending')
      /\ Cardinality(Pending) \in Nat /\ Cardinality(Pending') \in Nat
      /\ Cardinality(Pending) = Cardinality(Pending') + 1
      /\ \A d \in Callers : Len(caller'[d].todo) <= MaxCreated
  <2>1. /\ caller' \in [Callers -> Call]
        /\ caller'[c].todo = Tail(caller[c].todo)
        /\ \A d \in Callers : d # c => caller'[d].todo = caller[d].todo
    <3>1. /\ caller' \in [Callers -> Call]
          /\ caller'[c] = [pc |-> "number", todo |-> Tail(caller[c].todo),
                           id |-> None, alone |-> caller[c].alone,
                           last |-> result]
          /\ \A d \in Callers : d # c => caller'[d] = caller[d]
      BY ProceedCall
    <3> QED
      BY <3>1
  <2> QED
    BY <2>1, OnePendingLess DEF CatalogueInv, Creating
<1> QED
  BY <1>1, CatalogueAssumption DEF CatalogueInv, Counted, Types

\* The id that an insertion uses is one there is, and on Postgres a new one.
LEMMA NewIDBounds ==
    ASSUME CatalogueInv, NEW c \in Callers, MayInsert(c)
    PROVE  /\ NewID(c) \in Ids
           /\ driver = "mongo" => NewID(c) = caller[c].id /\ NewID(c) <= made + 1
           /\ driver = "postgres" =>
                NewID(c) = sequence + 1 /\ ~Exists(NewID(c))
<1>1. Creating(c) /\ made + 1 \in Ids /\ sequence + 1 \in Ids /\ Types
  BY RoomForOne DEF MayInsert, CatalogueInv
<1>2. CASE driver = "mongo"
  <2>1. caller[c].id \in 1..(made + 1)
    BY <1>2 DEF MayInsert, CatalogueInv, IdsInOrder
  <2> QED
    BY <1>1, <1>2, <2>1, CatalogueAssumption DEF NewID, Ids, Types
<1>3. CASE driver # "mongo"
  <2>1. driver = "postgres" /\ NewID(c) = sequence + 1
    BY <1>1, <1>3, CatalogueAssumption DEF NewID, Types
  <2>2. ~Exists(sequence + 1)
    BY <1>1, <2>1, CatalogueAssumption DEF CatalogueInv, IdsNotReused, Ids, Types
  <2> QED
    BY <1>1, <2>1, <2>2
<1> QED
  BY <1>2, <1>3

LEMMA InsertStep ==
    ASSUME CatalogueInv, NEW c \in Callers, Insert(c)
    PROVE  CatalogueInv'
<1> DEFINE id == NewID(c)
           row == [origin |-> made + 1, address |-> Head(caller[c].todo),
                   country |-> "none"]
<1>1. /\ MayInsert(c) /\ Creating(c) /\ ~Exists(id) /\ id \in Ids
      /\ proxies' = [proxies EXCEPT ![id] = row]
      /\ Proceed(c, "created") /\ made' = made + 1
      /\ sequence' = IF driver = "mongo" THEN sequence ELSE sequence + 1
      /\ UNCHANGED <<driver, serving, named, batch, tried, events>>
  BY NewIDBounds DEF Insert, MayInsert, Clashes
<1>2. /\ caller' \in [Callers -> Call]
      /\ caller'[c] = [pc |-> "number", todo |-> Tail(caller[c].todo),
                       id |-> None, alone |-> caller[c].alone,
                       last |-> "created"]
      /\ \A d \in Callers : d # c => caller'[d] = caller[d]
      /\ Head(caller[c].todo) \in Addresses
  BY <1>1, ProceedCall
<1>3. /\ Types /\ made + 1 \in Ids /\ sequence + 1 \in Ids
      /\ made \in Nat /\ sequence \in Nat
  BY <1>1, RoomForOne DEF CatalogueInv, Types
<1>4. row \in ProxyRow /\ row # NoProxy /\ row.origin # None
  <2>1. made + 1 \in 1..MaxCreated
    BY <1>3 DEF Ids
  <2> QED
    BY <1>2, <2>1, CatalogueAssumption DEF ProxyRow, Countries, NoProxy, None
<1>5. \A i \in Ids : /\ i # id => (Exists(i)' <=> Exists(i)) /\ proxies'[i] = proxies[i]
                     /\ i = id => Exists(i)' /\ proxies'[i] = row
  BY <1>1, <1>3, <1>4 DEF Exists, Types
<1> HIDE DEF id
<1>6. Types'
  <2>1. proxies' \in [Ids -> ProxyRow]
    BY <1>1, <1>3, <1>4 DEF Types
  <2>2. \A i \in Ids : Exists(i)' =>
            proxies'[i].origin # None /\ proxies'[i].address \in Addresses
    BY <1>2, <1>3, <1>4, <1>5 DEF Types
  <2>3. /\ made' \in Nat /\ sequence' \in Nat
        /\ UNCHANGED <<driver, serving, named, batch, tried, events>>
    BY <1>1, <1>3
  <2> QED
    BY <1>2, <1>3, <2>1, <2>2, <2>3 DEF Types
<1>7. Counted'
  BY <1>1, <1>3, ProceedCounts
<1>8. IdsInOrder'
  <2>1. driver = "mongo" => id <= made + 1
    BY <1>1, NewIDBounds DEF id
  <2>2. ASSUME driver = "mongo", NEW i \in Ids, Exists(i)'
        PROVE  i <= made + 1
    <3>1. i = id \/ i <= made
      BY <1>5, <2>2 DEF CatalogueInv, IdsInOrder
    <3>2. i \in Nat /\ made \in Nat
      BY <1>3, CatalogueAssumption DEF Ids
    <3> QED
      BY <2>1, <2>2, <3>1, <3>2
  <2>3. ASSUME NEW d \in Callers, caller'[d].pc = "insert"
        PROVE  driver' = "mongo" /\ Creating(d)' /\ caller'[d].id \in 1..(made' + 1)
    <3>1. d # c /\ caller'[d] = caller[d]
      BY <1>2, <2>3
    <3> QED
      BY <1>1, <1>3, <2>3, <3>1 DEF CatalogueInv, IdsInOrder, Creating
  <2> QED
    BY <1>1, <2>2, <2>3 DEF IdsInOrder
<1>9. IdsNotReused'
  <2> SUFFICES ASSUME driver = "postgres" PROVE IdsNotReused'
    BY <1>1 DEF IdsNotReused
  <2>1. id = sequence + 1 /\ sequence' = sequence + 1
    BY <1>1, NewIDBounds DEF id
  <2>2. named[id] = None /\ \A s \in serving : s.id # id
    BY <1>1, <1>3, <2>1, CatalogueAssumption
       DEF CatalogueInv, IdsNotReused, Types, Ids
  <2>3. \A i \in Ids : Exists(i)' => i <= sequence'
    BY <1>3, <1>5, <2>1, CatalogueAssumption DEF CatalogueInv, IdsNotReused, Ids
  <2>4. \A i \in Ids : named'[i] # None =>
            Exists(i)' /\ named'[i] = proxies'[i].origin
    BY <1>1, <1>5, <2>2 DEF CatalogueInv, IdsNotReused
  <2>5. \A s \in serving' : /\ s.id <= sequence'
                            /\ Exists(s.id)' => s.origin = proxies'[s.id].origin
    <3> SUFFICES ASSUME NEW s \in serving
                 PROVE  /\ s.id <= sequence + 1
                        /\ Exists(s.id)' => s.origin = proxies'[s.id].origin
      BY <1>1, <2>1
    <3>1. s.id \in Ids /\ s.id # id /\ s.id <= sequence
      BY <1>3, <2>2 DEF CatalogueInv, IdsNotReused, Types
    <3> QED
      BY <1>3, <1>5, <3>1, CatalogueAssumption DEF CatalogueInv, IdsNotReused, Ids
  <2> QED
    BY <2>3, <2>4, <2>5 DEF IdsNotReused
<1>10. AloneIsAlone' /\ RefusedForItsAddress'
  <2>1. \A d \in Callers : Creating(d)' => Creating(d)
    BY <1>1, <1>2 DEF Creating
  <2>2. ASSUME NEW d \in Callers, Creating(d)', caller'[d].alone
        PROVE  /\ \A e \in Callers : Creating(e)' => e = d
               /\ caller'[d].pc = "insert" => ~Exists(caller[d].id)'
    <3>1. Creating(d) /\ caller[d].alone
      BY <1>2, <2>1, <2>2
    <3>2. d = c
      BY <1>1, <3>1 DEF CatalogueInv, AloneIsAlone
    <3> QED
      BY <1>2, <2>1, <3>1, <3>2 DEF CatalogueInv, AloneIsAlone
  <2>3. RefusedForItsAddress'
    BY <1>2 DEF CatalogueInv, RefusedForItsAddress
  <2> QED
    BY <2>2, <2>3 DEF AloneIsAlone
<1> QED
  BY <1>6, <1>7, <1>8, <1>9, <1>10 DEF CatalogueInv

\* A request alone is never refused for its id.
LEMMA InsertFailsStep ==
    ASSUME CatalogueInv, NEW c \in Callers, InsertFails(c)
    PROVE  CatalogueInv'
<1> DEFINE result == IF Taken(Head(caller[c].todo)) THEN "address" ELSE "id"
<1>1. /\ MayInsert(c) /\ Creating(c) /\ Clashes(c)
      /\ Proceed(c, result) /\ result \in {"created", "address", "id"}
      /\ sequence' = IF driver = "mongo" THEN sequence ELSE sequence + 1
      /\ UNCHANGED <<driver, proxies, serving, named, batch, made, tried, events>>
  BY DEF InsertFails, MayInsert
<1>2. result = "id" => ~caller[c].alone
  <2> SUFFICES ASSUME ~Taken(Head(caller[c].todo)) PROVE ~caller[c].alone
    OBVIOUS
  <2>1. Exists(NewID(c))
    BY <1>1 DEF Clashes
  <2>2. driver = "mongo" /\ NewID(c) = caller[c].id /\ caller[c].pc = "insert"
    BY <1>1, <2>1, NewIDBounds, CatalogueAssumption
       DEF MayInsert, CatalogueInv, Types
  <2> QED
    BY <1>1, <2>1, <2>2 DEF CatalogueInv, AloneIsAlone
<1> HIDE DEF result
<1>3. /\ caller' \in [Callers -> Call]
      /\ caller'[c] = [pc |-> "number", todo |-> Tail(caller[c].todo),
                       id |-> None, alone |-> caller[c].alone,
                       last |-> result]
      /\ \A d \in Callers : d # c => caller'[d] = caller[d]
  BY <1>1, ProceedCall
<1>4. Types /\ sequence \in Nat /\ sequence' \in Nat /\ sequence <= sequence'
  BY <1>1 DEF CatalogueInv, Types
<1>5. Types'
  BY <1>1, <1>3, <1>4 DEF Types, Exists
<1>6. Counted'
  BY <1>1, ProceedCounts
<1>7. IdsInOrder'
  <2>1. ASSUME NEW d \in Callers, caller'[d].pc = "insert"
        PROVE  caller'[d] = caller[d]
    BY <1>3, <2>1
  <2> QED
    BY <1>1, <2>1 DEF CatalogueInv, IdsInOrder, Creating, Exists
<1>8. IdsNotReused'
  BY <1>1, <1>4, CatalogueAssumption
     DEF CatalogueInv, IdsNotReused, Exists, Types, Ids
<1>9. AloneIsAlone'
  <2>1. \A d \in Callers : Creating(d)' => Creating(d)
    BY <1>1, <1>3 DEF Creating
  <2> SUFFICES ASSUME NEW d \in Callers, Creating(d)', caller'[d].alone
               PROVE  /\ \A e \in Callers : Creating(e)' => e = d
                      /\ caller'[d].pc = "insert" => ~Exists(caller[d].id)'
    BY DEF AloneIsAlone
  <2>2. Creating(d) /\ caller[d].alone
    BY <1>3, <2>1
  <2>3. d = c
    BY <1>1, <2>2 DEF CatalogueInv, AloneIsAlone
  <2> QED
    BY <1>3, <2>1, <2>2, <2>3 DEF CatalogueInv, AloneIsAlone
<1>10. RefusedForItsAddress'
  BY <1>2, <1>3 DEF CatalogueInv, RefusedForItsAddress
<1> QED
  BY <1>5, <1>6, <1>7, <1>8, <1>9, <1>10 DEF CatalogueInv

-----------------------------------------------------------------------------
(* The rest: steps that make no proxies.                                   *)

\* Proxies that only lose rows, or change in address and country; requests
\* that create do not move.
LEMMA RestStep ==
    ASSUME CatalogueInv, Types',
           UNCHANGED <<driver, sequence, caller, made, tried>>,
           \A id \in Ids : Exists(id)' =>
                Exists(id) /\ proxies'[id].origin = proxies[id].origin,
           IdsNotReused'
    PROVE  CatalogueInv'
<1>1. Counted'
  <2>1. Pending' = Pending
    BY DEF Pending
  <2> QED
    BY <2>1 DEF CatalogueInv, Counted
<1>2. IdsInOrder'
  BY DEF CatalogueInv, IdsInOrder, Creating
<1>3. AloneIsAlone'
  <2>1. \A c \in Callers : caller[c].pc = "insert" => caller[c].id \in Ids
    <3>1. \A c \in Callers : caller[c] \in Call
      BY DEF CatalogueInv, Types
    <3>2. \A c \in Callers : caller[c].pc = "insert" => caller[c].id # None
      BY CatalogueAssumption DEF CatalogueInv, IdsInOrder, None, Types
    <3> QED
      BY <3>1, <3>2 DEF Call
  <2> QED
    BY <2>1 DEF CatalogueInv, AloneIsAlone, Creating
<1>4. RefusedForItsAddress'
  BY DEF CatalogueInv, RefusedForItsAddress
<1> QED
  BY <1>1, <1>2, <1>3, <1>4 DEF CatalogueInv

LEMMA UpdateStep ==
    ASSUME CatalogueInv, NEW id \in Ids, NEW address \in Addresses,
           NEW country \in Countries, Update(id, address, country)
    PROVE  CatalogueInv'
<1>1. /\ Types /\ Exists(id) /\ events' \in 0..MaxEvents
      /\ proxies' = [proxies EXCEPT ![id].address = address, ![id].country = country]
      /\ UNCHANGED <<driver, sequence, caller, serving, named, batch, made, tried>>
  BY CatalogueAssumption DEF Update, Event, CatalogueInv, Types
<1>2. /\ proxies'[id] = [proxies[id] EXCEPT !.address = address, !.country = country]
      /\ \A i \in Ids : i # id => proxies'[i] = proxies[i]
      /\ proxies[id] \in ProxyRow
  BY <1>1 DEF Types
<1>3. /\ proxies'[id] \in ProxyRow /\ proxies'[id].origin = proxies[id].origin
      /\ proxies'[id].address = address /\ Exists(id)'
  <2>1. proxies'[id] \in ProxyRow /\ proxies'[id].origin = proxies[id].origin
        /\ proxies'[id].address = address
    BY <1>2 DEF ProxyRow, Countries
  <2> QED
    BY <2>1, CatalogueAssumption DEF Exists, NoProxy
<1>4. Types'
  BY <1>1, <1>2, <1>3 DEF Types, Exists
<1>5. \A i \in Ids : (Exists(i)' <=> Exists(i)) /\ proxies'[i].origin = proxies[i].origin
  BY <1>1, <1>2, <1>3 DEF Exists
<1>6. IdsNotReused'
  BY <1>1, <1>5 DEF CatalogueInv, IdsNotReused, Types
<1> QED
  BY <1>1, <1>4, <1>5, <1>6, RestStep

LEMMA DeleteStep ==
    ASSUME CatalogueInv, NEW id \in Ids, Delete(id)
    PROVE  CatalogueInv'
<1>1. /\ Types /\ events' \in 0..MaxEvents
      /\ proxies' = [proxies EXCEPT ![id] = NoProxy]
      /\ named' = Cascade(id)
      /\ UNCHANGED <<driver, sequence, caller, serving, batch, made, tried>>
  BY CatalogueAssumption DEF Delete, Event, CatalogueInv, Types
<1>2. NoProxy \in ProxyRow
  BY CatalogueAssumption DEF NoProxy, ProxyRow, Countries, None
<1>3. /\ ~Exists(id)'
      /\ \A i \in Ids : i # id => (Exists(i)' <=> Exists(i)) /\ proxies'[i] = proxies[i]
  BY <1>1 DEF Exists, Types
<1>4. named' \in [Ids -> 0..MaxCreated]
  BY <1>1, CatalogueAssumption DEF Cascade, Types, None
<1>5. Types'
  <2>1. proxies' \in [Ids -> ProxyRow]
    BY <1>1, <1>2 DEF Types
  <2> QED
    BY <1>1, <1>3, <1>4, <2>1 DEF Types
<1>6. IdsNotReused'
  <2> SUFFICES ASSUME driver = "postgres" PROVE IdsNotReused'
    BY <1>1 DEF IdsNotReused
  <2>1. named'[id] = None /\ \A i \in Ids : i # id => named'[i] = named[i]
    BY <1>1 DEF Cascade, Types
  <2> QED
    BY <1>1, <1>3, <2>1 DEF CatalogueInv, IdsNotReused, Types
<1> QED
  BY <1>1, <1>3, <1>5, <1>6, RestStep

LEMMA ServeStep ==
    ASSUME CatalogueInv, NEW id \in Ids, Serve(id)
    PROVE  CatalogueInv'
<1> DEFINE s == [id |-> id, origin |-> proxies[id].origin]
<1>1. /\ Types /\ Exists(id) /\ events' \in 0..MaxEvents
      /\ serving' = serving \cup {s}
      /\ UNCHANGED <<driver, proxies, sequence, caller, named, batch, made, tried>>
  BY CatalogueAssumption DEF Serve, Event, CatalogueInv, Types
<1>2. proxies[id].origin \in 1..MaxCreated
  BY <1>1, CatalogueAssumption DEF Types, ProxyRow, Countries, None
<1>3. s.id = id /\ s.origin = proxies[id].origin
      /\ s \in [id : Ids, origin : 1..MaxCreated]
  BY <1>2
<1> HIDE DEF s
<1>4. Types'
  BY <1>1, <1>3 DEF Types, Exists
<1>5. IdsNotReused'
  BY <1>1, <1>3 DEF CatalogueInv, IdsNotReused, Exists
<1> QED
  BY <1>1, <1>4, <1>5, RestStep DEF Exists

\* A late write names a proxy that is still its own, or nobody.
LEMMA ServedStep ==
    ASSUME CatalogueInv, NEW s \in serving, Served(s)
    PROVE  CatalogueInv'
<1>1. /\ Types /\ s.id \in Ids /\ s.origin \in 1..MaxCreated
      /\ serving' = serving \ {s}
      /\ named' = IF Accepted(s.id) /\ named[s.id] = None
                  THEN [named EXCEPT ![s.id] = s.origin] ELSE named
      /\ UNCHANGED <<driver, proxies, sequence, caller, batch, made, tried, events>>
  BY DEF Served, CatalogueInv, Types
<1>2. named' \in [Ids -> 0..MaxCreated]
  BY <1>1, CatalogueAssumption DEF Types
<1>3. Types'
  BY <1>1, <1>2 DEF Types, Exists
<1>4. IdsNotReused'
  <2> SUFFICES ASSUME driver = "postgres" PROVE IdsNotReused'
    BY <1>1 DEF IdsNotReused
  <2>1. ASSUME NEW i \in Ids, named'[i] # named[i]
        PROVE  i = s.id /\ Exists(i) /\ named'[i] = proxies[i].origin
    <3>1. i = s.id /\ Accepted(s.id) /\ named'[i] = s.origin
      BY <1>1, <2>1 DEF Types
    <3> QED
      BY <3>1 DEF CatalogueInv, IdsNotReused, Accepted
  <2> QED
    BY <1>1, <2>1 DEF CatalogueInv, IdsNotReused, Exists
<1> QED
  BY <1>1, <1>3, <1>4, RestStep DEF Exists

LEMMA StartPassStep ==
    ASSUME CatalogueInv, NEW run \in Runners, NEW force \in BOOLEAN,
           StartPass(run, force)
    PROVE  CatalogueInv'
<1> DEFINE items == {[id |-> id, address |-> proxies[id].address] :
                        id \in ListWithoutCountry(force)}
<1>1. /\ Types /\ batch' = [batch EXCEPT ![run] = items]
      /\ events' \in 0..MaxEvents
      /\ UNCHANGED <<driver, proxies, sequence, caller, serving, named, made, tried>>
  BY CatalogueAssumption DEF StartPass, Event, CatalogueInv, Types
<1>2. items \subseteq BatchItem
  <2>1. ListWithoutCountry(force) \subseteq {id \in Ids : Exists(id)}
    BY DEF ListWithoutCountry, First
  <2> QED
    BY <1>1, <2>1 DEF Types, BatchItem
<1> HIDE DEF items
<1>3. Types'
  BY <1>1, <1>2 DEF Types, Exists
<1>4. IdsNotReused'
  BY <1>1 DEF CatalogueInv, IdsNotReused, Exists
<1> QED
  BY <1>1, <1>3, <1>4, RestStep DEF Exists

LEMMA LocateStep ==
    ASSUME CatalogueInv, NEW run \in Runners, Locate(run) \/ Skip(run)
    PROVE  CatalogueInv'
<1>0. PICK p : p = UpNext(run)
  OBVIOUS
<1>1. /\ Types /\ batch[run] # {}
      /\ batch' = [batch EXCEPT ![run] = batch[run] \ {p}]
      /\ \/ proxies' = Located(p) /\ p.address \in Locatable
         \/ proxies' = proxies
      /\ UNCHANGED <<driver, sequence, caller, serving, named, made, tried, events>>
  BY <1>0 DEF Locate, Skip, Rest, CatalogueInv, Types
<1>2. p \in BatchItem
  BY <1>0, <1>1, UpNextIsThere
<1>3. /\ proxies' \in [Ids -> ProxyRow]
      /\ \A i \in Ids : /\ Exists(i)' <=> Exists(i)
                        /\ proxies'[i].origin = proxies[i].origin
                        /\ proxies'[i].address = proxies[i].address
  <2>1. CASE proxies' = proxies
    BY <1>1, <2>1 DEF Types, Exists
  <2>2. CASE proxies' = Located(p) /\ p.address \in Locatable /\ Exists(p.id)
    <3>1. p.id \in Ids /\ proxies[p.id] \in ProxyRow /\ proxies[p.id].origin # None
      BY <1>1, <1>2, <2>2 DEF Types, BatchItem
    <3>2. proxies' = [proxies EXCEPT ![p.id].country = p.address]
      BY <2>2 DEF Located
    <3>3. /\ proxies'[p.id] = [proxies[p.id] EXCEPT !.country = p.address]
          /\ \A i \in Ids : i # p.id => proxies'[i] = proxies[i]
      BY <1>1, <3>1, <3>2 DEF Types
    <3> DEFINE row == proxies[p.id]
               there == proxies'[p.id]
               country == p.address
    <3>6. row \in ProxyRow /\ country \in Locatable
          /\ there = [row EXCEPT !.country = country]
      BY <2>2, <3>1, <3>3
    <3>4. there \in ProxyRow /\ there.origin = row.origin
          /\ there.address = row.address
      <4> HIDE DEF row, there, country
      <4> QED
        BY <3>6 DEF ProxyRow, Countries
    <3>5. Exists(p.id)'
      BY <3>1, <3>4 DEF Exists, NoProxy
    <3> QED
      BY <1>1, <2>2, <3>1, <3>2, <3>3, <3>4, <3>5 DEF Exists, Types
  <2>3. CASE proxies' = Located(p) /\ ~Exists(p.id)
    BY <1>1, <2>3 DEF Types, Exists, Located
  <2> QED
    BY <1>1, <2>1, <2>2, <2>3
<1>4. Types'
  BY <1>1, <1>3 DEF Types
<1>5. IdsNotReused'
  BY <1>1, <1>3 DEF CatalogueInv, IdsNotReused, Types
<1> QED
  BY <1>1, <1>3, <1>4, <1>5, RestStep

LEMMA CatalogueStep == CatalogueInv /\ [Next]_vars => CatalogueInv'
<1> SUFFICES ASSUME CatalogueInv, [Next]_vars PROVE CatalogueInv'
  OBVIOUS
<1>1. ASSUME NEW c \in Callers, Create(c) PROVE CatalogueInv'
  BY <1>1, ReadNextIDStep, InsertStep, InsertFailsStep DEF Create
<1>2. ASSUME NEW c \in Callers, NEW n \in 1..MaxBulk,
             NEW addresses \in [1..n -> Addresses], Begin(c, addresses)
      PROVE  CatalogueInv'
  BY <1>2, BeginStep
<1>3. ASSUME NEW id \in Ids, Delete(id) \/ Serve(id) PROVE CatalogueInv'
  BY <1>3, DeleteStep, ServeStep
<1>4. ASSUME NEW id \in Ids, NEW address \in Addresses,
             NEW country \in Countries, Update(id, address, country)
      PROVE  CatalogueInv'
  BY <1>4, UpdateStep
<1>5. ASSUME NEW s \in serving, Served(s) PROVE CatalogueInv'
  BY <1>5, ServedStep
<1>6. ASSUME NEW run \in Runners, NEW force \in BOOLEAN, StartPass(run, force)
      PROVE  CatalogueInv'
  BY <1>6, StartPassStep
<1>7. ASSUME NEW run \in Runners, Locate(run) \/ Skip(run) PROVE CatalogueInv'
  BY <1>7, LocateStep
<1>8. CASE UNCHANGED vars
  <2>1. UNCHANGED <<driver, proxies, sequence, caller, serving, named, batch,
                    made, tried, events>>
    BY <1>8 DEF vars
  <2>2. Types' /\ IdsNotReused'
    BY <2>1 DEF CatalogueInv, Types, IdsNotReused, Exists
  <2> QED
    BY <2>1, <2>2, RestStep DEF Exists
<1> QED
  BY <1>1, <1>2, <1>3, <1>4, <1>5, <1>6, <1>7, <1>8 DEF Next

-----------------------------------------------------------------------------
(* The theorems.                                                           *)

\* The invariant of which the properties are parts.
THEOREM CatalogueInvariant == Spec => []CatalogueInv
<1> QED
  BY CatalogueInit, CatalogueStep, PTL DEF Spec

\* The rows, the requests and the batches have the shapes the code gives them,
\* and neither the ids of Mongo nor the sequence of Postgres outrun the
\* creations that were asked for (nextProxyID, Create, BulkCreate).
THEOREM TypeCorrect == Spec => []TypeOK
<1>1. CatalogueInv => TypeOK
  <2> SUFFICES ASSUME CatalogueInv PROVE TypeOK
    OBVIOUS
  <2>1. Types
    BY DEF CatalogueInv
  <2>2. /\ made \in 0..MaxCreated /\ sequence \in 0..MaxCreated
    <3>1. Cardinality(Pending) \in Nat
      BY FS_CardinalityType DEF CatalogueInv, Counted
    <3> QED
      BY <2>1, <3>1, CatalogueAssumption DEF CatalogueInv, Counted, Types
  <2>3. ASSUME NEW id \in Ids, Exists(id)
        PROVE  /\ proxies[id].origin \in 1..MaxCreated
               /\ proxies[id].address \in Addresses
               /\ proxies[id].country \in Countries
    BY <2>1, <2>3, CatalogueAssumption DEF Types, ProxyRow, Countries, None
  <2>4. \A c \in Callers :
            /\ caller[c].pc \in {"idle", "number", "insert"}
            /\ caller[c].id \in Ids \cup {None}
            /\ caller[c].todo \in Seq(Addresses)
    BY <2>1 DEF Types, Call
  <2>5. /\ \A s \in serving : s.id \in Ids /\ s.origin \in 1..MaxCreated
        /\ \A run \in Runners : \A p \in batch[run] : p.id \in Ids
    BY <2>1 DEF Types, BatchItem
  <2> QED
    BY <2>1, <2>2, <2>3, <2>4, <2>5 DEF TypeOK, Types
<1> QED
  BY <1>1, CatalogueInvariant, PTL

\* On Postgres the rows of other tables that name a proxy by its id are its
\* own, however late a request wrote them: the sequence gives no id out twice,
\* REFERENCES turns the late write down and the cascade clears the early one.
THEOREM HistoryStaysOwn == Spec => []HistoryIsOwn
<1>1. CatalogueInv => HistoryIsOwn
  BY DEF CatalogueInv, IdsNotReused, HistoryIsOwn
<1> QED
  BY <1>1, CatalogueInvariant, PTL

\* A creation that ran with no other in between is refused only for its
\* address, on both drivers: the id that nextProxyID read is still free.
THEOREM RefusalsAreTrue == Spec => []RefusedForItsAddress
<1>1. CatalogueInv => RefusedForItsAddress
  BY DEF CatalogueInv
<1> QED
  BY <1>1, CatalogueInvariant, PTL
=============================================================================
