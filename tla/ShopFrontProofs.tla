-------------------------- MODULE ShopFrontProofs ---------------------------
(***************************************************************************)
(* Proofs about the modules a customer meets, each for all values of its   *)
(* constants: the addresses, the limits and the channel gate, the campaigns, *)
(* the checkout dialogue, the sessions of visitors, the daily advert, and  *)
(* the order in which transactions lock rows.  Each part names its inductive *)
(* invariant.                                                              *)
(***************************************************************************)
EXTENDS AddressBook, FrontDoor, Campaigns, CheckoutDialogue, Storefront, Promotion,
        RowLocks, FiniteSetTheorems, Induction, TLAPS

-----------------------------------------------------------------------------
(* Addresses. *)

Wish == [at: {"asked", "ready"}, op: {"create", "delete", "default"},
         entry: Entries \cup {NoEntry}, read: [all: SUBSET Entries, default: SUBSET Entries]]

\* One request at a time has read the book, and it is still as it read it.
BookInv ==
    /\ request \in [Clients -> {NoRequest} \cup Wish]
    /\ book \in [all: SUBSET Entries, default: SUBSET Entries]
    /\ IsFiniteSet(book.all) /\ Cardinality(book.all) <= Limit
    /\ book.default \subseteq book.all
    /\ \A i, j \in book.default : i = j
    /\ \A c, d \in Clients : Requested(c, "ready") /\ Requested(d, "ready") => c = d
    /\ \A c \in Clients : Requested(c, "ready") =>
        request[c].read = book /\ Possible(request[c].op, request[c].entry)

LEMMA BookStart == BookInit => BookInv
BY BookAssumption, FS_EmptySet DEF BookInit, BookInv, EmptyBook, Requested

\* The request that has read the book ends; nobody else has.
LEMMA OthersWait ==
    ASSUME BookInv, NEW c \in Clients, Requested(c, "ready"), RequestEnds(c)
    PROVE  /\ request' \in [Clients -> {NoRequest} \cup Wish]
           /\ \A d \in Clients : ~Requested(d, "ready")'
BY DEF BookInv, RequestEnds, Requested

LEMMA BookStep == BookInv /\ [BookNext]_bookVars => BookInv'
<1> SUFFICES ASSUME BookInv, [BookNext]_bookVars PROVE BookInv'
  OBVIOUS
<1>1. CASE UNCHANGED bookVars
  BY <1>1 DEF BookInv, bookVars, Requested, Possible
<1>2. ASSUME NEW c \in Clients, NEW op \in {"create", "delete", "default"},
             NEW i \in Entries \cup {NoEntry}, AskFor(c, op, i)
      PROVE  BookInv'
  <2> DEFINE record == [at |-> "asked", op |-> op, entry |-> i, read |-> EmptyBook]
  <2>1. record \in Wish /\ record.at # "ready"
    BY DEF Wish, EmptyBook
  <2>2. request' = [request EXCEPT ![c] = record] /\ UNCHANGED book
    BY <1>2 DEF AskFor
  <2> HIDE DEF record
  <2>3. /\ request' \in [Clients -> {NoRequest} \cup Wish]
        /\ \A d \in Clients : Requested(d, "ready")' => Requested(d, "ready") /\ request'[d] = request[d]
    BY <2>1, <2>2 DEF BookInv, Requested
  <2> QED  BY <2>2, <2>3 DEF BookInv, Possible, Requested
<1>3. ASSUME NEW c \in Clients, ReadBook(c)
      PROVE  BookInv'
  <2>1. request[c] \in Wish /\ UNCHANGED book
    BY <1>3 DEF ReadBook, Requested, BookInv
  <2>2. CASE RequestEnds(c)
    BY <2>1, <2>2, <1>3 DEF BookInv, RequestEnds, Requested, ReadBook, OwnerFree
  <2>3. CASE /\ Possible(request[c].op, request[c].entry)
             /\ request' = [request EXCEPT ![c].at = "ready", ![c].read = book]
    <3>1. /\ request'[c] \in Wish /\ request'[c].read = book
          /\ request'[c].op = request[c].op /\ request'[c].entry = request[c].entry
          /\ \A d \in Clients \ {c} : request'[d] = request[d]
          /\ request' \in [Clients -> {NoRequest} \cup Wish]
      BY <2>1, <2>3 DEF BookInv, Wish
    <3>2. \A d \in Clients : Requested(d, "ready")' => d = c
      BY <1>3, <3>1 DEF ReadBook, OwnerFree, Requested
    <3>3. Possible(request'[c].op, request'[c].entry) /\ Possible(request[c].op, request[c].entry)'
      BY <2>1, <2>3, <3>1 DEF Possible
    <3>4. \A d \in Clients : Requested(d, "ready")' =>
            request'[d].read = book' /\ Possible(request[d].op, request[d].entry)'
      BY <2>1, <3>1, <3>2, <3>3
    <3>5. \A d, e \in Clients : Requested(d, "ready")' /\ Requested(e, "ready")' => d = e
      BY <3>2
    <3> QED  BY <2>1, <3>1, <3>4, <3>5 DEF BookInv
  <2> QED  BY <1>3, <2>2, <2>3 DEF ReadBook
<1>4. ASSUME NEW c \in Clients, NEW i \in Entries, CommitCreate(c, i)
      PROVE  BookInv'
  <2>1. /\ Requested(c, "ready") /\ RequestEnds(c)
        /\ request[c].read = book /\ Cardinality(book.all) < Limit
    BY <1>4 DEF CommitCreate, BookInv, Possible
  <2>2. book' = [all |-> book.all \cup {i},
                 default |-> IF book.all = {} THEN book.default \cup {i} ELSE book.default]
    BY <1>4, <2>1 DEF CommitCreate
  <2>3. IsFiniteSet(book'.all) /\ Cardinality(book'.all) <= Limit
    <3>1. /\ IsFiniteSet(book.all) /\ Cardinality(book.all) \in Nat /\ Limit \in Nat
      BY BookAssumption, FS_CardinalityType DEF BookInv
    <3>2. book'.all = book.all \cup {i}
      BY <2>2
    <3>3. IsFiniteSet(book'.all) /\ Cardinality(book'.all) \in {Cardinality(book.all), Cardinality(book.all) + 1}
      <4> DEFINE all == book.all
      <4> HIDE DEF all
      <4>1. IsFiniteSet(all)
        BY <3>1 DEF all
      <4>2. IsFiniteSet(all \cup {i}) /\ Cardinality(all \cup {i}) \in {Cardinality(all), Cardinality(all) + 1}
        BY <4>1, FS_AddElement
      <4> QED  BY <3>2, <4>2 DEF all
    <3> QED  BY <3>1, <3>3, <2>1
  <2>4. /\ book' \in [all: SUBSET Entries, default: SUBSET Entries]
        /\ book'.default \subseteq book'.all /\ \A j, k \in book'.default : j = k
    BY <2>2 DEF BookInv
  <2> QED  BY <2>1, <2>3, <2>4, OthersWait DEF BookInv
<1>5. ASSUME NEW c \in Clients, CommitDelete(c)
      PROVE  BookInv'
  <2> DEFINE i == request[c].entry
  <2>1. /\ Requested(c, "ready") /\ RequestEnds(c)
        /\ book' = [all |-> book.all \ {i}, default |-> book.default \ {i}]
    BY <1>5 DEF CommitDelete
  <2>2. IsFiniteSet(book'.all) /\ Cardinality(book'.all) <= Limit
    <3>1. book'.all \subseteq book.all
      BY <2>1
    <3>2. /\ IsFiniteSet(book'.all) /\ Cardinality(book'.all) <= Cardinality(book.all)
      BY <3>1, FS_Subset DEF BookInv
    <3>3. Cardinality(book'.all) \in Nat /\ Cardinality(book.all) \in Nat /\ Limit \in Nat
      BY <3>2, BookAssumption, FS_CardinalityType DEF BookInv
    <3> QED  BY <3>2, <3>3 DEF BookInv
  <2>3. /\ book' \in [all: SUBSET Entries, default: SUBSET Entries]
        /\ book'.default \subseteq book'.all /\ \A j, k \in book'.default : j = k
    BY <2>1 DEF BookInv
  <2> QED  BY <2>1, <2>2, <2>3, OthersWait DEF BookInv
<1>6. ASSUME NEW c \in Clients, CommitDefault(c)
      PROVE  BookInv'
  <2> DEFINE i == request[c].entry
  <2>1. /\ Requested(c, "ready") /\ RequestEnds(c) /\ i \in book.all
        /\ book' = [book EXCEPT !.default = (book.default \ book.default) \cup {i}]
    BY <1>6 DEF CommitDefault, BookInv, Possible
  <2>2. /\ book' \in [all: SUBSET Entries, default: SUBSET Entries] /\ book'.all = book.all
        /\ book'.default = {i}
    BY <2>1 DEF BookInv
  <2> QED  BY <2>1, <2>2, OthersWait DEF BookInv
<1>7. ASSUME NEW c \in Clients, RequestLeavesNoTrace(c)
      PROVE  BookInv'
  <2>1. /\ request' \in [Clients -> {NoRequest} \cup Wish] /\ UNCHANGED book
        /\ \A d \in Clients : Requested(d, "ready")' => Requested(d, "ready") /\ request'[d] = request[d]
    BY <1>7 DEF RequestLeavesNoTrace, RequestEnds, BookInv, Requested
  <2> QED  BY <2>1 DEF BookInv, Possible, Requested
<1> QED  BY <1>1, <1>2, <1>3, <1>4, <1>5, <1>6, <1>7 DEF BookNext

\* At most Limit addresses, at most one default among them
\* (address_service.py, every write behind _lock_owner).
THEOREM AddressesStayInOrder == BookSpec => []AddressesInOrder
<1>1. BookInv => AddressesInOrder
  <2> SUFFICES ASSUME BookInv PROVE Cardinality(book.default) <= 1
    BY DEF BookInv, AddressesInOrder
  <2>1. CASE book.default = {}
    BY <2>1, FS_EmptySet
  <2>2. CASE book.default # {}
    <3>1. PICK i \in book.default : TRUE
      BY <2>2
    <3>2. book.default = {i}
      BY <3>1 DEF BookInv
    <3>3. Cardinality({i}) = 1
      BY FS_Singleton
    <3> QED  BY <3>2, <3>3
  <2> QED  BY <2>1, <2>2
<1> QED  BY <1>1, BookStart, BookStep, PTL DEF BookSpec

-----------------------------------------------------------------------------
(* Limits and the channel gate. *)

IsCall(r) ==
    r \in Call /\ r = [at |-> r.at, kind |-> r.kind, left |-> r.left, away |-> r.away]

LEMMA CallIs ==
    ASSUME NEW p \in Places, NEW k \in CallKinds, NEW l \in Seq(Used), NEW a \in BOOLEAN
    PROVE  /\ IsCall([at |-> p, kind |-> k, left |-> l, away |-> a])
           /\ [at |-> p, kind |-> k, left |-> l, away |-> a] # NoCaller
BY DoorAssumption DEF IsCall, Call

DoorShape ==
    /\ DOMAIN caller = Calls
    /\ \A c \in Calls : caller[c] # NoCaller => IsCall(caller[c])
    /\ count \in [Used -> Nat]
    /\ joined \in BOOLEAN /\ remembered \in BOOLEAN

\* While the customer is outside, every call knows it.
AwayIsKnown ==
    /\ ~joined => \A c \in Calls : caller[c] # NoCaller => caller[c].away = TRUE
    /\ \A c \in Calls : At(c, "refused") => caller[c].away = TRUE

ScriptsExpire == \A d \in Used : IsAtomic(d) /\ count[d] > 0 => d \in timed

LimitsEnd == \A d \in Used : count[d] > 0 => d \in timed \/ Owed(d) \/ d \in orphaned

DoorInv == DoorShape /\ AwayIsKnown /\ ScriptsExpire /\ LimitsEnd

LEMMA DoorStart == DoorInit => DoorInv
<1> SUFFICES ASSUME DoorInit PROVE DoorInv
  OBVIOUS
<1>1. DOMAIN caller = Calls /\ \A c \in Calls : caller[c] = NoCaller
  BY DEF DoorInit
<1>2. count \in [Used -> Nat] /\ \A d \in Used : ~(count[d] > 0)
  BY DEF DoorInit
<1>3. joined \in BOOLEAN /\ remembered \in BOOLEAN
  BY DEF DoorInit
<1> QED  BY <1>1, <1>2, <1>3 DEF DoorInv, DoorShape, AwayIsKnown, ScriptsExpire, LimitsEnd, At

\* A step of a call that owes no expiry leaves every limit its end.
LEMMA EndsKept ==
    ASSUME DoorInv, NEW c \in Calls, ~At(c, "expire"),
           \A e \in Calls \ {c} : caller'[e] = caller[e], UNCHANGED counterVars
    PROVE  LimitsEnd'
<1> SUFFICES ASSUME NEW d \in Used, Owed(d) PROVE Owed(d)'
  BY DEF DoorInv, LimitsEnd, counterVars
<1>1. PICK e \in Calls : At(e, "expire") /\ Counter(e) = d
  BY DEF Owed
<1>2. caller'[e] = caller[e]
  BY <1>1
<1> QED  BY <1>1, <1>2 DEF Owed, At, Counter

\* What a step that only moves one call keeps.
LEMMA MoveKeeps ==
    ASSUME DoorInv, NEW c \in Calls, NEW place \in Places, caller[c] # NoCaller,
           place = "refused" => caller[c].away = TRUE, Moves(c, place), joined' = joined
    PROVE  /\ DOMAIN caller' = Calls
           /\ \A d \in Calls : caller'[d] # NoCaller => IsCall(caller'[d])
           /\ \A d \in Calls \ {c} : caller'[d] = caller[d]
           /\ AwayIsKnown'
<1>1. caller'[c] = [at |-> place, kind |-> caller[c].kind, left |-> caller[c].left,
                    away |-> caller[c].away]
  BY DEF DoorInv, DoorShape, IsCall, Moves
<1>2. \A d \in Calls \ {c} : caller'[d] = caller[d]
  BY DEF DoorInv, DoorShape, Moves
<1>3. DOMAIN caller' = Calls
  BY DEF DoorInv, DoorShape, Moves
<1>4. IsCall(caller[c])
  BY DEF DoorInv, DoorShape
<1>5. caller[c].kind \in CallKinds /\ caller[c].left \in Seq(Used) /\ caller[c].away \in BOOLEAN
  BY <1>4 DEF IsCall, Call
<1>6. IsCall(caller'[c])
  BY <1>1, <1>5, CallIs
<1> QED  BY <1>1, <1>2, <1>3, <1>6 DEF DoorInv, DoorShape, AwayIsKnown, At

\* A call that passes a counter keeps what it knows.
LEMMA OnwardsKeeps ==
    ASSUME DoorInv, NEW c \in Calls, caller[c] # NoCaller, Onwards(c), joined' = joined
    PROVE  /\ DOMAIN caller' = Calls
           /\ \A d \in Calls : caller'[d] # NoCaller => IsCall(caller'[d])
           /\ \A d \in Calls \ {c} : caller'[d] = caller[d]
           /\ AwayIsKnown'
<1>1. CASE Len(caller[c].left) > 1
  <2>1. caller' = [caller EXCEPT ![c].left = Tail(@), ![c].at = "count"]
    BY <1>1 DEF Onwards
  <2>2. caller'[c] = [at |-> "count", kind |-> caller[c].kind,
                      left |-> Tail(caller[c].left), away |-> caller[c].away]
    <3>1. c \in DOMAIN caller
          /\ caller[c] = [at |-> caller[c].at, kind |-> caller[c].kind,
                          left |-> caller[c].left, away |-> caller[c].away]
      BY DEF DoorInv, DoorShape, IsCall
    <3>2. caller'[c] = [caller[c] EXCEPT !.left = Tail(@), !.at = "count"]
      BY <2>1, <3>1
    <3> QED  BY <3>1, <3>2
  <2>3. \A d \in Calls \ {c} : caller'[d] = caller[d]
    BY <2>1 DEF DoorInv, DoorShape
  <2>4. DOMAIN caller' = Calls
    BY <2>1 DEF DoorInv, DoorShape
  <2>5. IsCall(caller[c])
    BY DEF DoorInv, DoorShape
  <2>6. /\ caller[c].kind \in CallKinds /\ Tail(caller[c].left) \in Seq(Used)
        /\ caller[c].away \in BOOLEAN
    BY <1>1, <2>5 DEF IsCall, Call
  <2>7. IsCall(caller'[c])
    BY <2>2, <2>6, CallIs DEF Places
  <2>8. caller'[c].at = "count" /\ caller'[c].away = caller[c].away
    BY <2>2
  <2> QED  BY <2>3, <2>4, <2>7, <2>8 DEF DoorInv, DoorShape, AwayIsKnown, At
<1>2. CASE ~(Len(caller[c].left) > 1)
  <2>1. CASE caller[c].kind = "update"
    <3>1. Moves(c, "look")
      BY <1>2, <2>1 DEF Onwards
    <3> QED  BY <3>1, MoveKeeps DEF Places
  <2>2. CASE caller[c].kind = "recheck"
    <3>1. Moves(c, "forget")
      BY <1>2, <2>2 DEF Onwards
    <3> QED  BY <3>1, MoveKeeps DEF Places
  <2>3. CASE caller[c].kind \notin {"update", "recheck"}
    <3>1. Moves(c, "passed")
      BY <1>2, <2>3 DEF Onwards
    <3> QED  BY <3>1, MoveKeeps DEF Places
  <2> QED  BY <2>1, <2>2, <2>3
<1> QED  BY <1>1, <1>2

LEMMA DoorStep == ASSUME DoorInv, [DoorNext]_doorVars PROVE DoorInv'
<1> USE DEF DoorInv, counterVars, gateVars
<1>1. CASE UNCHANGED doorVars
  BY <1>1 DEF doorVars, DoorShape, AwayIsKnown, ScriptsExpire, LimitsEnd, Owed, Counter,
       At, IsCall, IsAtomic
<1>2. ASSUME NEW c \in Calls, NEW kind \in CallKinds, Arrive(c, kind) PROVE DoorInv'
  <2>1. LimitsEnd'
    BY <1>2, EndsKept DEF Arrive, At, DoorShape
  <2>2. Counters[kind] \in Seq(Used)
    <3>1. \A a, b \in Used : <<a>> \in Seq(Used) /\ <<a, b>> \in Seq(Used)
      OBVIOUS
    <3>2. kind \in DOMAIN Counters
      BY DoorAssumption
    <3>3. \/ \E a \in Used : Counters[kind] = <<a>>
          \/ \E a, b \in Used : Counters[kind] = <<a, b>>
      BY <3>2 DEF Counters, Used
    <3> QED  BY <3>1, <3>3
  <2>3. IsCall([at |-> "count", kind |-> kind, left |-> Counters[kind], away |-> ~joined])
    BY <2>2, CallIs DEF DoorShape, Places
  <2>4. /\ DOMAIN caller' = Calls
        /\ caller'[c] = [at |-> "count", kind |-> kind, left |-> Counters[kind], away |-> ~joined]
        /\ \A e \in Calls \ {c} : caller'[e] = caller[e]
        /\ UNCHANGED <<counterVars, gateVars>>
    BY <1>2 DEF Arrive, DoorShape
  <2>5. caller'[c].at = "count" /\ caller'[c].away = ~joined
    BY <2>4
  <2> QED
    BY <2>1, <2>3, <2>4, <2>5 DEF DoorShape, AwayIsKnown, ScriptsExpire, At, IsAtomic
<1>3. ASSUME NEW c \in Calls, Leave(c) \/ Die(c) PROVE DoorInv'
  <2>1. DoorShape' /\ AwayIsKnown' /\ ScriptsExpire'
    BY <1>3 DEF Leave, Die, DoorShape, AwayIsKnown, ScriptsExpire, At, IsCall, IsAtomic
  <2>2. \A e \in Calls \ {c} : caller'[e] = caller[e]
    BY <1>3 DEF Leave, Die, DoorShape
  <2>3. CASE ~At(c, "expire")
    <3>1. UNCHANGED counterVars
      BY <1>3, <2>3 DEF Leave, Die
    <3> QED  BY <2>1, <2>2, <2>3, <3>1, EndsKept
  <2>4. CASE At(c, "expire")
    <3>1. count' = count /\ timed' = timed /\ orphaned' = orphaned \cup {Counter(c)}
      BY <1>3, <2>4 DEF Leave, Die, At
    <3>2. ASSUME NEW d \in Used, count'[d] > 0
          PROVE  d \in timed' \/ Owed(d)' \/ d \in orphaned'
      <4>1. CASE Owed(d)
        <5>1. PICK e \in Calls : At(e, "expire") /\ Counter(e) = d
          BY <4>1 DEF Owed
        <5>2. CASE e = c
          BY <3>1, <5>1, <5>2
        <5>3. CASE e # c
          <6>1. caller'[e] = caller[e]
            BY <2>2, <5>3
          <6> QED  BY <5>1, <6>1 DEF Owed, At, Counter
        <5> QED  BY <5>2, <5>3
      <4>2. CASE ~Owed(d)
        BY <3>1, <3>2, <4>2 DEF LimitsEnd
      <4> QED  BY <4>1, <4>2
    <3>3. LimitsEnd'
      BY <3>2 DEF LimitsEnd
    <3> QED  BY <2>1, <3>3
  <2> QED  BY <2>3, <2>4
<1>4. ASSUME NEW c \in Calls, Increment(c) PROVE DoorInv'
  <2>1. PICK n : /\ n = (IF count[Counter(c)] > Allowed THEN count[Counter(c)]
                        ELSE count[Counter(c)] + 1)
                 /\ count' = [count EXCEPT ![Counter(c)] = n]
                 /\ timed' = IF n = 1 /\ IsAtomic(Counter(c))
                             THEN timed \cup {Counter(c)} ELSE timed
    BY <1>4 DEF Increment
  <2>2. caller[c] # NoCaller /\ joined' = joined /\ remembered' = remembered
        /\ ~At(c, "expire") /\ orphaned' = orphaned
    BY <1>4 DEF Increment, At
  <2>3. /\ Moves(c, "expire") \/ Moves(c, "limited") \/ Onwards(c)
        /\ n = 1 /\ ~IsAtomic(Counter(c)) => Moves(c, "expire")
    BY <1>4, <2>1 DEF Increment
  <2>4. /\ DOMAIN caller' = Calls /\ AwayIsKnown'
        /\ \A d \in Calls : caller'[d] # NoCaller => IsCall(caller'[d])
        /\ \A d \in Calls \ {c} : caller'[d] = caller[d]
    BY <2>2, <2>3, MoveKeeps, OnwardsKeeps DEF Places
  <2>5. count' \in [Used -> Nat]
    <3>1. CASE Counter(c) \in Used
      BY <2>1, <3>1 DEF DoorShape
    <3>2. CASE Counter(c) \notin Used
      BY <2>1, <3>2 DEF DoorShape
    <3> QED  BY <3>1, <3>2
  <2>6. ScriptsExpire'
    <3> SUFFICES ASSUME NEW d \in Used, IsAtomic(d), count'[d] > 0 PROVE d \in timed'
      BY DEF ScriptsExpire, IsAtomic
    <3>1. CASE d = Counter(c)
      BY <2>1, <3>1, DoorAssumption DEF DoorShape, ScriptsExpire
    <3>2. CASE d # Counter(c)
      BY <2>1, <3>2 DEF DoorShape, ScriptsExpire
    <3> QED  BY <3>1, <3>2
  <2>7. ASSUME NEW d \in Used, count'[d] > 0
        PROVE  d \in timed' \/ Owed(d)' \/ d \in orphaned'
    <3>1. Owed(d) => Owed(d)'
      <4> SUFFICES ASSUME Owed(d) PROVE Owed(d)'
        OBVIOUS
      <4>1. PICK e \in Calls : At(e, "expire") /\ Counter(e) = d
        BY DEF Owed
      <4>2. caller'[e] = caller[e]
        BY <2>2, <2>4, <4>1
      <4> QED  BY <4>1, <4>2 DEF Owed, At, Counter
    <3>2. CASE count[d] > 0
      BY <2>1, <2>2, <3>1, <3>2 DEF LimitsEnd
    <3>3. CASE ~(count[d] > 0)
      <4>1. d = Counter(c) /\ n = 1
        BY <2>1, <2>7, <3>3, DoorAssumption DEF DoorShape
      <4>2. CASE IsAtomic(d)
        BY <2>1, <4>1, <4>2
      <4>3. CASE ~IsAtomic(d)
        <5>1. Moves(c, "expire")
          BY <2>3, <4>1, <4>3
        <5>2. caller'[c] = [at |-> "expire", kind |-> caller[c].kind, left |-> caller[c].left,
                            away |-> caller[c].away]
          BY <2>2, <5>1 DEF DoorShape, IsCall, Moves
        <5>3. caller'[c] # NoCaller
          <6>1. IsCall(caller[c])
            BY <2>2 DEF DoorShape
          <6> QED  BY <5>2, <6>1, CallIs DEF IsCall, Call, Places
        <5> QED  BY <4>1, <5>2, <5>3 DEF Owed, At, Counter
      <4> QED  BY <4>2, <4>3
    <3> QED  BY <3>2, <3>3
  <2>8. LimitsEnd'
    BY <2>7 DEF LimitsEnd
  <2> QED  BY <2>2, <2>4, <2>5, <2>6, <2>8 DEF DoorShape
<1>5. ASSUME NEW c \in Calls, SetExpiry(c) PROVE DoorInv'
  <2>1. /\ DOMAIN caller' = Calls /\ AwayIsKnown'
        /\ \A d \in Calls : caller'[d] # NoCaller => IsCall(caller'[d])
        /\ \A d \in Calls \ {c} : caller'[d] = caller[d]
    BY <1>5, OnwardsKeeps DEF SetExpiry, At
  <2>2. /\ timed \subseteq timed' /\ count' = count /\ orphaned' = orphaned
        /\ count[Counter(c)] > 0 => Counter(c) \in timed'
    BY <1>5 DEF SetExpiry
  <2>3. ASSUME NEW d \in Used, count'[d] > 0
        PROVE  d \in timed' \/ Owed(d)' \/ d \in orphaned'
    <3>1. CASE Owed(d)
      <4>1. PICK e \in Calls : At(e, "expire") /\ Counter(e) = d
        BY <3>1 DEF Owed
      <4>2. CASE e = c
        BY <2>2, <2>3, <4>1, <4>2
      <4>3. CASE e # c
        <5>1. caller'[e] = caller[e]
          BY <2>1, <4>3
        <5> QED  BY <4>1, <5>1 DEF Owed, At, Counter
      <4> QED  BY <4>2, <4>3
    <3>2. CASE ~Owed(d)
      BY <2>2, <2>3, <3>2 DEF LimitsEnd
    <3> QED  BY <3>1, <3>2
  <2>4. LimitsEnd'
    BY <2>3 DEF LimitsEnd
  <2> QED  BY <2>1, <2>2, <2>4, <1>5 DEF SetExpiry, DoorShape, ScriptsExpire, IsAtomic
<1>6. ASSUME NEW d \in Used, WindowEnds(d) PROVE DoorInv'
  <2>1. /\ count' = [count EXCEPT ![d] = 0] /\ timed' = timed \ {d}
        /\ UNCHANGED <<caller, orphaned, joined, remembered>>
    BY <1>6 DEF WindowEnds
  <2>2. count' \in [Used -> Nat]
    BY <2>1 DEF DoorShape
  <2>3. ScriptsExpire'
    BY <2>1 DEF DoorShape, ScriptsExpire, IsAtomic
  <2>4. LimitsEnd'
    BY <2>1 DEF DoorShape, LimitsEnd, Owed, At, Counter
  <2> QED  BY <2>1, <2>2, <2>3, <2>4 DEF DoorShape, AwayIsKnown, At, IsCall
<1>7. ASSUME NEW c \in Calls, Forget(c) \/ LookUp(c) \/ Remember(c) PROVE DoorInv'
  <2>1. /\ caller[c] # NoCaller /\ UNCHANGED <<counterVars, joined>> /\ ~At(c, "expire")
        /\ remembered' \in BOOLEAN
        /\ Moves(c, "look") \/ Moves(c, "passed") \/ Moves(c, "ask")
    BY <1>7 DEF Forget, LookUp, Remember, At, DoorShape
  <2> QED  BY <2>1, MoveKeeps, EndsKept DEF DoorShape, ScriptsExpire, IsAtomic, Places
<1>8. ASSUME NEW c \in Calls, NEW fails \in BOOLEAN, AskTelegram(c, fails) PROVE DoorInv'
  <2>1. /\ caller[c] # NoCaller /\ UNCHANGED <<counterVars, joined, remembered>>
        /\ ~At(c, "expire")
        /\ Moves(c, "passed") \/ Moves(c, "remember") \/ (~joined /\ Moves(c, "refused"))
    BY <1>8 DEF AskTelegram, At
  <2> QED  BY <2>1, MoveKeeps, EndsKept
       DEF DoorShape, AwayIsKnown, ScriptsExpire, IsAtomic, Places
<1>9. ASSUME AnswerExpires \/ Join PROVE DoorInv'
  <2>1. LimitsEnd'
    BY <1>9 DEF AnswerExpires, Join, LimitsEnd, Owed, At, Counter
  <2> QED
    BY <1>9, <2>1 DEF AnswerExpires, Join, DoorShape, AwayIsKnown, ScriptsExpire, At, IsCall, IsAtomic
<1>10. ASSUME Quit PROVE DoorInv'
  <2>1. /\ DOMAIN caller' = Calls /\ joined' = FALSE
        /\ \A c \in Calls : caller[c] = NoCaller => caller'[c] = NoCaller
        /\ \A c \in Calls : caller[c] # NoCaller =>
              caller'[c] = [at |-> caller[c].at, kind |-> caller[c].kind,
                            left |-> caller[c].left, away |-> TRUE]
        /\ UNCHANGED <<counterVars, remembered>>
    <3>1. \A c \in Calls : caller[c] # NoCaller => IsCall(caller[c])
      BY DEF DoorShape
    <3>2. ASSUME NEW c \in Calls, caller[c] # NoCaller
          PROVE  caller'[c] = [at |-> caller[c].at, kind |-> caller[c].kind,
                               left |-> caller[c].left, away |-> TRUE]
      <4>1. caller'[c] = [caller[c] EXCEPT !.away = TRUE]
        BY <1>10, <3>2 DEF Quit
      <4>2. caller[c] = [at |-> caller[c].at, kind |-> caller[c].kind,
                         left |-> caller[c].left, away |-> caller[c].away]
        BY <3>1, <3>2 DEF IsCall
      <4> QED  BY <4>1, <4>2
    <3> QED  BY <1>10, <3>2 DEF Quit
  <2>2. AwayIsKnown'
    BY <2>1 DEF AwayIsKnown, At
  <2>3. /\ \A c \in Calls : caller'[c] # NoCaller => IsCall(caller'[c])
        /\ \A c \in Calls : caller[c] # NoCaller => caller'[c] # NoCaller
    <3>1. ASSUME NEW c \in Calls, caller[c] # NoCaller
          PROVE  IsCall(caller'[c]) /\ caller'[c] # NoCaller
      <4>1. IsCall(caller[c])
        BY <3>1 DEF DoorShape
      <4>2. /\ caller[c].at \in Places /\ caller[c].kind \in CallKinds
            /\ caller[c].left \in Seq(Used)
        BY <4>1 DEF IsCall, Call
      <4>3. caller'[c] = [at |-> caller[c].at, kind |-> caller[c].kind,
                          left |-> caller[c].left, away |-> TRUE]
        BY <2>1, <3>1
      <4> QED  BY <4>2, <4>3, CallIs
    <3> QED  BY <2>1, <3>1
  <2>4. ASSUME NEW d \in Used, Owed(d) PROVE Owed(d)'
    <3>1. PICK e \in Calls : At(e, "expire") /\ Counter(e) = d
      BY <2>4 DEF Owed
    <3>2. caller'[e] # NoCaller /\ caller'[e].at = "expire" /\ caller'[e].left = caller[e].left
      BY <2>1, <2>3, <3>1 DEF At
    <3> QED  BY <3>1, <3>2 DEF Owed, At, Counter
  <2>5. LimitsEnd'
    BY <2>1, <2>4 DEF LimitsEnd
  <2> QED  BY <2>1, <2>2, <2>3, <2>5 DEF DoorShape, ScriptsExpire, IsAtomic
<1> QED
  BY <1>1, <1>2, <1>3, <1>4, <1>5, <1>6, <1>7, <1>8, <1>9, <1>10 DEF DoorNext

\* Whom the gate turns away was outside the channel (is_subscribed); a limit
\* ends unless a process died between INCR and EXPIRE (_under_limit), and one
\* that a script keeps always ends (_under_atomic_limit), for any limit and any
\* number of calls.
THEOREM NobodyIsShutOut == DoorSpec => []NobodyShutOut
<1>1. DoorInv => NobodyShutOut
  BY DEF DoorInv, AwayIsKnown, ScriptsExpire, LimitsEnd, IsAtomic, Used, NobodyShutOut
<1>2. DoorInit => DoorInv
  BY DoorStart
<1>3. DoorInv /\ [DoorNext]_doorVars => DoorInv'
  BY DoorStep
<1> QED  BY <1>1, <1>2, <1>3, PTL DEF DoorSpec

-----------------------------------------------------------------------------
(* First contacts and campaigns. *)

IsVisit(r) ==
    r = [at |-> r.at, person |-> r.person, link |-> r.link, new |-> r.new,
         source |-> r.source, counted |-> r.counted]

\* A visit that is past its first step holds its customer.
Held(v) == visit[v] # NoVisit /\ visit[v].at # "met"

\* What a visit has written: nothing before it counts its click, and then
\* the campaign only of a customer it registers itself.
VisitSound(v) ==
    LET r == visit[v] IN
    /\ IsVisit(r) /\ r.person \in People /\ r.link \in Links \cup {NoLink}
    /\ r.at \in {"met", "registered", "found", "done"}
    /\ r.at \in {"registered", "found"} => r.link # NoLink
    /\ r.at # "done" => r.counted = NoLink
    /\ r.at = "found" => campaign[r.link].exists
    /\ r.counted # NoLink => r.counted = r.link /\ campaign[r.link].exists
    /\ r.source # NoLink => r.new /\ r.source = r.counted
    /\ Held(v) /\ r.new => known[r.person] = Stranger

CampaignsInv ==
    /\ known \in [People -> Links \cup {NoLink, Stranger}]
    /\ campaign \in [Links -> [exists: BOOLEAN, active: BOOLEAN, clicks: Nat]]
    /\ visited \in [Links -> Nat]
    /\ DOMAIN visit = Visits
    /\ \A l \in Links :
        /\ campaign[l].clicks = visited[l]
        /\ ~campaign[l].exists => visited[l] = 0 /\ ~campaign[l].active
        /\ IsFiniteSet(CameWith(l)) /\ Cardinality(CameWith(l)) <= visited[l]
    /\ \A v \in Visits : visit[v] # NoVisit => VisitSound(v)
    /\ \A u, v \in Visits : u # v /\ Held(u) /\ Held(v) =>
        visit[u].person # visit[v].person

\* The parts of CampaignsInv that only speak of the visits.
LEMMA VisitStep ==
    ASSUME CampaignsInv, NEW v \in Visits, NEW r, UNCHANGED <<known, campaign, visited>>,
           visit' = [visit EXCEPT ![v] = r],
           r = NoVisit \/ VisitSound(v)',
           r # NoVisit /\ r.at # "met" =>
                \A u \in Visits \ {v} : Held(u) => visit[u].person # r.person
    PROVE  CampaignsInv'
<1>1. /\ visit'[v] = r /\ DOMAIN visit' = Visits
      /\ \A u \in Visits \ {v} : visit'[u] = visit[u]
  BY DEF CampaignsInv
<1>2. \A u \in Visits : visit'[u] # NoVisit => VisitSound(u)'
  <2> SUFFICES ASSUME NEW u \in Visits, u # v, visit'[u] # NoVisit PROVE VisitSound(u)'
    BY <1>1
  <2>1. VisitSound(u)
    BY <1>1 DEF CampaignsInv
  <2> QED  BY <1>1, <2>1 DEF VisitSound, Held, IsVisit
<1>3. \A u, w \in Visits : u # w /\ Held(u)' /\ Held(w)' =>
        visit'[u].person # visit'[w].person
  <2> SUFFICES ASSUME NEW u \in Visits, NEW w \in Visits, u # w, Held(u)', Held(w)'
               PROVE  visit'[u].person # visit'[w].person
    OBVIOUS
  <2>1. CASE u = v
    BY <1>1, <2>1 DEF Held
  <2>2. CASE w = v
    BY <1>1, <2>2 DEF Held
  <2>3. CASE u # v /\ w # v
    BY <1>1, <2>3 DEF Held, CampaignsInv
  <2> QED  BY <2>1, <2>2, <2>3
<1>4. \A l \in Links : CameWith(l)' = CameWith(l)
  BY DEF CameWith
<1> QED  BY <1>1, <1>2, <1>3, <1>4 DEF CampaignsInv

LEMMA VisitDone ==
    ASSUME NEW r, IsVisit(r), NEW c, NEW s
    PROVE  [r EXCEPT !.at = "done", !.counted = c, !.source = s]
           = [at |-> "done", person |-> r.person, link |-> r.link, new |-> r.new,
              source |-> s, counted |-> c]
<1> DEFINE a == [r EXCEPT !.at = "done"]
           b == [a EXCEPT !.counted = c]
<1>1. a = [at |-> "done", person |-> r.person, link |-> r.link, new |-> r.new,
           source |-> r.source, counted |-> r.counted]
  BY DEF IsVisit
<1> HIDE DEF a
<1>2. b = [at |-> "done", person |-> r.person, link |-> r.link, new |-> r.new,
           source |-> r.source, counted |-> c]
  BY <1>1
<1> HIDE DEF b
<1>3. [b EXCEPT !.source = s]
      = [at |-> "done", person |-> r.person, link |-> r.link, new |-> r.new,
         source |-> s, counted |-> c]
  BY <1>2
<1> QED  BY <1>3, Zenon DEF a, b

LEMMA VisitSteps ==
    ASSUME CampaignsInv, NEW v \in Visits,
           \/ \E p \in People, l \in Links \cup {NoLink} : BeginVisit(v, p, l)
           \/ Register(v) \/ RegistersTwice(v) \/ FindSource(v) \/ CountClick(v)
           \/ VisitFails(v)
    PROVE  CampaignsInv'
<1>0. DOMAIN visit = Visits /\ (visit[v] # NoVisit => VisitSound(v))
  BY DEF CampaignsInv
<1>1. ASSUME NEW p \in People, NEW l \in Links \cup {NoLink}, BeginVisit(v, p, l)
      PROVE  CampaignsInv'
  <2> DEFINE r == [at |-> "met", person |-> p, link |-> l, new |-> known[p] = Stranger,
                   source |-> NoLink, counted |-> NoLink]
  <2>1. visit' = [visit EXCEPT ![v] = r] /\ UNCHANGED <<known, campaign, visited>>
    BY <1>1 DEF BeginVisit
  <2>2. visit'[v] = r
    BY <1>0, <2>1
  <2>3. VisitSound(v)'
    BY <2>2 DEF VisitSound, IsVisit, Held
  <2>4. r.at = "met"
    OBVIOUS
  <2> HIDE DEF r
  <2> QED  BY <2>1, <2>3, <2>4, VisitStep
<1>2. CASE RegistersTwice(v) \/ VisitFails(v)
  BY <1>2, VisitStep DEF RegistersTwice, VisitFails, VisitEnds
<1>3. CASE Register(v)
  <2> DEFINE r == [visit[v] EXCEPT !.at = IF visit[v].link = NoLink THEN "done" ELSE "registered"]
  <2>1. /\ visit[v] # NoVisit /\ VisitSound(v) /\ visit[v].at = "met"
        /\ visit' = [visit EXCEPT ![v] = r] /\ UNCHANGED <<known, campaign, visited>>
        /\ visit[v].new => known[visit[v].person] = Stranger
    BY <1>0, <1>3 DEF Register, Visiting, VisitAt
  <2>2. /\ r.at = (IF visit[v].link = NoLink THEN "done" ELSE "registered")
        /\ r.person = visit[v].person /\ r.link = visit[v].link /\ r.new = visit[v].new
        /\ r.source = visit[v].source /\ r.counted = visit[v].counted /\ IsVisit(r)
    BY <2>1 DEF VisitSound, IsVisit
  <2> HIDE DEF r
  <2>3. visit'[v] = r
    BY <1>0, <2>1
  <2>4. VisitSound(v)'
    BY <2>1, <2>2, <2>3 DEF VisitSound, Held
  <2>5. \A u \in Visits \ {v} : Held(u) => visit[u].person # r.person
    BY <1>3, <2>2 DEF Register, UserFree, Others, Held, Visiting
  <2> QED  BY <2>1, <2>4, <2>5, VisitStep
<1>4. CASE FindSource(v)
  <2> DEFINE r == [visit[v] EXCEPT !.at = IF campaign[visit[v].link].active
                                          THEN "found" ELSE "done"]
  <2>1. /\ visit[v] # NoVisit /\ VisitSound(v) /\ visit[v].at = "registered"
        /\ visit' = [visit EXCEPT ![v] = r] /\ UNCHANGED <<known, campaign, visited>>
    BY <1>0, <1>4 DEF FindSource, Visiting, VisitAt
  <2>2. /\ r.at = (IF campaign[visit[v].link].active THEN "found" ELSE "done")
        /\ r.person = visit[v].person /\ r.link = visit[v].link /\ r.new = visit[v].new
        /\ r.source = visit[v].source /\ r.counted = visit[v].counted /\ IsVisit(r)
    BY <2>1 DEF VisitSound, IsVisit
  <2>3. visit[v].link \in Links /\ (campaign[visit[v].link].active => campaign[visit[v].link].exists)
    BY <2>1 DEF VisitSound, CampaignsInv
  <2> HIDE DEF r
  <2>4. visit'[v] = r
    BY <1>0, <2>1
  <2>5. VisitSound(v)'
    BY <2>1, <2>2, <2>3, <2>4 DEF VisitSound, Held
  <2>6. \A u \in Visits \ {v} : Held(u) => visit[u].person # r.person
    BY <2>1, <2>2 DEF CampaignsInv, Held
  <2> QED  BY <2>1, <2>5, <2>6, VisitStep
<1>5. CASE CountClick(v)
  <2> DEFINE r == [visit[v] EXCEPT !.at = "done", !.counted = visit[v].link,
                        !.source = IF Attributes(v) THEN visit[v].link ELSE NoLink]
             n == [at |-> "done", person |-> visit[v].person, link |-> visit[v].link,
                   new |-> visit[v].new, source |-> IF visit[v].new THEN visit[v].link ELSE NoLink,
                   counted |-> visit[v].link]
  <2>1. /\ visit[v] # NoVisit /\ VisitSound(v) /\ visit[v].at = "found"
        /\ visit' = [visit EXCEPT ![v] = r] /\ UNCHANGED <<known, campaign, visited>>
    BY <1>0, <1>5 DEF CountClick, Visiting
  <2>3. r = n
    <3>1. IsVisit(visit[v])
      BY <2>1 DEF VisitSound
    <3> DEFINE s == IF visit[v].new THEN visit[v].link ELSE NoLink
    <3> HIDE DEF s
    <3>2. [visit[v] EXCEPT !.at = "done", !.counted = visit[v].link, !.source = s]
          = [at |-> "done", person |-> visit[v].person, link |-> visit[v].link,
             new |-> visit[v].new, source |-> s, counted |-> visit[v].link]
      BY <3>1, VisitDone, Zenon
    <3> QED  BY <3>2, Zenon DEF Attributes, s
  <2>2. /\ r.at = "done" /\ r.counted = visit[v].link
        /\ r.source = (IF visit[v].new THEN visit[v].link ELSE NoLink)
        /\ r.person = visit[v].person /\ r.link = visit[v].link /\ r.new = visit[v].new
        /\ IsVisit(r)
    BY <2>3 DEF IsVisit
  <2> HIDE DEF r
  <2>4. visit'[v] = r
    BY <1>0, <2>1
  <2>5. VisitSound(v)'
    BY <2>1, <2>2, <2>4 DEF VisitSound, Held
  <2>6. \A u \in Visits \ {v} : Held(u) => visit[u].person # r.person
    BY <2>1, <2>2 DEF CampaignsInv, Held
  <2> QED  BY <2>1, <2>5, <2>6, VisitStep
<1> QED  BY <1>1, <1>2, <1>3, <1>4, <1>5

\* The visit that ends has no claim on another customer, and the one
\* customer it may add to a campaign is matched by the click it adds.
LEMMA CommitStep ==
    ASSUME CampaignsInv, NEW v \in Visits, CommitVisit(v)
    PROVE  CampaignsInv'
<1> DEFINE r == visit[v]
           p == visit[v].person
           l == visit[v].counted
<1>1. /\ r # NoVisit /\ VisitSound(v) /\ r.at = "done" /\ Held(v)
      /\ p \in People /\ l \in Links \cup {NoLink}
      /\ r.source = NoLink \/ (r.new /\ r.source = l)
      /\ r.new => known[p] = Stranger
  BY DEF CommitVisit, Visiting, CampaignsInv, VisitSound, Held
<1>2. known' = [known EXCEPT ![p] = IF r.new THEN r.source ELSE @]
  BY <1>1 DEF CommitVisit
<1>3. /\ known' \in [People -> Links \cup {NoLink, Stranger}]
      /\ known'[p] = (IF r.new THEN r.source ELSE known[p])
      /\ \A q \in People \ {p} : known'[q] = known[q]
  BY <1>1, <1>2 DEF CampaignsInv
<1>4. /\ DOMAIN visit' = Visits /\ visit'[v] = NoVisit
      /\ \A u \in Visits \ {v} : visit'[u] = visit[u]
  BY DEF CommitVisit, VisitEnds, CampaignsInv
<1>5. /\ campaign' \in [Links -> [exists: BOOLEAN, active: BOOLEAN, clicks: Nat]]
      /\ visited' \in [Links -> Nat]
      /\ \A k \in Links :
            /\ campaign'[k].exists = campaign[k].exists
            /\ campaign'[k].active = campaign[k].active
            /\ campaign'[k].clicks = campaign[k].clicks + IF k = l THEN 1 ELSE 0
            /\ visited'[k] = visited[k] + IF k = l THEN 1 ELSE 0
            /\ k = l => campaign[k].exists
  <2>0. /\ campaign \in [Links -> [exists: BOOLEAN, active: BOOLEAN, clicks: Nat]]
        /\ visited \in [Links -> Nat]
    BY DEF CampaignsInv
  <2>1. CASE l = NoLink
    <3>1. UNCHANGED <<campaign, visited>> /\ l \notin Links
      BY <2>1, CampaignsAssumption DEF CommitVisit
    <3> QED  BY <2>0, <3>1
  <2>2. CASE l # NoLink
    <3>1. /\ campaign' = [campaign EXCEPT ![l].clicks = @ + 1]
          /\ visited' = [visited EXCEPT ![l] = @ + 1]
          /\ l \in Links /\ campaign[l].exists
      BY <1>1, <2>2 DEF CommitVisit, VisitSound
    <3> QED  BY <2>0, <3>1
  <2> QED  BY <2>1, <2>2
<1>6. ASSUME NEW k \in Links
      PROVE  /\ IsFiniteSet(CameWith(k)') /\ Cardinality(CameWith(k)') <= visited'[k]
             /\ campaign'[k].clicks = visited'[k]
             /\ ~campaign'[k].exists => visited'[k] = 0 /\ ~campaign'[k].active
  <2>1. /\ campaign[k].clicks = visited[k]
        /\ ~campaign[k].exists => visited[k] = 0 /\ ~campaign[k].active
        /\ IsFiniteSet(CameWith(k)) /\ Cardinality(CameWith(k)) <= visited[k]
        /\ visited[k] \in Nat /\ campaign[k].clicks \in Nat
    BY DEF CampaignsInv
  <2>2. Cardinality(CameWith(k)) \in Nat
    BY <2>1, FS_CardinalityType
  <2>3. CASE k = l
    <3>1. CameWith(k)' = CameWith(k) \/ CameWith(k)' = CameWith(k) \cup {p}
      <4>1. CASE r.new /\ r.source = k
        BY <1>1, <1>3, <4>1 DEF CameWith
      <4>2. CASE ~r.new
        BY <1>1, <1>3, <4>2 DEF CameWith
      <4>3. CASE r.new /\ r.source # k
        <5>1. known[p] = Stranger /\ Stranger # k
          BY <1>1, <4>3, CampaignsAssumption
        <5> QED  BY <1>1, <1>3, <4>3, <5>1 DEF CameWith
      <4> QED  BY <4>1, <4>2, <4>3
    <3>2. /\ IsFiniteSet(CameWith(k)')
          /\ Cardinality(CameWith(k)') <= Cardinality(CameWith(k)) + 1
      <4> DEFINE S == CameWith(k)
      <4>1. IsFiniteSet(S) /\ Cardinality(S) \in Nat
        BY <2>1, <2>2
      <4> HIDE DEF S
      <4> DEFINE T == S \cup {p}
      <4>2. /\ IsFiniteSet(T)
            /\ Cardinality(T) = IF p \in S THEN Cardinality(S) ELSE Cardinality(S) + 1
        BY <4>1, FS_AddElement
      <4>3. CameWith(k)' = S \/ CameWith(k)' = T
        BY <3>1 DEF S
      <4> HIDE DEF T
      <4>5. Cardinality(T) <= Cardinality(S) + 1 /\ Cardinality(S) <= Cardinality(S) + 1
        BY <4>1, <4>2
      <4>4. /\ IsFiniteSet(CameWith(k)')
            /\ Cardinality(CameWith(k)') <= Cardinality(S) + 1
        BY <4>1, <4>2, <4>3, <4>5, Zenon
      <4> QED  BY <4>4 DEF S
    <3>3. Cardinality(CameWith(k)') \in Nat
      BY <3>2, FS_CardinalityType
    <3> QED  BY <1>5, <2>1, <2>2, <2>3, <3>2, <3>3
  <2>4. CASE k # l
    <3>1. r.source # k
      BY <1>1, <2>4, CampaignsAssumption
    <3>2. CameWith(k)' = CameWith(k)
      <4>1. CASE r.new
        <5>1. known[p] = Stranger /\ Stranger # k
          BY <1>1, <4>1, CampaignsAssumption
        <5> QED  BY <1>1, <1>3, <3>1, <4>1, <5>1 DEF CameWith
      <4>2. CASE ~r.new
        BY <1>1, <1>3, <4>2 DEF CameWith
      <4> QED  BY <4>1, <4>2
    <3> QED  BY <1>5, <2>1, <2>4, <3>2
  <2> QED  BY <2>3, <2>4
<1>7. ASSUME NEW u \in Visits, visit'[u] # NoVisit
      PROVE  VisitSound(u)'
  <2>1. u # v /\ visit'[u] = visit[u] /\ VisitSound(u)
    BY <1>4, <1>7 DEF CampaignsInv
  <2>2. Held(u) => visit[u].person # p
    BY <1>1, <2>1 DEF CampaignsInv
  <2>3. Held(u) => known'[visit[u].person] = known[visit[u].person]
    BY <1>3, <2>1, <2>2 DEF VisitSound
  <2>4. \A k \in Links : campaign'[k].exists = campaign[k].exists
    BY <1>5
  <2> QED  BY <2>1, <2>3, <2>4 DEF VisitSound, Held, IsVisit
<1>8. \A u, w \in Visits : u # w /\ Held(u)' /\ Held(w)' =>
        visit'[u].person # visit'[w].person
  BY <1>4 DEF Held, CampaignsInv
<1> QED  BY <1>3, <1>4, <1>5, <1>6, <1>7, <1>8 DEF CampaignsInv

\* An administrator writes only a campaign that nobody is crediting.
LEMMA SourceStep ==
    ASSUME CampaignsInv, NEW l \in Links, CreateSource(l) \/ SwitchSource(l)
    PROVE  CampaignsInv'
<1>1. /\ UNCHANGED <<known, visit, visited>>
      /\ campaign' \in [Links -> [exists: BOOLEAN, active: BOOLEAN, clicks: Nat]]
      /\ \A k \in Links : /\ campaign'[k].clicks = visited[k]
                          /\ campaign[k].exists => campaign'[k].exists
                          /\ ~campaign'[k].exists => visited[k] = 0 /\ ~campaign'[k].active
  <2>0. /\ campaign \in [Links -> [exists: BOOLEAN, active: BOOLEAN, clicks: Nat]]
        /\ \A k \in Links : /\ campaign[k].clicks = visited[k]
                            /\ ~campaign[k].exists => visited[k] = 0 /\ ~campaign[k].active
    BY DEF CampaignsInv
  <2>1. CASE CreateSource(l)
    BY <2>0, <2>1 DEF CreateSource
  <2>2. CASE SwitchSource(l)
    BY <2>0, <2>2 DEF SwitchSource
  <2> QED  BY <2>1, <2>2
<1>2. \A u \in Visits : visit'[u] # NoVisit => VisitSound(u)'
  <2> SUFFICES ASSUME NEW u \in Visits, visit[u] # NoVisit PROVE VisitSound(u)'
    BY <1>1
  <2>1. VisitSound(u)
    BY DEF CampaignsInv
  <2>2. visit[u].counted # NoLink => visit[u].counted \in Links
    BY <2>1 DEF VisitSound
  <2>3. visit[u].at = "found" => visit[u].link \in Links
    BY <2>1 DEF VisitSound
  <2> QED  BY <1>1, <2>1, <2>2, <2>3 DEF VisitSound, Held, IsVisit
<1>3. \A k \in Links : CameWith(k)' = CameWith(k)
  BY <1>1 DEF CameWith
<1> QED  BY <1>1, <1>2, <1>3 DEF CampaignsInv, Held

LEMMA CampaignsStart ==
    ASSUME CampaignsInit PROVE CampaignsInv
<1>1. \A l \in Links : CameWith(l) = {}
  BY CampaignsAssumption DEF CampaignsInit, CameWith
<1>2. IsFiniteSet({}) /\ Cardinality({}) = 0
  BY FS_EmptySet
<1>3. /\ known \in [People -> Links \cup {NoLink, Stranger}]
      /\ campaign \in [Links -> [exists: BOOLEAN, active: BOOLEAN, clicks: Nat]]
      /\ visited \in [Links -> Nat]
      /\ DOMAIN visit = Visits
  BY DEF CampaignsInit
<1>4. \A l \in Links : /\ campaign[l].clicks = visited[l] /\ visited[l] = 0
                       /\ ~campaign[l].active
  BY DEF CampaignsInit
<1>5. \A v \in Visits : visit[v] = NoVisit
  BY DEF CampaignsInit
<1>6. \A l \in Links : IsFiniteSet(CameWith(l)) /\ Cardinality(CameWith(l)) <= visited[l]
  <2>1. 0 <= 0
    OBVIOUS
  <2> QED  BY <1>1, <1>2, <1>4, <2>1, Zenon
<1>7. \A v \in Visits : ~Held(v)
  BY <1>5 DEF Held
<1> QED  BY <1>3, <1>4, <1>5, <1>6, <1>7 DEF CampaignsInv

LEMMA CampaignsStep ==
    ASSUME CampaignsInv, [CampaignsNext]_campaignVars PROVE CampaignsInv'
<1>1. CASE UNCHANGED campaignVars
  BY <1>1 DEF CampaignsInv, campaignVars, VisitSound, IsVisit, Held, CameWith
<1>2. CASE CampaignsNext
  BY <1>2, VisitSteps, CommitStep, SourceStep DEF CampaignsNext
<1> QED  BY <1>1, <1>2

\* The campaign of a customer is written once, with the row.
LEMMA CampaignsAddUpStep ==
    ASSUME CampaignsInv, CampaignsInv', [CampaignsNext]_campaignVars
    PROVE  /\ \A l \in Links :
                /\ campaign'[l].clicks = visited'[l]
                /\ Cardinality(CameWith(l)') <= campaign'[l].clicks
           /\ \A p \in People : known[p] # Stranger => known'[p] = known[p]
<1>1. \A l \in Links : /\ campaign'[l].clicks = visited'[l]
                       /\ Cardinality(CameWith(l)') <= campaign'[l].clicks
  BY DEF CampaignsInv
<1>2. ASSUME NEW p \in People, known[p] # Stranger
      PROVE  known'[p] = known[p]
  <2>1. CASE UNCHANGED known
    BY <2>1
  <2>2. ASSUME NEW v \in Visits, CommitVisit(v) PROVE known'[p] = known[p]
    <3>1. /\ visit[v].new => known[visit[v].person] = Stranger
          /\ visit[v].source # NoLink => visit[v].new
          /\ p \in DOMAIN known
      BY <2>2 DEF CommitVisit, Visiting, CampaignsInv, VisitSound, Held
    <3> QED  BY <1>2, <2>2, <3>1 DEF CommitVisit
  <2>3. \/ UNCHANGED known
        \/ \E v \in Visits : CommitVisit(v)
    BY DEF CampaignsNext, BeginVisit, Register, RegistersTwice, FindSource, CountClick,
           VisitFails, CreateSource, SwitchSource, campaignVars
  <2> QED  BY <2>1, <2>2, <2>3
<1> QED  BY <1>1, <1>2

\* The clicks of a campaign are the visits it was credited with, they cover
\* its customers, and a customer's campaign is never given, changed or taken
\* after the first contact (bot/handlers/user/start.py and
\* services/traffic_source_service.py), for any number of visits and links.
THEOREM CampaignsCounted == CampaignsSpec => CampaignsAddUp
<1>1. CampaignsInit => CampaignsInv
  BY CampaignsStart
<1>2. CampaignsInv /\ [CampaignsNext]_campaignVars => CampaignsInv'
  BY CampaignsStep
<1>3. CampaignsInv /\ CampaignsInv' /\ [CampaignsNext]_campaignVars
      => [/\ \A l \in Links :
               /\ campaign'[l].clicks = visited'[l]
               /\ Cardinality(CameWith(l)') <= campaign'[l].clicks
          /\ \A p \in People : known[p] # Stranger => known'[p] = known[p]]_campaignVars
  BY CampaignsAddUpStep
<1> QED  BY <1>1, <1>2, <1>3, PTL DEF CampaignsSpec, CampaignsAddUp

-----------------------------------------------------------------------------
(* The checkout dialogue. *)

FormOf(t, n, a, c, m, p, r, k, q) ==
    [type |-> t, name |-> n, address |-> a, comment |-> c, method |-> m,
     paymentQuote |-> p, receipt |-> r, key |-> k, request |-> q]
IsForm(f) ==
    f = FormOf(f.type, f.name, f.address, f.comment, f.method, f.paymentQuote,
               f.receipt, f.key, f.request)

\* A form's key is one of ks, and names a summary in sh with the form's
\* request unless the order has been made; and its receipt is for the quote
\* it was asked for.
Grounded(f, ks, os, sh) ==
    /\ IsForm(f)
    /\ f.key = 0 \/ f.key \in 1 .. ks
    /\ f.key # 0 => (f.key \in os \/ sh[f.key].request = f.request)
    /\ f.receipt = Unset \/ f.receipt.quote = f.paymentQuote

\* A summary of a card payment has no receipt, or one for what it costs, or
\* one for no price at all.
PaidFor(s) ==
    s.request.command.method = "card" =>
        s.receipt = Unset \/ s.receipt.quote \in {Unset, s.request.quote}

HandlerSound(r, ks, os, sh) ==
    /\ r = [doing |-> r.doing, form |-> r.form, quote |-> r.quote]
    /\ Grounded(r.form, ks, os, sh)
    /\ r.doing = "confirm" => ConfirmsShown(r.form)
    /\ r.doing = "summary" => ~ReceiptOutdated(r.form, r.quote)

\* What ShownIsOrdered rests on.
DialogueInv ==
    /\ keys \in 0 .. MaxKeys
    /\ DOMAIN shown = 1 .. MaxKeys /\ DOMAIN handler = Handlers
    /\ \A k \in 1 .. keys : PaidFor(shown[k])
    /\ Grounded(form, keys, ordered, shown)
    /\ \A h \in Handlers : handler[h] # NoHandler =>
            HandlerSound(handler[h], keys, ordered, shown)

\* Answers change what the form says, not the summary its key names.
LEMMA AnswersKeepGround ==
    ASSUME NEW f, NEW ks, NEW os, NEW sh, Grounded(f, ks, os, sh), NEW x
    PROVE  /\ Grounded([f EXCEPT !.type = x], ks, os, sh)
           /\ Grounded([f EXCEPT !.name = x], ks, os, sh)
           /\ Grounded([f EXCEPT !.address = x], ks, os, sh)
           /\ Grounded([f EXCEPT !.comment = x], ks, os, sh)
           /\ Grounded([f EXCEPT !.method = x], ks, os, sh)
           /\ Grounded([f EXCEPT !.receipt = [quote |-> f.paymentQuote]], ks, os, sh)
           /\ Grounded(AskForReceipt(f, x), ks, os, sh)
<1> DEFINE F(t, n, a, c, m, p, r) == FormOf(t, n, a, c, m, p, r, f.key, f.request)
<1>1. ASSUME NEW t, NEW n, NEW a, NEW c, NEW m, NEW p, NEW r,
             r = Unset \/ r.quote = p
      PROVE  Grounded(F(t, n, a, c, m, p, r), ks, os, sh)
  <2>1. LET g == F(t, n, a, c, m, p, r)
        IN  /\ IsForm(g) /\ g.key = f.key /\ g.request = f.request
            /\ g.receipt = r /\ g.paymentQuote = p
    BY DEF FormOf, IsForm
  <2> QED  BY <1>1, <2>1 DEF Grounded
<1>2. f = F(f.type, f.name, f.address, f.comment, f.method, f.paymentQuote, f.receipt)
      /\ (f.receipt = Unset \/ f.receipt.quote = f.paymentQuote)
  BY DEF Grounded, IsForm
<1>3. [f EXCEPT !.type = x] =
        F(x, f.name, f.address, f.comment, f.method, f.paymentQuote, f.receipt)
  BY <1>2 DEF FormOf
<1>4. [f EXCEPT !.name = x] =
        F(f.type, x, f.address, f.comment, f.method, f.paymentQuote, f.receipt)
  BY <1>2 DEF FormOf
<1>5. [f EXCEPT !.address = x] =
        F(f.type, f.name, x, f.comment, f.method, f.paymentQuote, f.receipt)
  BY <1>2 DEF FormOf
<1>6. [f EXCEPT !.comment = x] =
        F(f.type, f.name, f.address, x, f.method, f.paymentQuote, f.receipt)
  BY <1>2 DEF FormOf
<1>7. [f EXCEPT !.method = x] =
        F(f.type, f.name, f.address, f.comment, x, f.paymentQuote, f.receipt)
  BY <1>2 DEF FormOf
<1>8. [f EXCEPT !.receipt = [quote |-> f.paymentQuote]] =
        F(f.type, f.name, f.address, f.comment, f.method, f.paymentQuote,
          [quote |-> f.paymentQuote])
      /\ [quote |-> f.paymentQuote].quote = f.paymentQuote
  BY <1>2 DEF FormOf
<1>9. AskForReceipt(f, x) =
        F(f.type, f.name, f.address, f.comment, f.method, x, Unset)
  <2>1. [f EXCEPT !.paymentQuote = x] =
            F(f.type, f.name, f.address, f.comment, f.method, x, f.receipt)
    BY <1>2 DEF FormOf
  <2>2. AskForReceipt(f, x) =
            [F(f.type, f.name, f.address, f.comment, f.method, x, f.receipt)
                EXCEPT !.receipt = Unset]
    BY <2>1 DEF AskForReceipt
  <2> QED  BY <2>2 DEF FormOf
<1> HIDE DEF F
<1> QED  BY <1>1, <1>2, <1>3, <1>4, <1>5, <1>6, <1>7, <1>8, <1>9

\* Steps that leave the summaries alone, and leave every form grounded.
LEMMA DialogueFrame ==
    ASSUME DialogueInv, UNCHANGED historyVars, Grounded(form', keys, ordered, shown),
           DOMAIN handler' = Handlers,
           \A h \in Handlers :
                \/ handler'[h] = handler[h] \/ handler'[h] = NoHandler
                \/ HandlerSound(handler'[h], keys, ordered, shown)
    PROVE  DialogueInv'
<1>1. keys' = keys /\ ordered' = ordered /\ shown' = shown
  BY DEF historyVars
<1>2. \A h \in Handlers : handler'[h] # NoHandler =>
            HandlerSound(handler'[h], keys, ordered, shown)
  BY DEF DialogueInv
<1> QED  BY <1>1, <1>2 DEF DialogueInv

\* A handler set to a record, for the frame.
LEMMA HandlerSet ==
    ASSUME DOMAIN handler = Handlers, NEW h \in Handlers, NEW r,
           handler' = [handler EXCEPT ![h] = r]
    PROVE  /\ DOMAIN handler' = Handlers /\ handler'[h] = r
           /\ \A i \in Handlers \ {h} : handler'[i] = handler[i]
OBVIOUS

\* The questions and their answers.
LEMMA AnswersStep ==
    ASSUME DialogueInv, UNCHANGED historyVars, UNCHANGED handler,
           \/ form' = form \/ form' = EmptyForm
           \/ \E x : \/ form' = [form EXCEPT !.type = x]
                     \/ form' = [form EXCEPT !.name = x]
                     \/ form' = [form EXCEPT !.address = x]
                     \/ form' = [form EXCEPT !.comment = x]
                     \/ form' = [form EXCEPT !.method = x]
    PROVE  DialogueInv'
<1>1. Grounded(EmptyForm, keys, ordered, shown)
  BY DEF EmptyForm, Grounded, IsForm, FormOf
<1>2. Grounded(form, keys, ordered, shown)
  BY DEF DialogueInv
<1>3. Grounded(form', keys, ordered, shown)
  <2>1. ASSUME NEW x
        PROVE  /\ Grounded([form EXCEPT !.type = x], keys, ordered, shown)
               /\ Grounded([form EXCEPT !.name = x], keys, ordered, shown)
               /\ Grounded([form EXCEPT !.address = x], keys, ordered, shown)
               /\ Grounded([form EXCEPT !.comment = x], keys, ordered, shown)
               /\ Grounded([form EXCEPT !.method = x], keys, ordered, shown)
    BY <1>2, AnswersKeepGround
  <2>2. CASE \E x : \/ form' = [form EXCEPT !.type = x]
                     \/ form' = [form EXCEPT !.name = x]
                     \/ form' = [form EXCEPT !.address = x]
                     \/ form' = [form EXCEPT !.comment = x]
                     \/ form' = [form EXCEPT !.method = x]
    <3>1. PICK x : \/ form' = [form EXCEPT !.type = x]
                   \/ form' = [form EXCEPT !.name = x]
                   \/ form' = [form EXCEPT !.address = x]
                   \/ form' = [form EXCEPT !.comment = x]
                   \/ form' = [form EXCEPT !.method = x]
      BY <2>2
    <3>2. /\ Grounded([form EXCEPT !.type = x], keys, ordered, shown)
          /\ Grounded([form EXCEPT !.name = x], keys, ordered, shown)
          /\ Grounded([form EXCEPT !.address = x], keys, ordered, shown)
          /\ Grounded([form EXCEPT !.comment = x], keys, ordered, shown)
          /\ Grounded([form EXCEPT !.method = x], keys, ordered, shown)
      BY <2>1
    <3> QED  BY <3>1, <3>2
  <2>3. CASE form' = form \/ form' = EmptyForm
    BY <1>1, <1>2, <2>3
  <2> QED  BY <2>2, <2>3
<1>4. DOMAIN handler' = Handlers
  BY DEF DialogueInv
<1> QED  BY <1>3, <1>4, DialogueFrame

\* A handler that begins with data that are grounded.
LEMMA BeginStep ==
    ASSUME DialogueInv, NEW h \in Handlers, NEW f, Grounded(f, keys, ordered, shown),
           NEW what \in {"show", "ask"}, NEW quote, HandlerGoesOn(h, what, f, quote),
           form' = f, UNCHANGED historyVars
    PROVE  DialogueInv'
<1> DEFINE r == [doing |-> what, form |-> f, quote |-> quote]
<1>1. handler' = [handler EXCEPT ![h] = r] /\ DOMAIN handler = Handlers
  BY DEF HandlerGoesOn, DialogueInv
<1>2. HandlerSound(r, keys, ordered, shown)
  BY DEF HandlerSound
<1> HIDE DEF r
<1>3. /\ DOMAIN handler' = Handlers /\ handler'[h] = r
      /\ \A i \in Handlers \ {h} : handler'[i] = handler[i]
  BY <1>1, HandlerSet
<1> QED  BY <1>2, <1>3, DialogueFrame

LEMMA BeginShowStep ==
    ASSUME DialogueInv, NEW h \in Handlers, NEW f, Grounded(f, keys, ordered, shown),
           BeginShow(h, f)
    PROVE  DialogueInv'
BY BeginStep DEF BeginShow

\* The quote in a handler's hands: if the summary follows, the receipt at hand
\* is for it.
LEMMA QuoteStep ==
    ASSUME DialogueInv, NEW h \in Handlers, QuoteSummary(h)
    PROVE  DialogueInv'
<1> DEFINE f == handler[h].form
           quote == Quote(f.type, Method(f))
<1>1. /\ handler[h] # NoHandler /\ HandlerSound(handler[h], keys, ordered, shown)
      /\ Grounded(f, keys, ordered, shown) /\ Grounded(form, keys, ordered, shown)
      /\ UNCHANGED historyVars /\ form' = form /\ DOMAIN handler = Handlers
  BY DEF QuoteSummary, Doing, DialogueInv, HandlerSound
<1>2. PICK r : /\ handler' = [handler EXCEPT ![h] = r]
               /\ \/ r = NoHandler
                  \/ /\ r = [doing |-> r.doing, form |-> f, quote |-> quote]
                     /\ r.doing \in {"ask", "summary"}
                     /\ r.doing = "summary" => ~ReceiptOutdated(f, quote)
  <2> HIDE DEF f, quote
  <2>1. \/ handler' = [handler EXCEPT ![h] = NoHandler]
        \/ ReceiptOutdated(f, quote)
            /\ handler' = [handler EXCEPT ![h] = [doing |-> "ask", form |-> f, quote |-> quote]]
        \/ ~ReceiptOutdated(f, quote)
            /\ handler' = [handler EXCEPT ![h] =
                            [doing |-> "summary", form |-> f, quote |-> quote]]
    BY DEF QuoteSummary, HandlerGoesOn, HandlerDone, f, quote
  <2> QED  BY <2>1
<1>3. r = NoHandler \/ HandlerSound(r, keys, ordered, shown)
  <2> SUFFICES ASSUME r # NoHandler PROVE HandlerSound(r, keys, ordered, shown)
    OBVIOUS
  <2> HIDE DEF f, quote
  <2>1. r.form = f /\ r.quote = quote /\ r.doing # "confirm"
    BY <1>2
  <2> QED  BY <1>1, <1>2, <2>1 DEF HandlerSound
<1>4. /\ DOMAIN handler' = Handlers /\ handler'[h] = r
      /\ \A i \in Handlers \ {h} : handler'[i] = handler[i]
  BY <1>1, <1>2, HandlerSet
<1> QED  BY <1>1, <1>3, <1>4, DialogueFrame

\* The receipt is asked for, whatever the data are by then.
LEMMA RequestStep ==
    ASSUME DialogueInv, NEW h \in Handlers, RequestReceipt(h)
    PROVE  DialogueInv'
<1>1. /\ form' = AskForReceipt(form, handler[h].quote) /\ UNCHANGED historyVars
      /\ handler' = [handler EXCEPT ![h] = NoHandler] /\ DOMAIN handler = Handlers
      /\ Grounded(form, keys, ordered, shown)
  BY DEF RequestReceipt, HandlerDone, DialogueInv
<1>2. Grounded(form', keys, ordered, shown)
  BY <1>1, AnswersKeepGround
<1>3. /\ DOMAIN handler' = Handlers /\ handler'[h] = NoHandler
      /\ \A i \in Handlers \ {h} : handler'[i] = handler[i]
  BY <1>1, HandlerSet
<1> QED  BY <1>1, <1>2, <1>3, DialogueFrame

\* A summary shown: its key is new, or was read and stands for the same
\* request, even if the data have another key, or none, by now.
LEMMA SummaryStep ==
    ASSUME DialogueInv, NEW h \in Handlers, ShowSummary(h)
    PROVE  DialogueInv'
<1> DEFINE f == handler[h].form
           quote == handler[h].quote
           r == Request(f, quote)
           key == CheckoutKey(f, r)
<1>1. /\ handler[h] # NoHandler /\ HandlerSound(handler[h], keys, ordered, shown)
      /\ Grounded(f, keys, ordered, shown) /\ Grounded(form, keys, ordered, shown)
      /\ ~ReceiptOutdated(f, quote)
      /\ handler' = [handler EXCEPT ![h] = NoHandler] /\ DOMAIN handler = Handlers
  BY DEF ShowSummary, Doing, DialogueInv, HandlerSound, HandlerDone
<1>2. /\ DOMAIN handler' = Handlers /\ handler'[h] = NoHandler
      /\ \A i \in Handlers \ {h} : handler'[i] = handler[i]
  BY <1>1, HandlerSet
<1>3. /\ ordered' = ordered /\ key <= MaxKeys
      /\ keys' = IF key > keys THEN key ELSE keys
      /\ form' = [form EXCEPT !.key = key, !.request = r]
      /\ shown' = [shown EXCEPT ![key] = [request |-> r, receipt |-> f.receipt]]
  BY DEF ShowSummary
<1>4. keys \in 0 .. MaxKeys /\ MaxKeys \in Nat /\ DOMAIN shown = 1 .. MaxKeys
  BY DialogueAssumption DEF DialogueInv
<1>5. \/ key = f.key /\ f.key # 0 /\ key \in 1 .. keys /\ f.request = r
      \/ key = keys + 1
  BY <1>1 DEF CheckoutKey, Grounded
<1>6. r.quote = quote /\ r.command.method = Method(f)
  BY DEF Request, Command
<1>7. Method(f) = "card" => f.receipt = Unset \/ f.receipt.quote \in {Unset, quote}
  BY <1>1 DEF ReceiptOutdated, Grounded
<1> HIDE DEF r, quote, key, f
<1>8. /\ key \in 1 .. MaxKeys /\ keys' \in 0 .. MaxKeys
      /\ keys' = keys \/ (keys' = keys + 1 /\ key = keys + 1)
      /\ key \in 1 .. keys'
  BY <1>3, <1>4, <1>5
<1>9. /\ shown'[key] = [request |-> r, receipt |-> f.receipt]
      /\ \A k \in 1 .. MaxKeys \ {key} : shown'[k] = shown[k]
      /\ DOMAIN shown' = 1 .. MaxKeys
  BY <1>3, <1>4, <1>8
<1>10. PaidFor(shown'[key])
  BY <1>6, <1>7, <1>9 DEF PaidFor
<1>11. \A k \in 1 .. keys' : PaidFor(shown'[k])
  <2> SUFFICES ASSUME NEW k \in 1 .. keys', k # key
               PROVE  PaidFor(shown'[k])
    BY <1>10
  <2>1. k \in 1 .. keys /\ k \in 1 .. MaxKeys
    BY <1>4, <1>8
  <2> QED  BY <1>9, <2>1 DEF DialogueInv
<1>12. ASSUME NEW g, Grounded(g, keys, ordered, shown)
       PROVE  Grounded(g, keys', ordered', shown')
  <2>1. /\ IsForm(g) /\ (g.receipt = Unset \/ g.receipt.quote = g.paymentQuote)
        /\ g.key = 0 \/ g.key \in 1 .. keys
        /\ g.key # 0 => (g.key \in ordered \/ shown[g.key].request = g.request)
    BY <1>12 DEF Grounded
  <2>2. g.key = 0 \/ g.key \in 1 .. keys'
    BY <1>4, <1>8, <2>1
  <2>3. g.key # 0 => (g.key \in ordered' \/ shown'[g.key].request = g.request)
    <3> SUFFICES ASSUME g.key # 0, g.key \notin ordered
                 PROVE  shown'[g.key].request = g.request
      BY <1>3
    <3>1. g.key \in 1 .. MaxKeys /\ shown[g.key].request = g.request
      BY <1>4, <2>1
    <3>2. CASE g.key # key
      BY <1>9, <3>1, <3>2
    <3>3. CASE g.key = key
      <4>1. key # keys + 1
        BY <1>4, <2>1, <3>3
      <4>2. f.key = key /\ f.request = r /\ f.key # 0
        BY <1>5, <4>1
      <4>3. f.key \in ordered \/ shown[f.key].request = f.request
        BY <1>1, <4>2 DEF Grounded
      <4> QED  BY <1>9, <3>1, <3>3, <4>2, <4>3
    <3> QED  BY <3>2, <3>3
  <2> QED  BY <2>1, <2>2, <2>3 DEF Grounded
<1>13. Grounded(form', keys', ordered', shown')
  <2>1. /\ IsForm(form') /\ form'.key = key /\ form'.request = r
        /\ form'.receipt = form.receipt /\ form'.paymentQuote = form.paymentQuote
    BY <1>1, <1>3 DEF Grounded, IsForm, FormOf
  <2>2. shown'[key].request = r
    BY <1>9
  <2> QED  BY <1>1, <1>8, <2>1, <2>2 DEF Grounded
<1>14. \A i \in Handlers : handler'[i] # NoHandler =>
          HandlerSound(handler'[i], keys', ordered', shown')
  BY <1>2, <1>12 DEF DialogueInv, HandlerSound
<1> QED  BY <1>2, <1>8, <1>9, <1>11, <1>13, <1>14 DEF DialogueInv

\* An order made: its key counts for no form from now on.
LEMMA OrderStep ==
    ASSUME DialogueInv, NEW h \in Handlers, PlaceOrder(h)
    PROVE  DialogueInv'
<1> DEFINE f == handler[h].form
<1>1. /\ handler[h] # NoHandler /\ Grounded(f, keys, ordered, shown)
      /\ handler' = [handler EXCEPT ![h] = [doing |-> "clear", form |-> f, quote |-> Unset]]
      /\ ordered \subseteq ordered'
      /\ keys' = keys /\ form' = form /\ shown' = shown /\ DOMAIN handler = Handlers
  BY DEF PlaceOrder, Doing, DialogueInv, HandlerSound, HandlerGoesOn
<1>2. ASSUME NEW g, Grounded(g, keys, ordered, shown)
      PROVE  Grounded(g, keys, ordered', shown')
  BY <1>1, <1>2 DEF Grounded
<1>3. /\ DOMAIN handler' = Handlers
      /\ handler'[h] = [doing |-> "clear", form |-> f, quote |-> Unset]
      /\ \A i \in Handlers \ {h} : handler'[i] = handler[i]
  BY <1>1, HandlerSet
<1>4. HandlerSound(handler'[h], keys, ordered', shown')
  BY <1>1, <1>2, <1>3 DEF HandlerSound
<1>5. \A i \in Handlers : handler'[i] # NoHandler =>
            HandlerSound(handler'[i], keys, ordered', shown')
  BY <1>2, <1>3, <1>4 DEF DialogueInv, HandlerSound
<1>6. Grounded(form, keys, ordered', shown')
  BY <1>2 DEF DialogueInv
<1> QED  BY <1>1, <1>3, <1>5, <1>6 DEF DialogueInv

\* What the confirm button does short of an order.
LEMMA ConfirmStep ==
    ASSUME DialogueInv, NEW h \in Handlers,
           Confirm(h) \/ ReceiptRefused(h) \/ NothingToOrder(h) \/ ClearForm(h)
            \/ ReviewAgain(h) \/ ConfirmFails(h)
    PROVE  DialogueInv'
<1>1. DOMAIN handler = Handlers /\ Grounded(form, keys, ordered, shown)
      /\ (handler[h] # NoHandler => HandlerSound(handler[h], keys, ordered, shown))
  BY DEF DialogueInv
<1>2. ASSUME NEW r, handler' = [handler EXCEPT ![h] = r], UNCHANGED historyVars,
             r = NoHandler \/ HandlerSound(r, keys, ordered, shown),
             form' = form \/ form' = EmptyForm
      PROVE  DialogueInv'
  <2>1. Grounded(EmptyForm, keys, ordered, shown)
    BY DEF EmptyForm, Grounded, IsForm, FormOf
  <2>2. /\ DOMAIN handler' = Handlers /\ handler'[h] = r
        /\ \A i \in Handlers \ {h} : handler'[i] = handler[i]
    BY <1>1, <1>2, HandlerSet
  <2> QED  BY <1>1, <1>2, <2>1, <2>2, DialogueFrame
<1>3. CASE Confirm(h)
  <2>1. CASE ConfirmsShown(form)
    <3>1. HandlerSound([doing |-> "confirm", form |-> form, quote |-> Unset],
                       keys, ordered, shown)
      BY <1>1, <2>1 DEF HandlerSound
    <3> QED  BY <1>2, <1>3, <2>1, <3>1 DEF Confirm, HandlerGoesOn
  <2>2. CASE ~ConfirmsShown(form)
    BY <1>1, <1>3, <2>2, BeginShowStep DEF Confirm
  <2> QED  BY <2>1, <2>2
<1>4. CASE ReceiptRefused(h) \/ ConfirmFails(h) \/ ClearForm(h)
  BY <1>2, <1>4 DEF ReceiptRefused, ConfirmFails, ClearForm, HandlerDone
<1>5. CASE NothingToOrder(h)
  <2> DEFINE r == [doing |-> "clear", form |-> handler[h].form, quote |-> Unset]
  <2>1. handler[h] # NoHandler /\ UNCHANGED historyVars /\ form' = form
        /\ handler' = [handler EXCEPT ![h] = r]
    BY <1>5 DEF NothingToOrder, Doing, HandlerGoesOn
  <2>2. HandlerSound(r, keys, ordered, shown)
    BY <1>1, <2>1 DEF HandlerSound
  <2> HIDE DEF r
  <2> QED  BY <1>2, <2>1, <2>2
<1>6. CASE ReviewAgain(h)
  <2>1. HandlerSound([doing |-> "show", form |-> form, quote |-> Unset], keys, ordered, shown)
    BY <1>1 DEF HandlerSound
  <2> QED  BY <1>2, <1>6, <2>1 DEF ReviewAgain, HandlerGoesOn
<1> QED  BY <1>3, <1>4, <1>5, <1>6

\* DialogueInv is kept by every step.
LEMMA DialogueStep ==
    ASSUME DialogueInv, [DialogueNext]_dialogueVars
    PROVE  DialogueInv'
<1>1. Grounded(form, keys, ordered, shown)
  BY DEF DialogueInv
<1>2. CASE \/ UNCHANGED dialogueVars \/ StartCheckout \/ EnterPhone \/ EnterAddressComment
           \/ Back \/ Edit \/ LeaveCheckout
           \/ \E c \in Carts \cup {EmptyCart} : ChangeCart(c)
           \/ \E t \in Tariffs : ChangeTariff(t)
  <2>1. /\ form' = form \/ form' = EmptyForm
        /\ UNCHANGED historyVars /\ UNCHANGED handler
    BY <1>2 DEF dialogueVars, historyVars, StartCheckout, AskFirst, EnterPhone, Goto,
        EnterAddressComment, Back, Edit, LeaveCheckout, ChangeCart, ChangeTariff
  <2> QED  BY <2>1, AnswersStep
<1>3. ASSUME NEW x, ChooseType(x) \/ EnterName(x) \/ EnterAddress(x)
      PROVE  DialogueInv'
  <2>1. /\ \/ form' = [form EXCEPT !.type = x] \/ form' = [form EXCEPT !.name = x]
           \/ form' = [form EXCEPT !.address = x]
        /\ UNCHANGED historyVars /\ UNCHANGED handler
    BY <1>3 DEF ChooseType, EnterName, EnterAddress, Goto
  <2> QED  BY <2>1, AnswersStep
<1>4. ASSUME NEW h \in Handlers, NEW c, EnterComment(h, c)
      PROVE  DialogueInv'
  <2>1. CASE BeginShow(h, [form EXCEPT !.comment = c])
    BY <1>1, <2>1, AnswersKeepGround, BeginShowStep
  <2>2. CASE form' = [form EXCEPT !.comment = c] /\ Goto("choosing_payment")
    BY <2>2, AnswersStep DEF Goto
  <2> QED  BY <1>4, <2>1, <2>2 DEF EnterComment
<1>5. ASSUME NEW h \in Handlers, NEW m, ChoosePayment(h, m)
      PROVE  DialogueInv'
  <2> DEFINE f == [form EXCEPT !.method = m]
  <2>1. CASE BeginShow(h, f)
    BY <1>1, <2>1, AnswersKeepGround, BeginShowStep
  <2>2. CASE form' = f /\ UNCHANGED historyVars /\ UNCHANGED handler
    BY <2>2, AnswersStep
  <2>3. CASE form' = f /\ UNCHANGED historyVars
             /\ HandlerGoesOn(h, "ask", f, Quote(f.type, m))
    <3>1. Grounded(f, keys, ordered, shown)
      BY <1>1, AnswersKeepGround
    <3> HIDE DEF f
    <3> QED  BY <2>3, <3>1, BeginStep
  <2>4. \/ BeginShow(h, f)
        \/ form' = f /\ UNCHANGED historyVars /\ UNCHANGED handler
        \/ form' = f /\ UNCHANGED historyVars /\ HandlerGoesOn(h, "ask", f, Quote(f.type, m))
    BY <1>5 DEF ChoosePayment, Goto
  <2> QED  BY <2>1, <2>2, <2>3, <2>4
<1>6. ASSUME NEW h \in Handlers, SendReceipt(h)
      PROVE  DialogueInv'
  <2>1. Grounded([form EXCEPT !.receipt = [quote |-> form.paymentQuote]], keys, ordered, shown)
    BY <1>1, AnswersKeepGround
  <2> QED  BY <1>6, <2>1, BeginShowStep DEF SendReceipt
<1> QED
  BY <1>2, <1>3, <1>4, <1>5, <1>6, QuoteStep, RequestStep, SummaryStep,
     OrderStep, ConfirmStep DEF DialogueNext

LEMMA DialogueStart == DialogueInit => DialogueInv
<1> SUFFICES ASSUME DialogueInit PROVE DialogueInv
  OBVIOUS
<1>1. Grounded(EmptyForm, 0, ordered, shown)
  BY DEF EmptyForm, Grounded, IsForm, FormOf
<1> QED  BY <1>1, DialogueAssumption DEF DialogueInit, DialogueInv

\* What is ordered is what a summary with its key said last, and is paid for
\* as that summary asked (ShownIsOrdered), however the handlers of summaries
\* and of the confirm button overlap: a key that is reused stands for the
\* request it was read with.
THEOREM OrderedAsShown == DialogueSpec => ShownIsOrdered
<1>1. ASSUME DialogueInv, NEW h \in Handlers, PlaceOrder(h)
      PROVE  LET f == handler[h].form
                 quote == Quote(f.type, Method(f))
             IN  /\ shown[f.key].request = Request(f, quote)
                 /\ f.receipt = shown[f.key].receipt =>
                        f.receipt = Unset \/ f.receipt.quote \in {Unset, quote}
  <2> DEFINE f == handler[h].form
             quote == Quote(f.type, Method(f))
  <2>1. /\ handler[h] # NoHandler /\ Grounded(f, keys, ordered, shown) /\ ConfirmsShown(f)
        /\ f.key \notin ordered /\ f.request.quote = quote /\ ReceiptFits(f)
    BY <1>1 DEF PlaceOrder, Doing, DialogueInv, HandlerSound, Replayed, QuoteStands
  <2>2. f.key \in 1 .. keys /\ shown[f.key].request = f.request
        /\ f.request = Request(f, quote)
    BY <2>1 DEF Grounded, ConfirmsShown
  <2>3. PaidFor(shown[f.key])
    BY <1>1, <2>1, <2>2 DEF DialogueInv
  <2>4. Request(f, quote).command.method = Method(f) /\ Request(f, quote).quote = quote
    BY DEF Request, Command
  <2>5. ASSUME f.receipt = shown[f.key].receipt
        PROVE  f.receipt = Unset \/ f.receipt.quote \in {Unset, quote}
    BY <2>1, <2>2, <2>3, <2>4, <2>5 DEF ReceiptFits, PaidFor
  <2> QED  BY <2>2, <2>5
<1>2. DialogueInv =>
        \A h \in Handlers : PlaceOrder(h) =>
            LET f == handler[h].form
                quote == Quote(f.type, Method(f))
            IN  /\ shown[f.key].request = Request(f, quote)
                /\ f.receipt = shown[f.key].receipt =>
                        f.receipt = Unset \/ f.receipt.quote \in {Unset, quote}
  BY <1>1
<1> QED  BY <1>2, DialogueStart, DialogueStep, PTL DEF DialogueSpec, ShownIsOrdered

-----------------------------------------------------------------------------
(* Visitors' sessions. *)

StorefrontShape ==
    /\ tab \in [Tabs -> Session \cup {NoTab}]
    /\ stored \in [Tabs -> Nat]
    /\ batch \in [Batches -> Underway \cup {NoBatch}]

\* A session counts the events that are left, or more.
CountsAgree == \A s \in Tabs : stored[s] <= Events(s)

GuestOf(s, v) == tab[s] # NoTab /\ tab[s].user = Guest /\ tab[s].browser = v

\* A row is locked by one batch.  That of the batch is of its browser, the
\* others it has locked are guests of the browser, and stay so.
LocksSound ==
    /\ \A s \in Tabs : \A b, c \in Batches : HoldsTab(b, s) /\ HoldsTab(c, s) => b = c
    /\ \A b \in Batches : batch[b] # NoBatch =>
        /\ batch[b].at = "claim" <=> batch[b].locked = {}
        /\ batch[b].at # "claim" => batch[b].tab \in batch[b].locked /\ SameBrowser(b)
        /\ \A s \in batch[b].locked \ {batch[b].tab} : GuestOf(s, batch[b].browser)

StorefrontInv == StorefrontShape /\ CountsAgree /\ LocksSound

LEMMA StorefrontStart == StorefrontInit => StorefrontInv
BY DEF StorefrontInit, StorefrontInv, StorefrontShape, CountsAgree, LocksSound, Events, HoldsTab

\* A batch goes on and locks nothing but a row that is free.
LEMMA BatchGoesOn ==
    ASSUME StorefrontInv, NEW b \in Batches, NEW x \in Underway \cup {NoBatch},
           batch' = [batch EXCEPT ![b] = x], UNCHANGED <<tab, stored>>,
           x # NoBatch =>
             /\ \A s \in x.locked : HoldsTab(b, s) \/ TabFree(b, s)
             /\ x.at = "claim" <=> x.locked = {}
             /\ x.at # "claim" => /\ x.tab \in x.locked
                                  /\ tab[x.tab] # NoTab => tab[x.tab].browser = x.browser
             /\ \A s \in x.locked \ {x.tab} : GuestOf(s, x.browser)
    PROVE  StorefrontInv'
<1>1. /\ StorefrontShape' /\ batch'[b] = x
      /\ \A c \in Batches \ {b} : batch'[c] = batch[c]
  BY DEF StorefrontInv, StorefrontShape
<1>2. CountsAgree'
  BY DEF StorefrontInv, CountsAgree, Events
<1>3. \A s \in Tabs, c \in Batches \ {b} : HoldsTab(c, s)' = HoldsTab(c, s)
  BY <1>1 DEF HoldsTab
<1>4. \A s \in Tabs : HoldsTab(b, s)' => \A c \in Batches \ {b} : ~HoldsTab(c, s)
  <2> SUFFICES ASSUME NEW s \in Tabs, HoldsTab(b, s)', NEW c \in Batches \ {b}
               PROVE  ~HoldsTab(c, s)
    OBVIOUS
  <2>1. x # NoBatch /\ s \in x.locked
    BY <1>1 DEF HoldsTab
  <2> QED  BY <2>1 DEF TabFree, StorefrontInv, LocksSound
<1>5. \A s \in Tabs : \A d, c \in Batches : HoldsTab(d, s)' /\ HoldsTab(c, s)' => d = c
  BY <1>3, <1>4 DEF StorefrontInv, LocksSound
<1>6. ASSUME NEW c \in Batches, batch'[c] # NoBatch
      PROVE  /\ batch'[c].at = "claim" <=> batch'[c].locked = {}
             /\ batch'[c].at # "claim" => batch'[c].tab \in batch'[c].locked /\ SameBrowser(c)'
             /\ \A s \in batch'[c].locked \ {batch'[c].tab} : GuestOf(s, batch[c].browser)'
  <2>1. CASE c = b
    BY <1>1, <1>6, <2>1 DEF SameBrowser, GuestOf
  <2>2. CASE c # b
    BY <1>1, <1>6, <2>2 DEF SameBrowser, GuestOf, StorefrontInv, LocksSound
  <2> QED  BY <2>1, <2>2
<1> QED  BY <1>1, <1>2, <1>5, <1>6 DEF StorefrontInv, LocksSound

\* What the property asks of a step that changes rows.
SessionsKept ==
    \A s \in Tabs :
        /\ Stays(s) => /\ tab'[s].browser = tab[s].browser
                       /\ tab[s].user # Guest => tab'[s].user = tab[s].user
        /\ GetsCustomer(s) => SignedIn(tab'[s].user, tab'[s].browser)
        /\ tab'[s] # NoTab => /\ tab'[s].events = Events(s) + NewEvents(s)
                              /\ stored'[s] <= tab'[s].events

LEMMA EventsAreCounted ==
    ASSUME StorefrontShape, NEW s \in Tabs
    PROVE  /\ Events(s) \in Nat /\ stored[s] \in Nat
           /\ tab[s] # NoTab => tab[s].events = Events(s)
BY DEF StorefrontShape, Events, Session

LEMMA RowsStand ==
    ASSUME StorefrontInv, UNCHANGED <<tab, stored>>
    PROVE  SessionsKept
<1> SUFFICES ASSUME NEW s \in Tabs
             PROVE  /\ Stays(s) => /\ tab'[s].browser = tab[s].browser
                                   /\ tab[s].user # Guest => tab'[s].user = tab[s].user
                    /\ ~GetsCustomer(s)
                    /\ tab'[s] # NoTab => /\ tab'[s].events = Events(s) + NewEvents(s)
                                          /\ stored'[s] <= tab'[s].events
  BY DEF SessionsKept
<1>1. tab'[s] = tab[s] /\ stored'[s] = stored[s] /\ stored[s] <= Events(s)
  BY DEF StorefrontInv, CountsAgree
<1>2. Events(s) \in Nat /\ stored[s] \in Nat /\ (tab[s] # NoTab => tab[s].events = Events(s))
  BY EventsAreCounted DEF StorefrontInv
<1> QED  BY <1>1, <1>2 DEF Stays, GetsCustomer, NewEvents

LEMMA CommitRows ==
    ASSUME StorefrontInv, NEW b \in Batches, CommitBatch(b)
    PROVE  StorefrontInv' /\ SessionsKept
<1> DEFINE own == batch[b].tab
           locked == batch[b].locked
           mine == [browser |-> batch[b].browser, user |-> NewUser(b), events |-> Events(own) + 1]
<1>1. /\ batch[b] \in Underway /\ own \in Tabs /\ own \in locked /\ locked \subseteq Tabs
      /\ batch[b].at = "attribute" /\ SameBrowser(b)
      /\ batch[b].browser \in Browsers /\ batch[b].user \in Buyers \cup {Guest}
      /\ \A s \in locked \ {own} : /\ tab[s] # NoTab /\ tab[s].user = Guest
                                    /\ tab[s].browser = batch[b].browser
  BY DEF GuestOf, CommitBatch, Handling, StorefrontInv, StorefrontShape, LocksSound, Underway
<1>2. /\ stored' = [stored EXCEPT ![own] = stored[own] + 1]
      /\ tab' = [s \in Tabs |->
                   IF s = own THEN mine
                   ELSE IF s \in locked /\ tab[s] # NoTab
                   THEN [tab[s] EXCEPT !.user = batch[b].user] ELSE tab[s]]
      /\ batch' = [batch EXCEPT ![b] = NoBatch]
  BY DEF CommitBatch, BatchEnds
<1>3. tab \in [Tabs -> Session \cup {NoTab}] /\ stored \in [Tabs -> Nat]
      /\ batch \in [Batches -> Underway \cup {NoBatch}]
  BY DEF StorefrontInv, StorefrontShape
<1>4. /\ Events(own) \in Nat /\ NewUser(b) \in Buyers \cup {Guest}
      /\ stored[own] \in Nat /\ stored[own] <= Events(own)
      /\ HadUser(b) => NewUser(b) = tab[own].user
  BY <1>1, <1>3 DEF Events, NewUser, HadUser, StorefrontInv, CountsAgree, Session
<1>5. /\ mine \in Session /\ mine.browser = batch[b].browser /\ mine.user = NewUser(b)
      /\ mine.events = Events(own) + 1
  BY <1>1, <1>4 DEF Session
<1>6. /\ tab'[own] = mine /\ stored'[own] = stored[own] + 1
      /\ stored'[own] <= mine.events
      /\ tab[own] # NoTab => /\ mine.browser = tab[own].browser
                             /\ tab[own].user # Guest => mine.user = tab[own].user
  BY <1>1, <1>2, <1>3, <1>4, <1>5 DEF SameBrowser, HadUser
<1> HIDE DEF mine
<1>7. ASSUME NEW s \in Tabs, s # own
      PROVE  /\ stored'[s] = stored[s] /\ tab'[s] \in Session \cup {NoTab}
             /\ tab'[s] = NoTab <=> tab[s] = NoTab
             /\ tab[s] # NoTab => /\ tab'[s].browser = tab[s].browser
                                  /\ tab'[s].events = tab[s].events
                                  /\ tab[s].user # Guest => tab'[s].user = tab[s].user
                                  /\ tab'[s].user # tab[s].user =>
                                        /\ tab'[s].user = batch[b].user
                                        /\ tab'[s].browser = batch[b].browser
             /\ s \notin locked => tab'[s] = tab[s]
  <2>1. stored'[s] = stored[s]
    BY <1>2, <1>3, <1>7
  <2>2. CASE s \in locked /\ tab[s] # NoTab
    <3>1. tab'[s] = [tab[s] EXCEPT !.user = batch[b].user] /\ tab[s] \in Session
      BY <1>2, <1>3, <1>7, <2>2
    <3>2. tab'[s] \in Session /\ tab'[s].browser = tab[s].browser /\ tab'[s].events = tab[s].events
          /\ tab'[s].user = batch[b].user
      BY <1>1, <3>1 DEF Session
    <3> QED  BY <1>1, <1>7, <2>1, <2>2, <3>2, StorefrontAssumption
  <2>3. CASE ~(s \in locked /\ tab[s] # NoTab)
    BY <1>2, <1>3, <1>7, <2>1, <2>3
  <2> QED  BY <2>2, <2>3
<1>8. StorefrontShape'
  <2>1. tab' \in [Tabs -> Session \cup {NoTab}]
    BY <1>2, <1>5, <1>6, <1>7
  <2>2. stored' \in [Tabs -> Nat]
    BY <1>1, <1>2, <1>3
  <2> QED  BY <1>2, <1>3, <2>1, <2>2 DEF StorefrontShape
<1>9. CountsAgree'
  <2> SUFFICES ASSUME NEW s \in Tabs
               PROVE  stored'[s] <= IF tab'[s] = NoTab THEN 0 ELSE tab'[s].events
    BY DEF CountsAgree, Events
  <2>1. CASE s = own
    BY <1>5, <1>6, <2>1, StorefrontAssumption
  <2>2. CASE s # own
    BY <1>7, <2>2 DEF StorefrontInv, CountsAgree, Events
  <2> QED  BY <2>1, <2>2
<1>10. LocksSound'
  <2>1. batch'[b] = NoBatch /\ \A c \in Batches \ {b} : batch'[c] = batch[c]
    BY <1>2, <1>3
  <2>2. \A s \in Tabs : \A d, c \in Batches : HoldsTab(d, s)' /\ HoldsTab(c, s)' => d = c
    BY <2>1 DEF HoldsTab, StorefrontInv, LocksSound
  <2>3. ASSUME NEW c \in Batches, batch'[c] # NoBatch
        PROVE  /\ batch'[c].at = "claim" <=> batch'[c].locked = {}
               /\ batch'[c].at # "claim" => batch'[c].tab \in batch'[c].locked /\ SameBrowser(c)'
               /\ \A s \in batch'[c].locked \ {batch'[c].tab} : GuestOf(s, batch[c].browser)'
    <3>1. c # b /\ batch'[c] = batch[c] /\ batch[c] \in Underway
      BY <1>3, <2>1, <2>3
    <3>2. batch[c].locked \subseteq Tabs
      BY <3>1 DEF Underway
    <3>3. ASSUME NEW s \in batch[c].locked
          PROVE  s \notin locked /\ tab'[s] = tab[s]
      <4>1. s \in Tabs /\ HoldsTab(c, s)
        BY <2>3, <3>1, <3>2, <3>3 DEF HoldsTab
      <4>2. ~HoldsTab(b, s)
        BY <3>1, <4>1 DEF StorefrontInv, LocksSound
      <4>3. batch[b] # NoBatch
        BY <1>1, StorefrontAssumption
      <4>4. s \notin locked
        BY <4>2, <4>3 DEF HoldsTab
      <4> QED  BY <1>1, <1>7, <4>1, <4>4
    <3>4. /\ batch[c] # NoBatch
          /\ batch[c].at = "claim" <=> batch[c].locked = {}
          /\ batch[c].at # "claim" => batch[c].tab \in batch[c].locked /\ SameBrowser(c)
          /\ \A s \in batch[c].locked \ {batch[c].tab} : GuestOf(s, batch[c].browser)
      BY <2>3, <3>1 DEF StorefrontInv, LocksSound
    <3>5. batch[c].at # "claim" => SameBrowser(c)'
      <4> SUFFICES ASSUME batch[c].at # "claim"
                   PROVE  tab'[batch'[c].tab] # NoTab =>
                            tab'[batch'[c].tab].browser = batch'[c].browser
        BY DEF SameBrowser
      <4>1. tab'[batch[c].tab] = tab[batch[c].tab]
        BY <3>3, <3>4
      <4> QED  BY <3>1, <3>4, <4>1 DEF SameBrowser
    <3> QED  BY <3>1, <3>3, <3>4, <3>5 DEF GuestOf
  <2> QED  BY <2>2, <2>3 DEF LocksSound
<1>11. SessionsKept
  <2> SUFFICES ASSUME NEW s \in Tabs
               PROVE  /\ Stays(s) => /\ tab'[s].browser = tab[s].browser
                                     /\ tab[s].user # Guest => tab'[s].user = tab[s].user
                      /\ GetsCustomer(s) => SignedIn(tab'[s].user, tab'[s].browser)
                      /\ tab'[s] # NoTab => /\ tab'[s].events = Events(s) + NewEvents(s)
                                            /\ stored'[s] <= tab'[s].events
    BY DEF SessionsKept
  <2>1. batch[b] # NoBatch
    BY DEF CommitBatch, Handling
  <2>2. SignedIn(batch[b].user, batch[b].browser)
    BY <2>1 DEF SignedIn
  <2>3. CASE s = own
    <3>1. GetsCustomer(s) => tab'[s].user = batch[b].user
      BY <1>5, <1>6, <2>3 DEF GetsCustomer, NewUser, HadUser
    <3>2. tab'[s].browser = batch[b].browser
      BY <1>5, <1>6, <2>3
    <3>3. tab'[s].events = Events(s) + NewEvents(s)
      BY <1>4, <1>5, <1>6, <2>3 DEF NewEvents
    <3> QED  BY <1>6, <2>2, <2>3, <3>1, <3>2, <3>3 DEF Stays
  <2>4. CASE s # own
    <3>1. Events(s) \in Nat /\ stored[s] \in Nat /\ stored[s] <= Events(s)
          /\ (tab[s] # NoTab => tab[s].events = Events(s))
      BY EventsAreCounted DEF StorefrontInv, CountsAgree
    <3>2. GetsCustomer(s) => SignedIn(tab'[s].user, tab'[s].browser)
      BY <1>7, <2>2, <2>4 DEF GetsCustomer
    <3>3. tab'[s] # NoTab => /\ tab'[s].events = Events(s) + NewEvents(s)
                            /\ stored'[s] <= tab'[s].events
      BY <1>7, <2>4, <3>1 DEF NewEvents
    <3> QED  BY <1>7, <2>4, <3>2, <3>3 DEF Stays
  <2> QED  BY <2>3, <2>4
<1> QED  BY <1>8, <1>9, <1>10, <1>11 DEF StorefrontInv

LEMMA PruneRows ==
    ASSUME StorefrontInv, NEW s \in Tabs, PruneSession(s)
    PROVE  StorefrontInv' /\ SessionsKept
<1>1. /\ tab' = [tab EXCEPT ![s] = NoTab] /\ stored' = [stored EXCEPT ![s] = 0]
      /\ batch' = batch /\ \A b \in Batches : ~HoldsTab(b, s)
  BY DEF PruneSession
<1>2. /\ StorefrontShape'
      /\ tab'[s] = NoTab /\ stored'[s] = 0
      /\ \A t \in Tabs \ {s} : tab'[t] = tab[t] /\ stored'[t] = stored[t]
  BY <1>1 DEF StorefrontInv, StorefrontShape
<1>3. ASSUME NEW t \in Tabs
      PROVE  /\ stored'[t] <= IF tab'[t] = NoTab THEN 0 ELSE tab'[t].events
             /\ Stays(t) => tab'[t] = tab[t]
             /\ ~GetsCustomer(t)
             /\ tab'[t] # NoTab => /\ tab'[t].events = Events(t) + NewEvents(t)
                                   /\ stored'[t] <= tab'[t].events
  <2>1. CASE t = s
    BY <1>2, <2>1 DEF Stays, GetsCustomer
  <2>2. CASE t # s
    <3>1. tab'[t] = tab[t] /\ stored'[t] = stored[t]
      BY <1>2, <2>2
    <3>2. Events(t) \in Nat /\ stored[t] \in Nat /\ (tab[t] # NoTab => tab[t].events = Events(t))
      BY EventsAreCounted DEF StorefrontInv
    <3>3. stored[t] <= IF tab[t] = NoTab THEN 0 ELSE tab[t].events
      BY DEF StorefrontInv, CountsAgree, Events
    <3> QED  BY <3>1, <3>2, <3>3 DEF Stays, GetsCustomer, NewEvents
  <2> QED  BY <2>1, <2>2
<1>5. CountsAgree' /\ SessionsKept
  BY <1>3 DEF CountsAgree, Events, SessionsKept
<1>4. LocksSound'
  <2>1. \A b \in Batches : batch[b] # NoBatch => batch[b].locked \subseteq Tabs \ {s}
    BY <1>1 DEF HoldsTab, StorefrontInv, StorefrontShape, Underway
  <2>2. \A b \in Batches : batch[b] # NoBatch => \A t \in batch[b].locked : tab'[t] = tab[t]
    BY <1>2, <2>1
  <2> QED  BY <1>1, <2>2 DEF StorefrontInv, LocksSound, HoldsTab, SameBrowser, GuestOf
<1> QED  BY <1>2, <1>4, <1>5 DEF StorefrontInv

\* Events that go by their age are counted all the same.
LEMMA PruneCounts ==
    ASSUME StorefrontInv, NEW s \in Tabs, PruneEvents(s)
    PROVE  StorefrontInv' /\ SessionsKept
<1>1. PICK n \in 1 .. stored[s] : stored' = [stored EXCEPT ![s] = stored[s] - n]
  BY DEF PruneEvents
<1>2. tab' = tab /\ batch' = batch
  BY DEF PruneEvents
<1>3. ASSUME NEW t \in Tabs
      PROVE  /\ stored'[t] \in Nat /\ stored'[t] <= stored[t]
             /\ stored[t] <= Events(t) /\ Events(t) \in Nat /\ stored[t] \in Nat
             /\ tab[t] # NoTab => tab[t].events = Events(t)
  <2>1. /\ stored[t] <= Events(t) /\ Events(t) \in Nat /\ stored[t] \in Nat
        /\ tab[t] # NoTab => tab[t].events = Events(t)
    BY EventsAreCounted DEF StorefrontInv, CountsAgree
  <2>2. CASE t = s
    BY <1>1, <2>1, <2>2 DEF StorefrontInv, StorefrontShape
  <2>3. CASE t # s
    BY <1>1, <2>1, <2>3 DEF StorefrontInv, StorefrontShape
  <2> QED  BY <2>1, <2>2, <2>3
<1>4. StorefrontShape'
  <2>1. stored' \in [Tabs -> Nat]
    BY <1>1, <1>3 DEF StorefrontInv, StorefrontShape
  <2> QED  BY <1>2, <2>1 DEF StorefrontInv, StorefrontShape
<1>5. CountsAgree'
  <2> SUFFICES ASSUME NEW t \in Tabs PROVE stored'[t] <= Events(t)
    BY <1>2 DEF CountsAgree, Events
  <2> QED  BY <1>3
<1>6. LocksSound'
  BY <1>2 DEF StorefrontInv, LocksSound, HoldsTab, SameBrowser, GuestOf
<1>7. SessionsKept
  <2> SUFFICES ASSUME NEW t \in Tabs
               PROVE  /\ Stays(t) => /\ tab'[t].browser = tab[t].browser
                                     /\ tab[t].user # Guest => tab'[t].user = tab[t].user
                      /\ ~GetsCustomer(t)
                      /\ tab'[t] # NoTab => /\ tab'[t].events = Events(t) + NewEvents(t)
                                            /\ stored'[t] <= tab'[t].events
    BY DEF SessionsKept
  <2> QED  BY <1>2, <1>3 DEF Stays, GetsCustomer, NewEvents
<1> QED  BY <1>4, <1>5, <1>6, <1>7 DEF StorefrontInv

LEMMA StorefrontStep ==
    ASSUME StorefrontInv, [StorefrontNext]_storefrontVars
    PROVE  StorefrontInv' /\ SessionsKept
<1>1. ASSUME NEW b \in Batches, BatchEnds(b), UNCHANGED <<tab, stored>>
      PROVE  StorefrontInv' /\ SessionsKept
  BY <1>1, BatchGoesOn, RowsStand DEF BatchEnds
<1>2. ASSUME NEW b \in Batches, NEW s \in Tabs, NEW v \in Browsers, NEW u \in Buyers \cup {Guest},
             Receive(b, s, v, u)
      PROVE  StorefrontInv' /\ SessionsKept
  <2> DEFINE x == [at |-> "claim", tab |-> s, browser |-> v, user |-> u, locked |-> {}, guests |-> {}]
  <2>1. x \in Underway /\ x.at = "claim" /\ x.locked = {}
    BY DEF Underway
  <2>2. batch' = [batch EXCEPT ![b] = x] /\ UNCHANGED <<tab, stored>>
    BY <1>2 DEF Receive
  <2> HIDE DEF x
  <2> QED  BY <2>1, <2>2, BatchGoesOn, RowsStand
<1>3. ASSUME NEW b \in Batches, ClaimSession(b)
      PROVE  StorefrontInv' /\ SessionsKept
  <2> DEFINE own == batch[b].tab
             x == [batch[b] EXCEPT !.at = "write", !.locked = {own}]
  <2>1. /\ batch[b] \in Underway /\ TabFree(b, own) /\ SameBrowser(b)
        /\ UNCHANGED <<tab, stored>>
    BY <1>3 DEF ClaimSession, Handling, StorefrontInv, StorefrontShape
  <2>2. batch' = [batch EXCEPT ![b] = x]
    BY <1>3 DEF ClaimSession, StorefrontInv, StorefrontShape
  <2>3. /\ x \in Underway /\ x.at = "write" /\ x.locked = {own} /\ x.tab = own
        /\ x.browser = batch[b].browser
    BY <2>1 DEF Underway
  <2> HIDE DEF x
  <2> QED  BY <2>1, <2>2, <2>3, BatchGoesOn, RowsStand DEF SameBrowser
<1>4. ASSUME NEW b \in Batches, WriteBatch(b)
      PROVE  StorefrontInv' /\ SessionsKept
  <2>1. PICK g \in SUBSET Tabs :
          batch' = [batch EXCEPT ![b] = [batch[b] EXCEPT !.at = "attribute", !.guests = g]]
    <3> DEFINE g == IF batch[b].user # Guest /\ ~HadUser(b) THEN GuestTabs(b) ELSE {}
    <3>1. g \in SUBSET Tabs
      BY DEF GuestTabs
    <3>2. batch' = [batch EXCEPT ![b].at = "attribute", ![b].guests = g]
      BY <1>4, Zenon DEF WriteBatch
    <3> HIDE DEF g
    <3> QED  BY <3>1, <3>2 DEF StorefrontInv, StorefrontShape
  <2> DEFINE x == [batch[b] EXCEPT !.at = "attribute", !.guests = g]
  <2>2. batch[b] \in Underway /\ batch[b].at = "write" /\ UNCHANGED <<tab, stored>>
        /\ batch[b] # NoBatch
    BY <1>4 DEF WriteBatch, Handling, StorefrontInv, StorefrontShape
  <2>3. /\ x \in Underway /\ x.at = "attribute" /\ x.locked = batch[b].locked
        /\ x.tab = batch[b].tab /\ x.browser = batch[b].browser
    BY <2>1, <2>2 DEF Underway
  <2>4. /\ batch[b].tab \in batch[b].locked /\ SameBrowser(b) /\ batch[b].locked # {}
        /\ \A s \in batch[b].locked \ {batch[b].tab} : GuestOf(s, batch[b].browser)
    BY <2>2 DEF StorefrontInv, LocksSound
  <2>5. \A s \in batch[b].locked : HoldsTab(b, s)
    BY <2>2 DEF HoldsTab
  <2>6. batch' = [batch EXCEPT ![b] = x]
    BY <2>1
  <2> HIDE DEF x
  <2> QED  BY <2>2, <2>3, <2>4, <2>5, <2>6, BatchGoesOn, RowsStand DEF SameBrowser
<1>5. ASSUME NEW b \in Batches, NEW s \in Tabs, TakeGuest(b, s)
      PROVE  StorefrontInv' /\ SessionsKept
  <2>1. PICK l \in {batch[b].locked, batch[b].locked \cup {s}} :
          /\ batch' = [batch EXCEPT ![b] = [batch[b] EXCEPT !.guests = batch[b].guests \ {s},
                                                            !.locked = l]]
          /\ l # batch[b].locked => StillGuest(b, s)
    <3> DEFINE l == IF StillGuest(b, s) THEN batch[b].locked \cup {s} ELSE batch[b].locked
    <3>1. l \in {batch[b].locked, batch[b].locked \cup {s}} /\ (l # batch[b].locked => StillGuest(b, s))
      OBVIOUS
    <3>2. batch' = [batch EXCEPT ![b] = [batch[b] EXCEPT !.guests = batch[b].guests \ {s}, !.locked = l]]
      BY <1>5 DEF TakeGuest, StorefrontInv, StorefrontShape
    <3> HIDE DEF l
    <3> QED  BY <3>1, <3>2
  <2> DEFINE x == [batch[b] EXCEPT !.guests = batch[b].guests \ {s}, !.locked = l]
  <2>2. batch[b] \in Underway /\ batch[b].at = "attribute" /\ UNCHANGED <<tab, stored>>
        /\ batch[b] # NoBatch /\ TabFree(b, s)
    BY <1>5 DEF TakeGuest, Handling, StorefrontInv, StorefrontShape
  <2>3. /\ x \in Underway /\ x.at = "attribute" /\ x.locked = l
        /\ x.tab = batch[b].tab /\ x.browser = batch[b].browser
    BY <2>1, <2>2 DEF Underway
  <2>4. /\ batch[b].tab \in batch[b].locked /\ SameBrowser(b)
        /\ \A t \in batch[b].locked \ {batch[b].tab} : GuestOf(t, batch[b].browser)
    BY <2>2 DEF StorefrontInv, LocksSound
  <2>5. \A t \in batch[b].locked : HoldsTab(b, t)
    BY <2>2 DEF HoldsTab
  <2>6. StillGuest(b, s) => GuestOf(s, batch[b].browser)
    BY DEF StillGuest, GuestTabs, GuestOf
  <2>7. batch' = [batch EXCEPT ![b] = x]
    BY <2>1
  <2>8. \A t \in l : HoldsTab(b, t) \/ TabFree(b, t)
    BY <2>1, <2>2, <2>5
  <2>9. /\ \A t \in l \ {batch[b].tab} : GuestOf(t, batch[b].browser)
        /\ batch[b].tab \in l /\ l # {}
    BY <2>1, <2>4, <2>6
  <2>10. tab[batch[b].tab] # NoTab => tab[batch[b].tab].browser = batch[b].browser
    BY <2>4 DEF SameBrowser
  <2> HIDE DEF x
  <2>11. StorefrontInv'
    BY <2>2, <2>3, <2>7, <2>8, <2>9, <2>10, BatchGoesOn
  <2> QED  BY <2>2, <2>11, RowsStand
<1>6. CASE UNCHANGED storefrontVars
  <2>1. UNCHANGED <<tab, stored, batch>>
    BY <1>6 DEF storefrontVars
  <2> QED  BY <2>1, RowsStand DEF StorefrontInv, StorefrontShape, CountsAgree, LocksSound, Events,
              HoldsTab, SameBrowser, GuestOf
<1> QED  BY <1>1, <1>2, <1>3, <1>4, <1>5, <1>6, CommitRows, PruneRows, PruneCounts
         DEF StorefrontNext, RefuseSession, BatchFails

\* Whichever batches overlap, die or are refused, and whatever has been
\* pruned, a session stays with its browser and with the first customer who
\* signed in, who was signed in in that browser; and its count is of all the
\* events stored with it (_claim_session, _attribute_visitor, prune_analytics).
THEOREM SessionsBelong == StorefrontSpec => SessionsStand
<1>1. StorefrontInv /\ [StorefrontNext]_storefrontVars => StorefrontInv'
  BY StorefrontStep
<1>2. StorefrontInv /\ [StorefrontNext]_storefrontVars =>
        [\A s \in Tabs :
          /\ Stays(s) => /\ tab'[s].browser = tab[s].browser
                         /\ tab[s].user # Guest => tab'[s].user = tab[s].user
          /\ GetsCustomer(s) => SignedIn(tab'[s].user, tab'[s].browser)
          /\ tab'[s] # NoTab => /\ tab'[s].events = Events(s) + NewEvents(s)
                                /\ stored'[s] <= tab'[s].events]_storefrontVars
  BY StorefrontStep DEF SessionsKept
<1> QED  BY <1>1, <1>2, StorefrontStart, PTL DEF StorefrontSpec, SessionsStand

-----------------------------------------------------------------------------
(* The daily advert. *)

Days == 1 .. LastDay
WorksOn(w, d) == work[w] # NoWork /\ work[w].day = d
Rendering(d) == {w \in Workers : IsDoing(w, "rendering") /\ work[w].day = d}

WorkSound(w) ==
    /\ work[w] = [day |-> work[w].day, at |-> work[w].at]
    /\ work[w].day \in Days /\ work[w].at \in Statuses
    /\ post[work[w].day] # NoPost

\* Every advert, and every rendering that may still send one, has used up an
\* attempt of its day.
AttemptsCover(d) ==
    /\ IsFiniteSet(Rendering(d))
    /\ adverts[d] + Cardinality(Rendering(d)) <= Attempts(d)
    /\ Attempts(d) <= MaxAttempts

\* A day without a mishap belongs to the one worker that is at it, and the
\* row says so; its advert is either that worker's to write down, or written.
Undisturbed(d) ==
    /\ \A v, w \in Workers : WorksOn(v, d) /\ WorksOn(w, d) => v = w
    /\ \A w \in Workers : WorksOn(w, d) =>
        /\ post[d].status = "rendering"
        /\ adverts[d] = IF work[w].at = "sent" THEN 1 ELSE 0
    /\ \/ \E w \in Workers : WorksOn(w, d)
       \/ adverts[d] = 0
       \/ adverts[d] = 1 /\ post[d] # NoPost /\ post[d].status = "sent"

PromotionInv ==
    /\ today \in Days
    /\ post \in [Days -> {NoPost} \cup PostRow]
    /\ DOMAIN work = Workers
    /\ adverts \in [Days -> Nat]
    /\ \A w \in Workers : work[w] # NoWork => WorkSound(w)
    /\ \A d \in Days : AttemptsCover(d) /\ (d \notin mishap => Undisturbed(d))

\* A step leaves a day as it was that changes nobody's work on it.
LEMMA DayKept ==
    ASSUME PromotionInv, NEW d \in Days,
           post'[d] = NoPost <=> post[d] = NoPost,
           post[d] # NoPost => /\ post'[d].status = post[d].status
                               /\ post'[d].attempts = post[d].attempts,
           adverts'[d] = adverts[d],
           d \in mishap => d \in mishap',
           \A w \in Workers : WorksOn(w, d) \/ WorksOn(w, d)' => work'[w] = work[w]
    PROVE  AttemptsCover(d)' /\ (d \notin mishap' => Undisturbed(d)')
<1>1. AttemptsCover(d) /\ (d \notin mishap => Undisturbed(d))
  BY DEF PromotionInv
<1>2. \A w \in Workers : WorksOn(w, d)' <=> WorksOn(w, d)
  BY DEF WorksOn
<1>3. Rendering(d)' = Rendering(d)
  BY <1>2 DEF Rendering, IsDoing, WorksOn
<1>4. Attempts(d)' = Attempts(d)
  BY DEF Attempts
<1>5. AttemptsCover(d)'
  BY <1>1, <1>3, <1>4 DEF AttemptsCover
<1>6. ASSUME d \notin mishap' PROVE Undisturbed(d)'
  <2>1. Undisturbed(d) /\ d \notin mishap
    BY <1>1, <1>6
  <2>2. \A w \in Workers : WorksOn(w, d) => work'[w] = work[w] /\ post[d] # NoPost
    BY DEF WorksOn, PromotionInv, WorkSound
  <2> QED  BY <1>2, <2>1, <2>2 DEF Undisturbed
<1> QED  BY <1>5, <1>6

\* The age of a row, the time of day and the date are nobody's work.
LEMMA TimePasses ==
    ASSUME PromotionInv,
           (\E d \in Days : Ages(d)) \/ PostTimeComes \/ Midnight \/ UNCHANGED promotionVars
    PROVE  PromotionInv'
<1>1. UNCHANGED <<work, adverts, mishap>>
  BY DEF Ages, PostTimeComes, Midnight, promotionVars
<1>2. today' \in Days
  BY PromotionAssumption DEF PromotionInv, Ages, PostTimeComes, Midnight, promotionVars, Days
<1>3. /\ post' \in [Days -> {NoPost} \cup PostRow]
      /\ \A d \in Days : /\ post'[d] = NoPost <=> post[d] = NoPost
                         /\ post[d] # NoPost => /\ post'[d].status = post[d].status
                                                /\ post'[d].attempts = post[d].attempts
  <2>1. CASE UNCHANGED post
    BY <2>1 DEF PromotionInv
  <2>2. ASSUME NEW d \in Days, Ages(d)
        PROVE  /\ post' \in [Days -> {NoPost} \cup PostRow]
               /\ \A e \in Days : /\ post'[e] = NoPost <=> post[e] = NoPost
                                  /\ post[e] # NoPost => /\ post'[e].status = post[e].status
                                                         /\ post'[e].attempts = post[e].attempts
    <3> DEFINE a == IF post[d].age = "new" THEN "retry" ELSE "stale"
               r == [post[d] EXCEPT !.age = a]
    <3>1. post' = [post EXCEPT ![d] = r] /\ post[d] # NoPost
      BY <2>2 DEF Ages
    <3>2. post[d] \in PostRow /\ a \in {"new", "retry", "stale"}
      BY <3>1 DEF PromotionInv
    <3> HIDE DEF a
    <3>3. r \in PostRow /\ r.status = post[d].status /\ r.attempts = post[d].attempts
      BY <3>2 DEF PostRow
    <3>4. r # NoPost
      BY <3>3, PromotionAssumption
    <3> HIDE DEF r
    <3> QED  BY <3>1, <3>3, <3>4 DEF PromotionInv
  <2>3. UNCHANGED post \/ \E d \in Days : Ages(d)
    BY DEF PostTimeComes, Midnight, promotionVars
  <2> QED  BY <2>1, <2>2, <2>3
<1>4. \A d \in Days : AttemptsCover(d)' /\ (d \notin mishap' => Undisturbed(d)')
  BY <1>1, <1>3, DayKept
<1>5. \A w \in Workers : work'[w] # NoWork => WorkSound(w)'
  BY <1>1, <1>3 DEF PromotionInv, WorkSound
<1> QED  BY <1>1, <1>2, <1>3, <1>4, <1>5 DEF PromotionInv

LEMMA RowIsNoPost ==
    ASSUME NEW status \in Statuses, NEW n \in Nat
    PROVE  /\ Post(status, n) \in PostRow /\ Post(status, n) # NoPost
           /\ Post(status, n).status = status /\ Post(status, n).attempts = n
<1>1. Post(status, n) \in PostRow
  BY DEF Post, PostRow
<1> QED  BY <1>1, PromotionAssumption DEF Post

\* What a claim finds: an attempt is left, and a day that it may take over
\* without a mishap has no worker and no advert.
LEMMA ClaimFinds ==
    ASSUME PromotionInv, NEW w \in Workers, MayClaim(w)
    PROVE  /\ Attempts(today) \in Nat /\ Attempts(today) + 1 <= MaxAttempts
           /\ today \notin mishap /\ ~Overtakes
                => adverts[today] = 0 /\ \A v \in Workers : ~WorksOn(v, today)
<1>1. /\ today \in Days /\ post[today] \in {NoPost} \cup PostRow
      /\ today \notin mishap => Undisturbed(today)
      /\ adverts[today] \in Nat
  BY DEF PromotionInv
<1>2. CASE post[today] = NoPost
  <2>1. Attempts(today) = 0
    BY <1>2 DEF Attempts
  <2>2. \A v \in Workers : ~WorksOn(v, today)
    BY <1>2 DEF PromotionInv, WorkSound, WorksOn
  <2> QED  BY <1>1, <1>2, <2>1, <2>2, PromotionAssumption DEF Undisturbed
<1>3. CASE post[today] # NoPost
  <2>1. MayRetry(today) /\ Attempts(today) = post[today].attempts /\ post[today] \in PostRow
    BY <1>1, <1>3 DEF MayClaim, Attempts
  <2>2. Attempts(today) \in Nat /\ Attempts(today) + 1 <= MaxAttempts
    BY <2>1, PromotionAssumption DEF MayRetry, PostRow
  <2>3. ASSUME today \notin mishap, ~Overtakes
        PROVE  adverts[today] = 0 /\ \A v \in Workers : ~WorksOn(v, today)
    <3>1. Undisturbed(today)
      BY <1>1, <2>3
    <3>2. ASSUME NEW v \in Workers, WorksOn(v, today) PROVE FALSE
      <4>1. post[today].status = "rendering"
        BY <3>1, <3>2 DEF Undisturbed
      <4>2. post[today].age = "stale"
        BY <2>1, <4>1 DEF MayRetry
      <4> QED  BY <2>3, <3>2, <4>2 DEF Overtakes, WorksOn
    <3>3. post[today].status # "sent"
      BY <2>1 DEF MayRetry
    <3> QED  BY <3>1, <3>2, <3>3 DEF Undisturbed
  <2> QED  BY <2>2, <2>3
<1> QED  BY <1>2, <1>3

LEMMA ClaimStep ==
    ASSUME PromotionInv, NEW w \in Workers, ClaimDay(w) \/ NothingToAdvertise(w)
    PROVE  PromotionInv'
<1>1. /\ MayClaim(w) /\ today \in Days /\ UNCHANGED <<today, adverts>>
      /\ mishap' = (IF Overtakes THEN mishap \cup {today} ELSE mishap)
      /\ DOMAIN work = Workers /\ post \in [Days -> {NoPost} \cup PostRow]
      /\ work[w] = NoWork
  BY DEF ClaimDay, NothingToAdvertise, PromotionInv, MayClaim
<1>2. PICK s \in Statuses :
        /\ post' = [post EXCEPT ![today] = Post(s, Attempts(today) + 1)]
        /\ \/ s = "rendering" /\ work' = [work EXCEPT ![w] = [day |-> today, at |-> "rendering"]]
           \/ UNCHANGED work
  BY DEF ClaimDay, NothingToAdvertise, Statuses
<1>3. /\ Attempts(today) \in Nat /\ Attempts(today) + 1 <= MaxAttempts
      /\ today \notin mishap /\ ~Overtakes
            => adverts[today] = 0 /\ \A v \in Workers : ~WorksOn(v, today)
  BY <1>1, ClaimFinds
<1> DEFINE row == Post(s, Attempts(today) + 1)
<1>4. /\ row \in PostRow /\ row # NoPost /\ row.status = s
      /\ row.attempts = Attempts(today) + 1
  BY <1>2, <1>3, RowIsNoPost
<1> HIDE DEF row
<1>5. /\ post' \in [Days -> {NoPost} \cup PostRow] /\ post'[today] = row
      /\ \A d \in Days \ {today} : post'[d] = post[d]
  BY <1>1, <1>2, <1>4 DEF row
<1>6. /\ DOMAIN work' = Workers /\ \A v \in Workers \ {w} : work'[v] = work[v]
      /\ \/ s = "rendering" /\ work'[w] = [day |-> today, at |-> "rendering"]
         \/ work'[w] = NoWork
  BY <1>1, <1>2
<1>7. ASSUME NEW v \in Workers, work'[v] # NoWork PROVE WorkSound(v)'
  <2>1. CASE v = w
    BY <1>1, <1>4, <1>5, <1>6, <1>7, <2>1 DEF WorkSound, Statuses
  <2>2. CASE v # w
    <3>1. WorkSound(v) /\ work'[v] = work[v]
      BY <1>6, <1>7, <2>2 DEF PromotionInv
    <3> QED  BY <1>4, <1>5, <3>1 DEF WorkSound
  <2> QED  BY <2>1, <2>2
<1>8. ASSUME NEW d \in Days, d # today
      PROVE  AttemptsCover(d)' /\ (d \notin mishap' => Undisturbed(d)')
  <2>1. \A v \in Workers : WorksOn(v, d) \/ WorksOn(v, d)' => work'[v] = work[v]
    BY <1>1, <1>6, <1>8 DEF WorksOn
  <2>2. adverts'[d] = adverts[d] /\ (d \in mishap => d \in mishap') /\ post'[d] = post[d]
    BY <1>1, <1>5, <1>8
  <2> QED  BY <2>1, <2>2, DayKept
<1>9. AttemptsCover(today)'
  <2>1. /\ IsFiniteSet(Rendering(today)) /\ adverts[today] \in Nat
        /\ adverts[today] + Cardinality(Rendering(today)) <= Attempts(today)
    BY <1>1 DEF PromotionInv, AttemptsCover
  <2>2. Rendering(today)' \subseteq Rendering(today) \cup {w}
    BY <1>1, <1>6 DEF Rendering, IsDoing
  <2> DEFINE R == Rendering(today)
             S == Rendering(today)'
             T == R \cup {w}
  <2>3. w \notin R
    BY <1>1 DEF Rendering, IsDoing
  <2>4. IsFiniteSet(R) /\ S \in SUBSET T
    BY <2>1, <2>2
  <2>5. Attempts(today)' = Attempts(today) + 1
    BY <1>1, <1>4, <1>5 DEF Attempts
  <2> HIDE DEF R, S
  <2>6. IsFiniteSet(T) /\ Cardinality(T) = Cardinality(R) + 1 /\ Cardinality(R) \in Nat
    BY <2>3, <2>4, FS_AddElement, FS_CardinalityType
  <2> HIDE DEF T
  <2>7. IsFiniteSet(S) /\ Cardinality(S) <= Cardinality(T)
    BY <2>4, <2>6, FS_Subset
  <2>8. Cardinality(S) \in Nat
    BY <2>7, FS_CardinalityType
  <2>9. adverts[today] + Cardinality(R) <= Attempts(today)
    BY <2>1 DEF R
  <2>10. adverts[today] + Cardinality(S) <= Attempts(today) + 1
    BY <1>3, <2>1, <2>6, <2>7, <2>8, <2>9
  <2> QED  BY <1>1, <1>3, <2>5, <2>7, <2>10 DEF AttemptsCover, S
<1>10. ASSUME today \notin mishap' PROVE Undisturbed(today)'
  <2>1. adverts[today] = 0 /\ \A v \in Workers : ~WorksOn(v, today)
    BY <1>1, <1>3, <1>10
  <2>2. \A v \in Workers : WorksOn(v, today)' => v = w /\ work'[v].at = "rendering" /\ s = "rendering"
    BY <1>1, <1>6, <2>1 DEF WorksOn
  <2> QED  BY <1>1, <1>4, <1>5, <2>1, <2>2 DEF Undisturbed
<1> QED  BY <1>1, <1>5, <1>6, <1>7, <1>8, <1>9, <1>10 DEF PromotionInv

\* A worker that goes on renders no more: it frees the room of its attempt
\* for the advert it may have sent.
LEMMA WorkerGoesOn ==
    ASSUME PromotionInv, NEW w \in Workers, NEW d \in Days,
           work[w] # NoWork, work[w].day = d,
           DOMAIN work' = Workers, \A v \in Workers \ {w} : work'[v] = work[v],
           \/ work'[w] = NoWork
           \/ work'[w] \in [day: {d}, at: {"sent", "failed"}],
           today' = today,
           post' \in [Days -> {NoPost} \cup PostRow],
           \A e \in Days \ {d} : post'[e] = post[e] /\ adverts'[e] = adverts[e],
           post'[d] # NoPost,
           post'[d].attempts = post[d].attempts,
           adverts' \in [Days -> Nat],
           adverts'[d] <= adverts[d] + IF IsDoing(w, "rendering") THEN 1 ELSE 0,
           \A e \in Days : e \in mishap => e \in mishap',
           d \notin mishap' => Undisturbed(d)'
    PROVE  PromotionInv'
<1>1. /\ WorkSound(w) /\ d \in Days /\ post[d] # NoPost /\ WorksOn(w, d)
      /\ adverts[d] \in Nat /\ adverts'[d] \in Nat
  BY DEF PromotionInv, WorkSound, WorksOn
<1>2. ASSUME NEW v \in Workers, work'[v] # NoWork PROVE WorkSound(v)'
  <2>1. CASE v = w
    BY <1>1, <1>2, <2>1 DEF WorkSound, Statuses
  <2>2. CASE v # w
    <3>1. WorkSound(v) /\ work'[v] = work[v]
      BY <1>2, <2>2 DEF PromotionInv
    <3> QED  BY <1>1, <3>1 DEF WorkSound
  <2> QED  BY <2>1, <2>2
<1>3. ASSUME NEW e \in Days, e # d
      PROVE  AttemptsCover(e)' /\ (e \notin mishap' => Undisturbed(e)')
  <2>1. \A v \in Workers : WorksOn(v, e) \/ WorksOn(v, e)' => work'[v] = work[v]
    BY <1>3 DEF WorksOn
  <2>2. adverts'[e] = adverts[e] /\ (e \in mishap => e \in mishap') /\ post'[e] = post[e]
    BY <1>3
  <2> QED  BY <2>1, <2>2, DayKept
<1>4. AttemptsCover(d)'
  <2> DEFINE R == Rendering(d)
             S == Rendering(d)'
  <2>1. /\ IsFiniteSet(R) /\ adverts[d] + Cardinality(R) <= Attempts(d)
        /\ Attempts(d) <= MaxAttempts
    BY <1>1 DEF PromotionInv, AttemptsCover
  <2>2. S = Rendering(d) \ {w}
    BY <1>1 DEF Rendering, IsDoing
  <2>3. w \in R <=> IsDoing(w, "rendering")
    BY DEF Rendering
  <2>4. Attempts(d)' = Attempts(d) /\ Attempts(d) \in Nat
    BY <1>1 DEF Attempts, PromotionInv, PostRow
  <2>5. S = R \ {w}
    BY <2>2
  <2> HIDE DEF R, S
  <2>6. /\ IsFiniteSet(S) /\ Cardinality(R) \in Nat
        /\ Cardinality(S) = IF w \in R THEN Cardinality(R) - 1 ELSE Cardinality(R)
    BY <2>1, <2>5, FS_RemoveElement, FS_CardinalityType
  <2>7. adverts'[d] + Cardinality(S) <= Attempts(d)
    <3>1. CASE w \in R
      <4>1. Cardinality(S) = Cardinality(R) - 1 /\ adverts'[d] <= adverts[d] + 1
        BY <2>3, <2>6, <3>1
      <4> QED  BY <1>1, <2>1, <2>4, <2>6, <4>1
    <3>2. CASE w \notin R
      <4>1. Cardinality(S) = Cardinality(R) /\ adverts'[d] <= adverts[d]
        BY <1>1, <2>3, <2>6, <3>2
      <4> QED  BY <1>1, <2>1, <2>4, <2>6, <4>1
    <3> QED  BY <3>1, <3>2
  <2> QED  BY <2>1, <2>4, <2>6, <2>7 DEF AttemptsCover, S
<1>5. today' \in Days
  BY DEF PromotionInv
<1> QED  BY <1>1, <1>2, <1>3, <1>4, <1>5 DEF PromotionInv

LEMMA RenderFailsStep ==
    ASSUME PromotionInv, NEW w \in Workers, RenderFails(w)
    PROVE  PromotionInv'
<1>0. PICK d \in Days : d = work[w].day
  BY DEF RenderFails, IsDoing, PromotionInv, WorkSound
<1>1. /\ work[w] # NoWork /\ WorkSound(w) /\ d \in Days /\ work[w].at = "rendering"
      /\ DOMAIN work = Workers /\ UNCHANGED <<today, post, adverts, mishap>>
      /\ post \in [Days -> {NoPost} \cup PostRow] /\ adverts \in [Days -> Nat]
      /\ d \notin mishap => Undisturbed(d)
  BY <1>0 DEF PromotionInv, RenderFails, IsDoing, WorkSound
<1>2. /\ DOMAIN work' = Workers /\ \A v \in Workers \ {w} : work'[v] = work[v]
      /\ work'[w] = [day |-> d, at |-> "failed"]
  BY <1>0, <1>1 DEF RenderFails, WorkSound
<1>3. ASSUME d \notin mishap' PROVE Undisturbed(d)'
  <2>1. Undisturbed(d) /\ WorksOn(w, d)
    BY <1>0, <1>1, <1>3 DEF WorksOn
  <2>2. \A v \in Workers : WorksOn(v, d)' => v = w
    BY <1>2, <2>1 DEF Undisturbed, WorksOn
  <2>3. post[d].status = "rendering" /\ adverts[d] = 0
    BY <1>1, <2>1 DEF Undisturbed
  <2> QED  BY <1>1, <1>2, <2>2, <2>3 DEF Undisturbed
<1> QED  BY <1>0, <1>1, <1>2, <1>3, WorkerGoesOn DEF WorkSound

LEMMA SendStep ==
    ASSUME PromotionInv, NEW w \in Workers, NEW answered \in BOOLEAN, SendAdvert(w, answered)
    PROVE  PromotionInv'
<1>0. PICK d \in Days : d = work[w].day
  BY DEF SendAdvert, IsDoing, PromotionInv, WorkSound
<1>1. /\ work[w] # NoWork /\ WorkSound(w) /\ d \in Days /\ work[w].at = "rendering"
      /\ DOMAIN work = Workers /\ UNCHANGED <<today, post>>
      /\ post \in [Days -> {NoPost} \cup PostRow] /\ adverts \in [Days -> Nat]
      /\ d \notin mishap => Undisturbed(d)
      /\ mishap' = IF answered THEN mishap ELSE mishap \cup {d}
      /\ post[d] # NoPost
  BY <1>0 DEF PromotionInv, SendAdvert, IsDoing, WorkSound
<1>2. /\ DOMAIN work' = Workers /\ \A v \in Workers \ {w} : work'[v] = work[v]
      /\ work'[w] = [day |-> d, at |-> IF answered THEN "sent" ELSE "failed"]
  BY <1>0, <1>1 DEF SendAdvert, WorkSound
<1>3. /\ adverts' \in [Days -> Nat] /\ adverts'[d] = adverts[d] + 1
      /\ \A e \in Days \ {d} : adverts'[e] = adverts[e]
  BY <1>0, <1>1 DEF SendAdvert
<1>4. ASSUME d \notin mishap' PROVE Undisturbed(d)'
  <2>1. Undisturbed(d) /\ WorksOn(w, d) /\ answered
    BY <1>0, <1>1, <1>4 DEF WorksOn
  <2>2. \A v \in Workers : WorksOn(v, d)' => v = w
    BY <1>2, <2>1 DEF Undisturbed, WorksOn
  <2>3. post[d].status = "rendering" /\ adverts[d] = 0
    BY <1>1, <2>1 DEF Undisturbed
  <2>4. WorksOn(w, d)' /\ work'[w].at = "sent" /\ adverts'[d] = 1
    <3>1. work'[w] = [day |-> d, at |-> "sent"] /\ d \in Nat
      BY <1>0, <1>2, <2>1 DEF Days
    <3>2. work'[w] # NoWork
      BY <3>1, PromotionAssumption DEF Statuses
    <3> QED  BY <1>3, <2>3, <3>1, <3>2 DEF WorksOn
  <2> QED  BY <1>1, <1>2, <2>2, <2>3, <2>4 DEF Undisturbed
<1>5. work'[w] \in [day: {d}, at: {"sent", "failed"}]
  BY <1>2
<1>6. /\ adverts'[d] <= adverts[d] + IF IsDoing(w, "rendering") THEN 1 ELSE 0
      /\ post'[d] # NoPost /\ post'[d].attempts = post[d].attempts
  BY <1>1, <1>3 DEF IsDoing
<1>7. \A e \in Days : e \in mishap => e \in mishap'
  BY <1>1
<1>8. /\ \A e \in Days \ {d} : post'[e] = post[e] /\ adverts'[e] = adverts[e]
      /\ today' = today /\ post' \in [Days -> {NoPost} \cup PostRow]
  BY <1>1, <1>3
<1> QED  BY <1>0, <1>1, <1>2, <1>3, <1>4, <1>5, <1>6, <1>7, <1>8, WorkerGoesOn

LEMMA RecordStep ==
    ASSUME PromotionInv, NEW w \in Workers, RecordOutcome(w)
    PROVE  PromotionInv'
<1>0. PICK d \in Days : d = work[w].day
  BY DEF RecordOutcome, IsDoing, PromotionInv, WorkSound
<1> DEFINE row == Post(work[w].at, Attempts(d))
<1>1. /\ work[w] # NoWork /\ WorkSound(w) /\ d \in Days /\ work[w].at \in {"sent", "failed"}
      /\ DOMAIN work = Workers /\ UNCHANGED <<today, adverts, mishap>>
      /\ post \in [Days -> {NoPost} \cup PostRow] /\ adverts \in [Days -> Nat]
      /\ d \notin mishap => Undisturbed(d)
      /\ post[d] # NoPost
  BY <1>0 DEF PromotionInv, RecordOutcome, IsDoing, WorkSound
<1>2. /\ DOMAIN work' = Workers /\ \A v \in Workers \ {w} : work'[v] = work[v]
      /\ work'[w] = NoWork
  BY <1>1 DEF RecordOutcome
<1>3. Attempts(d) \in Nat /\ Attempts(d) = post[d].attempts
  BY <1>1 DEF Attempts, PostRow
<1>4. /\ row \in PostRow /\ row # NoPost /\ row.status = work[w].at
      /\ row.attempts = Attempts(d)
  BY <1>1, <1>3, RowIsNoPost DEF Statuses
<1>5. post' = [post EXCEPT ![d] = row]
  BY <1>0 DEF RecordOutcome
<1> HIDE DEF row
<1>6. /\ post' \in [Days -> {NoPost} \cup PostRow] /\ post'[d] = row
      /\ \A e \in Days \ {d} : post'[e] = post[e]
  BY <1>1, <1>4, <1>5
<1>7. ASSUME d \notin mishap' PROVE Undisturbed(d)'
  <2>1. Undisturbed(d) /\ WorksOn(w, d)
    BY <1>0, <1>1, <1>7 DEF WorksOn
  <2>2. \A v \in Workers : ~WorksOn(v, d)'
    BY <1>2, <2>1 DEF Undisturbed, WorksOn
  <2>3. adverts[d] = IF work[w].at = "sent" THEN 1 ELSE 0
    BY <2>1 DEF Undisturbed
  <2>4. \/ adverts'[d] = 0
        \/ adverts'[d] = 1 /\ post'[d] # NoPost /\ post'[d].status = "sent"
    BY <1>1, <1>4, <1>6, <2>3
  <2> QED  BY <2>2, <2>4 DEF Undisturbed
<1>8. adverts'[d] <= adverts[d] + IF IsDoing(w, "rendering") THEN 1 ELSE 0
  BY <1>1
<1> QED  BY <1>0, <1>1, <1>2, <1>3, <1>4, <1>6, <1>7, <1>8, WorkerGoesOn

LEMMA DiesStep ==
    ASSUME PromotionInv, NEW w \in Workers, Dies(w)
    PROVE  PromotionInv'
<1>0. PICK d \in Days : d = work[w].day
  BY DEF Dies, PromotionInv, WorkSound
<1>1. /\ work[w] # NoWork /\ WorkSound(w) /\ d \in Days
      /\ DOMAIN work = Workers /\ UNCHANGED <<today, post, adverts>>
      /\ post \in [Days -> {NoPost} \cup PostRow] /\ adverts \in [Days -> Nat]
      /\ d \notin mishap => Undisturbed(d)
      /\ mishap' = IF work[w].at = "sent" THEN mishap \cup {d} ELSE mishap
      /\ post[d] # NoPost
  BY <1>0 DEF PromotionInv, Dies, IsDoing, WorkSound
<1>2. /\ DOMAIN work' = Workers /\ \A v \in Workers \ {w} : work'[v] = work[v]
      /\ work'[w] = NoWork
  BY <1>1 DEF Dies
<1>3. ASSUME d \notin mishap' PROVE Undisturbed(d)'
  <2>1. Undisturbed(d) /\ WorksOn(w, d) /\ work[w].at # "sent"
    BY <1>0, <1>1, <1>3 DEF WorksOn
  <2>2. \A v \in Workers : ~WorksOn(v, d)'
    BY <1>2, <2>1 DEF Undisturbed, WorksOn
  <2>3. adverts'[d] = 0
    BY <1>1, <2>1 DEF Undisturbed
  <2> QED  BY <2>2, <2>3 DEF Undisturbed
<1>4. adverts'[d] <= adverts[d] + IF IsDoing(w, "rendering") THEN 1 ELSE 0
  BY <1>1
<1>5. \A e \in Days : e \in mishap => e \in mishap'
  BY <1>1
<1> QED  BY <1>0, <1>1, <1>2, <1>3, <1>4, <1>5, WorkerGoesOn

LEMMA PromotionStart ==
    ASSUME PromotionInit PROVE PromotionInv
<1>1. /\ today \in Days /\ post \in [Days -> {NoPost} \cup PostRow] /\ adverts \in [Days -> Nat]
      /\ DOMAIN work = Workers
  BY PromotionAssumption DEF PromotionInit, Days
<1>2. /\ \A w \in Workers : work[w] = NoWork
      /\ \A d \in Days : adverts[d] = 0 /\ post[d] = NoPost
  BY DEF PromotionInit, Days
<1>3. ASSUME NEW d \in Days PROVE AttemptsCover(d) /\ Undisturbed(d)
  <2>1. Rendering(d) = {} /\ Attempts(d) = 0 /\ adverts[d] = 0
    BY <1>2 DEF Rendering, IsDoing, Attempts
  <2>2. IsFiniteSet(Rendering(d)) /\ Cardinality(Rendering(d)) = 0
    BY <2>1, FS_EmptySet
  <2> QED  BY <1>2, <2>1, <2>2, PromotionAssumption DEF AttemptsCover, Undisturbed, WorksOn
<1> QED  BY <1>1, <1>2, <1>3 DEF PromotionInv

LEMMA PromotionStep ==
    ASSUME PromotionInv, [PromotionNext]_promotionVars PROVE PromotionInv'
<1>1. CASE UNCHANGED promotionVars
  BY <1>1, TimePasses
<1>2. CASE PromotionNext
  BY <1>2, TimePasses, ClaimStep, RenderFailsStep, SendStep, RecordStep, DiesStep
     DEF PromotionNext, Days
<1> QED  BY <1>1, <1>2

\* The channel gets one advert a day unless an answer was lost, a process died
\* between sending and writing it down, or a rendering was overtaken, and never
\* more than MAX_ATTEMPTS_PER_DAY (services/marketing/worker.py), for any
\* number of workers and days.
THEOREM AdvertsBounded == PromotionSpec => []OneAdvertADay
<1>1. PromotionInit => PromotionInv
  BY PromotionStart
<1>2. PromotionInv /\ [PromotionNext]_promotionVars => PromotionInv'
  BY PromotionStep
<1>3. PromotionInv => OneAdvertADay
  <2> SUFFICES ASSUME PromotionInv, NEW d \in Days
               PROVE  (adverts[d] > 1 => d \in mishap) /\ adverts[d] <= MaxAttempts
    BY DEF OneAdvertADay, Days
  <2>1. AttemptsCover(d) /\ (d \notin mishap => Undisturbed(d)) /\ adverts[d] \in Nat
    BY DEF PromotionInv
  <2>2. Cardinality(Rendering(d)) \in Nat
    BY <2>1, FS_CardinalityType DEF AttemptsCover
  <2>3. Attempts(d) \in Nat
    BY DEF Attempts, PromotionInv, PostRow
  <2>4. adverts[d] <= MaxAttempts
    BY <2>1, <2>2, <2>3, PromotionAssumption DEF AttemptsCover
  <2>5. Undisturbed(d) => adverts[d] \in {0, 1}
    BY DEF Undisturbed
  <2> QED  BY <2>1, <2>4, <2>5
<1> QED  BY <1>1, <1>2, <1>3, PTL DEF PromotionSpec

-----------------------------------------------------------------------------
(* The order in which rows are locked. *)

LEMMA BelowFinite ==
    ASSUME NEW S, IsFiniteSet(S), S \subseteq Nat, NEW x \in S
    PROVE  /\ IsFiniteSet({y \in S : y < x}) /\ Place(x, S) \in 0 .. Cardinality(S) - 1
<1> DEFINE below == {y \in S : y < x}
<1>1. below \subseteq S \ {x}
  OBVIOUS
<1>2. Cardinality(S \ {x}) = Cardinality(S) - 1 /\ IsFiniteSet(S \ {x}) /\ Cardinality(S) \in Nat
  BY FS_RemoveElement, FS_CardinalityType
<1> HIDE DEF below
<1>3. IsFiniteSet(below) /\ Cardinality(below) <= Cardinality(S \ {x}) /\ Cardinality(below) \in Nat
  BY <1>1, <1>2, FS_Subset, FS_CardinalityType
<1>4. Place(x, S) = Cardinality(below)
  BY DEF Place, below
<1> QED  BY <1>2, <1>3, <1>4 DEF below

LEMMA PlaceAscends ==
    ASSUME NEW S, IsFiniteSet(S), S \subseteq Nat, NEW x \in S, NEW y \in S, x < y
    PROVE  Place(x, S) < Place(y, S)
<1> DEFINE below == {z \in S : z < x}
           above == {z \in S : z < y}
<1>1. below \cup {x} \subseteq above /\ x \notin below
  <2>1. \A z \in S : z < x => z < y
    OBVIOUS
  <2>2. ~(x < x)
    OBVIOUS
  <2> QED  BY <2>1, <2>2, Zenon
<1>2. IsFiniteSet(below) /\ IsFiniteSet(above)
  BY BelowFinite
<1>3. Place(x, S) = Cardinality(below) /\ Place(y, S) = Cardinality(above)
  BY DEF Place
<1> HIDE DEF below, above
<1>4. /\ Cardinality(below \cup {x}) = Cardinality(below) + 1 /\ IsFiniteSet(below \cup {x})
      /\ Cardinality(below) \in Nat /\ Cardinality(above) \in Nat
  BY <1>1, <1>2, FS_AddElement, FS_CardinalityType
<1>5. Cardinality(below \cup {x}) <= Cardinality(above)
  BY <1>1, <1>2, FS_Subset
<1> QED  BY <1>3, <1>4, <1>5

\* Every place is taken.
LEMMA PlacesTaken ==
    ASSUME NEW S, IsFiniteSet(S), S \subseteq Nat, NEW n \in 0 .. Cardinality(S) - 1
    PROVE  \E x \in S : Place(x, S) = n
<1> DEFINE N == Cardinality(S)
           P == [x \in S |-> Place(x, S)]
<1>1. N \in Nat /\ IsFiniteSet(0 .. N - 1) /\ Cardinality(0 .. N - 1) = N
  <2>1. N \in Nat
    BY FS_CardinalityType
  <2> DEFINE m == N - 1
  <2>2. m \in Int /\ 0 \in Int
    BY <2>1
  <2> HIDE DEF m
  <2>3. IsFiniteSet(0 .. m) /\ Cardinality(0 .. m) = IF 0 > m THEN 0 ELSE m - 0 + 1
    BY <2>2, FS_Interval, Zenon
  <2>4. m = N - 1
    BY DEF m
  <2> HIDE DEF N
  <2> QED  BY <2>1, <2>3, <2>4
<1>2. P \in [S -> 0 .. N - 1]
  BY BelowFinite
<1>3. \A x, y \in S : P[x] = P[y] => x = y
  <2> SUFFICES ASSUME NEW x \in S, NEW y \in S, x < y PROVE P[x] # P[y]
    OBVIOUS
  <2>1. Place(x, S) < Place(y, S)
    BY PlaceAscends
  <2>2. Place(x, S) \in 0 .. N - 1 /\ Place(y, S) \in 0 .. N - 1
    BY BelowFinite, Zenon
  <2>3. Place(x, S) \in Nat /\ Place(y, S) \in Nat
    BY <2>2, <1>1
  <2> QED  BY <2>1, <2>3
<1> DEFINE T == 0 .. N - 1
<1>4. P \in Injection(S, T)
  BY <1>2, <1>3 DEF Injection, IsInjective
<1>5. IsFiniteSet(T) /\ Cardinality(T) = Cardinality(S) /\ n \in T
  BY <1>1
<1> HIDE DEF P, T, N
<1>6. P \in Surjection(S, T)
  BY <1>4, <1>5, FS_Injection, Zenon
<1>7. \E x \in S : P[x] = n
  BY <1>5, <1>6 DEF Surjection
<1> QED  BY <1>7 DEF P

LEMMA SortedSet ==
    ASSUME NEW S, IsFiniteSet(S), S \subseteq Nat
    PROVE  /\ Cardinality(S) \in Nat /\ Ascending(S) \in [1 .. Cardinality(S) -> S]
           /\ \A i, j \in 1 .. Cardinality(S) : i < j => Ascending(S)[i] < Ascending(S)[j]
<1> DEFINE N == Cardinality(S)
           a == Ascending(S)
<1>1. N \in Nat
  BY FS_CardinalityType
<1>2. \A i \in 1 .. N : a[i] = CHOOSE x \in S : Place(x, S) = i - 1
  BY DEF Ascending
<1>3. \A i \in 1 .. N : a[i] \in S /\ Place(a[i], S) = i - 1
  <2> SUFFICES ASSUME NEW i \in 1 .. N PROVE a[i] \in S /\ Place(a[i], S) = i - 1
    OBVIOUS
  <2>1. i - 1 \in 0 .. N - 1
    BY <1>1
  <2>2. \E x \in S : Place(x, S) = i - 1
    BY <2>1, PlacesTaken
  <2> HIDE DEF a
  <2> QED  BY <1>2, <2>2, Zenon
<1>4. a \in [1 .. N -> S]
  BY <1>3 DEF Ascending
<1>5. ASSUME NEW i \in 1 .. N, NEW j \in 1 .. N, i < j
      PROVE  a[i] < a[j]
  <2> HIDE DEF a
  <2>1. a[i] \in Nat /\ a[j] \in Nat
    BY <1>3
  <2>2. a[i] # a[j]
    BY <1>1, <1>3, <1>5
  <2>3. ~(a[j] < a[i])
    <3> SUFFICES ASSUME a[j] < a[i] PROVE FALSE
      OBVIOUS
    <3>1. Place(a[j], S) < Place(a[i], S)
      BY <1>3, PlaceAscends
    <3> QED  BY <1>1, <1>3, <1>5, <3>1
  <2> QED  BY <2>1, <2>2, <2>3
<1> QED  BY <1>1, <1>4, <1>5

-----------------------------------------------------------------------------
(* Every kind of transaction climbs one ladder: the categories, then the   *)
(* administrator who acts, orders, a shopper, the cart, products by their  *)
(* identities, and last the customer an order belongs to.  To share an     *)
(* administrator's row with an outbox row waits for nobody.                *)

Owners == {Owner[o] : o \in Orders}
Top == CHOOSE n \in Nat : \A p \in Products : p < n
Rung(row) ==
    CASE row[1] = "advisory" -> 0
      [] row[1] = "admin" -> 1
      [] row[1] = "order" -> 2
      [] row[1] = "user" -> IF row[2] \in Owners THEN Top + 5 ELSE 3
      [] row[1] = "cart" -> 4
      [] row[1] = "product" -> 5 + row[2]

Harmless(x) == x.mode = "share" /\ x.row[1] = "admin"
Locks ==
    {Update(<<"advisory", "tree">>)}
    \cup {Write(<<"admin", a>>) : a \in Admins} \cup {KeyShare(<<"admin", a>>) : a \in Admins}
    \cup {Update(<<"order", o>>) : o \in Orders}
    \cup {Update(<<"user", c>>) : c \in Customers} \cup {KeyShare(<<"user", c>>) : c \in Customers}
    \cup {Update(<<"cart", c>>) : c \in Customers}
    \cup {Update(<<"product", p>>) : p \in Products}

Climbs(x, y) == Harmless(x) \/ Harmless(y) \/ Rung(x.row) < Rung(y.row)

\* A sequence of locks that climbs from one rung to another.
Ladder(locks, low, high) ==
    /\ locks \in Seq(Locks)
    /\ \A i \in 1 .. Len(locks) :
        Harmless(locks[i]) \/ (low <= Rung(locks[i].row) /\ Rung(locks[i].row) <= high)
    /\ \A i, j \in 1 .. Len(locks) : i < j => Climbs(locks[i], locks[j])

LockInv ==
    \A s \in Sessions :
        /\ held[s] \subseteq Locks /\ Ladder(todo[s], 0, Top + 5)
        /\ \A x \in held[s], i \in 1 .. Len(todo[s]) : Climbs(x, todo[s][i])
LockShape == todo \in [Sessions -> Seq(Locks)] /\ held \in [Sessions -> SUBSET Locks]

LEMMA TopIs == Top \in Nat /\ \A p \in Products : p < Top
<1>1. \E n \in Nat : \A p \in Products : p < n
  <2>1. CASE Products = {}
    BY <2>1
  <2>2. CASE Products # {}
    <3>1. PICK m \in Products : \A p \in Products : p <= m
      BY <2>2, Shop, GreatestMember
    <3>2. m + 1 \in Nat /\ \A p \in Products : p < m + 1
      BY <3>1, Shop
    <3> QED  BY <3>2
  <2> QED  BY <2>1, <2>2
<1> QED  BY <1>1, Zenon DEF Top

LEMMA RungIs ==
    ASSUME NEW x \in Locks
    PROVE  Rung(x.row) \in Nat
<1>1. x.row[1] \in {"advisory", "admin", "order", "user", "cart", "product"}
      /\ (x.row[1] = "product" => x.row[2] \in Nat)
  BY Shop DEF Locks, Update, Write, KeyShare
<1> QED  BY <1>1, TopIs DEF Rung

\* What conflicts is on one rung, and harmless locks do not.
LEMMA ConflictLevel ==
    ASSUME NEW x \in Locks, NEW y \in Locks, Conflict(x, y)
    PROVE  ~Harmless(x) /\ ~Harmless(y) /\ x.row = y.row
<1>1. x.row[1] = "admin" => x.mode # "update"
  BY DEF Locks, Update, Write, KeyShare
<1>2. y.row[1] = "admin" => y.mode # "update"
  BY DEF Locks, Update, Write, KeyShare
<1> QED  BY <1>1, <1>2 DEF Conflict, Harmless

LEMMA Joined ==
    ASSUME NEW low \in Int, NEW middle \in Int, NEW next \in Int, NEW high \in Int,
           low <= next, middle < next, middle <= high,
           NEW p, NEW q, Ladder(p, low, middle), Ladder(q, next, high)
    PROVE  Ladder(p \o q, low, high)
<1>1. /\ p \in Seq(Locks) /\ q \in Seq(Locks) /\ p \o q \in Seq(Locks)
      /\ Len(p) \in Nat /\ Len(q) \in Nat /\ Len(p \o q) = Len(p) + Len(q)
      /\ \A i \in 1 .. Len(p \o q) :
            (p \o q)[i] = IF i <= Len(p) THEN p[i] ELSE q[i - Len(p)]
  BY DEF Ladder
<1>2. \A i \in 1 .. Len(p) : p[i] \in Locks /\ Rung(p[i].row) \in Nat
  BY <1>1, RungIs
<1>3. \A i \in 1 .. Len(q) : q[i] \in Locks /\ Rung(q[i].row) \in Nat
  BY <1>1, RungIs
<1> DEFINE r == p \o q
<1> HIDE DEF r
<1>4. ASSUME NEW i \in 1 .. Len(r)
      PROVE  Harmless(r[i]) \/ (low <= Rung(r[i].row) /\ Rung(r[i].row) <= high)
  <2>1. CASE i <= Len(p)
    <3>1. r[i] = p[i] /\ i \in 1 .. Len(p)
      BY <1>1, <1>4, <2>1 DEF r
    <3>2. Harmless(p[i]) \/ (low <= Rung(p[i].row) /\ Rung(p[i].row) <= middle)
      BY <3>1 DEF Ladder
    <3> QED  BY <1>2, <3>1, <3>2
  <2>2. CASE ~(i <= Len(p))
    <3>1. r[i] = q[i - Len(p)] /\ i - Len(p) \in 1 .. Len(q)
      BY <1>1, <1>4, <2>2 DEF r
    <3>2. Harmless(r[i]) \/ (next <= Rung(r[i].row) /\ Rung(r[i].row) <= high)
      BY <3>1 DEF Ladder
    <3> QED  BY <1>3, <3>1, <3>2
  <2> QED  BY <2>1, <2>2
<1>5. ASSUME NEW i \in 1 .. Len(r), NEW j \in 1 .. Len(r), i < j
      PROVE  Climbs(r[i], r[j])
  <2>1. CASE j <= Len(p)
    <3>1. r[i] = p[i] /\ r[j] = p[j] /\ i \in 1 .. Len(p) /\ j \in 1 .. Len(p)
      BY <1>1, <1>5, <2>1 DEF r
    <3> QED  BY <1>5, <3>1 DEF Ladder
  <2>2. CASE i <= Len(p) /\ ~(j <= Len(p))
    <3>1. r[i] = p[i] /\ r[j] = q[j - Len(p)] /\ i \in 1 .. Len(p) /\ j - Len(p) \in 1 .. Len(q)
      BY <1>1, <1>5, <2>2 DEF r
    <3>2. Harmless(r[i]) \/ Rung(r[i].row) <= middle
      BY <3>1 DEF Ladder
    <3>3. Harmless(r[j]) \/ next <= Rung(r[j].row)
      BY <3>1 DEF Ladder
    <3>4. Rung(r[i].row) \in Nat /\ Rung(r[j].row) \in Nat
      BY <1>2, <1>3, <3>1
    <3> QED  BY <3>2, <3>3, <3>4 DEF Climbs
  <2>3. CASE ~(i <= Len(p))
    <3>1. /\ r[i] = q[i - Len(p)] /\ r[j] = q[j - Len(p)] /\ i - Len(p) < j - Len(p)
          /\ i - Len(p) \in 1 .. Len(q) /\ j - Len(p) \in 1 .. Len(q)
      BY <1>1, <1>5, <2>3 DEF r
    <3> QED  BY <3>1 DEF Ladder
  <2> QED  BY <2>1, <2>2, <2>3
<1> QED  BY <1>1, <1>4, <1>5 DEF Ladder, r

LEMMA OneRung ==
    ASSUME NEW x \in Locks, NEW n \in Nat, Rung(x.row) = n
    PROVE  Ladder(<<x>>, n, n)
<1>1. <<x>> \in Seq(Locks) /\ Len(<<x>>) = 1 /\ <<x>>[1] = x
  OBVIOUS
<1>2. \A i \in 1 .. 1 : i = 1
  OBVIOUS
<1> QED  BY <1>1, <1>2 DEF Ladder

\* A sequence of locks given by a rising rung, or of harmless ones.
LEMMA LadderOf ==
    ASSUME NEW N \in Nat, NEW f, DOMAIN f = 1 .. N, f = [i \in 1 .. N |-> f[i]],
           NEW low \in Int, NEW high \in Int,
           \A i \in 1 .. N : f[i] \in Locks /\
              (Harmless(f[i]) \/ (low <= Rung(f[i].row) /\ Rung(f[i].row) <= high)),
           \A i, j \in 1 .. N : i < j => Climbs(f[i], f[j])
    PROVE  Ladder(f, low, high)
<1>1. f \in Seq(Locks) /\ Len(f) = N
  BY DEF Seq
<1> QED  BY <1>1 DEF Ladder

LEMMA ProductsClimb ==
    ASSUME NEW S, S \subseteq Products
    PROVE  Ladder(AllProducts(S), 5, Top + 4)
<1> DEFINE N == Cardinality(S)
           a == Ascending(S)
           f == AllProducts(S)
<1>1. IsFiniteSet(S) /\ S \subseteq Nat
  BY Shop, FS_Subset
<1>2. /\ N \in Nat /\ a \in [1 .. N -> S]
      /\ \A i, j \in 1 .. N : i < j => a[i] < a[j]
  BY <1>1, SortedSet
<1>3. f = [i \in 1 .. N |-> Update(<<"product", a[i]>>)]
  BY DEF AllProducts
<1> HIDE DEF N, a, f
<1>4. ASSUME NEW i \in 1 .. N
      PROVE  /\ f[i] \in Locks /\ f[i].row = <<"product", a[i]>>
             /\ a[i] \in Nat /\ a[i] < Top
  <2>1. a[i] \in Products
    BY <1>2
  <2> QED  BY <1>3, <2>1, TopIs, Shop DEF Locks, Update
<1>5. \A i \in 1 .. N : Rung(f[i].row) = 5 + a[i]
  <2> SUFFICES ASSUME NEW i \in 1 .. N PROVE Rung(f[i].row) = 5 + a[i]
    OBVIOUS
  <2>1. f[i].row[1] = "product" /\ f[i].row[2] = a[i]
    BY <1>4
  <2> QED  BY <2>1 DEF Rung
<1>6. \A i \in 1 .. N : 5 <= Rung(f[i].row) /\ Rung(f[i].row) <= Top + 4
  BY <1>4, <1>5, TopIs
<1>7. \A i, j \in 1 .. N : i < j => Climbs(f[i], f[j])
  <2> SUFFICES ASSUME NEW i \in 1 .. N, NEW j \in 1 .. N, i < j  PROVE Climbs(f[i], f[j])
    OBVIOUS
  <2>1. a[i] < a[j] /\ a[i] \in Nat /\ a[j] \in Nat
    BY <1>2, <1>4
  <2>2. Rung(f[i].row) < Rung(f[j].row)
    BY <1>5, <2>1
  <2> QED  BY <2>2 DEF Climbs
<1>8. DOMAIN f = 1 .. N /\ f = [i \in 1 .. N |-> f[i]]
  BY <1>3
<1>9. Ladder(f, 5, Top + 4)
  <2>1. 5 \in Int /\ Top + 4 \in Int
    BY TopIs
  <2>2. \A i \in 1 .. N : f[i] \in Locks /\
          (Harmless(f[i]) \/ (5 <= Rung(f[i].row) /\ Rung(f[i].row) <= Top + 4))
    BY <1>4, <1>6
  <2> QED  BY <1>2, <1>7, <1>8, <2>1, <2>2, LadderOf, Zenon
<1> QED  BY <1>9 DEF f

LEMMA AdminsClimb ==
    ASSUME NEW low \in Int, NEW high \in Int
    PROVE  Ladder(TellAdmins, low, high)
<1> DEFINE N == Cardinality(Admins)
           a == Ascending(Admins)
           f == TellAdmins
<1>1. N \in Nat /\ a \in [1 .. N -> Admins]
  BY Shop, SortedSet
<1>2. f = [i \in 1 .. N |-> KeyShare(<<"admin", a[i]>>)]
  BY DEF TellAdmins
<1> HIDE DEF N, a, f
<1>3. \A i \in 1 .. N : f[i] \in Locks /\ Harmless(f[i])
  BY <1>1, <1>2 DEF Locks, KeyShare, Harmless
<1>4. DOMAIN f = 1 .. N /\ f = [i \in 1 .. N |-> f[i]]
  BY <1>2
<1>5. Ladder(f, low, high)
  BY <1>1, <1>3, <1>4, LadderOf DEF Climbs
<1> QED  BY <1>5 DEF f

LEMMA Rungs ==
    /\ Update(<<"advisory", "tree">>) \in Locks /\ Rung(Update(<<"advisory", "tree">>).row) = 0
    /\ \A a \in Admins : Write(<<"admin", a>>) \in Locks /\ Rung(Write(<<"admin", a>>).row) = 1
    /\ \A o \in Orders : Update(<<"order", o>>) \in Locks /\ Rung(Update(<<"order", o>>).row) = 2
    /\ \A c \in Customers :
        /\ Update(<<"user", c>>) \in Locks
        /\ Rung(Update(<<"user", c>>).row) = IF c \in Owners THEN Top + 5 ELSE 3
        /\ Update(<<"cart", c>>) \in Locks /\ Rung(Update(<<"cart", c>>).row) = 4
    /\ \A o \in Orders :
        /\ KeyShare(<<"user", Owner[o]>>) \in Locks
        /\ Rung(KeyShare(<<"user", Owner[o]>>).row) = Top + 5
<1>1. /\ Update(<<"advisory", "tree">>) \in Locks
      /\ \A a \in Admins : Write(<<"admin", a>>) \in Locks
      /\ \A o \in Orders : Update(<<"order", o>>) \in Locks
      /\ \A c \in Customers : Update(<<"user", c>>) \in Locks /\ Update(<<"cart", c>>) \in Locks
      /\ \A o \in Orders : KeyShare(<<"user", Owner[o]>>) \in Locks
  BY Shop DEF Locks
<1>2. /\ Rung(Update(<<"advisory", "tree">>).row) = 0
      /\ \A a \in Admins : Rung(Write(<<"admin", a>>).row) = 1
      /\ \A o \in Orders : Rung(Update(<<"order", o>>).row) = 2
      /\ \A c \in Customers :
        /\ Rung(Update(<<"user", c>>).row) = IF c \in Owners THEN Top + 5 ELSE 3
        /\ Rung(Update(<<"cart", c>>).row) = 4
  BY DEF Rung, Update, Write
<1>3. \A o \in Orders : Rung(KeyShare(<<"user", Owner[o]>>).row) = Top + 5
  BY DEF Rung, KeyShare, Owners
<1> QED  BY <1>1, <1>2, <1>3

\* Who shops is not, at the time, who has an order that others work on.
ShoppersApart == \A o \in Orders : Owner[o] \notin Shoppers

LEMMA TellAllClimbs ==
    ASSUME NEW o \in Orders
    PROVE  Ladder(TellAll(o), Top + 5, Top + 5)
<1> DEFINE x == KeyShare(<<"user", Owner[o]>>)
<1>1. x \in Locks /\ Rung(x.row) = Top + 5
  BY Rungs
<1>2. TellAll(o) = <<x>> \o TellAdmins
  BY DEF TellAll
<1> HIDE DEF x
<1>3. Ladder(<<x>>, Top + 5, Top + 5)
  BY <1>1, TopIs, OneRung
<1>4. Ladder(TellAdmins, Top + 6, Top + 5)
  BY TopIs, AdminsClimb
<1> QED  BY <1>2, <1>3, <1>4, TopIs, Joined

\* Each kind of transaction.
LEMMA ActorClimbs ==
    ASSUME NEW a \in Admins
    PROVE  Ladder(Actor(a), 1, 1)
BY Rungs, OneRung DEF Actor

LEMMA CartClimbs ==
    ASSUME ShoppersApart, NEW c \in Shoppers
    PROVE  Ladder(CustomerCart(c), 3, 4)
<1> DEFINE x == Update(<<"user", c>>)
           y == Update(<<"cart", c>>)
<1>1. c \in Customers /\ c \notin Owners
  BY Shop DEF ShoppersApart, Owners
<1>2. x \in Locks /\ y \in Locks /\ Rung(x.row) = 3 /\ Rung(y.row) = 4
  BY <1>1, Rungs
<1>3. CustomerCart(c) = <<x, y>>
  BY DEF CustomerCart
<1> HIDE DEF x, y
<1>4. Ladder(<<x>>, 3, 3) /\ Ladder(<<y>>, 4, 4)
  BY <1>2, OneRung
<1>5. Ladder(<<x>> \o <<y>>, 3, 4)
  BY <1>4, Joined
<1>6. <<x>> \o <<y>> = <<x, y>>
  <2>1. <<x>> \in Seq(Locks) /\ <<y>> \in Seq(Locks) /\ Len(<<x>>) = 1 /\ Len(<<y>>) = 1
    BY <1>2
  <2>2. /\ Len(<<x>> \o <<y>>) = 2 /\ (<<x>> \o <<y>>)[1] = x /\ (<<x>> \o <<y>>)[2] = y
        /\ <<x>> \o <<y>> \in Seq(Locks)
    BY <2>1
  <2> DEFINE both == <<x>> \o <<y>>
  <2>3. Len(both) = 2 /\ both[1] = x /\ both[2] = y /\ both \in Seq(Locks)
    BY <2>2
  <2> HIDE DEF both
  <2>4. both = <<x, y>>
    BY <2>3
  <2> QED  BY <2>4 DEF both
<1> QED  BY <1>3, <1>5, <1>6

\* Wider than it is.
LEMMA Within ==
    ASSUME NEW p, NEW low \in Int, NEW high \in Int, NEW lower \in Int, NEW higher \in Int,
           Ladder(p, low, high), lower <= low, high <= higher
    PROVE  Ladder(p, lower, higher)
<1>1. p \in Seq(Locks)
  BY DEF Ladder
<1>2. \A i \in 1 .. Len(p) : Rung(p[i].row) \in Nat
  BY <1>1, RungIs
<1> QED  BY <1>2 DEF Ladder

LEMMA JoinedUp ==
    ASSUME NEW low \in Nat, NEW middle \in Nat, NEW next \in Nat, NEW high \in Int,
           low <= middle, middle < next, middle <= high,
           NEW p, NEW q, Ladder(p, low, middle), Ladder(q, next, high)
    PROVE  Ladder(p \o q, 0, high)
<1>1. Ladder(p, 0, middle)
  BY Within
<1> QED  BY <1>1, Joined

LEMMA ProgramsClimb ==
    ASSUME ShoppersApart, NEW kind \in Kinds, NEW program \in Programs[kind]
    PROVE  Ladder(program, 0, Top + 5)
<1>0. /\ Top \in Nat /\ Top + 5 \in Int /\ Top + 4 \in Int /\ Shoppers \subseteq Customers
      /\ \A o \in Orders : Lines[o] \subseteq Products
  BY TopIs, Shop
<1>1. ASSUME NEW c \in Shoppers, NEW S, S \subseteq Products
      PROVE  Ladder(CustomerCart(c) \o AllProducts(S), 0, Top + 4)
  <2>1. Ladder(CustomerCart(c), 3, 4) /\ Ladder(AllProducts(S), 5, Top + 4)
    BY <1>1, CartClimbs, ProductsClimb
  <2> QED  BY <1>0, <2>1, JoinedUp
<1>2. ASSUME NEW o \in Orders
      PROVE  /\ Ladder(<<Update(<<"order", o>>)>>, 2, 2)
             /\ Ladder(TellAll(o), Top + 5, Top + 5)
             /\ Ladder(AllProducts(Lines[o]), 5, Top + 4)
  BY <1>0, Rungs, OneRung, TellAllClimbs, ProductsClimb
<1>3. ASSUME NEW a \in Admins, NEW o \in Orders
      PROVE  Ladder(Actor(a) \o <<Update(<<"order", o>>)>>, 0, 2)
  <2>1. Ladder(Actor(a), 1, 1)
    BY ActorClimbs
  <2> QED  BY <1>2, <2>1, JoinedUp
<1>12. ASSUME NEW p, NEW q, Ladder(p, 0, Top + 4) \/ Ladder(p, 0, 2) \/ Ladder(p, 2, 2),
             Ladder(q, Top + 5, Top + 5)
      PROVE  Ladder(p \o q, 0, Top + 5)
  <2>1. Ladder(p, 0, Top + 4)
    <3>1. 2 <= Top + 4 /\ 0 <= 2 /\ 0 <= 0 /\ Top + 4 <= Top + 4 /\ 0 \in Int /\ 2 \in Int
      BY <1>0
    <3> QED  BY <1>0, <1>12, <3>1, Within
  <2> QED  BY <1>0, <1>12, <2>1, JoinedUp
<1>13. ASSUME NEW p, NEW q, Ladder(p, 0, 2) \/ Ladder(p, 0, 1), Ladder(q, 5, Top + 4)
      PROVE  Ladder(p \o q, 0, Top + 4)
  <2>1. Ladder(p, 0, 2)
    <3>1. 1 <= 2 /\ 0 <= 0 /\ 0 \in Int /\ 1 \in Int /\ 2 \in Int
      OBVIOUS
    <3> QED  BY <1>13, <3>1, Within
  <2> QED  BY <1>0, <1>13, <2>1, JoinedUp
<1>4. CASE kind = "checkout"
  <2>1. Programs[kind] = {Checkout(c, S) : c \in Shoppers, S \in (SUBSET Products) \ {{}}}
    BY <1>4 DEF Programs
  <2>2. PICK c \in Shoppers, S \in SUBSET Products : program = Checkout(c, S)
    BY <2>1
  <2>3. Ladder(TellAdmins, Top + 5, Top + 5)
    BY <1>0, AdminsClimb
  <2>4. Ladder((CustomerCart(c) \o AllProducts(S)) \o TellAdmins, 0, Top + 5)
    BY <1>1, <1>12, <2>3, Zenon
  <2> QED  BY <2>2, <2>4, Zenon DEF Checkout
<1>5. CASE kind = "cart"
  <2>1. Programs[kind] = {CartItem(c, p) : c \in Shoppers, p \in Products}
    BY <1>5 DEF Programs
  <2>2. PICK c \in Shoppers, p \in Products : program = CartItem(c, p)
    BY <2>1
  <2>3. Ladder(CartItem(c, p), 0, Top + 4)
    BY <1>1 DEF CartItem
  <2> QED  BY <1>0, <2>2, <2>3, Within
<1>6. CASE kind = "advance"
  <2>1. Programs[kind] = {AdvanceOrder(a, o) : a \in Admins, o \in Orders}
    BY <1>6 DEF Programs
  <2>2. PICK a \in Admins, o \in Orders : program = AdvanceOrder(a, o)
    BY <2>1
  <2>3. Ladder((Actor(a) \o <<Update(<<"order", o>>)>>) \o TellAll(o), 0, Top + 5)
    BY <1>2, <1>3, <1>12, Zenon
  <2> QED  BY <2>2, <2>3, Zenon DEF AdvanceOrder
<1>7. CASE kind = "cancel"
  <2>1. Programs[kind] = {CancelOrder(a, o) : a \in Admins, o \in Orders}
    BY <1>7 DEF Programs
  <2>2. PICK a \in Admins, o \in Orders : program = CancelOrder(a, o)
    BY <2>1
  <2>3. Ladder((Actor(a) \o <<Update(<<"order", o>>)>>) \o AllProducts(Lines[o]), 0, Top + 4)
    BY <1>2, <1>3, <1>13, Zenon
  <2>4. Ladder(((Actor(a) \o <<Update(<<"order", o>>)>>) \o AllProducts(Lines[o])) \o TellAll(o),
               0, Top + 5)
    BY <1>2, <1>12, <2>3, Zenon
  <2> QED  BY <2>2, <2>4, Zenon DEF CancelOrder
<1>8. CASE kind = "gateway"
  <2>1. Programs[kind] = {GatewayPaid(o) : o \in Orders}
    BY <1>8 DEF Programs
  <2>2. PICK o \in Orders : program = GatewayPaid(o)
    BY <2>1
  <2>3. Ladder(<<Update(<<"order", o>>)>> \o TellAll(o), 0, Top + 5)
    BY <1>2, <1>12, Zenon
  <2> QED  BY <2>2, <2>3, Zenon DEF GatewayPaid
<1>9. CASE kind = "receipt"
  <2>1. Programs[kind] = {UploadReceipt(o) : o \in Orders}
    BY <1>9 DEF Programs
  <2>2. PICK o \in Orders : program = UploadReceipt(o)
    BY <2>1
  <2>3. Ladder(UploadReceipt(o), 2, 2)
    BY <1>2 DEF UploadReceipt
  <2> QED  BY <1>0, <2>2, <2>3, Within
<1>10. CASE kind = "catalog"
  <2>1. Programs[kind] = {EditProduct(a, p) : a \in Admins, p \in Products}
    BY <1>10 DEF Programs
  <2>2. PICK a \in Admins, p \in Products : program = EditProduct(a, p)
    BY <2>1
  <2> DEFINE tree == <<Update(<<"advisory", "tree">>)>>
  <2>3. Ladder(tree, 0, 0) /\ Ladder(Actor(a), 1, 1) /\ Ladder(AllProducts({p}), 5, Top + 4)
    BY Rungs, OneRung, ActorClimbs, ProductsClimb
  <2> HIDE DEF tree
  <2>4. Ladder(tree \o Actor(a), 0, 1)
    BY <2>3, JoinedUp
  <2>5. Ladder((tree \o Actor(a)) \o AllProducts({p}), 0, Top + 4)
    BY <1>13, <2>3, <2>4, Zenon
  <2>6. program = (tree \o Actor(a)) \o AllProducts({p})
    BY <2>2, Zenon DEF EditProduct, tree
  <2> QED  BY <1>0, <2>5, <2>6, Within
<1>11. CASE kind = "block"
  <2>1. Programs[kind] = {BlockCustomer(a, c) : a \in Admins, c \in Customers}
    BY <1>11 DEF Programs
  <2>2. PICK a \in Admins, c \in Customers : program = BlockCustomer(a, c)
    BY <2>1
  <2> DEFINE x == Update(<<"user", c>>)
  <2>3. x \in Locks /\ Rung(x.row) \in {3, Top + 5}
    BY Rungs
  <2>4. program = Actor(a) \o <<x>>
    BY <2>2, Zenon DEF BlockCustomer
  <2> HIDE DEF x
  <2>5. Ladder(<<x>>, 3, Top + 5)
    <3>1. Ladder(<<x>>, Rung(x.row), Rung(x.row))
      BY <1>0, <2>3, OneRung
    <3> QED  BY <1>0, <2>3, <3>1, Within
  <2>6. Ladder(Actor(a), 1, 1)
    BY ActorClimbs
  <2>7. Ladder(Actor(a) \o <<x>>, 0, Top + 5)
    BY <1>0, <2>5, <2>6, JoinedUp
  <2> QED  BY <2>4, <2>7
<1>14. kind \in {"checkout", "cart", "advance", "cancel", "gateway", "receipt", "catalog", "block"}
  BY Shop
<1> QED  BY <1>14, <1>4, <1>5, <1>6, <1>7, <1>8, <1>9, <1>10, <1>11

-----------------------------------------------------------------------------
(* The theorem. *)

LEMMA LockStart == Init => LockShape /\ LockInv
<1> SUFFICES ASSUME Init PROVE LockShape /\ LockInv
  OBVIOUS
<1>1. Len(<<>>) = 0 /\ <<>> \in Seq(Locks)
  OBVIOUS
<1>2. Ladder(<<>>, 0, Top + 5)
  BY <1>1 DEF Ladder
<1> QED  BY <1>1, <1>2 DEF Init, LockShape, LockInv

LEMMA LockStep ==
    ASSUME ShoppersApart, LockShape, LockInv, [Next]_vars
    PROVE  LockShape' /\ LockInv'
<1>1. ASSUME NEW s \in Sessions, NEW locks, NEW mine, mine \subseteq Locks,
             Ladder(locks, 0, Top + 5), \A x \in mine, i \in 1 .. Len(locks) : Climbs(x, locks[i]),
             todo' = [todo EXCEPT ![s] = locks], held' = [held EXCEPT ![s] = mine]
      PROVE  LockShape' /\ LockInv'
  <2>1. locks \in Seq(Locks)
    BY <1>1 DEF Ladder
  <2>2. LockShape'
    BY <1>1, <2>1 DEF LockShape
  <2>3. ASSUME NEW r \in Sessions
        PROVE  /\ held'[r] \subseteq Locks /\ Ladder(todo'[r], 0, Top + 5)
               /\ \A x \in held'[r], i \in 1 .. Len(todo'[r]) : Climbs(x, todo'[r][i])
    <3>1. CASE r = s
      <4>1. todo'[s] = locks /\ held'[s] = mine
        BY <1>1 DEF LockShape
      <4> QED  BY <1>1, <3>1, <4>1
    <3>2. CASE r # s
      <4>1. todo'[r] = todo[r] /\ held'[r] = held[r]
        BY <1>1, <3>2 DEF LockShape
      <4> QED  BY <4>1 DEF LockInv
    <3> QED  BY <3>1, <3>2
  <2> QED  BY <2>2, <2>3 DEF LockInv
<1>2. ASSUME NEW s \in Sessions, NEW kind \in Kinds, Begin(s, kind)
      PROVE  LockShape' /\ LockInv'
  <2>1. PICK program \in Programs[kind] : todo' = [todo EXCEPT ![s] = program]
    BY <1>2 DEF Begin
  <2>2. held' = [held EXCEPT ![s] = {}]
    BY <1>2 DEF Begin, Idle, LockShape
  <2>3. Ladder(program, 0, Top + 5)
    BY ProgramsClimb
  <2> QED  BY <1>1, <2>1, <2>2, <2>3
<1>3. ASSUME NEW s \in Sessions, Acquire(s)
      PROVE  LockShape' /\ LockInv'
  <2> DEFINE locks == todo[s]
             rest == Tail(todo[s])
             mine == held[s] \cup {Head(todo[s])}
  <2>1. /\ locks \in Seq(Locks) /\ locks # <<>> /\ Ladder(locks, 0, Top + 5)
        /\ held[s] \subseteq Locks
        /\ \A x \in held[s], i \in 1 .. Len(locks) : Climbs(x, locks[i])
    BY <1>3 DEF Acquire, LockShape, LockInv
  <2>2. todo' = [todo EXCEPT ![s] = rest] /\ held' = [held EXCEPT ![s] = mine]
    BY <1>3 DEF Acquire
  <2> HIDE DEF locks
  <2>3. /\ Len(locks) \in Nat /\ Len(locks) >= 1 /\ Tail(locks) \in Seq(Locks)
        /\ Len(Tail(locks)) = Len(locks) - 1 /\ Head(locks) = locks[1] /\ locks[1] \in Locks
        /\ \A i \in 1 .. Len(Tail(locks)) : Tail(locks)[i] = locks[i + 1]
    BY <2>1
  <2>4. rest = Tail(locks) /\ mine = held[s] \cup {locks[1]}
    BY <2>3 DEF locks
  <2> HIDE DEF rest, mine
  <2>5. Ladder(rest, 0, Top + 5)
    BY <2>1, <2>3, <2>4 DEF Ladder
  <2>6. \A x \in mine, i \in 1 .. Len(rest) : Climbs(x, rest[i])
    BY <2>1, <2>3, <2>4 DEF Ladder
  <2> QED  BY <1>1, <2>1, <2>2, <2>3, <2>4, <2>5, <2>6
<1>4. ASSUME NEW s \in Sessions, End(s)
      PROVE  LockShape' /\ LockInv'
  <2>1. Ladder(<<>>, 0, Top + 5) /\ Len(<<>>) = 0
    BY DEF Ladder
  <2> QED  BY <1>1, <1>4, <2>1 DEF End
<1>5. CASE UNCHANGED vars
  BY <1>5 DEF vars, LockShape, LockInv
<1> QED  BY <1>2, <1>3, <1>4, <1>5 DEF Next

\* A transaction that waits for another stands on a higher rung than those it
\* keeps waiting: on the highest, it waits for nobody of the circle.
LEMMA NoCircle == LockShape /\ LockInv => NoDeadlock
<1> SUFFICES ASSUME LockShape, LockInv, NEW circle \in (SUBSET Sessions) \ {{}},
                    \A s \in circle : WaitsFor(s) \cap circle # {}
             PROVE  FALSE
  BY DEF NoDeadlock
<1> DEFINE next(s) == Head(todo[s])
           rung(s) == Rung(next(s).row)
<1>1. ASSUME NEW s \in circle
      PROVE  /\ todo[s] # <<>> /\ next(s) \in Locks /\ Len(todo[s]) >= 1 /\ next(s) = todo[s][1]
             /\ \E r \in circle : \E x \in held[r] : Conflict(next(s), x)
             /\ rung(s) \in Nat
  <2>1. PICK r \in circle : r \in WaitsFor(s)
    OBVIOUS
  <2>2. todo[s] # <<>> /\ \E x \in held[r] : Conflict(next(s), x)
    BY <2>1 DEF WaitsFor, Blocks
  <2>3. todo[s] \in Seq(Locks)
    BY DEF LockShape
  <2>4. next(s) \in Locks /\ Len(todo[s]) >= 1 /\ next(s) = todo[s][1]
    BY <2>2, <2>3
  <2> QED  BY <2>2, <2>4, RungIs
<1>2. \A s \in circle : \E r \in circle : rung(s) < rung(r)
  <2> SUFFICES ASSUME NEW s \in circle PROVE \E r \in circle : rung(s) < rung(r)
    OBVIOUS
  <2>1. PICK r \in circle : \E x \in held[r] : Conflict(next(s), x)
    BY <1>1
  <2>2. PICK x \in held[r] : Conflict(next(s), x)
    BY <2>1
  <2>3. x \in Locks /\ next(s) \in Locks
    BY <1>1 DEF LockInv
  <2>4. ~Harmless(x) /\ next(s).row = x.row
    BY <2>2, <2>3, ConflictLevel
  <2>5. ~Harmless(next(r))
    <3>1. PICK q \in circle : \E y \in held[q] : Conflict(next(r), y)
      BY <1>1
    <3>2. PICK y \in held[q] : Conflict(next(r), y)
      BY <3>1
    <3>3. y \in Locks /\ next(r) \in Locks
      BY <1>1 DEF LockInv
    <3> QED  BY <3>2, <3>3, ConflictLevel
  <2>6. Climbs(x, next(r))
    <3>1. todo[r] \in Seq(Locks) /\ Len(todo[r]) >= 1 /\ next(r) = todo[r][1]
      BY <1>1 DEF LockShape
    <3>2. 1 \in 1 .. Len(todo[r])
      BY <3>1
    <3>3. Climbs(x, todo[r][1])
      BY <3>2 DEF LockInv
    <3> QED  BY <3>1, <3>3
  <2> QED  BY <2>4, <2>5, <2>6 DEF Climbs
<1> DEFINE rungs == {rung(s) : s \in circle}
<1>3. IsFiniteSet(rungs) /\ rungs # {} /\ rungs \subseteq Nat
  <2>1. IsFiniteSet(circle)
    BY Shop, FS_Subset
  <2> DEFINE f == [s \in circle |-> rung(s)]
  <2>2. f \in Surjection(circle, rungs)
    <3> HIDE DEF rung
    <3> QED  BY DEF Surjection
  <2> HIDE DEF f, rungs
  <2>3. IsFiniteSet(rungs)
    BY <2>1, <2>2, FS_Surjection, Zenon
  <2> USE DEF rungs
  <2>4. rungs # {} /\ rungs \subseteq Nat
    BY <1>1
  <2> QED  BY <2>3, <2>4
<1>4. PICK n \in rungs : \A m \in rungs : m <= n
  BY <1>3, GreatestMember
<1>5. PICK s \in circle : n = rung(s)
  OBVIOUS
<1>6. PICK r \in circle : rung(s) < rung(r)
  BY <1>2
<1> HIDE DEF rung
<1>7. rung(r) <= rung(s) /\ rung(r) \in Nat /\ rung(s) \in Nat
  BY <1>1, <1>4, <1>5
<1> QED  BY <1>6, <1>7

\* As long as no customer shops while others work on an order of theirs,
\* transactions of any kinds, in any number, over any products, never wait for
\* one another in a circle: products are locked by identity, after the
\* customer and the cart or after the order (lock_customer_cart,
\* _lock_products).
THEOREM LocksClimb ==
    ASSUME ShoppersApart
    PROVE  Spec => []NoDeadlock
<1>1. Init => LockShape /\ LockInv
  BY LockStart
<1>2. LockShape /\ LockInv /\ [Next]_vars => LockShape' /\ LockInv'
  BY LockStep
<1> QED  BY <1>1, <1>2, NoCircle, PTL DEF Spec
=============================================================================
