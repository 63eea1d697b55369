---------------------------- MODULE OutboxProofs ----------------------------
(***************************************************************************)
(* Proofs about Outbox, for any number of orders, administrators, workers  *)
(* and faults: a lease sends once, every extra copy is owed to a fault,    *)
(* and what is settled stays settled.  SendInv is the invariant: leases    *)
(* are told apart by their tokens, a lease that may still send has not     *)
(* sent, and a row that waits to be claimed has been claimed no more often *)
(* than faults happened.  CardInv is the invariant of what cards show:     *)
(* each card, and whatever a worker or a handler of the bot is about to    *)
(* write over it, was true of its order once, and who has not been         *)
(* overtaken writes nothing older than what the card shows.                *)
(***************************************************************************)
EXTENDS Outbox, FiniteSetTheorems, SequenceTheorems, TLAPS

\* The shape of orders and administrators, of cards and of rows.
OrderShape ==
    /\ history \in [Orders -> Seq(Admins \cup {Gateway})]
    /\ \A o \in Orders : Len(history[o]) <= MaxSteps
    /\ paidBy \in [Orders -> Admins \cup {Gateway, Nobody}]
    /\ cards \in [Orders -> [Admins -> Nat]]
    /\ active \in SUBSET Admins /\ listening \in SUBSET Admins /\ blocked \in SUBSET Orders
ChatShape == chat \in Seq(Cards)
RowShape == outbox \in [Events -> Row \cup {NoRow}]
WorkerShape == worker \in [Workers -> Working \cup Between]
CountShape == accepted \in [Events -> Nat] /\ faults \in 0 .. MaxFaults

\* What a worker has in hand, and what of it may still be sent.
InHand(w) == worker[w].todo \cup (IF worker[w].phase = "waiting" THEN {} ELSE {worker[w].claim})
ToSend(w) == worker[w].todo \cup (IF worker[w].phase = "rendered" THEN {worker[w].claim} ELSE {})

\* A lease is of a row, and of one worker.
LeasesApart ==
    /\ \A w \in Workers : \A c \in InHand(w) :
        outbox[c.event] # NoRow /\ c.token <= outbox[c.event].attempts
    /\ \A w, v \in Workers : \A c \in InHand(w) : c \in InHand(v) => w = v
    /\ \A w \in Workers : worker[w].phase # "waiting" => worker[w].claim \notin worker[w].todo

\* Tokens given out that can send no more; each has sent once at most.
Spent(e) ==
    {n \in 1 .. outbox[e].attempts :
        \A w \in Workers : [event |-> e, token |-> n] \notin ToSend(w)}
SendsCounted == \A e \in Events : accepted[e] <= Cardinality(Spent(e))

\* A row that is free to be claimed was given back, or left behind, by a fault.
IsHeld(e) == \E w \in Workers : \E c \in InHand(w) :
                c.event = e /\ c.token = outbox[e].attempts
FreeRow(e) == outbox[e].status = "pending" \/ (outbox[e].status = "sending" /\ ~IsHeld(e))
ClaimsOwed ==
    \A e \in Events : /\ outbox[e].attempts <= 1 + faults
                      /\ FreeRow(e) => outbox[e].attempts <= faults

\* Who is about to edit a card has one in hand.
HandInv ==
    /\ hand \in [Handlers -> HandEdits \cup {NoEdit}]
    /\ \A h \in Handlers : hand[h] # NoEdit => hand[h].card \in DOMAIN chat
    /\ overtaken \in SUBSET (Workers \cup Handlers)

Shape == OrderShape /\ ChatShape /\ RowShape /\ WorkerShape /\ CountShape
SendInv == Shape /\ LeasesApart /\ SendsCounted /\ ClaimsOwed

-----------------------------------------------------------------------------
(* What the shape says of one row and one worker. *)

LEMMA RowOf ==
    ASSUME RowShape, NEW e \in Events
    PROVE  outbox[e].attempts \in Nat /\ (outbox[e] # NoRow => outbox[e] \in Row)
BY DEF RowShape, Row, NoRow

LEMMA WorkerOf ==
    ASSUME WorkerShape, NEW w \in Workers
    PROVE  /\ worker[w].phase \in {"waiting", "rendered", "posted", "saved"}
           /\ worker[w].todo \subseteq Claims
           /\ worker[w].phase # "waiting" => worker[w] \in Working /\ worker[w].claim \in Claims
           /\ worker[w].phase = "waiting" => worker[w] \in Between /\ worker[w].claim = NoClaim
           /\ InHand(w) \subseteq Claims /\ ToSend(w) \subseteq InHand(w)
BY DEF WorkerShape, Working, Between, InHand, ToSend

LEMMA HeldIs ==
    ASSUME WorkerShape, NEW e \in Events
    PROVE  Held(e) <=> IsHeld(e)
<1>1. ASSUME NEW w \in Workers
      PROVE  InHand(w) = {c \in worker[w].todo \cup {worker[w].claim} : c # NoClaim}
  BY Table, WorkerOf DEF InHand
<1> QED  BY <1>1 DEF Held, IsHeld

LEMMA UpTo ==
    ASSUME NEW n \in Nat
    PROVE  IsFiniteSet(1 .. n) /\ Cardinality(1 .. n) = n
<1>1. IsFiniteSet(1 .. n) /\ Cardinality(1 .. n) = IF 1 > n THEN 0 ELSE n - 1 + 1
  BY FS_Interval
<1> QED  BY <1>1

LEMMA SpentFinite ==
    ASSUME RowShape, NEW e \in Events
    PROVE  /\ IsFiniteSet(Spent(e)) /\ Cardinality(Spent(e)) \in Nat
           /\ Cardinality(Spent(e)) <= outbox[e].attempts
<1>1. outbox[e].attempts \in Nat
  BY RowOf
<1>2. /\ IsFiniteSet(1 .. outbox[e].attempts)
      /\ Cardinality(1 .. outbox[e].attempts) = outbox[e].attempts
  BY <1>1, UpTo
<1>3. Spent(e) \subseteq 1 .. outbox[e].attempts
  BY DEF Spent
<1> QED  BY <1>1, <1>2, <1>3, FS_Subset, FS_CardinalityType

LEMMA SendStart == Init => SendInv
<1> SUFFICES ASSUME Init PROVE SendInv
  OBVIOUS
<1>1. /\ \A e \in Events : accepted[e] = 0 /\ outbox[e].attempts = 0
      /\ faults = 0 /\ \A w \in Workers : worker[w] = Waiting
  BY DEF Init, NoRow
<1>2. OrderShape /\ ChatShape
  BY Values DEF Init, OrderShape, ChatShape
<1>3. RowShape /\ WorkerShape /\ CountShape
  BY Values DEF Init, RowShape, WorkerShape, CountShape, Row, Waiting, Between
<1>4. \A w \in Workers : worker[w].phase = "waiting" /\ InHand(w) = {}
  BY <1>1 DEF InHand, Waiting
<1>5. LeasesApart
  BY <1>4 DEF LeasesApart
<1>6. SendsCounted
  BY <1>1, <1>3, SpentFinite DEF SendsCounted
<1>7. ClaimsOwed
  BY <1>1 DEF ClaimsOwed
<1> QED  BY <1>2, <1>3, <1>5, <1>6, <1>7 DEF SendInv, Shape

-----------------------------------------------------------------------------
(* What steps have in common. *)

\* Tokens given out grow; messages that may still be sent become fewer.
LEMMA MoreSpent ==
    ASSUME SendInv, RowShape', NEW e \in Events, Spent(e) \subseteq Spent(e)',
           accepted'[e] = accepted[e]
    PROVE  accepted'[e] <= Cardinality(Spent(e)')
<1>1. IsFiniteSet(Spent(e)')
  <2>1. outbox'[e].attempts \in Nat
    BY DEF RowShape, Row, NoRow
  <2>2. IsFiniteSet(1 .. outbox'[e].attempts)
    BY <2>1, FS_Interval
  <2> QED  BY <2>2, FS_Subset DEF Spent
<1>2. Cardinality(Spent(e)) <= Cardinality(Spent(e)')
  BY <1>1, FS_Subset
<1>3. /\ accepted[e] \in Nat /\ accepted[e] <= Cardinality(Spent(e))
      /\ Cardinality(Spent(e)) \in Nat
  BY SpentFinite DEF SendInv, SendsCounted, Shape, CountShape
<1>4. Cardinality(Spent(e)') \in Nat
  BY <1>1, FS_CardinalityType
<1> QED  BY <1>2, <1>3, <1>4

\* No row goes, and no lease is given out.
RowsKept ==
    \A e \in Events : /\ outbox'[e].attempts = outbox[e].attempts
                      /\ outbox[e] # NoRow => outbox'[e] # NoRow

\* A worker goes on with what it has in hand, or lets some of it go.
LEMMA GoingOn ==
    ASSUME SendInv, NEW w \in Workers, NEW record \in Working \cup Between,
           worker' = [worker EXCEPT ![w] = record],
           record.todo \subseteq worker[w].todo,
           record.phase # "waiting" => record.claim \in InHand(w) /\ record.claim \notin record.todo,
           record.phase = "rendered" => record.claim \in ToSend(w),
           RowShape', RowsKept
    PROVE  /\ WorkerShape' /\ LeasesApart'
           /\ worker'[w] = record /\ \A v \in Workers \ {w} : worker'[v] = worker[v]
           /\ \A v \in Workers \ {w} : InHand(v)' = InHand(v) /\ ToSend(v)' = ToSend(v)
           /\ \A e \in Events : Spent(e) \subseteq Spent(e)'
           /\ accepted' = accepted => SendsCounted'
<1>1. /\ WorkerShape' /\ worker'[w] = record /\ \A v \in Workers \ {w} : worker'[v] = worker[v]
  BY DEF SendInv, Shape, WorkerShape
<1>2. \A v \in Workers \ {w} : InHand(v)' = InHand(v) /\ ToSend(v)' = ToSend(v)
  BY <1>1 DEF InHand, ToSend
<1>3. InHand(w)' \subseteq InHand(w) /\ ToSend(w)' \subseteq ToSend(w)
  BY <1>1 DEF InHand, ToSend
<1>4. \A v \in Workers : InHand(v) \subseteq Claims /\ InHand(v)' \subseteq InHand(v)
                         /\ ToSend(v)' \subseteq ToSend(v)
  BY <1>2, <1>3, WorkerOf DEF SendInv, Shape
<1>5. LeasesApart'
  <2>1. ASSUME NEW v \in Workers, NEW c \in InHand(v)'
        PROVE  outbox'[c.event] # NoRow /\ c.token <= outbox'[c.event].attempts
    BY <1>4, <2>1 DEF SendInv, LeasesApart, RowsKept, Claims
  <2>2. \A v, x \in Workers : \A c \in InHand(v)' : c \in InHand(x)' => v = x
    BY <1>4 DEF SendInv, LeasesApart
  <2>3. \A v \in Workers : worker'[v].phase # "waiting" => worker'[v].claim \notin worker'[v].todo
    BY <1>1 DEF SendInv, LeasesApart
  <2> QED  BY <2>1, <2>2, <2>3 DEF LeasesApart
<1>6. ASSUME NEW e \in Events
      PROVE  Spent(e) \subseteq Spent(e)'
  BY <1>4 DEF Spent, RowsKept
<1>7. ASSUME accepted' = accepted
      PROVE  SendsCounted'
  BY <1>6, <1>7, MoreSpent DEF SendsCounted
<1> QED  BY <1>1, <1>2, <1>5, <1>6, <1>7

\* A row is free again only if it was, or if a fault made it so.
LEMMA StillOwed ==
    ASSUME SendInv, CountShape', RowsKept, faults' >= faults,
           \A e \in Events : FreeRow(e)' => FreeRow(e) \/ outbox'[e].attempts = 0
                                            \/ faults' >= faults + 1
    PROVE  ClaimsOwed'
<1>1. ASSUME NEW e \in Events
      PROVE  /\ outbox'[e].attempts <= 1 + faults'
             /\ FreeRow(e)' => outbox'[e].attempts <= faults'
  <2> DEFINE n == outbox[e].attempts
             m == outbox'[e].attempts
  <2>1. /\ n \in Nat /\ m \in Nat /\ m = n /\ faults \in Nat /\ faults' \in Nat /\ n <= 1 + faults
    BY RowOf DEF SendInv, Shape, CountShape, ClaimsOwed, RowsKept
  <2>2. FreeRow(e) => n <= faults
    BY DEF SendInv, ClaimsOwed
  <2>3. FreeRow(e)' => FreeRow(e) \/ m = 0 \/ faults' >= faults + 1
    OBVIOUS
  <2>4. faults' >= faults
    OBVIOUS
  <2> HIDE DEF n, m
  <2>5. m <= 1 + faults'
    <3>1. ASSUME NEW x \in Nat, NEW y \in Nat, NEW z \in Nat, z >= y, x <= 1 + y
          PROVE  x <= 1 + z
      BY <3>1
    <3> QED  BY <2>1, <2>4, <3>1
  <2>6. n <= faults \/ m = 0 \/ faults' >= faults + 1 => m <= faults'
    BY ONLY <2>1, <2>4
  <2>7. FreeRow(e)' => m <= faults'
    BY ONLY <2>2, <2>3, <2>6
  <2> QED  BY <2>5, <2>7 DEF m
<1> QED  BY <1>1 DEF ClaimsOwed

-----------------------------------------------------------------------------
(* Orders, customers and administrators. *)

LEMMA Enqueued ==
    ASSUME SendInv, NEW E, Enqueue(E)
    PROVE  /\ RowShape' /\ RowsKept
           /\ \A e \in Events : outbox'[e] = outbox[e]
                                \/ (outbox[e] = NoRow /\ outbox'[e] = [status |-> "pending", attempts |-> 0])
<1>1. \A e \in Events : outbox'[e] = outbox[e]
                        \/ (outbox[e] = NoRow /\ outbox'[e] = [status |-> "pending", attempts |-> 0])
  <2>1. ASSUME NEW e \in Events
        PROVE  outbox'[e] = IF e \in E /\ outbox[e] = NoRow
                            THEN [status |-> "pending", attempts |-> 0] ELSE outbox[e]
    BY DEF Enqueue
  <2> QED  BY ONLY <2>1
<1>2. RowShape'
  BY DEF Enqueue, SendInv, Shape, RowShape, Row
<1> QED  BY <1>1, <1>2 DEF RowsKept, NoRow

\* A step that touches no lease and sends nothing.
LEMMA ElsewhereStep ==
    ASSUME SendInv, OrderShape', RowShape', CountShape', RowsKept,
           UNCHANGED <<worker, chat, accepted>>, faults' >= faults,
           \A e \in Events : outbox'[e] = outbox[e]
                             \/ (outbox[e] = NoRow /\ outbox'[e] = [status |-> "pending", attempts |-> 0])
    PROVE  SendInv'
<1>1. \A w \in Workers : InHand(w)' = InHand(w) /\ ToSend(w)' = ToSend(w) /\ InHand(w) \subseteq Claims
  BY WorkerOf DEF InHand, ToSend, SendInv, Shape
<1>2. LeasesApart'
  BY <1>1 DEF SendInv, LeasesApart, RowsKept, Claims
<1>3. \A e \in Events : Spent(e) \subseteq Spent(e)'
  BY <1>1 DEF Spent, RowsKept
<1>4. SendsCounted'
  BY <1>3, MoreSpent DEF SendsCounted
<1>5. \A e \in Events : FreeRow(e)' => FreeRow(e) \/ outbox'[e].attempts = 0
  <2>1. ASSUME NEW e \in Events, outbox'[e] = outbox[e]
        PROVE  FreeRow(e)' => FreeRow(e)
    BY <1>1, <2>1 DEF FreeRow, IsHeld
  <2> QED  BY <2>1
<1>6. ClaimsOwed'
  BY <1>5, StillOwed
<1> QED  BY <1>2, <1>4, <1>6 DEF SendInv, Shape, ChatShape, WorkerShape

LEMMA Ordering ==
    ASSUME SendInv,
           \/ \E o \in Orders, a \in Admins : ChangeStatus(o, a)
           \/ \E o \in Orders, by \in Admins \cup {Gateway} : ConfirmPayment(o, by)
           \/ \E a \in Admins : Leave(a)
    PROVE  SendInv'
<1>1. CASE \E o \in Orders, a \in Admins : ChangeStatus(o, a)
  <2>1. PICK o \in Orders, a \in Admins : ChangeStatus(o, a)
    BY <1>1
  <2>2. /\ Len(history[o]) < MaxSteps /\ history' = [history EXCEPT ![o] = Append(@, a)]
        /\ \E E : Enqueue(E)
        /\ UNCHANGED <<paidBy, cards, active, listening, blocked, worker, chat, accepted, faults>>
    BY <2>1 DEF ChangeStatus, telegramVars
  <2>3. OrderShape'
    <3> DEFINE longer == Append(history[o], a)
    <3>1. /\ history[o] \in Seq(Admins \cup {Gateway})
          /\ Len(history[o]) \in Nat /\ MaxSteps \in Nat
      BY Values DEF SendInv, Shape, OrderShape
    <3>2. longer \in Seq(Admins \cup {Gateway}) /\ Len(longer) <= MaxSteps
      BY <2>2, <3>1
    <3>3. history' = [history EXCEPT ![o] = longer]
      BY <2>2
    <3> HIDE DEF longer
    <3> QED  BY <2>2, <3>2, <3>3 DEF SendInv, Shape, OrderShape
  <2>4. CountShape' /\ faults' >= faults
    BY <2>2 DEF SendInv, Shape, CountShape
  <2> QED  BY <2>2, <2>3, <2>4, Enqueued, ElsewhereStep
<1>2. CASE \E o \in Orders, by \in Admins \cup {Gateway} : ConfirmPayment(o, by)
  <2>1. PICK o \in Orders, by \in Admins \cup {Gateway} : ConfirmPayment(o, by)
    BY <1>2
  <2>2. /\ paidBy' = [paidBy EXCEPT ![o] = by]
        /\ \/ MaxSteps > 0 /\ history' = [history EXCEPT ![o] = <<Gateway>>]
           \/ history' = history
        /\ \E E : Enqueue(E)
        /\ UNCHANGED <<cards, active, listening, blocked, worker, chat, accepted, faults>>
    BY <2>1 DEF ConfirmPayment, telegramVars
  <2>3. OrderShape'
    <3>1. <<Gateway>> \in Seq(Admins \cup {Gateway}) /\ Len(<<Gateway>>) = 1
      OBVIOUS
    <3>2. MaxSteps > 0 => 1 <= MaxSteps
      BY Values
    <3> QED  BY <2>2, <3>1, <3>2 DEF SendInv, Shape, OrderShape
  <2>4. CountShape' /\ faults' >= faults
    BY <2>2 DEF SendInv, Shape, CountShape
  <2> QED  BY <2>2, <2>3, <2>4, Enqueued, ElsewhereStep
<1>3. CASE \E a \in Admins : Leave(a)
  <2>1. /\ active' \subseteq active /\ listening' \subseteq listening
        /\ faults' \in 0 .. MaxFaults /\ faults' >= faults
        /\ UNCHANGED <<history, paidBy, cards, blocked, outbox, worker, chat, accepted>>
    BY <1>3, Values DEF Leave, Fault, telegramVars, SendInv, Shape, CountShape
  <2>2. OrderShape' /\ CountShape'
    BY <2>1 DEF SendInv, Shape, OrderShape, CountShape
  <2>3. RowShape' /\ RowsKept /\ \A e \in Events : outbox'[e] = outbox[e]
    BY <2>1 DEF SendInv, Shape, RowShape, RowsKept
  <2>4. UNCHANGED <<worker, chat, accepted>> /\ faults' >= faults
    BY <2>1
  <2> QED  BY <2>2, <2>3, <2>4, ElsewhereStep
<1> QED  BY <1>1, <1>2, <1>3

-----------------------------------------------------------------------------
(* Workers. *)

\* Settling changes the row of the claim alone, and only under its lease.
LEMMA Settling ==
    ASSUME SendInv, NEW c \in Claims, NEW s \in {"pending", "sent", "failed"}, Settle(c, s)
    PROVE  /\ RowShape' /\ RowsKept
           /\ \A e \in Events : outbox'[e] = outbox[e]
                                \/ (e = c.event /\ outbox[e].status = "sending"
                                    /\ outbox'[e].status = s)
           /\ outbox[c.event].status = "sending" /\ outbox[c.event].attempts = c.token =>
                outbox'[c.event].status = s
<1> DEFINE lease == [status |-> "sending", attempts |-> c.token]
           settled == [status |-> s, attempts |-> c.token]
<1>1. c.event \in Events /\ c.token \in Nat
  BY DEF Claims
<1>2. CASE outbox[c.event] = lease
  <2>1. outbox' = [outbox EXCEPT ![c.event] = settled]
    <3>1. outbox' = [outbox EXCEPT ![c.event] = [outbox[c.event] EXCEPT !.status = s]]
      BY <1>2, Zenon DEF Settle
    <3>2. [lease EXCEPT !.status = s] = settled
      OBVIOUS
    <3> HIDE DEF lease, settled
    <3> QED  BY <1>2, <3>1, <3>2
  <2>2. settled \in Row /\ settled # NoRow
    BY <1>1 DEF Row, NoRow
  <2>3. settled.status = s /\ settled.attempts = c.token /\ lease.attempts = c.token
        /\ lease.status = "sending"
    OBVIOUS
  <2> HIDE DEF settled, lease
  <2> QED  BY <1>1, <1>2, <2>1, <2>2, <2>3 DEF SendInv, Shape, RowShape, RowsKept
<1>3. CASE outbox[c.event] # lease
  <2>1. outbox' = outbox
    BY <1>3 DEF Settle
  <2>2. ~(outbox[c.event].status = "sending" /\ outbox[c.event].attempts = c.token)
    <3>1. ASSUME NEW r \in Row, r.status = "sending", r.attempts = c.token
          PROVE  r = lease
      BY <3>1 DEF Row
    <3>2. outbox[c.event] \in Row \/ outbox[c.event].status # "sending"
      BY <1>1 DEF SendInv, Shape, RowShape, NoRow
    <3> HIDE DEF lease
    <3> QED  BY <1>3, <3>1, <3>2
  <2> QED  BY <2>1, <2>2 DEF SendInv, Shape, RowShape, RowsKept
<1> QED  BY <1>2, <1>3

\* A worker settles a claim and lets it go.
LEMMA Dropping ==
    ASSUME SendInv, NEW w \in Workers, NEW c \in InHand(w),
           NEW s \in {"pending", "sent", "failed"}, Settle(c, s),
           NEW record \in Between, worker' = [worker EXCEPT ![w] = record],
           record.todo \subseteq worker[w].todo, InHand(w) \ {c} \subseteq record.todo,
           UNCHANGED <<chat, accepted>>, OrderShape', CountShape', faults' >= faults,
           s = "pending" => faults' >= faults + 1
    PROVE  SendInv'
<1>1. /\ RowShape' /\ RowsKept
      /\ \A e \in Events : outbox'[e] = outbox[e]
                           \/ (e = c.event /\ outbox[e].status = "sending"
                               /\ outbox'[e].status = s)
      /\ outbox[c.event].status = "sending" /\ outbox[c.event].attempts = c.token =>
           outbox'[c.event].status = s
  <2>1. c \in Claims
    BY WorkerOf DEF SendInv, Shape
  <2> QED  BY <2>1, Settling
<1>2. record.phase = "waiting"
  BY DEF Between
<1>3. /\ WorkerShape' /\ LeasesApart' /\ SendsCounted' /\ worker'[w] = record
      /\ \A v \in Workers \ {w} : InHand(v)' = InHand(v)
  BY <1>1, <1>2, GoingOn
<1>4. InHand(w)' = record.todo
  BY <1>2, <1>3 DEF InHand
<1>5. ASSUME NEW e \in Events, FreeRow(e)', ~FreeRow(e)
      PROVE  faults' >= faults + 1
  <2>1. CASE outbox'[e].status = s
    BY <2>1, <1>5 DEF FreeRow
  <2>2. CASE outbox'[e] = outbox[e] /\ outbox'[e].status # s
    <3>1. outbox[e].status = "sending" /\ IsHeld(e)
      BY <1>5, <2>2 DEF FreeRow
    <3>2. PICK v \in Workers : \E d \in InHand(v) : d.event = e /\ d.token = outbox[e].attempts
      BY <3>1 DEF IsHeld
    <3>3. PICK d \in InHand(v) : d.event = e /\ d.token = outbox[e].attempts
      BY <3>2
    <3>4. d # c
      BY <1>1, <2>2, <3>1, <3>3
    <3>5. d \in InHand(v)'
      BY <1>3, <1>4, <3>4
    <3>6. IsHeld(e)'
      BY <2>2, <3>3, <3>5 DEF IsHeld
    <3> QED  BY <3>1, <3>6, <2>2, <1>5 DEF FreeRow
  <2> QED  BY <1>1, <2>1, <2>2
<1>6. ClaimsOwed'
  BY <1>1, <1>5, StillOwed
<1> QED  BY <1>1, <1>3, <1>6 DEF SendInv, Shape, ChatShape

\* A worker goes on with a claim it keeps, and sends nothing.
LEMMA Keeping ==
    ASSUME SendInv, NEW w \in Workers, NEW record \in Working,
           worker' = [worker EXCEPT ![w] = record],
           record.todo \cup {record.claim} = InHand(w), record.claim \notin record.todo,
           record.todo \subseteq worker[w].todo,
           record.phase = "rendered" => record.claim \in ToSend(w),
           OrderShape', UNCHANGED <<outbox, faults>>
    PROVE  /\ WorkerShape' /\ LeasesApart' /\ RowShape' /\ RowsKept /\ ClaimsOwed'
           /\ \A v \in Workers : InHand(v)' = InHand(v)
           /\ \A v \in Workers \ {w} : ToSend(v)' = ToSend(v)
           /\ worker'[w] = record
           /\ \A e \in Events : Spent(e) \subseteq Spent(e)'
           /\ accepted' = accepted => SendsCounted'
<1>1. RowShape' /\ RowsKept
  BY DEF SendInv, Shape, RowShape, RowsKept
<1>2. record.phase # "waiting" /\ record.claim \in InHand(w)
  BY DEF Working
<1>3. /\ WorkerShape' /\ LeasesApart' /\ worker'[w] = record
      /\ \A v \in Workers \ {w} : InHand(v)' = InHand(v) /\ ToSend(v)' = ToSend(v)
      /\ \A e \in Events : Spent(e) \subseteq Spent(e)'
      /\ accepted' = accepted => SendsCounted'
  BY <1>1, <1>2, GoingOn
<1>4. \A v \in Workers : InHand(v)' = InHand(v)
  BY <1>2, <1>3 DEF InHand
<1>5. ClaimsOwed'
  BY <1>4 DEF SendInv, ClaimsOwed, FreeRow, IsHeld
<1> QED  BY <1>1, <1>3, <1>4, <1>5

\* Who leaves and what is remembered of customers and cards leaves the rest
\* of the shape alone.
LEMMA SameOrders ==
    ASSUME SendInv, UNCHANGED orderVars
    PROVE  OrderShape'
BY DEF SendInv, Shape, OrderShape, orderVars

LEMMA SameCount ==
    ASSUME SendInv, UNCHANGED <<accepted, faults>>
    PROVE  CountShape' /\ faults' >= faults
BY DEF SendInv, Shape, CountShape

\* Who an event is about, and for.
LEMMA EventOf ==
    ASSUME NEW e \in Events
    PROVE  /\ e.order \in Orders /\ e.to \in Admins \cup {Customer}
           /\ e \in Created \cup StatusCard \cup PaidCard => e.to \in Admins
BY DEF Events, Created, StatusNews, StatusCard, PaidNews, PaidCard

LEMMA FaceShape ==
    ASSUME SendInv, NEW o \in Orders
    PROVE  Face(o) \in Faces
<1>1. Len(history[o]) \in 0 .. MaxSteps
  BY Values DEF SendInv, Shape, OrderShape
<1> QED  BY <1>1 DEF Face, Faces

\* A worker that rests has let its claim go.
LEMMA Resting ==
    ASSUME SendInv, NEW w \in Workers
    PROVE  /\ Rest(w) \in Between /\ Rest(w).todo = worker[w].todo
           /\ worker[w].phase # "waiting" =>
                worker[w].claim \in InHand(w) /\ InHand(w) \ {worker[w].claim} \subseteq worker[w].todo
BY WorkerOf DEF Rest, Between, SendInv, Shape, InHand

LEMMA Rendering ==
    ASSUME SendInv, NEW w \in Workers, Render(w)
    PROVE  SendInv'
<1>1. /\ worker[w].phase = "waiting" /\ worker[w].todo \subseteq Claims
      /\ UNCHANGED <<orderVars, chat, accepted, faults>>
  BY WorkerOf DEF Render, telegramVars, SendInv, Shape
<1>2. OrderShape' /\ CountShape' /\ faults' >= faults
  BY <1>1, SameOrders, SameCount
<1>3. PICK c \in worker[w].todo :
        \/ /\ worker' = [worker EXCEPT ![w] =
                [todo |-> worker[w].todo \ {c}, claim |-> c, phase |-> "rendered",
                 face |-> Face(c.event.order),
                 message |-> IF c.event.to = Customer THEN 0
                             ELSE cards[c.event.order][c.event.to]]]
           /\ UNCHANGED outbox
        \/ /\ worker' = [worker EXCEPT ![w] = [Rest(w) EXCEPT !.todo = worker[w].todo \ {c}]]
           /\ Settle(c, "failed")
  BY <1>1 DEF Render
<1>4. /\ c \in Claims /\ c.event \in Events /\ c.event.order \in Orders
      /\ c.event.to \in Admins \cup {Customer}
      /\ InHand(w) = worker[w].todo /\ c \in InHand(w) /\ c \in ToSend(w)
  BY <1>1, EventOf DEF Claims, InHand, ToSend
<1>5. CASE /\ worker' = [worker EXCEPT ![w] =
                [todo |-> worker[w].todo \ {c}, claim |-> c, phase |-> "rendered",
                 face |-> Face(c.event.order),
                 message |-> IF c.event.to = Customer THEN 0
                             ELSE cards[c.event.order][c.event.to]]]
           /\ UNCHANGED outbox
  <2> DEFINE message == IF c.event.to = Customer THEN 0 ELSE cards[c.event.order][c.event.to]
             record == [todo |-> worker[w].todo \ {c}, claim |-> c, phase |-> "rendered",
                        face |-> Face(c.event.order), message |-> message]
  <2>1. message \in Nat /\ Face(c.event.order) \in Faces
    BY <1>4, FaceShape DEF SendInv, Shape, OrderShape
  <2>2. worker' = [worker EXCEPT ![w] = record]
    BY <1>5
  <2> HIDE DEF message
  <2>3. /\ record \in Working /\ record.todo = worker[w].todo \ {c} /\ record.claim = c
        /\ record.phase = "rendered"
    BY <1>1, <1>4, <2>1 DEF Working
  <2> HIDE DEF record
  <2>4. /\ record.todo \cup {record.claim} = InHand(w) /\ record.claim \notin record.todo
        /\ record.todo \subseteq worker[w].todo /\ record.claim \in ToSend(w)
    BY <1>4, <2>3
  <2>5. UNCHANGED <<outbox, faults>> /\ accepted' = accepted /\ chat' = chat
    BY <1>1, <1>5
  <2>6. /\ WorkerShape' /\ LeasesApart' /\ RowShape' /\ ClaimsOwed' /\ SendsCounted'
    BY <1>2, <2>2, <2>3, <2>4, <2>5, Keeping
  <2> QED  BY <1>2, <2>5, <2>6 DEF SendInv, Shape, ChatShape
<1>6. CASE /\ worker' = [worker EXCEPT ![w] = [Rest(w) EXCEPT !.todo = worker[w].todo \ {c}]]
           /\ Settle(c, "failed")
  <2> DEFINE record == [Rest(w) EXCEPT !.todo = worker[w].todo \ {c}]
  <2>1. record \in Between /\ record.todo = worker[w].todo \ {c}
    BY <1>1 DEF Rest, Between
  <2>2. worker' = [worker EXCEPT ![w] = record]
    BY <1>6
  <2> HIDE DEF record
  <2>3. record.todo \subseteq worker[w].todo /\ InHand(w) \ {c} \subseteq record.todo
    BY <1>4, <2>1
  <2>4. UNCHANGED <<chat, accepted>>
    BY <1>1
  <2> QED  BY <1>2, <1>4, <1>6, <2>1, <2>2, <2>3, <2>4, Dropping
<1> QED  BY <1>3, <1>5, <1>6

\* A claim is settled without a fault, or with one.
LEMMA Ending ==
    ASSUME SendInv, NEW w \in Workers, Acknowledge(w) \/ Unmodified(w) \/ Trouble(w)
    PROVE  SendInv'
<1> DEFINE c == worker[w].claim
<1>1. /\ worker[w].phase # "waiting" /\ c \in InHand(w) /\ c \in Claims
      /\ Rest(w) \in Between /\ Rest(w).todo = worker[w].todo
      /\ InHand(w) \ {c} \subseteq Rest(w).todo
  BY Resting, WorkerOf DEF Acknowledge, Unmodified, Trouble, SendInv, Shape
<1>2. worker' = [worker EXCEPT ![w] = Rest(w)] /\ UNCHANGED <<chat, accepted>>
  BY DEF Acknowledge, Unmodified, Trouble, telegramVars
<1>3. CASE Acknowledge(w) \/ Unmodified(w)
  <2>1. UNCHANGED orderVars /\ UNCHANGED <<accepted, faults>>
        /\ \E s \in {"sent", "failed"} : Settle(c, s)
    BY <1>3 DEF Acknowledge, Unmodified, telegramVars
  <2>2. OrderShape' /\ CountShape' /\ faults' >= faults
    BY <2>1, SameOrders, SameCount
  <2> HIDE DEF c
  <2> QED  BY <1>1, <1>2, <2>1, <2>2, Dropping
<1>4. CASE Trouble(w)
  <2>1. /\ \E s \in {"pending", "failed"} : Settle(c, s)
        /\ blocked' = blocked \/ blocked' = blocked \cup {c.event.order}
        /\ Fault(1) /\ UNCHANGED <<history, paidBy, cards, active, listening>>
    BY <1>4 DEF Trouble
  <2>2. c.event.order \in Orders
    BY <1>1, EventOf DEF Claims
  <2>3. OrderShape'
    <3> HIDE DEF c
    <3> QED  BY <2>1, <2>2 DEF SendInv, Shape, OrderShape
  <2>4. CountShape' /\ faults' >= faults /\ faults' >= faults + 1
    BY <1>2, <2>1, Values DEF Fault, SendInv, Shape, CountShape
  <2> HIDE DEF c
  <2>5. PICK s \in {"pending", "failed"} : Settle(c, s)
    BY <2>1
  <2>6. s \in {"pending", "sent", "failed"} /\ faults' >= faults
    BY <2>4
  <2>7. s = "pending" => faults' >= faults + 1
    BY <2>4
  <2> QED  BY <1>1, <1>2, <2>3, <2>4, <2>5, <2>6, <2>7, Dropping
<1> QED  BY <1>3, <1>4

\* The message id of a first card is saved.
LEMMA Saving ==
    ASSUME SendInv, NEW w \in Workers, SaveMessageId(w)
    PROVE  SendInv'
<1> DEFINE record == [worker[w] EXCEPT !.phase = "saved"]
<1>1. /\ worker[w].phase = "posted" /\ worker[w] \in Working /\ worker[w].message \in Nat
      /\ UNCHANGED <<history, paidBy, active, listening, blocked, outbox, chat, accepted, faults>>
      /\ worker' = [worker EXCEPT ![w] = record]
  BY WorkerOf DEF SaveMessageId, telegramVars, SendInv, Shape, Working
<1>2. /\ record \in Working /\ record.todo = worker[w].todo /\ record.claim = worker[w].claim
      /\ record.phase = "saved"
  BY <1>1 DEF Working
<1> HIDE DEF record
<1>3. /\ record.todo \cup {record.claim} = InHand(w) /\ record.claim \notin record.todo
      /\ record.todo \subseteq worker[w].todo
  BY <1>1, <1>2 DEF InHand, SendInv, LeasesApart
<1>4. OrderShape'
  <2>1. cards' \in [Orders -> [Admins -> Nat]]
    BY <1>1 DEF SaveMessageId, SendInv, Shape, OrderShape
  <2> QED  BY <1>1, <2>1 DEF SendInv, Shape, OrderShape
<1>5. CountShape'
  BY <1>1, SameCount
<1>6. /\ WorkerShape' /\ LeasesApart' /\ RowShape' /\ ClaimsOwed' /\ SendsCounted'
  BY <1>1, <1>2, <1>3, <1>4, Keeping
<1> QED  BY <1>1, <1>4, <1>5, <1>6 DEF SendInv, Shape, ChatShape

\* A process stops: what it had in hand is free again, by a fault.
LEMMA Stopping ==
    ASSUME SendInv, NEW w \in Workers, Stop(w)
    PROVE  SendInv'
<1>1. /\ worker' = [worker EXCEPT ![w] = Waiting]
      /\ Fault(1) /\ UNCHANGED <<orderVars, outbox, chat, accepted>>
  BY DEF Stop, telegramVars
<1>2. OrderShape' /\ CountShape' /\ faults' >= faults /\ faults' >= faults + 1
  BY <1>1, SameOrders, Values DEF Fault, SendInv, Shape, CountShape
<1>3. Waiting \in Between /\ Waiting.todo = {} /\ Waiting.phase = "waiting"
  BY DEF Waiting, Between
<1>4. RowShape' /\ RowsKept
  BY <1>1 DEF SendInv, Shape, RowShape, RowsKept
<1>5. WorkerShape' /\ LeasesApart' /\ SendsCounted'
  BY <1>1, <1>3, <1>4, GoingOn
<1>6. ClaimsOwed'
  BY <1>2, <1>4, StillOwed
<1> QED  BY <1>1, <1>2, <1>4, <1>5, <1>6 DEF SendInv, Shape, ChatShape

LEMMA Edited ==
    ASSUME NEW S, NEW seq \in Seq(S), NEW i \in 1 .. Len(seq), NEW x \in S
    PROVE  [seq EXCEPT ![i] = x] \in Seq(S)
BY ExceptSeq

\* An edit of a card, of a message that is there or not, keeps the chat's
\* shape, and changes nothing but what that card shows.
LEMMA EditShape ==
    ASSUME chat \in Seq(Cards), NEW i, NEW face \in Faces, NEW asks \in BOOLEAN,
           chat' = [chat EXCEPT ![i].face = face, ![i].asks = asks]
    PROVE  /\ chat' \in Seq(Cards) /\ DOMAIN chat' = DOMAIN chat
           /\ \A j \in DOMAIN chat : /\ chat'[j].order = chat[j].order
                                    /\ chat'[j].face = IF j = i THEN face ELSE chat[j].face
<1> DEFINE card == [chat[i] EXCEPT !.face = face, !.asks = asks]
<1>1. DOMAIN chat = 1 .. Len(chat) /\ Len(chat) \in Nat
  OBVIOUS
<1>2. CASE i \in DOMAIN chat
  <2>1. chat[i] \in Cards
    BY <1>1, <1>2, ElementOfSeq
  <2>2. card \in Cards /\ card.order = chat[i].order /\ card.face = face
    BY <2>1 DEF Cards
  <2>3. chat' = [chat EXCEPT ![i] = card]
    BY <1>2
  <2> HIDE DEF card
  <2>4. [chat EXCEPT ![i] = card] \in Seq(Cards)
    BY <1>1, <1>2, <2>2, Edited, Zenon
  <2> QED  BY <1>1, <1>2, <2>2, <2>3, <2>4
<1>3. CASE i \notin DOMAIN chat
  <2>1. chat' = chat
    BY <1>1, <1>3
  <2> QED  BY <1>3, <2>1
<1> QED  BY <1>2, <1>3

\* A message is accepted: its lease has not sent before, and never will again.
LEMMA Posting ==
    ASSUME SendInv, NEW w \in Workers, Post(w)
    PROVE  SendInv'
<1>0. PICK c \in Claims, e \in Events : c = worker[w].claim /\ e = c.event
  BY WorkerOf DEF Post, SendInv, Shape, Claims
<1> DEFINE card == [order |-> e.order, to |-> e.to, face |-> worker[w].face, asks |-> FALSE]
<1>1. /\ worker[w].phase = "rendered" /\ worker[w] \in Working
      /\ UNCHANGED orderVars /\ UNCHANGED <<outbox, faults>>
      /\ accepted' = [accepted EXCEPT ![e] = @ + 1]
  BY <1>0, WorkerOf DEF Post, SendInv, Shape
<1>2. /\ c \in Claims /\ e \in Events /\ c.token \in Nat \ {0}
      /\ c = [event |-> e, token |-> c.token]
      /\ c \in InHand(w) /\ c \in ToSend(w) /\ c \notin worker[w].todo
  BY <1>0, <1>1, WorkerOf DEF SendInv, Shape, LeasesApart, InHand, ToSend, Claims
<1>3. PICK record :
        /\ record \in Working /\ record.todo = worker[w].todo /\ record.claim = c
        /\ record.phase # "rendered" /\ worker' = [worker EXCEPT ![w] = record]
  <2>1. CASE worker' = [worker EXCEPT ![w].phase = "posted", ![w].message = Len(chat) + 1]
    <3> DEFINE record == [worker[w] EXCEPT !.phase = "posted", !.message = Len(chat) + 1]
    <3>1. Len(chat) + 1 \in Nat
      BY DEF SendInv, Shape, ChatShape
    <3>2. /\ record \in Working /\ record.todo = worker[w].todo /\ record.claim = c
          /\ record.phase = "posted"
      BY <1>0, <1>1, <3>1 DEF Working
    <3>3. worker' = [worker EXCEPT ![w] = record]
      BY <2>1
    <3> HIDE DEF record
    <3> QED  BY <3>2, <3>3
  <2>2. CASE worker' = [worker EXCEPT ![w].phase = "saved"]
    <3> DEFINE record == [worker[w] EXCEPT !.phase = "saved"]
    <3>1. /\ record \in Working /\ record.todo = worker[w].todo /\ record.claim = c
          /\ record.phase = "saved"
      BY <1>0, <1>1 DEF Working
    <3>2. worker' = [worker EXCEPT ![w] = record]
      BY <2>2
    <3> HIDE DEF record
    <3> QED  BY <3>1, <3>2
  <2> QED  BY <2>1, <2>2 DEF Post
<1>4. /\ record.todo \cup {record.claim} = InHand(w) /\ record.claim \notin record.todo
      /\ record.todo \subseteq worker[w].todo
  BY <1>1, <1>2, <1>3 DEF InHand
<1>5. OrderShape'
  BY <1>1, SameOrders
<1>6. /\ WorkerShape' /\ LeasesApart' /\ RowShape' /\ RowsKept /\ ClaimsOwed'
      /\ \A v \in Workers : InHand(v)' = InHand(v)
      /\ \A v \in Workers \ {w} : ToSend(v)' = ToSend(v)
      /\ worker'[w] = record
      /\ \A d \in Events : Spent(d) \subseteq Spent(d)'
  BY <1>1, <1>3, <1>4, <1>5, Keeping
<1>7. ChatShape'
  <2>1. \/ e \in Created /\ chat' = Append(chat, card)
        \/ e \in StatusCard \cup PaidCard /\ Edit(w, worker[w].message)
        \/ chat' = chat
    BY <1>0 DEF Post
  <2>2. chat \in Seq(Cards) /\ worker[w].face \in Faces
    BY <1>1 DEF SendInv, Shape, ChatShape, Working
  <2>3. CASE e \in Created /\ chat' = Append(chat, card)
    <3>1. card \in Cards
      BY <1>2, <2>2, <2>3, EventOf DEF Cards
    <3> HIDE DEF card
    <3> QED  BY <2>2, <2>3, <3>1 DEF ChatShape
  <2>4. CASE Edit(w, worker[w].message)
    BY <2>2, <2>4, EditShape DEF Edit, FaceOf, ChatShape
  <2> QED  BY <2>1, <2>2, <2>3, <2>4 DEF ChatShape
<1> HIDE DEF card
<1>8. /\ CountShape' /\ accepted'[e] = accepted[e] + 1
      /\ \A d \in Events \ {e} : accepted'[d] = accepted[d]
  BY <1>1, <1>2 DEF SendInv, Shape, CountShape
<1>9. accepted'[e] <= Cardinality(Spent(e)')
  <2>1. c.token \in Spent(e)' /\ c.token \notin Spent(e)
    <3>1. c.token \in 1 .. outbox[e].attempts
      BY <1>2, RowOf DEF SendInv, Shape, LeasesApart
    <3>2. \A v \in Workers : c \notin ToSend(v)'
      <4>1. ASSUME NEW v \in Workers \ {w}
            PROVE  c \notin ToSend(v)'
        <5>1. c \notin InHand(v)
          BY <1>2 DEF SendInv, LeasesApart
        <5> QED  BY <5>1, <1>6 DEF InHand, ToSend
      <4>2. c \notin ToSend(w)'
        BY <1>2, <1>3, <1>6 DEF ToSend
      <4> QED  BY <4>1, <4>2
    <3>3. outbox' = outbox
      BY <1>1
    <3> QED  BY <1>2, <3>1, <3>2, <3>3 DEF Spent
  <2>2. IsFiniteSet(Spent(e)')
    <3>1. outbox[e].attempts \in Nat /\ outbox' = outbox
      BY <1>1, <1>2, RowOf DEF SendInv, Shape
    <3>2. Spent(e)' \subseteq 1 .. outbox[e].attempts
      BY <3>1 DEF Spent
    <3> QED  BY <3>1, <3>2, UpTo, FS_Subset
  <2>3. Spent(e) \cup {c.token} \subseteq Spent(e)'
    BY <1>2, <1>6, <2>1
  <2>4. /\ IsFiniteSet(Spent(e)) /\ Cardinality(Spent(e)) \in Nat
        /\ accepted[e] <= Cardinality(Spent(e)) /\ accepted[e] \in Nat
    BY <1>2, SpentFinite DEF SendInv, Shape, CountShape, SendsCounted
  <2>5. Cardinality(Spent(e) \cup {c.token}) = Cardinality(Spent(e)) + 1
    BY <2>1, <2>4, FS_AddElement
  <2>6. /\ Cardinality(Spent(e) \cup {c.token}) <= Cardinality(Spent(e)')
        /\ Cardinality(Spent(e)') \in Nat
    BY <2>2, <2>3, FS_Subset, FS_CardinalityType
  <2> QED  BY <1>8, <2>4, <2>5, <2>6
<1>10. SendsCounted'
  <2>1. ASSUME NEW d \in Events, d # e
        PROVE  accepted'[d] <= Cardinality(Spent(d)')
    <3> QED  BY <1>6, <1>8, <2>1, MoreSpent
  <2> QED  BY <1>9, <2>1 DEF SendsCounted
<1> QED  BY <1>5, <1>6, <1>7, <1>8, <1>10 DEF SendInv, Shape

\* A batch: every claim has the next token of its row.  A row that was free is
\* held now; one whose lease ran out early is claimed again by a fault.
LEMMA Claiming ==
    ASSUME SendInv, NEW w \in Workers, ClaimBatch(w)
    PROVE  SendInv'
<1> DEFINE Given(batch) == {[event |-> e, token |-> outbox[e].attempts + 1] : e \in batch}
           Leased(batch) == [e \in Events |->
                              IF e \in batch
                              THEN [status |-> "sending", attempts |-> outbox[e].attempts + 1]
                              ELSE outbox[e]]
<1>1. PICK late \in SUBSET Overdue, batch \in SUBSET Events :
        /\ batch \subseteq Pending \cup Abandoned \cup late
        /\ late \subseteq batch /\ Fault(Cardinality(late))
        /\ outbox' = Leased(batch)
        /\ worker' = [worker EXCEPT ![w].todo = Given(batch)]
  <2>1. PICK late \in SUBSET Overdue : \E batch \in SUBSET (Pending \cup Abandoned \cup late) :
          /\ late \subseteq batch /\ Fault(Cardinality(late))
          /\ outbox' = Leased(batch)
          /\ worker' = [worker EXCEPT ![w].todo = Given(batch)]
    BY Zenon DEF ClaimBatch
  <2> HIDE DEF Leased, Given
  <2>2. Pending \cup Abandoned \cup late \subseteq Events
    BY DEF Pending, Abandoned, Overdue, Rows
  <2> QED  BY <2>1, <2>2
<1>2. worker[w] = Waiting /\ UNCHANGED <<orderVars, chat, accepted>>
  BY DEF ClaimBatch, telegramVars
<1>3. faults' \in Nat /\ faults' \in 0 .. MaxFaults /\ faults' >= faults
      /\ \A e \in late : faults' >= faults + 1
  <2>1. IsFiniteSet(late)
    BY Table, FS_Subset DEF Overdue, Rows
  <2>2. Cardinality(late) \in Nat /\ (late # {} => Cardinality(late) >= 1)
    <3>1. Cardinality(late) \in Nat /\ (Cardinality(late) = 0 <=> late = {})
      BY <2>1, FS_CardinalityType, FS_EmptySet
    <3> QED  BY <3>1
  <2>3. faults' = faults + Cardinality(late) /\ faults + Cardinality(late) <= MaxFaults
        /\ faults \in Nat
    BY <1>1 DEF Fault, SendInv, Shape, CountShape
  <2>4. faults' \in 0 .. MaxFaults /\ faults' >= faults /\ faults' \in Nat
    BY <2>2, <2>3, Values
  <2> QED  BY <2>2, <2>3, <2>4
<1>4. \A e \in batch : FreeRow(e) \/ e \in late
  <2>1. ASSUME NEW e \in Abandoned
        PROVE  FreeRow(e)
    BY <2>1, HeldIs DEF Abandoned, Rows, FreeRow, SendInv, Shape
  <2>2. ASSUME NEW e \in Pending
        PROVE  FreeRow(e)
    BY <2>2 DEF Pending, FreeRow
  <2> HIDE DEF Leased, Given
  <2> QED  BY <1>1, <2>1, <2>2
<1>5. /\ \A e \in Events : /\ outbox[e].attempts \in Nat
                           /\ e \in batch => /\ outbox[e] # NoRow /\ outbox'[e] # NoRow
                                             /\ outbox'[e].attempts = outbox[e].attempts + 1
                           /\ e \notin batch => outbox'[e] = outbox[e]
      /\ RowShape'
  <2>1. \A e \in batch : outbox[e] # NoRow
    <3>1. \A e \in Overdue : outbox[e] # NoRow
      BY DEF Overdue, Rows
    <3> HIDE DEF Leased, Given
    <3> QED  BY <1>1, <1>4, <3>1 DEF FreeRow, NoRow
  <2>2. \A e \in Events : outbox[e].attempts \in Nat
    BY RowOf DEF SendInv, Shape
  <2>3. \A e \in Events : outbox'[e] = IF e \in batch
                              THEN [status |-> "sending", attempts |-> outbox[e].attempts + 1]
                              ELSE outbox[e]
    BY <1>1
  <2>4. RowShape'
    BY <1>1, <2>2 DEF SendInv, Shape, RowShape, Row
  <2>5. \A e \in batch : outbox'[e] # NoRow /\ outbox'[e].attempts = outbox[e].attempts + 1
    <3>1. batch \subseteq Events
      BY <1>1
    <3> HIDE DEF Leased, Given
    <3>2. ASSUME NEW e \in batch
          PROVE  outbox'[e] = [status |-> "sending", attempts |-> outbox[e].attempts + 1]
      <4>1. e \in Events
        BY <3>1, <3>2
      <4> QED  BY <2>3, <3>2, <4>1, Zenon
    <3>3. ASSUME NEW e \in batch
          PROVE  outbox'[e].status = "sending" /\ outbox'[e].attempts = outbox[e].attempts + 1
      <4>1. outbox'[e] = [status |-> "sending", attempts |-> outbox[e].attempts + 1]
        BY <3>2, <3>3, Zenon
      <4> QED  BY ONLY <4>1
    <3> QED  BY <3>3 DEF NoRow
  <2>6. \A e \in Events : e \notin batch => outbox'[e] = outbox[e]
    BY <2>3
  <2> HIDE DEF Leased, Given
  <2> QED  BY <2>1, <2>2, <2>4, <2>5, <2>6
<1> HIDE DEF Leased
<1>6. /\ Given(batch) \subseteq Claims
      /\ \A c \in Given(batch) : /\ c.event \in batch /\ c.token = outbox[c.event].attempts + 1
      /\ \A e \in batch : \E c \in Given(batch) : c.event = e /\ c.token = outbox[e].attempts + 1
  <2>1. \A e \in batch : e \in Events /\ outbox[e].attempts + 1 \in Nat \ {0}
    BY <1>1, <1>5
  <2>2. \A e \in batch : [event |-> e, token |-> outbox[e].attempts + 1] \in Claims
    BY <2>1 DEF Claims
  <2>3. \A c \in Given(batch) : \E e \in batch :
          c = [event |-> e, token |-> outbox[e].attempts + 1]
    OBVIOUS
  <2>4. \A e \in batch : [event |-> e, token |-> outbox[e].attempts + 1] \in Given(batch)
    OBVIOUS
  <2> HIDE DEF Given
  <2>5. Given(batch) \subseteq Claims
    BY <2>2, <2>3
  <2>6. \A c \in Given(batch) : c.event \in batch /\ c.token = outbox[c.event].attempts + 1
    BY <2>3
  <2>7. \A e \in batch : \E c \in Given(batch) : c.event = e /\ c.token = outbox[e].attempts + 1
    BY <2>4
  <2> QED  BY <2>5, <2>6, <2>7
<1> HIDE DEF Given
<1>7. /\ WorkerShape' /\ \A v \in Workers \ {w} : worker'[v] = worker[v]
      /\ worker'[w].phase = "waiting" /\ worker'[w].todo = Given(batch)
      /\ worker[w].phase = "waiting" /\ worker[w].todo = {}
  BY <1>1, <1>2, <1>6 DEF SendInv, Shape, WorkerShape, Waiting, Between
<1>8. /\ InHand(w)' = Given(batch) /\ ToSend(w)' = Given(batch) /\ InHand(w) = {}
      /\ \A v \in Workers \ {w} : InHand(v)' = InHand(v) /\ ToSend(v)' = ToSend(v)
  BY <1>7 DEF InHand, ToSend
<1>9. \A v \in Workers : \A c \in InHand(v) :
        /\ c.event \in Events /\ c.token \in Nat
        /\ outbox[c.event] # NoRow /\ c.token <= outbox[c.event].attempts
  BY WorkerOf DEF SendInv, Shape, LeasesApart, Claims
<1>10. LeasesApart'
  <2>1. ASSUME NEW v \in Workers, NEW c \in InHand(v)'
        PROVE  outbox'[c.event] # NoRow /\ c.token <= outbox'[c.event].attempts
    <3>1. CASE v = w
      BY <3>1, <1>5, <1>6, <1>8
    <3>2. CASE v # w
      BY <3>2, <1>5, <1>8, <1>9
    <3> QED  BY <3>1, <3>2
  <2>2. ASSUME NEW v \in Workers \ {w}, NEW c \in InHand(v)
        PROVE  c \notin Given(batch)
    BY <1>5, <1>6, <1>9
  <2>3. \A v, x \in Workers : \A c \in InHand(v)' : c \in InHand(x)' => v = x
    BY <2>2, <1>8 DEF SendInv, LeasesApart
  <2>4. \A v \in Workers : worker'[v].phase # "waiting" => worker'[v].claim \notin worker'[v].todo
    BY <1>7 DEF SendInv, LeasesApart
  <2> QED  BY <2>1, <2>3, <2>4 DEF LeasesApart
<1>11. SendsCounted'
  <2>1. ASSUME NEW e \in Events, NEW n \in Spent(e)
        PROVE  n \in Spent(e)'
    <3>1. n \in 1 .. outbox'[e].attempts /\ n # outbox[e].attempts + 1
      BY <1>5 DEF Spent
    <3>2. \A v \in Workers \ {w} : [event |-> e, token |-> n] \notin ToSend(v)'
      BY <1>8 DEF Spent
    <3>3. [event |-> e, token |-> n] \notin ToSend(w)'
      BY <3>1, <1>6, <1>8
    <3> QED  BY <3>1, <3>2, <3>3 DEF Spent
  <2>2. accepted' = accepted
    BY <1>2
  <2> QED  BY <2>1, <2>2, <1>5, MoreSpent DEF SendsCounted
<1>12. ClaimsOwed'
  <2>1. ASSUME NEW e \in Events, e \in batch
        PROVE  ~FreeRow(e)' /\ outbox'[e].attempts <= 1 + faults'
    <3>1. IsHeld(e)' /\ outbox'[e].status = "sending"
      <4>1. \E c \in InHand(w)' : c.event = e /\ c.token = outbox'[e].attempts
        BY <1>5, <1>6, <1>8, <2>1
      <4>2. outbox'[e].status = "sending"
        BY <1>1, <2>1 DEF Leased
      <4> QED  BY <4>1, <4>2 DEF IsHeld
    <3>2. outbox[e].attempts \in Nat /\ outbox'[e].attempts = outbox[e].attempts + 1
          /\ outbox[e].attempts <= 1 + faults /\ faults \in Nat
      BY <1>5, <2>1 DEF SendInv, ClaimsOwed, Shape, CountShape
    <3>3. outbox[e].attempts <= faults \/ faults' >= faults + 1
      BY <1>3, <1>4, <2>1 DEF SendInv, ClaimsOwed
    <3>4. outbox'[e].attempts <= 1 + faults'
      BY <1>3, <3>2, <3>3
    <3> QED  BY <3>1, <3>4 DEF FreeRow
  <2>2. ASSUME NEW e \in Events, e \notin batch
        PROVE  /\ outbox'[e].attempts <= 1 + faults'
               /\ FreeRow(e)' => outbox'[e].attempts <= faults'
    <3>1. FreeRow(e)' => FreeRow(e)
      <4>1. outbox'[e] = outbox[e]
        BY <1>5, <2>2
      <4>2. IsHeld(e) => IsHeld(e)'
        BY <4>1, <1>8 DEF IsHeld
      <4> QED  BY <4>1, <4>2 DEF FreeRow
    <3>2. FreeRow(e) => outbox[e].attempts <= faults
      BY DEF SendInv, ClaimsOwed
    <3>3. outbox'[e] = outbox[e] /\ outbox[e].attempts \in Nat /\ faults \in Nat
          /\ outbox[e].attempts <= 1 + faults
      BY <1>5, <2>2 DEF SendInv, ClaimsOwed, Shape, CountShape
    <3>4. outbox'[e].attempts <= 1 + faults'
      BY <1>3, <3>3
    <3>5. outbox[e].attempts <= faults => outbox'[e].attempts <= faults'
      BY <1>3, <3>3
    <3> QED  BY <3>1, <3>2, <3>4, <3>5
  <2> QED  BY <2>1, <2>2 DEF ClaimsOwed
<1>13. OrderShape' /\ CountShape' /\ ChatShape'
  BY <1>2, <1>3, SameOrders DEF SendInv, Shape, CountShape, ChatShape
<1> QED  BY <1>5, <1>7, <1>10, <1>11, <1>12, <1>13 DEF SendInv, Shape

-----------------------------------------------------------------------------
(* The buttons under a card. *)

LEMMA FaceOfHand ==
    ASSUME HandInv, NEW h \in Handlers, hand[h] # NoEdit
    PROVE  FaceOf(h) = hand[h].face /\ FaceOf(h) \in Faces /\ hand[h].card \in DOMAIN chat
BY Values DEF HandInv, HandEdits, FaceOf

LEMMA Buttons ==
    ASSUME SendInv, HandInv,
           \/ \E h \in Handlers, i \in DOMAIN chat : BackToOrder(h, i) \/ AskForText(h, i)
           \/ \E h \in Handlers : RenderOrderCard(h)
    PROVE  SendInv'
<1>1. UNCHANGED orderVars /\ UNCHANGED <<outbox, worker, accepted, faults>>
  BY DEF BackToOrder, AskForText, RenderOrderCard, telegramVars
<1>2. ChatShape'
  <2>1. chat \in Seq(Cards)
    BY DEF SendInv, Shape, ChatShape
  <2>2. ASSUME NEW h \in Handlers, NEW i \in DOMAIN chat, AskForText(h, i)
        PROVE  ChatShape'
    <3>1. chat[i] \in Cards /\ chat' = [chat EXCEPT ![i].asks = TRUE]
      BY <2>1, <2>2, ElementOfSeq DEF AskForText
    <3>2. chat' = [chat EXCEPT ![i].face = chat[i].face, ![i].asks = TRUE]
      BY <3>1 DEF Cards
    <3> QED  BY <2>1, <3>1, <3>2, EditShape DEF Cards, ChatShape
  <2>3. ASSUME NEW h \in Handlers, RenderOrderCard(h)
        PROVE  ChatShape'
    BY <2>1, <2>3, FaceOfHand, EditShape DEF RenderOrderCard, Edit, ChatShape
  <2>4. ASSUME UNCHANGED chat
        PROVE  ChatShape'
    BY <2>1, <2>4 DEF ChatShape
  <2> QED  BY <2>2, <2>3, <2>4 DEF BackToOrder, telegramVars
<1>3. OrderShape' /\ CountShape' /\ RowShape' /\ WorkerShape'
  BY <1>1, SameOrders, SameCount DEF SendInv, Shape, RowShape, WorkerShape
<1>4. \A w \in Workers : InHand(w)' = InHand(w) /\ ToSend(w)' = ToSend(w)
  BY <1>1 DEF InHand, ToSend
<1>5. LeasesApart'
  BY <1>1, <1>4 DEF SendInv, LeasesApart
<1>6. SendsCounted'
  BY <1>1, <1>4 DEF SendInv, SendsCounted, Spent
<1>7. ClaimsOwed'
  BY <1>1, <1>4 DEF SendInv, ClaimsOwed, FreeRow, IsHeld
<1> QED  BY <1>2, <1>3, <1>5, <1>6, <1>7 DEF SendInv, Shape

-----------------------------------------------------------------------------
(* The theorems. *)

LEMMA SendNext == SendInv /\ HandInv /\ [Next]_vars => SendInv'
<1> SUFFICES ASSUME SendInv, HandInv, [Next]_vars PROVE SendInv'
  OBVIOUS
<1>1. CASE \/ \E o \in Orders, a \in Admins : ChangeStatus(o, a)
           \/ \E o \in Orders, by \in Admins \cup {Gateway} : ConfirmPayment(o, by)
           \/ \E a \in Admins : Leave(a)
  BY <1>1, Ordering
<1>2. CASE \E w \in Workers : Deliver(w) \/ Unmodified(w) \/ Trouble(w) \/ Stop(w)
  BY <1>2, Claiming, Rendering, Posting, Saving, Ending, Stopping DEF Deliver
<1>3. CASE UNCHANGED vars
  <2>1. UNCHANGED orderVars /\ UNCHANGED <<outbox, worker, chat, accepted, faults>>
    BY <1>3 DEF vars, orderVars
  <2>2. OrderShape' /\ CountShape' /\ faults' >= faults
    BY <2>1, SameOrders, SameCount
  <2>3. RowShape' /\ RowsKept /\ \A e \in Events : outbox'[e] = outbox[e]
    BY <2>1 DEF SendInv, Shape, RowShape, RowsKept
  <2> QED  BY <2>1, <2>2, <2>3, ElsewhereStep
<1>4. CASE \/ \E h \in Handlers, i \in DOMAIN chat : BackToOrder(h, i) \/ AskForText(h, i)
           \/ \E h \in Handlers : RenderOrderCard(h)
  BY <1>4, Buttons
<1> QED  BY <1>1, <1>2, <1>3, <1>4 DEF Next

LEMMA HandNext == SendInv /\ HandInv /\ [Next]_vars => HandInv'
<1> SUFFICES ASSUME SendInv, HandInv, [Next]_vars PROVE HandInv'
  OBVIOUS
<1>1. chat \in Seq(Cards) /\ DOMAIN chat = 1 .. Len(chat) /\ Len(chat) \in Nat
  BY DEF SendInv, Shape, ChatShape
<1>2. ASSUME UNCHANGED hand, DOMAIN chat \subseteq DOMAIN chat',
             overtaken' \in SUBSET (Workers \cup Handlers)
      PROVE  HandInv'
  BY <1>2 DEF HandInv
<1>3. \A i : Editing(i) \subseteq Workers \cup Handlers
  BY DEF Editing
<1>4. CASE \/ \E o \in Orders : \E a \in Admins : ChangeStatus(o, a)
           \/ \E o \in Orders : \E by \in Admins \cup {Gateway} : ConfirmPayment(o, by)
           \/ \E a \in Admins : Leave(a)
           \/ UNCHANGED vars
  <2>1. UNCHANGED <<chat, hand, overtaken>>
    BY <1>4 DEF ChangeStatus, ConfirmPayment, Leave, telegramVars, handVars, vars
  <2> QED  BY <1>2, <2>1 DEF HandInv
<1>5. ASSUME NEW w \in Workers, Deliver(w) \/ Unmodified(w) \/ Trouble(w) \/ Stop(w), ~Post(w)
      PROVE  HandInv'
  <2>1. UNCHANGED <<chat, hand>> /\ overtaken' \subseteq overtaken
    BY <1>5 DEF Deliver, ClaimBatch, Render, SaveMessageId, Acknowledge, Unmodified, Trouble,
       Stop, telegramVars, handVars
  <2> QED  BY <1>2, <2>1 DEF HandInv
<1>6. ASSUME NEW w \in Workers, Post(w)
      PROVE  HandInv'
  <2>1. worker[w] \in Working /\ worker[w].face \in Faces
    BY <1>6, WorkerOf DEF Post, SendInv, Shape, Working
  <2>2. /\ UNCHANGED hand
        /\ \/ UNCHANGED overtaken /\ \E card : chat' = Append(chat, card)
           \/ Edit(w, worker[w].message)
           \/ UNCHANGED <<chat, overtaken>>
    BY <1>6 DEF Post
  <2>3. CASE UNCHANGED overtaken /\ \E card : chat' = Append(chat, card)
    <3>1. DOMAIN chat \subseteq DOMAIN chat'
      BY <1>1, <2>3
    <3> QED  BY <1>2, <2>2, <2>3, <3>1 DEF HandInv
  <2>4. CASE Edit(w, worker[w].message)
    <3>1. DOMAIN chat' = DOMAIN chat
      BY <1>1, <2>1, <2>4, EditShape DEF Edit, FaceOf
    <3>2. overtaken' \in SUBSET (Workers \cup Handlers)
      BY <1>3, <2>4 DEF Edit, HandInv
    <3> QED  BY <1>2, <2>2, <3>1, <3>2
  <2>5. CASE UNCHANGED <<chat, overtaken>>
    BY <1>2, <2>2, <2>5 DEF HandInv
  <2> QED  BY <2>2, <2>3, <2>4, <2>5
<1>7. ASSUME NEW h \in Handlers, NEW i \in DOMAIN chat, BackToOrder(h, i)
      PROVE  HandInv'
  <2> DEFINE edit == [card |-> i, face |-> Face(chat[i].order)]
  <2>1. chat[i] \in Cards
    BY <1>1, ElementOfSeq
  <2>2. Face(chat[i].order) \in Faces
    BY <2>1, FaceShape DEF Cards
  <2>3. edit \in HandEdits /\ edit.card = i
    BY <1>1, <2>2 DEF HandEdits
  <2>4. /\ hand' = [hand EXCEPT ![h] = edit] /\ UNCHANGED chat
        /\ overtaken' \subseteq overtaken
    BY <1>7 DEF BackToOrder, telegramVars
  <2> HIDE DEF edit
  <2> QED  BY <2>3, <2>4 DEF HandInv
<1>8. ASSUME NEW h \in Handlers, RenderOrderCard(h)
      PROVE  HandInv'
  <2>1. /\ hand' = [hand EXCEPT ![h] = NoEdit] /\ hand[h] \in HandEdits
        /\ Edit(h, hand[h].card) \/ UNCHANGED <<chat, overtaken>>
    BY <1>8 DEF RenderOrderCard, HandInv
  <2>2. DOMAIN chat' = DOMAIN chat
    BY <1>1, <2>1, FaceOfHand, EditShape DEF Edit
  <2>3. overtaken' \in SUBSET (Workers \cup Handlers)
    BY <1>3, <2>1 DEF Edit, HandInv
  <2> QED  BY <2>1, <2>2, <2>3 DEF HandInv
<1>9. ASSUME NEW h \in Handlers, NEW i \in DOMAIN chat, AskForText(h, i)
      PROVE  HandInv'
  <2>1. UNCHANGED <<hand, overtaken>> /\ DOMAIN chat' = DOMAIN chat
    BY <1>1, <1>9 DEF AskForText, handVars
  <2> QED  BY <1>2, <2>1 DEF HandInv
<1> QED  BY <1>4, <1>5, <1>6, <1>7, <1>8, <1>9 DEF Next

LEMMA SendInvariant == Spec => [](SendInv /\ HandInv)
<1>1. Init => HandInv
  BY DEF Init, HandInv
<1> QED  BY <1>1, SendStart, SendNext, HandNext, PTL DEF Spec

\* The shape of orders, cards, outbox rows, leases and messages.
THEOREM OutboxTypes == Spec => []TypeOK
<1>1. SendInv /\ HandInv => TypeOK
  <2> SUFFICES ASSUME SendInv, HandInv PROVE TypeOK
    OBVIOUS
  <2>1. /\ history \in [Orders -> Seq(Admins \cup {Gateway})]
        /\ paidBy \in [Orders -> Admins \cup {Gateway, Nobody}]
        /\ cards \in [Orders -> [Admins -> Nat]]
        /\ active \in SUBSET Admins /\ listening \in SUBSET Admins
        /\ blocked \in SUBSET Orders
    BY DEF SendInv, Shape, OrderShape
  <2>2. /\ outbox \in [Events -> Row \cup {NoRow}]
        /\ worker \in [Workers -> Working \cup Between]
        /\ accepted \in [Events -> Nat] /\ faults \in 0 .. MaxFaults
    BY DEF SendInv, Shape, RowShape, WorkerShape, CountShape
  <2>3. \A i \in DOMAIN chat : chat[i] \in Cards
    BY ElementOfSeq DEF SendInv, Shape, ChatShape
  <2> QED  BY <2>1, <2>2, <2>3 DEF TypeOK, HandInv
<1> QED  BY <1>1, SendInvariant, PTL

\* A lease sends once, and every copy beyond the first is owed to a fault:
\* however many workers there are, and however they die or outlive leases.
THEOREM ExtraCopiesAreFaults == Spec => []OneSendPerLease
<1>1. SendInv => OneSendPerLease
  <2> SUFFICES ASSUME SendInv, NEW e \in Events
               PROVE  accepted[e] <= outbox[e].attempts /\ outbox[e].attempts <= 1 + faults
    BY DEF OneSendPerLease
  <2>1. /\ accepted[e] \in Nat /\ outbox[e].attempts \in Nat
        /\ Cardinality(Spent(e)) \in Nat /\ accepted[e] <= Cardinality(Spent(e))
        /\ Cardinality(Spent(e)) <= outbox[e].attempts
    BY RowOf, SpentFinite DEF SendInv, Shape, CountShape, SendsCounted
  <2>2. outbox[e].attempts <= 1 + faults
    BY DEF SendInv, ClaimsOwed
  <2> QED  BY <2>1, <2>2
<1> QED  BY <1>1, SendInvariant, PTL

\* Settling under a lease moves no row that is settled already.
LEMMA SettleSpares ==
    ASSUME RowShape, NEW c, NEW status, Settle(c, status), NEW e \in Events,
           outbox[e].status \in {"sent", "failed"}
    PROVE  outbox'[e] = outbox[e]
<1>1. CASE outbox[c.event] = [status |-> "sending", attempts |-> c.token]
  <2>1. e # c.event
    BY <1>1
  <2>2. outbox' = [outbox EXCEPT ![c.event].status = status]
    BY <1>1 DEF Settle
  <2>3. e \in DOMAIN outbox
    BY DEF RowShape
  <2> QED  BY <2>1, <2>2, <2>3
<1>2. CASE outbox[c.event] # [status |-> "sending", attempts |-> c.token]
  BY <1>2 DEF Settle
<1> QED  BY <1>1, <1>2

LEMMA EnqueueSpares ==
    ASSUME NEW E, Enqueue(E), NEW e \in Rows
    PROVE  outbox'[e] = outbox[e]
BY DEF Enqueue, Rows

\* A settled row is never touched again, by whichever worker still believes
\* it has the lease, and by no later event of the same order.
THEOREM SettledStay == Spec => SettledForGood
<1>1. ASSUME SendInv, Next, NEW e \in Rows, outbox[e].status \in {"sent", "failed"}
      PROVE  outbox'[e] = outbox[e]
  <2>1. e \in Events /\ RowShape
    BY <1>1 DEF Rows, SendInv, Shape
  <2>2. ASSUME NEW o \in Orders, NEW a \in Admins, ChangeStatus(o, a)
        PROVE  outbox'[e] = outbox[e]
    BY <2>2, EnqueueSpares DEF ChangeStatus
  <2>3. ASSUME NEW o \in Orders, NEW by \in Admins \cup {Gateway}, ConfirmPayment(o, by)
        PROVE  outbox'[e] = outbox[e]
    BY <2>3, EnqueueSpares DEF ConfirmPayment
  <2>4. ASSUME NEW a \in Admins, Leave(a)
        PROVE  outbox'[e] = outbox[e]
    BY <2>4 DEF Leave
  <2>5. ASSUME NEW w \in Workers, ClaimBatch(w)
        PROVE  outbox'[e] = outbox[e]
    <3>1. PICK late \in SUBSET Overdue, batch \in SUBSET Events :
            /\ batch \subseteq Pending \cup Abandoned \cup late
            /\ outbox' = [d \in Events |->
                            IF d \in batch
                            THEN [status |-> "sending", attempts |-> outbox[d].attempts + 1]
                            ELSE outbox[d]]
      <4>1. Pending \cup Abandoned \cup Overdue \subseteq Events
        BY DEF Pending, Abandoned, Overdue, Rows
      <4> QED  BY <2>5, <4>1, Zenon DEF ClaimBatch
    <3>2. e \notin Pending \cup Abandoned \cup Overdue
      BY <1>1 DEF Pending, Abandoned, Overdue
    <3>3. e \notin batch
      BY <3>1, <3>2
    <3> QED  BY <2>1, <3>1, <3>3
  <2>6. ASSUME NEW w \in Workers, Render(w)
        PROVE  outbox'[e] = outbox[e]
    BY <1>1, <2>1, <2>6, SettleSpares, Zenon DEF Render
  <2>7. ASSUME NEW w \in Workers, Post(w) \/ SaveMessageId(w) \/ Stop(w)
        PROVE  outbox'[e] = outbox[e]
    BY <2>7 DEF Post, SaveMessageId, Stop
  <2>8. ASSUME NEW w \in Workers, Acknowledge(w) \/ Unmodified(w) \/ Trouble(w)
        PROVE  outbox'[e] = outbox[e]
    BY <1>1, <2>1, <2>8, SettleSpares, Zenon DEF Acknowledge, Unmodified, Trouble
  <2>9. ASSUME \/ \E h \in Handlers, i \in DOMAIN chat : BackToOrder(h, i) \/ AskForText(h, i)
               \/ \E h \in Handlers : RenderOrderCard(h)
        PROVE  outbox'[e] = outbox[e]
    BY <2>9 DEF BackToOrder, AskForText, RenderOrderCard
  <2> QED  BY <1>1, <2>2, <2>3, <2>4, <2>5, <2>6, <2>7, <2>8, <2>9 DEF Next, Deliver
<1>2. SendInv /\ [Next]_vars =>
        [\A e \in Rows : outbox[e].status \in {"sent", "failed"} => outbox'[e] = outbox[e]]_vars
  BY <1>1
<1> QED  BY <1>2, SendInvariant, PTL DEF Spec, SettledForGood

-----------------------------------------------------------------------------
(* A card goes back only over an edit that overtook another. *)

\* What a card shows was true of its order once, and a remembered message is
\* a card of the order.  Whoever is about to edit a card writes what was true
\* of its order, and, unless he is overtaken, nothing older than it shows.
Upto(f, g) == f.status <= g.status /\ (f.paid => g.paid)
Past(f, o) == f.status <= Len(history[o]) /\ (f.paid => paidBy[o] # Nobody)
CardOf(i, o) == i \in DOMAIN chat /\ chat[i].order = o
CardsWereTrue ==
    /\ \A i \in DOMAIN chat : Past(chat[i].face, chat[i].order)
    /\ \A o \in Orders, a \in Admins : cards[o][a] # 0 => CardOf(cards[o][a], o)
DoesRight(r) ==
    LET e == r.claim.event IN
    /\ Past(r.face, e.order)
    /\ r.phase = "posted" \/ (r.phase = "rendered" /\ e \in StatusCard \cup PaidCard) =>
         CardOf(r.message, e.order)
WorkersRight == \A w \in Workers : worker[w].phase # "waiting" => DoesRight(worker[w])
HandsRight == \A h \in Handlers : hand[h] # NoEdit => Past(hand[h].face, chat[hand[h].card].order)
Ahead ==
    \A i \in DOMAIN chat : \A x \in Editing(i) \ overtaken : Upto(chat[i].face, FaceOf(x))
CardInv == CardsWereTrue /\ WorkersRight /\ HandsRight /\ Ahead

LEMMA CardShape ==
    ASSUME SendInv, NEW i \in DOMAIN chat
    PROVE  /\ chat[i].order \in Orders /\ chat[i].to \in Admins
           /\ chat[i].face \in Faces /\ chat[i].face.status \in Nat
<1>1. chat[i] \in Cards
  BY ElementOfSeq DEF SendInv, Shape, ChatShape
<1> QED  BY <1>1 DEF Cards, Faces

LEMMA FaceIs ==
    ASSUME NEW o
    PROVE  Face(o).status = Len(history[o]) /\ (Face(o).paid <=> paidBy[o] # Nobody)
<1> DEFINE paid == paidBy[o] # Nobody
<1>1. Face(o) = [status |-> Len(history[o]), paid |-> paid]
  BY DEF Face
<1> HIDE DEF paid
<1>2. Face(o).status = Len(history[o]) /\ Face(o).paid = paid
  BY <1>1
<1> QED  BY <1>2 DEF paid

\* The order itself does not go back.
LEMMA FaceGrows ==
    ASSUME SendInv, [Next]_vars, NEW o \in Orders
    PROVE  /\ Len(history[o]) \in Nat /\ Len(history'[o]) \in Nat
           /\ Len(history[o]) <= Len(history'[o])
           /\ paidBy[o] # Nobody => paidBy'[o] # Nobody
<1>0. /\ history \in [Orders -> Seq(Admins \cup {Gateway})] /\ Len(history[o]) \in Nat
      /\ paidBy \in [Orders -> Admins \cup {Gateway, Nobody}]
  BY DEF SendInv, Shape, OrderShape
<1>1. ASSUME NEW q \in Orders, NEW a \in Admins, ChangeStatus(q, a)
      PROVE  Len(history[o]) <= Len(history'[o]) /\ Len(history'[o]) \in Nat /\ paidBy' = paidBy
  <2>1. history' = [history EXCEPT ![q] = Append(@, a)] /\ paidBy' = paidBy
    BY <1>1 DEF ChangeStatus
  <2>2. CASE o = q
    <3>1. history'[o] = Append(history[o], a) /\ history[o] \in Seq(Admins \cup {Gateway})
      BY <1>0, <2>1, <2>2
    <3>2. Len(history'[o]) = Len(history[o]) + 1
      BY <3>1
    <3> QED  BY <1>0, <2>1, <3>2
  <2>3. CASE o # q
    BY <1>0, <2>1, <2>3
  <2> QED  BY <2>2, <2>3
<1>2. ASSUME NEW q \in Orders, NEW by \in Admins \cup {Gateway}, ConfirmPayment(q, by)
      PROVE  /\ Len(history[o]) <= Len(history'[o]) /\ Len(history'[o]) \in Nat
             /\ paidBy[o] # Nobody => paidBy'[o] # Nobody
  <2>1. paidBy[q] = Nobody /\ paidBy' = [paidBy EXCEPT ![q] = by]
    BY <1>2 DEF ConfirmPayment
  <2>2. paidBy[o] # Nobody => paidBy'[o] # Nobody
    BY <1>0, <2>1
  <2>3. CASE history[q] = <<>> /\ history' = [history EXCEPT ![q] = <<Gateway>>]
    <3>1. CASE o = q
      <4>1. history[o] = <<>> /\ history'[o] = <<Gateway>>
        BY <1>0, <2>3, <3>1
      <4>2. Len(history[o]) = 0 /\ Len(history'[o]) = 1
        BY <4>1
      <4> QED  BY <2>2, <4>2
    <3>2. CASE o # q
      <4>1. history'[o] = history[o]
        BY <1>0, <2>3, <3>2
      <4> QED  BY <1>0, <2>2, <4>1
    <3> QED  BY <3>1, <3>2
  <2>4. CASE UNCHANGED history
    BY <1>0, <2>2, <2>4
  <2> QED  BY <1>2, <2>3, <2>4 DEF ConfirmPayment
<1>3. CASE UNCHANGED <<history, paidBy>>
  BY <1>0, <1>3
<1>4. ASSUME NEW w \in Workers, Deliver(w) \/ Unmodified(w) \/ Trouble(w) \/ Stop(w)
      PROVE  UNCHANGED <<history, paidBy>>
  BY <1>4 DEF Deliver, ClaimBatch, Render, Post, SaveMessageId, Acknowledge, Unmodified,
     Trouble, Stop, orderVars
<1>5. ASSUME NEW a \in Admins, Leave(a)
      PROVE  UNCHANGED <<history, paidBy>>
  BY <1>5 DEF Leave
<1>6. UNCHANGED vars => UNCHANGED <<history, paidBy>>
  BY DEF vars
<1>7. ASSUME NEW h \in Handlers,
             RenderOrderCard(h) \/ \E i \in DOMAIN chat : BackToOrder(h, i) \/ AskForText(h, i)
      PROVE  UNCHANGED <<history, paidBy>>
  BY <1>7 DEF RenderOrderCard, BackToOrder, AskForText, orderVars
<1> QED  BY <1>0, <1>1, <1>2, <1>3, <1>4, <1>5, <1>6, <1>7 DEF Next

\* What was true of an order once stays so.
LEMMA PastStays ==
    ASSUME SendInv, [Next]_vars, NEW o \in Orders, NEW f, f.status \in Nat, Past(f, o)
    PROVE  Past(f, o)'
BY FaceGrows DEF Past

\* Who edits card i, and what he writes.
LEMMA EditorOf ==
    ASSUME SendInv, HandInv, CardInv, NEW i \in DOMAIN chat, NEW x \in Editing(i)
    PROVE  /\ FaceOf(x) \in Faces /\ FaceOf(x).status \in Nat
           /\ Past(FaceOf(x), chat[i].order)
           /\ \/ x \in Workers /\ x \notin Handlers /\ FaceOf(x) = worker[x].face
              \/ x \in Handlers /\ x \notin Workers /\ FaceOf(x) = hand[x].face
<1>1. CASE x \in Workers /\ worker[x].phase = "rendered" /\ worker[x].message = i
              /\ worker[x].claim.event \in StatusCard \cup PaidCard
  <2>1. worker[x] \in Working /\ x \notin Handlers
    BY <1>1, Values, WorkerOf DEF SendInv, Shape
  <2>2. DoesRight(worker[x])
    BY <1>1 DEF CardInv, WorkersRight
  <2>3. chat[i].order = worker[x].claim.event.order
    BY <1>1, <2>2 DEF DoesRight, CardOf
  <2> QED  BY <1>1, <2>1, <2>2, <2>3 DEF DoesRight, FaceOf, Working, Faces
<1>2. CASE x \in Handlers /\ hand[x] # NoEdit /\ hand[x].card = i
  <2>1. x \notin Workers /\ hand[x] \in HandEdits
    BY <1>2, Values DEF HandInv
  <2> QED  BY <1>2, <2>1 DEF CardInv, HandsRight, FaceOf, HandEdits, Faces
<1> QED  BY <1>1, <1>2 DEF Editing

\* A step in which everyone goes on with the edit he had in hand, or lets it
\* go.
GoesOn ==
    /\ \A w \in Workers :
        \/ worker'[w].phase # "rendered"
        \/ worker'[w] = worker[w] /\ (w \in overtaken => w \in overtaken')
    /\ \A h \in Handlers :
        \/ hand'[h] = NoEdit
        \/ hand'[h] = hand[h] /\ (h \in overtaken => h \in overtaken')
LEMMA StillAhead ==
    ASSUME SendInv, HandInv, CardInv, GoesOn,
           NEW i \in DOMAIN chat, chat'[i].face = chat[i].face,
           NEW x \in Editing(i)', x \notin overtaken'
    PROVE  Upto(chat'[i].face, FaceOf(x)')
<1>1. x \in Editing(i) /\ FaceOf(x)' = FaceOf(x) /\ x \notin overtaken
  <2>1. CASE x \in Workers /\ worker'[x].phase = "rendered" /\ worker'[x].message = i
                /\ worker'[x].claim.event \in StatusCard \cup PaidCard
    <3>1. worker'[x] = worker[x] /\ x \notin overtaken
      BY <2>1 DEF GoesOn
    <3> QED  BY <2>1, <3>1 DEF Editing, FaceOf
  <2>2. CASE x \in Handlers /\ hand'[x] # NoEdit /\ hand'[x].card = i
    <3>1. hand'[x] = hand[x] /\ x \notin overtaken /\ x \notin Workers
      BY <2>2, Values DEF GoesOn
    <3> QED  BY <2>2, <3>1 DEF Editing, FaceOf
  <2> QED  BY <2>1, <2>2 DEF Editing
<1> QED  BY <1>1 DEF CardInv, Ahead
\* Messages stay, each of its order.
ChatGrows ==
    DOMAIN chat \subseteq DOMAIN chat' /\ \A i \in DOMAIN chat : chat'[i].order = chat[i].order
SameFaces == ChatGrows /\ \A i \in DOMAIN chat : chat'[i].face = chat[i].face

LEMMA WorkerStays ==
    ASSUME SendInv, CardInv, [Next]_vars, ChatGrows, NEW w \in Workers,
           worker[w].phase # "waiting",
           \/ worker'[w] = worker[w]
           \/ worker'[w].phase = "saved" /\ worker'[w].claim = worker[w].claim
              /\ worker'[w].face = worker[w].face
    PROVE  DoesRight(worker[w])'
<1>1. /\ DoesRight(worker[w]) /\ worker[w].face.status \in Nat
      /\ worker[w].claim.event \in Events /\ worker[w].claim.event.order \in Orders
  BY WorkerOf, EventOf DEF CardInv, WorkersRight, SendInv, Shape, Working, Faces, Claims
<1>2. Past(worker[w].face, worker[w].claim.event.order)'
  <2>1. Past(worker[w].face, worker[w].claim.event.order)
    BY <1>1 DEF DoesRight
  <2> QED  BY <1>1, <2>1, FaceGrows DEF Past
<1> QED  BY <1>1, <1>2 DEF DoesRight, CardOf, ChatGrows

LEMMA HandStays ==
    ASSUME SendInv, HandInv, CardInv, [Next]_vars, ChatGrows, NEW h \in Handlers,
           hand'[h] = hand[h], hand[h] # NoEdit
    PROVE  Past(hand[h].face, chat[hand[h].card].order)'
<1>1. /\ hand[h] \in HandEdits /\ hand[h].face.status \in Nat /\ hand[h].card \in DOMAIN chat
      /\ Past(hand[h].face, chat[hand[h].card].order)
  BY DEF HandInv, CardInv, HandsRight, HandEdits, Faces
<1>2. chat[hand[h].card].order \in Orders
  BY <1>1, CardShape
<1> QED  BY <1>1, <1>2, FaceGrows DEF Past, ChatGrows

LEMMA TrueStays ==
    ASSUME SendInv, HandInv, CardInv, [Next]_vars, ChatGrows,
           \A i \in DOMAIN chat : \/ chat'[i].face = chat[i].face
                                  \/ \E x \in Editing(i) : chat'[i].face = FaceOf(x),
           \A i \in DOMAIN chat' \ DOMAIN chat : Past(chat[i].face, chat[i].order)'
    PROVE  /\ (\A i \in DOMAIN chat : Past(chat[i].face, chat[i].order))'
           /\ \A j : \A o : CardOf(j, o) => CardOf(j, o)'
<1>1. ASSUME NEW i \in DOMAIN chat
      PROVE  Past(chat[i].face, chat[i].order)'
  <2>1. chat[i].order \in Orders /\ chat'[i].order = chat[i].order
    BY CardShape DEF ChatGrows
  <2>2. chat'[i].face.status \in Nat /\ Past(chat'[i].face, chat[i].order)
    BY CardShape, EditorOf DEF CardInv, CardsWereTrue
  <2> QED  BY <2>1, <2>2, FaceGrows DEF Past
<1>2. \A j : \A o : CardOf(j, o) => CardOf(j, o)'
  BY DEF CardOf, ChatGrows
<1> QED  BY <1>1, <1>2

\* What a step may show on cards that were there.
NotBack ==
    \A i \in DOMAIN chat :
        Older(chat'[i].face, chat[i].face) =>
            \E x \in overtaken \cap Editing(i) : chat'[i].face = FaceOf(x)

LEMMA SameNotBack ==
    ASSUME SendInv, SameFaces
    PROVE  NotBack
BY CardShape DEF SameFaces, NotBack, Older

\* Everyone goes on or lets go, and no card and no remembered message changes.
LEMMA QuietStep ==
    ASSUME SendInv, HandInv, CardInv, [Next]_vars, GoesOn, SameFaces, UNCHANGED cards,
           DOMAIN chat' = DOMAIN chat,
           \A w \in Workers : worker'[w] = worker[w] \/ worker'[w].phase = "waiting"
    PROVE  CardInv' /\ NotBack
<1>1. ChatGrows
  BY DEF SameFaces
<1>2. CardsWereTrue'
  BY <1>1, TrueStays DEF SameFaces, CardInv, CardsWereTrue
<1>3. WorkersRight'
  BY <1>1, WorkerStays DEF WorkersRight
<1>4. HandsRight'
  BY <1>1, HandStays DEF HandsRight, GoesOn
<1>5. Ahead'
  BY StillAhead DEF Ahead, SameFaces
<1> QED  BY <1>2, <1>3, <1>4, <1>5, SameNotBack DEF CardInv

\* x edits card i, and has nothing more in hand.
LEMMA EditStep ==
    ASSUME SendInv, HandInv, CardInv, [Next]_vars, GoesOn, UNCHANGED cards,
           NEW i \in DOMAIN chat, NEW x \in Editing(i), Edit(x, i), x \notin Editing(i)'
    PROVE  ChatGrows /\ CardsWereTrue' /\ Ahead' /\ NotBack
<1>1. FaceOf(x) \in Faces /\ FaceOf(x).status \in Nat
  BY EditorOf
<1>2. /\ DOMAIN chat' = DOMAIN chat /\ ChatGrows
      /\ \A j \in DOMAIN chat : chat'[j].face = IF j = i THEN FaceOf(x) ELSE chat[j].face
  <2>1. chat \in Seq(Cards) /\ chat' = [chat EXCEPT ![i].face = FaceOf(x), ![i].asks = FALSE]
    BY DEF SendInv, Shape, ChatShape, Edit
  <2> QED  BY <1>1, <2>1, EditShape DEF ChatGrows
<1>3. CardsWereTrue'
  BY <1>2, TrueStays DEF CardInv, CardsWereTrue
<1>4. ASSUME NEW j \in DOMAIN chat', NEW y \in Editing(j)', y \notin overtaken'
      PROVE  Upto(chat'[j].face, FaceOf(y)')
  <2>1. CASE j = i
    <3>1. y \in Editing(i)
      BY <1>4, <2>1, Values DEF GoesOn, Editing
    <3>2. y # x
      BY <1>4, <2>1
    <3> QED  BY <1>4, <3>1, <3>2 DEF Edit
  <2>2. CASE j # i
    BY <1>2, <1>4, <2>2, StillAhead
  <2> QED  BY <2>1, <2>2
<1>5. NotBack
  <2>1. ASSUME NEW j \in DOMAIN chat, Older(chat'[j].face, chat[j].face)
        PROVE  \E y \in overtaken \cap Editing(j) : chat'[j].face = FaceOf(y)
    <3>1. j = i
      BY <1>2, <2>1, CardShape DEF Older
    <3>2. ~Upto(chat[i].face, FaceOf(x))
      BY <1>1, <1>2, <2>1, <3>1, CardShape DEF Older, Upto
    <3>3. x \in overtaken
      BY <3>2 DEF CardInv, Ahead
    <3> QED  BY <1>2, <3>1, <3>3
  <2> QED  BY <2>1 DEF NotBack
<1> QED  BY <1>2, <1>3, <1>4, <1>5 DEF Ahead
\* Worker w renders: what it will write is true now.
LEMMA RenderedRight ==
    ASSUME SendInv, HandInv, CardInv, NEW w \in Workers, Render(w)
    PROVE  CardInv' /\ NotBack
<1>1. /\ UNCHANGED <<history, paidBy, cards, chat, hand>> /\ overtaken' = overtaken \ {w}
      /\ worker \in [Workers -> Working \cup Between]
      /\ worker[w].phase = "waiting" /\ worker[w].todo \subseteq Claims
  BY WorkerOf DEF Render, orderVars, telegramVars, SendInv, Shape, WorkerShape
<1>2. [Next]_vars /\ SameFaces /\ ChatGrows
  BY <1>1 DEF Next, Deliver, SameFaces, ChatGrows
<1>3. CASE \A v \in Workers : worker'[v] = worker[v] \/ worker'[v].phase = "waiting"
  <2>1. worker'[w].phase = "waiting"
    BY <1>1, <1>3
  <2>2. \A h \in Handlers : h # w
    BY Values
  <2>3. GoesOn
    BY <1>1, <1>3, <2>1, <2>2 DEF GoesOn
  <2> QED  BY <1>1, <1>2, <1>3, <2>3, QuietStep
<1>4. ASSUME NEW c \in worker[w].todo, Renders(c.event), NEW record,
             record = [todo |-> worker[w].todo \ {c}, claim |-> c, phase |-> "rendered",
                       face |-> Face(c.event.order),
                       message |-> IF c.event.to = Customer THEN 0
                                   ELSE cards[c.event.order][c.event.to]],
             worker' = [worker EXCEPT ![w] = record]
      PROVE  CardInv' /\ NotBack
  <2> DEFINE e == c.event
             n == IF e.to = Customer THEN 0 ELSE cards[e.order][e.to]
             face == Face(e.order)
  <2>1. e \in Events /\ e.order \in Orders
    BY <1>1, EventOf DEF Claims
  <2>2. e \in StatusCard \cup PaidCard => e.to \in Admins /\ n = cards[e.order][e.to] /\ n # 0
    BY <1>4, Values, EventOf DEF Renders, StatusCard, PaidCard, StatusNews, PaidNews, Created
  <2>3. e \in StatusCard \cup PaidCard => CardOf(n, e.order)
    BY <2>1, <2>2 DEF CardInv, CardsWereTrue
  <2>4. record.claim.event = e /\ record.face = face /\ record.message = n /\ record.phase = "rendered"
    BY <1>4
  <2>5. face.status = Len(history[e.order]) /\ (face.paid <=> paidBy[e.order] # Nobody)
    BY FaceIs
  <2> HIDE DEF face, n, e
  <2>6. Past(face, e.order)
    <3>1. face.status \in Nat
      BY <2>1, <2>5 DEF SendInv, Shape, OrderShape
    <3> QED  BY <2>5, <3>1 DEF Past
  <2>7. e \in StatusCard \cup PaidCard => Upto(chat[n].face, face)
    BY <2>3, <2>5 DEF CardInv, CardsWereTrue, CardOf, Past, Upto
  <2>8. worker'[w] = record /\ \A v \in Workers \ {w} : worker'[v] = worker[v]
    BY <1>1, <1>4
  <2>9. WorkersRight'
    <3>1. ASSUME NEW v \in Workers, worker'[v].phase # "waiting"
          PROVE  DoesRight(worker[v])'
      <4>1. CASE v = w
        BY <1>1, <2>3, <2>4, <2>6, <2>8, <4>1 DEF DoesRight, Past, CardOf
      <4>2. CASE v # w
        BY <1>2, <2>8, <3>1, <4>2, WorkerStays
      <4> QED  BY <4>1, <4>2
    <3> QED  BY <3>1 DEF WorkersRight
  <2>10. CardsWereTrue' /\ HandsRight'
    BY <1>1 DEF CardInv, CardsWereTrue, HandsRight, CardOf, Past
  <2>11. ASSUME NEW i \in DOMAIN chat, NEW x \in Editing(i)', x \notin overtaken'
         PROVE  Upto(chat'[i].face, FaceOf(x)')
    <3>1. CASE x = w
      <4>1. FaceOf(x)' = face /\ e \in StatusCard \cup PaidCard /\ n = i
        BY <2>4, <2>8, <2>11, <3>1, Values DEF Editing, FaceOf
      <4> QED  BY <1>1, <2>7, <4>1
    <3>2. CASE x # w
      <4>1. x \in Editing(i) /\ FaceOf(x)' = FaceOf(x) /\ x \notin overtaken
        BY <1>1, <2>8, <2>11, <3>2 DEF Editing, FaceOf
      <4> QED  BY <1>1, <4>1 DEF CardInv, Ahead
    <3> QED  BY <3>1, <3>2
  <2>12. Ahead'
    BY <1>1, <2>11 DEF Ahead
  <2> QED  BY <1>2, <2>9, <2>10, <2>12, SameNotBack DEF CardInv
<1>5. CASE \E c \in worker[w].todo : worker' = [worker EXCEPT ![w] = [Rest(w) EXCEPT !.todo = worker[w].todo \ {c}]]
  <2>1. \A v \in Workers : worker'[v] = worker[v] \/ worker'[v].phase = "waiting"
    BY <1>1, <1>5 DEF Rest
  <2> QED  BY <1>3, <2>1
<1> QED  BY <1>4, <1>5 DEF Render

\* A handler reads the order of a card: what it will write is true now.
LEMMA ReadRight ==
    ASSUME SendInv, HandInv, CardInv, NEW h \in Handlers, NEW i \in DOMAIN chat, BackToOrder(h, i)
    PROVE  CardInv' /\ NotBack
<1> DEFINE o == chat[i].order
           face == Face(o)
<1>1. /\ UNCHANGED <<history, paidBy, cards, chat, worker>> /\ overtaken' = overtaken \ {h}
      /\ hand' = [hand EXCEPT ![h] = [card |-> i, face |-> face]]
      /\ hand \in [Handlers -> HandEdits \cup {NoEdit}]
  BY DEF BackToOrder, orderVars, telegramVars, HandInv
<1>2. [Next]_vars /\ SameFaces /\ ChatGrows
  BY <1>1 DEF Next, SameFaces, ChatGrows
<1>3. o \in Orders /\ face.status = Len(history[o]) /\ (face.paid <=> paidBy[o] # Nobody)
  BY CardShape, FaceIs
<1>4. face.status \in Nat
  BY <1>3 DEF SendInv, Shape, OrderShape
<1>5. Past(face, o) /\ Upto(chat[i].face, face)
  BY <1>3, <1>4 DEF CardInv, CardsWereTrue, Past, Upto
<1>6. /\ hand'[h].card = i /\ hand'[h].face = face
      /\ \A g \in Handlers \ {h} : hand'[g] = hand[g]
  BY <1>1
<1> HIDE DEF face
<1>7. HandsRight'
  <2>1. ASSUME NEW g \in Handlers, hand'[g] # NoEdit
        PROVE  Past(hand[g].face, chat[hand[g].card].order)'
    <3>1. CASE g = h
      BY <1>1, <1>5, <1>6, <3>1 DEF Past
    <3>2. CASE g # h
      BY <1>2, <1>6, <2>1, <3>2, HandStays
    <3> QED  BY <3>1, <3>2
  <2> QED  BY <2>1 DEF HandsRight
<1>8. CardsWereTrue' /\ WorkersRight'
  BY <1>1 DEF CardInv, CardsWereTrue, WorkersRight, DoesRight, CardOf, Past
<1>9. ASSUME NEW j \in DOMAIN chat, NEW x \in Editing(j)', x \notin overtaken'
      PROVE  Upto(chat'[j].face, FaceOf(x)')
  <2>1. CASE x = h
    <3>1. FaceOf(x)' = face /\ j = i
      BY <1>6, <1>9, <2>1, Values DEF Editing, FaceOf
    <3> QED  BY <1>1, <1>5, <3>1
  <2>2. CASE x # h
    <3>1. x \in Editing(j) /\ FaceOf(x)' = FaceOf(x) /\ x \notin overtaken
      BY <1>1, <1>6, <1>9, <2>2 DEF Editing, FaceOf
    <3> QED  BY <1>1, <3>1 DEF CardInv, Ahead
  <2> QED  BY <2>1, <2>2
<1>10. Ahead'
  BY <1>1, <1>9 DEF Ahead
<1> QED  BY <1>2, <1>7, <1>8, <1>10, SameNotBack DEF CardInv
\* A worker's message is accepted.
LEMMA PostedRight ==
    ASSUME SendInv, HandInv, CardInv, NEW w \in Workers, Post(w)
    PROVE  CardInv' /\ NotBack
<1>0. PICK e, face, n :
        e = worker[w].claim.event /\ face = worker[w].face /\ n = worker[w].message
  OBVIOUS
<1> DEFINE card == [order |-> e.order, to |-> e.to, face |-> face, asks |-> FALSE]
<1>1. /\ UNCHANGED <<history, paidBy, cards, hand>> /\ worker \in [Workers -> Working \cup Between]
      /\ worker[w].phase = "rendered" /\ worker[w] \in Working /\ worker[w].claim \in Claims
      /\ DoesRight(worker[w])
  BY WorkerOf DEF Post, orderVars, SendInv, Shape, WorkerShape, CardInv, WorkersRight
<1>2. [Next]_vars
  BY DEF Next, Deliver
<1>3. /\ e \in Events /\ e.order \in Orders /\ face \in Faces /\ face.status \in Nat
      /\ Past(face, e.order) /\ Past(face, e.order)'
  <2>1. e \in Events /\ face \in Faces /\ Past(face, e.order)
    BY <1>0, <1>1 DEF Claims, Working, DoesRight
  <2>2. e.order \in Orders /\ face.status \in Nat
    BY <2>1, EventOf DEF Faces
  <2> QED  BY <1>1, <2>1, <2>2 DEF Past
<1>4. chat \in Seq(Cards) /\ Len(chat) \in Nat /\ DOMAIN chat = 1 .. Len(chat)
  BY DEF SendInv, Shape, ChatShape
<1>5. \/ /\ e \in Created /\ chat' = Append(chat, card) /\ UNCHANGED overtaken
         /\ worker' = [worker EXCEPT ![w].phase = "posted", ![w].message = Len(chat) + 1]
      \/ /\ e \in StatusCard \cup PaidCard /\ Edit(w, n)
         /\ worker' = [worker EXCEPT ![w].phase = "saved"]
      \/ UNCHANGED <<chat, overtaken>> /\ worker' = [worker EXCEPT ![w].phase = "saved"]
  BY <1>0 DEF Post
<1>6. card.order = e.order /\ card.face = face
  OBVIOUS
<1> DEFINE r == worker[w]
           posted == [r EXCEPT !.phase = "posted", !.message = Len(chat) + 1]
           saved == [r EXCEPT !.phase = "saved"]
<1>7. /\ saved.face = face /\ saved.claim = r.claim /\ saved.phase = "saved"
      /\ posted.face = face /\ posted.claim = r.claim /\ posted.phase = "posted"
      /\ posted.message = Len(chat) + 1
  BY <1>0, <1>1 DEF Working
<1>8. ASSUME NEW record, record.phase # "rendered", worker' = [worker EXCEPT ![w] = record]
      PROVE  /\ worker'[w] = record /\ \A v \in Workers \ {w} : worker'[v] = worker[v]
             /\ \A i : w \notin Editing(i)'
  <2>1. worker'[w] = record /\ \A v \in Workers \ {w} : worker'[v] = worker[v]
    BY <1>1, <1>8
  <2> QED  BY <1>8, <2>1, Values DEF Editing
<1>9. ASSUME worker' = [worker EXCEPT ![w] = saved], ChatGrows
      PROVE  WorkersRight' /\ HandsRight'
  <2>1. worker'[w] = saved /\ \A v \in Workers \ {w} : worker'[v] = worker[v]
    BY <1>7, <1>8, <1>9
  <2> HIDE DEF saved
  <2>2. WorkersRight'
    BY <1>0, <1>1, <1>2, <1>7, <1>9, <2>1, WorkerStays DEF WorkersRight
  <2> QED  BY <1>1, <1>2, <1>9, <2>2, HandStays DEF HandsRight
<1>10. CASE e \in Created /\ chat' = Append(chat, card) /\ UNCHANGED overtaken
            /\ worker' = [worker EXCEPT ![w] = posted]
  <2>1. worker'[w] = posted /\ \A v \in Workers \ {w} : worker'[v] = worker[v]
    BY <1>7, <1>8, <1>10
  <2> HIDE DEF card, posted, saved
  <2>2. /\ DOMAIN chat' = 1 .. Len(chat) + 1 /\ chat'[Len(chat) + 1] = card
        /\ \A i \in 1 .. Len(chat) : chat'[i] = chat[i]
    BY <1>4, <1>10
  <2>3. SameFaces /\ ChatGrows /\ \A i \in DOMAIN chat' \ DOMAIN chat : chat'[i] = card
    BY <1>4, <2>2 DEF SameFaces, ChatGrows
  <2>4. GoesOn
    BY <1>1, <1>7, <1>10, <2>1 DEF GoesOn
  <2>5. \A i \in DOMAIN chat' \ DOMAIN chat : Past(chat[i].face, chat[i].order)'
    BY <1>3, <1>6, <2>3
  <2>6. CardsWereTrue'
    BY <1>1, <1>2, <2>3, <2>5, TrueStays DEF SameFaces, CardInv, CardsWereTrue
  <2>7. DoesRight(worker[w])'
    <3>1. Len(chat) + 1 \in DOMAIN chat' /\ chat'[Len(chat) + 1].order = e.order
      BY <1>4, <1>6, <2>2
    <3>2. worker'[w].claim.event = e /\ worker'[w].face = face /\ worker'[w].message = Len(chat) + 1
      BY <1>0, <1>7, <2>1
    <3> QED  BY <1>3, <3>1, <3>2 DEF DoesRight, CardOf
  <2>8. WorkersRight'
    BY <1>2, <2>1, <2>3, <2>7, WorkerStays DEF WorkersRight
  <2>9. HandsRight'
    BY <1>1, <1>2, <2>3, HandStays DEF HandsRight
  <2>10. ASSUME NEW i \in DOMAIN chat', NEW x \in Editing(i)', x \notin overtaken'
         PROVE  i \in DOMAIN chat
    <3>1. CASE x \in Workers /\ worker'[x].phase = "rendered" /\ worker'[x].message = i
                /\ worker'[x].claim.event \in StatusCard \cup PaidCard
      <4>1. worker'[x] = worker[x]
        BY <3>1, <2>4 DEF GoesOn
      <4> QED  BY <3>1, <4>1 DEF CardInv, WorkersRight, DoesRight, CardOf
    <3>2. CASE x \in Handlers /\ hand'[x] # NoEdit /\ hand'[x].card = i
      BY <1>1, <3>2 DEF HandInv
    <3> QED  BY <2>10, <3>1, <3>2 DEF Editing
  <2>11. Ahead'
    BY <2>3, <2>4, <2>10, StillAhead DEF Ahead, SameFaces
  <2> QED  BY <2>3, <2>6, <2>8, <2>9, <2>11, SameNotBack DEF CardInv
<1>11. CASE e \in StatusCard \cup PaidCard /\ Edit(w, n)
            /\ worker' = [worker EXCEPT ![w] = saved]
  <2>1. /\ worker'[w] = saved /\ \A v \in Workers \ {w} : worker'[v] = worker[v]
        /\ w \notin Editing(n)'
    BY <1>7, <1>8, <1>11
  <2>2. n \in DOMAIN chat /\ w \in Editing(n)
    BY <1>0, <1>1, <1>11 DEF DoesRight, CardOf, Editing
  <2> HIDE DEF saved, card, posted
  <2>3. GoesOn
    <3>1. \A x : x # w /\ x \in overtaken => x \in overtaken'
      BY <1>11 DEF Edit
    <3> QED  BY <1>1, <1>7, <2>1, <3>1, Values DEF GoesOn
  <2>4. ChatGrows /\ CardsWereTrue' /\ Ahead' /\ NotBack
    BY <1>1, <1>2, <1>11, <2>1, <2>2, <2>3, EditStep
  <2> QED  BY <1>9, <1>11, <2>4 DEF CardInv
<1>12. CASE UNCHANGED <<chat, overtaken>> /\ worker' = [worker EXCEPT ![w] = saved]
  <2>1. worker'[w] = saved /\ \A v \in Workers \ {w} : worker'[v] = worker[v]
    BY <1>7, <1>8, <1>12
  <2>2. GoesOn
    BY <1>1, <1>7, <1>12, <2>1 DEF GoesOn
  <2>3. SameFaces /\ ChatGrows
    BY <1>12 DEF SameFaces, ChatGrows
  <2> HIDE DEF saved, posted, card
  <2>4. CardsWereTrue'
    BY <1>1, <1>2, <1>12, <2>3, TrueStays DEF SameFaces, CardInv, CardsWereTrue
  <2>5. Ahead'
    BY <1>12, <2>2, <2>3, StillAhead DEF Ahead, SameFaces
  <2> QED  BY <1>9, <1>12, <2>3, <2>4, <2>5, SameNotBack DEF CardInv
<1>13. /\ [worker EXCEPT ![w].phase = "saved"] = [worker EXCEPT ![w] = saved]
       /\ [worker EXCEPT ![w].phase = "posted", ![w].message = Len(chat) + 1]
            = [worker EXCEPT ![w] = posted]
  BY <1>1
<1> QED  BY <1>5, <1>10, <1>11, <1>12, <1>13

LEMMA SavedRight ==
    ASSUME SendInv, HandInv, CardInv, NEW w \in Workers, SaveMessageId(w)
    PROVE  CardInv' /\ NotBack
<1> DEFINE e == worker[w].claim.event
           n == worker[w].message
<1>1. /\ UNCHANGED <<history, paidBy, chat, hand, overtaken>>
      /\ worker \in [Workers -> Working \cup Between]
      /\ worker[w].phase = "posted" /\ worker[w] \in Working /\ worker[w].claim \in Claims
      /\ DoesRight(worker[w]) /\ cards \in [Orders -> [Admins -> Nat]]
      /\ worker' = [worker EXCEPT ![w].phase = "saved"]
      /\ cards' = [cards EXCEPT ![e.order] = [cards[e.order] EXCEPT ![e.to] = n]]
  BY WorkerOf DEF SaveMessageId, telegramVars, handVars, SendInv, Shape, WorkerShape, OrderShape,
     CardInv, WorkersRight
<1>2. CardOf(n, e.order)
  BY <1>1 DEF DoesRight
<1>3. \A o \in Orders, a \in Admins :
        cards'[o][a] = cards[o][a] \/ (o = e.order /\ cards'[o][a] = n)
  <2> HIDE DEF n
  <2> QED  BY <1>1
<1>4. \A o \in Orders, a \in Admins : cards'[o][a] # 0 => CardOf(cards'[o][a], o)
  BY <1>2, <1>3 DEF CardInv, CardsWereTrue
<1>5. (\A o \in Orders, a \in Admins : cards[o][a] # 0 => CardOf(cards[o][a], o))'
  BY <1>1, <1>4 DEF CardOf
<1>6. CardsWereTrue'
  BY <1>1, <1>5 DEF CardInv, CardsWereTrue, Past
<1>7. /\ worker'[w].face = worker[w].face /\ worker'[w].claim = worker[w].claim
      /\ worker'[w].phase = "saved" /\ \A v \in Workers \ {w} : worker'[v] = worker[v]
  BY <1>1 DEF Working
<1>8. [Next]_vars /\ SameFaces /\ ChatGrows
  BY <1>1 DEF Next, Deliver, SameFaces, ChatGrows
<1>9. WorkersRight'
  <2>1. ASSUME NEW v \in Workers, worker'[v].phase # "waiting"
        PROVE  DoesRight(worker[v])'
    <3>1. CASE v = w
      BY <1>1, <1>7, <1>8, <3>1, WorkerStays
    <3>2. CASE v # w
      BY <1>7, <1>8, <2>1, <3>2, WorkerStays
    <3> QED  BY <3>1, <3>2
  <2> QED  BY <2>1 DEF WorkersRight
<1>10. HandsRight'
  BY <1>1, <1>8, HandStays DEF HandsRight
<1>11. GoesOn
  BY <1>1, <1>7 DEF GoesOn
<1>12. Ahead'
  BY <1>1, <1>8, <1>11, StillAhead DEF Ahead, SameFaces
<1> QED  BY <1>6, <1>8, <1>9, <1>10, <1>12, SameNotBack DEF CardInv

\* A handler's edit is accepted, or comes to nothing.
LEMMA HandEditRight ==
    ASSUME SendInv, HandInv, CardInv, NEW h \in Handlers, RenderOrderCard(h)
    PROVE  CardInv' /\ NotBack
<1>1. /\ hand[h] # NoEdit /\ hand' = [hand EXCEPT ![h] = NoEdit]
      /\ Edit(h, hand[h].card) \/ UNCHANGED <<chat, overtaken>>
      /\ UNCHANGED <<cards, worker>> /\ hand \in [Handlers -> HandEdits \cup {NoEdit}]
  BY DEF RenderOrderCard, orderVars, HandInv
<1>2. hand'[h] = NoEdit /\ \A g \in Handlers \ {h} : hand'[g] = hand[g]
  BY <1>1
<1>3. [Next]_vars
  BY DEF Next
<1>4. CASE Edit(h, hand[h].card)
  <2>0. PICK i : i = hand[h].card
    OBVIOUS
  <2>1. i \in DOMAIN chat /\ h \in Editing(i) /\ h \notin Editing(i)' /\ Edit(h, i)
    BY <1>1, <1>2, <1>4, <2>0, FaceOfHand, Values DEF Editing
  <2>2. GoesOn
    <3>1. \A x : x # h /\ x \in overtaken => x \in overtaken'
      BY <2>1 DEF Edit
    <3> QED  BY <1>1, <1>2, <3>1, Values DEF GoesOn
  <2>3. ChatGrows /\ CardsWereTrue' /\ Ahead' /\ NotBack
    BY <1>1, <1>3, <2>1, <2>2, EditStep
  <2>4. WorkersRight'
    BY <1>1, <1>3, <2>3, WorkerStays DEF WorkersRight
  <2>5. HandsRight'
    BY <1>2, <1>3, <2>3, HandStays DEF HandsRight
  <2> QED  BY <2>3, <2>4, <2>5 DEF CardInv
<1>5. CASE UNCHANGED <<chat, overtaken>>
  <2>1. GoesOn /\ SameFaces /\ DOMAIN chat' = DOMAIN chat
    BY <1>1, <1>2, <1>5 DEF GoesOn, SameFaces, ChatGrows
  <2> QED  BY <1>1, <1>3, <2>1, QuietStep
<1> QED  BY <1>1, <1>4, <1>5

\* A question stands in a card's place.
LEMMA AskedRight ==
    ASSUME SendInv, HandInv, CardInv, NEW h \in Handlers, NEW i \in DOMAIN chat, AskForText(h, i)
    PROVE  CardInv' /\ NotBack
<1>1. chat' = [chat EXCEPT ![i].asks = TRUE] /\ UNCHANGED <<cards, worker, hand, overtaken>>
  BY DEF AskForText, orderVars, handVars
<1>2. chat[i] \in Cards /\ DOMAIN chat = 1 .. Len(chat)
  BY ElementOfSeq DEF SendInv, Shape, ChatShape
<1>3. SameFaces /\ DOMAIN chat' = DOMAIN chat
  BY <1>1, <1>2 DEF SameFaces, ChatGrows, Cards
<1>4. GoesOn /\ [Next]_vars
  BY <1>1 DEF GoesOn, Next
<1> QED  BY <1>1, <1>3, <1>4, QuietStep

LEMMA CardStep ==
    ASSUME SendInv, HandInv, CardInv, [Next]_vars
    PROVE  CardInv' /\ NotBack
<1>1. ASSUME UNCHANGED <<cards, chat, worker, hand, overtaken>>
      PROVE  CardInv' /\ NotBack
  <2>1. GoesOn /\ SameFaces /\ DOMAIN chat' = DOMAIN chat
    BY <1>1 DEF GoesOn, SameFaces, ChatGrows
  <2> QED  BY <1>1, <2>1, QuietStep
<1>2. CASE UNCHANGED vars
  BY <1>1, <1>2 DEF vars
<1>3. CASE \/ \E o \in Orders : \E a \in Admins : ChangeStatus(o, a)
           \/ \E o \in Orders : \E by \in Admins \cup {Gateway} : ConfirmPayment(o, by)
           \/ \E a \in Admins : Leave(a)
  <2>1. UNCHANGED <<cards, chat, worker, hand, overtaken>>
    BY <1>3 DEF ChangeStatus, ConfirmPayment, Leave, telegramVars, handVars
  <2> QED  BY <1>1, <2>1
<1>4. ASSUME NEW w \in Workers, Acknowledge(w) \/ Unmodified(w) \/ Trouble(w) \/ Stop(w) \/ ClaimBatch(w)
      PROVE  CardInv' /\ NotBack
  <2>1. UNCHANGED <<cards, chat, hand, overtaken>> /\ worker \in [Workers -> Working \cup Between]
    BY <1>4 DEF Acknowledge, Unmodified, Trouble, Stop, ClaimBatch, orderVars, telegramVars,
       handVars, SendInv, Shape, WorkerShape
  <2>2. \E r : worker' = [worker EXCEPT ![w] = r] /\ r.phase = "waiting"
    <3>1. Rest(w).phase = "waiting" /\ Waiting.phase = "waiting"
      BY DEF Rest, Waiting
    <3>2. CASE ClaimBatch(w)
      <4>1. PICK todo : worker' = [worker EXCEPT ![w] = [worker[w] EXCEPT !.todo = todo]]
        BY <3>2 DEF ClaimBatch
      <4>2. [worker[w] EXCEPT !.todo = todo].phase = "waiting"
        BY <3>2 DEF ClaimBatch, Waiting
      <4> QED  BY <4>1, <4>2
    <3> HIDE DEF Rest, Waiting
    <3>3. CASE Acknowledge(w) \/ Unmodified(w) \/ Trouble(w) \/ Stop(w)
      BY <3>1, <3>3 DEF Acknowledge, Unmodified, Trouble, Stop
    <3> QED  BY <1>4, <3>2, <3>3
  <2>3. \A v \in Workers : worker'[v] = worker[v] \/ worker'[v].phase = "waiting"
    BY <2>1, <2>2
  <2>4. GoesOn /\ SameFaces /\ DOMAIN chat' = DOMAIN chat
    BY <2>1, <2>3 DEF GoesOn, SameFaces, ChatGrows
  <2> QED  BY <2>1, <2>3, <2>4, QuietStep
<1> QED  BY <1>2, <1>3, <1>4, RenderedRight, PostedRight, SavedRight, ReadRight, HandEditRight,
            AskedRight DEF Next, Deliver

\* However many workers deliver and handlers answer buttons, and whatever is
\* sent twice: a card shows an older state of its order again only where an
\* edit had read the order before the edit it undoes was made.
THEOREM CardsNeverGoBack == Spec => NeverBack
<1>1. Init => CardInv
  <2> SUFFICES ASSUME Init PROVE CardInv
    OBVIOUS
  <2>1. DOMAIN chat = {} /\ \A o \in Orders, a \in Admins : cards[o][a] = 0
    BY DEF Init
  <2>2. /\ \A w \in Workers : worker[w].phase = "waiting"
        /\ \A h \in Handlers : hand[h] = NoEdit
    BY DEF Init, Waiting
  <2> QED  BY <2>1, <2>2 DEF CardInv, CardsWereTrue, WorkersRight, HandsRight, Ahead
<1>2. SendInv /\ HandInv /\ CardInv /\ [Next]_vars => CardInv'
  BY CardStep
<1>3. SendInv /\ HandInv /\ CardInv /\ [Next]_vars => [NotBack]_vars
  BY CardStep
<1>4. [NotBack]_vars <=> [\A i \in DOMAIN chat :
                            Older(chat'[i].face, chat[i].face) =>
                                \E x \in overtaken \cap Editing(i) : chat'[i].face = FaceOf(x)]_vars
  BY DEF NotBack
<1> QED  BY <1>1, <1>2, <1>3, <1>4, SendInvariant, PTL DEF Spec, NeverBack
=============================================================================
