------------------------------- MODULE Outbox -------------------------------
(***************************************************************************)
(* The transactional outbox of Telegram notifications.  Whoever changes an *)
(* order's status or payment also inserts, in the same transaction, one    *)
(* outbox row per recipient.  Delivery workers lease rows in batches; for  *)
(* each claim they render the message from fresh data, call Telegram with  *)
(* no transaction open, and settle the row if they still hold its lease.   *)
(*                                                                         *)
(* Every order has one customer and, in an administrator's chat, a card    *)
(* whose message id the order remembers so that later events can edit it.  *)
(* A status is visited at most once, so an order's status is the length of *)
(* its history.  Everything that goes wrong (Telegram refusing, a worker   *)
(* dying or outliving its lease, an administrator leaving) is a fault, and *)
(* the faults of a behaviour are bounded.                                  *)
(*                                                                         *)
(* The bot's own handlers write the same cards: a button that leads back   *)
(* to the order reads the order, and edits the message some awaits later;  *)
(* a button that asks for a text puts the question in the card's place.    *)
(*                                                                         *)
(* A definition marked Mutant is a plausible bug in the definition that    *)
(* follows it.  No action uses it: it shows that the properties can fail.  *)
(***************************************************************************)
EXTENDS Integers, Sequences, FiniteSets, FiniteSetsExt

CONSTANTS
    Orders, Admins, Workers,
    Handlers,       \* bot updates that may be in progress at once
    Gateway, Nobody, Customer, NoClaim, NoEdit,
    BatchSize,      \* rows a worker claims at once
    MaxSteps,       \* bound: status changes of an order
    MaxFaults       \* bound: faults

ASSUME Values ==
    /\ Admins \cap {Gateway, Nobody, Customer} = {} /\ Gateway # Nobody
    /\ Workers \cap Handlers = {}
    /\ BatchSize \in Nat \ {0} /\ MaxSteps \in Nat /\ MaxFaults \in Nat

\* What an outbox row is about; its dedupe_key says exactly this.  ref is
\* the status change an event belongs to.
Created == [type: {"created"}, order: Orders, ref: {0}, to: Admins]
StatusNews == [type: {"status"}, order: Orders, ref: 1..MaxSteps, to: {Customer}]
StatusCard == [type: {"card"}, order: Orders, ref: 1..MaxSteps, to: Admins]
PaidNews == [type: {"paid"}, order: Orders, ref: {0}, to: {Customer}]
PaidCard == [type: {"paid_card"}, order: Orders, ref: {0}, to: Admins]
Events == Created \cup StatusNews \cup StatusCard \cup PaidNews \cup PaidCard

VARIABLES
    history,    \* order -> who made each of its status changes
    paidBy,     \* order -> who confirmed its payment
    cards,      \* order -> administrator -> message id, 0 if none (admin_message_ids)
    active,     \* administrators whose account is active
    listening,  \* administrators with notifications enabled
    blocked,    \* orders whose customer is marked as having blocked the bot
    outbox,     \* notification_outbox
    worker,     \* what each worker holds and how far it is
    chat,       \* Telegram: the order cards in administrators' chats
    accepted,   \* history: how often Telegram accepted an event's message
    hand,       \* what each handler is about to write over a card
    overtaken,  \* history: who read an order before its card's latest edit
    faults

vars == <<history, paidBy, cards, active, listening, blocked, outbox, worker,
          chat, accepted, hand, overtaken, faults>>
orderVars == <<history, paidBy, cards, active, listening, blocked>>
handVars == <<hand, overtaken>>
telegramVars == <<chat, accepted>>

NoRow == [status |-> "none", attempts |-> 0]
Row == [status: {"pending", "sending", "sent", "failed"}, attempts: Nat]
\* lease_token is fresh for every claim, as attempts is: a claim carries it.
Claims == [event: Events, token: Nat \ {0}]

ASSUME Table == IsFiniteSet(Events) /\ NoClaim \notin Claims

\* What a card can show: how far the order's status is, and its payment.
Faces == [status: 0..MaxSteps, paid: BOOLEAN]
Face(o) == [status |-> Len(history[o]), paid |-> paidBy[o] # Nobody]

Waiting == [todo |-> {}, claim |-> NoClaim, phase |-> "waiting"]
Working == [todo: SUBSET Claims, claim: Claims, phase: {"rendered", "posted", "saved"},
            face: Faces, message: Nat]
Between == [todo: SUBSET Claims, claim: {NoClaim}, phase: {"waiting"}]

\* What a card last showed of its order, and whether a question now stands
\* in its place.
Cards == [order: Orders, to: Admins, face: Faces, asks: BOOLEAN]
HandEdits == [card: Nat \ {0}, face: Faces]

ASSUME NoEditIsNone == NoEdit \notin HandEdits

-----------------------------------------------------------------------------
Rows == {e \in Events : outbox[e] # NoRow}
Reachable == active \cap listening
Fault(n) == faults + n <= MaxFaults /\ faults' = faults + n

\* enqueue_outbox_event: a row whose dedupe_key exists is left alone.
Enqueue(E) ==
    outbox' = [e \in Events |->
                IF e \in E /\ outbox[e] = NoRow
                THEN [status |-> "pending", attempts |-> 0] ELSE outbox[e]]

\* _enqueue_order_card_updates: for the cards the order remembers by now.
CardEvents(type, o, ref) ==
    {[type |-> type, order |-> o, ref |-> ref, to |-> a] :
        a \in {b \in Reachable : cards[o][b] # 0}}

\* Orders have just been placed: every reachable administrator is told.
Init ==
    /\ history = [o \in Orders |-> <<>>]
    /\ paidBy = [o \in Orders |-> Nobody]
    /\ cards = [o \in Orders |-> [a \in Admins |-> 0]]
    /\ active = Admins /\ listening = Admins /\ blocked = {}
    /\ outbox = [e \in Events |->
                  IF e \in Created THEN [status |-> "pending", attempts |-> 0] ELSE NoRow]
    /\ worker = [w \in Workers |-> Waiting]
    /\ chat = <<>>
    /\ accepted = [e \in Events |-> 0]
    /\ hand = [h \in Handlers |-> NoEdit] /\ overtaken = {}
    /\ faults = 0

-----------------------------------------------------------------------------
(* What happens to orders and administrators. *)

\* advance_status and cancel_order by an administrator.
ChangeStatus(o, a) ==
    /\ a \in active /\ Len(history[o]) < MaxSteps
    /\ history' = [history EXCEPT ![o] = Append(@, a)]
    /\ LET n == Len(history[o]) + 1 IN
        Enqueue(CardEvents("card", o, n) \cup
                {[type |-> "status", order |-> o, ref |-> n, to |-> Customer]})
    /\ UNCHANGED <<paidBy, cards, active, listening, blocked, worker, telegramVars, handVars,
                   faults>>

\* mark_paid by a gateway, which also confirms a new order without a word,
\* or accept_card_transfer_payment by an administrator.
ConfirmPayment(o, by) ==
    /\ paidBy[o] = Nobody
    /\ paidBy' = [paidBy EXCEPT ![o] = by]
    /\ \/ by = Gateway /\ history[o] = <<>> /\ MaxSteps > 0
          /\ history' = [history EXCEPT ![o] = <<Gateway>>]
       \/ by = Gateway /\ history[o] # <<>> /\ UNCHANGED history
       \/ by \in active /\ UNCHANGED history
    /\ Enqueue(CardEvents("paid_card", o, 0) \cup
               {[type |-> "paid", order |-> o, ref |-> 0, to |-> Customer]})
    /\ UNCHANGED <<cards, active, listening, blocked, worker, telegramVars, handVars,
                   faults>>

Leave(a) ==
    /\ \/ a \in active /\ active' = active \ {a} /\ UNCHANGED listening
       \/ a \in listening /\ listening' = listening \ {a} /\ UNCHANGED active
    /\ Fault(1)
    /\ UNCHANGED <<history, paidBy, cards, blocked, outbox, worker, telegramVars, handVars>>

-----------------------------------------------------------------------------
(* Delivery. *)

\* A claim is alive while its worker has it; a lease runs out for certain
\* once the worker is gone, and by mischance (a fault) before that.
Held(e) == \E w \in Workers : \E c \in worker[w].todo \cup {worker[w].claim} :
                c # NoClaim /\ c.event = e /\ c.token = outbox[e].attempts

\* Mutants: a lease counts for nothing; a lease never runs out.
AbandonedAtOnce == {e \in Rows : outbox[e].status = "sending"}

AbandonedNever == {}

Abandoned == {e \in Rows : outbox[e].status = "sending" /\ ~Held(e)}
Overdue == {e \in Rows : outbox[e].status = "sending" /\ Held(e)}
Pending == {e \in Rows : outbox[e].status = "pending"}

\* claim_outbox_batch: as many due rows as the batch takes.  A worker that
\* still has claims goes on with those first.
ClaimBatch(w) ==
    /\ worker[w] = Waiting
    /\ \E late \in SUBSET Overdue :
        LET due == Pending \cup Abandoned \cup late IN
        \E batch \in SUBSET due :
            /\ batch # {} /\ late \subseteq batch
            /\ Cardinality(batch) = Min({BatchSize, Cardinality(due)})
            /\ Fault(Cardinality(late))
            /\ outbox' = [e \in Events |->
                            IF e \in batch
                            THEN [status |-> "sending", attempts |-> outbox[e].attempts + 1]
                            ELSE outbox[e]]
            /\ worker' = [worker EXCEPT ![w].todo =
                            {[event |-> e, token |-> outbox[e].attempts + 1] : e \in batch}]
    /\ UNCHANGED <<orderVars, telegramVars, handVars>>

\* Mutant: a row is settled whoever holds its lease.
SettleAnyway(c, status) == outbox' = [outbox EXCEPT ![c.event].status = status]

\* ack_outbox, retry_outbox, _fail_outbox: only under the claim's own lease.
Settle(c, status) ==
    outbox' = IF outbox[c.event] = [status |-> "sending", attempts |-> c.token]
              THEN [outbox EXCEPT ![c.event].status = status] ELSE outbox

Live(actor) == actor = Gateway \/ actor \in active

\* _render_event: whether there is still something to say, and to whom.
Renders(e) ==
    \/ e \in Created /\ e.to \in Reachable
    \/ e \in StatusNews /\ history[e.order][e.ref] \in active /\ e.order \notin blocked
    \/ /\ e \in StatusCard /\ e.to \in Reachable /\ cards[e.order][e.to] # 0
       /\ history[e.order][e.ref] \in active /\ e.ref = Len(history[e.order])
    \/ e \in PaidNews /\ Live(paidBy[e.order]) /\ e.order \notin blocked
    \/ e \in PaidCard /\ e.to \in Reachable /\ Live(paidBy[e.order])
       /\ cards[e.order][e.to] # 0

Rest(w) == [todo |-> worker[w].todo, claim |-> NoClaim, phase |-> "waiting"]

\* Mutant: the card shows the status that was queued with the event.
RenderQueued(w) ==
    /\ worker[w].phase = "waiting"
    /\ \E c \in worker[w].todo :
        /\ Renders(c.event)
        /\ worker' = [worker EXCEPT ![w] =
             [todo |-> @.todo \ {c}, claim |-> c, phase |-> "rendered",
              face |-> [Face(c.event.order) EXCEPT !.status = c.event.ref],
              message |-> IF c.event.to = Customer THEN 0
                          ELSE cards[c.event.order][c.event.to]]]
    /\ overtaken' = overtaken \ {w}
    /\ UNCHANGED <<orderVars, outbox, telegramVars, hand, faults>>

\* _process_claim begins: a claim with nothing to render fails there.
Render(w) ==
    /\ worker[w].phase = "waiting"
    /\ \E c \in worker[w].todo :
        LET rest == worker[w].todo \ {c} IN
        \/ /\ Renders(c.event)
           /\ worker' = [worker EXCEPT ![w] =
                [todo |-> rest, claim |-> c, phase |-> "rendered",
                 face |-> Face(c.event.order),
                 message |-> IF c.event.to = Customer THEN 0
                             ELSE cards[c.event.order][c.event.to]]]
           /\ UNCHANGED outbox
        \/ /\ ~Renders(c.event)
           /\ worker' = [worker EXCEPT ![w] = [Rest(w) EXCEPT !.todo = rest]]
           /\ Settle(c, "failed")
    /\ overtaken' = overtaken \ {w}
    /\ UNCHANGED <<orderVars, telegramVars, hand, faults>>

\* Who is about to edit message i, and what it will show then.
Editing(i) ==
    {w \in Workers : worker[w].phase = "rendered" /\ worker[w].message = i
                     /\ worker[w].claim.event \in StatusCard \cup PaidCard}
    \cup {h \in Handlers : hand[h] # NoEdit /\ hand[h].card = i}
FaceOf(x) == IF x \in Workers THEN worker[x].face ELSE hand[x].face

\* editMessageText by x: whoever else has the card in hand is overtaken.
Edit(x, i) ==
    /\ chat' = [chat EXCEPT ![i].face = FaceOf(x), ![i].asks = FALSE]
    /\ overtaken' = (overtaken \cup Editing(i)) \ {x}

\* Telegram accepts: a first card appears as a new message, an update edits
\* the message the order remembered when it was rendered.
Post(w) ==
    /\ worker[w].phase = "rendered"
    /\ LET e == worker[w].claim.event
           card == [order |-> e.order, to |-> e.to, face |-> worker[w].face,
                    asks |-> FALSE] IN
        /\ accepted' = [accepted EXCEPT ![e] = @ + 1]
        /\ \/ /\ e \in Created
              /\ chat' = Append(chat, card) /\ UNCHANGED overtaken
              /\ worker' = [worker EXCEPT ![w].phase = "posted",
                                          ![w].message = Len(chat) + 1]
           \/ /\ e \in StatusCard \cup PaidCard
              /\ Edit(w, worker[w].message)
              /\ worker' = [worker EXCEPT ![w].phase = "saved"]
           \/ /\ e \in StatusNews \cup PaidNews
              /\ worker' = [worker EXCEPT ![w].phase = "saved"]
              /\ UNCHANGED <<chat, overtaken>>
    /\ UNCHANGED <<orderVars, outbox, hand, faults>>

\* _save_admin_message_id, in a transaction of its own.
SaveMessageId(w) ==
    /\ worker[w].phase = "posted"
    /\ LET e == worker[w].claim.event IN
        cards' = [cards EXCEPT ![e.order][e.to] = worker[w].message]
    /\ worker' = [worker EXCEPT ![w].phase = "saved"]
    /\ UNCHANGED <<history, paidBy, active, listening, blocked, outbox, telegramVars, handVars,
                   faults>>

Acknowledge(w) ==
    /\ worker[w].phase = "saved"
    /\ Settle(worker[w].claim, "sent")
    /\ worker' = [worker EXCEPT ![w] = Rest(w)]
    /\ UNCHANGED <<orderVars, telegramVars, handVars, faults>>

\* An edit that changes nothing is refused by Telegram as a bad request.
Unmodified(w) ==
    /\ worker[w].phase = "rendered" /\ worker[w].claim.event \in StatusCard \cup PaidCard
    /\ LET card == chat[worker[w].message] IN card.face = worker[w].face /\ ~card.asks
    /\ Settle(worker[w].claim, "failed")
    /\ worker' = [worker EXCEPT ![w] = Rest(w)]
    /\ UNCHANGED <<orderVars, telegramVars, handVars, faults>>

\* What else can go wrong with a claim: a temporary error, or an answer that
\* is lost after Telegram accepted, is tried again later; a refusal, also of
\* the receipt photo that follows a first card, is final, and one for having
\* been blocked is remembered of the customer.
Trouble(w) ==
    /\ worker[w].phase # "waiting"
    /\ LET c == worker[w].claim IN
        \/ Settle(c, "pending") /\ UNCHANGED blocked
        \/ /\ worker[w].phase = "rendered" \/ (worker[w].phase = "saved" /\ c.event \in Created)
           /\ Settle(c, "failed")
           /\ \/ UNCHANGED blocked
              \/ c.event.to = Customer /\ blocked' = blocked \cup {c.event.order}
    /\ worker' = [worker EXCEPT ![w] = Rest(w)]
    /\ Fault(1)
    /\ UNCHANGED <<history, paidBy, cards, active, listening, telegramVars, handVars>>

\* The process dies, or is told to stop: all its claims are left to expire.
\* Telegram may have accepted what it was sending.
Stop(w) ==
    /\ worker[w] # Waiting
    /\ worker' = [worker EXCEPT ![w] = Waiting]
    /\ Fault(1)
    /\ UNCHANGED <<orderVars, outbox, telegramVars, handVars>>

-----------------------------------------------------------------------------
(* The buttons under a card, pressed by its administrator. *)

\* on_back_to_order reads the order and its customer.
BackToOrder(h, i) ==
    /\ hand[h] = NoEdit /\ chat[i].to \in active
    /\ hand' = [hand EXCEPT ![h] = [card |-> i, face |-> Face(chat[i].order)]]
    /\ overtaken' = overtaken \ {h}
    /\ UNCHANGED <<orderVars, outbox, worker, telegramVars, faults>>

\* _render_order_card; or Telegram refuses, or the handler dies before it.
RenderOrderCard(h) ==
    /\ hand[h] # NoEdit
    /\ \/ Edit(h, hand[h].card)
       \/ UNCHANGED <<chat, overtaken>>
    /\ hand' = [hand EXCEPT ![h] = NoEdit]
    /\ UNCHANGED <<orderVars, outbox, worker, accepted, faults>>

\* on_cancel_reason_selected ("other") and on_write_via_bot: what is asked
\* does not depend on the order.
AskForText(h, i) ==
    /\ hand[h] = NoEdit /\ chat[i].to \in active
    /\ chat' = [chat EXCEPT ![i].asks = TRUE]
    /\ UNCHANGED <<orderVars, outbox, worker, accepted, handVars, faults>>

-----------------------------------------------------------------------------
Deliver(w) ==
    ClaimBatch(w) \/ Render(w) \/ Post(w) \/ SaveMessageId(w) \/ Acknowledge(w)

Next ==
    \/ \E o \in Orders : \E a \in Admins : ChangeStatus(o, a)
    \/ \E o \in Orders : \E by \in Admins \cup {Gateway} : ConfirmPayment(o, by)
    \/ \E a \in Admins : Leave(a)
    \/ \E w \in Workers : Deliver(w) \/ Unmodified(w) \/ Trouble(w) \/ Stop(w)
    \/ \E h \in Handlers, i \in DOMAIN chat : BackToOrder(h, i) \/ AskForText(h, i)
    \/ \E h \in Handlers : RenderOrderCard(h)

Spec == Init /\ [][Next]_vars

\* The worker loop never stops polling while the process runs.
FairSpec == Spec /\ \A w \in Workers : WF_vars(Deliver(w))

-----------------------------------------------------------------------------
(* Properties. *)

\* The shape of every variable; a claim in progress belongs to its worker.
TypeOK ==
    /\ history \in [Orders -> Seq(Admins \cup {Gateway})]
    /\ paidBy \in [Orders -> Admins \cup {Gateway, Nobody}]
    /\ cards \in [Orders -> [Admins -> Nat]]
    /\ active \in SUBSET Admins /\ listening \in SUBSET Admins /\ blocked \in SUBSET Orders
    /\ outbox \in [Events -> Row \cup {NoRow}]
    /\ worker \in [Workers -> Working \cup Between]
    /\ \A i \in DOMAIN chat : chat[i] \in Cards
    /\ hand \in [Handlers -> HandEdits \cup {NoEdit}]
    /\ \A h \in Handlers : hand[h] # NoEdit => hand[h].card \in DOMAIN chat
    /\ overtaken \in SUBSET (Workers \cup Handlers)
    /\ accepted \in [Events -> Nat] /\ faults \in 0..MaxFaults

\* Delivery is at least once, but one lease never sends twice: Telegram has
\* accepted a message at most as often as its row was claimed, and every
\* extra copy is owed to a fault.
OneSendPerLease ==
    \A e \in Events : accepted[e] <= outbox[e].attempts /\ outbox[e].attempts <= 1 + faults

Older(f, g) == f.status < g.status \/ (g.paid /\ ~f.paid)

\* Whether a worker or a handler of the bot edits it, a card goes back to an
\* older state of its order in one case only: who edits it read the order,
\* then somebody else edited the card, and then he wrote what he had read.
\* A single worker on its own, as the application runs it, never does.
NeverBack ==
    [][\A i \in DOMAIN chat :
        Older(chat'[i].face, chat[i].face) =>
            \E x \in overtaken \cap Editing(i) : chat'[i].face = FaceOf(x)]_vars

\* A settled row is never touched again: a worker that outlived its lease
\* cannot revive, fail or acknowledge what another one has settled.
SettledForGood ==
    [][\A e \in Rows : outbox[e].status \in {"sent", "failed"} => outbox'[e] = outbox[e]]_vars

\* Every row is settled in the end, after whatever restarts and retries.
AllSettle ==
    \A e \in Events : outbox[e] # NoRow ~> outbox[e].status \in {"sent", "failed"}

\* "Any status-changing action re-renders every admin's copy": when nothing
\* is left to deliver, each remembered card shows its order as it is.
CardsInSync ==
    (\A e \in Rows : outbox[e].status \in {"sent", "failed"}) =>
        \A o \in Orders, a \in Reachable :
            cards[o][a] # 0 => chat[cards[o][a]].face = Face(o)

=============================================================================
