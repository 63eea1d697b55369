------------------------------ MODULE Payments ------------------------------
(***************************************************************************)
(* How an order gets paid: the callbacks of the two gateways (Click's      *)
(* Prepare and Complete, Payme's Create, Perform and Cancel), the private  *)
(* receipt of a card transfer and its acceptance by an administrator, and  *)
(* the order's own life beside them.                                       *)
(*                                                                         *)
(* A gateway request may arrive any number of times, in any order, on      *)
(* several workers at once, or never.  A worker job[w] first reads without *)
(* a lock, then waits for the order's row lock; what it does under that    *)
(* lock commits as one step, except that an upload writes its file first   *)
(* and may die before it commits.                                          *)
(*                                                                         *)
(* A definition marked Mutant is a plausible bug in the definition that    *)
(* follows it.  No action uses it: it shows that the properties can fail.  *)
(***************************************************************************)
EXTENDS Integers, FiniteSets

CONSTANTS
    Orders, Workers, Admins,
    Method,         \* order -> "click", "payme" or "card_transfer"
    Total,          \* order -> amount charged
    Amounts,        \* amounts a request may name
    Transactions,   \* the gateways' own transaction ids
    Variants,       \* the rest of a request's payload
    NoTx, NoReceipt, NoAdmin, NoView,
    MaxTx,          \* bound: payment_transactions rows
    MaxObjects      \* bound: receipt objects written

ASSUME Shop ==
    /\ Method \in [Orders -> {"click", "payme", "card_transfer"}]
    /\ Total \in [Orders -> Amounts]
    /\ MaxTx \in Nat /\ MaxObjects \in Nat

TxIds == 1..MaxTx
Objects == 1..MaxObjects

ASSUME NotValues ==
    NoTx \notin TxIds /\ NoReceipt \notin Objects /\ NoAdmin \notin Admins

Prepare == [call: {"prepare"}, trans: Transactions, order: Orders,
            amount: Amounts, variant: Variants]
Complete == [call: {"complete"}, trans: Transactions, order: Orders,
             amount: Amounts, variant: Variants, prepare: TxIds, failed: BOOLEAN]
Create == [call: {"create"}, trans: Transactions, order: Orders,
           amount: Amounts, variant: Variants]
Perform == [call: {"perform"}, trans: Transactions, variant: Variants]
Withdraw == [call: {"withdraw"}, trans: Transactions, variant: Variants]
Request == Prepare \cup Complete \cup Create \cup Perform \cup Withdraw

Provider(r) == IF r.call \in {"prepare", "complete"} THEN "click" ELSE "payme"

VARIABLES
    order,      \* orders: the columns payment depends on
    txn,        \* payment_transactions
    nextTx,     \* its id sequence
    objects,    \* receipt files in private storage
    active,     \* administrators that are active and may handle orders
    job,        \* what each worker is in the middle of
    view,       \* what each administrator has on screen
    replies,    \* history: requests answered with success, and the row named
    approved    \* history: the receipt an accepting administrator had seen

vars == <<order, txn, nextTx, objects, active, job, view, replies, approved>>

NoRow == [state |-> "none"]
Idle == [call |-> "idle"]
NoRequest == [call |-> "none"]

\* once: whether the transaction ever completed; a refund leaves it set.
TxRow == [state: {"pending", "paid", "cancelled"}, provider: {"click", "payme"},
          trans: Transactions, order: Orders, amount: Amounts,
          opened: Prepare \cup Create,
          closed: Complete \cup Perform \cup {NoRequest}, once: BOOLEAN]

OrderRow == [status: {"new", "confirmed", "preparing", "delivering",
                      "completed", "cancelled"},
             payment: {"pending", "receipt_uploaded", "paid"},
             receipt: Objects \cup {NoReceipt}, version: Nat,
             reviewer: Admins \cup {NoAdmin}]

Callback == [call: {"callback"}, request: Request, known: TxIds \cup {NoTx}]
Upload == [call: {"upload"}, order: Orders, object: Objects]
Screen == [order: Orders, version: Nat, seen: Objects \cup {NoReceipt}]
Review == [call: {"review"}, admin: Admins, screen: Screen]

-----------------------------------------------------------------------------
Issued == {i \in TxIds : txn[i] # NoRow}
Of(o, provider) == {i \in Issued : txn[i].order = o /\ txn[i].provider = provider}

\* get_by_provider_tx_id; the unique constraint makes it one row at most.
Found(r) == {i \in Issued : txn[i].provider = Provider(r) /\ txn[i].trans = r.trans}

\* get_by_order_and_provider: the newest row.
Latest(o, provider) == {i \in Of(o, provider) : \A j \in Of(o, provider) : j <= i}

IsTerminal(o) == order[o].status \in {"completed", "cancelled"}
\* Mutant: a cancelled or completed order can still be paid.
PayableAnyway(o, provider) == Method[o] = provider /\ order[o].payment # "paid"

Payable(o, provider) ==
    Method[o] = provider /\ order[o].payment # "paid" /\ ~IsTerminal(o)

\* Only an upload keeps an order locked between two steps, and only a
\* review keeps its administrator's row locked while it waits for an order.
OrderFree(o) == \A w \in Workers : ~(job[w].call = "upload" /\ job[w].order = o)
AdminFree(a) == \A w \in Workers : ~(job[w].call = "review" /\ job[w].admin = a)

Handling(w, calls) == job[w].call = "callback" /\ job[w].request.call \in calls

Init ==
    /\ order = [o \in Orders |->
                 [status |-> "new", payment |-> "pending", receipt |-> NoReceipt,
                  version |-> 0, reviewer |-> NoAdmin]]
    /\ txn = [i \in TxIds |-> NoRow]
    /\ nextTx = 1
    /\ objects = {}
    /\ active = Admins
    /\ job = [w \in Workers |-> Idle]
    /\ view = [a \in Admins |-> NoView]
    /\ replies = {}
    /\ approved = [o \in Orders |-> NoReceipt]

manualVars == <<objects, active, view, approved>>
gatewayVars == <<txn, nextTx, replies>>

Done(w) == job' = [job EXCEPT ![w] = Idle]
Reply(r, i) == replies' = replies \cup {[request |-> r, tx |-> i]}

-----------------------------------------------------------------------------
(* Gateway callbacks. *)

\* The first, unlocked read.  A transaction nobody knows ends the callback
\* there, unless the request is to open it.
Receive(w, r) ==
    /\ job[w] = Idle
    /\ \E known \in IF Found(r) = {} THEN {NoTx} ELSE Found(r) :
        /\ r.call \in {"complete", "perform", "withdraw"} => known # NoTx
        /\ job' = [job EXCEPT ![w] = [call |-> "callback", request |-> r, known |-> known]]
    /\ UNCHANGED <<order, manualVars, gatewayVars>>

Insert(r) ==
    /\ nextTx <= MaxTx
    /\ txn' = [txn EXCEPT ![nextTx] =
                [state |-> "pending", provider |-> Provider(r), trans |-> r.trans,
                 order |-> r.order, amount |-> r.amount, opened |-> r,
                 closed |-> NoRequest, once |-> FALSE]]
    /\ nextTx' = nextTx + 1
    /\ Reply(r, nextTx)

\* click_prepare, under the order lock: an id seen before is only confirmed,
\* a new one opens a transaction if the order can still be paid.
ClickPrepare(w) ==
    /\ Handling(w, {"prepare"})
    /\ LET r == job[w].request IN
        /\ OrderFree(r.order) /\ Method[r.order] = "click" /\ r.amount = Total[r.order]
        /\ \/ \E i \in Found(r) :
                /\ txn[i].order = r.order /\ txn[i].opened = r
                /\ Reply(r, i)
                /\ UNCHANGED <<txn, nextTx>>
           \/ Found(r) = {} /\ Payable(r.order, "click") /\ Insert(r)
    /\ Done(w)
    /\ UNCHANGED <<order, manualVars>>

\* Mutant: an order that was confirmed before it was paid is left alone.
MarkNewPaid(o) ==
    order' = [order EXCEPT ![o].payment = IF order[o].status = "new" THEN "paid" ELSE @,
                           ![o].status = IF @ = "new" THEN "confirmed" ELSE @]

\* mark_paid: a verified gateway payment also confirms a new order.
MarkPaid(o) ==
    order' = [order EXCEPT ![o].payment = "paid",
                           ![o].status = IF @ = "new" THEN "confirmed" ELSE @]

NoOtherPaid(i) ==
    \A j \in Of(txn[i].order, txn[i].provider) \ {i} : txn[j].state # "paid"

Matches(r, i) ==
    /\ r.prepare = i /\ txn[i].order = r.order /\ Method[r.order] = "click"
    /\ r.amount = Total[r.order] /\ r.amount = txn[i].amount

\* Mutant: the order is not checked again after Prepare.
CompleteAsPrepared(w) ==
    /\ Handling(w, {"complete"})
    /\ LET r == job[w].request
           i == job[w].known IN
        /\ OrderFree(txn[i].order) /\ Matches(r, i)
        /\ txn[i].state = "pending" /\ ~r.failed
        /\ txn' = [txn EXCEPT ![i].state = "paid", ![i].closed = r, ![i].once = TRUE]
        /\ MarkPaid(txn[i].order)
        /\ Reply(r, i)
    /\ Done(w)
    /\ UNCHANGED <<nextTx, manualVars>>

\* click_complete: replays answer only the identical request; a failure the
\* gateway reports cancels; otherwise the order is paid, if it still can be.
ClickComplete(w) ==
    /\ Handling(w, {"complete"})
    /\ LET r == job[w].request
           i == job[w].known IN
        /\ OrderFree(txn[i].order) /\ Matches(r, i)
        /\ \/ /\ txn[i].state # "pending" /\ txn[i].closed = r
              /\ UNCHANGED <<order, txn>>
           \/ /\ txn[i].state = "pending" /\ r.failed
              /\ txn' = [txn EXCEPT ![i].state = "cancelled", ![i].closed = r]
              /\ UNCHANGED order
           \/ /\ txn[i].state = "pending" /\ ~r.failed
              /\ Payable(txn[i].order, "click") /\ NoOtherPaid(i)
              /\ txn' = [txn EXCEPT ![i].state = "paid", ![i].closed = r, ![i].once = TRUE]
              /\ MarkPaid(txn[i].order)
        /\ Reply(r, i)
    /\ Done(w)
    /\ UNCHANGED <<nextTx, manualVars>>

\* _payme_create_transaction: the replay branch is chosen by the unlocked
\* read; a new transaction needs an order without a pending one, and an id
\* the unique constraint has not seen by then.
PaymeCreate(w) ==
    /\ Handling(w, {"create"})
    /\ LET r == job[w].request
           i == job[w].known IN
        /\ \/ /\ i # NoTx /\ OrderFree(txn[i].order) /\ txn[i].opened = r
              /\ r.amount = Total[txn[i].order] /\ txn[i].state # "cancelled"
              /\ Reply(r, i)
              /\ UNCHANGED <<txn, nextTx>>
           \/ /\ i = NoTx /\ OrderFree(r.order) /\ Found(r) = {}
              /\ r.amount = Total[r.order] /\ Payable(r.order, "payme")
              /\ \A j \in Latest(r.order, "payme") : txn[j].state # "pending"
              /\ Insert(r)
    /\ Done(w)
    /\ UNCHANGED <<order, manualVars>>

\* Mutants: a cancelled transaction is answered as performed; a cancelled
\* transaction is performed.
PerformAnswered(w) ==
    /\ Handling(w, {"perform"})
    /\ LET i == job[w].known IN
        /\ OrderFree(txn[i].order) /\ txn[i].state # "pending"
        /\ Reply(job[w].request, i)
    /\ Done(w)
    /\ UNCHANGED <<order, txn, nextTx, manualVars>>

PerformCancelled(w) ==
    /\ Handling(w, {"perform"})
    /\ LET r == job[w].request
           i == job[w].known IN
        /\ OrderFree(txn[i].order) /\ txn[i].state # "paid"
        /\ Payable(txn[i].order, "payme") /\ NoOtherPaid(i)
        /\ txn' = [txn EXCEPT ![i].state = "paid", ![i].closed = r, ![i].once = TRUE]
        /\ MarkPaid(txn[i].order)
        /\ Reply(r, i)
    /\ Done(w)
    /\ UNCHANGED <<nextTx, manualVars>>

PaymePerform(w) ==
    /\ Handling(w, {"perform"})
    /\ LET r == job[w].request
           i == job[w].known IN
        /\ OrderFree(txn[i].order)
        /\ \/ /\ txn[i].state = "paid" /\ txn[i].closed = r
              /\ UNCHANGED <<order, txn>>
           \/ /\ txn[i].state = "pending"
              /\ Payable(txn[i].order, "payme") /\ NoOtherPaid(i)
              /\ txn' = [txn EXCEPT ![i].state = "paid", ![i].closed = r, ![i].once = TRUE]
              /\ MarkPaid(txn[i].order)
        /\ Reply(r, i)
    /\ Done(w)
    /\ UNCHANGED <<nextTx, manualVars>>

\* _payme_cancel_transaction: also after completion, as a refund; the
\* order's own payment status is left to an administrator.
PaymeCancel(w) ==
    /\ Handling(w, {"withdraw"})
    /\ LET r == job[w].request
           i == job[w].known IN
        /\ OrderFree(txn[i].order)
        /\ txn' = [txn EXCEPT ![i].state = "cancelled"]
        /\ Reply(r, i)
    /\ Done(w)
    /\ UNCHANGED <<order, nextTx, manualVars>>

\* An error answer changes nothing, and neither does a worker that dies
\* before it commits; a receipt file already written stays behind.
GiveUp(w) ==
    /\ job[w] # Idle
    /\ Done(w)
    /\ UNCHANGED <<order, manualVars, gatewayVars>>

-----------------------------------------------------------------------------
(* Card transfers. *)

\* Mutant: a file name is not drawn afresh for every upload.
BeginUploadAgain(w, o, f) ==
    /\ job[w] = Idle /\ OrderFree(o)
    /\ Method[o] = "card_transfer" /\ ~IsTerminal(o)
    /\ order[o].payment \in {"pending", "receipt_uploaded"}
    /\ objects' = objects \cup {f}
    /\ job' = [job EXCEPT ![w] = [call |-> "upload", order |-> o, object |-> f]]
    /\ UNCHANGED <<order, active, view, approved, gatewayVars>>

\* attach_card_transfer_receipt: under the order lock the file is stored ...
BeginUpload(w, o, f) ==
    /\ job[w] = Idle /\ OrderFree(o) /\ f \notin objects
    /\ Method[o] = "card_transfer" /\ ~IsTerminal(o)
    /\ order[o].payment \in {"pending", "receipt_uploaded"}
    /\ objects' = objects \cup {f}
    /\ job' = [job EXCEPT ![w] = [call |-> "upload", order |-> o, object |-> f]]
    /\ UNCHANGED <<order, active, view, approved, gatewayVars>>

\* ... and then the order refers to it, as a new version of the receipt.
FinishUpload(w) ==
    /\ job[w].call = "upload"
    /\ order' = [order EXCEPT ![job[w].order].receipt = job[w].object,
                              ![job[w].order].version = @ + 1,
                              ![job[w].order].payment = "receipt_uploaded"]
    /\ Done(w)
    /\ UNCHANGED <<manualVars, gatewayVars>>

\* An administrator's screen shows an order's receipt version, and then,
\* read on its own, the receipt.
ReadOrder(a, o) ==
    /\ view' = [view EXCEPT ![a] =
                 [order |-> o, version |-> order[o].version, seen |-> NoReceipt]]
    /\ UNCHANGED <<order, objects, active, job, approved, gatewayVars>>

OpenReceipt(a) ==
    /\ view[a] # NoView /\ a \in active
    /\ order[view[a].order].receipt \in objects
    /\ view' = [view EXCEPT ![a].seen = order[view[a].order].receipt]
    /\ UNCHANGED <<order, objects, active, job, approved, gatewayVars>>

\* accept_card_transfer_payment: the administrator's row is locked and
\* checked first, then the order's.  The version comes from the screen.
BeginAccept(w, a) ==
    /\ job[w] = Idle /\ view[a] # NoView /\ view[a].seen # NoReceipt
    /\ AdminFree(a) /\ a \in active
    /\ job' = [job EXCEPT ![w] = [call |-> "review", admin |-> a, screen |-> view[a]]]
    /\ UNCHANGED <<order, manualVars, gatewayVars>>

FinishAccept(w) ==
    /\ job[w].call = "review"
    /\ LET a == job[w].admin
           o == job[w].screen.order IN
        /\ OrderFree(o)
        /\ job[w].screen.version = order[o].version
        /\ Method[o] = "card_transfer" /\ order[o].payment = "receipt_uploaded"
        /\ ~IsTerminal(o)
        /\ order' = [order EXCEPT ![o].payment = "paid", ![o].reviewer = a]
        /\ approved' = [approved EXCEPT ![o] = job[w].screen.seen]
    /\ Done(w)
    /\ UNCHANGED <<objects, active, view, gatewayVars>>

\* Deactivating an administrator writes the row a review keeps locked.
Deactivate(a) ==
    /\ AdminFree(a)
    /\ active' = active \ {a}
    /\ UNCHANGED <<order, objects, job, view, approved, gatewayVars>>

-----------------------------------------------------------------------------
(* The order's own life. *)

AllowedTransitions ==
    [new |-> {"confirmed"}, confirmed |-> {"preparing"},
     preparing |-> {"delivering", "completed"}, delivering |-> {"completed"},
     completed |-> {}, cancelled |-> {}]

AdvanceStatus(o, s) ==
    /\ OrderFree(o) /\ s \in AllowedTransitions[order[o].status]
    /\ order' = [order EXCEPT ![o].status = s]
    /\ UNCHANGED <<job, manualVars, gatewayVars>>

CancelOrder(o) ==
    /\ OrderFree(o) /\ ~IsTerminal(o)
    /\ order' = [order EXCEPT ![o].status = "cancelled"]
    /\ UNCHANGED <<job, manualVars, gatewayVars>>

Work(w) ==
    \/ \E r \in Request : Receive(w, r)
    \/ ClickPrepare(w) \/ ClickComplete(w)
    \/ PaymeCreate(w) \/ PaymePerform(w) \/ PaymeCancel(w)
    \/ \E o \in Orders, f \in Objects : BeginUpload(w, o, f)
    \/ FinishUpload(w)
    \/ \E a \in Admins : BeginAccept(w, a)
    \/ FinishAccept(w)
    \/ GiveUp(w)

Office ==
    \/ \E a \in Admins :
        \/ \E o \in Orders : ReadOrder(a, o)
        \/ OpenReceipt(a) \/ Deactivate(a)
    \/ \E o \in Orders : \E s \in AllowedTransitions[order[o].status] : AdvanceStatus(o, s)
    \/ \E o \in Orders : CancelOrder(o)

Next == Office \/ \E w \in Workers : Work(w)

Spec == Init /\ [][Next]_vars

-----------------------------------------------------------------------------
(* Properties. *)

\* The shape of every variable: rows, receipts, work in progress, history.
TypeOK ==
    /\ order \in [Orders -> OrderRow]
    /\ txn \in [TxIds -> TxRow \cup {NoRow}]
    /\ nextTx \in 1..(MaxTx + 1)
    /\ \A i \in TxIds : i < nextTx <=> txn[i] # NoRow
    /\ objects \in SUBSET Objects
    /\ active \in SUBSET Admins
    /\ job \in [Workers -> Callback \cup Upload \cup Review \cup {Idle}]
    /\ \A w \in Workers : job[w].call = "callback" =>
        /\ job[w].known # NoTx => job[w].known \in Found(job[w].request)
        /\ job[w].request.call \in {"complete", "perform", "withdraw"} => job[w].known # NoTx
    /\ view \in [Admins -> Screen \cup {NoView}]
    /\ replies \in SUBSET [request: Request, tx: TxIds]
    /\ approved \in [Orders -> Objects \cup {NoReceipt}]

\* Webhooks are sent twice, late, and to several workers at once; still no
\* order is ever charged by two transactions, not even after a refund.
ChargedOnce ==
    \A i, j \in Issued :
        txn[i].once /\ txn[j].once /\ txn[i].order = txn[j].order => i = j

\* What a gateway was told stays true: a completion we confirmed belongs to
\* a paid order and charged exactly its total, a failure we confirmed never
\* paid it, and one request is always answered with the same transaction.
ConfirmedStands ==
    \A m \in replies :
        LET t == txn[m.tx] IN
        /\ m.tx \in Issued /\ t.trans = m.request.trans /\ t.amount = Total[t.order]
        /\ m.request.call = "perform" \/ (m.request.call = "complete" /\ ~m.request.failed)
            => t.once /\ order[t.order].payment = "paid"
        /\ m.request.call = "complete" /\ m.request.failed => t.state = "cancelled" /\ ~t.once
        /\ \A n \in replies : n.request = m.request => n.tx = m.tx

\* An order is paid exactly when a gateway transaction completed for it, or
\* an administrator accepted the very receipt file the order still refers to.
PaidHasEvidence ==
    \A o \in Orders :
        /\ order[o].payment = "paid" <=>
            \/ \E i \in Issued : txn[i].once /\ txn[i].order = o
            \/ order[o].reviewer # NoAdmin
        /\ order[o].reviewer # NoAdmin =>
            /\ order[o].receipt = approved[o] /\ approved[o] \in objects
            /\ Method[o] = "card_transfer"

\* Payme has one transaction in the air for an order at a time: a second
\* create is refused however the two were interleaved with a cancellation.
OnePending ==
    \A i, j \in Issued :
        /\ txn[i].provider = "payme" /\ txn[j].provider = "payme"
        /\ txn[i].state = "pending" /\ txn[j].state = "pending"
        /\ txn[i].order = txn[j].order
        => i = j

\* An order refers only to a receipt file that was stored before, whichever
\* upload died where, and never to the file of another order.
ReceiptsStored ==
    \A o \in Orders : order[o].receipt # NoReceipt =>
        /\ order[o].receipt \in objects
        /\ \A q \in Orders \ {o} : order[q].receipt # order[o].receipt

\* Money is only taken for an order that is still open, with callbacks and
\* reviews racing its cancellation; a gateway payment leaves it confirmed.
ChargedWhileOpen ==
    [][\A o \in Orders : order[o].payment # "paid" /\ order'[o].payment = "paid" =>
        /\ ~IsTerminal(o)
        /\ Method[o] # "card_transfer" => order'[o].status # "new"]_vars

\* A settled transaction stays settled: nothing reopens it, only Payme's
\* refund takes back a payment, and an acceptance is never overwritten.
SettledStands ==
    [][/\ \A i \in Issued :
            /\ txn[i].state = "cancelled" => txn'[i] = txn[i]
            /\ txn[i].state = "paid" /\ txn'[i] # txn[i] =>
                txn[i].provider = "payme" /\ txn'[i] = [txn[i] EXCEPT !.state = "cancelled"]
       /\ \A o \in Orders : order[o].reviewer # NoAdmin =>
            order'[o] = [order[o] EXCEPT !.status = order'[o].status]]_vars

\* The administrator recorded as reviewer may still handle orders at the
\* moment the acceptance commits, not only when it was checked.
ReviewerActive ==
    [][\A o \in Orders : order'[o].reviewer # order[o].reviewer
        => order'[o].reviewer \in active']_vars

=============================================================================
