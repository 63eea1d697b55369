-------------------------- MODULE CheckoutDialogue --------------------------
(***************************************************************************)
(* The checkout conversation of one customer with the bot                  *)
(* (bot/handlers/user/checkout.py, and the ways out of it in cart.py and   *)
(* start.py).  The answers are collected under keys that outlive the step  *)
(* they belong to; every button of every earlier message stays in the chat *)
(* and works whenever the conversation is in its state again; and two      *)
(* updates of one chat are handled at the same time, so that the handler   *)
(* of the confirm button acts on answers read a while ago, and the one     *)
(* that shows the summary compares and reuses the key it read before it    *)
(* waited for the quote, and writes into whatever the data are by then.    *)
(* Purchase models the order that is made.                                 *)
(*                                                                         *)
(* A read, or an update, of the conversation's data is one step: what the  *)
(* storage makes of two updates at the same moment is not modelled.  A     *)
(* summary counts as shown when its key is written; the message follows.   *)
(*                                                                         *)
(* A quote is the data its fingerprint is taken from.  The name stands for *)
(* name and phone, the address for address, its comment and coordinates.   *)
(*                                                                         *)
(* A definition marked Mutant is a plausible bug in the definition that    *)
(* follows it.  No action uses it: it shows that the properties can fail.  *)
(***************************************************************************)
EXTENDS Naturals

CONSTANTS
    Names, Addresses, Comments,
    OrderTypes, Methods,    \* delivery, pickup, preorder; cash, card, online
    Carts,          \* contents of a cart that is not empty
    Tariffs,        \* prices and settings a quote depends on
    Handlers,       \* updates of this chat handled at once
    MaxKeys,        \* bound: checkout keys drawn
    MaxChanges,     \* bound: changes of the cart and of the tariff
    MaxPasses,      \* bound: times the first question is asked
    Unset, EmptyCart, NoHandler

ASSUME DialogueAssumption ==
    /\ MaxKeys \in Nat /\ MaxChanges \in Nat /\ MaxPasses \in Nat
    /\ OrderTypes \subseteq {"delivery", "pickup", "preorder"}
    /\ Methods \subseteq {"cash", "card", "online"}
    /\ EmptyCart \notin Carts /\ Unset \notin Names \cup Addresses

VARIABLES
    step,       \* the FSM state of the chat
    form,       \* the FSM data of the chat
    handler,    \* what the handlers under way have read
    keys,       \* checkout keys drawn
    shown,      \* checkout key -> the last summary shown with it
    ordered,    \* the checkout keys orders were made with
    cart, tariff, changes,
    passes

dialogueVars == <<step, form, handler, keys, shown, ordered, cart, tariff, changes,
                  passes>>

\* receipt: the receipt at hand, with the quote whose payment details had been
\* asked for when it was sent.
EmptyForm == [type |-> Unset, name |-> Unset, address |-> Unset, comment |-> Unset,
              method |-> Unset, paymentQuote |-> Unset, receipt |-> Unset,
              key |-> 0, request |-> Unset]

DialogueInit ==
    /\ step = "none" /\ form = EmptyForm
    /\ handler = [h \in Handlers |-> NoHandler]
    /\ keys = 0
    /\ shown = [k \in 1 .. MaxKeys |-> Unset]
    /\ ordered = {}
    /\ cart \in Carts /\ tariff \in Tariffs /\ changes = 0 /\ passes = 0

quoteVars == <<cart, tariff, changes, passes>>
historyVars == <<keys, shown, ordered>>

-----------------------------------------------------------------------------
(* What a form amounts to. *)

\* data.get("payment_method", CASH)
Method(f) == IF f.method = Unset THEN "cash" ELSE f.method

\* normalize_checkout_command: only a delivery has an address.
Command(f) ==
    [type |-> f.type, name |-> f.name, comment |-> f.comment, method |-> Method(f),
     address |-> IF f.type = "delivery" THEN f.address ELSE Unset]

Quote(type, method) == [type |-> type, method |-> method, cart |-> cart, tariff |-> tariff]
\* Data that were cleared meanwhile say no type, and the handler stops there.
Ready(type, method) ==
    type # Unset /\ cart # EmptyCart /\ (type = "preorder" => method = "cash")

Request(f, quote) == [command |-> Command(f), quote |-> quote]

-----------------------------------------------------------------------------
(* The steps of the conversation up to the summary. *)

Goto(s) == step' = s /\ UNCHANGED <<handler, historyVars, quoteVars>>

AskFirst ==
    /\ passes < MaxPasses
    /\ step' = "choosing_type" /\ passes' = passes + 1
    /\ UNCHANGED <<form, handler, historyVars, cart, tariff, changes>>

\* Answers of an abandoned conversation are kept.
StartCheckout == cart # EmptyCart /\ AskFirst

ChooseType(t) ==
    /\ step = "choosing_type"
    /\ form' = [form EXCEPT !.type = t]
    /\ Goto("entering_name")

EnterName(n) ==
    /\ step = "entering_name"
    /\ form' = [form EXCEPT !.name = n]
    /\ Goto("entering_phone")

EnterPhone ==
    /\ step = "entering_phone"
    /\ Goto(IF form.type = "delivery" THEN "entering_address" ELSE "entering_comment")
    /\ UNCHANGED form

EnterAddress(a) ==
    /\ step = "entering_address"
    /\ form' = [form EXCEPT !.address = a]
    /\ Goto("entering_address_comment")

EnterAddressComment ==
    step = "entering_address_comment" /\ Goto("entering_comment") /\ UNCHANGED form

Back ==
    /\ \/ step = "entering_name" /\ Goto("choosing_type")
       \/ step = "entering_address_comment" /\ Goto("entering_address")
       \/ /\ step = "entering_comment" /\ form.type = "delivery"
          /\ Goto("entering_address_comment")
       \/ step = "choosing_payment" /\ Goto("entering_comment")
       \/ step = "uploading_receipt" /\ Goto("choosing_payment")
    /\ UNCHANGED form

\* A handler goes on with the data f, and with a quote, in its hands.
HandlerGoesOn(h, what, f, quote) ==
    handler' = [handler EXCEPT ![h] = [doing |-> what, form |-> f, quote |-> quote]]

\* The first third of _show_confirmation: it reads the data.
BeginShow(h, f) ==
    /\ handler[h] = NoHandler
    /\ step' = "confirming" /\ form' = f
    /\ HandlerGoesOn(h, "show", f, Unset)
    /\ UNCHANGED <<historyVars, quoteVars>>

EnterComment(h, c) ==
    /\ step = "entering_comment"
    /\ LET f == [form EXCEPT !.comment = c]
       IN  IF form.type = "preorder" THEN BeginShow(h, f)
           ELSE form' = f /\ Goto("choosing_payment")

Doing(h, what) == handler[h] # NoHandler /\ handler[h].doing = what
HandlerDone(h) == handler' = [handler EXCEPT ![h] = NoHandler]

\* _request_card_receipt
AskForReceipt(f, quote) == [f EXCEPT !.paymentQuote = quote, !.receipt = Unset]

ChoosePayment(h, m) ==
    /\ step = "choosing_payment"
    /\ LET f == [form EXCEPT !.method = m]
       IN  CASE m # "card" -> BeginShow(h, f)
             [] m = "card" /\ Ready(f.type, m) ->
                    /\ handler[h] = NoHandler
                    /\ form' = f
                    /\ HandlerGoesOn(h, "ask", f, Quote(f.type, m))
                    /\ UNCHANGED <<step, historyVars, quoteVars>>
             [] OTHER -> form' = f /\ Goto(step)

\* The details to pay by, for the quote in hand.
RequestReceipt(h) ==
    /\ Doing(h, "ask")
    /\ form' = AskForReceipt(form, handler[h].quote) /\ step' = "uploading_receipt"
    /\ HandlerDone(h)
    /\ UNCHANGED <<historyVars, quoteVars>>

SendReceipt(h) ==
    /\ step = "uploading_receipt"
    /\ BeginShow(h, [form EXCEPT !.receipt = [quote |-> form.paymentQuote]])

-----------------------------------------------------------------------------
(* The summary and the order. *)

ReceiptOutdated(f, quote) ==
    Method(f) = "card" /\ f.paymentQuote # Unset /\ f.paymentQuote # quote

\* The second third: the quote.
QuoteSummary(h) ==
    /\ Doing(h, "show")
    /\ LET f == handler[h].form
           quote == Quote(f.type, Method(f))
       IN  IF Ready(f.type, Method(f))
           THEN HandlerGoesOn(h, IF ReceiptOutdated(f, quote) THEN "ask" ELSE "summary",
                              f, quote)
           ELSE HandlerDone(h)
    /\ UNCHANGED <<step, form, historyVars, quoteVars>>

\* The key stays the same as long as what it stands for does, in the data f
\* that were read.  Mutant: it stays the same while there is one.
KeyKept(f, request) == IF f.key # 0 THEN f.key ELSE keys + 1
CheckoutKey(f, request) == IF f.request = request /\ f.key # 0 THEN f.key ELSE keys + 1

\* The last third of _show_confirmation: what it leaves, in the data as they
\* are now, for the confirm button, and the summary of the data it read.
ShowSummary(h) ==
    LET f == handler[h].form
        request == Request(f, handler[h].quote)
        key == CheckoutKey(f, request)
    IN  /\ Doing(h, "summary")
        /\ key <= MaxKeys
        /\ keys' = IF key > keys THEN key ELSE keys
        /\ form' = [form EXCEPT !.key = key, !.request = request]
        /\ shown' = [shown EXCEPT ![key] = [request |-> request, receipt |-> f.receipt]]
        /\ HandlerDone(h)
        /\ UNCHANGED <<step, ordered, quoteVars>>

\* on_confirm reads the data.
ConfirmsShown(f) == f.key # 0 /\ f.request = Request(f, f.request.quote)

Confirm(h) ==
    /\ step = "confirming" /\ keys > 0
    /\ IF ConfirmsShown(form)
       THEN /\ handler[h] = NoHandler
            /\ HandlerGoesOn(h, "confirm", form, Unset)
            /\ UNCHANGED <<step, form, historyVars, quoteVars>>
       ELSE BeginShow(h, form)

\* download_telegram_receipt refuses the file.
ReceiptRefused(h) ==
    /\ Doing(h, "confirm") /\ handler[h].form.receipt # Unset
    /\ step' = "uploading_receipt"
    /\ HandlerDone(h)
    /\ UNCHANGED <<form, historyVars, quoteVars>>

\* What submit_checkout makes of it.  An order that is not paid by card
\* refuses the receipt of an earlier pass, which undoes the order.
Replayed(f) == f.key \in ordered
QuoteStands(f) == f.request.quote = Quote(f.type, Method(f))
ReceiptFits(f) == f.receipt = Unset \/ Method(f) = "card"

\* created: attach the receipt, commit.
PlaceOrder(h) ==
    LET f == handler[h].form
    IN  /\ Doing(h, "confirm")
        /\ ~Replayed(f)
        /\ cart # EmptyCart /\ QuoteStands(f) /\ Ready(f.type, Method(f)) /\ ReceiptFits(f)
        /\ ordered' = ordered \cup {f.key}
        /\ cart' = EmptyCart
        /\ HandlerGoesOn(h, "clear", f, Unset)
        /\ UNCHANGED <<step, form, keys, shown, tariff, changes, passes>>

\* The order exists already, or there is nothing to order.
NothingToOrder(h) ==
    LET f == handler[h].form
    IN  /\ Doing(h, "confirm")
        /\ Replayed(f) \/ cart = EmptyCart
        /\ HandlerGoesOn(h, "clear", f, Unset)
        /\ UNCHANGED <<step, form, historyVars, quoteVars>>

\* state.clear()
ClearForm(h) ==
    /\ Doing(h, "clear")
    /\ step' = "none" /\ form' = EmptyForm
    /\ HandlerDone(h)
    /\ UNCHANGED <<historyVars, quoteVars>>

\* QuoteChangedError shows the summary again, from the data as they are now.
ReviewAgain(h) ==
    LET f == handler[h].form
    IN  /\ Doing(h, "confirm")
        /\ ~Replayed(f) /\ cart # EmptyCart /\ ~QuoteStands(f)
        /\ step' = "confirming"
        /\ HandlerGoesOn(h, "show", form, Unset)
        /\ UNCHANGED <<form, historyVars, quoteVars>>

\* An alert, or an error nothing handles: no trace is left.
ConfirmFails(h) ==
    LET f == handler[h].form
    IN  /\ Doing(h, "confirm")
        /\ ~Replayed(f) /\ cart # EmptyCart /\ QuoteStands(f)
        /\ ~ReceiptFits(f)
        /\ HandlerDone(h)
        /\ UNCHANGED <<step, form, historyVars, quoteVars>>

\* on_edit: back to the first question, with all the answers kept.
Edit == step = "confirming" /\ keys > 0 /\ AskFirst

\* on_cancel, open_cart, on_language_selected
LeaveCheckout == step # "none" /\ form' = EmptyForm /\ Goto("none")

-----------------------------------------------------------------------------
(* What else happens to the cart and the shop. *)

ChangeCart(c) ==
    /\ changes < MaxChanges /\ c # cart
    /\ cart' = c /\ changes' = changes + 1
    /\ UNCHANGED <<step, form, handler, historyVars, tariff, passes>>

ChangeTariff(t) ==
    /\ changes < MaxChanges /\ t # tariff
    /\ tariff' = t /\ changes' = changes + 1
    /\ UNCHANGED <<step, form, handler, historyVars, cart, passes>>

DialogueNext ==
    \/ StartCheckout \/ EnterPhone \/ EnterAddressComment \/ Back \/ Edit \/ LeaveCheckout
    \/ \E t \in OrderTypes : ChooseType(t)
    \/ \E n \in Names : EnterName(n)
    \/ \E a \in Addresses : EnterAddress(a)
    \/ \E h \in Handlers :
        \/ \E c \in Comments \cup {Unset} : EnterComment(h, c)
        \/ \E m \in Methods : ChoosePayment(h, m)
        \/ RequestReceipt(h) \/ SendReceipt(h) \/ QuoteSummary(h) \/ ShowSummary(h)
        \/ Confirm(h) \/ ReceiptRefused(h)
        \/ PlaceOrder(h) \/ NothingToOrder(h) \/ ClearForm(h) \/ ReviewAgain(h)
        \/ ConfirmFails(h)
    \/ \E c \in Carts \cup {EmptyCart} : ChangeCart(c)
    \/ \E t \in Tariffs : ChangeTariff(t)

DialogueSpec == DialogueInit /\ [][DialogueNext]_dialogueVars

-----------------------------------------------------------------------------
(* Properties. *)

\* An order is, to the last answer and to the quote, what the last summary
\* shown with its key said, whatever the customer edited, whichever button
\* they used, and however the handlers of two summaries, or of a summary and
\* the confirm button, overlap.  If it comes with the receipt that was at hand
\* when the summary was made, that receipt answered a request for exactly what
\* the order costs, unless it answered none (the data were cleared meanwhile).
ShownIsOrdered ==
    [][\A h \in Handlers : PlaceOrder(h) =>
        LET f == handler[h].form
            quote == Quote(f.type, Method(f))
        IN  /\ shown[f.key].request = Request(f, quote)
            /\ f.receipt = shown[f.key].receipt =>
                    f.receipt = Unset \/ f.receipt.quote \in {Unset, quote}]_dialogueVars
=============================================================================
