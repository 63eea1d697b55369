------------------------------ MODULE Purchase ------------------------------
(***************************************************************************)
(* The purchase path of the shop: customer carts, the quote a customer     *)
(* accepts, the checkout transaction that turns a cart into an order, the  *)
(* administrator's product forms and stock corrections, and order          *)
(* cancellation, all of them transactions of one PostgreSQL database.      *)
(*                                                                         *)
(* A transaction that takes its row locks one at a time is a record        *)
(* tx[w] of a worker w (an API process or a bot handler); each row lock    *)
(* it waits for and each later read is a step of its own, and everything   *)
(* it writes appears when it commits.  A transaction that holds no row     *)
(* lock of another kind while it waits is one step.  Locks are not a       *)
(* variable: they are what the open transactions hold.                     *)
(*                                                                         *)
(* A definition marked Mutant is a plausible bug in the definition that    *)
(* follows it.  No action uses it: it shows that the properties can fail.  *)
(***************************************************************************)
EXTENDS Integers, FiniteSets, FiniteSetsExt

CONSTANTS
    Users,          \* customers
    Products,       \* product ids; locks are taken in ascending order
    Keys,           \* idempotency keys the clients generate
    Workers,        \* processes that run transactions
    Settings,       \* the values store settings may take
    Kinds,          \* order types offered
    Methods,        \* payment methods offered
    Edits,          \* what a product form may submit
    CartOps,        \* which cart writes a run includes, of "add" and "set"
    Office,         \* which administrator operations a run includes
    Corrections,    \* deltas of a manual stock correction
    InitialRow,     \* the product rows the shop starts with
    InitialSettings,
    NoKey, NoQuote, NoForm, NoCard,
    Keep,           \* a form field the administrator did not change
    MaxQty,         \* bound: units of one product in a cart
    MaxOrders,      \* bound: order numbers drawn
    MaxVersion,     \* bound: edit_version an administrator's write may reach
    MaxSent,        \* bound: checkout requests issued
    MaxCartEdits    \* bound: keyed cart additions

Row == [exists: BOOLEAN, active: BOOLEAN, stock: Int, sold: Int,
        price: Nat, min: Nat, version: Nat]

Setting == [tracking: BOOLEAN, open: BOOLEAN, fee: Nat, freeFrom: Nat,
            minOrder: Nat, card: {NoCard} \cup Nat]

Edit == [active: BOOLEAN \cup {Keep}, stock: Nat \cup {Keep},
         price: Nat \cup {Keep}, min: Nat \cup {Keep}]

ASSUME ProductIds == Products \subseteq Nat /\ IsFiniteSet(Products)

ASSUME Shop ==
    /\ InitialRow \in [Products -> Row]
    /\ \A p \in Products : InitialRow[p].exists /\ InitialRow[p].stock >= 0
    /\ Settings \subseteq Setting /\ InitialSettings \in Settings
    /\ Kinds \subseteq {"delivery", "pickup", "preorder"}
    /\ "cash" \in Methods /\ Methods \subseteq {"cash", "card_transfer"}
    /\ Edits \subseteq Edit /\ CartOps \subseteq {"add", "set"}
    /\ Corrections \subseteq Int
    /\ MaxQty \in Nat /\ MaxOrders \in Nat /\ MaxVersion \in Nat

OrderIds == 1..MaxOrders

(***************************************************************************)
(* A quote, its fingerprint and an order's own copy of the terms are one   *)
(* record: every field is hashed into quote_fingerprint, so two quotes     *)
(* have the same fingerprint exactly when the records are equal.           *)
(***************************************************************************)
Bill == [kind: {"delivery", "pickup", "preorder"},
         method: {"cash", "card_transfer"},
         qty: [Products -> Nat], price: [Products -> Nat],
         min: [Products -> Nat], terms: Setting]

ASSUME NotValues ==
    /\ NoKey \notin Keys
    /\ NoCard \notin Nat /\ Keep \notin Nat /\ Keep \notin BOOLEAN
    /\ NoQuote \notin Bill

Request == [user: Users, key: Keys \cup {NoKey}, kind: Kinds,
            method: Methods, quote: Bill \cup {NoQuote}]

CartEdit == [op: CartOps, user: Users, product: Products,
             qty: 1..MaxQty, key: Keys \cup {NoKey}]

VARIABLES
    product,    \* products: id -> row
    shown,      \* ids in a publicly visible category
    settings,   \* the checkout-relevant store settings
    cart,       \* cart_items: user -> product -> quantity, 0 when no row
    mutations,  \* cart_mutations: keyed additions already applied
    order,      \* orders: number -> order row
    sequence,   \* kans_order_seq: next number, never rolled back
    tx,         \* open transactions
    form,       \* the product form an administrator has open
    sent,       \* checkout requests clients have issued, and may repeat
    answers,    \* history: which order each request was answered with
    supplied    \* history: initial stock plus every administrator change

vars == <<product, shown, settings, cart, mutations, order, sequence, tx,
          form, sent, answers, supplied>>

NoOrder == [status |-> "none"]
Idle == [kind |-> "idle"]
NoBill == [kind |-> "none"]

PlacedOrder == [status: {"new", "confirmed", "preparing", "delivering",
                         "completed", "cancelled"},
                request: Request, bill: Bill, stock_deducted: BOOLEAN,
                qty: [Products -> Nat], price: [Products -> Nat]]

Checkout == [kind: {"checkout"}, request: Request, items: [Products -> Nat],
             tracking: BOOLEAN, todo: SUBSET Products, held: SUBSET Products,
             price: [Products -> Nat], bill: Bill \cup {NoBill},
             number: Nat]
CartWrite == [kind: {"cart"}, edit: CartEdit]
Cancel == [kind: {"cancel"}, order: OrderIds,
           todo: SUBSET Products, held: SUBSET Products]

-----------------------------------------------------------------------------
(* Row locks, as what the open transactions hold. *)

HoldsUser(w, u) ==
    \/ tx[w].kind = "checkout" /\ tx[w].request.user = u
    \/ tx[w].kind = "cart" /\ tx[w].edit.user = u
HoldsOrder(w, o) == tx[w].kind = "cancel" /\ tx[w].order = o
HoldsProduct(w, p) == tx[w].kind \in {"checkout", "cancel"} /\ p \in tx[w].held

UserFree(u) == \A w \in Workers : ~HoldsUser(w, u)
OrderFree(o) == \A w \in Workers : ~HoldsOrder(w, o)
ProductFree(p) == \A w \in Workers : ~HoldsProduct(w, p)

Placed == {o \in OrderIds : order[o].status # "none"}
Live == {o \in Placed : order[o].status # "cancelled"}
Rows(items) == {p \in Products : items[p] > 0}
\* Mutant: products are locked in the order the cart lists them.
IsSomeLock(w, p) == p \in tx[w].todo

IsNextLock(w, p) == p \in tx[w].todo /\ \A q \in tx[w].todo : p <= q

-----------------------------------------------------------------------------
(* Inventory policy and pricing. *)

MinimumQuantity(p, tracking) ==
    IF tracking /\ product[p].min > 1 THEN product[p].min ELSE 1

Public(p) == product[p].exists /\ product[p].active /\ p \in shown

InStock(p, q, tracking) == tracking => product[p].stock >= q

\* What checkout validates under the product's row lock.
Sellable(p, q, tracking) ==
    /\ Public(p)
    /\ InStock(p, q, tracking)
    /\ q >= MinimumQuantity(p, tracking)

\* Settings that do not apply to the order type or method are left out of
\* the quote: they are masked, so changing them does not change the quote.
Terms(kind, method, tracking) ==
    [tracking |-> tracking, open |-> settings.open,
     fee |-> IF kind = "delivery" THEN settings.fee ELSE 0,
     freeFrom |-> IF kind = "delivery" THEN settings.freeFrom ELSE 0,
     minOrder |-> IF kind = "preorder" THEN 0 ELSE settings.minOrder,
     card |-> IF method = "card_transfer" THEN settings.card ELSE NoCard]

\* quote_checkout: live prices for the rows of cart c, and the terms.
Quote(c, kind, method, tracking) ==
    [kind |-> kind, method |-> method,
     qty |-> c,
     price |-> [p \in Products |-> IF c[p] > 0 THEN product[p].price ELSE 0],
     min |-> [p \in Products |->
                 IF c[p] > 0 THEN MinimumQuantity(p, tracking) ELSE 0],
     terms |-> Terms(kind, method, tracking)]

Subtotal(qty, price) == MapThenSumSet(LAMBDA p : qty[p] * price[p], Products)
DeliveryFee(b) ==
    IF Subtotal(b.qty, b.price) >= b.terms.freeFrom THEN 0 ELSE b.terms.fee
Total(b) == Subtotal(b.qty, b.price) + DeliveryFee(b)

\* A fingerprint exists only for a cart whose products are all on public sale.
HasFingerprint(c) == Rows(c) # {} /\ \A p \in Rows(c) : Public(p)

Ready(b) ==
    /\ HasFingerprint(b.qty)
    /\ \A p \in Rows(b.qty) : Sellable(p, b.qty[p], b.terms.tracking)
    /\ b.terms.open
    /\ Subtotal(b.qty, b.price) >= b.terms.minOrder
    /\ b.method = "card_transfer" => b.terms.card # NoCard /\ b.kind # "preorder"

-----------------------------------------------------------------------------
Init ==
    /\ product = InitialRow
    /\ shown = Products
    /\ settings = InitialSettings
    /\ cart = [u \in Users |-> [p \in Products |-> 0]]
    /\ mutations = {}
    /\ order = [o \in OrderIds |-> NoOrder]
    /\ sequence = 1
    /\ tx = [w \in Workers |-> Idle]
    /\ form = NoForm
    /\ sent = {}
    /\ answers = {}
    /\ supplied = [p \in Products |-> InitialRow[p].stock]

catalogVars == <<product, shown, settings, form, supplied>>
orderVars == <<order, sequence, sent, answers>>

-----------------------------------------------------------------------------
(* Clients. *)

\* A client that saw a quote accepts it: the request carries the quote and a
\* key, and may reach the server any number of times.  Clients that predate
\* quotes send neither; the web adapter refuses them card transfers.
AcceptQuote(u, k, kind, method) ==
    /\ Cardinality(sent) < MaxSent
    /\ HasFingerprint(cart[u])
    /\ sent' = sent \cup {[user |-> u, key |-> k, kind |-> kind, method |-> method,
                           quote |-> Quote(cart[u], kind, method, settings.tracking)]}
    /\ UNCHANGED <<catalogVars, cart, mutations, order, sequence, tx, answers>>

OrderUnquoted(u, k, kind) ==
    /\ Cardinality(sent) < MaxSent
    /\ sent' = sent \cup {[user |-> u, key |-> k, kind |-> kind, method |-> "cash",
                           quote |-> NoQuote]}
    /\ UNCHANGED <<catalogVars, cart, mutations, order, sequence, tx, answers>>

-----------------------------------------------------------------------------
(* Cart writes: user lock, cart lock, then at most one product lock. *)

SameKey(m, e) == e.key # NoKey /\ m.user = e.user /\ m.key = e.key

\* Mutant: the key is looked up before the customer's lock is taken.
BeginCartWriteUnlocked(w, e) ==
    /\ tx[w] = Idle
    /\ e.op = "add" => \A m \in mutations : ~SameKey(m, e)
    /\ e.op = "set" => e.key = NoKey /\ cart[e.user][e.product] > 0
    /\ e.key # NoKey => Cardinality(mutations) < MaxCartEdits
    /\ tx' = [tx EXCEPT ![w] = [kind |-> "cart", edit |-> e]]
    /\ UNCHANGED <<catalogVars, orderVars, cart, mutations>>

\* The user and cart locks are taken and the mutation key is looked up.  A
\* key seen before answers from the cart or is refused: no state changes.
BeginCartWrite(w, e) ==
    /\ tx[w] = Idle /\ UserFree(e.user)
    /\ e.op = "add" => \A m \in mutations : ~SameKey(m, e)
    /\ e.op = "set" => e.key = NoKey /\ cart[e.user][e.product] > 0
    /\ e.key # NoKey => Cardinality(mutations) < MaxCartEdits
    /\ tx' = [tx EXCEPT ![w] = [kind |-> "cart", edit |-> e]]
    /\ UNCHANGED <<catalogVars, orderVars, cart, mutations>>

NewQuantity(e) ==
    IF e.op = "set" THEN e.qty
    ELSE IF cart[e.user][e.product] > 0 THEN cart[e.user][e.product] + e.qty
    ELSE IF e.qty >= MinimumQuantity(e.product, settings.tracking) THEN e.qty
    ELSE MinimumQuantity(e.product, settings.tracking)

CartWriteAllowed(e) ==
    /\ Public(e.product) /\ NewQuantity(e) <= MaxQty
    /\ InStock(e.product, NewQuantity(e), settings.tracking)
    /\ e.op = "set" => /\ e.qty >= MinimumQuantity(e.product, settings.tracking)
                       /\ cart[e.user][e.product] > 0

\* The product lock is granted; the write and the mutation key commit together.
FinishCartWrite(w) ==
    /\ tx[w].kind = "cart"
    /\ LET e == tx[w].edit IN
        /\ ProductFree(e.product)
        /\ CartWriteAllowed(e)
        /\ cart' = [cart EXCEPT ![e.user][e.product] = NewQuantity(e)]
        /\ mutations' = IF e.key = NoKey THEN mutations ELSE mutations \cup {e}
    /\ tx' = [tx EXCEPT ![w] = Idle]
    /\ UNCHANGED <<catalogVars, orderVars>>

\* Mutant: lines are deleted without the customer's lock.
DropItemsUnlocked(u, S) ==
    /\ S \cap Rows(cart[u]) # {}
    /\ cart' = [cart EXCEPT ![u] = [p \in Products |-> IF p \in S THEN 0 ELSE @[p]]]
    /\ UNCHANGED <<catalogVars, orderVars, mutations, tx>>

\* remove_item, a quantity of zero, and clear_cart take no product lock.
DropItems(u, S) ==
    /\ UserFree(u)
    /\ S \cap Rows(cart[u]) # {}
    /\ cart' = [cart EXCEPT ![u] = [p \in Products |-> IF p \in S THEN 0 ELSE @[p]]]
    /\ UNCHANGED <<catalogVars, orderVars, mutations, tx>>

-----------------------------------------------------------------------------
(* Checkout. *)

SameCheckout(o, r) == order[o].request.user = r.user /\ order[o].request.key = r.key
\* Mutant: a cancelled order frees its key.
EarlierLive(r) == {o \in Live : r.key # NoKey /\ SameCheckout(o, r)}

Earlier(r) == {o \in Placed : r.key # NoKey /\ SameCheckout(o, r)}

\* Mutant: a known key is answered without comparing the fingerprints.
ReplayAnything(r) ==
    /\ r \in sent /\ UserFree(r.user)
    /\ \E o \in Earlier(r) : answers' = answers \cup {[request |-> r, order |-> o]}
    /\ UNCHANGED <<catalogVars, cart, mutations, order, sequence, tx, sent>>

\* The key names an order already placed: a request with the same
\* fingerprint is answered with it, any other is refused.
ReplayCheckout(r) ==
    /\ r \in sent /\ UserFree(r.user)
    /\ \E o \in Earlier(r) :
        /\ order[o].request = r
        /\ answers' = answers \cup {[request |-> r, order |-> o]}
    /\ UNCHANGED <<catalogVars, cart, mutations, order, sequence, tx, sent>>

\* The bound on order numbers, taken where it cannot strand a transaction.
NumbersLeft ==
    sequence + Cardinality({w \in Workers : tx[w].kind = "checkout"}) <= MaxOrders

\* User and cart are locked, the cart is read, then the inventory policy.
BeginCheckout(w, r) ==
    /\ tx[w] = Idle /\ r \in sent /\ UserFree(r.user)
    /\ Earlier(r) = {} /\ Rows(cart[r.user]) # {} /\ NumbersLeft
    /\ tx' = [tx EXCEPT ![w] =
                [kind |-> "checkout", request |-> r, items |-> cart[r.user],
                 tracking |-> settings.tracking, todo |-> Rows(cart[r.user]),
                 held |-> {}, price |-> [p \in Products |-> 0],
                 bill |-> NoBill, number |-> 0]]
    /\ UNCHANGED <<catalogVars, orderVars, cart, mutations>>

\* The next product row lock is granted; the row is read and validated.
LockForSale(w, p) ==
    /\ tx[w].kind = "checkout" /\ IsNextLock(w, p)
    /\ ProductFree(p)
    /\ Sellable(p, tx[w].items[p], tx[w].tracking)
    /\ tx' = [tx EXCEPT ![w].todo = @ \ {p}, ![w].held = @ \cup {p},
                        ![w].price[p] = product[p].price]
    /\ UNCHANGED <<catalogVars, orderVars, cart, mutations>>

FreshQuote(t) ==
    Quote(cart[t.request.user], t.request.kind, t.request.method, t.tracking)

\* Mutant: only the total the customer saw is compared.
SameTotal(r, b) == (r.quote # NoQuote => Total(r.quote) = Total(b)) /\ Ready(b)

Acceptable(r, b) == (r.quote # NoQuote => r.quote = b) /\ Ready(b)

\* With every product locked the cart is read again and priced, compared
\* with the quote the customer accepted, and an order number is drawn.
PriceCheckout(w) ==
    /\ tx[w].kind = "checkout" /\ tx[w].todo = {} /\ tx[w].bill = NoBill
    /\ sequence <= MaxOrders
    /\ Acceptable(tx[w].request, FreshQuote(tx[w]))
    /\ tx' = [tx EXCEPT ![w].bill = FreshQuote(tx[w]), ![w].number = sequence]
    /\ sequence' = sequence + 1
    /\ UNCHANGED <<catalogVars, cart, mutations, order, sent, answers>>

Sold(row, q, tracking) ==
    [row EXCEPT !.stock = IF tracking THEN @ - q ELSE @,
                !.version = IF tracking THEN @ + 1 ELSE @,
                !.sold = @ + q]

NewOrder(t) ==
    [status |-> "new", request |-> t.request, bill |-> t.bill,
     stock_deducted |-> t.tracking, qty |-> t.items, price |-> t.price]

\* Order, items, stock, history, cleared cart and queued notices commit at once.
CommitCheckout(w) ==
    /\ tx[w].kind = "checkout" /\ tx[w].bill # NoBill
    /\ order' = [order EXCEPT ![tx[w].number] = NewOrder(tx[w])]
    /\ product' = [p \in Products |->
                    IF p \in tx[w].held
                    THEN Sold(product[p], tx[w].items[p], tx[w].tracking)
                    ELSE product[p]]
    /\ cart' = [cart EXCEPT ![tx[w].request.user] = [p \in Products |-> 0]]
    /\ answers' = answers \cup {[request |-> tx[w].request, order |-> tx[w].number]}
    /\ tx' = [tx EXCEPT ![w] = Idle]
    /\ UNCHANGED <<shown, settings, form, supplied, mutations, sequence, sent>>

\* Every raise: a product that cannot be sold, a quote that is out of date,
\* a checkout that is not ready, a cart quantity that is not allowed.
Refused(w) ==
    \/ /\ tx[w].kind = "checkout"
       /\ \E p \in tx[w].todo :
            /\ IsNextLock(w, p) /\ ProductFree(p)
            /\ ~Sellable(p, tx[w].items[p], tx[w].tracking)
    \/ /\ tx[w].kind = "checkout" /\ tx[w].todo = {} /\ tx[w].bill = NoBill
       /\ ~Acceptable(tx[w].request, FreshQuote(tx[w]))
    \/ /\ tx[w].kind = "cart" /\ ProductFree(tx[w].edit.product)
       /\ ~CartWriteAllowed(tx[w].edit)

\* A refusal rolls back, and so does a lost connection or a dead process at
\* any point before the commit; only a drawn order number stays used.
Refuse(w) ==
    /\ Refused(w)
    /\ tx' = [tx EXCEPT ![w] = Idle]
    /\ UNCHANGED <<catalogVars, orderVars, cart, mutations>>

Crash(w) ==
    /\ tx[w] # Idle
    /\ tx' = [tx EXCEPT ![w] = Idle]
    /\ UNCHANGED <<catalogVars, orderVars, cart, mutations>>

-----------------------------------------------------------------------------
(* Order lifecycle. *)

AllowedTransitions ==
    [new |-> {"confirmed"}, confirmed |-> {"preparing"},
     preparing |-> {"delivering", "completed"}, delivering |-> {"completed"},
     completed |-> {}, cancelled |-> {}, none |-> {}]

\* The customer's notice in the outbox refers to his users row: the INSERT
\* waits until no cart or checkout transaction of his holds it.
CanTellCustomer(o) == UserFree(order[o].request.user)

AdvanceStatus(o, s) ==
    /\ OrderFree(o)
    /\ s \in AllowedTransitions[order[o].status] /\ CanTellCustomer(o)
    /\ order' = [order EXCEPT ![o].status = s]
    /\ UNCHANGED <<catalogVars, cart, mutations, sequence, tx, sent, answers>>

BeginCancel(w, o) ==
    /\ tx[w] = Idle /\ OrderFree(o)
    /\ order[o].status \notin {"none", "completed", "cancelled"}
    /\ tx' = [tx EXCEPT ![w] =
                [kind |-> "cancel", order |-> o, held |-> {},
                 todo |-> {p \in Rows(order[o].qty) : product[p].exists}]]
    /\ UNCHANGED <<catalogVars, orderVars, cart, mutations>>

\* Mutant: a product deleted while the cancellation waited for it is waited for.
LockForReturnOnly(w, p) ==
    /\ tx[w].kind = "cancel" /\ IsNextLock(w, p)
    /\ ProductFree(p) /\ product[p].exists
    /\ tx' = [tx EXCEPT ![w].todo = @ \ {p}, ![w].held = @ \cup {p}]
    /\ UNCHANGED <<catalogVars, orderVars, cart, mutations>>

\* A product deleted while the cancellation waited for it is skipped.
LockForReturn(w, p) ==
    /\ tx[w].kind = "cancel" /\ IsNextLock(w, p)
    /\ ProductFree(p)
    /\ tx' = [tx EXCEPT ![w].todo = @ \ {p},
                ![w].held = IF product[p].exists THEN @ \cup {p} ELSE @]
    /\ UNCHANGED <<catalogVars, orderVars, cart, mutations>>

\* Mutants: stock is returned when tracking is on now; stock is not returned.
CancelByToday(w) ==
    /\ tx[w].kind = "cancel" /\ tx[w].todo = {}
    /\ LET o == tx[w].order IN
        /\ order' = [order EXCEPT ![o].status = "cancelled"]
        /\ product' = [p \in Products |->
                        IF p \in tx[w].held
                        THEN Sold(product[p], -order[o].qty[p], settings.tracking)
                        ELSE product[p]]
    /\ tx' = [tx EXCEPT ![w] = Idle]
    /\ UNCHANGED <<shown, settings, form, supplied, cart, mutations,
                   sequence, sent, answers>>

CancelWithoutStock(w) ==
    /\ tx[w].kind = "cancel" /\ tx[w].todo = {}
    /\ order' = [order EXCEPT ![tx[w].order].status = "cancelled"]
    /\ tx' = [tx EXCEPT ![w] = Idle]
    /\ UNCHANGED <<catalogVars, cart, mutations, sequence, sent, answers>>

\* The products are back in stock and the customer's notice is queued: all
\* but the wait for his users row appears at once.
CommitCancel(w) ==
    /\ tx[w].kind = "cancel" /\ tx[w].todo = {}
    /\ CanTellCustomer(tx[w].order)
    /\ LET o == tx[w].order IN
        /\ order' = [order EXCEPT ![o].status = "cancelled"]
        /\ product' = [p \in Products |->
                        IF p \in tx[w].held
                        THEN Sold(product[p], -order[o].qty[p], order[o].stock_deducted)
                        ELSE product[p]]
    /\ tx' = [tx EXCEPT ![w] = Idle]
    /\ UNCHANGED <<shown, settings, form, supplied, cart, mutations,
                   sequence, sent, answers>>

-----------------------------------------------------------------------------
(* Administrators. *)

LoadForm(p) ==
    /\ product[p].exists
    /\ form' = [product |-> p, row |-> product[p]]
    /\ UNCHANGED <<product, shown, settings, supplied, cart, mutations, orderVars, tx>>

Entered(new, old) == IF new = Keep THEN old ELSE new

Edited(row, e) ==
    [row EXCEPT !.active = Entered(e.active, @), !.stock = Entered(e.stock, @),
                !.price = Entered(e.price, @), !.min = Entered(e.min, @),
                !.version = @ + 1]

\* update_product: refused when the row changed since the form was loaded.
SubmitForm(e) ==
    /\ form # NoForm
    /\ LET p == form.product IN
        /\ ProductFree(p) /\ product[p].exists
        /\ product[p].version = form.row.version
        /\ product[p].version < MaxVersion
        /\ Edited(product[p], e) # [product[p] EXCEPT !.version = @ + 1]
        /\ product' = [product EXCEPT ![p] = Edited(@, e)]
        /\ supplied' = [supplied EXCEPT
                            ![p] = @ + Entered(e.stock, product[p].stock) - product[p].stock]
    /\ form' = NoForm
    /\ UNCHANGED <<shown, settings, cart, mutations, orderVars, tx>>

\* adjust_product_stock: the delta is clamped so that stock stays at zero.
AdjustStock(p, delta) ==
    LET d == IF delta < -product[p].stock THEN -product[p].stock ELSE delta IN
    /\ ProductFree(p) /\ product[p].exists
    /\ d # 0 /\ product[p].version < MaxVersion
    /\ product' = [product EXCEPT ![p].stock = @ + d, ![p].version = @ + 1]
    /\ supplied' = [supplied EXCEPT ![p] = @ + d]
    /\ UNCHANGED <<shown, settings, form, cart, mutations, orderVars, tx>>

\* delete_product: cart rows go with it, order lines keep their copy.
DeleteProduct(p) ==
    /\ ProductFree(p) /\ product[p].exists
    /\ product' = [product EXCEPT ![p].exists = FALSE]
    /\ cart' = [u \in Users |-> [cart[u] EXCEPT ![p] = 0]]
    /\ UNCHANGED <<shown, settings, form, supplied, mutations, orderVars, tx>>

\* A category is hidden or shown without locking its products.
SetVisibility(p) ==
    /\ shown' = IF p \in shown THEN shown \ {p} ELSE shown \cup {p}
    /\ UNCHANGED <<product, settings, form, supplied, cart, mutations, orderVars, tx>>

SetSettings(s) ==
    /\ s # settings
    /\ settings' = s
    /\ UNCHANGED <<product, shown, form, supplied, cart, mutations, orderVars, tx>>

-----------------------------------------------------------------------------
Customer ==
    \/ \E u \in Users, k \in Keys, kind \in Kinds, m \in Methods :
            AcceptQuote(u, k, kind, m)
    \/ \E u \in Users, k \in Keys \cup {NoKey}, kind \in Kinds :
            OrderUnquoted(u, k, kind)
    \/ \E u \in Users, S \in SUBSET Products : DropItems(u, S)
    \/ \E r \in sent : ReplayCheckout(r)

Transaction(w) ==
    \/ \E e \in CartEdit : BeginCartWrite(w, e)
    \/ FinishCartWrite(w)
    \/ \E r \in sent : BeginCheckout(w, r)
    \/ \E p \in Products : LockForSale(w, p) \/ LockForReturn(w, p)
    \/ PriceCheckout(w) \/ CommitCheckout(w)
    \/ \E o \in OrderIds : BeginCancel(w, o)
    \/ CommitCancel(w)
    \/ Refuse(w) \/ Crash(w)

Administrator ==
    \/ \E o \in OrderIds : \E s \in AllowedTransitions[order[o].status] :
            "advance" \in Office /\ AdvanceStatus(o, s)
    \/ \E p \in Products : "form" \in Office /\ LoadForm(p)
    \/ \E e \in Edits : SubmitForm(e)
    \/ \E p \in Products, d \in Corrections : AdjustStock(p, d)
    \/ \E p \in Products : "delete" \in Office /\ DeleteProduct(p)
    \/ \E p \in Products : "hide" \in Office /\ SetVisibility(p)
    \/ \E s \in Settings : SetSettings(s)

Next == Customer \/ Administrator \/ \E w \in Workers : Transaction(w)

Spec == Init /\ [][Next]_vars

\* The open transactions that hold what w's next statement needs.
Blockers(w) ==
    {v \in Workers \ {w} :
        \/ \E p \in Products :
            /\ HoldsProduct(v, p)
            /\ \/ tx[w].kind \in {"checkout", "cancel"} /\ IsNextLock(w, p)
               \/ tx[w].kind = "cart" /\ tx[w].edit.product = p
        \/ /\ tx[w].kind = "cancel" /\ tx[w].todo = {}
           /\ HoldsUser(v, order[tx[w].order].request.user)}

\* Transactions of which each waits for another of them.
Tangled(circle) == circle # {} /\ \A w \in circle : Blockers(w) \cap circle # {}
Circle(circle) ==
    Tangled(circle) /\ \A part \in SUBSET circle : Tangled(part) => part = circle

\* PostgreSQL looks for such circles and fails one of the transactions.
ResolveDeadlock ==
    \E circle \in SUBSET Workers : Circle(circle) /\ \E w \in circle : Crash(w)

\* A worker that has a transaction open goes on with it, and PostgreSQL
\* grants a contended row lock in turn: it is not passed over for ever.
Proceed(w) ==
    \/ \E p \in Products : LockForSale(w, p) \/ LockForReturn(w, p)
    \/ FinishCartWrite(w) \/ PriceCheckout(w) \/ CommitCheckout(w)
    \/ CommitCancel(w) \/ Refuse(w)

FairSpec ==
    /\ Spec
    /\ \A w \in Workers : SF_vars(Proceed(w))
    /\ WF_vars(ResolveDeadlock)

-----------------------------------------------------------------------------
(* Properties. *)

FormType == [product: Products, row: Row]

\* The shape of every variable: rows, carts, orders and open transactions.
TypeOK ==
    /\ product \in [Products -> Row]
    /\ shown \in SUBSET Products
    /\ settings \in Settings
    /\ cart \in [Users -> [Products -> Nat]]
    /\ mutations \in SUBSET CartEdit
    /\ order \in [OrderIds -> PlacedOrder \cup {NoOrder}]
    /\ sequence \in Nat \ {0}
    /\ tx \in [Workers -> Checkout \cup CartWrite \cup Cancel \cup {Idle}]
    /\ \A w \in Workers :
        /\ tx[w].kind = "checkout" /\ tx[w].bill # NoBill => tx[w].number \in OrderIds
        /\ tx[w].kind = "cancel" => order[tx[w].order].status # "none"
    /\ form \in FormType \cup {NoForm}
    /\ sent \in SUBSET Request
    /\ answers \in SUBSET [request: Request, order: OrderIds]
    /\ supplied \in [Products -> Int]

\* No interleaving of checkouts, cancellations, forms and corrections sells
\* more than there is: stock read under a row lock is still there at commit.
StockNeverNegative == \A p \in Products : product[p].stock >= 0

\* Two open transactions never both believe they own the same customer,
\* order or product row.
LocksExclusive ==
    \A v, w \in Workers : v # w =>
        /\ \A u \in Users : ~(HoldsUser(v, u) /\ HoldsUser(w, u))
        /\ \A o \in OrderIds : ~(HoldsOrder(v, o) /\ HoldsOrder(w, o))
        /\ \A p \in Products : ~(HoldsProduct(v, p) /\ HoldsProduct(w, p))

\* However often a request is repeated and however the repetitions
\* interleave, one customer's key names at most one order.
OneOrderPerKey ==
    \A o, q \in Placed :
        /\ order[o].request.key # NoKey
        /\ SameCheckout(q, order[o].request)
        => o = q

\* Every answer a client hears under one key names the same order, and that
\* order was placed for exactly the request that was answered.
AnswersAgree ==
    \A a, b \in answers :
        /\ order[a.order].status # "none" /\ order[a.order].request = a.request
        /\ /\ a.request.key # NoKey
           /\ a.request.user = b.request.user /\ a.request.key = b.request.key
           => a.order = b.order

\* An order charges what its customer accepted, and what it charges (from
\* the second read of the cart) is for the very lines it ships (from the
\* first read, validated under the product locks).
QuoteHonoured ==
    \A o \in Placed :
        /\ order[o].request.quote # NoQuote => order[o].bill = order[o].request.quote
        /\ order[o].bill.qty = order[o].qty
        /\ order[o].bill.price = order[o].price

\* d[1] + ... + d[n]
SumTo(d, n) ==
    LET upTo[i \in 0 .. n] == IF i = 0 THEN 0 ELSE upTo[i - 1] + d[i]
    IN  upTo[n]
Units(p, S) ==
    SumTo([o \in OrderIds |-> IF o \in S THEN order[o].qty[p] ELSE 0], MaxOrders)
Deducted == {o \in Live : order[o].stock_deducted}

\* Units are neither lost nor made: what was supplied is on the shelf or in
\* orders that took it, across cancellations, switched stock tracking,
\* concurrent corrections and deleted products; sold_count likewise.
StockLedger ==
    \A p \in Products : product[p].exists =>
        /\ product[p].stock + Units(p, Deducted) = supplied[p]
        /\ product[p].sold = InitialRow[p].sold + Units(p, Live)

\* What a checkout has established so far.
Sound(t) ==
    LET mine == cart[t.request.user] IN
    /\ t.todo \cup t.held = Rows(t.items) /\ t.todo \cap t.held = {}
    /\ \A p \in t.held :
        /\ product[p].exists /\ (t.tracking => product[p].stock >= t.items[p])
        /\ t.price[p] = product[p].price
    /\ \A p \in Products \ t.held : t.price[p] = 0
    /\ \A p \in Products :
        mine[p] = t.items[p] \/ (mine[p] = 0 /\ ~product[p].exists)
    /\ Earlier(t.request) = {}
    /\ t.bill # NoBill =>
        /\ t.todo = {} /\ t.bill.qty = t.items /\ t.bill.price = t.price
        /\ t.request.quote # NoQuote => t.request.quote = t.bill

\* Until it commits, whatever the shop's other writers do: the rows a
\* checkout has locked can still be sold at the price it read, the cart is
\* the one it will clear, its key has bought nothing yet, and its bill is
\* for exactly what it will deduct.
CheckoutSound == \A w \in Workers : tx[w].kind = "checkout" => Sound(tx[w])

\* The sequence never hands one order number to two checkouts, not even when
\* the first of them rolls back.
NumbersFresh ==
    /\ \A o \in Placed : o < sequence
    /\ \A w \in Workers : tx[w].kind = "checkout" /\ tx[w].bill # NoBill =>
        /\ tx[w].number < sequence /\ order[tx[w].number].status = "none"
        /\ \A v \in Workers \ {w} : tx[v].kind = "checkout" /\ tx[v].bill # NoBill =>
                tx[v].number # tx[w].number

\* A keyed addition whose answer was lost and that is sent again changes the
\* cart only the first time.
AddOncePerKey ==
    [][\A w \in Workers :
        tx[w].kind = "cart" /\ FinishCartWrite(w)
            => \A m \in mutations : ~SameKey(m, tx[w].edit)]_vars

\* Transactions that take user, cart and then products in ascending order,
\* and an order before its products, block one another for one reason only:
\* a cancellation that has its products waits for the users row of the very
\* customer whose cart or checkout transaction waits for one of those.
OnlyOwnCircles ==
    \A circle \in SUBSET Workers : Circle(circle) =>
        \E v, w \in circle :
            /\ tx[v].kind = "cancel" /\ tx[v].todo = {}
            /\ HoldsUser(w, order[tx[v].order].request.user)

\* Every transaction ends, refused, committed or failed by the database:
\* nobody waits for ever, not behind deleted products and not in a circle.
TransactionsEnd ==
    \A w \in Workers : tx[w] # Idle ~> tx[w] = Idle

-----------------------------------------------------------------------------
(* What the module implements. *)

Shelf == [p \in Products |-> product[p].stock]
Gone == {p \in Products : ~product[p].exists}

\* How an order row reads in the book of sales.
Book ==
    [o \in OrderIds |->
        IF order[o].status = "none" THEN NoOrder
        ELSE [state |-> IF order[o].status = "cancelled" THEN "returned"
                        ELSE IF order[o].status = "completed" THEN "closed" ELSE "open",
              buyer |-> order[o].request.user, key |-> order[o].request.key,
              accepted |-> order[o].request.quote, charged |-> order[o].bill,
              units |-> order[o].qty, counted |-> order[o].stock_deducted]]

Ledger == INSTANCE SalesLedger WITH
    Sales <- OrderIds, Buyers <- Users, Blank <- NoOrder, Bills <- Bill,
    Stock <- [p \in Products |-> InitialRow[p].stock],
    shelf <- Shelf, gone <- Gone, book <- Book

\* Every purchase, cancellation, correction and deletion, whatever it is
\* interleaved with, is one step of the shop's book of sales.
KeepsLedger == Ledger!LedgerSpec

=============================================================================
