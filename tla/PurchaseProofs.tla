--------------------------- MODULE PurchaseProofs ---------------------------
(***************************************************************************)
(* Proofs about Purchase for every set of customers, products, keys and    *)
(* workers: its type invariant, and the invariants its row locks buy.      *)
(***************************************************************************)
EXTENDS Purchase, Induction, TLAPS

-----------------------------------------------------------------------------
(* Facts about the records transactions and orders are kept in. *)

\* The kind of an open transaction tells which record it is.
LEMMA TxKind ==
    ASSUME TypeOK, NEW w \in Workers
    PROVE  /\ tx[w].kind = "checkout" <=> tx[w] \in Checkout
           /\ tx[w].kind = "cart" <=> tx[w] \in CartWrite
           /\ tx[w].kind = "cancel" <=> tx[w] \in Cancel
           /\ tx[w] # Idle <=> tx[w].kind # "idle"
<1>1. tx[w] \in Checkout \cup CartWrite \cup Cancel \cup {Idle}
  BY DEF TypeOK
<1>2. CASE tx[w] \in Checkout
  BY <1>2 DEF Checkout, CartWrite, Cancel, Idle
<1>3. CASE tx[w] \in CartWrite
  BY <1>3 DEF Checkout, CartWrite, Cancel, Idle
<1>4. CASE tx[w] \in Cancel
  BY <1>4 DEF Checkout, CartWrite, Cancel, Idle
<1>5. CASE tx[w] = Idle
  BY <1>5 DEF Checkout, CartWrite, Cancel, Idle
<1> QED  BY <1>1, <1>2, <1>3, <1>4, <1>5

\* An order number that has been used holds an order.
LEMMA OrderKind ==
    ASSUME TypeOK, NEW o \in OrderIds
    PROVE  /\ order[o].status # "none" <=> order[o] \in PlacedOrder
           /\ order[o].status = "none" <=> order[o] = NoOrder
BY DEF TypeOK, PlacedOrder, NoOrder

\* A quote taken from a well-formed cart is a bill.
LEMMA QuoteIsBill ==
    ASSUME TypeOK, NEW u \in Users, NEW kind \in Kinds, NEW m \in Methods,
           NEW t \in BOOLEAN
    PROVE  Quote(cart[u], kind, m, t) \in Bill
<1>1. \A p \in Products : MinimumQuantity(p, t) \in Nat /\ product[p].price \in Nat
  BY DEF TypeOK, Row, MinimumQuantity
<1>2. cart[u] \in [Products -> Nat]
  BY DEF TypeOK
<1>3. settings \in Setting
  BY Shop DEF TypeOK
<1>4. Terms(kind, m, t) \in Setting
  BY <1>3 DEF Terms, Setting
<1>5. kind \in {"delivery", "pickup", "preorder"} /\ m \in {"cash", "card_transfer"}
  BY Shop
<1> QED  BY <1>1, <1>2, <1>4, <1>5 DEF Quote, Bill

\* Selling units of a row, or taking them back, leaves a row.
LEMMA SoldIsRow ==
    ASSUME NEW row \in Row, NEW q \in Int, NEW t \in BOOLEAN
    PROVE  Sold(row, q, t) \in Row
<1>1. /\ row.stock \in Int /\ row.sold \in Int /\ row.version \in Nat
      /\ row.stock - q \in Int /\ row.sold + q \in Int /\ row.version + 1 \in Nat
  BY DEF Row
<1>2. CASE t
  BY <1>1, <1>2 DEF Sold, Row
<1>3. CASE ~t
  BY <1>1, <1>3 DEF Sold, Row
<1> QED  BY <1>2, <1>3

-----------------------------------------------------------------------------
(* Type correctness, one lemma per group of operations. *)

\* What customers do to their carts and requests keeps every type.
LEMMA CustomerType ==
    ASSUME TypeOK, Customer
    PROVE  TypeOK'
<1>1. ASSUME NEW u \in Users, NEW k \in Keys, NEW kind \in Kinds,
             NEW m \in Methods, AcceptQuote(u, k, kind, m)
      PROVE  TypeOK'
  <2>1. settings.tracking \in BOOLEAN
    BY Shop DEF TypeOK, Setting
  <2>2. Quote(cart[u], kind, m, settings.tracking) \in Bill
    BY <2>1, QuoteIsBill
  <2>3. sent' \in SUBSET Request
    BY <1>1, <2>2 DEF AcceptQuote, TypeOK, Request
  <2> QED  BY <1>1, <2>3 DEF AcceptQuote, TypeOK, catalogVars
<1>2. ASSUME NEW u \in Users, NEW k \in Keys \cup {NoKey}, NEW kind \in Kinds,
             OrderUnquoted(u, k, kind)
      PROVE  TypeOK'
  <2>1. sent' \in SUBSET Request
    BY <1>2, Shop DEF OrderUnquoted, TypeOK, Request
  <2> QED  BY <1>2, <2>1 DEF OrderUnquoted, TypeOK, catalogVars
<1>3. ASSUME NEW u \in Users, NEW S \in SUBSET Products, DropItems(u, S)
      PROVE  TypeOK'
  BY <1>3 DEF DropItems, TypeOK, catalogVars, orderVars
<1>4. ASSUME NEW r \in sent, ReplayCheckout(r)
      PROVE  TypeOK'
  <2>1. answers' \in SUBSET [request: Request, order: OrderIds]
    BY <1>4 DEF ReplayCheckout, TypeOK, Earlier, Placed
  <2> QED  BY <1>4, <2>1 DEF ReplayCheckout, TypeOK, catalogVars
<1> QED  BY <1>1, <1>2, <1>3, <1>4 DEF Customer

\* Carts, checkouts and cancellations in progress keep every type.
LEMMA TransactionType ==
    ASSUME TypeOK, NEW w \in Workers, Transaction(w)
    PROVE  TypeOK'
<1>1. ASSUME NEW e \in CartEdit, BeginCartWrite(w, e)
      PROVE  TypeOK'
  BY <1>1 DEF BeginCartWrite, TypeOK, catalogVars, orderVars, CartWrite
<1>2. CASE FinishCartWrite(w)
  <2>1. tx[w] \in CartWrite /\ tx[w].edit \in CartEdit
    BY <1>2, TxKind DEF FinishCartWrite, CartWrite
  <2>2. tx[w].edit.user \in Users /\ tx[w].edit.product \in Products
        /\ tx[w].edit.qty \in Nat
    BY <2>1 DEF CartEdit
  <2>3. NewQuantity(tx[w].edit) \in Nat
    BY <2>2 DEF NewQuantity, MinimumQuantity, TypeOK, Row
  <2>4. cart' \in [Users -> [Products -> Nat]]
    BY <1>2, <2>2, <2>3 DEF FinishCartWrite, TypeOK
  <2>5. mutations' \in SUBSET CartEdit
    BY <1>2, <2>1 DEF FinishCartWrite, TypeOK
  <2> QED  BY <1>2, <2>4, <2>5 DEF FinishCartWrite, TypeOK, catalogVars, orderVars, Idle
<1>3. ASSUME NEW r \in sent, BeginCheckout(w, r)
      PROVE  TypeOK'
  <2>1. settings.tracking \in BOOLEAN
    BY Shop DEF TypeOK, Setting
  <2>2. r \in Request /\ cart[r.user] \in [Products -> Nat]
    BY DEF TypeOK, Request
  <2>3. tx'[w] \in Checkout
    BY <1>3, <2>1, <2>2 DEF BeginCheckout, Checkout, Rows, TypeOK
  <2> QED  BY <1>3, <2>3 DEF BeginCheckout, TypeOK, catalogVars, orderVars
<1>4. ASSUME NEW p \in Products, LockForSale(w, p)
      PROVE  TypeOK'
  <2>1. tx[w] \in Checkout
    BY <1>4, TxKind DEF LockForSale
  <2>2. tx[w].price \in [Products -> Nat]
    BY <2>1 DEF Checkout
  <2>3. product[p].price \in Nat
    BY DEF TypeOK, Row
  <2>4. tx'[w] \in Checkout
    BY <1>4, <2>1, <2>2, <2>3 DEF LockForSale, Checkout, TypeOK
  <2> QED  BY <1>4, <2>4 DEF LockForSale, TypeOK, catalogVars, orderVars
<1>5. CASE PriceCheckout(w)
  <2>1. tx[w] \in Checkout /\ tx[w].request \in Request
    BY <1>5, TxKind DEF PriceCheckout, Checkout
  <2>2. FreshQuote(tx[w]) \in Bill
    BY <2>1, QuoteIsBill DEF FreshQuote, Request, Checkout
  <2>3. tx'[w] \in Checkout
    BY <1>5, <2>1, <2>2 DEF PriceCheckout, Checkout, TypeOK
  <2>4. tx'[w].number \in OrderIds
    BY <1>5, <2>1, Shop DEF PriceCheckout, TypeOK, Checkout, OrderIds
  <2> QED  BY <1>5, <2>3, <2>4 DEF PriceCheckout, TypeOK, catalogVars
<1>6. CASE CommitCheckout(w)
  <2>1. tx[w] \in Checkout /\ tx[w].bill \in Bill /\ tx[w].number \in OrderIds
    BY <1>6, TxKind DEF CommitCheckout, Checkout, TypeOK
  <2>2. NewOrder(tx[w]) \in PlacedOrder
    BY <2>1 DEF NewOrder, PlacedOrder, Checkout
  <2>3. \A p \in Products : Sold(product[p], tx[w].items[p], tx[w].tracking) \in Row
    BY <2>1, SoldIsRow DEF Checkout, TypeOK
  <2>4. answers' \in SUBSET [request: Request, order: OrderIds]
    BY <1>6, <2>1 DEF CommitCheckout, TypeOK, Checkout
  <2>5. product' \in [Products -> Row]
    BY <1>6, <2>3 DEF CommitCheckout, TypeOK
  <2>6. /\ order' \in [OrderIds -> PlacedOrder \cup {NoOrder}]
        /\ order'[tx[w].number].status = "new"
        /\ \A o \in OrderIds : o # tx[w].number => order'[o] = order[o]
    BY <1>6, <2>1, <2>2 DEF CommitCheckout, TypeOK, NewOrder
  <2>7. cart' \in [Users -> [Products -> Nat]]
    BY <1>6 DEF CommitCheckout, TypeOK
  <2>8. /\ tx' \in [Workers -> Checkout \cup CartWrite \cup Cancel \cup {Idle}]
        /\ tx'[w].kind = "idle"
        /\ \A v \in Workers \ {w} : tx'[v] = tx[v]
    BY <1>6 DEF CommitCheckout, TypeOK, Idle
  <2>9. \A v \in Workers : tx'[v].kind = "cancel" => order'[tx'[v].order].status # "none"
    <3> SUFFICES ASSUME NEW v \in Workers, tx'[v].kind = "cancel"
                 PROVE  order'[tx'[v].order].status # "none"
      OBVIOUS
    <3>1. tx[v] \in Cancel /\ tx'[v] = tx[v] /\ tx[v].order \in OrderIds
      BY <2>8, TxKind DEF Cancel
    <3> QED  BY <2>6, <3>1, TxKind DEF TypeOK
  <2> QED  BY <1>6, <2>4, <2>5, <2>6, <2>7, <2>8, <2>9 DEF CommitCheckout, TypeOK
<1>7. ASSUME NEW o \in OrderIds, BeginCancel(w, o)
      PROVE  TypeOK'
  BY <1>7 DEF BeginCancel, TypeOK, catalogVars, orderVars, Cancel, Rows
<1>8. ASSUME NEW p \in Products, LockForReturn(w, p)
      PROVE  TypeOK'
  <2>1. tx[w] \in Cancel
    BY <1>8, TxKind DEF LockForReturn
  <2>3. tx'[w] \in Cancel /\ tx'[w].order = tx[w].order
    BY <1>8, <2>1 DEF LockForReturn, Cancel, TypeOK
  <2> QED  BY <1>8, <2>3 DEF LockForReturn, TypeOK, catalogVars, orderVars
<1>9. CASE CommitCancel(w)
  <2>1. tx[w] \in Cancel /\ tx[w].order \in OrderIds
    BY <1>9, TxKind DEF CommitCancel, Cancel
  <2> DEFINE o == tx[w].order
  <2>2. order[o] \in PlacedOrder
    BY <2>1, <1>9, OrderKind DEF CommitCancel, TypeOK
  <2>3. \A p \in Products :
            Sold(product[p], -order[o].qty[p], order[o].stock_deducted) \in Row
    <3>1. \A p \in Products : product[p] \in Row /\ -order[o].qty[p] \in Int
      BY <2>2 DEF PlacedOrder, TypeOK
    <3> QED  BY <2>2, <3>1, SoldIsRow DEF PlacedOrder
  <2>4. order'[o] \in PlacedOrder
    BY <1>9, <2>1, <2>2 DEF CommitCancel, PlacedOrder, TypeOK
  <2> QED  BY <1>9, <2>1, <2>3, <2>4 DEF CommitCancel, TypeOK, Idle
<1>10. CASE Refuse(w) \/ Crash(w)
  BY <1>10 DEF Refuse, Crash, TypeOK, catalogVars, orderVars, Idle
<1> QED
  BY <1>1, <1>2, <1>3, <1>4, <1>5, <1>6, <1>7, <1>8, <1>9, <1>10 DEF Transaction

\* What administrators do keeps every type.
LEMMA AdministratorType ==
    ASSUME TypeOK, Administrator
    PROVE  TypeOK'
<1>1. ASSUME NEW o \in OrderIds, NEW s \in AllowedTransitions[order[o].status],
             AdvanceStatus(o, s)
      PROVE  TypeOK'
  <2>1. order[o] \in PlacedOrder
    BY <1>1, OrderKind DEF AllowedTransitions
  <2>2. s \in {"confirmed", "preparing", "delivering", "completed"}
    BY <1>1, <2>1 DEF AllowedTransitions, PlacedOrder
  <2>3. order'[o] \in PlacedOrder /\ order'[o].status # "none"
    BY <1>1, <2>1, <2>2 DEF AdvanceStatus, PlacedOrder, TypeOK
  <2> QED  BY <1>1, <2>3 DEF AdvanceStatus, TypeOK, catalogVars
<1>2. ASSUME NEW p \in Products, LoadForm(p)
      PROVE  TypeOK'
  BY <1>2 DEF LoadForm, TypeOK, orderVars, FormType
<1>3. ASSUME NEW e \in Edits, SubmitForm(e)
      PROVE  TypeOK'
  <2>1. form \in FormType /\ form.product \in Products
    BY <1>3 DEF SubmitForm, TypeOK, FormType
  <2>2. e \in Edit
    BY Shop
  <2>3. \A r \in Row : Edited(r, e) \in Row /\ Entered(e.stock, r.stock) \in Int
    <3> SUFFICES ASSUME NEW r \in Row
                 PROVE  Edited(r, e) \in Row /\ Entered(e.stock, r.stock) \in Int
      OBVIOUS
    <3>1. /\ Entered(e.active, r.active) \in BOOLEAN
          /\ Entered(e.stock, r.stock) \in Int
          /\ Entered(e.price, r.price) \in Nat /\ Entered(e.min, r.min) \in Nat
          /\ r.version + 1 \in Nat
      BY <2>2 DEF Edit, Entered, Row
    <3> QED  BY <3>1 DEF Edited, Row
  <2>4. product' \in [Products -> Row]
    BY <1>3, <2>1, <2>3 DEF SubmitForm, TypeOK
  <2>5. product[form.product].stock \in Int
    BY <2>1 DEF TypeOK, Row
  <2>6. supplied' \in [Products -> Int]
    BY <1>3, <2>1, <2>3, <2>5 DEF SubmitForm, TypeOK
  <2> QED  BY <1>3, <2>4, <2>6 DEF SubmitForm, TypeOK, orderVars
<1>4. ASSUME NEW p \in Products, NEW d \in Corrections, AdjustStock(p, d)
      PROVE  TypeOK'
  <2>1. d \in Int /\ product[p] \in Row /\ product[p].stock \in Int
    BY Shop DEF TypeOK, Row
  <2>2. product' \in [Products -> Row] /\ supplied' \in [Products -> Int]
    BY <1>4, <2>1 DEF AdjustStock, TypeOK, Row
  <2> QED  BY <1>4, <2>2 DEF AdjustStock, TypeOK, orderVars
<1>5. ASSUME NEW p \in Products, DeleteProduct(p)
      PROVE  TypeOK'
  <2>1. product' \in [Products -> Row]
    BY <1>5, ZenonT(60) DEF DeleteProduct, TypeOK, Row
  <2>2. cart' \in [Users -> [Products -> Nat]]
    BY <1>5 DEF DeleteProduct, TypeOK
  <2> QED  BY <1>5, <2>1, <2>2 DEF DeleteProduct, TypeOK, orderVars
<1>6. ASSUME NEW p \in Products, SetVisibility(p)
      PROVE  TypeOK'
  BY <1>6 DEF SetVisibility, TypeOK, orderVars
<1>7. ASSUME NEW s \in Settings, SetSettings(s)
      PROVE  TypeOK'
  BY <1>7 DEF SetSettings, TypeOK, orderVars
<1> QED  BY <1>1, <1>2, <1>3, <1>4, <1>5, <1>6, <1>7 DEF Administrator

\* Every variable keeps its shape, whatever the interleaving (TypeOK).
THEOREM TypeCorrect == Spec => []TypeOK
<1>1. Init => TypeOK
  BY Shop DEF Init, TypeOK, Idle, NoOrder, Row
<1>2. TypeOK /\ [Next]_vars => TypeOK'
  <2>1. TypeOK /\ UNCHANGED vars => TypeOK'
    BY DEF TypeOK, vars
  <2> QED  BY <2>1, CustomerType, AdministratorType, TransactionType DEF Next
<1> QED  BY <1>1, <1>2, PTL DEF Spec


-----------------------------------------------------------------------------
(* What one step may do to the locks and to the rows they protect. *)

\* Customers' and administrators' steps leave the open transactions alone.
LEMMA OutsideStep ==
    ASSUME Customer \/ Administrator
    PROVE  UNCHANGED tx
BY DEF Customer, Administrator, AcceptQuote, OrderUnquoted, DropItems,
    ReplayCheckout, AdvanceStatus, LoadForm, SubmitForm, AdjustStock,
    DeleteProduct, SetVisibility, SetSettings

\* A transaction's step leaves the other transactions alone.
LEMMA OwnStep ==
    ASSUME TypeOK, NEW w \in Workers, Transaction(w)
    PROVE  \A v \in Workers \ {w} : tx'[v] = tx[v]
BY DEF Transaction, TypeOK, BeginCartWrite, FinishCartWrite, BeginCheckout,
    LockForSale, LockForReturn, PriceCheckout, CommitCheckout, BeginCancel,
    CommitCancel, Refuse, Crash

\* A transaction only comes to hold a lock nobody held.
LEMMA LocksAreGranted ==
    ASSUME TypeOK, NEW w \in Workers, Transaction(w)
    PROVE  /\ \A u \in Users : HoldsUser(w, u)' => HoldsUser(w, u) \/ UserFree(u)
           /\ \A o \in OrderIds : HoldsOrder(w, o)' => HoldsOrder(w, o) \/ OrderFree(o)
           /\ \A p \in Products : HoldsProduct(w, p)' => HoldsProduct(w, p) \/ ProductFree(p)
<1> USE DEF HoldsUser, HoldsOrder, HoldsProduct
<1>1. ASSUME NEW e \in CartEdit, BeginCartWrite(w, e)
      PROVE  /\ tx'[w].kind = "cart" /\ tx'[w].edit.user = e.user /\ UserFree(e.user)
  BY <1>1 DEF BeginCartWrite, TypeOK
<1>2. ASSUME NEW r \in sent, BeginCheckout(w, r)
      PROVE  /\ tx'[w].kind = "checkout" /\ tx'[w].request.user = r.user
             /\ UserFree(r.user) /\ tx'[w].held = {}
  BY <1>2 DEF BeginCheckout, TypeOK
<1>3. ASSUME NEW p \in Products, LockForSale(w, p)
      PROVE  /\ tx[w].kind = "checkout" /\ tx'[w].kind = "checkout" /\ ProductFree(p)
             /\ tx'[w].request = tx[w].request /\ tx'[w].held = tx[w].held \cup {p}
  <2>1. tx[w] \in Checkout
    BY <1>3, TxKind DEF LockForSale
  <2> QED  BY <1>3, <2>1 DEF LockForSale, TypeOK, Checkout
<1>4. ASSUME NEW p \in Products, LockForReturn(w, p)
      PROVE  /\ tx[w].kind = "cancel" /\ tx'[w].kind = "cancel" /\ ProductFree(p)
             /\ tx'[w].order = tx[w].order /\ tx'[w].held \subseteq tx[w].held \cup {p}
  <2>1. tx[w] \in Cancel
    BY <1>4, TxKind DEF LockForReturn
  <2> QED  BY <1>4, <2>1 DEF LockForReturn, TypeOK, Cancel
<1>5. CASE PriceCheckout(w)
  <2>1. tx[w] \in Checkout
    BY <1>5, TxKind DEF PriceCheckout
  <2>2. /\ tx[w].kind = "checkout" /\ tx'[w].kind = "checkout"
        /\ tx'[w].request = tx[w].request /\ tx'[w].held = tx[w].held
    BY <1>5, <2>1 DEF PriceCheckout, TypeOK, Checkout
  <2> QED  BY <2>2
<1>6. ASSUME NEW o \in OrderIds, BeginCancel(w, o)
      PROVE  /\ tx'[w].kind = "cancel" /\ tx'[w].order = o
             /\ OrderFree(o) /\ tx'[w].held = {}
  BY <1>6 DEF BeginCancel, TypeOK
<1>7. CASE FinishCartWrite(w) \/ CommitCheckout(w) \/ CommitCancel(w) \/ Refuse(w) \/ Crash(w)
  <2>1. tx'[w].kind = "idle"
    BY <1>7 DEF FinishCartWrite, CommitCheckout, CommitCancel, Refuse, Crash, TypeOK, Idle
  <2> QED  BY <2>1
<1> QED  BY <1>1, <1>2, <1>3, <1>4, <1>5, <1>6, <1>7 DEF Transaction

\* The row locks exclude each other (LocksExclusive), whatever the schedule.
LEMMA LocksExclusiveStep ==
    ASSUME TypeOK, LocksExclusive, [Next]_vars
    PROVE  LocksExclusive'
<1>1. CASE UNCHANGED tx
  BY <1>1 DEF LocksExclusive, HoldsUser, HoldsOrder, HoldsProduct
<1>2. ASSUME NEW w \in Workers, Transaction(w)
      PROVE  LocksExclusive'
  <2>1. ASSUME NEW v \in Workers \ {w}
        PROVE  /\ \A u : HoldsUser(v, u)' <=> HoldsUser(v, u)
               /\ \A o : HoldsOrder(v, o)' <=> HoldsOrder(v, o)
               /\ \A p : HoldsProduct(v, p)' <=> HoldsProduct(v, p)
    BY <1>2, OwnStep DEF HoldsUser, HoldsOrder, HoldsProduct
  <2>2. ASSUME NEW v \in Workers \ {w}
        PROVE  /\ \A u \in Users : ~(HoldsUser(v, u)' /\ HoldsUser(w, u)')
               /\ \A o \in OrderIds : ~(HoldsOrder(v, o)' /\ HoldsOrder(w, o)')
               /\ \A p \in Products : ~(HoldsProduct(v, p)' /\ HoldsProduct(w, p)')
    BY <1>2, <2>1, LocksAreGranted DEF LocksExclusive, UserFree, OrderFree, ProductFree
  <2>3. ASSUME NEW v \in Workers \ {w}, NEW x \in Workers \ {w}, v # x
        PROVE  /\ \A u \in Users : ~(HoldsUser(v, u)' /\ HoldsUser(x, u)')
               /\ \A o \in OrderIds : ~(HoldsOrder(v, o)' /\ HoldsOrder(x, o)')
               /\ \A p \in Products : ~(HoldsProduct(v, p)' /\ HoldsProduct(x, p)')
    BY <2>1, <2>3 DEF LocksExclusive
  <2> QED  BY <2>2, <2>3 DEF LocksExclusive
<1> QED  BY <1>1, <1>2, OutsideStep DEF Next, vars

\* No two open transactions ever hold one row (LocksExclusive).
THEOREM MutualExclusion == Spec => []LocksExclusive
<1>1. Init => LocksExclusive
  BY DEF Init, LocksExclusive, Idle, HoldsUser, HoldsOrder, HoldsProduct
<1> QED  BY <1>1, TypeCorrect, LocksExclusiveStep, PTL DEF Spec

-----------------------------------------------------------------------------
(* What the locks buy. *)

\* A product row does not change while a transaction keeps it locked.
LEMMA RowPinned ==
    ASSUME TypeOK, LocksExclusive, [Next]_vars, NEW v \in Workers, NEW p \in Products,
           HoldsProduct(v, p), HoldsProduct(v, p)'
    PROVE  product'[p] = product[p]
<1>1. ~ProductFree(p)
  BY DEF ProductFree
<1>2. CASE UNCHANGED vars
  BY <1>2 DEF vars
<1>3. CASE Customer
  BY <1>3 DEF Customer, AcceptQuote, OrderUnquoted, DropItems, ReplayCheckout, catalogVars
<1>4. CASE Administrator
  BY <1>1, <1>4 DEF Administrator, AdvanceStatus, LoadForm, SubmitForm, AdjustStock,
      DeleteProduct, SetVisibility, SetSettings, catalogVars, TypeOK
<1>5. ASSUME NEW w \in Workers, Transaction(w)
      PROVE  product'[p] = product[p]
  <2>1. CASE CommitCheckout(w) \/ CommitCancel(w)
    <3>1. tx'[w].kind = "idle"
      BY <2>1 DEF CommitCheckout, CommitCancel, TypeOK, Idle
    <3>2. w # v
      BY <3>1 DEF HoldsProduct
    <3>3. tx[w].kind \in {"checkout", "cancel"}
      BY <2>1 DEF CommitCheckout, CommitCancel
    <3>4. p \notin tx[w].held
      BY <3>2, <3>3 DEF LocksExclusive, HoldsProduct
    <3> QED  BY <2>1, <3>4 DEF CommitCheckout, CommitCancel
  <2>2. CASE ~(CommitCheckout(w) \/ CommitCancel(w))
    BY <1>5, <2>2 DEF Transaction, BeginCartWrite, FinishCartWrite, BeginCheckout,
        LockForSale, LockForReturn, PriceCheckout, BeginCancel, Refuse, Crash, catalogVars
  <2> QED  BY <2>1, <2>2
<1> QED  BY <1>2, <1>3, <1>4, <1>5 DEF Next

\* A cart does not change while a checkout keeps its customer locked, but
\* for the rows of a deleted product.
LEMMA CartPinned ==
    ASSUME TypeOK, LocksExclusive, [Next]_vars, NEW v \in Workers, NEW u \in Users,
           tx[v].kind = "checkout", tx'[v].kind = "checkout", HoldsUser(v, u),
           NEW p \in Products
    PROVE  cart'[u][p] = cart[u][p] \/ (cart'[u][p] = 0 /\ ~product'[p].exists)
<1>1. ~UserFree(u)
  BY DEF UserFree
<1>2. CASE UNCHANGED vars
  BY <1>2 DEF vars
<1>3. CASE Customer
  BY <1>1, <1>3 DEF Customer, AcceptQuote, OrderUnquoted, DropItems, ReplayCheckout, TypeOK
<1>4. CASE Administrator
  <2>1. ASSUME NEW q \in Products, DeleteProduct(q)
        PROVE  cart'[u][p] = cart[u][p] \/ (cart'[u][p] = 0 /\ ~product'[p].exists)
    <3>1. product[q] \in Row
      BY DEF TypeOK
    <3> QED  BY <2>1, <3>1 DEF DeleteProduct, TypeOK, Row
  <2> QED  BY <1>4, <2>1 DEF Administrator, AdvanceStatus, LoadForm, SubmitForm,
        AdjustStock, SetVisibility, SetSettings
<1>5. ASSUME NEW w \in Workers, Transaction(w)
      PROVE  cart'[u] = cart[u]
  <2>1. CASE CommitCheckout(w)
    <3>1. tx'[w].kind = "idle" /\ HoldsUser(w, tx[w].request.user)
      BY <2>1 DEF CommitCheckout, TypeOK, Idle, HoldsUser
    <3>2. tx[w].request.user # u
      BY <3>1 DEF LocksExclusive
    <3> QED  BY <2>1, <3>2 DEF CommitCheckout, TypeOK
  <2>2. CASE FinishCartWrite(w)
    <3>1. tx'[w].kind = "idle" /\ HoldsUser(w, tx[w].edit.user)
      BY <2>2 DEF FinishCartWrite, TypeOK, Idle, HoldsUser
    <3>2. tx[w].edit.user # u
      BY <3>1 DEF LocksExclusive
    <3> QED  BY <2>2, <3>2 DEF FinishCartWrite, TypeOK
  <2>3. CASE ~(CommitCheckout(w) \/ FinishCartWrite(w))
    BY <1>5, <2>3 DEF Transaction, BeginCartWrite, BeginCheckout, LockForSale,
        LockForReturn, PriceCheckout, BeginCancel, CommitCancel, Refuse, Crash
  <2> QED  BY <2>1, <2>2, <2>3
<1> QED  BY <1>2, <1>3, <1>4, <1>5 DEF Next

\* A deleted product is never sold again under its id.
LEMMA DeletedForGood ==
    ASSUME TypeOK, [Next]_vars, NEW p \in Products, product'[p].exists
    PROVE  product[p].exists
<1>1. product[p] \in Row
  BY DEF TypeOK
<1>2. \A n, t : Sold(product[p], n, t).exists = product[p].exists
  BY <1>1 DEF Sold, Row
<1>3. CASE UNCHANGED vars
  BY <1>3 DEF vars
<1>4. CASE Customer
  BY <1>4 DEF Customer, AcceptQuote, OrderUnquoted, DropItems, ReplayCheckout, catalogVars
<1>5. CASE Administrator
  BY <1>1, <1>5 DEF Administrator, AdvanceStatus, LoadForm, SubmitForm, AdjustStock,
      DeleteProduct, SetVisibility, SetSettings, catalogVars, TypeOK
<1>6. ASSUME NEW w \in Workers, Transaction(w)
      PROVE  product[p].exists
  <2>1. CASE CommitCheckout(w) \/ CommitCancel(w)
    BY <2>1, <1>2 DEF CommitCheckout, CommitCancel
  <2>2. CASE ~(CommitCheckout(w) \/ CommitCancel(w))
    BY <1>6, <2>2 DEF Transaction, BeginCartWrite, FinishCartWrite, BeginCheckout,
        LockForSale, LockForReturn, PriceCheckout, BeginCancel, Refuse, Crash, catalogVars
  <2> QED  BY <2>1, <2>2
<1> QED  BY <1>3, <1>4, <1>5, <1>6 DEF Next

\* An order row is written once by a checkout; after that only its status moves.
LEMMA OrderStep ==
    ASSUME TypeOK, [Next]_vars, NEW o \in OrderIds
    PROVE  \/ order'[o] = order[o]
           \/ /\ order[o].status # "none" /\ order'[o].status # "none"
              /\ order'[o] = [order[o] EXCEPT !.status = order'[o].status]
           \/ \E w \in Workers : /\ CommitCheckout(w) /\ o = tx[w].number
                                 /\ order'[o] = NewOrder(tx[w])
<1>2. CASE UNCHANGED vars
  BY <1>2 DEF vars
<1>3. CASE Customer
  BY <1>3 DEF Customer, AcceptQuote, OrderUnquoted, DropItems, ReplayCheckout, orderVars
<1>4. CASE Administrator
  <2>1. ASSUME NEW q \in OrderIds, NEW s \in AllowedTransitions[order[q].status],
               AdvanceStatus(q, s), q = o
        PROVE  /\ order[o].status # "none" /\ order'[o].status # "none"
               /\ order'[o] = [order[o] EXCEPT !.status = order'[o].status]
    <3>1. order[o].status # "none" /\ order[o] \in PlacedOrder
      BY <2>1, OrderKind DEF AllowedTransitions
    <3>2. s # "none"
      BY <3>1, <2>1 DEF AllowedTransitions, PlacedOrder
    <3> QED  BY <2>1, <3>1, <3>2 DEF AdvanceStatus, TypeOK, PlacedOrder
  <2>2. ASSUME NEW q \in OrderIds, NEW s \in AllowedTransitions[order[q].status],
               AdvanceStatus(q, s), q # o
        PROVE  order'[o] = order[o]
    BY <2>2 DEF AdvanceStatus, TypeOK
  <2>3. CASE UNCHANGED order
    BY <2>3
  <2> QED  BY <1>4, <2>1, <2>2, <2>3 DEF Administrator, LoadForm, SubmitForm,
        AdjustStock, DeleteProduct, SetVisibility, SetSettings, orderVars
<1>5. ASSUME NEW w \in Workers, Transaction(w)
      PROVE  \/ order'[o] = order[o]
             \/ /\ order[o].status # "none" /\ order'[o].status # "none"
                /\ order'[o] = [order[o] EXCEPT !.status = order'[o].status]
             \/ CommitCheckout(w) /\ o = tx[w].number /\ order'[o] = NewOrder(tx[w])
  <2>1. CASE CommitCheckout(w)
    BY <2>1 DEF CommitCheckout, TypeOK
  <2>2. CASE CommitCancel(w)
    <3>1. order[tx[w].order].status # "none"
      BY <2>2 DEF CommitCancel, TypeOK
    <3>2. CASE tx[w].order = o
      <4>1. order[o] \in PlacedOrder
        BY <3>1, <3>2, OrderKind
      <4> QED  BY <2>2, <3>1, <3>2, <4>1 DEF CommitCancel, TypeOK, PlacedOrder
    <3> QED  BY <2>2, <3>2 DEF CommitCancel, TypeOK
  <2>3. CASE ~(CommitCheckout(w) \/ CommitCancel(w))
    BY <1>5, <2>3 DEF Transaction, BeginCartWrite, FinishCartWrite, BeginCheckout,
        LockForSale, LockForReturn, PriceCheckout, BeginCancel, Refuse, Crash, orderVars
  <2> QED  BY <2>1, <2>2, <2>3
<1> QED  BY <1>2, <1>3, <1>4, <1>5 DEF Next

\* While a checkout keeps its customer locked, nobody uses its key.
LEMMA KeyUnused ==
    ASSUME TypeOK, LocksExclusive, [Next]_vars, NEW v \in Workers, NEW r \in Request,
           tx[v].kind = "checkout", tx'[v].kind = "checkout", tx[v].request = r,
           Earlier(r) = {}
    PROVE  Earlier(r)' = {}
<1> SUFFICES ASSUME NEW o \in OrderIds, order'[o].status # "none", r.key # NoKey,
                    order'[o].request.user = r.user, order'[o].request.key = r.key
             PROVE  FALSE
  BY DEF Earlier, Placed, SameCheckout
<1>1. CASE order'[o].request = order[o].request /\ order[o].status # "none"
  BY <1>1 DEF Earlier, Placed, SameCheckout
<1>2. ASSUME NEW w \in Workers, CommitCheckout(w), order'[o] = NewOrder(tx[w])
      PROVE  FALSE
  <2>1. tx'[w].kind = "idle" /\ tx[w].kind = "checkout" /\ tx[w].request.user = r.user
    BY <1>2 DEF CommitCheckout, NewOrder, Idle, TypeOK
  <2>2. HoldsUser(w, r.user) /\ HoldsUser(v, r.user) /\ r.user \in Users
    BY <2>1 DEF HoldsUser, Request
  <2> QED  BY <2>1, <2>2 DEF LocksExclusive
<1>3. order[o].status # "none" /\ order'[o] = [order[o] EXCEPT !.status = order'[o].status]
        => order'[o].request = order[o].request
  <2>1. order[o].status # "none" => order[o] \in PlacedOrder
    BY OrderKind
  <2> QED  BY <2>1 DEF PlacedOrder
<1> QED  BY <1>1, <1>2, <1>3, OrderStep

\* What a checkout established survives everybody else's steps.
LEMMA SoundFrame ==
    ASSUME TypeOK, LocksExclusive, [Next]_vars, NEW v \in Workers,
           tx[v].kind = "checkout", Sound(tx[v]), tx'[v] = tx[v]
    PROVE  Sound(tx[v])'
<1> DEFINE t == tx[v]
           u == t.request.user
<1>1. t \in Checkout /\ t.request \in Request /\ u \in Users
  BY TxKind DEF Checkout, Request
<1>2. HoldsUser(v, u)
  BY DEF HoldsUser
<1>3. \A p \in t.held : product'[p] = product[p]
  BY <1>1, RowPinned DEF HoldsProduct, Checkout
<1>4. \A p \in Products :
        cart'[u][p] = cart[u][p] \/ (cart'[u][p] = 0 /\ ~product'[p].exists)
  BY <1>1, <1>2, CartPinned
<1>5. Earlier(t.request)' = {}
  BY <1>1, KeyUnused DEF Sound
<1>6. Rows(t.items)' = Rows(t.items)
  BY DEF Rows
<1>7. t.held \subseteq Products
  BY <1>1 DEF Checkout
<1>8. \A p \in Products :
        cart'[u][p] = t.items[p] \/ (cart'[u][p] = 0 /\ ~product'[p].exists)
  BY <1>4, DeletedForGood DEF Sound
<1> QED  BY <1>3, <1>5, <1>6, <1>7, <1>8 DEF Sound

\* What a checkout establishes itself: its locks and reads, then its bill.
LEMMA SoundOwnStep ==
    ASSUME TypeOK, NEW v \in Workers, Transaction(v), tx'[v].kind = "checkout",
           tx[v].kind = "checkout" => Sound(tx[v])
    PROVE  Sound(tx[v])'
<1>1. ASSUME NEW r \in sent, BeginCheckout(v, r)
      PROVE  Sound(tx[v])'
  <2>1. r \in Request /\ r.user \in Users
    BY DEF TypeOK, Request
  <2>2. tx'[v] = [kind |-> "checkout", request |-> r, items |-> cart[r.user],
                  tracking |-> settings.tracking, todo |-> Rows(cart[r.user]),
                  held |-> {}, price |-> [p \in Products |-> 0],
                  bill |-> NoBill, number |-> 0]
    BY <1>1 DEF BeginCheckout, TypeOK
  <2>3. UNCHANGED <<product, cart, order>>
    BY <1>1 DEF BeginCheckout, catalogVars, orderVars
  <2>4. Earlier(r)' = {} /\ Rows(cart[r.user])' = Rows(cart[r.user])
    BY <1>1, <2>3 DEF BeginCheckout, Earlier, Placed, SameCheckout, Rows
  <2> QED  BY <2>2, <2>3, <2>4 DEF Sound
<1>2. ASSUME NEW p \in Products, LockForSale(v, p)
      PROVE  Sound(tx[v])'
  <2>1. tx[v] \in Checkout
    BY <1>2, TxKind DEF LockForSale
  <2>2. /\ tx'[v] = [tx[v] EXCEPT !.todo = @ \ {p}, !.held = @ \cup {p},
                                  !.price[p] = product[p].price]
        /\ p \in tx[v].todo /\ tx[v].kind = "checkout"
    BY <1>2 DEF LockForSale, TypeOK, IsNextLock
  <2>3. UNCHANGED <<product, cart, order>>
    BY <1>2 DEF LockForSale, catalogVars, orderVars
  <2>5. /\ tx'[v].todo = tx[v].todo \ {p} /\ tx'[v].held = tx[v].held \cup {p}
        /\ tx'[v].price = [tx[v].price EXCEPT ![p] = product[p].price]
        /\ tx'[v].request = tx[v].request /\ tx'[v].items = tx[v].items
        /\ tx'[v].tracking = tx[v].tracking /\ tx'[v].bill = tx[v].bill
    BY <2>1, <2>2 DEF Checkout
  <2>6. Earlier(tx[v].request)' = {} /\ Rows(tx[v].items)' = Rows(tx[v].items)
    BY <2>2, <2>3, <2>5 DEF Sound, Earlier, Placed, SameCheckout, Rows
  <2>7. product[p].exists /\ (tx[v].tracking => product[p].stock >= tx[v].items[p])
    BY <1>2 DEF LockForSale, Sellable, Public, InStock
  <2>8. tx[v].price \in [Products -> Nat] /\ tx[v].held \subseteq Products
    BY <2>1 DEF Checkout
  <2>9. tx[v].bill = NoBill
    BY <2>2 DEF Sound
  <2>10. tx'[v].todo \cup tx'[v].held = Rows(tx[v].items)
         /\ tx'[v].todo \cap tx'[v].held = {}
    BY <2>2, <2>5 DEF Sound
  <2>11. \A q \in tx'[v].held :
            /\ product[q].exists /\ (tx'[v].tracking => product[q].stock >= tx'[v].items[q])
            /\ tx'[v].price[q] = product[q].price
    <3>1. tx'[v].price[p] = product[p].price
      BY <2>5, <2>8
    <3>2. \A q \in tx[v].held : q # p /\ tx'[v].price[q] = tx[v].price[q]
      BY <2>2, <2>5, <2>8 DEF Sound
    <3> QED  BY <2>2, <2>5, <2>7, <3>1, <3>2 DEF Sound
  <2>12. \A q \in Products \ tx'[v].held : tx'[v].price[q] = 0
    BY <2>2, <2>5, <2>8 DEF Sound
  <2> QED  BY <2>2, <2>3, <2>5, <2>6, <2>9, <2>10, <2>11, <2>12 DEF Sound
<1>3. CASE PriceCheckout(v)
  <2>1. tx[v] \in Checkout
    BY <1>3, TxKind DEF PriceCheckout
  <2> DEFINE t == tx[v]
             b == FreshQuote(t)
  <2>2. /\ t.kind = "checkout" /\ t.todo = {} /\ Acceptable(t.request, b)
        /\ tx'[v] = [t EXCEPT !.bill = b, !.number = sequence]
        /\ UNCHANGED <<product, cart, order>>
    BY <1>3 DEF PriceCheckout, TypeOK, catalogVars
  <2>3. t.request.user \in Users /\ cart[t.request.user] \in [Products -> Nat]
    BY <2>1 DEF Checkout, Request, TypeOK
  <2>4. t.items \in [Products -> Nat] /\ t.price \in [Products -> Nat]
    BY <2>1 DEF Checkout
  <2>5. t.held = Rows(t.items) /\ cart[t.request.user] = t.items
    BY <2>2, <2>3, <2>4 DEF Sound, Rows
  <2>6. b.qty = t.items
    BY <2>5 DEF FreshQuote, Quote
  <2>7. b.price = [p \in Products |-> IF t.items[p] > 0 THEN product[p].price ELSE 0]
    BY <2>5 DEF FreshQuote, Quote
  <2>8. \A p \in Products :
          t.price[p] = IF t.items[p] > 0 THEN product[p].price ELSE 0
    BY <2>2, <2>5 DEF Sound, Rows
  <2>9. b.price = t.price
    BY <2>4, <2>7, <2>8
  <2>10. t.request.quote # NoQuote => t.request.quote = b
    BY <2>2 DEF Acceptable
  <2>11. /\ tx'[v].bill = b /\ tx'[v].todo = t.todo /\ tx'[v].held = t.held
         /\ tx'[v].price = t.price /\ tx'[v].request = t.request
         /\ tx'[v].items = t.items /\ tx'[v].tracking = t.tracking
    BY <2>1, <2>2 DEF Checkout
  <2>12. Earlier(tx[v].request)' = {} /\ Rows(tx[v].items)' = Rows(t.items)
    BY <2>2, <2>11 DEF Sound, Earlier, Placed, SameCheckout, Rows
  <2> QED  BY <2>2, <2>6, <2>9, <2>10, <2>11, <2>12 DEF Sound
<1>4. CASE Transaction(v) /\ ~PriceCheckout(v)
           /\ (\A r \in sent : ~BeginCheckout(v, r))
           /\ (\A p \in Products : ~LockForSale(v, p))
  <2>1. ASSUME NEW e \in CartEdit, BeginCartWrite(v, e)
        PROVE  tx'[v].kind = "cart"
    BY <2>1 DEF BeginCartWrite, TypeOK
  <2>2. ASSUME NEW p \in Products, LockForReturn(v, p)
        PROVE  tx'[v].kind = "cancel"
    <3>1. tx[v] \in Cancel
      BY <2>2, TxKind DEF LockForReturn
    <3> QED  BY <2>2, <3>1 DEF LockForReturn, TypeOK, Cancel
  <2>3. ASSUME NEW o \in OrderIds, BeginCancel(v, o)
        PROVE  tx'[v].kind = "cancel"
    BY <2>3 DEF BeginCancel, TypeOK
  <2>4. CASE FinishCartWrite(v) \/ CommitCheckout(v) \/ CommitCancel(v) \/ Refuse(v) \/ Crash(v)
    <3>1. tx'[v].kind = "idle"
      BY <2>4 DEF FinishCartWrite, CommitCheckout, CommitCancel, Refuse, Crash, TypeOK, Idle
    <3> QED  BY <3>1
  <2> QED  BY <1>4, <2>1, <2>2, <2>3, <2>4 DEF Transaction
<1> QED  BY <1>1, <1>2, <1>3, <1>4

\* CheckoutSound is kept by every step.
LEMMA CheckoutSoundStep ==
    ASSUME TypeOK, LocksExclusive, CheckoutSound, [Next]_vars
    PROVE  CheckoutSound'
<1> SUFFICES ASSUME NEW v \in Workers, tx'[v].kind = "checkout"
             PROVE  Sound(tx[v])'
  BY DEF CheckoutSound
<1>1. CASE tx'[v] = tx[v]
  BY <1>1, SoundFrame DEF CheckoutSound
<1>2. CASE Transaction(v)
  BY <1>2, SoundOwnStep DEF CheckoutSound
<1>3. tx'[v] = tx[v] \/ Transaction(v)
  BY OutsideStep, OwnStep DEF Next, vars
<1> QED  BY <1>1, <1>2, <1>3

\* CheckoutSound: what a checkout has read under its locks is still true
\* when it commits.
THEOREM LocksSuffice == Spec => []CheckoutSound
<1>1. Init => CheckoutSound
  BY DEF Init, CheckoutSound, Idle
<1> QED  BY <1>1, TypeCorrect, MutualExclusion, CheckoutSoundStep, PTL DEF Spec

\* Stock stays at zero or above (StockNeverNegative): every sale was
\* validated under a lock it still holds, every correction is clamped.
LEMMA StockStep ==
    ASSUME TypeOK, CheckoutSound, StockNeverNegative, [Next]_vars
    PROVE  StockNeverNegative'
<1> SUFFICES ASSUME NEW p \in Products
             PROVE  product'[p].stock >= 0
  BY DEF StockNeverNegative
<1>0. product[p] \in Row /\ product[p].stock >= 0 /\ product[p].stock \in Int
  BY DEF TypeOK, StockNeverNegative, Row
<1>1. CASE UNCHANGED product
  BY <1>0, <1>1
<1>2. ASSUME NEW w \in Workers, CommitCheckout(w)
      PROVE  product'[p].stock >= 0
  <2>1. tx[w] \in Checkout /\ tx[w].items[p] \in Nat /\ tx[w].tracking \in BOOLEAN
    BY <1>2, TxKind DEF CommitCheckout, Checkout
  <2>2. p \in tx[w].held => (tx[w].tracking => product[p].stock >= tx[w].items[p])
    BY <1>2 DEF CommitCheckout, CheckoutSound, Sound
  <2>3. p \in tx[w].held =>
            product'[p].stock = IF tx[w].tracking THEN product[p].stock - tx[w].items[p]
                                ELSE product[p].stock
    BY <1>0, <1>2 DEF CommitCheckout, Sold, Row
  <2>4. p \notin tx[w].held => product'[p] = product[p]
    BY <1>2 DEF CommitCheckout
  <2> QED  BY <1>0, <2>1, <2>2, <2>3, <2>4
<1>3. ASSUME NEW w \in Workers, CommitCancel(w)
      PROVE  product'[p].stock >= 0
  <2>1. tx[w] \in Cancel /\ tx[w].order \in OrderIds
    BY <1>3, TxKind DEF CommitCancel, Cancel
  <2>2. order[tx[w].order] \in PlacedOrder
    BY <1>3, <2>1, OrderKind DEF CommitCancel, TypeOK
  <2> DEFINE n == order[tx[w].order].qty[p]
             t == order[tx[w].order].stock_deducted
  <2>3. n \in Nat /\ t \in BOOLEAN
    BY <2>2 DEF PlacedOrder
  <2>4. product'[p] = product[p] \/ product'[p] = Sold(product[p], -n, t)
    BY <1>3 DEF CommitCancel
  <2>5. Sold(product[p], -n, t).stock = IF t THEN product[p].stock - (-n) ELSE product[p].stock
    BY <1>0 DEF Sold, Row
  <2> QED  BY <1>0, <2>3, <2>4, <2>5
<1>4. ASSUME NEW e \in Edits, SubmitForm(e)
      PROVE  product'[p].stock >= 0
  <2>1. e \in Edit
    BY Shop
  <2>2. Entered(e.stock, product[p].stock) >= 0
    BY <1>0, <2>1 DEF Entered, Edit
  <2>3. product'[p] = product[p] \/ product'[p] = Edited(product[p], e)
    BY <1>4 DEF SubmitForm, TypeOK
  <2>4. Edited(product[p], e).stock = Entered(e.stock, product[p].stock)
    BY <1>0 DEF Edited, Row
  <2> QED  BY <1>0, <2>2, <2>3, <2>4
<1>5. ASSUME NEW q \in Products, NEW delta \in Corrections, AdjustStock(q, delta)
      PROVE  product'[p].stock >= 0
  <2> DEFINE d == IF delta < -product[q].stock THEN -product[q].stock ELSE delta
  <2>1. delta \in Int /\ product[q].stock \in Int
    BY Shop DEF TypeOK, Row
  <2>2. product[q].stock + d >= 0
    BY <2>1
  <2>3. product' = [product EXCEPT ![q].stock = @ + d, ![q].version = @ + 1]
    BY <1>5 DEF AdjustStock
  <2>4. product[q] \in Row
    BY DEF TypeOK
  <2>5. product'[q].stock = product[q].stock + d
    BY <2>3, <2>4 DEF TypeOK, Row
  <2>6. p # q => product'[p] = product[p]
    BY <2>3 DEF TypeOK
  <2> QED  BY <1>0, <2>2, <2>5, <2>6
<1>6. ASSUME NEW q \in Products, DeleteProduct(q)
      PROVE  product'[p].stock = product[p].stock
  BY <1>0, <1>6 DEF DeleteProduct, TypeOK, Row
<1>7. CASE Customer
  BY <1>1, <1>7 DEF Customer, AcceptQuote, OrderUnquoted, DropItems, ReplayCheckout, catalogVars
<1>8. CASE Administrator
  BY <1>0, <1>1, <1>4, <1>5, <1>6, <1>8 DEF Administrator, AdvanceStatus, LoadForm,
      SetVisibility, SetSettings, catalogVars
<1>9. ASSUME NEW w \in Workers, Transaction(w)
      PROVE  product'[p].stock >= 0
  BY <1>1, <1>2, <1>3, <1>9 DEF Transaction, BeginCartWrite, FinishCartWrite, BeginCheckout,
      LockForSale, LockForReturn, PriceCheckout, BeginCancel, Refuse, Crash, catalogVars
<1> QED  BY <1>1, <1>7, <1>8, <1>9 DEF Next, vars

\* No schedule of sales, cancellations, forms, corrections and deletions
\* oversells a tracked product (StockNeverNegative).
THEOREM NeverOversold == Spec => []StockNeverNegative
<1>1. Init => StockNeverNegative
  BY Shop DEF Init, StockNeverNegative
<1> QED  BY <1>1, TypeCorrect, LocksSuffice, StockStep, PTL DEF Spec

-----------------------------------------------------------------------------
(* Orders, keys and quotes. *)

\* The request, bill, lines and prices of an order never change.
LEMMA OrderCopyKept ==
    ASSUME TypeOK, [Next]_vars, NEW o \in Placed
    PROVE  \/ /\ o \in Placed' /\ order'[o].request = order[o].request
              /\ order'[o].bill = order[o].bill /\ order'[o].qty = order[o].qty
              /\ order'[o].price = order[o].price
           \/ \E w \in Workers : CommitCheckout(w) /\ o = tx[w].number
<1>1. o \in OrderIds /\ order[o] \in PlacedOrder
  BY OrderKind DEF Placed
<1>2. CASE order'[o] = order[o]
  BY <1>1, <1>2 DEF Placed
<1>3. CASE /\ order'[o].status # "none"
           /\ order'[o] = [order[o] EXCEPT !.status = order'[o].status]
  BY <1>1, <1>3 DEF Placed, PlacedOrder
<1> QED  BY <1>1, <1>2, <1>3, OrderStep

\* Order numbers come from a sequence and are never handed out twice
\* (NumbersFresh).
LEMMA NumbersStep ==
    ASSUME TypeOK, NumbersFresh, [Next]_vars
    PROVE  NumbersFresh'
<1>1. sequence \in Nat /\ sequence' \in Nat /\ sequence' >= sequence
  <2>1. sequence' = sequence \/ sequence' = sequence + 1
    BY ZenonT(60) DEF Next, vars, Customer, AcceptQuote, OrderUnquoted, DropItems, ReplayCheckout,
        Administrator, AdvanceStatus, LoadForm, SubmitForm, AdjustStock, DeleteProduct,
        SetVisibility, SetSettings, Transaction, BeginCartWrite, FinishCartWrite,
        BeginCheckout, LockForSale, LockForReturn, PriceCheckout, CommitCheckout,
        BeginCancel, CommitCancel, Refuse, Crash, orderVars
  <2> QED  BY <2>1 DEF TypeOK
<1>2. ASSUME NEW w \in Workers, CommitCheckout(w)
      PROVE  tx[w].kind = "checkout" /\ tx[w].bill # NoBill /\ tx'[w].kind = "idle"
  BY <1>2 DEF CommitCheckout, TypeOK, Idle
<1>3. ASSUME NEW o \in Placed'
      PROVE  o < sequence'
  <2>1. o \in Placed => o < sequence /\ o \in OrderIds
    BY DEF NumbersFresh, Placed
  <2>2. o \in Placed \/ \E w \in Workers : CommitCheckout(w) /\ o = tx[w].number
    BY OrderStep DEF Placed
  <2>3. \A w \in Workers : CommitCheckout(w) => tx[w].number < sequence /\ tx[w].number \in OrderIds
    BY <1>2 DEF NumbersFresh, TypeOK
  <2> QED  BY <1>1, <2>1, <2>2, <2>3 DEF OrderIds
<1> DEFINE Billed(v) == tx[v].kind = "checkout" /\ tx[v].bill # NoBill
<1>4. ASSUME NEW v \in Workers, Billed(v)'
      PROVE  \/ Billed(v) /\ tx'[v].number = tx[v].number
             \/ PriceCheckout(v) /\ tx'[v].number = sequence /\ sequence' = sequence + 1
  <2>1. CASE tx'[v] = tx[v]
    BY <1>4, <2>1
  <2>2. ASSUME NEW r \in sent, BeginCheckout(v, r)
        PROVE  FALSE
    BY <1>4, <2>2 DEF BeginCheckout, TypeOK
  <2>3. ASSUME NEW p \in Products, LockForSale(v, p)
        PROVE  Billed(v) /\ tx'[v].number = tx[v].number
    <3>1. tx[v] \in Checkout
      BY <2>3, TxKind DEF LockForSale
    <3> QED  BY <1>4, <2>3, <3>1 DEF LockForSale, TypeOK, Checkout
  <2>4. CASE PriceCheckout(v)
    <3>1. tx[v] \in Checkout
      BY <2>4, TxKind DEF PriceCheckout
    <3> QED  BY <2>4, <3>1 DEF PriceCheckout, TypeOK, Checkout
  <2>5. ASSUME NEW e \in CartEdit, BeginCartWrite(v, e)
        PROVE  FALSE
    BY <1>4, <2>5 DEF BeginCartWrite, TypeOK
  <2>6. ASSUME NEW p \in Products, LockForReturn(v, p)
        PROVE  FALSE
    <3>1. tx[v] \in Cancel
      BY <2>6, TxKind DEF LockForReturn
    <3> QED  BY <1>4, <2>6, <3>1 DEF LockForReturn, TypeOK, Cancel
  <2>7. ASSUME NEW o \in OrderIds, BeginCancel(v, o)
        PROVE  FALSE
    BY <1>4, <2>7 DEF BeginCancel, TypeOK
  <2>8. CASE FinishCartWrite(v) \/ CommitCheckout(v) \/ CommitCancel(v) \/ Refuse(v) \/ Crash(v)
    <3>1. tx'[v].kind = "idle"
      BY <2>8 DEF FinishCartWrite, CommitCheckout, CommitCancel, Refuse, Crash, TypeOK, Idle
    <3> QED  BY <1>4, <3>1
  <2>9. tx'[v] = tx[v] \/ Transaction(v)
    BY OutsideStep, OwnStep DEF Next, vars
  <2> QED  BY <2>1, <2>2, <2>3, <2>4, <2>5, <2>6, <2>7, <2>8, <2>9 DEF Transaction
<1>5. ASSUME NEW v \in Workers, PriceCheckout(v)
      PROVE  /\ sequence \in OrderIds /\ UNCHANGED order
             /\ \A x \in Workers \ {v} : tx'[x] = tx[x]
             /\ ~Billed(v)
  BY <1>5 DEF PriceCheckout, OrderIds, TypeOK
<1>6. ASSUME NEW v \in Workers, Billed(v)'
      PROVE  /\ tx'[v].number < sequence' /\ order'[tx'[v].number].status = "none"
             /\ \A x \in Workers \ {v} : Billed(x)' => tx'[x].number # tx'[v].number
  <2>1. CASE Billed(v) /\ tx'[v].number = tx[v].number
    <3>1. /\ tx[v].number \in OrderIds /\ tx[v].number < sequence
          /\ order[tx[v].number].status = "none"
      BY <2>1 DEF NumbersFresh, TypeOK
    <3>2. \A w \in Workers : CommitCheckout(w) => tx[w].number # tx[v].number
      BY <1>2, <1>6, <2>1 DEF NumbersFresh
    <3>3. order'[tx[v].number].status = "none"
      BY <3>1, <3>2, OrderStep
    <3>4. ASSUME NEW x \in Workers \ {v}, Billed(x)'
          PROVE  tx'[x].number # tx'[v].number
      BY <1>1, <1>4, <2>1, <3>1, <3>4 DEF NumbersFresh, OrderIds
    <3> QED  BY <1>1, <2>1, <3>1, <3>3, <3>4 DEF OrderIds
  <2>2. CASE PriceCheckout(v) /\ tx'[v].number = sequence /\ sequence' = sequence + 1
    <3>1. order'[sequence].status = "none"
      BY <1>1, <1>5, <2>2 DEF NumbersFresh, Placed
    <3>2. ASSUME NEW x \in Workers \ {v}, Billed(x)'
          PROVE  tx'[x].number # sequence
      <4>1. tx'[x] = tx[x] /\ Billed(x)
        BY <1>5, <2>2, <3>2
      <4> QED  BY <1>1, <4>1 DEF NumbersFresh, TypeOK, OrderIds
    <3> QED  BY <1>1, <2>2, <3>1, <3>2
  <2> QED  BY <1>4, <1>6, <2>1, <2>2
<1> QED  BY <1>3, <1>6 DEF NumbersFresh

\* An order number is never handed out twice (NumbersFresh).
THEOREM NumbersUnique == Spec => []NumbersFresh
<1>1. Init => NumbersFresh
  BY DEF Init, NumbersFresh, Idle, Placed, NoOrder
<1> QED  BY <1>1, TypeCorrect, NumbersStep, PTL DEF Spec

\* A committed checkout leaves its order under the number it drew, which no
\* order had.
LEMMA CommitFresh ==
    ASSUME TypeOK, NumbersFresh, NEW w \in Workers, CommitCheckout(w)
    PROVE  /\ tx[w] \in Checkout /\ tx[w].number \in OrderIds
           /\ tx[w].number \notin Placed /\ tx[w].bill \in Bill
           /\ order'[tx[w].number] = NewOrder(tx[w])
           /\ Placed' = Placed \cup {tx[w].number}
           /\ \A o \in Placed : order'[o] = order[o]
<1>1. tx[w] \in Checkout /\ tx[w].number \in OrderIds /\ tx[w].bill \in Bill
  BY TxKind DEF CommitCheckout, Checkout, TypeOK
<1>2. tx[w].number \notin Placed
  BY <1>1 DEF CommitCheckout, NumbersFresh, Placed
<1>3. /\ order'[tx[w].number] = NewOrder(tx[w])
      /\ \A o \in OrderIds : o # tx[w].number => order'[o] = order[o]
  BY <1>1 DEF CommitCheckout, TypeOK
<1> QED  BY <1>1, <1>2, <1>3 DEF Placed, NewOrder

\* Every other step keeps the set of orders and what they say.
LEMMA OrdersKept ==
    ASSUME TypeOK, [Next]_vars, \A w \in Workers : ~CommitCheckout(w)
    PROVE  /\ Placed' = Placed
           /\ \A o \in Placed :
                /\ order'[o].request = order[o].request /\ order'[o].bill = order[o].bill
                /\ order'[o].qty = order[o].qty /\ order'[o].price = order[o].price
<1>1. Placed' = Placed
  BY OrderStep DEF Placed
<1> QED  BY <1>1, OrderCopyKept

\* OneOrderPerKey: a repeated request finds the first order or waits for it.
LEMMA OneOrderStep ==
    ASSUME TypeOK, NumbersFresh, CheckoutSound, OneOrderPerKey, [Next]_vars
    PROVE  OneOrderPerKey'
<1>1. CASE \A w \in Workers : ~CommitCheckout(w)
  BY <1>1, OrdersKept DEF OneOrderPerKey, SameCheckout, Placed
<1>2. ASSUME NEW w \in Workers, CommitCheckout(w)
      PROVE  OneOrderPerKey'
  <2> DEFINE n == tx[w].number
             r == tx[w].request
  <2>1. Earlier(r) = {}
    BY <1>2 DEF CommitCheckout, CheckoutSound, Sound
  <2>2. order'[n].request = r
    <3>1. order'[n] = NewOrder(tx[w])
      BY <1>2, CommitFresh
    <3> QED  BY <3>1 DEF NewOrder
  <2>3. \A o \in Placed : r.key # NoKey =>
            ~(order[o].request.user = r.user /\ order[o].request.key = r.key)
    BY <2>1 DEF Earlier, SameCheckout
  <2>4. SUFFICES ASSUME NEW o \in Placed', NEW q \in Placed',
                        order'[o].request.key # NoKey,
                        order'[q].request.user = order'[o].request.user,
                        order'[q].request.key = order'[o].request.key
                 PROVE  o = q
    BY DEF OneOrderPerKey, SameCheckout
  <2>5. \A x \in Placed : order'[x].request = order[x].request
    BY <1>2, CommitFresh
  <2>6. o \in Placed \cup {n} /\ q \in Placed \cup {n}
    BY <1>2, CommitFresh
  <2> QED  BY <2>2, <2>3, <2>4, <2>5, <2>6, SMTT(30) DEF OneOrderPerKey, SameCheckout
<1> QED  BY <1>1, <1>2

\* However a customer's request is repeated, its key buys once
\* (OneOrderPerKey).
THEOREM BuysOnce == Spec => []OneOrderPerKey
<1>1. Init => OneOrderPerKey
  BY DEF Init, OneOrderPerKey, Placed, NoOrder
<1> QED  BY <1>1, TypeCorrect, NumbersUnique, LocksSuffice, OneOrderStep, PTL DEF Spec

\* Every answer names an order placed for the very request answered.
AnswersNameOrders ==
    \A a \in answers : a.order \in Placed /\ order[a.order].request = a.request

LEMMA AnswersStep ==
    ASSUME TypeOK, NumbersFresh, AnswersNameOrders, [Next]_vars
    PROVE  AnswersNameOrders'
<1>1. ASSUME NEW a \in answers
      PROVE  a.order \in Placed' /\ order'[a.order].request = a.request
  BY OrdersKept, CommitFresh DEF AnswersNameOrders
<1>2. ASSUME NEW a \in answers' \ answers
      PROVE  a.order \in Placed' /\ order'[a.order].request = a.request
  <2>1. CASE \E w \in Workers : CommitCheckout(w)
    <3>1. PICK w \in Workers : CommitCheckout(w)
      BY <2>1
    <3>2. a = [request |-> tx[w].request, order |-> tx[w].number]
      BY <1>2, <3>1 DEF CommitCheckout
    <3>3. order'[tx[w].number] = NewOrder(tx[w])
      BY <3>1, CommitFresh
    <3>4. order'[tx[w].number].request = tx[w].request
      BY <3>3 DEF NewOrder
    <3> QED  BY <3>1, <3>2, <3>4, CommitFresh
  <2>2. CASE \E r \in sent : ReplayCheckout(r)
    <3>1. PICK r \in sent : ReplayCheckout(r)
      BY <2>2
    <3>2. /\ a.order \in Placed /\ order[a.order].request = r /\ a.request = r
          /\ UNCHANGED order
      BY <1>2, <3>1 DEF ReplayCheckout, Earlier
    <3> QED  BY <3>2 DEF Placed
  <2>3. CASE ~(\E w \in Workers : CommitCheckout(w)) /\ ~(\E r \in sent : ReplayCheckout(r))
    <3>1. answers' = answers
      BY <2>3, ZenonT(60) DEF Next, vars, Customer, AcceptQuote, OrderUnquoted, DropItems,
          Administrator, AdvanceStatus, LoadForm, SubmitForm, AdjustStock, DeleteProduct,
          SetVisibility, SetSettings, Transaction, BeginCartWrite, FinishCartWrite,
          BeginCheckout, LockForSale, LockForReturn, PriceCheckout,
          BeginCancel, CommitCancel, Refuse, Crash, orderVars
    <3> QED  BY <1>2, <3>1
  <2> QED  BY <2>1, <2>2, <2>3
<1> QED  BY <1>1, <1>2 DEF AnswersNameOrders

\* All the answers a key is given agree (AnswersAgree): it follows from
\* OneOrderPerKey, as each names an order placed for its request.
THEOREM RepliesAgree == Spec => []AnswersAgree
<1>1. Init => AnswersNameOrders
  BY DEF Init, AnswersNameOrders
<1>2. AnswersNameOrders /\ OneOrderPerKey => AnswersAgree
  BY DEF AnswersNameOrders, OneOrderPerKey, AnswersAgree, SameCheckout, Placed
<1> QED  BY <1>1, <1>2, TypeCorrect, NumbersUnique, BuysOnce, AnswersStep, PTL DEF Spec

\* QuoteHonoured: the bill compared with the accepted quote is the bill of
\* the order, and it is for the lines and prices the order ships.
LEMMA QuoteStep ==
    ASSUME TypeOK, NumbersFresh, CheckoutSound, QuoteHonoured, [Next]_vars
    PROVE  QuoteHonoured'
<1>1. CASE \A w \in Workers : ~CommitCheckout(w)
  BY <1>1, OrdersKept DEF QuoteHonoured
<1>2. ASSUME NEW w \in Workers, CommitCheckout(w)
      PROVE  QuoteHonoured'
  <2>1. Sound(tx[w]) /\ tx[w].bill # NoBill
    BY <1>2 DEF CommitCheckout, CheckoutSound
  <2>2. order'[tx[w].number] = NewOrder(tx[w])
    BY <1>2, CommitFresh
  <2>3. LET n == order'[tx[w].number] IN
            /\ n.request.quote # NoQuote => n.bill = n.request.quote
            /\ n.bill.qty = n.qty /\ n.bill.price = n.price
    BY <2>1, <2>2 DEF NewOrder, Sound
  <2> QED  BY <1>2, <2>3, CommitFresh DEF QuoteHonoured
<1> QED  BY <1>1, <1>2

\* An order is charged as its customer accepted (QuoteHonoured).
THEOREM ChargedAsAccepted == Spec => []QuoteHonoured
<1>1. Init => QuoteHonoured
  BY DEF Init, QuoteHonoured, Placed, NoOrder
<1> QED  BY <1>1, TypeCorrect, NumbersUnique, LocksSuffice, QuoteStep, PTL DEF Spec

-----------------------------------------------------------------------------
(* Sums over the orders. *)

\* A sum is the last of its partial sums.
LEMMA PartialSums ==
    ASSUME NEW N \in Nat, NEW d \in [1 .. N -> Int]
    PROVE  \E f \in [0 .. N -> Int] :
                f[0] = 0 /\ (\A i \in 1 .. N : f[i] = f[i - 1] + d[i]) /\ SumTo(d, N) = f[N]
<1> DEFINE Partial(f, n) == f = [i \in 0 .. n |-> IF i = 0 THEN 0 ELSE f[i - 1] + d[i]]
           Have == {n \in 0 .. N : \E f \in [0 .. n -> Int] : Partial(f, n)}
<1>1. 0 \in Have
  <2> DEFINE f == [i \in 0 .. 0 |-> 0]
  <2>1. f \in [0 .. 0 -> Int] /\ Partial(f, 0) /\ 0 \in 0 .. N
    OBVIOUS
  <2> HIDE DEF f, Partial
  <2> QED  BY <2>1
<1>2. ASSUME NEW n \in 1 .. N, n - 1 \in Have PROVE n \in Have
  <2>1. PICK f \in [0 .. n - 1 -> Int] : Partial(f, n - 1)
    BY <1>2
  <2> DEFINE g == [i \in 0 .. n |-> IF i = n THEN f[n - 1] + d[n] ELSE f[i]]
  <2>2. n \in 0 .. N /\ n - 1 \in 0 .. n - 1
    OBVIOUS
  <2>3. g \in [0 .. n -> Int]
    BY <2>1, <2>2
  <2>4. ASSUME NEW i \in 0 .. n PROVE g[i] = IF i = 0 THEN 0 ELSE g[i - 1] + d[i]
    <3>1. CASE i = n
      BY <3>1
    <3>2. CASE i # n
      <4>1. i \in 0 .. n - 1
        BY <3>2
      <4>2. f[i] = IF i = 0 THEN 0 ELSE f[i - 1] + d[i]
        BY <4>1, <2>1
      <4>3. g[i] = f[i] /\ (i # 0 => g[i - 1] = f[i - 1])
        BY <4>1, <3>2
      <4> QED  BY <4>2, <4>3
    <3> QED  BY <3>1, <3>2
  <2>5. Partial(g, n)
    BY <2>4
  <2> QED  BY <2>2, <2>3, <2>5
<1> HIDE DEF Have
<1>3. N \in Have
  <2>1. \A n \in 0 .. N : n \in Have
    BY <1>1, <1>2, UpTo
  <2> QED  BY <2>1
<1> DEFINE F == CHOOSE f : f = [i \in 0 .. N |-> IF i = 0 THEN 0 ELSE f[i - 1] + d[i]]
<1>4. \E f : f = [i \in 0 .. N |-> IF i = 0 THEN 0 ELSE f[i - 1] + d[i]]
  BY <1>3 DEF Have
<1>5. F = [i \in 0 .. N |-> IF i = 0 THEN 0 ELSE F[i - 1] + d[i]]
  BY <1>4
<1>6. SumTo(d, N) = F[N]
  BY DEF SumTo
<1> HIDE DEF F
<1>7. \A i \in 0 .. N : F[i] = IF i = 0 THEN 0 ELSE F[i - 1] + d[i]
  BY <1>5
<1>8. F[0] = 0 /\ (\A i \in 1 .. N : F[i] = F[i - 1] + d[i])
  BY <1>7
<1>9. F \in [0 .. N -> Int]
  <2> DEFINE T == {i \in 0 .. N : F[i] \in Int}
  <2>1. 0 \in T /\ \A i \in 1 .. N : i - 1 \in T => i \in T
    BY <1>8
  <2> HIDE DEF T
  <2>2. \A i \in 0 .. N : i \in T
    BY <2>1, UpTo
  <2>3. \A i \in 0 .. N : F[i] \in Int
    BY <2>2 DEF T
  <2>4. F = [i \in 0 .. N |-> F[i]]
    BY <1>5
  <2> QED  BY <2>3, <2>4
<1> QED  BY <1>6, <1>8, <1>9

\* When one term changes, the sum changes by as much.
LEMMA SumChanges ==
    ASSUME NEW N \in Nat, NEW d \in [1 .. N -> Int], NEW e \in [1 .. N -> Int],
           NEW k \in 1 .. N, \A i \in 1 .. N \ {k} : e[i] = d[i]
    PROVE  SumTo(e, N) = SumTo(d, N) + e[k] - d[k] /\ SumTo(d, N) \in Int
<1>1. PICK f \in [0 .. N -> Int] :
        f[0] = 0 /\ (\A i \in 1 .. N : f[i] = f[i - 1] + d[i]) /\ SumTo(d, N) = f[N]
  BY PartialSums
<1>2. PICK g \in [0 .. N -> Int] :
        g[0] = 0 /\ (\A i \in 1 .. N : g[i] = g[i - 1] + e[i]) /\ SumTo(e, N) = g[N]
  BY PartialSums
<1> DEFINE T == {i \in 0 .. N : g[i] = f[i] + (IF i >= k THEN e[k] - d[k] ELSE 0)}
<1>3. 0 \in T
  <2>1. 0 \in 0 .. N /\ ~(0 >= k)
    OBVIOUS
  <2> QED  BY <1>1, <1>2, <2>1
<1>4. ASSUME NEW i \in 1 .. N, i - 1 \in T PROVE i \in T
  <2>0. i - 1 \in 0 .. N /\ i \in 0 .. N
        /\ g[i - 1] = f[i - 1] + (IF i - 1 >= k THEN e[k] - d[k] ELSE 0)
    BY <1>4
  <2>1. f[i] = f[i - 1] + d[i] /\ g[i] = g[i - 1] + e[i]
        /\ f[i - 1] \in Int /\ d[i] \in Int /\ e[i] \in Int /\ d[k] \in Int /\ e[k] \in Int
    BY <1>1, <1>2, <2>0
  <2>2. CASE i = k
    <3>1. ~(i - 1 >= k) /\ i >= k
      BY <2>2
    <3> QED  BY <2>0, <2>1, <2>2, <3>1
  <2>3. CASE i # k
    <3>1. e[i] = d[i] /\ (i - 1 >= k <=> i >= k)
      BY <2>3
    <3> QED  BY <2>0, <2>1, <3>1, SMTT(30)
  <2> QED  BY <2>2, <2>3
<1> HIDE DEF T
<1>5. N \in T
  <2>1. \A i \in 0 .. N : i \in T
    BY <1>3, <1>4, UpTo
  <2> QED  BY <2>1
<1>6. g[N] = f[N] + (IF N >= k THEN e[k] - d[k] ELSE 0) /\ N >= k /\ f[N] \in Int
  BY <1>5, <1>1 DEF T
<1>7. e[k] \in Int /\ d[k] \in Int
  OBVIOUS
<1> QED  BY <1>1, <1>2, <1>6, <1>7

\* A sum of zeros is zero.
LEMMA SumOfZeros ==
    ASSUME NEW N \in Nat, NEW d \in [1 .. N -> Int], \A i \in 1 .. N : d[i] = 0
    PROVE  SumTo(d, N) = 0
<1>1. PICK f \in [0 .. N -> Int] :
        f[0] = 0 /\ (\A i \in 1 .. N : f[i] = f[i - 1] + d[i]) /\ SumTo(d, N) = f[N]
  BY PartialSums
<1> DEFINE T == {i \in 0 .. N : f[i] = 0}
<1>2. 0 \in T /\ \A i \in 1 .. N : i - 1 \in T => i \in T
  BY <1>1
<1> HIDE DEF T
<1>3. N \in T
  <2>1. \A i \in 0 .. N : i \in T
    BY <1>2, UpTo
  <2> QED  BY <2>1
<1> QED  BY <1>1, <1>3 DEF T

-----------------------------------------------------------------------------
(* The units that orders hold, and the cancellations that return them. *)

\* An order's row does not change while a cancellation keeps it locked.
LEMMA OrderPinned ==
    ASSUME TypeOK, LocksExclusive, NumbersFresh, [Next]_vars, NEW v \in Workers,
           NEW o \in OrderIds, HoldsOrder(v, o), HoldsOrder(v, o)'
    PROVE  order'[o] = order[o]
<1>1. ~OrderFree(o) /\ o \in Placed
  BY DEF OrderFree, Placed, HoldsOrder, TypeOK
<1>2. CASE UNCHANGED order
  BY <1>2
<1>3. CASE Customer
  BY <1>3 DEF Customer, AcceptQuote, OrderUnquoted, DropItems, ReplayCheckout, orderVars
<1>4. CASE Administrator
  BY <1>1, <1>4 DEF Administrator, AdvanceStatus, LoadForm, SubmitForm, AdjustStock,
      DeleteProduct, SetVisibility, SetSettings, orderVars, TypeOK
<1>5. ASSUME NEW w \in Workers, Transaction(w)
      PROVE  order'[o] = order[o]
  <2>1. CASE CommitCheckout(w)
    BY <1>1, <2>1, CommitFresh
  <2>2. CASE CommitCancel(w)
    <3>1. tx'[w].kind = "idle" /\ tx[w].kind = "cancel"
      BY <2>2 DEF CommitCancel, TypeOK, Idle
    <3>2. w # v
      BY <3>1 DEF HoldsOrder
    <3>3. tx[w].order # o
      BY <3>1, <3>2 DEF LocksExclusive, HoldsOrder
    <3> QED  BY <2>2, <3>3 DEF CommitCancel, TypeOK
  <2>3. CASE ~(CommitCheckout(w) \/ CommitCancel(w))
    BY <1>5, <2>3 DEF Transaction, BeginCartWrite, FinishCartWrite, BeginCheckout,
        LockForSale, LockForReturn, PriceCheckout, BeginCancel, Refuse, Crash, orderVars
  <2> QED  BY <2>1, <2>2, <2>3
<1> QED  BY <1>2, <1>3, <1>4, <1>5 DEF Next, vars

\* What a cancellation has established so far: its order can still be
\* cancelled, and every product of it that still exists is locked or will be.
Returning(t) ==
    /\ order[t.order].status \notin {"none", "completed", "cancelled"}
    /\ t.todo \cup t.held \subseteq Rows(order[t.order].qty)
    /\ \A p \in Rows(order[t.order].qty) : product[p].exists => p \in t.todo \cup t.held
    /\ \A p \in t.held : product[p].exists

ReturnsSound == \A w \in Workers : tx[w].kind = "cancel" => Returning(tx[w])

\* It survives everybody else's steps.
LEMMA ReturningFrame ==
    ASSUME TypeOK, LocksExclusive, NumbersFresh, [Next]_vars, NEW v \in Workers,
           tx[v].kind = "cancel", Returning(tx[v]), tx'[v] = tx[v]
    PROVE  Returning(tx[v])'
<1> DEFINE t == tx[v]
<1>1. t \in Cancel /\ t.order \in OrderIds /\ t.held \subseteq Products
  BY TxKind DEF Cancel
<1>2. order'[t.order] = order[t.order]
  BY <1>1, OrderPinned DEF HoldsOrder
<1>3. \A p \in t.held : product'[p] = product[p]
  BY <1>1, RowPinned DEF HoldsProduct
<1>4. Rows(order[t.order].qty)' = Rows(order[t.order].qty)
      /\ Rows(order[t.order].qty) \subseteq Products
  BY <1>2 DEF Rows
<1>5. \A p \in Products : product'[p].exists => product[p].exists
  BY DeletedForGood
<1> QED  BY <1>1, <1>2, <1>3, <1>4, <1>5 DEF Returning

\* Its own steps establish it.
LEMMA ReturningOwnStep ==
    ASSUME TypeOK, NEW v \in Workers, Transaction(v), tx'[v].kind = "cancel",
           tx[v].kind = "cancel" => Returning(tx[v])
    PROVE  Returning(tx[v])'
<1>1. ASSUME NEW o \in OrderIds, BeginCancel(v, o)
      PROVE  Returning(tx[v])'
  <2>1. /\ tx'[v] = [kind |-> "cancel", order |-> o, held |-> {},
                     todo |-> {p \in Rows(order[o].qty) : product[p].exists}]
        /\ order[o].status \notin {"none", "completed", "cancelled"}
        /\ UNCHANGED <<product, order>>
    BY <1>1 DEF BeginCancel, TypeOK, catalogVars, orderVars
  <2>2. Rows(order[o].qty)' = Rows(order[o].qty)
    BY <2>1 DEF Rows
  <2> QED  BY <2>1, <2>2 DEF Returning
<1>2. ASSUME NEW p \in Products, LockForReturn(v, p)
      PROVE  Returning(tx[v])'
  <2>1. tx[v] \in Cancel /\ tx[v].kind = "cancel"
    BY <1>2, TxKind DEF LockForReturn
  <2>2. /\ tx'[v].order = tx[v].order /\ tx'[v].todo = tx[v].todo \ {p}
        /\ tx'[v].held = IF product[p].exists THEN tx[v].held \cup {p} ELSE tx[v].held
        /\ p \in tx[v].todo /\ UNCHANGED <<product, order>>
    BY <1>2, <2>1 DEF LockForReturn, IsNextLock, TypeOK, Cancel, catalogVars, orderVars
  <2>3. Rows(order[tx[v].order].qty)' = Rows(order[tx[v].order].qty)
    BY <2>2 DEF Rows
  <2> QED  BY <2>1, <2>2, <2>3 DEF Returning
<1>3. CASE /\ \A o \in OrderIds : ~BeginCancel(v, o)
           /\ \A p \in Products : ~LockForReturn(v, p)
  <2>1. ASSUME NEW e \in CartEdit, BeginCartWrite(v, e)
        PROVE  FALSE
    BY <2>1 DEF BeginCartWrite, TypeOK
  <2>2. ASSUME NEW r \in sent, BeginCheckout(v, r)
        PROVE  FALSE
    BY <2>2 DEF BeginCheckout, TypeOK
  <2>3. ASSUME NEW p \in Products, LockForSale(v, p)
        PROVE  FALSE
    <3>1. tx[v] \in Checkout
      BY <2>3, TxKind DEF LockForSale
    <3> QED  BY <2>3, <3>1 DEF LockForSale, TypeOK, Checkout
  <2>4. CASE PriceCheckout(v)
    <3>1. tx[v] \in Checkout
      BY <2>4, TxKind DEF PriceCheckout
    <3> QED  BY <2>4, <3>1 DEF PriceCheckout, TypeOK, Checkout
  <2>5. CASE FinishCartWrite(v) \/ CommitCheckout(v) \/ CommitCancel(v) \/ Refuse(v) \/ Crash(v)
    <3>1. tx'[v].kind = "idle"
      BY <2>5 DEF FinishCartWrite, CommitCheckout, CommitCancel, Refuse, Crash, TypeOK, Idle
    <3> QED  BY <3>1
  <2> QED  BY <1>3, <2>1, <2>2, <2>3, <2>4, <2>5 DEF Transaction
<1> QED  BY <1>1, <1>2, <1>3

\* ReturnsSound is kept by every step.
LEMMA ReturnsSoundStep ==
    ASSUME TypeOK, LocksExclusive, NumbersFresh, ReturnsSound, [Next]_vars
    PROVE  ReturnsSound'
<1> SUFFICES ASSUME NEW v \in Workers, tx'[v].kind = "cancel"
             PROVE  Returning(tx[v])'
  BY DEF ReturnsSound
<1>1. CASE tx'[v] = tx[v]
  BY <1>1, ReturningFrame DEF ReturnsSound
<1>2. CASE Transaction(v)
  BY <1>2, ReturningOwnStep DEF ReturnsSound
<1>3. tx'[v] = tx[v] \/ Transaction(v)
  BY OutsideStep, OwnStep DEF Next, vars
<1> QED  BY <1>1, <1>2, <1>3

\* A cancellation returns exactly what its order holds (ReturnsSound).
THEOREM ReturnsSuffice == Spec => []ReturnsSound
<1>1. Init => ReturnsSound
  BY DEF Init, ReturnsSound, Idle
<1> QED  BY <1>1, TypeCorrect, MutualExclusion, NumbersUnique, ReturnsSoundStep, PTL DEF Spec

\* What one order adds to the units of a product that orders hold.
Share(p, o, S) == IF o \in S THEN order[o].qty[p] ELSE 0

\* The units orders hold are a number.
LEMMA UnitsType ==
    ASSUME TypeOK, NEW p \in Products
    PROVE  Units(p, Live) \in Int /\ Units(p, Deducted) \in Int
<1>1. \A o \in OrderIds : Share(p, o, Live) \in Int /\ Share(p, o, Deducted) \in Int
  <2>1. \A o \in OrderIds : o \in Live => order[o].qty[p] \in Int
    BY OrderKind DEF Live, Placed, PlacedOrder
  <2> QED  BY <2>1 DEF Share, Deducted
<1>2. ASSUME NEW d \in [1 .. MaxOrders -> Int]
      PROVE  SumTo(d, MaxOrders) \in Int
  <2>1. PICK f \in [0 .. MaxOrders -> Int] : SumTo(d, MaxOrders) = f[MaxOrders]
    BY PartialSums, Shop
  <2> QED  BY <2>1, Shop
<1> DEFINE l == [o \in OrderIds |-> Share(p, o, Live)]
           d == [o \in OrderIds |-> Share(p, o, Deducted)]
<1>3. Units(p, Live) = SumTo(l, MaxOrders) /\ Units(p, Deducted) = SumTo(d, MaxOrders)
  BY DEF Units, Share
<1>4. l \in [1 .. MaxOrders -> Int] /\ d \in [1 .. MaxOrders -> Int]
  BY <1>1 DEF OrderIds
<1> HIDE DEF l, d
<1> QED  BY <1>2, <1>3, <1>4

\* When only one order's row changes, the units orders hold change by the
\* change of its share.
LEMMA UnitsChange ==
    ASSUME TypeOK, TypeOK', NEW p \in Products, NEW k \in OrderIds,
           \A o \in OrderIds \ {k} : order'[o] = order[o]
    PROVE  /\ Units(p, Live)' = Units(p, Live) + Share(p, k, Live)' - Share(p, k, Live)
           /\ Units(p, Deducted)' =
                Units(p, Deducted) + Share(p, k, Deducted)' - Share(p, k, Deducted)
           /\ Units(p, Live) \in Int /\ Units(p, Deducted) \in Int
<1>1. MaxOrders \in Nat /\ OrderIds = 1 .. MaxOrders
  BY Shop DEF OrderIds
<1>2. \A o \in OrderIds : Share(p, o, Live) \in Int /\ Share(p, o, Deducted) \in Int
  <2>1. \A o \in OrderIds : o \in Live => order[o].qty[p] \in Int
    BY OrderKind DEF Live, Placed, PlacedOrder
  <2> QED  BY <2>1 DEF Share, Deducted
<1>3. \A o \in OrderIds : Share(p, o, Live)' \in Int /\ Share(p, o, Deducted)' \in Int
  <2>1. \A o \in OrderIds : o \in Live' => order'[o].qty[p] \in Int
    BY DEF Live, Placed, PlacedOrder, TypeOK, NoOrder
  <2> QED  BY <2>1 DEF Share, Deducted
<1>4. \A o \in OrderIds \ {k} :
        Share(p, o, Live)' = Share(p, o, Live) /\ Share(p, o, Deducted)' = Share(p, o, Deducted)
  BY DEF Share, Live, Deducted, Placed
<1> DEFINE l == [o \in OrderIds |-> Share(p, o, Live)]
           m == [o \in OrderIds |-> Share(p, o, Live)']
           d == [o \in OrderIds |-> Share(p, o, Deducted)]
           e == [o \in OrderIds |-> Share(p, o, Deducted)']
<1>5. /\ Units(p, Live) = SumTo(l, MaxOrders) /\ Units(p, Live)' = SumTo(m, MaxOrders)
      /\ Units(p, Deducted) = SumTo(d, MaxOrders) /\ Units(p, Deducted)' = SumTo(e, MaxOrders)
  BY DEF Units, Share
<1>6. /\ l \in [1 .. MaxOrders -> Int] /\ m \in [1 .. MaxOrders -> Int]
      /\ d \in [1 .. MaxOrders -> Int] /\ e \in [1 .. MaxOrders -> Int]
  BY <1>1, <1>2, <1>3
<1>7. /\ \A o \in 1 .. MaxOrders \ {k} : m[o] = l[o] /\ e[o] = d[o]
      /\ m[k] = Share(p, k, Live)' /\ l[k] = Share(p, k, Live)
      /\ e[k] = Share(p, k, Deducted)' /\ d[k] = Share(p, k, Deducted)
      /\ k \in 1 .. MaxOrders
  BY <1>1, <1>4
<1> HIDE DEF l, m, d, e
<1>8. SumTo(m, MaxOrders) = SumTo(l, MaxOrders) + m[k] - l[k] /\ SumTo(l, MaxOrders) \in Int
  BY <1>1, <1>6, <1>7, SumChanges
<1>9. SumTo(e, MaxOrders) = SumTo(d, MaxOrders) + e[k] - d[k] /\ SumTo(d, MaxOrders) \in Int
  BY <1>1, <1>6, <1>7, SumChanges
<1> QED  BY <1>5, <1>7, <1>8, <1>9

\* Units that no order's step touches stay as they are.
LEMMA UnitsKept ==
    ASSUME TypeOK, TypeOK', NEW p \in Products, UNCHANGED order
    PROVE  Units(p, Live)' = Units(p, Live) /\ Units(p, Deducted)' = Units(p, Deducted)
BY DEF Units, Live, Deducted, Placed, SumTo

\* What a sale, or a return, changes in a product's row.
LEMMA SoldRow ==
    ASSUME NEW row \in Row, NEW q \in Int, NEW t \in BOOLEAN
    PROVE  /\ Sold(row, q, t).stock = row.stock - (IF t THEN q ELSE 0)
           /\ Sold(row, q, t).sold = row.sold + q
           /\ Sold(row, q, t).exists = row.exists
<1>1. row.stock \in Int /\ row.sold \in Int
  BY DEF Row
<1>2. CASE t
  BY <1>1, <1>2 DEF Sold, Row
<1>3. CASE ~t
  BY <1>1, <1>3 DEF Sold, Row
<1> QED  BY <1>2, <1>3

\* StockLedger is kept by every step: a checkout takes off the shelf what its
\* order will hold, a cancellation puts back what its order held, and an
\* administrator's change is supply.
LEMMA LedgerStep ==
    ASSUME TypeOK, TypeOK', LocksExclusive, NumbersFresh, CheckoutSound, ReturnsSound,
           StockLedger, [Next]_vars
    PROVE  StockLedger'
<1> SUFFICES ASSUME NEW p \in Products, product'[p].exists
             PROVE  /\ product'[p].stock + Units(p, Deducted)' = supplied'[p]
                    /\ product'[p].sold = InitialRow[p].sold + Units(p, Live)'
  BY DEF StockLedger
<1>0. product[p].exists
  BY DeletedForGood
<1>1. /\ product[p].stock + Units(p, Deducted) = supplied[p]
      /\ product[p].sold = InitialRow[p].sold + Units(p, Live)
  BY <1>0 DEF StockLedger
<1>2. /\ product[p] \in Row /\ product[p].stock \in Int /\ product[p].sold \in Int
      /\ supplied[p] \in Int /\ InitialRow[p].sold \in Int
  BY Shop DEF TypeOK, Row
<1>3. CASE UNCHANGED <<order, product, supplied>>
  BY <1>1, <1>3, UnitsKept
<1>4. ASSUME NEW w \in Workers, CommitCheckout(w)
      PROVE  /\ product'[p].stock + Units(p, Deducted)' = supplied'[p]
             /\ product'[p].sold = InitialRow[p].sold + Units(p, Live)'
  <2>0. PICK n \in OrderIds : n = tx[w].number
    BY <1>4, CommitFresh
  <2> DEFINE q == tx[w].items[p]
             t == tx[w].tracking
  <2>1. /\ tx[w] \in Checkout /\ n \notin Placed
        /\ order'[n] = NewOrder(tx[w])
        /\ \A o \in OrderIds \ {n} : order'[o] = order[o]
    BY <1>4, <2>0, CommitFresh DEF CommitCheckout, TypeOK
  <2>2. q \in Nat /\ t \in BOOLEAN
    BY <2>1 DEF Checkout
  <2>3. p \in tx[w].held <=> q > 0
    BY <1>4 DEF CommitCheckout, CheckoutSound, Sound, Rows
  <2>4. product'[p] = IF p \in tx[w].held THEN Sold(product[p], q, t) ELSE product[p]
    BY <1>4 DEF CommitCheckout
  <2>5. /\ product'[p].stock = product[p].stock - (IF t THEN q ELSE 0)
        /\ product'[p].sold = product[p].sold + q
    <3>1. p \in tx[w].held => product'[p] = Sold(product[p], q, t)
      BY <2>4
    <3>2. p \notin tx[w].held => product'[p] = product[p] /\ q = 0
      BY <2>2, <2>3, <2>4
    <3> HIDE DEF q, t
    <3>3. /\ Sold(product[p], q, t).stock = product[p].stock - (IF t THEN q ELSE 0)
          /\ Sold(product[p], q, t).sold = product[p].sold + q
      BY <1>2, <2>2, SoldRow
    <3> QED  BY <1>2, <2>2, <3>1, <3>2, <3>3
  <2>6. Share(p, n, Live) = 0 /\ Share(p, n, Deducted) = 0
    BY <2>1 DEF Share, Live, Deducted
  <2>7. /\ order'[n].status = "new" /\ order'[n].qty[p] = q /\ order'[n].stock_deducted = t
    BY <2>1 DEF NewOrder
  <2>8. Share(p, n, Live)' = q /\ Share(p, n, Deducted)' = IF t THEN q ELSE 0
    <3>1. n \in Live' /\ (n \in Deducted' <=> t)
      BY <2>1, <2>7 DEF Live, Deducted, Placed
    <3> QED  BY <2>7, <3>1 DEF Share
  <2>9. supplied' = supplied
    BY <1>4 DEF CommitCheckout
  <2>10. /\ Units(p, Live)' = Units(p, Live) + Share(p, n, Live)' - Share(p, n, Live)
         /\ Units(p, Deducted)' =
                Units(p, Deducted) + Share(p, n, Deducted)' - Share(p, n, Deducted)
         /\ Units(p, Live) \in Int /\ Units(p, Deducted) \in Int
    BY <2>1, UnitsChange
  <2> HIDE DEF q, t
  <2> QED  BY <1>1, <1>2, <2>2, <2>5, <2>6, <2>8, <2>9, <2>10
<1>5. ASSUME NEW w \in Workers, CommitCancel(w)
      PROVE  /\ product'[p].stock + Units(p, Deducted)' = supplied'[p]
             /\ product'[p].sold = InitialRow[p].sold + Units(p, Live)'
  <2>0. PICK o \in OrderIds : o = tx[w].order
    BY <1>5, TxKind DEF CommitCancel, Cancel
  <2> DEFINE q == order[o].qty[p]
             t == order[o].stock_deducted
  <2>1. tx[w].todo = {} /\ Returning(tx[w])
    BY <1>5 DEF CommitCancel, ReturnsSound
  <2>2. o \in Live /\ order[o] \in PlacedOrder
    BY <2>0, <2>1, OrderKind DEF Returning, Live, Placed
  <2>3. q \in Nat /\ t \in BOOLEAN
    BY <2>2 DEF PlacedOrder
  <2>4. /\ order'[o].status = "cancelled"
        /\ \A x \in OrderIds \ {o} : order'[x] = order[x]
    BY <1>5, <2>0, <2>2 DEF CommitCancel, TypeOK, PlacedOrder
  <2>5. p \in tx[w].held <=> q > 0
    BY <1>0, <2>0, <2>1 DEF Returning, Rows
  <2>6. product'[p] = IF p \in tx[w].held THEN Sold(product[p], -q, t) ELSE product[p]
    BY <1>5, <2>0 DEF CommitCancel
  <2>7. /\ product'[p].stock = product[p].stock + (IF t THEN q ELSE 0)
        /\ product'[p].sold = product[p].sold - q
    <3>1. p \in tx[w].held => product'[p] = Sold(product[p], -q, t)
      BY <2>6
    <3>2. p \notin tx[w].held => product'[p] = product[p] /\ q = 0
      BY <2>3, <2>5, <2>6
    <3> HIDE DEF q, t
    <3>3. -q \in Int
      BY <2>3
    <3>4. /\ Sold(product[p], -q, t).stock = product[p].stock - (IF t THEN -q ELSE 0)
          /\ Sold(product[p], -q, t).sold = product[p].sold + (-q)
      BY <1>2, <2>3, <3>3, SoldRow
    <3> QED  BY <1>2, <2>3, <3>1, <3>2, <3>4
  <2>8. Share(p, o, Live) = q /\ Share(p, o, Deducted) = IF t THEN q ELSE 0
    BY <2>2 DEF Share, Deducted
  <2>9. Share(p, o, Live)' = 0 /\ Share(p, o, Deducted)' = 0
    BY <2>4 DEF Share, Live, Deducted
  <2>10. supplied' = supplied
    BY <1>5 DEF CommitCancel
  <2>11. /\ Units(p, Live)' = Units(p, Live) + Share(p, o, Live)' - Share(p, o, Live)
         /\ Units(p, Deducted)' =
                Units(p, Deducted) + Share(p, o, Deducted)' - Share(p, o, Deducted)
         /\ Units(p, Live) \in Int /\ Units(p, Deducted) \in Int
    BY <2>4, UnitsChange
  <2> HIDE DEF q, t
  <2> QED  BY <1>1, <1>2, <2>3, <2>7, <2>8, <2>9, <2>10, <2>11
<1>6. ASSUME NEW k \in OrderIds, NEW s \in AllowedTransitions[order[k].status],
             AdvanceStatus(k, s)
      PROVE  /\ product'[p].stock + Units(p, Deducted)' = supplied'[p]
             /\ product'[p].sold = InitialRow[p].sold + Units(p, Live)'
  <2>1. order[k] \in PlacedOrder /\ k \in Live
    BY <1>6, OrderKind DEF AllowedTransitions, Live, Placed
  <2>2. s \in {"confirmed", "preparing", "delivering", "completed"}
    BY <1>6, <2>1 DEF AllowedTransitions, PlacedOrder
  <2>3. /\ order'[k] = [order[k] EXCEPT !.status = s]
        /\ \A o \in OrderIds \ {k} : order'[o] = order[o]
        /\ UNCHANGED <<product, supplied>>
    BY <1>6 DEF AdvanceStatus, TypeOK, catalogVars
  <2>4. /\ order'[k].status = s /\ order'[k].qty = order[k].qty
        /\ order'[k].stock_deducted = order[k].stock_deducted
    BY <2>1, <2>3 DEF PlacedOrder
  <2>5. Share(p, k, Live)' = Share(p, k, Live) /\ Share(p, k, Deducted)' = Share(p, k, Deducted)
    BY <2>1, <2>2, <2>4 DEF Share, Live, Deducted, Placed
  <2>6. Share(p, k, Live) \in Int /\ Share(p, k, Deducted) \in Int
    BY <2>1 DEF Share, Deducted, PlacedOrder
  <2>7. /\ Units(p, Live)' = Units(p, Live) + Share(p, k, Live)' - Share(p, k, Live)
        /\ Units(p, Deducted)' =
                Units(p, Deducted) + Share(p, k, Deducted)' - Share(p, k, Deducted)
        /\ Units(p, Live) \in Int /\ Units(p, Deducted) \in Int
    BY <2>3, UnitsChange
  <2> QED  BY <1>1, <1>2, <2>3, <2>5, <2>6, <2>7
<1>7. ASSUME NEW e \in Edits, SubmitForm(e)
      PROVE  /\ product'[p].stock + Units(p, Deducted)' = supplied'[p]
             /\ product'[p].sold = InitialRow[p].sold + Units(p, Live)'
  <2>1. UNCHANGED order /\ form.product \in Products /\ e \in Edit
    BY <1>7, Shop DEF SubmitForm, orderVars, TypeOK, FormType
  <2>2. CASE p # form.product
    <3>1. product'[p] = product[p] /\ supplied'[p] = supplied[p]
      BY <1>7, <2>2 DEF SubmitForm, TypeOK
    <3> QED  BY <1>1, <2>1, <3>1, UnitsKept
  <2>3. CASE p = form.product
    <3> DEFINE s == Entered(e.stock, product[p].stock)
    <3>1. product'[p] = Edited(product[p], e) /\ supplied'[p] = supplied[p] + s - product[p].stock
      BY <1>7, <2>3 DEF SubmitForm, TypeOK
    <3>2. product'[p].stock = s /\ product'[p].sold = product[p].sold
      BY <1>2, <3>1 DEF Edited, Row
    <3>3. s \in Int
      BY <1>2, <2>1 DEF Entered, Edit
    <3>4. Units(p, Deducted) \in Int
      BY UnitsType
    <3> HIDE DEF s
    <3> QED  BY <1>1, <1>2, <2>1, <3>1, <3>2, <3>3, <3>4, UnitsKept
  <2> QED  BY <2>2, <2>3
<1>8. ASSUME NEW k \in Products, NEW delta \in Corrections, AdjustStock(k, delta)
      PROVE  /\ product'[p].stock + Units(p, Deducted)' = supplied'[p]
             /\ product'[p].sold = InitialRow[p].sold + Units(p, Live)'
  <2> DEFINE d == IF delta < -product[k].stock THEN -product[k].stock ELSE delta
  <2>1. /\ product' = [product EXCEPT ![k].stock = @ + d, ![k].version = @ + 1]
        /\ supplied' = [supplied EXCEPT ![k] = @ + d]
        /\ UNCHANGED order
    BY <1>8 DEF AdjustStock, orderVars
  <2>2. CASE p # k
    <3>1. product'[p] = product[p] /\ supplied'[p] = supplied[p]
      BY <2>1, <2>2 DEF TypeOK
    <3> QED  BY <1>1, <2>1, <3>1, UnitsKept
  <2>3. CASE p = k
    <3>1. d \in Int
      BY <1>2, <2>3, Shop
    <3>2. /\ product'[p].stock = product[p].stock + d /\ product'[p].sold = product[p].sold
          /\ supplied'[p] = supplied[p] + d
      BY <1>2, <2>1, <2>3 DEF TypeOK, Row
    <3>3. Units(p, Deducted) \in Int
      BY UnitsType
    <3> HIDE DEF d
    <3> QED  BY <1>1, <1>2, <2>1, <3>1, <3>2, <3>3, UnitsKept
  <2> QED  BY <2>2, <2>3
<1>9. ASSUME NEW k \in Products, DeleteProduct(k)
      PROVE  /\ product'[p].stock + Units(p, Deducted)' = supplied'[p]
             /\ product'[p].sold = InitialRow[p].sold + Units(p, Live)'
  <2>1. product'[p].stock = product[p].stock /\ product'[p].sold = product[p].sold
    BY <1>2, <1>9 DEF DeleteProduct, TypeOK, Row
  <2>2. UNCHANGED order /\ supplied' = supplied
    BY <1>9 DEF DeleteProduct, orderVars
  <2> QED  BY <1>1, <2>1, <2>2, UnitsKept
<1>10. CASE Customer
  BY <1>3, <1>10 DEF Customer, AcceptQuote, OrderUnquoted, DropItems, ReplayCheckout,
      catalogVars, orderVars
<1>11. CASE Administrator
  BY <1>3, <1>6, <1>7, <1>8, <1>9, <1>11 DEF Administrator, LoadForm,
      SetVisibility, SetSettings, orderVars
<1>12. ASSUME NEW w \in Workers, Transaction(w), ~CommitCheckout(w), ~CommitCancel(w)
       PROVE  UNCHANGED <<order, product, supplied>>
  BY <1>12 DEF Transaction, BeginCartWrite, FinishCartWrite, BeginCheckout,
      LockForSale, LockForReturn, PriceCheckout, BeginCancel, Refuse, Crash, catalogVars, orderVars
<1> QED  BY <1>3, <1>4, <1>5, <1>10, <1>11, <1>12 DEF Next, vars

\* Units are neither lost nor made (StockLedger): for any number of products,
\* orders and workers, what was supplied is on the shelf or in the orders
\* that took it.
THEOREM UnitsAccounted == Spec => []StockLedger
<1>1. Init => StockLedger
  <2> SUFFICES ASSUME Init, NEW p \in Products
               PROVE  /\ product[p].stock + Units(p, Deducted) = supplied[p]
                      /\ product[p].sold = InitialRow[p].sold + Units(p, Live)
    BY DEF StockLedger
  <2>1. Live = {} /\ Deducted = {}
    BY DEF Init, Live, Deducted, Placed, NoOrder
  <2> DEFINE z == [o \in OrderIds |-> 0]
  <2>2. Units(p, Live) = SumTo(z, MaxOrders) /\ Units(p, Deducted) = SumTo(z, MaxOrders)
    BY <2>1 DEF Units
  <2>3. z \in [1 .. MaxOrders -> Int] /\ \A o \in 1 .. MaxOrders : z[o] = 0
    BY DEF OrderIds
  <2> HIDE DEF z
  <2>4. SumTo(z, MaxOrders) = 0
    BY <2>3, SumOfZeros, Shop
  <2>5. product[p].stock \in Int /\ InitialRow[p].sold \in Int
    BY Shop DEF Init, Row
  <2> QED  BY <2>2, <2>4, <2>5 DEF Init
<1>2. TypeOK /\ TypeOK' /\ LocksExclusive /\ NumbersFresh /\ CheckoutSound /\ ReturnsSound
        /\ StockLedger /\ [Next]_vars => StockLedger'
  BY LedgerStep
<1> QED  BY <1>1, <1>2, TypeCorrect, MutualExclusion, NumbersUnique, LocksSuffice,
            ReturnsSuffice, PTL DEF Spec

-----------------------------------------------------------------------------
(* The book of sales. *)

\* A line of the book is not a blank.
LEMMA LineNotBlank ==
    ASSUME NEW s, NEW b, NEW k, NEW a, NEW c, NEW u, NEW t
    PROVE  [state |-> s, buyer |-> b, key |-> k, accepted |-> a, charged |-> c,
            units |-> u, counted |-> t] # NoOrder
<1> SUFFICES ASSUME [state |-> s, buyer |-> b, key |-> k, accepted |-> a, charged |-> c,
                     units |-> u, counted |-> t] = NoOrder
             PROVE  FALSE
  OBVIOUS
<1>1. DOMAIN [state |-> s, buyer |-> b, key |-> k, accepted |-> a, charged |-> c,
              units |-> u, counted |-> t] = DOMAIN [status |-> "none"]
  BY DEF NoOrder
<1> QED  BY <1>1

\* How one order reads in the book.
LEMMA BookLine ==
    ASSUME NEW o \in OrderIds
    PROVE  /\ o \notin Placed => Book[o] = NoOrder
           /\ o \in Placed =>
                /\ Book[o] # NoOrder
                /\ Book[o].buyer = order[o].request.user
                /\ Book[o].key = order[o].request.key
                /\ Book[o].units = order[o].qty
                /\ Book[o].counted = order[o].stock_deducted
                /\ order[o].status = "completed" => Book[o].state = "closed"
                /\ order[o].status \notin {"completed", "cancelled"} => Book[o].state = "open"
<1>1. CASE o \notin Placed
  BY <1>1 DEF Book, Placed
<1>2. CASE o \in Placed
  <2> DEFINE s == IF order[o].status = "cancelled" THEN "returned"
                  ELSE IF order[o].status = "completed" THEN "closed" ELSE "open"
  <2>1. Book[o] = [state |-> s, buyer |-> order[o].request.user, key |-> order[o].request.key,
                   accepted |-> order[o].request.quote, charged |-> order[o].bill,
                   units |-> order[o].qty, counted |-> order[o].stock_deducted]
    BY <1>2 DEF Book, Placed
  <2>2. /\ order[o].status = "completed" => s = "closed"
        /\ order[o].status \notin {"completed", "cancelled"} => s = "open"
    OBVIOUS
  <2> HIDE DEF s
  <2>3. Book[o] # NoOrder
    BY <2>1, LineNotBlank
  <2> QED  BY <1>2, <2>1, <2>2, <2>3
<1> QED  BY <1>1, <1>2

\* The book has one line for every order number.
LEMMA BookShape ==
    /\ Book = [o \in OrderIds |-> Book[o]]
    /\ Book' = [o \in OrderIds |-> Book'[o]]
BY DEF Book

\* A committed checkout is one sale.
LEMMA CheckoutSells ==
    ASSUME TypeOK, TypeOK', NumbersFresh, CheckoutSound, StockNeverNegative,
           NEW w \in Workers, CommitCheckout(w)
    PROVE  \E n \in OrderIds : Book'[n] # NoOrder /\ Ledger!Sell(n, Book'[n])
<1>1. PICK n \in OrderIds : n = tx[w].number
  BY CommitFresh
<1> DEFINE t == tx[w]
           s == Book'[n]
<1>2. /\ t \in Checkout /\ t.request \in Request /\ n \notin Placed
      /\ Placed' = Placed \cup {n} /\ order'[n] = NewOrder(t)
      /\ \A o \in Placed : order'[o] = order[o]
  BY <1>1, CommitFresh DEF Checkout
<1>3. Sound(t) /\ t.bill # NoBill /\ t.held = Rows(t.items)
  <2>1. Sound(t) /\ t.todo = {} /\ t.bill # NoBill
    <3>1. t.kind = "checkout" /\ t.bill # NoBill
      BY DEF CommitCheckout
    <3>2. Sound(t)
      BY <3>1 DEF CheckoutSound
    <3> QED  BY <3>1, <3>2 DEF Sound
  <2>2. t.todo \cup t.held = Rows(t.items)
    BY <2>1 DEF Sound
  <2> QED  BY <2>1, <2>2
<1>4. /\ order'[n].status = "new" /\ order'[n].request = t.request
      /\ order'[n].bill = t.bill /\ order'[n].qty = t.items
      /\ order'[n].stock_deducted = t.tracking
  BY <1>2 DEF NewOrder
<1>5. s # NoOrder /\ s = [state |-> "open", buyer |-> t.request.user, key |-> t.request.key,
            accepted |-> t.request.quote, charged |-> t.bill,
            units |-> t.items, counted |-> t.tracking]
  <2>1. s = [state |-> "open", buyer |-> t.request.user, key |-> t.request.key,
            accepted |-> t.request.quote, charged |-> t.bill,
            units |-> t.items, counted |-> t.tracking]
    BY <1>4 DEF Book
  <2> QED  BY <2>1, LineNotBlank
<1>6. /\ s.state = "open" /\ s.buyer = t.request.user /\ s.key = t.request.key
      /\ s.accepted = t.request.quote /\ s.charged = t.bill
      /\ s.units = t.items /\ s.counted = t.tracking
  BY <1>5
<1> HIDE DEF s
<1>7. Book[n] = NoOrder
  BY <1>2, BookLine
<1>8. Ledger!FreshKey(s)
  <2> SUFFICES ASSUME s.key # NoKey, NEW o \in OrderIds, Book[o] # NoOrder,
                      Book[o].buyer = s.buyer, Book[o].key = s.key
               PROVE  FALSE
    BY DEF Ledger!FreshKey
  <2>1. o \in Placed
    BY BookLine
  <2>2. Book[o].buyer = order[o].request.user /\ Book[o].key = order[o].request.key
    BY <2>1, BookLine
  <2>3. o \in Earlier(t.request)
    BY <1>6, <2>1, <2>2 DEF Earlier, SameCheckout
  <2> QED  BY <1>3, <2>3 DEF Sound
<1>9. s.accepted \in {NoQuote, s.charged}
  BY <1>3, <1>6 DEF Sound
<1>10. \A p \in Products : s.units[p] > 0 => p \notin Gone
  BY <1>3, <1>6 DEF Sound, Rows, Gone
<1>11. s.counted => \A p \in Products : s.units[p] <= Shelf[p]
  <2> SUFFICES ASSUME t.tracking, NEW p \in Products
               PROVE  t.items[p] <= product[p].stock
    BY <1>6 DEF Shelf
  <2>1. t.items[p] \in Nat /\ product[p].stock \in Int /\ product[p].stock >= 0
    BY <1>2 DEF Checkout, TypeOK, Row, StockNeverNegative
  <2>2. t.items[p] > 0 => product[p].stock >= t.items[p]
    BY <1>3 DEF Sound, Rows
  <2> QED  BY <2>1, <2>2
<1>12. Book' = [Book EXCEPT ![n] = s]
  <2>1. \A o \in OrderIds \ {n} : order'[o] = order[o]
    BY <1>1 DEF CommitCheckout, TypeOK
  <2>2. \A o \in OrderIds \ {n} : Book'[o] = Book[o]
    BY <2>1 DEF Book
  <2> QED  BY <2>2, BookShape DEF s
<1>13. \A p \in Products : product'[p] \in Row
           /\ product'[p].stock = product[p].stock - (IF t.tracking THEN t.items[p] ELSE 0)
           /\ product'[p].exists = product[p].exists
  <2> SUFFICES ASSUME NEW p \in Products
               PROVE  /\ product'[p].stock = product[p].stock - (IF t.tracking THEN t.items[p] ELSE 0)
                      /\ product'[p].exists = product[p].exists
    BY DEF TypeOK
  <2>1. t.items[p] \in Nat /\ t.tracking \in BOOLEAN /\ product[p] \in Row /\ product[p].stock \in Int
    BY <1>2 DEF Checkout, TypeOK, Row
  <2>2. p \in t.held => product'[p] = Sold(product[p], t.items[p], t.tracking)
    BY DEF CommitCheckout
  <2>3. p \notin t.held => product'[p] = product[p] /\ t.items[p] = 0
    BY <1>3, <2>1 DEF CommitCheckout, Rows
  <2>4. /\ Sold(product[p], t.items[p], t.tracking).stock =
                product[p].stock - (IF t.tracking THEN t.items[p] ELSE 0)
        /\ Sold(product[p], t.items[p], t.tracking).exists = product[p].exists
    BY <2>1, SoldRow
  <2> QED  BY <2>1, <2>2, <2>3, <2>4
<1>14. Shelf' = [p \in Products |-> IF s.counted THEN Shelf[p] - s.units[p] ELSE Shelf[p]]
  <2>1. \A p \in Products : product[p].stock \in Int
    BY DEF TypeOK, Row
  <2> QED  BY <1>6, <1>13, <2>1 DEF Shelf
<1>15. Gone' = Gone
  BY <1>13 DEF Gone
<1>16. Ledger!Sell(n, s)
  BY <1>6, <1>7, <1>8, <1>9, <1>10, <1>11, <1>12, <1>14, <1>15 DEF Ledger!Sell
<1> QED  BY <1>5, <1>16 DEF s

\* A committed cancellation is one return.
LEMMA CancelReturns ==
    ASSUME TypeOK, TypeOK', ReturnsSound, NEW w \in Workers, CommitCancel(w)
    PROVE  \E n \in OrderIds : Ledger!Return(n)
<1>1. PICK n \in OrderIds : n = tx[w].order
  BY TxKind DEF CommitCancel, Cancel
<1>2. Returning(tx[w]) /\ tx[w].todo = {}
  BY DEF CommitCancel, ReturnsSound
<1>3. n \in Placed /\ order[n] \in PlacedOrder
  BY <1>1, <1>2, OrderKind DEF Returning, Placed
<1>4. /\ order'[n] = [order[n] EXCEPT !.status = "cancelled"]
      /\ \A o \in OrderIds \ {n} : order'[o] = order[o]
  BY <1>1 DEF CommitCancel, TypeOK
<1>5. /\ Book[n] # NoOrder /\ Book[n].state = "open"
      /\ Book[n].units = order[n].qty /\ Book[n].counted = order[n].stock_deducted
  <2>1. order[n].status \notin {"completed", "cancelled"}
    BY <1>1, <1>2 DEF Returning
  <2> QED  BY <1>3, <2>1, BookLine
<1>6. Book' = [Book EXCEPT ![n].state = "returned"]
  <2>1. /\ order'[n].status = "cancelled" /\ order'[n].request = order[n].request
        /\ order'[n].bill = order[n].bill /\ order'[n].qty = order[n].qty
        /\ order'[n].stock_deducted = order[n].stock_deducted
    BY <1>3, <1>4 DEF PlacedOrder
  <2>2. Book'[n] = [Book[n] EXCEPT !.state = "returned"]
    <3>1. Book[n].state = "open" /\ order[n].status # "none"
      BY <1>3, <1>5 DEF Placed
    <3> QED  BY <2>1, <3>1 DEF Book
  <2>3. \A o \in OrderIds \ {n} : Book'[o] = Book[o]
    BY <1>4 DEF Book
  <2> QED  BY <2>2, <2>3, BookShape
<1>7. \A p \in Products :
        /\ product'[p].stock = IF order[n].stock_deducted /\ product[p].exists
                               THEN product[p].stock + order[n].qty[p] ELSE product[p].stock
        /\ product'[p].exists = product[p].exists
  <2> SUFFICES ASSUME NEW p \in Products
               PROVE  /\ product'[p].stock =
                            IF order[n].stock_deducted /\ product[p].exists
                            THEN product[p].stock + order[n].qty[p] ELSE product[p].stock
                      /\ product'[p].exists = product[p].exists
    OBVIOUS
  <2> DEFINE q == order[n].qty[p]
             t == order[n].stock_deducted
  <2>1. q \in Nat /\ -q \in Int /\ t \in BOOLEAN
        /\ product[p] \in Row /\ product[p].stock \in Int /\ product[p].exists \in BOOLEAN
    BY <1>3 DEF PlacedOrder, TypeOK, Row
  <2>2. p \in tx[w].held => product'[p] = Sold(product[p], -q, t) /\ product[p].exists
    BY <1>1, <1>2 DEF CommitCancel, Returning
  <2>3. p \notin tx[w].held => product'[p] = product[p] /\ (q = 0 \/ ~product[p].exists)
    <3>1. p \notin tx[w].held => product'[p] = product[p]
      BY DEF CommitCancel
    <3>2. q > 0 /\ product[p].exists => p \in tx[w].held
      BY <1>1, <1>2 DEF Returning, Rows
    <3> QED  BY <2>1, <3>1, <3>2
  <2> HIDE DEF q, t
  <2>4. /\ Sold(product[p], -q, t).stock = product[p].stock - (IF t THEN -q ELSE 0)
        /\ Sold(product[p], -q, t).exists = product[p].exists
    BY <2>1, SoldRow
  <2>5. product'[p].stock = (IF t /\ product[p].exists
                            THEN product[p].stock + q ELSE product[p].stock)
        /\ product'[p].exists = product[p].exists
    BY <2>1, <2>2, <2>3, <2>4
  <2> QED  BY <2>5 DEF q, t
<1>8. Shelf' = [p \in Products |->
                    IF Book[n].counted /\ p \notin Gone
                    THEN Shelf[p] + Book[n].units[p] ELSE Shelf[p]]
  BY <1>5, <1>7 DEF Shelf, Gone
<1>9. Gone' = Gone
  BY <1>7 DEF Gone
<1>10. Ledger!Return(n)
  BY <1>5, <1>6, <1>8, <1>9 DEF Ledger!Return
<1> QED  BY <1>10

\* Completing an order closes its sale; the other statuses are not in the book.
LEMMA AdvanceCloses ==
    ASSUME TypeOK, NEW o \in OrderIds, NEW s \in AllowedTransitions[order[o].status],
           AdvanceStatus(o, s)
    PROVE  UNCHANGED <<Shelf, Gone>> /\ (Book' = Book \/ Ledger!Close(o))
<1>1. order[o] \in PlacedOrder /\ o \in Placed /\ order[o].status \notin {"completed", "cancelled"}
  BY OrderKind DEF AdvanceStatus, AllowedTransitions, Placed
<1>2. s \in {"confirmed", "preparing", "delivering", "completed"}
  BY <1>1 DEF AllowedTransitions, PlacedOrder
<1>3. /\ order'[o] = [order[o] EXCEPT !.status = s]
      /\ \A x \in OrderIds \ {o} : order'[x] = order[x]
      /\ UNCHANGED product
  BY DEF AdvanceStatus, TypeOK, catalogVars
<1>4. /\ order'[o].status = s /\ order'[o].request = order[o].request
      /\ order'[o].bill = order[o].bill /\ order'[o].qty = order[o].qty
      /\ order'[o].stock_deducted = order[o].stock_deducted
  BY <1>1, <1>3 DEF PlacedOrder
<1>5. \A x \in OrderIds \ {o} : Book'[x] = Book[x]
  BY <1>3 DEF Book
<1>6. UNCHANGED <<Shelf, Gone>>
  BY <1>3 DEF Shelf, Gone
<1>7. order[o].status # "none" /\ Book[o] # NoOrder /\ Book[o].state = "open"
  BY <1>1, BookLine DEF Placed
<1>8. CASE s = "completed"
  <2>1. Book'[o] = [Book[o] EXCEPT !.state = "closed"]
    BY <1>4, <1>7, <1>1, <1>8 DEF Book
  <2>2. Book' = [Book EXCEPT ![o].state = "closed"]
    BY <1>5, <2>1, BookShape
  <2> QED  BY <1>6, <1>7, <2>2 DEF Ledger!Close
<1>9. CASE s # "completed"
  <2>1. Book'[o] = Book[o]
    BY <1>1, <1>2, <1>4, <1>7, <1>9 DEF Book
  <2>2. Book' = Book
    BY <1>5, <2>1, BookShape
  <2> QED  BY <1>6, <2>2
<1> QED  BY <1>8, <1>9

\* Every step is a step of the book of sales, or leaves it as it is.
LEMMA LedgerRefined ==
    ASSUME TypeOK, TypeOK', NumbersFresh, CheckoutSound, ReturnsSound,
           StockNeverNegative, StockNeverNegative', [Next]_vars
    PROVE  [Ledger!LedgerNext]_(Ledger!ledgerVars)
<1> USE DEF Ledger!ledgerVars
<1>1. CASE UNCHANGED <<product, order>>
  <2>1. UNCHANGED <<Shelf, Gone, Book>>
    BY <1>1 DEF Shelf, Gone, Book
  <2> QED  BY <2>1
<1>2. ASSUME NEW w \in Workers, CommitCheckout(w)
      PROVE  Ledger!LedgerNext
  BY <1>2, CheckoutSells DEF Ledger!LedgerNext
<1>3. ASSUME NEW w \in Workers, CommitCancel(w)
      PROVE  Ledger!LedgerNext
  BY <1>3, CancelReturns DEF Ledger!LedgerNext
<1>4. ASSUME NEW o \in OrderIds, NEW s \in AllowedTransitions[order[o].status],
             AdvanceStatus(o, s)
      PROVE  [Ledger!LedgerNext]_(Ledger!ledgerVars)
  BY <1>4, AdvanceCloses DEF Ledger!LedgerNext
<1>5. ASSUME NEW p \in Products, product[p].exists, product'[p].exists,
             \A q \in Products \ {p} : product'[q] = product[q], UNCHANGED order
      PROVE  Ledger!LedgerNext
  <2>1. Book' = Book
    BY <1>5 DEF Book
  <2>2. Gone' = Gone
    BY <1>5 DEF Gone
  <2>3. Shelf' = [Shelf EXCEPT ![p] = Shelf'[p]]
    BY <1>5 DEF Shelf
  <2>4. Shelf'[p] >= 0 /\ p \notin Gone
    BY <1>5 DEF Shelf, Gone, StockNeverNegative
  <2>5. Ledger!Count(p, Shelf'[p])
    BY <2>1, <2>2, <2>3, <2>4 DEF Ledger!Count
  <2> QED  BY <2>5 DEF Ledger!LedgerNext
<1>6. ASSUME NEW e \in Edits, SubmitForm(e)
      PROVE  Ledger!LedgerNext
  <2>1. PICK p \in Products : p = form.product
    BY <1>6 DEF SubmitForm, TypeOK, FormType
  <2>2. /\ product[p].exists /\ product[p] \in Row
        /\ product' = [product EXCEPT ![p] = Edited(@, e)] /\ UNCHANGED order
    BY <1>6, <2>1 DEF SubmitForm, TypeOK, orderVars
  <2>3. product'[p].exists
    BY <2>2 DEF Edited, Row, TypeOK
  <2> QED  BY <1>5, <2>2, <2>3 DEF TypeOK
<1>7. ASSUME NEW p \in Products, NEW delta \in Corrections, AdjustStock(p, delta)
      PROVE  Ledger!LedgerNext
  <2> DEFINE d == IF delta < -product[p].stock THEN -product[p].stock ELSE delta
  <2>1. /\ product[p].exists /\ product[p] \in Row /\ UNCHANGED order
        /\ product' = [product EXCEPT ![p].stock = @ + d, ![p].version = @ + 1]
    BY <1>7 DEF AdjustStock, TypeOK, orderVars
  <2> HIDE DEF d
  <2>2. product'[p].exists
    BY <2>1 DEF Row, TypeOK
  <2> QED  BY <1>5, <2>1, <2>2 DEF TypeOK
<1>8. ASSUME NEW p \in Products, DeleteProduct(p)
      PROVE  Ledger!LedgerNext
  <2>1. /\ product[p].exists /\ UNCHANGED order
        /\ product' = [product EXCEPT ![p].exists = FALSE]
    BY <1>8 DEF DeleteProduct, orderVars
  <2>2. Book' = Book
    BY <2>1 DEF Book
  <2>3. /\ ~product'[p].exists /\ product'[p].stock = product[p].stock
        /\ \A q \in Products \ {p} : product'[q] = product[q]
    BY <2>1 DEF TypeOK, Row
  <2>4. Shelf' = Shelf
    BY <2>3 DEF Shelf
  <2>5. Gone' = Gone \cup {p} /\ p \notin Gone
    BY <2>1, <2>3 DEF Gone
  <2>6. Ledger!Withdraw(p)
    BY <2>2, <2>4, <2>5 DEF Ledger!Withdraw
  <2> QED  BY <2>6 DEF Ledger!LedgerNext
<1>10. CASE Customer
  BY <1>1, <1>10 DEF Customer, AcceptQuote, OrderUnquoted, DropItems, ReplayCheckout,
      catalogVars, orderVars
<1>11. CASE Administrator
  <2>1. CASE \E p \in Products : LoadForm(p) \/ SetVisibility(p)
    BY <1>1, <2>1 DEF LoadForm, SetVisibility, orderVars
  <2>2. CASE \E s \in Settings : SetSettings(s)
    BY <1>1, <2>2 DEF SetSettings, orderVars
  <2> QED  BY <1>4, <1>6, <1>7, <1>8, <1>11, <2>1, <2>2 DEF Administrator
<1>12. ASSUME NEW w \in Workers, Transaction(w), ~CommitCheckout(w), ~CommitCancel(w)
       PROVE  UNCHANGED <<order, product>>
  BY <1>12 DEF Transaction, BeginCartWrite, FinishCartWrite, BeginCheckout,
      LockForSale, LockForReturn, PriceCheckout, BeginCancel, Refuse, Crash, catalogVars, orderVars
<1> QED  BY <1>1, <1>2, <1>3, <1>10, <1>11, <1>12 DEF Next, vars

\* The purchase path keeps the book of sales (KeepsLedger): carts, locks,
\* retries and rollbacks are steps that leave the book as it is, and every
\* other step is one line of it.
THEOREM PurchaseKeepsLedger == Spec => KeepsLedger
<1>1. Init => Ledger!LedgerInit
  <2> SUFFICES ASSUME Init PROVE Ledger!LedgerInit
    OBVIOUS
  <2>1. Shelf = [p \in Products |-> InitialRow[p].stock]
    BY DEF Init, Shelf
  <2>2. Gone = {}
    BY Shop DEF Init, Gone
  <2>3. Book = [n \in OrderIds |-> NoOrder]
    BY DEF Init, Book, NoOrder
  <2> QED  BY <2>1, <2>2, <2>3 DEF Ledger!LedgerInit
<1>2. TypeOK /\ TypeOK' /\ NumbersFresh /\ CheckoutSound /\ ReturnsSound
        /\ StockNeverNegative /\ StockNeverNegative' /\ [Next]_vars
        => [Ledger!LedgerNext]_(Ledger!ledgerVars)
  BY LedgerRefined
<1>3. Spec => Ledger!LedgerSpec
  BY <1>1, <1>2, TypeCorrect, NumbersUnique, LocksSuffice, ReturnsSuffice, NeverOversold,
     PTL DEF Spec, Ledger!LedgerSpec
<1> QED  BY <1>3 DEF KeepsLedger

\* A keyed addition is applied once (AddOncePerKey): while it is under way no
\* other transaction has its customer's lock, and so none applies its key.
KeysUnused ==
    \A w \in Workers : tx[w].kind = "cart" =>
        \A m \in mutations : ~SameKey(m, tx[w].edit)

LEMMA KeysUnusedStep ==
    ASSUME TypeOK, LocksExclusive, KeysUnused, [Next]_vars
    PROVE  KeysUnused'
<1> SUFFICES ASSUME NEW v \in Workers, tx'[v].kind = "cart",
                    NEW m \in mutations', SameKey(m, tx'[v].edit)
             PROVE  FALSE
  BY DEF KeysUnused, SameKey
<1>1. ASSUME NEW w \in Workers, FinishCartWrite(w)
      PROVE  /\ tx[w].kind = "cart" /\ tx'[w].kind = "idle"
             /\ mutations' \subseteq mutations \cup {tx[w].edit}
             /\ \A x \in Workers \ {w} : tx'[x] = tx[x]
  BY <1>1 DEF FinishCartWrite, TypeOK, Idle
<1>2. CASE tx'[v] = tx[v]
  <2>1. tx[v] \in CartWrite /\ tx[v].edit \in CartEdit /\ tx[v].edit.user \in Users
    BY <1>2, TxKind DEF CartWrite, CartEdit
  <2>2. m \notin mutations
    BY <1>2, <2>1 DEF KeysUnused, SameKey
  <2>3. mutations' # mutations
    BY <2>2
  <2>4. PICK w \in Workers : FinishCartWrite(w)
    BY <2>3, ZenonT(60) DEF Next, vars, Customer, AcceptQuote, OrderUnquoted, DropItems, ReplayCheckout,
        Administrator, AdvanceStatus, LoadForm, SubmitForm, AdjustStock, DeleteProduct,
        SetVisibility, SetSettings, Transaction, BeginCartWrite,
        BeginCheckout, LockForSale, LockForReturn, PriceCheckout, CommitCheckout,
        BeginCancel, CommitCancel, Refuse, Crash
  <2>5. m = tx[w].edit /\ w # v
    BY <1>1, <1>2, <2>2, <2>4
  <2>6. HoldsUser(w, tx[v].edit.user) /\ HoldsUser(v, tx[v].edit.user)
    BY <1>1, <1>2, <2>4, <2>5 DEF HoldsUser, SameKey
  <2> QED  BY <2>1, <2>5, <2>6 DEF LocksExclusive
<1>3. ASSUME NEW e \in CartEdit, BeginCartWrite(v, e)
      PROVE  FALSE
  <2>1. tx'[v].edit = e /\ mutations' = mutations
    BY <1>3 DEF BeginCartWrite, TypeOK
  <2>2. e.op = "add" \/ e.key = NoKey
    BY <1>3, Shop DEF BeginCartWrite, CartEdit
  <2> QED  BY <1>3, <2>1, <2>2 DEF BeginCartWrite, SameKey
<1>4. ASSUME Transaction(v), \A e \in CartEdit : ~BeginCartWrite(v, e)
      PROVE  tx'[v].kind # "cart"
  <2>1. ASSUME NEW p \in Products, LockForReturn(v, p)
        PROVE  tx'[v].kind # "cart"
    <3>1. tx[v] \in Cancel
      BY <2>1, TxKind DEF LockForReturn
    <3> QED  BY <2>1, <3>1 DEF LockForReturn, TypeOK, Cancel
  <2>2. ASSUME NEW r \in sent, BeginCheckout(v, r)
        PROVE  tx'[v].kind # "cart"
    BY <2>2 DEF BeginCheckout, TypeOK
  <2>3. ASSUME NEW p \in Products, LockForSale(v, p)
        PROVE  tx'[v].kind # "cart"
    <3>1. tx[v] \in Checkout
      BY <2>3, TxKind DEF LockForSale
    <3> QED  BY <2>3, <3>1 DEF LockForSale, TypeOK, Checkout
  <2>4. CASE PriceCheckout(v)
    <3>1. tx[v] \in Checkout
      BY <2>4, TxKind DEF PriceCheckout
    <3> QED  BY <2>4, <3>1 DEF PriceCheckout, TypeOK, Checkout
  <2>5. ASSUME NEW o \in OrderIds, BeginCancel(v, o)
        PROVE  tx'[v].kind # "cart"
    BY <2>5 DEF BeginCancel, TypeOK
  <2>6. CASE FinishCartWrite(v) \/ CommitCheckout(v) \/ CommitCancel(v) \/ Refuse(v) \/ Crash(v)
    <3>1. tx'[v].kind = "idle"
      BY <2>6 DEF FinishCartWrite, CommitCheckout, CommitCancel, Refuse, Crash, TypeOK, Idle
    <3> QED  BY <3>1
  <2> QED  BY <1>4, <2>1, <2>2, <2>3, <2>4, <2>5, <2>6 DEF Transaction
<1>5. tx'[v] = tx[v] \/ Transaction(v)
  BY OutsideStep, OwnStep DEF Next, vars
<1> QED  BY <1>2, <1>3, <1>4, <1>5

\* However often a keyed addition is sent, the cart changes once
\* (AddOncePerKey).
THEOREM AddsOnce == Spec => AddOncePerKey
<1>1. Init => KeysUnused
  BY DEF Init, KeysUnused, Idle
<1>2. KeysUnused =>
        \A w \in Workers : tx[w].kind = "cart" /\ FinishCartWrite(w)
            => \A m \in mutations : ~SameKey(m, tx[w].edit)
  BY DEF KeysUnused
<1> QED  BY <1>1, <1>2, TypeCorrect, MutualExclusion, KeysUnusedStep, PTL DEF Spec, AddOncePerKey

=============================================================================
