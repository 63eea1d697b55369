------------------------------ MODULE RowLocks ------------------------------
(***************************************************************************)
(* The row and advisory locks a PostgreSQL transaction of the shop takes,  *)
(* in the order it takes them, and keeps until it ends: the explicit       *)
(* SELECT ... FOR UPDATE of the services, and the FOR KEY SHARE that an    *)
(* INSERT takes on every row its foreign keys refer to.  What transactions *)
(* do besides locking is the subject of the other modules.                 *)
(*                                                                         *)
(* A definition marked Mutant is a plausible bug in the definition that    *)
(* follows it.  No action uses it: it shows that the properties can fail.  *)
(***************************************************************************)
EXTENDS Integers, Sequences, FiniteSets, SequencesExt

CONSTANTS
    Sessions,       \* database connections
    Customers, Products, Orders, Admins,
    Owner,          \* order -> its customer
    Lines,          \* order -> its products
    Shoppers,       \* customers who are shopping now
    Kinds           \* kinds of transaction that run

ASSUME Shop ==
    /\ Products \subseteq Nat /\ Admins \subseteq Nat  \* compared by id
    /\ IsFiniteSet(Sessions) /\ IsFiniteSet(Products) /\ IsFiniteSet(Admins)
    /\ Owner \in [Orders -> Customers] /\ Lines \in [Orders -> SUBSET Products]
    /\ Shoppers \subseteq Customers
    /\ Kinds \subseteq {"checkout", "cart", "advance", "cancel", "gateway", "receipt",
                       "catalog", "block"}

VARIABLES
    todo,       \* session -> the locks its transaction has still to take
    held        \* session -> the locks it has

vars == <<todo, held>>

\* FOR UPDATE, FOR NO KEY UPDATE, FOR KEY SHARE; an advisory lock excludes
\* like FOR UPDATE.
Update(row) == [row |-> row, mode |-> "update"]
Write(row) == [row |-> row, mode |-> "write"]
KeyShare(row) == [row |-> row, mode |-> "share"]
Conflict(x, y) ==
    /\ x.row = y.row
    /\ "update" \in {x.mode, y.mode} \/ (x.mode = "write" /\ y.mode = "write")

-----------------------------------------------------------------------------
(* What each kind of transaction locks, in order. *)

Place(x, S) == Cardinality({y \in S : y < x})
Ascending(S) == [i \in 1..Cardinality(S) |-> CHOOSE x \in S : Place(x, S) = i - 1]
AllProducts(S) == [i \in 1..Cardinality(S) |-> Update(<<"product", Ascending(S)[i]>>)]

\* Outbox rows refer to the administrators they are for.
TellAdmins == [i \in 1..Cardinality(Admins) |-> KeyShare(<<"admin", Ascending(Admins)[i]>>)]

\* lock_customer_cart, before any product.
CustomerCart(c) == <<Update(<<"user", c>>), Update(<<"cart", c>>)>>

Checkout(c, S) == CustomerCart(c) \o AllProducts(S) \o TellAdmins
CartItem(c, p) == CustomerCart(c) \o AllProducts({p})

\* load_live_admin with lock=True, then the order; the customer's outbox
\* row refers to the customer.
Actor(a) == <<Write(<<"admin", a>>)>>
TellAll(o) == <<KeyShare(<<"user", Owner[o]>>)>> \o TellAdmins
AdvanceOrder(a, o) == Actor(a) \o <<Update(<<"order", o>>)>> \o TellAll(o)
\* Mutant: products are locked in the order they stand in the order.
CancelAsListed(a, o) ==
    Actor(a) \o <<Update(<<"order", o>>)>> \o Reverse(AllProducts(Lines[o])) \o TellAll(o)

CancelOrder(a, o) ==
    Actor(a) \o <<Update(<<"order", o>>)>> \o AllProducts(Lines[o]) \o TellAll(o)
GatewayPaid(o) == <<Update(<<"order", o>>)>> \o TellAll(o)
UploadReceipt(o) == <<Update(<<"order", o>>)>>

EditProduct(a, p) == <<Update(<<"advisory", "tree">>)>> \o Actor(a) \o AllProducts({p})
BlockCustomer(a, c) == Actor(a) \o <<Update(<<"user", c>>)>>

Programs ==
    [checkout |-> {Checkout(c, S) : c \in Shoppers, S \in (SUBSET Products) \ {{}}},
     cart |-> {CartItem(c, p) : c \in Shoppers, p \in Products},
     advance |-> {AdvanceOrder(a, o) : a \in Admins, o \in Orders},
     cancel |-> {CancelOrder(a, o) : a \in Admins, o \in Orders},
     gateway |-> {GatewayPaid(o) : o \in Orders},
     receipt |-> {UploadReceipt(o) : o \in Orders},
     catalog |-> {EditProduct(a, p) : a \in Admins, p \in Products},
     block |-> {BlockCustomer(a, c) : a \in Admins, c \in Customers}]

-----------------------------------------------------------------------------
Idle(s) == todo[s] = <<>> /\ held[s] = {}
Blocks(r, s) == r # s /\ \E x \in held[r] : Conflict(Head(todo[s]), x)
WaitsFor(s) == IF todo[s] = <<>> THEN {} ELSE {r \in Sessions : Blocks(r, s)}

Init ==
    /\ todo = [s \in Sessions |-> <<>>]
    /\ held = [s \in Sessions |-> {}]

Begin(s, kind) ==
    /\ Idle(s)
    /\ \E program \in Programs[kind] : todo' = [todo EXCEPT ![s] = program]
    /\ UNCHANGED held

Acquire(s) ==
    /\ todo[s] # <<>> /\ WaitsFor(s) = {}
    /\ held' = [held EXCEPT ![s] = @ \cup {Head(todo[s])}]
    /\ todo' = [todo EXCEPT ![s] = Tail(@)]

\* Commit, or an early return or error on the way, releases everything.
End(s) ==
    /\ held[s] # {}
    /\ WaitsFor(s) = {}
    /\ held' = [held EXCEPT ![s] = {}]
    /\ todo' = [todo EXCEPT ![s] = <<>>]

Next ==
    \E s \in Sessions :
        (\E kind \in Kinds : Begin(s, kind)) \/ Acquire(s) \/ End(s)

Spec == Init /\ [][Next]_vars

-----------------------------------------------------------------------------
(* Properties. *)

\* No set of transactions waits only for one another, which PostgreSQL would
\* resolve by failing one of the requests.
NoDeadlock ==
    \A circle \in (SUBSET Sessions) \ {{}} :
        \E s \in circle : WaitsFor(s) \cap circle = {}

=============================================================================
