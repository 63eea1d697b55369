----------------------------- MODULE MCPurchase -----------------------------
(* Small instances of Purchase for TLC. *)
EXTENDS Purchase, TLC

CONSTANTS u1, u2, k1, w1, w2

RowOf(stock, price, min) ==
    [exists |-> TRUE, active |-> TRUE, stock |-> stock, sold |-> 0,
     price |-> price, min |-> min, version |-> 1]

Base == [tracking |-> TRUE, open |-> TRUE, fee |-> 1, freeFrom |-> 3,
         minOrder |-> 0, card |-> 1]
Untracked == [Base EXCEPT !.tracking = FALSE]

None == {}
TakeOne == {-1}
Unchanged == [active |-> Keep, stock |-> Keep, price |-> Keep, min |-> Keep]

\* Two customers and two workers over one scarce product, with stock
\* tracking switched under them; and with two products, in opposite carts.
OneProduct == {1}
LastRow == [p \in {1} |-> RowOf(1, 1, 1)]
ScarceRow == [p \in {1} |-> RowOf(2, 1, 1)]
\* A minimum no cart reaches, which preorders are free of.
HighMinimum == [Base EXCEPT !.minOrder = 9]
Fixed == {HighMinimum}
TrackingSettings == {Base, Untracked}
TwoProducts == {1, 2}
PairRow == [p \in {1, 2} |-> RowOf(1, p, 1)]

\* One customer who repeats requests, and everything a quote depends on.
QuoteSettings == {Base, [Base EXCEPT !.open = FALSE, !.fee = 2, !.card = NoCard]}
ProductEdits == {[Unchanged EXCEPT !.price = 3, !.stock = 1], [Unchanged EXCEPT !.min = 2],
                 [Unchanged EXCEPT !.active = FALSE]}

Clients == Permutations({u1, u2}) \cup Permutations({w1, w2})
Processes == Permutations({w1, w2})
=============================================================================
