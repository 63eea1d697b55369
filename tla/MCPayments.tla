----------------------------- MODULE MCPayments -----------------------------
(***************************************************************************)
(* A small instance of Payments for TLC: an order for each gateway and two *)
(* paid by card transfer.                                                  *)
(***************************************************************************)
EXTENDS Payments, TLC

CONSTANTS o1, o2, o3, o4, w1, w2, a1, a2, t1, t2, v1

OneEach ==
    [o \in Orders |-> CASE o = o1 -> "click" [] o = o2 -> "payme" [] OTHER -> "card_transfer"]
Price == [o \in Orders |-> 1]

Gateways == {o1, o2}
Cards == {o3, o4}
Named == {r \in Prepare \cup Complete \cup Create : r.order \in Gateways}
            \cup Perform \cup Withdraw

Fresh(O) == \A o \in O : order[o] = [status |-> "new", payment |-> "pending",
                receipt |-> NoReceipt, version |-> 0, reviewer |-> NoAdmin]
\* To a gateway a confirmed order and one that is on its way are alike.
Progress(O, S) ==
    \E o \in O :
        \/ \E s \in AllowedTransitions[order[o].status] \cap S : AdvanceStatus(o, s)
        \/ CancelOrder(o)

\* The two halves share nothing but the shape of an order, so each is
\* explored with the other at rest.
GatewayNext ==
    /\ Fresh(Cards) /\ objects = {} /\ active = Admins
    /\ view = [a \in Admins |-> NoView]
    /\ \/ \E w \in Workers :
            \/ \E r \in Named : Receive(w, r)
            \/ ClickPrepare(w) \/ ClickComplete(w)
            \/ PaymeCreate(w) \/ PaymePerform(w) \/ PaymeCancel(w)
            \/ GiveUp(w)
       \/ Progress(Gateways, {"confirmed"})

CardNext ==
    /\ Fresh(Gateways) /\ nextTx = 1 /\ \A w \in Workers : job[w].call # "callback"
    /\ \/ \E w \in Workers :
            \/ \E o \in Cards, f \in Objects : BeginUpload(w, o, f)
            \/ FinishUpload(w)
            \/ \E a \in Admins : BeginAccept(w, a)
            \/ FinishAccept(w)
            \/ GiveUp(w)
       \/ \E a \in Admins :
            \/ \E o \in Cards : ReadOrder(a, o)
            \/ OpenReceipt(a) \/ Deactivate(a)
       \/ Progress(Cards, {"confirmed", "preparing", "delivering", "completed"})

HalfSpec == Init /\ [][GatewayNext \/ CardNext]_vars

Same == Permutations(Workers) \cup Permutations(Transactions) \cup Permutations(Admins)
=============================================================================
