--------------------------- MODULE PaymentsProofs ---------------------------
(***************************************************************************)
(* Proofs about Payments for every set of orders, workers, administrators  *)
(* and gateway transactions: its type invariant and every property the runs*)
(* check.  PayInv is the invariant about orders and receipts, TableInv the *)
(* one about the table of transactions.                                    *)
(***************************************************************************)
EXTENDS Payments, TLAPS

-----------------------------------------------------------------------------
(* Facts about the records that work in progress is kept in. *)

\* What a worker is in the middle of tells which record it holds.
LEMMA JobKind ==
    ASSUME TypeOK, NEW w \in Workers
    PROVE  /\ job[w].call = "callback" <=> job[w] \in Callback
           /\ job[w].call = "upload" <=> job[w] \in Upload
           /\ job[w].call = "review" <=> job[w] \in Review
           /\ job[w] # Idle <=> job[w].call # "idle"
<1>1. job[w] \in Callback \cup Upload \cup Review \cup {Idle}
  BY DEF TypeOK
<1>2. CASE job[w] \in Callback
  BY <1>2 DEF Callback, Upload, Review, Idle
<1>3. CASE job[w] \in Upload
  BY <1>3 DEF Callback, Upload, Review, Idle
<1>4. CASE job[w] \in Review
  BY <1>4 DEF Callback, Upload, Review, Idle
<1>5. CASE job[w] = Idle
  BY <1>5 DEF Callback, Upload, Review, Idle
<1> QED  BY <1>1, <1>2, <1>3, <1>4, <1>5

\* The call of a request tells which gateway message it is.
LEMMA RequestKind ==
    ASSUME NEW r \in Request
    PROVE  /\ r.call = "prepare" <=> r \in Prepare
           /\ r.call = "complete" <=> r \in Complete
           /\ r.call = "create" <=> r \in Create
           /\ r.call = "perform" <=> r \in Perform
           /\ r.call = "withdraw" <=> r \in Withdraw
           /\ r.trans \in Transactions
           /\ Provider(r) \in {"click", "payme"}
BY DEF Request, Prepare, Complete, Create, Perform, Withdraw, Provider

\* The number of a transaction that exists names a row.
LEMMA RowKind ==
    ASSUME TypeOK, NEW i \in Issued
    PROVE  i \in TxIds /\ txn[i] \in TxRow /\ txn[i].order \in Orders
BY DEF TypeOK, Issued, TxRow

\* A callback that settles a transaction has found its row.
LEMMA KnownRow ==
    ASSUME TypeOK, NEW w \in Workers, Handling(w, {"complete", "perform", "withdraw"})
    PROVE  /\ job[w].request \in Request
           /\ job[w].known \in Issued /\ job[w].known \in TxIds
           /\ job[w].known \in Found(job[w].request)
           /\ txn[job[w].known] \in TxRow
           /\ txn[job[w].known].order \in Orders
<1>1. job[w] \in Callback
  BY JobKind DEF Handling
<1>2. job[w].known \in Found(job[w].request) /\ job[w].request \in Request
  BY <1>1 DEF TypeOK, Handling, Callback
<1> QED  BY <1>2, RowKind DEF Found, Issued

-----------------------------------------------------------------------------
(* Type correctness. *)

\* Rows keep their place, their gateway and its id.
RowsStay ==
    \A i \in Issued : /\ i \in Issued' /\ txn'[i].trans = txn[i].trans
                      /\ txn'[i].provider = txn[i].provider
                      /\ txn'[i].order = txn[i].order

\* A worker with a callback has a row its request may find.
KnownFits(w) ==
    job[w].call = "callback" =>
        /\ job[w].known # NoTx => job[w].known \in Found(job[w].request)
        /\ job[w].request.call \in {"complete", "perform", "withdraw"} => job[w].known # NoTx

JobTypes ==
    /\ job \in [Workers -> Callback \cup Upload \cup Review \cup {Idle}]
    /\ \A w \in Workers : KnownFits(w)

\* A worker that is left alone keeps a row its request may find.
LEMMA FitsStays ==
    ASSUME TypeOK, NEW w \in Workers, job'[w] = job[w], RowsStay
    PROVE  KnownFits(w)'
<1>1. ASSUME job[w].call = "callback", job[w].known # NoTx
      PROVE  /\ job[w].known \in Issued' /\ txn'[job[w].known].trans = job[w].request.trans
             /\ txn'[job[w].known].provider = Provider(job[w].request)
  BY <1>1 DEF TypeOK, RowsStay, Found
<1>2. job[w].call = "callback" /\ job[w].known # NoTx
        => job[w].known \in {i \in Issued' : txn'[i].provider = Provider(job[w].request)
                                             /\ txn'[i].trans = job[w].request.trans}
  BY <1>1
<1>3. job[w].call = "callback" /\ job[w].request.call \in {"complete", "perform", "withdraw"}
        => job[w].known # NoTx
  BY DEF TypeOK
<1> QED  BY <1>2, <1>3 DEF KnownFits, Found, Provider

\* Work in progress stays well-formed while rows stay and one worker rests.
LEMMA JobsRest ==
    ASSUME TypeOK, NEW w \in Workers, Done(w), RowsStay
    PROVE  JobTypes'
<1>1. job' \in [Workers -> Callback \cup Upload \cup Review \cup {Idle}]
  BY DEF Done, TypeOK
<1>2. \A v \in Workers : job'[v] = job[v] \/ job'[v] = Idle
  BY DEF Done, TypeOK
<1>3. ASSUME NEW v \in Workers, job'[v] = Idle
      PROVE  KnownFits(v)'
  BY <1>3 DEF KnownFits, Idle
<1> QED  BY <1>1, <1>2, <1>3, FitsStays DEF JobTypes

\* A transaction completes for a worker: what Click's Complete and Payme's
\* Perform have in common.
Pays(w, i, r) ==
    /\ txn[i].state = "pending" /\ i \in Found(r) /\ ~(r \in Complete /\ r.failed)
    /\ Payable(txn[i].order, txn[i].provider)
    /\ txn' = [txn EXCEPT ![i].state = "paid", ![i].closed = r, ![i].once = TRUE]
    /\ MarkPaid(txn[i].order)
    /\ Done(w) /\ Reply(r, i)
    /\ UNCHANGED <<nextTx, manualVars>>

\* The rows of the payment table, and what was answered about them.
TableTypes ==
    /\ txn \in [TxIds -> TxRow \cup {NoRow}]
    /\ nextTx \in 1..(MaxTx + 1)
    /\ \A i \in TxIds : i < nextTx <=> txn[i] # NoRow
    /\ replies \in SUBSET [request: Request, tx: TxIds]

\* A completing transaction keeps every type.
LEMMA PaysType ==
    ASSUME TypeOK, NEW w \in Workers, NEW i \in Issued,
           NEW r \in Complete \cup Perform, Pays(w, i, r)
    PROVE  TypeOK'
<1>1. txn[i] \in TxRow /\ txn[i].order \in Orders /\ i \in TxIds /\ txn[i] # NoRow
  BY RowKind DEF Issued
<1>2. txn'[i] = [txn[i] EXCEPT !.state = "paid", !.closed = r, !.once = TRUE]
      /\ \A j \in TxIds \ {i} : txn'[j] = txn[j]
  BY <1>1 DEF Pays, TypeOK
<1>3. txn'[i] \in TxRow /\ txn'[i] # NoRow
  BY <1>1, <1>2 DEF TxRow, NoRow
<1>4. txn' \in [TxIds -> TxRow \cup {NoRow}]
  BY <1>1, <1>3 DEF Pays, TypeOK
<1>5. RowsStay
  BY <1>1, <1>2, <1>3, ZenonT(60) DEF RowsStay, Issued, TxRow
<1>6. \A j \in TxIds : txn'[j] # NoRow <=> txn[j] # NoRow
  BY <1>1, <1>2, <1>3
<1>7. order[txn[i].order] \in OrderRow
  BY <1>1 DEF TypeOK
<1>8. order' \in [Orders -> OrderRow]
  BY <1>1, <1>7 DEF Pays, MarkPaid, TypeOK, OrderRow
<1>9. replies' \in SUBSET [request: Request, tx: TxIds]
  BY <1>1 DEF Pays, Reply, TypeOK, Request
<1>10. JobTypes'
  BY <1>5, JobsRest DEF Pays
<1> QED  BY <1>4, <1>6, <1>8, <1>9, <1>10 DEF Pays, manualVars, TypeOK, JobTypes, KnownFits

\* A new row of the payment table keeps its types.
LEMMA InsertType ==
    ASSUME TypeOK, NEW r \in Prepare \cup Create, Insert(r)
    PROVE  TableTypes' /\ RowsStay
<1>1. nextTx \in TxIds /\ nextTx \in Nat /\ txn[nextTx] = NoRow
  BY Shop DEF Insert, TypeOK, TxIds
<1>2. [state |-> "pending", provider |-> Provider(r), trans |-> r.trans,
       order |-> r.order, amount |-> r.amount, opened |-> r,
       closed |-> NoRequest, once |-> FALSE] \in TxRow
  BY DEF TxRow, Prepare, Create, Provider
<1>3. txn'[nextTx] \in TxRow /\ txn'[nextTx] # NoRow
      /\ \A j \in TxIds \ {nextTx} : txn'[j] = txn[j]
  BY <1>1, <1>2 DEF Insert, TypeOK, TxRow, NoRow
<1>4. txn' \in [TxIds -> TxRow \cup {NoRow}]
  BY <1>1, <1>2 DEF Insert, TypeOK
<1>5. nextTx' = nextTx + 1 /\ nextTx' \in 1..(MaxTx + 1)
  BY <1>1, Shop DEF Insert, TypeOK
<1>6. \A j \in TxIds : j < nextTx' <=> txn'[j] # NoRow
  <2>1. \A j \in TxIds : j \in Nat /\ (j < nextTx <=> txn[j] # NoRow)
    BY DEF TypeOK, TxIds
  <2>2. ASSUME NEW j \in TxIds, j # nextTx
        PROVE  j < nextTx' <=> txn'[j] # NoRow
    BY <1>1, <1>3, <1>5, <2>1, <2>2
  <2> QED  BY <1>1, <1>3, <1>5, <2>2
<1>7. replies' \in SUBSET [request: Request, tx: TxIds]
  BY <1>1 DEF Insert, Reply, TypeOK, Request
<1>8. RowsStay
  BY <1>1, <1>3 DEF RowsStay, Issued
<1> QED  BY <1>4, <1>5, <1>6, <1>7, <1>8 DEF TableTypes

\* An answer about a row that is left as it is keeps its types.
LEMMA ReplyType ==
    ASSUME TypeOK, NEW r \in Request, NEW i \in TxIds, Reply(r, i), UNCHANGED <<txn, nextTx>>
    PROVE  TableTypes' /\ RowsStay
BY DEF Reply, TypeOK, TableTypes, RowsStay, Issued

\* What is not a row or a job is untouched by a callback that pays nothing.
LEMMA CallbackType ==
    ASSUME TypeOK, NEW w \in Workers, TableTypes', RowsStay, Done(w),
           UNCHANGED <<order, manualVars>>
    PROVE  TypeOK'
<1>1. JobTypes'
  BY JobsRest
<1> QED  BY <1>1 DEF TypeOK, TableTypes, JobTypes, KnownFits, manualVars

\* A cancelled row keeps its types.
LEMMA CancelledType ==
    ASSUME TypeOK, NEW i \in Issued, NEW r \in Complete \cup Withdraw, Reply(r, i),
           UNCHANGED nextTx,
           \/ txn' = [txn EXCEPT ![i].state = "cancelled", ![i].closed = r] /\ r \in Complete
           \/ txn' = [txn EXCEPT ![i].state = "cancelled"]
    PROVE  TableTypes' /\ RowsStay
<1>1. txn[i] \in TxRow /\ i \in TxIds /\ txn[i] # NoRow
  BY RowKind DEF Issued
<1>2. txn' \in [TxIds -> TxRow \cup {NoRow}] /\ txn'[i] \in TxRow
  <2>1. CASE txn' = [txn EXCEPT ![i].state = "cancelled", ![i].closed = r] /\ r \in Complete
    BY <1>1, <2>1 DEF TypeOK, TxRow
  <2>2. CASE txn' = [txn EXCEPT ![i].state = "cancelled"]
    BY <1>1, <2>2 DEF TypeOK, TxRow
  <2> QED  BY <2>1, <2>2
<1>3. /\ txn'[i].trans = txn[i].trans /\ txn'[i].provider = txn[i].provider
      /\ txn'[i].order = txn[i].order
      /\ \A j \in TxIds \ {i} : txn'[j] = txn[j]
  BY <1>1 DEF TypeOK, TxRow
<1>4. txn'[i] # NoRow
  BY <1>2 DEF TxRow, NoRow
<1>5. \A j \in TxIds : txn'[j] # NoRow <=> txn[j] # NoRow
  BY <1>1, <1>3, <1>4
<1>6. replies' \in SUBSET [request: Request, tx: TxIds]
  BY <1>1 DEF Reply, TypeOK, Request
<1> QED  BY <1>2, <1>3, <1>5, <1>6 DEF TableTypes, RowsStay, TypeOK, Issued

\* What the two gateways send keeps every type.
LEMMA GatewayType ==
    ASSUME TypeOK, NEW w \in Workers,
           \/ \E r \in Request : Receive(w, r)
           \/ ClickPrepare(w) \/ ClickComplete(w)
           \/ PaymeCreate(w) \/ PaymePerform(w) \/ PaymeCancel(w)
    PROVE  TypeOK'
<1>1. ASSUME NEW r \in Request, Receive(w, r)
      PROVE  TypeOK'
  <2>1. PICK known \in IF Found(r) = {} THEN {NoTx} ELSE Found(r) :
          /\ r.call \in {"complete", "perform", "withdraw"} => known # NoTx
          /\ job' = [job EXCEPT ![w] = [call |-> "callback", request |-> r, known |-> known]]
    BY <1>1 DEF Receive
  <2>2. known # NoTx => known \in Found(r)
    BY <2>1
  <2>3. known \in TxIds \cup {NoTx}
    BY <2>2 DEF Found, Issued
  <2>4. job'[w] = [call |-> "callback", request |-> r, known |-> known]
        /\ job'[w] \in Callback /\ \A v \in Workers \ {w} : job'[v] = job[v]
    BY <2>1, <2>3 DEF TypeOK, Callback
  <2>5. job' \in [Workers -> Callback \cup Upload \cup Review \cup {Idle}]
    BY <2>1, <2>4 DEF TypeOK
  <2>6. UNCHANGED <<txn, nextTx, replies, order, objects, active, view, approved>>
    BY <1>1 DEF Receive, gatewayVars, manualVars
  <2>7. RowsStay
    BY <2>6 DEF RowsStay, Issued
  <2>8. KnownFits(w)'
    BY <2>1, <2>2, <2>4, <2>6 DEF KnownFits, Found, Issued, Provider
  <2>9. \A v \in Workers : KnownFits(v)'
    BY <2>4, <2>7, <2>8, FitsStays
  <2> QED  BY <2>5, <2>6, <2>9 DEF TypeOK, KnownFits
<1>2. CASE ClickPrepare(w)
  <2>1. job[w] \in Callback /\ job[w].request \in Request /\ job[w].request \in Prepare
    BY <1>2, JobKind, RequestKind DEF ClickPrepare, Handling, Callback
  <2>2. CASE Insert(job[w].request)
    BY <1>2, <2>1, <2>2, InsertType, CallbackType DEF ClickPrepare
  <2>3. CASE \E i \in Found(job[w].request) : Reply(job[w].request, i) /\ UNCHANGED <<txn, nextTx>>
    BY <1>2, <2>1, <2>3, ReplyType, CallbackType DEF ClickPrepare, Found, Issued
  <2> QED  BY <1>2, <2>2, <2>3 DEF ClickPrepare
<1>3. CASE ClickComplete(w)
  <2> DEFINE r == job[w].request
             i == job[w].known
  <2>1. /\ r \in Complete /\ i \in Issued /\ i \in TxIds /\ i \in Found(r)
        /\ txn[i].provider = "click"
    BY <1>3, KnownRow, RequestKind DEF ClickComplete, Handling, Found, Provider
  <2> HIDE DEF r, i
  <2>2. CASE UNCHANGED <<order, txn>>
    BY <1>3, <2>1, <2>2, ReplyType, CallbackType DEF ClickComplete, Request, r, i
  <2>3. CASE txn' = [txn EXCEPT ![i].state = "cancelled", ![i].closed = r] /\ UNCHANGED order
    <3>1. TableTypes' /\ RowsStay
      BY <1>3, <2>1, <2>3, CancelledType DEF ClickComplete, r, i
    <3> QED  BY <1>3, <2>3, <3>1, CallbackType DEF ClickComplete
  <2>4. CASE Pays(w, i, r)
    BY <2>1, <2>4, PaysType
  <2> QED  BY <1>3, <2>1, <2>2, <2>3, <2>4 DEF ClickComplete, Pays, r, i
<1>4. CASE PaymeCreate(w)
  <2>1. job[w] \in Callback /\ job[w].request \in Request /\ job[w].request \in Create
        /\ job[w].known \in TxIds \cup {NoTx}
    BY <1>4, JobKind, RequestKind DEF PaymeCreate, Handling, Callback
  <2>2. CASE Insert(job[w].request)
    BY <1>4, <2>1, <2>2, InsertType, CallbackType DEF PaymeCreate
  <2>3. CASE /\ job[w].known # NoTx /\ Reply(job[w].request, job[w].known)
             /\ UNCHANGED <<txn, nextTx>>
    BY <1>4, <2>1, <2>3, ReplyType, CallbackType DEF PaymeCreate
  <2> QED  BY <1>4, <2>2, <2>3 DEF PaymeCreate
<1>5. CASE PaymePerform(w)
  <2> DEFINE r == job[w].request
             i == job[w].known
  <2>1. /\ r \in Perform /\ r \notin Complete
        /\ i \in Issued /\ i \in TxIds /\ i \in Found(r) /\ txn[i].provider = "payme"
    BY <1>5, KnownRow, RequestKind DEF PaymePerform, Handling, Found, Provider
  <2> HIDE DEF r, i
  <2>2. CASE UNCHANGED <<order, txn>>
    BY <1>5, <2>1, <2>2, ReplyType, CallbackType DEF PaymePerform, Request, r, i
  <2>3. CASE Pays(w, i, r)
    BY <2>1, <2>3, PaysType
  <2> QED  BY <1>5, <2>1, <2>2, <2>3 DEF PaymePerform, Pays, r, i
<1>6. CASE PaymeCancel(w)
  <2>1. job[w].request \in Withdraw /\ job[w].known \in Issued
    BY <1>6, KnownRow, RequestKind DEF PaymeCancel, Handling
  <2> QED  BY <1>6, <2>1, CancelledType, CallbackType DEF PaymeCancel
<1> QED  BY <1>1, <1>2, <1>3, <1>4, <1>5, <1>6

\* Uploads and reviews keep every type, and so does giving up.
LEMMA ManualType ==
    ASSUME TypeOK, NEW w \in Workers,
           \/ \E o \in Orders, f \in Objects : BeginUpload(w, o, f)
           \/ FinishUpload(w)
           \/ \E a \in Admins : BeginAccept(w, a)
           \/ FinishAccept(w)
           \/ GiveUp(w)
    PROVE  TypeOK'
<1>1. RowsStay /\ TableTypes'
  BY DEF BeginUpload, FinishUpload, BeginAccept, FinishAccept, GiveUp, gatewayVars,
         RowsStay, TableTypes, TypeOK, Issued
<1>2. ASSUME NEW o \in Orders, NEW f \in Objects, BeginUpload(w, o, f)
      PROVE  TypeOK'
  <2>1. job' = [job EXCEPT ![w] = [call |-> "upload", order |-> o, object |-> f]]
        /\ UNCHANGED <<order, active, view, approved>> /\ objects' = objects \cup {f}
    BY <1>2 DEF BeginUpload
  <2>2. job'[w].call = "upload" /\ job'[w] \in Upload
        /\ \A v \in Workers \ {w} : job'[v] = job[v]
    BY <2>1 DEF TypeOK, Upload
  <2>3. KnownFits(w)'
    BY <2>2 DEF KnownFits
  <2>4. \A v \in Workers : KnownFits(v)'
    BY <1>1, <2>2, <2>3, FitsStays
  <2>5. job' \in [Workers -> Callback \cup Upload \cup Review \cup {Idle}]
    BY <2>1, <2>2 DEF TypeOK
  <2> QED  BY <1>1, <2>1, <2>4, <2>5 DEF TypeOK, TableTypes, KnownFits
<1>3. CASE FinishUpload(w)
  <2>1. job[w] \in Upload /\ job[w].order \in Orders /\ job[w].object \in Objects
    BY <1>3, JobKind DEF FinishUpload, Upload
  <2>2. order[job[w].order] \in OrderRow /\ order[job[w].order].version + 1 \in Nat
    BY <2>1 DEF TypeOK, OrderRow
  <2>3. order' \in [Orders -> OrderRow]
    BY <1>3, <2>1, <2>2 DEF FinishUpload, TypeOK, OrderRow
  <2>4. JobTypes'
    BY <1>1, <1>3, JobsRest DEF FinishUpload
  <2> QED  BY <1>1, <1>3, <2>3, <2>4
           DEF FinishUpload, TypeOK, TableTypes, JobTypes, KnownFits, manualVars
<1>4. ASSUME NEW a \in Admins, BeginAccept(w, a)
      PROVE  TypeOK'
  <2>1. job' = [job EXCEPT ![w] = [call |-> "review", admin |-> a, screen |-> view[a]]]
        /\ UNCHANGED <<order, objects, active, view, approved>> /\ view[a] \in Screen
    BY <1>4 DEF BeginAccept, manualVars, TypeOK
  <2>2. job'[w].call = "review" /\ job'[w] \in Review
        /\ \A v \in Workers \ {w} : job'[v] = job[v]
    BY <2>1 DEF TypeOK, Review
  <2>3. KnownFits(w)'
    BY <2>2 DEF KnownFits
  <2>4. \A v \in Workers : KnownFits(v)'
    BY <1>1, <2>2, <2>3, FitsStays
  <2>5. job' \in [Workers -> Callback \cup Upload \cup Review \cup {Idle}]
    BY <2>1, <2>2 DEF TypeOK
  <2> QED  BY <1>1, <2>1, <2>4, <2>5 DEF TypeOK, TableTypes, KnownFits
<1>5. CASE FinishAccept(w)
  <2>1. /\ job[w] \in Review /\ job[w].admin \in Admins /\ job[w].screen.order \in Orders
        /\ job[w].screen.seen \in Objects \cup {NoReceipt}
    BY <1>5, JobKind DEF FinishAccept, Review, Screen
  <2>2. order[job[w].screen.order] \in OrderRow
    BY <2>1 DEF TypeOK
  <2>3. order' \in [Orders -> OrderRow]
    BY <1>5, <2>1, <2>2 DEF FinishAccept, TypeOK, OrderRow
  <2>4. approved' \in [Orders -> Objects \cup {NoReceipt}]
    BY <1>5, <2>1 DEF FinishAccept, TypeOK
  <2>5. JobTypes'
    BY <1>1, <1>5, JobsRest DEF FinishAccept
  <2> QED  BY <1>1, <1>5, <2>3, <2>4, <2>5
           DEF FinishAccept, TypeOK, TableTypes, JobTypes, KnownFits
<1>6. CASE GiveUp(w)
  <2>1. JobTypes'
    BY <1>1, <1>6, JobsRest DEF GiveUp
  <2> QED  BY <1>1, <1>6, <2>1
           DEF GiveUp, TypeOK, TableTypes, JobTypes, KnownFits, manualVars
<1> QED  BY <1>2, <1>3, <1>4, <1>5, <1>6

\* What administrators look at and do to an order keeps every type.
LEMMA OfficeType ==
    ASSUME TypeOK, Office
    PROVE  TypeOK'
<1>1. ASSUME NEW a \in Admins, NEW o \in Orders, ReadOrder(a, o)
      PROVE  TypeOK'
  <2>1. [order |-> o, version |-> order[o].version, seen |-> NoReceipt] \in Screen
    BY DEF TypeOK, OrderRow, Screen
  <2>2. view' \in [Admins -> Screen \cup {NoView}]
    BY <1>1, <2>1 DEF ReadOrder, TypeOK
  <2> QED  BY <1>1, <2>2 DEF ReadOrder, TypeOK, gatewayVars, Found, Issued, Provider
<1>2. ASSUME NEW a \in Admins, OpenReceipt(a)
      PROVE  TypeOK'
  <2>1. view[a] \in Screen
    BY <1>2 DEF OpenReceipt, TypeOK
  <2>2. order[view[a].order].receipt \in Objects \cup {NoReceipt}
    BY <2>1 DEF TypeOK, OrderRow, Screen
  <2>3. [view[a] EXCEPT !.seen = order[view[a].order].receipt] \in Screen
    BY <2>1, <2>2 DEF Screen
  <2>4. view' \in [Admins -> Screen \cup {NoView}]
    BY <1>2, <2>3 DEF OpenReceipt, TypeOK
  <2> QED  BY <1>2, <2>4 DEF OpenReceipt, TypeOK, gatewayVars, Found, Issued, Provider
<1>3. ASSUME NEW a \in Admins, Deactivate(a)
      PROVE  TypeOK'
  BY <1>3 DEF Deactivate, TypeOK, gatewayVars, Found, Issued, Provider
<1>4. ASSUME NEW o \in Orders, NEW s \in AllowedTransitions[order[o].status],
             AdvanceStatus(o, s)
      PROVE  TypeOK'
  <2>1. order[o] \in OrderRow
    BY DEF TypeOK
  <2>2. s \in {"confirmed", "preparing", "delivering", "completed"}
    BY <2>1 DEF AllowedTransitions, OrderRow
  <2>3. order' \in [Orders -> OrderRow]
    BY <1>4, <2>1, <2>2 DEF AdvanceStatus, TypeOK, OrderRow
  <2> QED  BY <1>4, <2>3
           DEF AdvanceStatus, TypeOK, manualVars, gatewayVars, Found, Issued, Provider
<1>5. ASSUME NEW o \in Orders, CancelOrder(o)
      PROVE  TypeOK'
  <2>1. order' \in [Orders -> OrderRow]
    BY <1>5 DEF CancelOrder, TypeOK, OrderRow
  <2> QED  BY <1>5, <2>1
           DEF CancelOrder, TypeOK, manualVars, gatewayVars, Found, Issued, Provider
<1> QED  BY <1>1, <1>2, <1>3, <1>4, <1>5 DEF Office

\* The first state has the shape TypeOK says.
LEMMA InitType == Init => TypeOK
<1>1. ASSUME Init
      PROVE  TypeOK
  <2>1. \A o \in Orders : order[o] \in OrderRow
    BY <1>1 DEF Init, OrderRow
  <2>2. order \in [Orders -> OrderRow]
    BY <1>1, <2>1 DEF Init
  <2>3. 1 \in 1..(MaxTx + 1) /\ \A i \in TxIds : ~(i < 1)
    BY Shop DEF TxIds
  <2> QED  BY <1>1, <2>2, <2>3 DEF Init, TypeOK, Idle
<1> QED  BY <1>1

\* Every reachable state has the shape TypeOK says.
THEOREM TypeCorrect == Spec => []TypeOK
<1>1. TypeOK /\ [Next]_vars => TypeOK'
  <2>1. ASSUME TypeOK, NEW w \in Workers, Work(w)
        PROVE  TypeOK'
    BY <2>1, GatewayType, ManualType DEF Work
  <2>2. ASSUME TypeOK, UNCHANGED vars
        PROVE  TypeOK'
    BY <2>2 DEF TypeOK, vars, Found, Issued, Provider
  <2> QED  BY <2>1, <2>2, OfficeType DEF Next
<1> QED  BY <1>1, InitType, PTL DEF Spec

-----------------------------------------------------------------------------
(* What a step can do to an order.  Most of a callback's life leaves orders *)
(* and receipts alone; the steps that do not are told apart here once.      *)

\* The transactions that ever completed.
Charges == {i \in Issued : txn[i].once}

\* No order, receipt or screen changes, nothing is charged, and no upload or
\* review begins.
Quiet ==
    /\ UNCHANGED <<order, objects, view, approved>>
    /\ Charges' = Charges /\ \A i \in Charges : txn'[i].order = txn[i].order
    /\ \A v \in Workers : job'[v] = job[v] \/ job'[v].call \in {"idle", "callback"}

\* An order only moves to another status.
Restatus(o, s) ==
    /\ order' = [order EXCEPT ![o].status = s]
    /\ UNCHANGED <<job, txn, objects, view, approved>>

\* A worker that finishes leaves the others alone.
LEMMA DoneRests ==
    ASSUME TypeOK, NEW w \in Workers, Done(w)
    PROVE  /\ job'[w] = Idle /\ job'[w].call = "idle"
           /\ \A v \in Workers \ {w} : job'[v] = job[v]
BY DEF Done, TypeOK, Idle

\* Opening a transaction charges nobody.
LEMMA InsertCharges ==
    ASSUME TypeOK, NEW r \in Prepare \cup Create, Insert(r)
    PROVE  Charges' = Charges /\ \A i \in Charges : txn'[i].order = txn[i].order
<1>1. nextTx \in TxIds /\ txn[nextTx] = NoRow
  BY Shop DEF Insert, TypeOK, TxIds
<1>2. txn'[nextTx].once = FALSE /\ \A j \in TxIds \ {nextTx} : txn'[j] = txn[j]
  BY <1>1 DEF Insert, TypeOK
<1>3. Charges' = {i \in TxIds : txn'[i] # NoRow /\ txn'[i].once}
  BY DEF Charges, Issued
<1>4. Charges = {i \in TxIds : txn[i] # NoRow /\ txn[i].once}
  BY DEF Charges, Issued
<1>5. \A i \in TxIds : txn'[i] # NoRow /\ txn'[i].once <=> txn[i] # NoRow /\ txn[i].once
  BY <1>1, <1>2
<1> QED  BY <1>1, <1>2, <1>3, <1>4, <1>5

\* Cancelling a transaction charges nobody and forgets no charge.
LEMMA CancelCharges ==
    ASSUME TypeOK, NEW i \in Issued, NEW r \in Complete \cup Withdraw,
           \/ txn' = [txn EXCEPT ![i].state = "cancelled", ![i].closed = r] /\ r \in Complete
           \/ txn' = [txn EXCEPT ![i].state = "cancelled"]
    PROVE  Charges' = Charges /\ \A j \in Charges : txn'[j].order = txn[j].order
<1>1. txn[i] \in TxRow /\ i \in TxIds /\ txn[i] # NoRow
  BY RowKind DEF Issued
<1>2. \A j \in TxIds \ {i} : txn'[j] = txn[j]
  BY <1>1 DEF TypeOK
<1>3. /\ txn'[i].once = txn[i].once /\ txn'[i].order = txn[i].order
      /\ txn'[i].state = "cancelled"
  BY <1>1 DEF TypeOK, TxRow
<1>4. txn'[i] # NoRow
  BY <1>3 DEF NoRow
<1>5. \A j \in TxIds : txn'[j] # NoRow /\ txn'[j].once <=> txn[j] # NoRow /\ txn[j].once
  BY <1>1, <1>2, <1>3, <1>4
<1> QED  BY <1>2, <1>3, <1>5 DEF Charges, Issued

\* A gateway's message either charges an order or is quiet.
LEMMA GatewayShape ==
    ASSUME TypeOK, NEW w \in Workers,
           \/ \E r \in Request : Receive(w, r)
           \/ ClickPrepare(w) \/ ClickComplete(w)
           \/ PaymeCreate(w) \/ PaymePerform(w) \/ PaymeCancel(w)
    PROVE  Quiet \/ \E i \in Issued, r \in Complete \cup Perform : Pays(w, i, r)
<1>1. ASSUME NEW r \in Request, Receive(w, r)
      PROVE  Quiet
  BY <1>1 DEF Receive, Quiet, Charges, Issued, gatewayVars, manualVars, TypeOK
<1>2. CASE ClickPrepare(w)
  <2>1. job[w].request \in Prepare
    BY <1>2, JobKind, RequestKind DEF ClickPrepare, Handling, Callback
  <2>2. Charges' = Charges /\ \A i \in Charges : txn'[i].order = txn[i].order
    BY <1>2, <2>1, InsertCharges DEF ClickPrepare, Charges, Issued
  <2> QED  BY <1>2, <2>2, DoneRests DEF ClickPrepare, Quiet, manualVars
<1>3. CASE ClickComplete(w)
  <2> DEFINE r == job[w].request
             i == job[w].known
  <2>1. r \in Complete /\ i \in Issued /\ i \in Found(r) /\ txn[i].provider = "click"
    BY <1>3, KnownRow, RequestKind DEF ClickComplete, Handling, Found, Provider
  <2> HIDE DEF r, i
  <2>2. Quiet \/ Pays(w, i, r)
    <3>1. CASE UNCHANGED <<order, txn>>
      BY <1>3, <3>1, DoneRests DEF ClickComplete, Quiet, Charges, Issued, manualVars
    <3>2. CASE UNCHANGED order /\ txn' = [txn EXCEPT ![i].state = "cancelled", ![i].closed = r]
      BY <1>3, <2>1, <3>2, DoneRests, CancelCharges DEF ClickComplete, Quiet, manualVars
    <3> QED  BY <1>3, <2>1, <3>1, <3>2 DEF ClickComplete, Pays, r, i
  <2> QED  BY <2>1, <2>2
<1>4. CASE PaymeCreate(w)
  <2>1. job[w].request \in Create
    BY <1>4, JobKind, RequestKind DEF PaymeCreate, Handling, Callback
  <2>2. Charges' = Charges /\ \A i \in Charges : txn'[i].order = txn[i].order
    BY <1>4, <2>1, InsertCharges DEF PaymeCreate, Charges, Issued
  <2> QED  BY <1>4, <2>2, DoneRests DEF PaymeCreate, Quiet, manualVars
<1>5. CASE PaymePerform(w)
  <2> DEFINE r == job[w].request
             i == job[w].known
  <2>1. /\ r \in Perform /\ r \notin Complete
        /\ i \in Issued /\ i \in Found(r) /\ txn[i].provider = "payme"
    BY <1>5, KnownRow, RequestKind DEF PaymePerform, Handling, Found, Provider
  <2> HIDE DEF r, i
  <2>2. Quiet \/ Pays(w, i, r)
    <3>1. CASE UNCHANGED <<order, txn>>
      BY <1>5, <3>1, DoneRests DEF PaymePerform, Quiet, Charges, Issued, manualVars
    <3> QED  BY <1>5, <2>1, <3>1 DEF PaymePerform, Pays, r, i
  <2> QED  BY <2>1, <2>2
<1>6. CASE PaymeCancel(w)
  <2>1. job[w].request \in Withdraw /\ job[w].known \in Issued
    BY <1>6, KnownRow, RequestKind DEF PaymeCancel, Handling
  <2>2. Charges' = Charges /\ \A i \in Charges : txn'[i].order = txn[i].order
    BY <1>6, <2>1, CancelCharges DEF PaymeCancel
  <2> QED  BY <1>6, <2>2, DoneRests DEF PaymeCancel, Quiet, manualVars
<1> QED  BY <1>1, <1>2, <1>3, <1>4, <1>5, <1>6

\* Every step is quiet, charges an order through a gateway, is one of the
\* steps of a card transfer, or moves an order to another status.
LEMMA StepShape ==
    ASSUME TypeOK, [Next]_vars
    PROVE  \/ Quiet
           \/ \E o \in Orders : \E s \in AllowedTransitions[order[o].status] \cup {"cancelled"} :
                Restatus(o, s)
           \/ \E a \in Admins : OpenReceipt(a) \/ \E o \in Orders : ReadOrder(a, o)
           \/ \E w \in Workers :
                \/ \E i \in Issued, r \in Complete \cup Perform : Pays(w, i, r)
                \/ \E o \in Orders, f \in Objects : BeginUpload(w, o, f)
                \/ FinishUpload(w) \/ FinishAccept(w)
                \/ \E a \in Admins : BeginAccept(w, a)
<1>1. ASSUME NEW w \in Workers, GiveUp(w)
      PROVE  Quiet
  BY <1>1, DoneRests DEF GiveUp, Quiet, Charges, Issued, gatewayVars, manualVars
<1>2. ASSUME NEW a \in Admins, Deactivate(a)
      PROVE  Quiet
  BY <1>2 DEF Deactivate, Quiet, Charges, Issued, gatewayVars
<1>3. ASSUME UNCHANGED vars
      PROVE  Quiet
  BY <1>3 DEF vars, Quiet, Charges, Issued
<1>4. ASSUME NEW o \in Orders, NEW s \in AllowedTransitions[order[o].status],
             AdvanceStatus(o, s)
      PROVE  Restatus(o, s)
  BY <1>4 DEF AdvanceStatus, Restatus, gatewayVars, manualVars
<1>5. ASSUME NEW o \in Orders, CancelOrder(o)
      PROVE  Restatus(o, "cancelled")
  BY <1>5 DEF CancelOrder, Restatus, gatewayVars, manualVars
<1>6. CASE Office
  BY <1>2, <1>4, <1>5, <1>6 DEF Office
<1>7. ASSUME NEW w \in Workers, Work(w)
      PROVE  \/ Quiet
             \/ \E i \in Issued, r \in Complete \cup Perform : Pays(w, i, r)
             \/ \E o \in Orders, f \in Objects : BeginUpload(w, o, f)
             \/ FinishUpload(w) \/ FinishAccept(w)
             \/ \E a \in Admins : BeginAccept(w, a)
  BY <1>1, <1>7, GatewayShape DEF Work
<1> QED  BY <1>3, <1>6, <1>7 DEF Next

-----------------------------------------------------------------------------
(* What those steps leave behind, column by column. *)

SameButStatus(o) ==
    /\ order'[o].payment = order[o].payment /\ order'[o].receipt = order[o].receipt
    /\ order'[o].version = order[o].version /\ order'[o].reviewer = order[o].reviewer

OthersStay(o) == \A q \in Orders \ {o} : order'[q] = order[q]

\* Charging an order sets its payment, and its status if it was new.
LEMMA PaysEffect ==
    ASSUME TypeOK, NEW w \in Workers, NEW i \in Issued,
           NEW r \in Complete \cup Perform, Pays(w, i, r), NEW o, o = txn[i].order
    PROVE  /\ o \in Orders /\ OthersStay(o)
           /\ order[o].payment # "paid" /\ ~IsTerminal(o) /\ Method[o] # "card_transfer"
           /\ order'[o].payment = "paid" /\ order'[o].status # "new"
           /\ order'[o].receipt = order[o].receipt /\ order'[o].version = order[o].version
           /\ order'[o].reviewer = order[o].reviewer
           /\ Charges' = Charges \cup {i} /\ txn'[i].order = o
           /\ \A j \in Charges : txn'[j].order = txn[j].order
           /\ UNCHANGED <<objects, active, view, approved>> /\ Done(w)
<1>1. /\ txn[i] \in TxRow /\ o \in Orders /\ i \in TxIds /\ txn[i] # NoRow
      /\ order[o] \in OrderRow
  BY RowKind DEF Issued, TypeOK
<1>2. txn'[i] = [txn[i] EXCEPT !.state = "paid", !.closed = r, !.once = TRUE]
      /\ \A j \in TxIds \ {i} : txn'[j] = txn[j]
  BY <1>1 DEF Pays, TypeOK
<1>3. txn'[i].order = o /\ txn'[i].once = TRUE /\ txn'[i].state = "paid"
  BY <1>1, <1>2 DEF TxRow
<1>4. txn'[i] # NoRow
  BY <1>3 DEF NoRow
<1>5. \A j \in TxIds : txn'[j] # NoRow /\ txn'[j].once
                         <=> (txn[j] # NoRow /\ txn[j].once) \/ j = i
  BY <1>2, <1>3, <1>4
<1>6. Charges' = Charges \cup {i} /\ \A j \in Charges : txn'[j].order = txn[j].order
  BY <1>1, <1>2, <1>3, <1>5 DEF Charges, Issued
<1>7. txn[i].provider \in {"click", "payme"}
  BY <1>1 DEF TxRow
<1>8. order[o].payment # "paid" /\ ~IsTerminal(o) /\ Method[o] # "card_transfer"
  BY <1>1, <1>7 DEF Pays, Payable
<1>9. order' = [order EXCEPT ![o].payment = "paid",
                             ![o].status = IF @ = "new" THEN "confirmed" ELSE @]
  BY DEF Pays, MarkPaid
<1>10. /\ OthersStay(o)
       /\ order'[o] = [order[o] EXCEPT !.payment = "paid",
                         !.status = IF @ = "new" THEN "confirmed" ELSE @]
  BY <1>1, <1>9 DEF OthersStay, TypeOK
<1>11. /\ order'[o].payment = "paid" /\ order'[o].receipt = order[o].receipt
       /\ order'[o].version = order[o].version /\ order'[o].reviewer = order[o].reviewer
       /\ order'[o].status # "new"
  BY <1>1, <1>10 DEF OrderRow
<1> QED  BY <1>1, <1>3, <1>6, <1>8, <1>10, <1>11 DEF Pays, manualVars

\* A finished upload replaces the receipt by a new version of it.
LEMMA UploadEffect ==
    ASSUME TypeOK, NEW w \in Workers, FinishUpload(w), NEW o, o = job[w].order
    PROVE  /\ o \in Orders /\ job[w].object \in Objects /\ OthersStay(o)
           /\ order'[o].receipt = job[w].object /\ order'[o].payment = "receipt_uploaded"
           /\ order'[o].version = order[o].version + 1 /\ order[o].version \in Nat
           /\ order'[o].reviewer = order[o].reviewer /\ order'[o].status = order[o].status
           /\ UNCHANGED <<txn, objects, active, view, approved>> /\ Done(w)
<1>1. o \in Orders /\ job[w].object \in Objects /\ order[o] \in OrderRow
  BY JobKind DEF FinishUpload, Upload, TypeOK
<1>2. /\ OthersStay(o)
      /\ order'[o] = [order[o] EXCEPT !.receipt = job[w].object, !.version = @ + 1,
                                      !.payment = "receipt_uploaded"]
  BY <1>1 DEF FinishUpload, OthersStay, TypeOK
<1>3. /\ order'[o].receipt = job[w].object /\ order'[o].payment = "receipt_uploaded"
      /\ order'[o].version = order[o].version + 1 /\ order[o].version \in Nat
      /\ order'[o].reviewer = order[o].reviewer /\ order'[o].status = order[o].status
  BY <1>1, <1>2 DEF OrderRow
<1>4. UNCHANGED <<txn, objects, active, view, approved>> /\ Done(w)
  BY DEF FinishUpload, gatewayVars, manualVars
<1> QED  BY <1>1, <1>2, <1>3, <1>4

\* An acceptance sets the payment and the reviewer, and remembers what the
\* reviewer had seen.
LEMMA AcceptEffect ==
    ASSUME TypeOK, NEW w \in Workers, FinishAccept(w), NEW o, o = job[w].screen.order
    PROVE  /\ o \in Orders /\ OthersStay(o) /\ OrderFree(o) /\ ~IsTerminal(o)
           /\ Method[o] = "card_transfer" /\ order[o].payment = "receipt_uploaded"
           /\ job[w].screen.version = order[o].version
           /\ order'[o].payment = "paid" /\ order'[o].reviewer = job[w].admin
           /\ order'[o].reviewer # NoAdmin
           /\ order'[o].receipt = order[o].receipt /\ order'[o].version = order[o].version
           /\ approved'[o] = job[w].screen.seen
           /\ \A q \in Orders \ {o} : approved'[q] = approved[q]
           /\ UNCHANGED <<txn, objects, active, view>> /\ Done(w)
<1>1. o \in Orders /\ job[w].admin \in Admins /\ order[o] \in OrderRow
  BY JobKind DEF FinishAccept, Review, Screen, TypeOK
<1>2. /\ OthersStay(o)
      /\ order'[o] = [order[o] EXCEPT !.payment = "paid", !.reviewer = job[w].admin]
  BY <1>1 DEF FinishAccept, OthersStay, TypeOK
<1>3. job[w].admin # NoAdmin
  BY <1>1, NotValues
<1> QED  BY <1>1, <1>2, <1>3 DEF FinishAccept, OrderRow, gatewayVars, TypeOK

\* Moving an order to another status leaves its other columns alone.
LEMMA StatusEffect ==
    ASSUME TypeOK, NEW o \in Orders, NEW s, Restatus(o, s)
    PROVE  \A q \in Orders : SameButStatus(q)
<1>1. order[o] \in OrderRow
  BY DEF TypeOK
<1>2. OthersStay(o) /\ order'[o] = [order[o] EXCEPT !.status = s]
  BY DEF Restatus, OthersStay, TypeOK
<1> QED  BY <1>1, <1>2 DEF SameButStatus, OthersStay, OrderRow

-----------------------------------------------------------------------------
(* The inductive invariant. *)

\* An upload holds its order's row lock: the order waits unpaid for a card
\* transfer, and the file is stored and belongs to this upload alone.
UploadSound ==
    \A w \in Workers : job[w].call = "upload" =>
        /\ Method[job[w].order] = "card_transfer"
        /\ order[job[w].order].payment # "paid"
        /\ job[w].object \in objects
        /\ \A o \in Orders : order[o].receipt # job[w].object
        /\ \A v \in Workers \ {w} : job[v].call = "upload" =>
            job[v].order # job[w].order /\ job[v].object # job[w].object

\* A screen that still carries the order's version shows its receipt.
Current(s) ==
    /\ s.version <= order[s.order].version
    /\ s.seen # NoReceipt =>
        /\ s.seen \in objects
        /\ s.version = order[s.order].version => s.seen = order[s.order].receipt

ScreensSound ==
    /\ \A a \in Admins : view[a] # NoView => Current(view[a])
    /\ \A w \in Workers : job[w].call = "review" =>
        Current(job[w].screen) /\ job[w].screen.seen # NoReceipt

PayInv ==
    /\ TypeOK /\ UploadSound /\ ScreensSound
    /\ PaidHasEvidence /\ ReceiptsStored /\ ChargedOnce

\* What is on a screen survives every step that keeps receipts and raises
\* the version of an order whose receipt it replaces.
LEMMA CurrentStays ==
    ASSUME TypeOK, NEW s \in Screen, Current(s), objects \subseteq objects',
           \A o \in Orders : /\ order'[o].version \in Nat
                             /\ order[o].version <= order'[o].version
                             /\ order'[o].version = order[o].version
                                  => order'[o].receipt = order[o].receipt
    PROVE  /\ s.version <= order'[s.order].version
           /\ s.seen # NoReceipt =>
                /\ s.seen \in objects'
                /\ s.version = order'[s.order].version => s.seen = order'[s.order].receipt
<1>1. s.order \in Orders /\ s.version \in Nat /\ order[s.order].version \in Nat
  BY DEF Screen, TypeOK, OrderRow
<1>2. /\ order'[s.order].version \in Nat
      /\ order[s.order].version <= order'[s.order].version
      /\ order'[s.order].version = order[s.order].version
           => order'[s.order].receipt = order[s.order].receipt
  BY <1>1
<1>3. s.version <= order'[s.order].version
  BY <1>1, <1>2 DEF Current
<1>4. s.version = order'[s.order].version => s.version = order[s.order].version
  BY <1>1, <1>2 DEF Current
<1> QED  BY <1>2, <1>3, <1>4 DEF Current

\* Screens stay sound while screens and reviews are only kept or dropped.
LEMMA ScreensStay ==
    ASSUME TypeOK, ScreensSound, TypeOK', objects \subseteq objects', UNCHANGED view,
           \A w \in Workers : job'[w] = job[w] \/ job'[w].call # "review",
           \A o \in Orders : /\ order[o].version <= order'[o].version
                             /\ order'[o].version = order[o].version
                                  => order'[o].receipt = order[o].receipt
    PROVE  ScreensSound'
<1>1. \A o \in Orders : order'[o].version \in Nat
  BY DEF TypeOK, OrderRow
<1>2. ASSUME NEW a \in Admins, view[a] # NoView
      PROVE  Current(view[a])'
  <2>1. view[a] \in Screen /\ Current(view[a])
    BY <1>2 DEF TypeOK, ScreensSound
  <2> QED  BY <1>1, <2>1, CurrentStays DEF Current
<1>3. ASSUME NEW w \in Workers, job'[w].call = "review"
      PROVE  Current(job[w].screen)' /\ job'[w].screen.seen # NoReceipt
  <2>1. job'[w] = job[w] /\ job[w].screen \in Screen /\ Current(job[w].screen)
    BY <1>3, JobKind DEF ScreensSound, Review
  <2>2. job[w].screen.seen # NoReceipt
    BY <1>3, <2>1 DEF ScreensSound
  <2> QED  BY <1>1, <2>1, <2>2, CurrentStays DEF Current
<1> QED  BY <1>2, <1>3 DEF ScreensSound

\* Receipts stay stored while no order gets another one.
LEMMA StoredStays ==
    ASSUME TypeOK, ReceiptsStored, objects \subseteq objects',
           \A o \in Orders : order'[o].receipt = order[o].receipt
    PROVE  ReceiptsStored'
BY DEF ReceiptsStored

\* An order's evidence: who charged it, and what was accepted for it.
Evidence(o) ==
    /\ order[o].payment = "paid" <=>
        (\E i \in Charges : txn[i].order = o) \/ order[o].reviewer # NoAdmin
    /\ order[o].reviewer # NoAdmin =>
        /\ order[o].receipt = approved[o] /\ approved[o] \in objects
        /\ Method[o] = "card_transfer"

\* The invariant is about each order's evidence on its own.
LEMMA EvidenceParts == PaidHasEvidence <=> \A o \in Orders : Evidence(o)
BY DEF PaidHasEvidence, Evidence, Charges

\* Quiet steps preserve the invariant.
LEMMA QuietInv ==
    ASSUME PayInv, Quiet, TypeOK'
    PROVE  PayInv'
<1>1. UploadSound'
  BY DEF PayInv, UploadSound, Quiet
<1>2. ScreensSound'
  <2>1. \A o \in Orders : order[o].version <= order'[o].version
    BY DEF PayInv, TypeOK, OrderRow, Quiet
  <2>2. \A w \in Workers : job'[w] = job[w] \/ job'[w].call # "review"
    BY DEF Quiet
  <2> QED  BY <2>1, <2>2, ScreensStay DEF PayInv, Quiet
<1>3. PaidHasEvidence'
  <2>1. \A o \in Orders : Evidence(o)
    BY EvidenceParts DEF PayInv
  <2>2. \A o \in Orders : Evidence(o)'
    BY <2>1 DEF Evidence, Quiet
  <2> QED  BY <2>2 DEF Evidence, PaidHasEvidence, Charges
<1>4. ReceiptsStored'
  BY DEF PayInv, ReceiptsStored, Quiet
<1>5. ChargedOnce'
  BY DEF PayInv, ChargedOnce, Quiet, Charges
<1> QED  BY <1>1, <1>2, <1>3, <1>4, <1>5 DEF PayInv

\* Moving an order to another status preserves the invariant.
LEMMA RestatusInv ==
    ASSUME PayInv, NEW o \in Orders, NEW s, Restatus(o, s), TypeOK'
    PROVE  PayInv'
<1>1. \A q \in Orders : SameButStatus(q)
  BY StatusEffect DEF PayInv
<1>2. UploadSound'
  BY <1>1, JobKind DEF PayInv, UploadSound, Restatus, SameButStatus, Upload
<1>3. ScreensSound'
  <2>1. \A q \in Orders : order[q].version <= order'[q].version
    BY <1>1 DEF PayInv, TypeOK, OrderRow, SameButStatus
  <2> QED  BY <1>1, <2>1, ScreensStay DEF PayInv, Restatus, SameButStatus
<1>4. PaidHasEvidence'
  BY <1>1 DEF PayInv, PaidHasEvidence, Restatus, SameButStatus, Issued
<1>5. ReceiptsStored'
  BY <1>1 DEF PayInv, ReceiptsStored, Restatus, SameButStatus
<1>6. ChargedOnce'
  BY DEF PayInv, ChargedOnce, Restatus, Issued
<1> QED  BY <1>2, <1>3, <1>4, <1>5, <1>6 DEF PayInv

\* Looking at an order preserves the invariant.
LEMMA LookInv ==
    ASSUME PayInv, NEW a \in Admins,
           OpenReceipt(a) \/ \E o \in Orders : ReadOrder(a, o), TypeOK'
    PROVE  PayInv'
<1>1. UNCHANGED <<order, objects, job, approved, txn>>
  BY DEF OpenReceipt, ReadOrder, gatewayVars
<1>2. UploadSound' /\ PaidHasEvidence' /\ ReceiptsStored' /\ ChargedOnce'
  BY <1>1 DEF PayInv, UploadSound, PaidHasEvidence, ReceiptsStored, ChargedOnce, Issued
<1>3. \A b \in Admins \ {a} : view'[b] = view[b]
  BY DEF PayInv, TypeOK, OpenReceipt, ReadOrder
<1>4. view'[a] # NoView => Current(view[a])'
  <2>1. CASE OpenReceipt(a)
    <3>1. /\ view[a] \in Screen /\ view[a].order \in Orders /\ Current(view[a])
          /\ order[view[a].order].receipt \in objects
      BY <2>1 DEF OpenReceipt, PayInv, TypeOK, Screen, ScreensSound
    <3>2. view'[a] = [view[a] EXCEPT !.seen = order[view[a].order].receipt]
      BY <2>1 DEF OpenReceipt, PayInv, TypeOK
    <3>3. /\ view'[a].order = view[a].order /\ view'[a].version = view[a].version
          /\ view'[a].seen = order[view[a].order].receipt
      BY <3>1, <3>2 DEF Screen
    <3> QED  BY <1>1, <3>1, <3>3 DEF Current
  <2>2. ASSUME NEW o \in Orders, ReadOrder(a, o)
        PROVE  Current(view[a])'
    <3>1. view'[a] = [order |-> o, version |-> order[o].version, seen |-> NoReceipt]
      BY <2>2 DEF ReadOrder, PayInv, TypeOK
    <3>2. order[o].version \in Nat
      BY DEF PayInv, TypeOK, OrderRow
    <3> QED  BY <1>1, <3>1, <3>2 DEF Current
  <2> QED  BY <2>1, <2>2
<1>5. ScreensSound'
  BY <1>1, <1>3, <1>4 DEF PayInv, ScreensSound, Current
<1> QED  BY <1>2, <1>5 DEF PayInv

\* A gateway's charge preserves the invariant: the order was unpaid, so no
\* transaction had charged it and nobody had accepted a receipt for it.
LEMMA ChargeInv ==
    ASSUME PayInv, NEW w \in Workers, NEW i \in Issued,
           NEW r \in Complete \cup Perform, Pays(w, i, r), TypeOK'
    PROVE  PayInv'
<1> DEFINE o == txn[i].order
<1>1. /\ o \in Orders /\ OthersStay(o)
      /\ order[o].payment # "paid" /\ Method[o] # "card_transfer"
      /\ order'[o].payment = "paid"
      /\ order'[o].receipt = order[o].receipt /\ order'[o].version = order[o].version
      /\ order'[o].reviewer = order[o].reviewer
      /\ Charges' = Charges \cup {i} /\ txn'[i].order = o
      /\ \A j \in Charges : txn'[j].order = txn[j].order
      /\ UNCHANGED <<objects, active, view, approved>> /\ Done(w)
  BY PaysEffect DEF PayInv
<1> HIDE DEF o
<1>2. /\ \A v \in Workers : job'[v] = job[v] \/ job'[v].call = "idle"
      /\ \A q \in Orders : /\ order'[q].receipt = order[q].receipt
                           /\ order'[q].version = order[q].version
                           /\ order'[q].reviewer = order[q].reviewer
  BY <1>1, DoneRests DEF PayInv, OthersStay
<1>3. \A q \in Orders : Evidence(q)
  BY EvidenceParts DEF PayInv
<1>4. \A j \in Charges : txn[j].order # o
  BY <1>1, <1>3 DEF Evidence
<1>5. UploadSound'
  <2>1. ASSUME NEW v \in Workers, job'[v].call = "upload"
        PROVE  job'[v] = job[v] /\ job[v].order \in Orders /\ job[v].order # o
               /\ order'[job[v].order] = order[job[v].order]
    BY <1>1, <1>2, <2>1, JobKind DEF PayInv, UploadSound, Upload, OthersStay
  <2> QED  BY <1>1, <1>2, <2>1 DEF PayInv, UploadSound
<1>6. ScreensSound'
  <2>1. \A q \in Orders : order[q].version <= order'[q].version
    BY <1>2 DEF PayInv, TypeOK, OrderRow
  <2>2. \A v \in Workers : job'[v] = job[v] \/ job'[v].call # "review"
    BY <1>2
  <2> QED  BY <1>1, <1>2, <2>1, <2>2, ScreensStay DEF PayInv
<1>7. PaidHasEvidence'
  <2>1. /\ order'[o].payment = "paid" /\ order'[o].reviewer = NoAdmin
        /\ \E j \in Charges' : txn'[j].order = o
    BY <1>1, <1>3 DEF Evidence
  <2>2. ASSUME NEW q \in Orders, q # o
        PROVE  Evidence(q)'
    <3>1. order'[q] = order[q]
      BY <1>1, <2>2 DEF OthersStay
    <3>2. (\E j \in Charges' : txn'[j].order = q) <=> \E j \in Charges : txn[j].order = q
      BY <1>1, <2>2
    <3>3. approved'[q] = approved[q] /\ objects' = objects
      BY <1>1
    <3>4. Evidence(q)
      BY <1>3
    <3> QED  BY <3>1, <3>2, <3>3, <3>4 DEF Evidence
  <2>3. ASSUME NEW q \in Orders
        PROVE  Evidence(q)'
    <3>1. CASE q = o
      BY <2>1, <3>1 DEF Evidence
    <3> QED  BY <2>2, <3>1
  <2> QED  BY <2>3 DEF Evidence, PaidHasEvidence, Charges
<1>8. ReceiptsStored'
  BY <1>1, <1>2 DEF PayInv, ReceiptsStored
<1>9. ChargedOnce'
  <2>1. ASSUME NEW j \in Charges', NEW k \in Charges', txn'[j].order = txn'[k].order
        PROVE  j = k
    BY <1>1, <1>4, <2>1 DEF PayInv, ChargedOnce, Charges
  <2> QED  BY <2>1 DEF ChargedOnce, Charges
<1> QED  BY <1>5, <1>6, <1>7, <1>8, <1>9 DEF PayInv

\* Storing a receipt file preserves the invariant: it is a fresh file, and
\* the order is not being uploaded to by anyone else.
LEMMA BeginUploadInv ==
    ASSUME PayInv, NEW w \in Workers, NEW o \in Orders, NEW f \in Objects,
           BeginUpload(w, o, f), TypeOK'
    PROVE  PayInv'
<1>1. /\ UNCHANGED <<order, txn, view, approved>> /\ objects' = objects \cup {f}
      /\ f \notin objects /\ Method[o] = "card_transfer" /\ order[o].payment # "paid"
      /\ \A v \in Workers : ~(job[v].call = "upload" /\ job[v].order = o)
  BY DEF BeginUpload, gatewayVars, OrderFree
<1>2. /\ job'[w] = [call |-> "upload", order |-> o, object |-> f]
      /\ \A v \in Workers \ {w} : job'[v] = job[v]
  BY DEF BeginUpload, PayInv, TypeOK
<1>3. /\ job'[w].call = "upload" /\ job'[w].order = o /\ job'[w].object = f
  BY <1>2
<1>4. \A q \in Orders : order[q].receipt # f
  <2>1. f # NoReceipt
    BY NotValues
  <2> QED  BY <1>1, <2>1 DEF PayInv, ReceiptsStored
<1>5. \A v \in Workers : job[v].call = "upload" => job[v].object # f
  BY <1>1 DEF PayInv, UploadSound
<1>6. UploadSound'
  BY <1>1, <1>2, <1>3, <1>4, <1>5 DEF PayInv, UploadSound
<1>7. ScreensSound'
  <2>1. \A q \in Orders : order[q].version <= order'[q].version
    BY <1>1 DEF PayInv, TypeOK, OrderRow
  <2>2. \A v \in Workers : job'[v] = job[v] \/ job'[v].call # "review"
    BY <1>2, <1>3
  <2> QED  BY <1>1, <2>1, <2>2, ScreensStay DEF PayInv
<1>8. PaidHasEvidence' /\ ReceiptsStored' /\ ChargedOnce'
  BY <1>1 DEF PayInv, PaidHasEvidence, ReceiptsStored, ChargedOnce, Issued
<1> QED  BY <1>6, <1>7, <1>8 DEF PayInv

\* Referring an order to an uploaded file preserves the invariant: the order
\* is still unpaid, and a screen of an older version is out of date now.
LEMMA FinishUploadInv ==
    ASSUME PayInv, NEW w \in Workers, FinishUpload(w), TypeOK'
    PROVE  PayInv'
<1> DEFINE o == job[w].order
           f == job[w].object
<1>1. /\ o \in Orders /\ f \in Objects /\ OthersStay(o)
      /\ order'[o].receipt = f /\ order'[o].payment = "receipt_uploaded"
      /\ order'[o].version = order[o].version + 1 /\ order[o].version \in Nat
      /\ order'[o].reviewer = order[o].reviewer
      /\ UNCHANGED <<txn, objects, active, view, approved>> /\ Done(w)
  BY UploadEffect DEF PayInv
<1>2. /\ order[o].payment # "paid" /\ f \in objects
      /\ \A q \in Orders : order[q].receipt # f
      /\ \A v \in Workers \ {w} : job[v].call = "upload" =>
            job[v].order # o /\ job[v].object # f
  BY DEF PayInv, UploadSound, FinishUpload
<1> HIDE DEF o, f
<1>3. job'[w] = Idle /\ job'[w].call = "idle" /\ \A v \in Workers \ {w} : job'[v] = job[v]
  BY <1>1, DoneRests DEF PayInv
<1>4. UploadSound'
  <2>1. ASSUME NEW v \in Workers, job'[v].call = "upload"
        PROVE  /\ v # w /\ job'[v] = job[v] /\ job[v].order # o /\ job[v].object # f
               /\ order'[job[v].order] = order[job[v].order]
    BY <1>1, <1>2, <1>3, <2>1, JobKind DEF PayInv, Upload, OthersStay
  <2>2. ASSUME NEW v \in Workers, job'[v].call = "upload", NEW q \in Orders
        PROVE  order'[q].receipt # job[v].object
    BY <1>1, <2>1, <2>2 DEF PayInv, UploadSound, OthersStay
  <2> QED  BY <1>1, <2>1, <2>2 DEF PayInv, UploadSound
<1>5. ScreensSound'
  <2>1. \A q \in Orders : order[q].version <= order'[q].version
    BY <1>1 DEF PayInv, TypeOK, OrderRow, OthersStay
  <2>2. \A v \in Workers : job'[v] = job[v] \/ job'[v].call # "review"
    BY <1>3
  <2>3. \A q \in Orders : order'[q].version = order[q].version
                            => order'[q].receipt = order[q].receipt
    BY <1>1 DEF OthersStay
  <2> QED  BY <1>1, <2>1, <2>2, <2>3, ScreensStay DEF PayInv
<1>6. PaidHasEvidence'
  <2>1. \A q \in Orders : Evidence(q)
    BY EvidenceParts DEF PayInv
  <2>2. Charges' = Charges
    BY <1>1 DEF Charges, Issued
  <2>3. ASSUME NEW q \in Orders
        PROVE  Evidence(q)'
    <3>1. CASE q = o
      BY <1>1, <1>2, <2>1, <2>2, <3>1 DEF Evidence
    <3>2. CASE q # o
      BY <1>1, <2>1, <2>2, <3>2 DEF Evidence, OthersStay
    <3> QED  BY <3>1, <3>2
  <2> QED  BY <2>3 DEF Evidence, PaidHasEvidence, Charges
<1>7. ReceiptsStored'
  BY <1>1, <1>2 DEF PayInv, ReceiptsStored, OthersStay
<1>8. ChargedOnce'
  BY <1>1 DEF PayInv, ChargedOnce, Issued
<1> QED  BY <1>4, <1>5, <1>6, <1>7, <1>8 DEF PayInv

\* A review takes the screen as it is.
LEMMA BeginAcceptInv ==
    ASSUME PayInv, NEW w \in Workers, NEW a \in Admins, BeginAccept(w, a), TypeOK'
    PROVE  PayInv'
<1>1. /\ UNCHANGED <<order, txn, objects, view, approved>>
      /\ view[a] # NoView /\ view[a].seen # NoReceipt
  BY DEF BeginAccept, gatewayVars, manualVars
<1>2. /\ job'[w] = [call |-> "review", admin |-> a, screen |-> view[a]]
      /\ \A v \in Workers \ {w} : job'[v] = job[v]
  BY DEF BeginAccept, PayInv, TypeOK
<1>3. job'[w].call = "review" /\ job'[w].screen = view[a]
  BY <1>2
<1>4. UploadSound'
  BY <1>1, <1>2, <1>3 DEF PayInv, UploadSound
<1>5. ScreensSound'
  BY <1>1, <1>2, <1>3 DEF PayInv, ScreensSound, Current
<1>6. PaidHasEvidence' /\ ReceiptsStored' /\ ChargedOnce'
  BY <1>1 DEF PayInv, PaidHasEvidence, ReceiptsStored, ChargedOnce, Issued
<1> QED  BY <1>4, <1>5, <1>6 DEF PayInv

\* An acceptance preserves the invariant: its screen carries the order's
\* version, so what was seen is what the order refers to.
LEMMA FinishAcceptInv ==
    ASSUME PayInv, NEW w \in Workers, FinishAccept(w), TypeOK'
    PROVE  PayInv'
<1> DEFINE o == job[w].screen.order
<1>1. /\ o \in Orders /\ OthersStay(o) /\ OrderFree(o)
      /\ Method[o] = "card_transfer" /\ job[w].screen.version = order[o].version
      /\ order'[o].payment = "paid" /\ order'[o].reviewer # NoAdmin
      /\ order'[o].receipt = order[o].receipt /\ order'[o].version = order[o].version
      /\ approved'[o] = job[w].screen.seen
      /\ \A q \in Orders \ {o} : approved'[q] = approved[q]
      /\ UNCHANGED <<txn, objects, active, view>> /\ Done(w)
  BY AcceptEffect DEF PayInv
<1>2. job[w].screen.seen = order[o].receipt /\ job[w].screen.seen \in objects
  BY <1>1 DEF PayInv, ScreensSound, Current, FinishAccept
<1> HIDE DEF o
<1>3. /\ \A v \in Workers : job'[v] = job[v] \/ job'[v].call = "idle"
      /\ \A q \in Orders : order'[q].receipt = order[q].receipt
                           /\ order'[q].version = order[q].version
  BY <1>1, DoneRests DEF PayInv, OthersStay
<1>4. UploadSound'
  <2>1. ASSUME NEW v \in Workers, job'[v].call = "upload"
        PROVE  job'[v] = job[v] /\ job[v].order \in Orders /\ job[v].order # o
               /\ order'[job[v].order] = order[job[v].order]
    BY <1>1, <1>3, <2>1, JobKind DEF PayInv, OrderFree, Upload, OthersStay
  <2> QED  BY <1>1, <1>3, <2>1 DEF PayInv, UploadSound
<1>5. ScreensSound'
  <2>1. \A q \in Orders : order[q].version <= order'[q].version
    BY <1>3 DEF PayInv, TypeOK, OrderRow
  <2>2. \A v \in Workers : job'[v] = job[v] \/ job'[v].call # "review"
    BY <1>3
  <2> QED  BY <1>1, <1>3, <2>1, <2>2, ScreensStay DEF PayInv
<1>6. PaidHasEvidence'
  <2>1. \A q \in Orders : Evidence(q)
    BY EvidenceParts DEF PayInv
  <2>2. Charges' = Charges
    BY <1>1 DEF Charges, Issued
  <2>3. ASSUME NEW q \in Orders
        PROVE  Evidence(q)'
    <3>1. CASE q = o
      BY <1>1, <1>2, <2>2, <3>1 DEF Evidence
    <3>2. CASE q # o
      BY <1>1, <2>1, <2>2, <3>2 DEF Evidence, OthersStay
    <3> QED  BY <3>1, <3>2
  <2> QED  BY <2>3 DEF Evidence, PaidHasEvidence, Charges
<1>7. ReceiptsStored'
  BY <1>1, <1>3 DEF PayInv, ReceiptsStored
<1>8. ChargedOnce'
  BY <1>1 DEF PayInv, ChargedOnce, Issued
<1> QED  BY <1>4, <1>5, <1>6, <1>7, <1>8 DEF PayInv

\* Every reachable state satisfies the invariant.
LEMMA PayInvariant == Spec => []PayInv
<1>1. Init => PayInv
  <2>1. ASSUME Init, TypeOK
        PROVE  PayInv
    <3>1. UploadSound /\ ScreensSound
      BY <2>1 DEF Init, UploadSound, ScreensSound, Idle
    <3>2. Issued = {}
      BY <2>1 DEF Init, Issued
    <3>3. PaidHasEvidence /\ ReceiptsStored /\ ChargedOnce
      BY <2>1, <3>2 DEF Init, PaidHasEvidence, ReceiptsStored, ChargedOnce
    <3> QED  BY <2>1, <3>1, <3>3 DEF PayInv
  <2> QED  BY <2>1, InitType
<1>2. TypeOK' /\ PayInv /\ [Next]_vars => PayInv'
  <2>1. ASSUME PayInv, [Next]_vars, TypeOK'
        PROVE  PayInv'
    <3>1. TypeOK
      BY <2>1 DEF PayInv
    <3> QED  BY <2>1, <3>1, StepShape, QuietInv, RestatusInv, LookInv, ChargeInv,
                BeginUploadInv, FinishUploadInv, BeginAcceptInv, FinishAcceptInv
  <2> QED  BY <2>1
<1> QED  BY <1>1, <1>2, TypeCorrect, PTL DEF Spec

\* However the gateways repeat their messages, and whatever is refunded, no
\* order is charged by two transactions.
THEOREM NeverChargedTwice == Spec => []ChargedOnce
BY PayInvariant, PTL DEF PayInv

\* An order counts as paid exactly when a gateway transaction completed for
\* it or an administrator accepted the very receipt it refers to.
THEOREM PaymentsHaveEvidence == Spec => []PaidHasEvidence
BY PayInvariant, PTL DEF PayInv

\* Whichever upload dies where, an order refers only to a stored file that
\* no other order refers to.
THEOREM ReceiptsAreStored == Spec => []ReceiptsStored
BY PayInvariant, PTL DEF PayInv

\* Money is only taken for an order that is still open, however callbacks
\* and reviews race its cancellation; a gateway payment confirms it.
THEOREM OnlyOpenOrdersAreCharged == Spec => ChargedWhileOpen
<1> DEFINE Opening == \A o \in Orders :
                order[o].payment # "paid" /\ order'[o].payment = "paid" =>
                    /\ ~IsTerminal(o)
                    /\ Method[o] # "card_transfer" => order'[o].status # "new"
<1>1. PayInv /\ [Next]_vars => Opening
  <2>1. ASSUME PayInv, [Next]_vars
        PROVE  Opening
    <3>1. CASE Quiet
      BY <3>1 DEF Quiet
    <3>2. ASSUME NEW o \in Orders, NEW s, Restatus(o, s)
          PROVE  Opening
      BY <2>1, <3>2, StatusEffect DEF PayInv, SameButStatus
    <3>3. ASSUME NEW a \in Admins, OpenReceipt(a) \/ \E o \in Orders : ReadOrder(a, o)
          PROVE  Opening
      BY <3>3 DEF OpenReceipt, ReadOrder
    <3>4. ASSUME NEW w \in Workers, NEW i \in Issued, NEW r \in Complete \cup Perform,
                 Pays(w, i, r)
          PROVE  Opening
      BY <2>1, <3>4, PaysEffect DEF PayInv, OthersStay
    <3>5. ASSUME NEW w \in Workers,
                 \/ \E o \in Orders, f \in Objects : BeginUpload(w, o, f)
                 \/ \E a \in Admins : BeginAccept(w, a)
          PROVE  Opening
      BY <3>5 DEF BeginUpload, BeginAccept
    <3>6. ASSUME NEW w \in Workers, FinishUpload(w)
          PROVE  Opening
      BY <2>1, <3>6, UploadEffect DEF PayInv, OthersStay
    <3>7. ASSUME NEW w \in Workers, FinishAccept(w)
          PROVE  Opening
      BY <2>1, <3>7, AcceptEffect DEF PayInv, OthersStay
    <3> HIDE DEF Opening
    <3> QED  BY <2>1, <3>1, <3>2, <3>3, <3>4, <3>5, <3>6, <3>7, StepShape DEF PayInv
  <2> QED  BY <2>1
<1> QED  BY <1>1, PayInvariant, PTL DEF Spec, ChargedWhileOpen

-----------------------------------------------------------------------------
(* The administrator's row lock. *)

\* While a review holds its administrator's row, nobody deactivates it.
ReviewersActive ==
    \A w \in Workers : job[w].call = "review" => job[w].admin \in active

\* No step but a deactivation takes an administrator's rights away, and a
\* review begins only with them.
LEMMA ActiveShape ==
    ASSUME TypeOK, [Next]_vars
    PROVE  \/ \E a \in Admins : Deactivate(a)
           \/ /\ UNCHANGED active
              /\ \A v \in Workers : job'[v].call = "review" =>
                    job'[v] = job[v] \/ job'[v].admin \in active
<1>1. ASSUME NEW w \in Workers, Done(w), UNCHANGED active
      PROVE  \A v \in Workers : job'[v].call = "review" => job'[v] = job[v]
  BY <1>1, DoneRests
<1>2. ASSUME NEW w \in Workers, NEW r \in Request, Receive(w, r)
      PROVE  /\ UNCHANGED active
             /\ \A v \in Workers : job'[v].call = "review" => job'[v] = job[v]
  BY <1>2 DEF Receive, manualVars, TypeOK
<1>3. ASSUME NEW w \in Workers, NEW o \in Orders, NEW f \in Objects, BeginUpload(w, o, f)
      PROVE  /\ UNCHANGED active
             /\ \A v \in Workers : job'[v].call = "review" => job'[v] = job[v]
  BY <1>3 DEF BeginUpload, TypeOK
<1>4. ASSUME NEW w \in Workers, NEW a \in Admins, BeginAccept(w, a)
      PROVE  /\ UNCHANGED active
             /\ \A v \in Workers : job'[v].call = "review" =>
                    job'[v] = job[v] \/ job'[v].admin \in active
  BY <1>4 DEF BeginAccept, manualVars, TypeOK
<1>5. ASSUME NEW w \in Workers,
             \/ ClickPrepare(w) \/ ClickComplete(w) \/ PaymeCreate(w) \/ PaymePerform(w)
             \/ PaymeCancel(w) \/ FinishUpload(w) \/ FinishAccept(w) \/ GiveUp(w)
      PROVE  Done(w) /\ UNCHANGED active
  BY <1>5 DEF ClickPrepare, ClickComplete, PaymeCreate, PaymePerform, PaymeCancel,
              FinishUpload, FinishAccept, GiveUp, manualVars
<1>6. ASSUME NEW w \in Workers, Work(w)
      PROVE  /\ UNCHANGED active
             /\ \A v \in Workers : job'[v].call = "review" =>
                    job'[v] = job[v] \/ job'[v].admin \in active
  BY <1>1, <1>2, <1>3, <1>4, <1>5, <1>6 DEF Work
<1>7. CASE Office
  BY <1>7 DEF Office, ReadOrder, OpenReceipt, AdvanceStatus, CancelOrder, manualVars
<1>8. CASE UNCHANGED vars
  BY <1>8 DEF vars
<1> QED  BY <1>6, <1>7, <1>8 DEF Next

\* The administrator recorded as reviewer may handle orders at the moment
\* the acceptance commits.
THEOREM ReviewersMayReview == Spec => ReviewerActive
<1> DEFINE Rightful == \A o \in Orders :
                order'[o].reviewer # order[o].reviewer => order'[o].reviewer \in active'
<1>1. Init => ReviewersActive
  BY DEF Init, ReviewersActive, Idle
<1>2. TypeOK /\ ReviewersActive /\ [Next]_vars => ReviewersActive'
  <2>1. ASSUME TypeOK, ReviewersActive, NEW a \in Admins, Deactivate(a)
        PROVE  ReviewersActive'
    BY <2>1 DEF Deactivate, AdminFree, ReviewersActive
  <2>2. ASSUME TypeOK, ReviewersActive, UNCHANGED active,
               \A v \in Workers : job'[v].call = "review" =>
                    job'[v] = job[v] \/ job'[v].admin \in active
        PROVE  ReviewersActive'
    BY <2>2 DEF ReviewersActive
  <2> QED  BY <2>1, <2>2, ActiveShape
<1>3. TypeOK /\ ReviewersActive /\ [Next]_vars => Rightful
  <2>1. ASSUME TypeOK, ReviewersActive, [Next]_vars
        PROVE  Rightful
    <3>1. ASSUME NEW w \in Workers, FinishAccept(w)
          PROVE  Rightful
      <4>1. job[w].admin \in active /\ UNCHANGED active
        BY <2>1, <3>1 DEF FinishAccept, ReviewersActive
      <4>2. \A o \in Orders : order'[o] = order[o] \/ order'[o].reviewer = job[w].admin
        BY <2>1, <3>1, AcceptEffect DEF OthersStay
      <4> QED  BY <4>1, <4>2
    <3>2. ASSUME NEW w \in Workers, NEW i \in Issued, NEW r \in Complete \cup Perform,
                 Pays(w, i, r)
          PROVE  Rightful
      BY <2>1, <3>2, PaysEffect DEF OthersStay
    <3>3. ASSUME NEW w \in Workers, FinishUpload(w)
          PROVE  Rightful
      BY <2>1, <3>3, UploadEffect DEF OthersStay
    <3>4. ASSUME NEW o \in Orders, NEW s, Restatus(o, s)
          PROVE  Rightful
      BY <2>1, <3>4, StatusEffect DEF SameButStatus
    <3>5. ASSUME UNCHANGED order
          PROVE  Rightful
      BY <3>5
    <3> HIDE DEF Rightful
    <3>6. CASE Quiet
      BY <3>5, <3>6 DEF Quiet
    <3>7. ASSUME NEW a \in Admins, OpenReceipt(a) \/ \E o \in Orders : ReadOrder(a, o)
          PROVE  Rightful
      BY <3>5, <3>7 DEF OpenReceipt, ReadOrder
    <3>8. ASSUME NEW w \in Workers,
                 \/ \E o \in Orders, f \in Objects : BeginUpload(w, o, f)
                 \/ \E a \in Admins : BeginAccept(w, a)
          PROVE  Rightful
      BY <3>5, <3>8 DEF BeginUpload, BeginAccept
    <3> QED  BY <2>1, <3>1, <3>2, <3>3, <3>4, <3>6, <3>7, <3>8, StepShape
  <2> QED  BY <2>1
<1> QED  BY <1>1, <1>2, <1>3, TypeCorrect, PTL DEF Spec, ReviewerActive

-----------------------------------------------------------------------------
(* What a step can do to the payment table. *)

\* A known transaction is answered as it is, a settled one only to the
\* request that settled it.
Repeats(r, i) ==
    /\ r \in Request /\ i \in Found(r) /\ Reply(r, i) /\ UNCHANGED txn
    /\ r.call \in {"complete", "perform"} => txn[i].closed = r

\* A transaction nobody knew is opened; Payme's, if none is in the air.
Opens(r) ==
    /\ r \in Prepare \cup Create /\ Found(r) = {} /\ Insert(r)
    /\ r.amount = Total[r.order]
    /\ r \in Create => \A j \in Latest(r.order, "payme") : txn[j].state # "pending"

\* The gateway reports a failure, or takes a transaction back.
Fails(r, i) ==
    /\ r \in Complete /\ r.failed /\ i \in Found(r) /\ Reply(r, i)
    /\ txn[i].state = "pending"
    /\ txn' = [txn EXCEPT ![i].state = "cancelled", ![i].closed = r]

Withdraws(r, i) ==
    /\ r \in Withdraw /\ i \in Found(r) /\ Reply(r, i)
    /\ txn' = [txn EXCEPT ![i].state = "cancelled"]

\* Every step leaves the table and the answers alone, or is one of these.
LEMMA TableShape ==
    ASSUME TypeOK, [Next]_vars
    PROVE  \/ UNCHANGED <<txn, replies>>
           \/ \E r \in Request : Opens(r)
           \/ \E w \in Workers, r \in Request, i \in Issued :
                \/ Repeats(r, i) \/ Fails(r, i) \/ Withdraws(r, i)
                \/ r \in Complete \cup Perform /\ Pays(w, i, r)
<1>1. ASSUME NEW w \in Workers, ClickPrepare(w)
      PROVE  Opens(job[w].request) \/ \E i \in Issued : Repeats(job[w].request, i)
  <2>1. job[w].request \in Prepare /\ job[w].request \in Request
        /\ job[w].request.call = "prepare" /\ job[w].request \notin Create
    BY <1>1, JobKind, RequestKind DEF ClickPrepare, Handling, Callback
  <2> QED  BY <1>1, <2>1 DEF ClickPrepare, Opens, Repeats, Found
<1>2. ASSUME NEW w \in Workers, PaymeCreate(w)
      PROVE  Opens(job[w].request) \/ \E i \in Issued : Repeats(job[w].request, i)
  <2>1. /\ job[w].request \in Create /\ job[w].request \in Request
        /\ job[w].request.call = "create"
        /\ job[w].known # NoTx => job[w].known \in Found(job[w].request)
    BY <1>2, JobKind, RequestKind DEF PaymeCreate, Handling, Callback, TypeOK
  <2> QED  BY <1>2, <2>1 DEF PaymeCreate, Opens, Repeats, Found
<1>3. ASSUME NEW w \in Workers, ClickComplete(w)
      PROVE  \E r \in Request, i \in Issued :
                \/ Repeats(r, i) \/ Fails(r, i)
                \/ r \in Complete \cup Perform /\ Pays(w, i, r)
  <2> DEFINE r == job[w].request
             i == job[w].known
  <2>1. /\ r \in Request /\ r \in Complete /\ i \in Issued /\ i \in Found(r)
        /\ txn[i].provider = "click"
    BY <1>3, KnownRow, RequestKind DEF ClickComplete, Handling, Found, Provider
  <2> HIDE DEF r, i
  <2>2. Repeats(r, i) \/ Fails(r, i) \/ Pays(w, i, r)
    BY <1>3, <2>1 DEF ClickComplete, Repeats, Fails, Pays, r, i
  <2> QED  BY <2>1, <2>2
<1>4. ASSUME NEW w \in Workers, PaymePerform(w)
      PROVE  \E r \in Request, i \in Issued :
                Repeats(r, i) \/ (r \in Complete \cup Perform /\ Pays(w, i, r))
  <2> DEFINE r == job[w].request
             i == job[w].known
  <2>1. /\ r \in Request /\ r \in Perform /\ r \notin Complete /\ i \in Issued
        /\ i \in Found(r) /\ txn[i].provider = "payme"
    BY <1>4, KnownRow, RequestKind DEF PaymePerform, Handling, Found, Provider
  <2> HIDE DEF r, i
  <2>2. Repeats(r, i) \/ Pays(w, i, r)
    BY <1>4, <2>1 DEF PaymePerform, Repeats, Pays, r, i
  <2> QED  BY <2>1, <2>2
<1>5. ASSUME NEW w \in Workers, PaymeCancel(w)
      PROVE  \E r \in Request, i \in Issued : Withdraws(r, i)
  <2>1. /\ job[w].request \in Withdraw /\ job[w].request \in Request
        /\ job[w].known \in Issued /\ job[w].known \in Found(job[w].request)
    BY <1>5, KnownRow, RequestKind DEF PaymeCancel, Handling
  <2> QED  BY <1>5, <2>1 DEF PaymeCancel, Withdraws
<1>6. ASSUME NEW w \in Workers,
             \/ \E r \in Request : Receive(w, r)
             \/ \E o \in Orders, f \in Objects : BeginUpload(w, o, f)
             \/ FinishUpload(w) \/ FinishAccept(w) \/ GiveUp(w)
             \/ \E a \in Admins : BeginAccept(w, a)
      PROVE  UNCHANGED <<txn, replies>>
  BY <1>6 DEF Receive, BeginUpload, FinishUpload, BeginAccept, FinishAccept, GiveUp,
              gatewayVars
<1>7. CASE Office
  BY <1>7 DEF Office, ReadOrder, OpenReceipt, Deactivate, AdvanceStatus, CancelOrder,
              gatewayVars
<1>8. CASE UNCHANGED vars
  BY <1>8 DEF vars
<1>9. ASSUME NEW w \in Workers, Work(w)
      PROVE  \/ UNCHANGED <<txn, replies>>
             \/ \E r \in Request : Opens(r)
             \/ \E r \in Request, i \in Issued :
                  \/ Repeats(r, i) \/ Fails(r, i) \/ Withdraws(r, i)
                  \/ r \in Complete \cup Perform /\ Pays(w, i, r)
  <2>1. ClickPrepare(w) \/ PaymeCreate(w) => job[w].request \in Request
    BY JobKind DEF ClickPrepare, PaymeCreate, Handling, Callback
  <2> QED  BY <1>1, <1>2, <1>3, <1>4, <1>5, <1>6, <1>9, <2>1 DEF Work
<1> QED  BY <1>7, <1>8, <1>9 DEF Next

\* A row changes at one place, and only its state and how it was settled.
LEMMA RowChange ==
    ASSUME TypeOK, NEW i \in Issued, NEW w \in Workers, NEW r \in Request,
           Fails(r, i) \/ Withdraws(r, i) \/ (r \in Complete \cup Perform /\ Pays(w, i, r))
    PROVE  /\ Issued' = Issued /\ \A j \in Issued \ {i} : txn'[j] = txn[j]
           /\ txn'[i].provider = txn[i].provider /\ txn'[i].trans = txn[i].trans
           /\ txn'[i].order = txn[i].order /\ txn'[i].amount = txn[i].amount
           /\ Fails(r, i) => /\ txn'[i].state = "cancelled" /\ txn'[i].closed = r
                             /\ txn'[i].once = txn[i].once
           /\ Withdraws(r, i) => txn'[i] = [txn[i] EXCEPT !.state = "cancelled"]
           /\ Pays(w, i, r) => /\ txn'[i].state = "paid" /\ txn'[i].closed = r
                               /\ txn'[i].once = TRUE
<1>1. txn[i] \in TxRow /\ i \in TxIds /\ txn[i] # NoRow
  BY RowKind DEF Issued
<1>2. \A j \in TxIds \ {i} : txn'[j] = txn[j]
  BY <1>1 DEF Fails, Withdraws, Pays, TypeOK
<1>3. /\ Fails(r, i) => txn'[i] = [txn[i] EXCEPT !.state = "cancelled", !.closed = r]
      /\ Withdraws(r, i) => txn'[i] = [txn[i] EXCEPT !.state = "cancelled"]
      /\ Pays(w, i, r) => txn'[i] = [txn[i] EXCEPT !.state = "paid", !.closed = r, !.once = TRUE]
  BY <1>1 DEF Fails, Withdraws, Pays, TypeOK
<1>4. /\ txn'[i].provider = txn[i].provider /\ txn'[i].trans = txn[i].trans
      /\ txn'[i].order = txn[i].order /\ txn'[i].amount = txn[i].amount
      /\ txn'[i].state \in {"cancelled", "paid"}
      /\ Fails(r, i) => /\ txn'[i].state = "cancelled" /\ txn'[i].closed = r
                        /\ txn'[i].once = txn[i].once
      /\ Pays(w, i, r) => /\ txn'[i].state = "paid" /\ txn'[i].closed = r
                          /\ txn'[i].once = TRUE
  BY <1>1, <1>3 DEF TxRow
<1>5. txn'[i] # NoRow
  BY <1>4 DEF NoRow
<1>6. Issued' = Issued
  BY <1>1, <1>2, <1>5 DEF Issued
<1> QED  BY <1>2, <1>3, <1>4, <1>6 DEF Issued

\* A new transaction takes the next number.
LEMMA RowOpened ==
    ASSUME TypeOK, NEW r \in Request, Opens(r), NEW n, n = nextTx
    PROVE  /\ n \notin Issued /\ Issued' = Issued \cup {n}
           /\ \A j \in Issued : txn'[j] = txn[j] /\ j < n /\ j \in Nat
           /\ n \in Nat
           /\ txn'[n].state = "pending" /\ txn'[n].once = FALSE
           /\ txn'[n].closed = NoRequest /\ txn'[n].provider = Provider(r)
           /\ txn'[n].trans = r.trans /\ txn'[n].order = r.order
           /\ txn'[n].amount = r.amount
           /\ replies' = replies \cup {[request |-> r, tx |-> n]}
<1>1. n \in TxIds /\ n \in Nat /\ txn[n] = NoRow
  BY Shop DEF Opens, Insert, TypeOK, TxIds
<1>2. /\ \A j \in TxIds \ {n} : txn'[j] = txn[j]
      /\ txn'[n] = [state |-> "pending", provider |-> Provider(r), trans |-> r.trans,
                    order |-> r.order, amount |-> r.amount, opened |-> r,
                    closed |-> NoRequest, once |-> FALSE]
      /\ replies' = replies \cup {[request |-> r, tx |-> n]}
  BY <1>1 DEF Opens, Insert, Reply, TypeOK
<1>3. txn'[n].state = "pending" /\ txn'[n] # NoRow
  BY <1>2 DEF NoRow
<1>4. \A j \in Issued : j < n /\ j \in Nat
  BY DEF Issued, TypeOK, TxIds
<1>5. /\ txn'[n].once = FALSE /\ txn'[n].closed = NoRequest
      /\ txn'[n].provider = Provider(r) /\ txn'[n].trans = r.trans
      /\ txn'[n].order = r.order /\ txn'[n].amount = r.amount
  BY <1>2
<1>6. n \notin Issued /\ \A j \in Issued : txn'[j] = txn[j]
  BY <1>1, <1>2 DEF Issued
<1>7. Issued' = Issued \cup {n}
  BY <1>1, <1>2, <1>3 DEF Issued
<1> QED  BY <1>1, <1>2, <1>3, <1>4, <1>5, <1>6, <1>7

\* What an answer said about its transaction.
Said(m) ==
    /\ m.request \in Request /\ m.tx \in Issued
    /\ txn[m.tx].trans = m.request.trans /\ txn[m.tx].provider = Provider(m.request)
    /\ m.request.call = "perform" \/ (m.request.call = "complete" /\ ~m.request.failed)
        => txn[m.tx].once
    /\ m.request.call = "complete" /\ m.request.failed
        => txn[m.tx].state = "cancelled" /\ ~txn[m.tx].once

\* A row charges its order's total, and what settled it says how.
Settled(i) ==
    /\ txn[i].amount = Total[txn[i].order]
    /\ txn[i].state = "pending" => ~txn[i].once /\ txn[i].closed = NoRequest
    /\ txn[i].closed \in Perform => txn[i].once
    /\ txn[i].closed \in Complete =>
        IF txn[i].closed.failed THEN txn[i].state = "cancelled" /\ ~txn[i].once
        ELSE txn[i].once

\* The gateway's id finds one row, and what is pending with Payme is the
\* newest transaction of its order.
UniqueIds ==
    \A i, j \in Issued :
        txn[i].provider = txn[j].provider /\ txn[i].trans = txn[j].trans => i = j

NewestPending ==
    \A i, j \in Issued :
        /\ txn[i].provider = "payme" /\ txn[j].provider = "payme"
        /\ txn[i].order = txn[j].order /\ txn[i].state = "pending"
        => j <= i

TableInv ==
    /\ \A i \in Issued : Settled(i)
    /\ UniqueIds /\ NewestPending
    /\ \A m \in replies : Said(m)

\* Opening a transaction preserves the invariant.
LEMMA OpensInv ==
    ASSUME TypeOK, TableInv, NEW r \in Request, Opens(r)
    PROVE  TableInv'
<1>0. PICK n : n = nextTx
  OBVIOUS
<1>1. /\ n \notin Issued /\ Issued' = Issued \cup {n}
      /\ \A j \in Issued : txn'[j] = txn[j] /\ j < n /\ j \in Nat
      /\ n \in Nat
      /\ txn'[n].state = "pending" /\ txn'[n].once = FALSE
      /\ txn'[n].closed = NoRequest /\ txn'[n].provider = Provider(r)
      /\ txn'[n].trans = r.trans /\ txn'[n].order = r.order
      /\ txn'[n].amount = r.amount
      /\ replies' = replies \cup {[request |-> r, tx |-> n]}
  BY <1>0, RowOpened
<1>2. r \in Prepare \cup Create /\ r.amount = Total[r.order] /\ Found(r) = {}
  BY DEF Opens
<1>3. r.call # "complete" /\ r.call # "perform"
  BY <1>2 DEF Prepare, Create
<1>4. NoRequest \notin Complete /\ NoRequest \notin Perform
  BY DEF NoRequest, Complete, Perform
<1>5. \A i \in Issued' : Settled(i)'
  <2>1. Settled(n)'
    BY <1>1, <1>2, <1>4 DEF Settled
  <2>2. ASSUME NEW i \in Issued
        PROVE  Settled(i)'
    BY <1>1 DEF TableInv, Settled
  <2> QED  BY <1>1, <2>1, <2>2 DEF Settled
<1>6. UniqueIds'
  <2>1. \A i \in Issued : ~(txn[i].provider = Provider(r) /\ txn[i].trans = r.trans)
    BY <1>2 DEF Found
  <2> QED  BY <1>1, <2>1 DEF TableInv, UniqueIds
<1>7. NewestPending'
  <2>1. ASSUME NEW i \in Issued, txn[i].provider = "payme", Provider(r) = "payme",
               txn[i].order = r.order
        PROVE  txn[i].state # "pending"
    <3>1. r \in Create
      BY <1>2, <2>1 DEF Prepare, Provider
    <3>2. i \in Latest(r.order, "payme") \/ txn[i].state # "pending"
      BY <2>1 DEF Latest, Of, TableInv, NewestPending
    <3> QED  BY <3>1, <3>2 DEF Opens
  <2>2. ASSUME NEW i \in Issued', NEW j \in Issued',
               txn'[i].provider = "payme", txn'[j].provider = "payme",
               txn'[i].order = txn'[j].order, txn'[i].state = "pending"
        PROVE  j <= i
    <3>1. CASE i = n
      BY <1>1, <3>1
    <3>2. CASE i # n /\ j # n
      BY <1>1, <2>2, <3>2 DEF TableInv, NewestPending
    <3>3. CASE i # n /\ j = n
      BY <1>1, <2>1, <2>2, <3>3
    <3> QED  BY <3>1, <3>2, <3>3
  <2> QED  BY <2>2 DEF NewestPending
<1>8. \A m \in replies' : Said(m)'
  <2>1. ASSUME NEW m \in replies
        PROVE  Said(m)'
    BY <1>1 DEF TableInv, Said, Provider
  <2>2. ASSUME NEW m, m = [request |-> r, tx |-> n]
        PROVE  Said(m)'
    <3>1. m.request = r /\ m.tx = n
      BY <2>2
    <3> QED  BY <1>1, <1>3, <3>1 DEF Said, Provider
  <2> QED  BY <1>1, <2>1, <2>2
<1> QED  BY <1>5, <1>6, <1>7, <1>8 DEF TableInv

\* Settling a transaction or taking it back preserves the invariant.
LEMMA SettlesInv ==
    ASSUME TypeOK, TableInv, NEW i \in Issued, NEW w \in Workers, NEW r \in Request,
           Fails(r, i) \/ Withdraws(r, i) \/ (r \in Complete \cup Perform /\ Pays(w, i, r))
    PROVE  TableInv'
<1>1. /\ Issued' = Issued /\ \A j \in Issued \ {i} : txn'[j] = txn[j]
      /\ txn'[i].provider = txn[i].provider /\ txn'[i].trans = txn[i].trans
      /\ txn'[i].order = txn[i].order /\ txn'[i].amount = txn[i].amount
      /\ Fails(r, i) => /\ txn'[i].state = "cancelled" /\ txn'[i].closed = r
                        /\ txn'[i].once = txn[i].once
      /\ Withdraws(r, i) => txn'[i] = [txn[i] EXCEPT !.state = "cancelled"]
      /\ Pays(w, i, r) => /\ txn'[i].state = "paid" /\ txn'[i].closed = r
                          /\ txn'[i].once = TRUE
  BY RowChange
<1>2. txn[i] \in TxRow
  BY RowKind
<1>3. Withdraws(r, i) => /\ txn'[i].state = "cancelled" /\ txn'[i].closed = txn[i].closed
                         /\ txn'[i].once = txn[i].once
  BY <1>1, <1>2 DEF TxRow
<1>4. replies' = replies \cup {[request |-> r, tx |-> i]} /\ i \in Found(r)
  BY DEF Fails, Withdraws, Pays, Reply
<1>5. Fails(r, i) \/ Pays(w, i, r) => txn[i].state = "pending"
  BY DEF Fails, Pays
<1>6. txn'[i].state # "pending" /\ (txn[i].state = "cancelled" => txn'[i].state = "cancelled")
  BY <1>1, <1>3, <1>5
<1>7. Settled(i)
  BY DEF TableInv
<1>8. Settled(i)'
  <2>1. CASE Fails(r, i)
    BY <1>1, <1>5, <1>7, <2>1 DEF Settled, Fails, Complete, Perform
  <2>2. CASE Withdraws(r, i)
    BY <1>1, <1>3, <1>7, <2>2 DEF Settled
  <2>3. CASE Pays(w, i, r)
    BY <1>1, <1>7, <2>3 DEF Settled, Pays
  <2> QED  BY <2>1, <2>2, <2>3
<1>9. \A j \in Issued' : Settled(j)'
  BY <1>1, <1>8 DEF TableInv, Settled
<1>10. UniqueIds'
  BY <1>1 DEF TableInv, UniqueIds
<1>11. NewestPending'
  BY <1>1, <1>6 DEF TableInv, NewestPending
<1>12. \A m \in replies' : Said(m)'
  <2>1. ASSUME NEW m \in replies
        PROVE  Said(m)'
    <3>1. Said(m)
      BY DEF TableInv
    <3>2. CASE m.tx # i
      BY <1>1, <3>1, <3>2 DEF Said, Provider
    <3>3. CASE m.tx = i
      <4>1. txn[i].once => txn'[i].once
        BY <1>1, <1>3
      <4>2. txn[i].state = "cancelled" => txn'[i].once = txn[i].once
        BY <1>1, <1>3, <1>5
      <4> QED  BY <1>1, <1>6, <3>1, <3>3, <4>1, <4>2 DEF Said, Provider
    <3> QED  BY <3>2, <3>3
  <2>2. ASSUME NEW m, m = [request |-> r, tx |-> i]
        PROVE  Said(m)'
    <3>1. m.request = r /\ m.tx = i
      BY <2>2
    <3>2. txn[i].provider = Provider(r) /\ txn[i].trans = r.trans
      BY <1>4 DEF Found
    <3>3. CASE Fails(r, i)
      BY <1>1, <1>5, <1>7, <3>1, <3>2, <3>3 DEF Said, Fails, Settled, Complete, Provider
    <3>4. CASE Withdraws(r, i)
      BY <1>1, <3>1, <3>2, <3>4 DEF Said, Withdraws, Withdraw, Provider
    <3>5. CASE r \in Complete \cup Perform /\ Pays(w, i, r)
      <4>1. ~(r.call = "complete" /\ r.failed)
        BY <3>5, RequestKind DEF Pays
      <4> QED  BY <1>1, <3>1, <3>2, <3>5, <4>1 DEF Said, Provider
    <3> QED  BY <3>3, <3>4, <3>5
  <2> QED  BY <1>4, <2>1, <2>2
<1> QED  BY <1>9, <1>10, <1>11, <1>12 DEF TableInv

\* Answering again preserves the invariant.
LEMMA RepeatsInv ==
    ASSUME TypeOK, TableInv, NEW i \in Issued, NEW r \in Request, Repeats(r, i)
    PROVE  TableInv'
<1>1. UNCHANGED txn /\ Issued' = Issued
      /\ replies' = replies \cup {[request |-> r, tx |-> i]} /\ i \in Found(r)
  BY DEF Repeats, Reply, Issued
<1>2. (\A j \in Issued' : Settled(j)') /\ UniqueIds' /\ NewestPending'
  BY <1>1 DEF TableInv, Settled, UniqueIds, NewestPending
<1>3. \A m \in replies : Said(m)'
  BY <1>1 DEF TableInv, Said, Provider
<1>4. ASSUME NEW m, m = [request |-> r, tx |-> i]
      PROVE  Said(m)'
  <2>1. m.request = r /\ m.tx = i
    BY <1>4
  <2>2. Settled(i) /\ txn[i].provider = Provider(r) /\ txn[i].trans = r.trans
    BY DEF TableInv, Repeats, Found
  <2>3. r.call = "perform" => txn[i].once
    BY <2>2, RequestKind DEF Repeats, Settled
  <2>4. r.call = "complete" => IF r.failed THEN txn[i].state = "cancelled" /\ ~txn[i].once
                               ELSE txn[i].once
    BY <2>2, RequestKind DEF Repeats, Settled
  <2> QED  BY <1>1, <2>1, <2>2, <2>3, <2>4 DEF Said, Provider
<1> QED  BY <1>1, <1>2, <1>3, <1>4 DEF TableInv

\* Every reachable state satisfies the table's invariant.
LEMMA TableInvariant == Spec => []TableInv
<1>1. Init => TableInv
  <2>1. ASSUME Init
        PROVE  TableInv
    <3>1. Issued = {} /\ replies = {}
      BY <2>1 DEF Init, Issued
    <3> QED  BY <3>1 DEF TableInv, UniqueIds, NewestPending
  <2> QED  BY <2>1
<1>2. TypeOK /\ TableInv /\ [Next]_vars => TableInv'
  <2>1. ASSUME TypeOK, TableInv, UNCHANGED <<txn, replies>>
        PROVE  TableInv'
    BY <2>1 DEF TableInv, Issued, Settled, UniqueIds, NewestPending, Said, Provider
  <2> QED  BY <2>1, TableShape, OpensInv, SettlesInv, RepeatsInv
<1> QED  BY <1>1, <1>2, TypeCorrect, PTL DEF Spec

\* What a gateway was told stays true, and one request is always answered
\* with one transaction.
THEOREM AnswersStand == Spec => []ConfirmedStands
<1>1. PayInv /\ TableInv => ConfirmedStands
  <2>1. ASSUME PayInv, TableInv
        PROVE  ConfirmedStands
    <3>1. ASSUME NEW m \in replies
          PROVE  /\ Said(m) /\ txn[m.tx].order \in Orders
                 /\ txn[m.tx].amount = Total[txn[m.tx].order]
      BY <2>1, <3>1, RowKind DEF PayInv, TableInv, Said, Settled
    <3>2. ASSUME NEW m \in replies, txn[m.tx].once
          PROVE  order[txn[m.tx].order].payment = "paid"
      BY <2>1, <3>1, <3>2 DEF PayInv, PaidHasEvidence, Said
    <3>3. ASSUME NEW m \in replies, NEW n \in replies, n.request = m.request
          PROVE  n.tx = m.tx
      BY <2>1, <3>1, <3>3 DEF TableInv, UniqueIds, Said
    <3>4. ASSUME NEW m \in replies
          PROVE  LET t == txn[m.tx] IN
                 /\ m.tx \in Issued /\ t.trans = m.request.trans /\ t.amount = Total[t.order]
                 /\ m.request.call = "perform" \/ (m.request.call = "complete" /\ ~m.request.failed)
                     => t.once /\ order[t.order].payment = "paid"
                 /\ m.request.call = "complete" /\ m.request.failed
                     => t.state = "cancelled" /\ ~t.once
      BY <3>1, <3>2, <3>4 DEF Said
    <3> QED  BY <3>3, <3>4 DEF ConfirmedStands
  <2> QED  BY <2>1
<1> QED  BY <1>1, PayInvariant, TableInvariant, PTL

\* Payme never has two transactions of one order in the air.
THEOREM PaymeOnePending == Spec => []OnePending
<1>1. TypeOK /\ TableInv => OnePending
  <2>1. \A i \in Issued : i \in Nat
    BY DEF Issued, TxIds
  <2> QED  BY <2>1 DEF TableInv, NewestPending, OnePending
<1> QED  BY <1>1, TypeCorrect, TableInvariant, PTL

\* A settled transaction stays settled, but for Payme's refund, and an
\* acceptance is never overwritten.
THEOREM SettlementsStand == Spec => SettledStands
<1> DEFINE RowsKept == \A i \in Issued :
              /\ txn[i].state = "cancelled" => txn'[i] = txn[i]
              /\ txn[i].state = "paid" /\ txn'[i] # txn[i] =>
                  txn[i].provider = "payme" /\ txn'[i] = [txn[i] EXCEPT !.state = "cancelled"]
           AcceptedKept == \A o \in Orders : order[o].reviewer # NoAdmin =>
              order'[o] = [order[o] EXCEPT !.status = order'[o].status]
<1>1. TypeOK /\ [Next]_vars => RowsKept
  <2>1. ASSUME NEW r \in Request, Opens(r), TypeOK
        PROVE  RowsKept
    BY <2>1, RowOpened
  <2>2. ASSUME NEW i \in Issued, NEW w \in Workers, NEW r \in Request, TypeOK,
               \/ Fails(r, i) \/ Withdraws(r, i)
               \/ r \in Complete \cup Perform /\ Pays(w, i, r)
        PROVE  RowsKept
    <3>1. \A j \in Issued \ {i} : txn'[j] = txn[j]
      BY <2>2, RowChange
    <3>2. txn[i].state = "pending"
          \/ /\ txn'[i] = [txn[i] EXCEPT !.state = "cancelled"]
             /\ txn[i].provider = "payme"
      BY <2>2, RowChange DEF Fails, Pays, Withdraws, Found, Provider, Withdraw
    <3>3. txn[i].state = "cancelled" => [txn[i] EXCEPT !.state = "cancelled"] = txn[i]
      BY <2>2, RowKind DEF TxRow
    <3> QED  BY <3>1, <3>2, <3>3
  <2>3. ASSUME UNCHANGED txn
        PROVE  RowsKept
    BY <2>3
  <2> HIDE DEF RowsKept
  <2> QED  BY <2>1, <2>2, <2>3, TableShape DEF Repeats
<1>2. PayInv /\ [Next]_vars => AcceptedKept
  <2>1. ASSUME PayInv, [Next]_vars
        PROVE  AcceptedKept
    <3>1. \A o \in Orders : order[o] \in OrderRow
                            /\ (order[o].reviewer # NoAdmin => order[o].payment = "paid")
      BY <2>1 DEF PayInv, TypeOK, PaidHasEvidence
    <3>2. ASSUME UNCHANGED order
          PROVE  AcceptedKept
      BY <3>1, <3>2 DEF OrderRow
    <3>3. ASSUME NEW p \in Orders, OthersStay(p), order[p].payment # "paid"
          PROVE  AcceptedKept
      BY <3>1, <3>3 DEF OthersStay, OrderRow
    <3>4. ASSUME NEW p \in Orders, NEW s, Restatus(p, s)
          PROVE  AcceptedKept
      <4>1. OthersStay(p) /\ order'[p] = [order[p] EXCEPT !.status = s]
        BY <2>1, <3>4 DEF Restatus, OthersStay, PayInv, TypeOK
      <4> QED  BY <3>1, <4>1 DEF OthersStay, OrderRow
    <3> HIDE DEF AcceptedKept
    <3>5. ASSUME NEW w \in Workers, NEW i \in Issued, NEW r \in Complete \cup Perform,
                 Pays(w, i, r)
          PROVE  AcceptedKept
      BY <2>1, <3>3, <3>5, PaysEffect DEF PayInv
    <3>6. ASSUME NEW w \in Workers, FinishUpload(w)
          PROVE  AcceptedKept
      <4>1. order[job[w].order].payment # "paid"
        BY <2>1, <3>6 DEF PayInv, UploadSound, FinishUpload
      <4> QED  BY <2>1, <3>3, <3>6, <4>1, UploadEffect DEF PayInv
    <3>7. ASSUME NEW w \in Workers, FinishAccept(w)
          PROVE  AcceptedKept
      BY <2>1, <3>3, <3>7, AcceptEffect DEF PayInv
    <3>8. CASE Quiet
      BY <3>2, <3>8 DEF Quiet
    <3>9. ASSUME NEW a \in Admins, OpenReceipt(a) \/ \E o \in Orders : ReadOrder(a, o)
          PROVE  AcceptedKept
      BY <3>2, <3>9 DEF OpenReceipt, ReadOrder
    <3>10. ASSUME NEW w \in Workers,
                  \/ \E o \in Orders, f \in Objects : BeginUpload(w, o, f)
                  \/ \E a \in Admins : BeginAccept(w, a)
           PROVE  AcceptedKept
      BY <3>2, <3>10 DEF BeginUpload, BeginAccept
    <3> QED  BY <2>1, <3>4, <3>5, <3>6, <3>7, <3>8, <3>9, <3>10, StepShape DEF PayInv
  <2> QED  BY <2>1
<1> QED  BY <1>1, <1>2, TypeCorrect, PayInvariant, PTL DEF Spec, SettledStands

=============================================================================
