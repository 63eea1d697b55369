--------------------------- MODULE BroadcastProofs --------------------------
(***************************************************************************)
(* Proofs about Broadcast, for any number of broadcasts, customers, keys,  *)
(* workers and faults: only the audience that was confirmed is written to, *)
(* once per lease; a settled recipient stays settled; a broadcast that was *)
(* stopped sends at most one message more per worker; and the progress it  *)
(* shows is borne out.  SendInv is the first invariant: leases are told    *)
(* apart by their tokens, a lease that may still send has not sent, and an *)
(* outcome is recorded by the transaction that has the row.  StopInv and   *)
(* HonestInv rest on it: the one counts the workers that may still send,   *)
(* the other says of what a transaction counted, before it commits, that   *)
(* the rows as it leaves them bear it out.                                 *)
(***************************************************************************)
EXTENDS Broadcast, FiniteSetTheorems, TLAPS

Outcomes == {"sent", "failed", "pending"}
Idle == [todo: SUBSET Claims, phase: {"waiting"}]
Busy == [todo: SUBSET Claims, phase: {"checked", "answered"}, claim: Claims,
         outcome: Outcomes, bounced: BOOLEAN]
Counted == [todo: SUBSET Claims, phase: {"counted"}, claim: Claims,
            outcome: Outcomes, bounced: BOOLEAN, sent: Nat, failed: Nat,
            was: [sent: Nat, failed: Nat], verdict: {"same", "completed", "failed"}]

\* The shape of what rows, leases and messages are.
JobShape == job \in [Broadcasts -> Jobs]
RowShape == recipient \in [Broadcasts -> [Users -> Row \cup {NoRow}]]
WorkerShape == worker \in [Workers -> Idle \cup Busy \cup Counted]
SendShape == accepted \in [Broadcasts -> [Users -> Nat]] /\ overrun \in [Broadcasts -> Nat]
PeopleShape == /\ member \in SUBSET Users /\ blocked \in SUBSET Users
               /\ staff \in [allowed: BOOLEAN, epoch: Nat] /\ faults \in 0 .. MaxFaults

Shape == JobShape /\ RowShape /\ WorkerShape /\ SendShape /\ PeopleShape

\* There are rows for confirmed customers of a launched broadcast only, and
\* the preview of one that was launched does not change.
RowsAgreed ==
    /\ \A b \in Broadcasts : job[b].key # NoKey => job[b].status \notin {"none", "draft"}
    /\ \A b \in Broadcasts, u \in Users : recipient[b][u] # NoRow =>
        u \in job[b].preview /\ job[b].key # NoKey

\* Leases that may still send.
ToSend(w) == worker[w].todo \cup (IF worker[w].phase = "checked" THEN {worker[w].claim} ELSE {})

\* A lease is of a row, and of one worker.
LeasesApart ==
    /\ \A w \in Workers : \A c \in InHand(w) :
        recipient[c.job][c.user] # NoRow /\ c.token <= recipient[c.job][c.user].attempts
    /\ \A w, v \in Workers : \A c \in InHand(w) : c \in InHand(v) => w = v
    /\ \A w \in Workers : worker[w].phase # "waiting" => worker[w].claim \notin worker[w].todo

\* Tokens given out that can send no more; each has sent once at most.
Spent(b, u) ==
    {n \in 1 .. recipient[b][u].attempts :
        \A w \in Workers : [job |-> b, user |-> u, token |-> n] \notin ToSend(w)}
SendsCounted ==
    \A b \in Broadcasts, u \in Users : accepted[b][u] <= Cardinality(Spent(b, u))

\* An outcome "sent" comes from Telegram, and is recorded on the row it is of.
OutcomesTrue ==
    /\ \A b \in Broadcasts, u \in Users : recipient[b][u].status = "sent" => accepted[b][u] > 0
    /\ \A w \in Workers : worker[w].phase # "waiting" /\ worker[w].outcome = "sent" =>
        accepted[worker[w].claim.job][worker[w].claim.user] > 0
    /\ \A w \in Workers : worker[w].phase = "counted" => Holds(worker[w].claim)

SendInv == Shape /\ RowsAgreed /\ LeasesApart /\ SendsCounted /\ OutcomesTrue

-----------------------------------------------------------------------------
(* What the shape says of one row and one worker. *)

LEMMA RowOf ==
    ASSUME RowShape, NEW b \in Broadcasts, NEW u \in Users
    PROVE  recipient[b][u].attempts \in Nat
           /\ (recipient[b][u] # NoRow => recipient[b][u] \in Row)
BY DEF RowShape, Row, NoRow

LEMMA WorkerOf ==
    ASSUME WorkerShape, NEW w \in Workers
    PROVE  /\ worker[w].phase \in {"waiting", "checked", "answered", "counted"}
           /\ worker[w].todo \subseteq Claims
           /\ worker[w].phase # "waiting" =>
                worker[w].claim \in Claims /\ worker[w].outcome \in Outcomes
                /\ worker[w].bounced \in BOOLEAN
           /\ worker[w].phase = "waiting" => worker[w] \in Idle
           /\ worker[w].phase \in {"checked", "answered"} => worker[w] \in Busy
           /\ worker[w].phase = "counted" => worker[w] \in Counted
           /\ InHand(w) \subseteq Claims /\ ToSend(w) \subseteq InHand(w)
BY DEF WorkerShape, Idle, Busy, Counted, InHand, ToSend

LEMMA UpTo ==
    ASSUME NEW n \in Nat
    PROVE  IsFiniteSet(1 .. n) /\ Cardinality(1 .. n) = n
<1>1. IsFiniteSet(1 .. n) /\ Cardinality(1 .. n) = IF 1 > n THEN 0 ELSE n - 1 + 1
  BY FS_Interval
<1> QED  BY <1>1

LEMMA SpentFinite ==
    ASSUME RowShape, NEW b \in Broadcasts, NEW u \in Users
    PROVE  /\ IsFiniteSet(Spent(b, u)) /\ Cardinality(Spent(b, u)) \in Nat
           /\ Cardinality(Spent(b, u)) <= recipient[b][u].attempts
<1>1. recipient[b][u].attempts \in Nat
  BY RowOf
<1>2. /\ IsFiniteSet(1 .. recipient[b][u].attempts)
      /\ Cardinality(1 .. recipient[b][u].attempts) = recipient[b][u].attempts
  BY <1>1, UpTo
<1>3. Spent(b, u) \subseteq 1 .. recipient[b][u].attempts
  BY DEF Spent
<1> QED  BY <1>1, <1>2, <1>3, FS_Subset, FS_CardinalityType

LEMMA SendStart == Init => SendInv
<1> SUFFICES ASSUME Init PROVE SendInv
  OBVIOUS
<1>1. /\ \A b \in Broadcasts : job[b].key = NoKey
      /\ \A b \in Broadcasts, u \in Users : recipient[b][u] = NoRow /\ accepted[b][u] = 0
      /\ \A w \in Workers : worker[w] = Waiting
  BY DEF Init
<1>2. JobShape
  BY DEF Init, JobShape, Jobs
<1>3. RowShape /\ WorkerShape /\ SendShape /\ PeopleShape
  <2>1. RowShape /\ SendShape
    BY DEF Init, RowShape, SendShape
  <2>2. WorkerShape
    BY DEF Init, WorkerShape, Waiting, Idle
  <2>3. PeopleShape
    BY Sizes DEF Init, PeopleShape
  <2> QED  BY <2>1, <2>2, <2>3
<1>4. RowsAgreed
  BY <1>1 DEF RowsAgreed
<1>5. \A w \in Workers : worker[w].phase = "waiting" /\ InHand(w) = {}
  BY <1>1 DEF InHand, Waiting
<1>6. LeasesApart /\ OutcomesTrue
  BY <1>1, <1>5 DEF LeasesApart, OutcomesTrue, NoRow
<1>7. SendsCounted
  BY <1>1, <1>3, SpentFinite DEF SendsCounted
<1> QED  BY <1>2, <1>3, <1>4, <1>6, <1>7 DEF SendInv, Shape

-----------------------------------------------------------------------------
(* What steps have in common. *)

\* No row comes or goes, and no lease is given out.
RowsKept ==
    \A b \in Broadcasts, u \in Users :
        /\ recipient'[b][u].attempts = recipient[b][u].attempts
        /\ recipient'[b][u] = NoRow <=> recipient[b][u] = NoRow

LEMMA AgreementKept ==
    ASSUME SendInv, RowsKept,
           \A b \in Broadcasts : /\ job'[b].preview = job[b].preview /\ job'[b].key = job[b].key
                                 /\ job'[b].status \in {"none", "draft"} =>
                                      job[b].status \in {"none", "draft"}
    PROVE  RowsAgreed'
BY DEF SendInv, RowsAgreed, RowsKept

\* Messages that may still be sent become fewer.
LEMMA MoreSpent ==
    ASSUME RowShape', NEW b \in Broadcasts, NEW u \in Users, Spent(b, u) \subseteq Spent(b, u)',
           accepted'[b][u] = accepted[b][u], SendInv
    PROVE  accepted'[b][u] <= Cardinality(Spent(b, u)')
<1>1. IsFiniteSet(Spent(b, u)')
  <2>1. recipient'[b][u].attempts \in Nat
    BY DEF RowShape, Row, NoRow
  <2>2. IsFiniteSet(1 .. recipient'[b][u].attempts)
    BY <2>1, FS_Interval
  <2> QED  BY <2>2, FS_Subset DEF Spent
<1>2. Cardinality(Spent(b, u)) <= Cardinality(Spent(b, u)')
  BY <1>1, FS_Subset
<1>3. /\ accepted[b][u] \in Nat /\ accepted[b][u] <= Cardinality(Spent(b, u))
      /\ Cardinality(Spent(b, u)) \in Nat
  BY SpentFinite DEF SendInv, SendsCounted, Shape, SendShape
<1>4. Cardinality(Spent(b, u)') \in Nat
  BY <1>1, FS_CardinalityType
<1> QED  BY <1>2, <1>3, <1>4

\* A worker goes on with what it has in hand, or lets some of it go.
LEMMA GoingOn ==
    ASSUME SendInv, NEW w \in Workers, NEW record \in Idle \cup Busy \cup Counted,
           worker' = [worker EXCEPT ![w] = record],
           record.todo \subseteq worker[w].todo,
           record.phase # "waiting" => record.claim \in InHand(w) /\ record.claim \notin record.todo,
           record.phase = "checked" => record.claim \in ToSend(w),
           RowShape', RowsKept
    PROVE  /\ WorkerShape' /\ LeasesApart'
           /\ worker'[w] = record /\ \A v \in Workers \ {w} : worker'[v] = worker[v]
           /\ \A b \in Broadcasts, u \in Users : Spent(b, u) \subseteq Spent(b, u)'
           /\ accepted' = accepted => SendsCounted'
<1>1. /\ WorkerShape' /\ worker'[w] = record /\ \A v \in Workers \ {w} : worker'[v] = worker[v]
  BY DEF SendInv, Shape, WorkerShape
<1>2. \A v \in Workers : InHand(v)' \subseteq InHand(v) /\ ToSend(v)' \subseteq ToSend(v)
  <2>1. ASSUME NEW v \in Workers
        PROVE  InHand(v)' \subseteq InHand(v) /\ ToSend(v)' \subseteq ToSend(v)
    <3>1. CASE v = w
      BY <3>1, <1>1 DEF InHand, ToSend
    <3>2. CASE v # w
      BY <3>2, <1>1 DEF InHand, ToSend
    <3> QED  BY <3>1, <3>2
  <2> QED  BY <2>1
<1>3. \A v \in Workers : InHand(v) \subseteq Claims
  BY WorkerOf DEF SendInv, Shape
<1>4. LeasesApart'
  <2>1. ASSUME NEW v \in Workers, NEW c \in InHand(v)'
        PROVE  recipient'[c.job][c.user] # NoRow /\ c.token <= recipient'[c.job][c.user].attempts
    BY <1>2, <1>3, <2>1 DEF SendInv, LeasesApart, RowsKept, Claims
  <2>2. \A v, x \in Workers : \A c \in InHand(v)' : c \in InHand(x)' => v = x
    BY <1>2 DEF SendInv, LeasesApart
  <2>3. \A v \in Workers : worker'[v].phase # "waiting" => worker'[v].claim \notin worker'[v].todo
    BY <1>1 DEF SendInv, LeasesApart
  <2> QED  BY <2>1, <2>2, <2>3 DEF LeasesApart
<1>5. ASSUME NEW b \in Broadcasts, NEW u \in Users
      PROVE  Spent(b, u) \subseteq Spent(b, u)'
  BY <1>2 DEF Spent, RowsKept
<1>6. ASSUME accepted' = accepted
      PROVE  SendsCounted'
  BY <1>5, <1>6, MoreSpent DEF SendsCounted
<1> QED  BY <1>1, <1>4, <1>5, <1>6

-----------------------------------------------------------------------------
(* Administrators and customers. *)

\* A step that touches no lease and sends nothing.
LEMMA ElsewhereStep ==
    ASSUME SendInv, Shape', RowsAgreed', RowsKept, UNCHANGED <<worker, accepted>>,
           \A b \in Broadcasts, u \in Users :
              /\ recipient'[b][u].status = "sent" => recipient[b][u].status = "sent"
              /\ recipient[b][u].status = "sending" => recipient'[b][u] = recipient[b][u]
    PROVE  SendInv'
<1>1. \A w \in Workers : InHand(w)' = InHand(w) /\ ToSend(w)' = ToSend(w) /\ InHand(w) \subseteq Claims
  BY WorkerOf DEF InHand, ToSend, SendInv, Shape
<1>2. LeasesApart'
  BY <1>1 DEF SendInv, LeasesApart, RowsKept, Claims
<1>3. \A b \in Broadcasts, u \in Users : Spent(b, u) \subseteq Spent(b, u)'
  BY <1>1 DEF Spent, RowsKept
<1>4. SendsCounted'
  BY <1>3, MoreSpent DEF SendsCounted, Shape
<1>5. ASSUME NEW w \in Workers, worker[w].phase = "counted"
      PROVE  Holds(worker[w].claim)'
  <2>1. worker[w].claim \in Claims /\ Holds(worker[w].claim)
    BY <1>5, WorkerOf DEF SendInv, Shape, OutcomesTrue
  <2>2. recipient[worker[w].claim.job][worker[w].claim.user].status = "sending"
    BY <2>1 DEF Holds
  <2> QED  BY <2>1, <2>2 DEF Holds, Claims
<1>6. OutcomesTrue'
  BY <1>5 DEF SendInv, OutcomesTrue
<1> QED  BY <1>2, <1>4, <1>6 DEF SendInv

LEMMA AudienceIs == PeopleShape => Audience \in SUBSET Users
BY DEF PeopleShape, Audience

LEMMA Drafting ==
    ASSUME SendInv, NEW b \in Broadcasts, CreateDraft(b) \/ Preview(b)
    PROVE  SendInv'
<1>1. /\ job[b].status \in {"none", "draft"}
      /\ UNCHANGED <<recipient, peopleVars, worker, sendVars, faults>>
      /\ \E s \in {"draft"} : job' = [job EXCEPT ![b] = [job[b] EXCEPT !.status = s, !.preview = Audience]]
  <2>1. CASE CreateDraft(b)
    BY <2>1 DEF CreateDraft
  <2>2. CASE Preview(b)
    <3>1. [job[b] EXCEPT !.preview = Audience] = [job[b] EXCEPT !.status = "draft", !.preview = Audience]
      BY <2>2 DEF Preview, SendInv, Shape, JobShape, Jobs
    <3> QED  BY <2>2, <3>1 DEF Preview
  <2> QED  BY <2>1, <2>2
<1>2. JobShape' /\ \A d \in Broadcasts \ {b} : job'[d] = job[d]
  BY <1>1, AudienceIs, ZenonT(60) DEF SendInv, Shape, JobShape, Jobs
<1>3. job'[b].key = job[b].key /\ job[b].key = NoKey
  BY <1>1 DEF SendInv, Shape, JobShape, Jobs, RowsAgreed
<1>4. Shape'
  BY <1>1, <1>2 DEF SendInv, Shape, RowShape, WorkerShape, SendShape, PeopleShape, peopleVars, sendVars
<1>5. RowsAgreed'
  BY <1>1, <1>2, <1>3 DEF SendInv, RowsAgreed
<1> QED  BY <1>1, <1>4, <1>5, ElsewhereStep DEF RowsKept, sendVars

LEMMA Cancelling ==
    ASSUME SendInv, NEW b \in Broadcasts, Cancel(b)
    PROVE  SendInv'
<1>1. /\ job' = [job EXCEPT ![b].status = "cancelled"]
      /\ recipient' = [recipient EXCEPT ![b] = CancelPending(recipient[b])]
      /\ UNCHANGED <<peopleVars, worker, sendVars, faults>>
  BY DEF Cancel
<1>2. \A d \in Broadcasts, u \in Users :
        \/ recipient'[d][u] = recipient[d][u]
        \/ /\ recipient[d][u].status = "pending"
           /\ recipient'[d][u] = [recipient[d][u] EXCEPT !.status = "cancelled"]
  BY <1>1 DEF CancelPending, SendInv, Shape, RowShape
<1>3. RowShape' /\ RowsKept
      /\ \A d \in Broadcasts, u \in Users :
           /\ recipient'[d][u].status = "sent" => recipient[d][u].status = "sent"
           /\ recipient[d][u].status = "sending" => recipient'[d][u] = recipient[d][u]
  <2>1. RowShape'
    BY <1>1 DEF CancelPending, SendInv, Shape, RowShape, Row, NoRow
  <2>2. ASSUME NEW d \in Broadcasts, NEW u \in Users
        PROVE  /\ recipient'[d][u].attempts = recipient[d][u].attempts
               /\ recipient'[d][u] = NoRow <=> recipient[d][u] = NoRow
               /\ recipient'[d][u].status = "sent" => recipient[d][u].status = "sent"
               /\ recipient[d][u].status = "sending" => recipient'[d][u] = recipient[d][u]
    <3>1. CASE recipient'[d][u] = recipient[d][u]
      BY <3>1
    <3>2. CASE /\ recipient[d][u].status = "pending"
               /\ recipient'[d][u] = [recipient[d][u] EXCEPT !.status = "cancelled"]
      <4>1. recipient[d][u] # NoRow
        BY <3>2 DEF NoRow
      <4>2. recipient[d][u] \in Row
        BY <4>1, RowOf DEF SendInv, Shape
      <4>3. /\ recipient'[d][u].status = "cancelled"
            /\ recipient'[d][u].attempts = recipient[d][u].attempts
        BY <3>2, <4>2 DEF Row
      <4> QED  BY <3>2, <4>1, <4>3 DEF NoRow
    <3> QED  BY <3>1, <3>2, <1>2
  <2> QED  BY <2>1, <2>2 DEF RowsKept
<1>4. /\ JobShape'
      /\ \A d \in Broadcasts : /\ job'[d].preview = job[d].preview /\ job'[d].key = job[d].key
                               /\ job'[d].status \in {"none", "draft"} =>
                                    job[d].status \in {"none", "draft"}
  BY <1>1 DEF SendInv, Shape, JobShape, Jobs
<1>5. Shape'
  BY <1>1, <1>3, <1>4 DEF SendInv, Shape, WorkerShape, SendShape, PeopleShape, peopleVars, sendVars
<1> QED  BY <1>1, <1>3, <1>4, <1>5, ElsewhereStep, AgreementKept DEF sendVars

LEMMA PeopleChange ==
    ASSUME SendInv, ChangeStaff \/ \E u \in Users : ChangeCustomer(u)
    PROVE  SendInv'
<1>1. UNCHANGED <<job, recipient, worker, sendVars>>
  BY DEF ChangeStaff, ChangeCustomer
<1>2. PeopleShape'
  <2>1. faults' \in 0 .. MaxFaults
    BY Sizes DEF ChangeStaff, ChangeCustomer, Fault, SendInv, Shape, PeopleShape
  <2>2. CASE ChangeStaff
    BY <2>1, <2>2 DEF ChangeStaff, SendInv, Shape, PeopleShape
  <2>3. CASE \E u \in Users : ChangeCustomer(u)
    BY <2>1, <2>3 DEF ChangeCustomer, SendInv, Shape, PeopleShape
  <2> QED  BY <2>2, <2>3
<1>3. Shape' /\ RowsAgreed'
  BY <1>1, <1>2 DEF SendInv, Shape, JobShape, RowShape, WorkerShape, SendShape, RowsAgreed, sendVars
<1>4. recipient' = recipient /\ UNCHANGED <<worker, accepted>>
  BY <1>1 DEF sendVars
<1>5. RowsKept
  BY <1>4 DEF RowsKept
<1>6. \A b \in Broadcasts, u \in Users :
        /\ recipient'[b][u].status = "sent" => recipient[b][u].status = "sent"
        /\ recipient[b][u].status = "sending" => recipient'[b][u] = recipient[b][u]
  BY <1>4
<1> QED  BY <1>3, <1>4, <1>5, <1>6, ElsewhereStep

\* A launch makes the rows of its broadcast, of which there were none.
LEMMA Launching ==
    ASSUME SendInv, NEW b \in Broadcasts, NEW k \in Keys, Launch(b, k)
    PROVE  SendInv'
<1> DEFINE new == [u \in Users |-> IF u \in Audience THEN [status |-> "pending", attempts |-> 0]
                                   ELSE NoRow]
           status == IF Audience = {} THEN "completed" ELSE "sending"
<1>1. /\ job[b].status = "draft" /\ Audience = job[b].preview
      /\ \A u \in Users : recipient[b][u] = NoRow
      /\ recipient' = [recipient EXCEPT ![b] = new]
      /\ job' = [job EXCEPT ![b] = [job[b] EXCEPT !.status = status, !.key = k, !.epoch = staff.epoch]]
      /\ UNCHANGED <<peopleVars, worker, sendVars, faults>>
  BY DEF Launch, Snapshot
<1>2. /\ \A u \in Users : recipient'[b][u] = new[u]
      /\ \A d \in Broadcasts \ {b}, u \in Users : recipient'[d][u] = recipient[d][u]
      /\ RowShape'
  <2>1. new \in [Users -> Row \cup {NoRow}]
    BY DEF Row
  <2> HIDE DEF new
  <2> QED  BY <1>1, <2>1 DEF SendInv, Shape, RowShape
<1>3. \A u \in Users : /\ recipient'[b][u].attempts = 0 /\ recipient[b][u].attempts = 0
                       /\ recipient'[b][u].status # "sent"
                       /\ recipient'[b][u] # NoRow => u \in job[b].preview
  BY <1>1, <1>2 DEF NoRow
<1> HIDE DEF new
<1>4. /\ JobShape' /\ \A d \in Broadcasts \ {b} : job'[d] = job[d]
      /\ job'[b].key = k /\ job'[b].preview = job[b].preview
      /\ job'[b].status \notin {"none", "draft"}
  <2> DEFINE launched == [job[b] EXCEPT !.status = status, !.key = k, !.epoch = staff.epoch]
  <2>1. /\ job[b] \in Jobs /\ staff.epoch \in Nat /\ status \in {"completed", "sending"}
    BY DEF SendInv, Shape, JobShape, PeopleShape
  <2> HIDE DEF status
  <2>2. /\ launched \in Jobs /\ launched.key = k /\ launched.preview = job[b].preview
        /\ launched.status = status
    BY <2>1 DEF Jobs
  <2>3. job' = [job EXCEPT ![b] = launched]
    BY <1>1
  <2> HIDE DEF launched
  <2> QED  BY <2>1, <2>2, <2>3 DEF SendInv, Shape, JobShape
<1>5. Shape'
  BY <1>1, <1>2, <1>4 DEF SendInv, Shape, WorkerShape, SendShape, PeopleShape, peopleVars, sendVars
<1>6. RowsAgreed'
  <2>1. k # NoKey
    BY Sizes
  <2>2. ASSUME NEW d \in Broadcasts, NEW u \in Users, recipient'[d][u] # NoRow
        PROVE  u \in job'[d].preview /\ job'[d].key # NoKey
    BY <2>1, <2>2, <1>2, <1>3, <1>4 DEF SendInv, RowsAgreed
  <2> QED  BY <2>2, <1>4 DEF SendInv, RowsAgreed
<1>7. /\ worker' = worker /\ accepted' = accepted
      /\ \A w \in Workers : InHand(w)' = InHand(w) /\ ToSend(w)' = ToSend(w) /\ InHand(w) \subseteq Claims
  BY <1>1, WorkerOf DEF InHand, ToSend, SendInv, Shape, sendVars
<1>8. \A w \in Workers : \A c \in InHand(w) : c.job \in Broadcasts \ {b} /\ c.user \in Users
  BY <1>1, <1>7 DEF SendInv, LeasesApart, Claims
<1>9. LeasesApart'
  BY <1>2, <1>7, <1>8 DEF SendInv, LeasesApart
<1>10. \A d \in Broadcasts, u \in Users : recipient'[d][u].attempts = recipient[d][u].attempts
  BY <1>2, <1>3
<1>11. \A d \in Broadcasts, u \in Users : Spent(d, u) \subseteq Spent(d, u)'
  BY <1>7, <1>10 DEF Spent
<1>12. SendsCounted'
  BY <1>5, <1>7, <1>11, MoreSpent DEF SendsCounted, Shape
<1>13. OutcomesTrue'
  <2>1. ASSUME NEW w \in Workers, worker[w].phase = "counted"
        PROVE  Holds(worker[w].claim)'
    <3>1. worker[w].claim \in InHand(w) /\ Holds(worker[w].claim)
      BY <2>1 DEF InHand, SendInv, OutcomesTrue
    <3> QED  BY <3>1, <1>2, <1>7, <1>8 DEF Holds
  <2>2. \A d \in Broadcasts, u \in Users : recipient'[d][u].status = "sent" =>
          recipient[d][u].status = "sent"
    BY <1>2, <1>3
  <2> QED  BY <2>1, <2>2, <1>7 DEF SendInv, OutcomesTrue
<1> QED  BY <1>5, <1>6, <1>9, <1>12, <1>13 DEF SendInv

-----------------------------------------------------------------------------
(* Workers. *)

\* A worker stops, or a message is answered but for "sent".
LEMMA Stopping ==
    ASSUME SendInv, NEW w \in Workers, Stop(w)
    PROVE  SendInv'
<1>1. /\ worker' = [worker EXCEPT ![w] = Waiting] /\ faults' \in 0 .. MaxFaults
      /\ UNCHANGED <<job, recipient, peopleVars, sendVars>>
  BY Sizes DEF Stop, Fault, SendInv, Shape, PeopleShape
<1>2. RowShape' /\ RowsKept /\ accepted' = accepted
  BY <1>1 DEF RowsKept, SendInv, Shape, RowShape, sendVars
<1>3. Waiting \in Idle /\ Waiting.todo = {} /\ Waiting.phase = "waiting"
  BY DEF Waiting, Idle
<1>4. /\ WorkerShape' /\ LeasesApart' /\ SendsCounted'
      /\ worker'[w] = Waiting /\ \A v \in Workers \ {w} : worker'[v] = worker[v]
  BY <1>1, <1>2, <1>3, GoingOn
<1>5. Shape'
  BY <1>1, <1>4 DEF SendInv, Shape, JobShape, RowShape, SendShape, PeopleShape, peopleVars, sendVars
<1>6. RowsAgreed' /\ OutcomesTrue'
  BY <1>1, <1>3, <1>4 DEF SendInv, RowsAgreed, OutcomesTrue, Holds, sendVars
<1> QED  BY <1>4, <1>5, <1>6 DEF SendInv

\* The status of some rows changes.
Restated(b, u, s) == recipient[b][u] # NoRow /\ recipient'[b][u] = [recipient[b][u] EXCEPT !.status = s]

LEMMA RowsRestated ==
    ASSUME SendInv, DOMAIN recipient' = Broadcasts, recipient' \in [Broadcasts -> [Users -> Row \cup {NoRow}]],
           \A b \in Broadcasts, u \in Users :
              recipient'[b][u] = recipient[b][u]
              \/ \E s \in {"pending", "sent", "failed", "cancelled"} : Restated(b, u, s)
    PROVE  RowShape' /\ RowsKept
<1>1. ASSUME NEW b \in Broadcasts, NEW u \in Users
      PROVE  /\ recipient'[b][u].attempts = recipient[b][u].attempts
             /\ recipient'[b][u] = NoRow <=> recipient[b][u] = NoRow
  <2>1. ASSUME NEW s \in {"pending", "sent", "failed", "cancelled"}, Restated(b, u, s)
        PROVE  /\ recipient'[b][u].attempts = recipient[b][u].attempts
               /\ recipient'[b][u] = NoRow <=> recipient[b][u] = NoRow
    <3>1. recipient[b][u] \in Row /\ recipient[b][u] # NoRow
      BY <2>1, RowOf DEF Restated, SendInv, Shape
    <3>2. recipient'[b][u].status = s /\ recipient'[b][u].attempts = recipient[b][u].attempts
      BY <2>1, <3>1 DEF Restated, Row
    <3> QED  BY <3>1, <3>2 DEF NoRow
  <2> QED  BY <2>1
<1> QED  BY <1>1 DEF RowShape, RowsKept

\* A row that a transaction has counted is not another worker's.
LEMMA CountedApart ==
    ASSUME SendInv, NEW w \in Workers, NEW v \in Workers \ {w}, worker[v].phase = "counted",
           NEW c \in InHand(w), Holds(c)
    PROVE  ~(worker[v].claim.job = c.job /\ worker[v].claim.user = c.user)
<1>1. worker[v].claim \in InHand(v) /\ Holds(worker[v].claim)
  BY DEF InHand, SendInv, OutcomesTrue
<1>2. c \in Claims /\ worker[v].claim \in Claims
  BY <1>1, WorkerOf DEF SendInv, Shape
<1>3. worker[v].claim # c
  BY <1>1 DEF SendInv, LeasesApart
<1> QED  BY <1>1, <1>2, <1>3 DEF Holds, Claims

\* A step of one worker that sends nothing.
LEMMA WorkerStep ==
    ASSUME SendInv, NEW w \in Workers, NEW record \in Idle \cup Busy \cup Counted,
           worker' = [worker EXCEPT ![w] = record],
           record.todo \subseteq worker[w].todo,
           record.phase # "waiting" => record.claim \in InHand(w) /\ record.claim \notin record.todo,
           record.phase = "checked" => record.claim \in ToSend(w),
           record.phase # "waiting" /\ record.outcome = "sent" =>
                accepted[record.claim.job][record.claim.user] > 0,
           record.phase = "counted" =>
                recipient'[record.claim.job][record.claim.user] =
                [status |-> "sending", attempts |-> record.claim.token],
           RowShape', RowsKept, JobShape', PeopleShape', UNCHANGED sendVars,
           \A b \in Broadcasts : /\ job'[b].preview = job[b].preview /\ job'[b].key = job[b].key
                                 /\ job'[b].status \in {"none", "draft"} =>
                                      job[b].status \in {"none", "draft"},
           \A b \in Broadcasts, u \in Users : recipient'[b][u].status = "sent" =>
                recipient[b][u].status = "sent" \/ accepted[b][u] > 0,
           \A v \in Workers \ {w} : worker[v].phase = "counted" =>
                recipient'[worker[v].claim.job][worker[v].claim.user] =
                recipient[worker[v].claim.job][worker[v].claim.user]
    PROVE  SendInv'
<1>1. UNCHANGED <<accepted, overrun>>
  BY DEF sendVars
<1>2. /\ WorkerShape' /\ LeasesApart' /\ SendsCounted'
      /\ worker'[w] = record /\ \A v \in Workers \ {w} : worker'[v] = worker[v]
  BY <1>1, GoingOn
<1>3. Shape'
  BY <1>1, <1>2 DEF SendInv, Shape, SendShape
<1>4. RowsAgreed'
  BY AgreementKept
<1>5. OutcomesTrue'
  <2>1. \A b \in Broadcasts, u \in Users : recipient'[b][u].status = "sent" => accepted'[b][u] > 0
    BY <1>1 DEF SendInv, OutcomesTrue
  <2>2. ASSUME NEW v \in Workers, worker'[v].phase # "waiting",
               worker'[v].outcome = "sent"
        PROVE  accepted'[worker'[v].claim.job][worker'[v].claim.user] > 0
    <3>1. CASE v = w
      BY <1>1, <1>2, <2>2, <3>1
    <3>2. CASE v # w
      BY <1>1, <1>2, <2>2, <3>2 DEF SendInv, OutcomesTrue
    <3> QED  BY <3>1, <3>2
  <2>3. ASSUME NEW v \in Workers, worker'[v].phase = "counted"
        PROVE  Holds(worker[v].claim)'
    <3>1. CASE v = w
      BY <1>2, <2>3, <3>1 DEF Holds
    <3>2. CASE v # w
      <4>1. worker'[v] = worker[v] /\ worker[v].phase = "counted" /\ Holds(worker[v].claim)
        BY <1>2, <2>3, <3>2 DEF SendInv, OutcomesTrue
      <4>2. recipient'[worker[v].claim.job][worker[v].claim.user] =
            recipient[worker[v].claim.job][worker[v].claim.user]
        BY <3>2, <4>1
      <4> QED  BY <4>1, <4>2 DEF Holds
    <3> QED  BY <3>1, <3>2
  <2> QED  BY <2>1, <2>2, <2>3 DEF OutcomesTrue
<1> QED  BY <1>2, <1>3, <1>4, <1>5 DEF SendInv

\* Cancelling the pending rows of a broadcast, or one more, restates them.
LEMMA RowsCancelled ==
    ASSUME SendInv, NEW b \in Broadcasts, NEW u \in Users, recipient[b][u] # NoRow,
           \/ recipient' = recipient
           \/ recipient' = [recipient EXCEPT ![b][u].status = "cancelled"]
           \/ recipient' = [recipient EXCEPT ![b] =
                                [CancelPending(recipient[b]) EXCEPT ![u].status = "cancelled"]]
    PROVE  /\ RowShape' /\ RowsKept
           /\ \A d \in Broadcasts, x \in Users :
                /\ recipient'[d][x].status = "sent" => recipient[d][x].status = "sent"
                /\ recipient[d][x].status = "sending" =>
                     recipient'[d][x] = recipient[d][x] \/ (d = b /\ x = u)
<1>1. recipient \in [Broadcasts -> [Users -> Row \cup {NoRow}]] /\ recipient[b][u] \in Row
  BY RowOf DEF SendInv, Shape, RowShape
<1>2. \A d \in Broadcasts, x \in Users :
        \/ recipient'[d][x] = recipient[d][x]
        \/ /\ (d = b /\ x = u) \/ recipient[d][x].status = "pending"
           /\ recipient'[d][x] = [recipient[d][x] EXCEPT !.status = "cancelled"]
  <2>1. CASE recipient' = recipient
    BY <2>1
  <2>2. CASE recipient' = [recipient EXCEPT ![b][u].status = "cancelled"]
    BY <1>1, <2>2
  <2>3. CASE recipient' = [recipient EXCEPT ![b] =
                             [CancelPending(recipient[b]) EXCEPT ![u].status = "cancelled"]]
    <3> DEFINE stopped == CancelPending(recipient[b])
    <3>1. /\ DOMAIN stopped = Users
          /\ \A x \in Users : stopped[x] = IF recipient[b][x].status = "pending"
                                           THEN [recipient[b][x] EXCEPT !.status = "cancelled"]
                                           ELSE recipient[b][x]
      BY DEF CancelPending
    <3>2. [stopped[u] EXCEPT !.status = "cancelled"] = [recipient[b][u] EXCEPT !.status = "cancelled"]
      BY <1>1, <3>1 DEF Row
    <3>3. recipient' = [recipient EXCEPT ![b] = [stopped EXCEPT ![u] = [stopped[u] EXCEPT !.status = "cancelled"]]]
      BY <2>3
    <3> HIDE DEF stopped
    <3> QED  BY <1>1, <3>1, <3>2, <3>3
  <2> QED  BY <2>1, <2>2, <2>3
<1>3. \A d \in Broadcasts, x \in Users : recipient[d][x].status = "pending" => recipient[d][x] # NoRow
  BY DEF NoRow
<1>4. \A d \in Broadcasts, x \in Users :
         \/ recipient'[d][x] = recipient[d][x]
         \/ /\ recipient[d][x] # NoRow
            /\ recipient'[d][x] = [recipient[d][x] EXCEPT !.status = "cancelled"]
  BY <1>2, <1>3
<1>5. \A d \in Broadcasts, x \in Users :
        recipient'[d][x] = recipient[d][x]
        \/ \E s \in {"pending", "sent", "failed", "cancelled"} : Restated(d, x, s)
  BY <1>4 DEF Restated
<1>6. recipient' \in [Broadcasts -> [Users -> Row \cup {NoRow}]] /\ DOMAIN recipient' = Broadcasts
  <2>1. \A d \in Broadcasts, x \in Users : recipient'[d][x] \in Row \cup {NoRow}
    <3>1. ASSUME NEW d \in Broadcasts, NEW x \in Users,
                 recipient'[d][x] = [recipient[d][x] EXCEPT !.status = "cancelled"],
                 recipient[d][x] # NoRow
          PROVE  recipient'[d][x] \in Row
      BY <3>1, <1>1 DEF Row
    <3>2. ASSUME NEW d \in Broadcasts, NEW x \in Users
          PROVE  recipient'[d][x] \in Row \cup {NoRow}
      <4>1. recipient[d][x] \in Row \cup {NoRow}
        BY <1>1
      <4>2. CASE recipient'[d][x] = recipient[d][x]
        BY <4>1, <4>2
      <4>3. CASE recipient[d][x] # NoRow
                 /\ recipient'[d][x] = [recipient[d][x] EXCEPT !.status = "cancelled"]
        BY <4>3, <3>1
      <4> QED  BY <4>2, <4>3, <1>4
    <3> QED  BY <3>2
  <2>2. /\ DOMAIN recipient' = Broadcasts /\ \A d \in Broadcasts : DOMAIN recipient'[d] = Users
        /\ \A d \in Broadcasts : recipient'[d] = [x \in Users |-> recipient'[d][x]]
        /\ recipient' = [d \in Broadcasts |-> recipient'[d]]
    BY <1>1 DEF CancelPending
  <2> QED  BY <2>1, <2>2
<1>7. RowShape' /\ RowsKept
  BY <1>5, <1>6, RowsRestated
<1>8. ASSUME NEW d \in Broadcasts, NEW x \in Users, recipient'[d][x] # recipient[d][x]
      PROVE  recipient'[d][x].status = "cancelled"
  <2>1. recipient[d][x] # NoRow
    BY <1>4, <1>8
  <2>2. recipient[d][x] \in Row
    BY <2>1, RowOf DEF SendInv, Shape
  <2> QED  BY <1>4, <1>8, <2>2 DEF Row
<1> QED  BY <1>2, <1>7, <1>8

LEMMA Checking ==
    ASSUME SendInv, NEW w \in Workers, Check(w)
    PROVE  SendInv'
<1>1. PICK c \in worker[w].todo :
        /\ \/ Drop(w, c) /\ (~Holds(c) => UNCHANGED recipient)
           \/ /\ worker' = [worker EXCEPT ![w] =
                   [todo |-> worker[w].todo \ {c}, claim |-> c, bounced |-> FALSE,
                    phase |-> IF c.user \in blocked THEN "answered" ELSE "checked",
                    outcome |-> "failed"]]
              /\ UNCHANGED recipient
        /\ \/ recipient' = recipient
           \/ Holds(c) /\ recipient' = [recipient EXCEPT ![c.job][c.user].status = "cancelled"]
           \/ Holds(c) /\ recipient' = [recipient EXCEPT ![c.job] =
                            [CancelPending(recipient[c.job]) EXCEPT ![c.user].status = "cancelled"]]
        /\ \/ job' = job
           \/ job' = [job EXCEPT ![c.job].status = "cancelled"]
  BY DEF Check
<1>2. /\ worker[w].phase = "waiting" /\ UNCHANGED <<peopleVars, sendVars, faults>>
  BY DEF Check
<1>3. /\ worker[w] \in Idle /\ c \in Claims /\ c \in InHand(w) /\ c \in ToSend(w)
      /\ recipient[c.job][c.user] # NoRow /\ c.job \in Broadcasts /\ c.user \in Users
  BY <1>2, WorkerOf DEF SendInv, Shape, LeasesApart, InHand, ToSend, Claims
<1>4. /\ RowShape' /\ RowsKept
      /\ \A d \in Broadcasts, x \in Users :
           /\ recipient'[d][x].status = "sent" => recipient[d][x].status = "sent"
           /\ recipient[d][x].status = "sending" =>
                recipient'[d][x] = recipient[d][x] \/ (d = c.job /\ x = c.user)
  BY <1>1, <1>3, RowsCancelled
<1>5. \A v \in Workers \ {w} : worker[v].phase = "counted" =>
        recipient'[worker[v].claim.job][worker[v].claim.user] =
        recipient[worker[v].claim.job][worker[v].claim.user]
  <2>1. ASSUME NEW v \in Workers \ {w}, worker[v].phase = "counted", recipient' # recipient
        PROVE  recipient'[worker[v].claim.job][worker[v].claim.user] =
               recipient[worker[v].claim.job][worker[v].claim.user]
    <3>1. Holds(c)
      BY <1>1, <2>1
    <3>2. ~(worker[v].claim.job = c.job /\ worker[v].claim.user = c.user)
      BY <1>3, <2>1, <3>1, CountedApart
    <3>3. Holds(worker[v].claim) /\ worker[v].claim \in Claims
      BY <2>1, WorkerOf DEF SendInv, Shape, OutcomesTrue
    <3>4. /\ worker[v].claim.job \in Broadcasts /\ worker[v].claim.user \in Users
          /\ recipient[worker[v].claim.job][worker[v].claim.user].status = "sending"
      BY <3>3 DEF Holds, Claims
    <3> QED  BY <1>4, <3>2, <3>4
  <2> QED  BY <2>1
<1>6. /\ JobShape'
      /\ \A b \in Broadcasts : /\ job'[b].preview = job[b].preview /\ job'[b].key = job[b].key
                               /\ job'[b].status \in {"none", "draft"} =>
                                    job[b].status \in {"none", "draft"}
  BY <1>1, <1>3 DEF SendInv, Shape, JobShape, Jobs
<1>7. PeopleShape'
  BY <1>2 DEF SendInv, Shape, PeopleShape, peopleVars
<1>8. CASE Drop(w, c)
  <2> DEFINE record == [worker[w] EXCEPT !.todo = worker[w].todo \ {c}]
  <2>1. /\ record \in Idle /\ record.phase = "waiting" /\ record.todo \subseteq worker[w].todo
    BY <1>3 DEF Idle
  <2>2. worker' = [worker EXCEPT ![w] = record]
    BY <1>8 DEF Drop
  <2> HIDE DEF record
  <2> QED  BY <2>1, <2>2, <1>2, <1>4, <1>5, <1>6, <1>7, WorkerStep
<1>9. CASE worker' = [worker EXCEPT ![w] =
             [todo |-> worker[w].todo \ {c}, claim |-> c, bounced |-> FALSE,
              phase |-> IF c.user \in blocked THEN "answered" ELSE "checked",
              outcome |-> "failed"]]
  <2> DEFINE record == [todo |-> worker[w].todo \ {c}, claim |-> c, bounced |-> FALSE,
                        phase |-> IF c.user \in blocked THEN "answered" ELSE "checked",
                        outcome |-> "failed"]
  <2>1. /\ record \in Busy /\ record.phase \in {"answered", "checked"}
        /\ record.todo \subseteq worker[w].todo /\ record.claim = c /\ c \notin record.todo
        /\ record.outcome = "failed"
    BY <1>3 DEF Idle, Busy, Outcomes
  <2>2. worker' = [worker EXCEPT ![w] = record]
    BY <1>9
  <2> HIDE DEF record
  <2> QED  BY <2>1, <2>2, <1>2, <1>3, <1>4, <1>5, <1>6, <1>7, WorkerStep
<1> QED  BY <1>1, <1>8, <1>9

\* A step that leaves rows and broadcasts alone has left their shape alone.
LEMMA SameRows ==
    ASSUME SendInv, UNCHANGED <<job, recipient>>
    PROVE  /\ RowShape' /\ RowsKept /\ JobShape'
           /\ \A b \in Broadcasts : /\ job'[b].preview = job[b].preview /\ job'[b].key = job[b].key
                                    /\ job'[b].status \in {"none", "draft"} =>
                                         job[b].status \in {"none", "draft"}
           /\ \A b \in Broadcasts, u \in Users : recipient'[b][u].status = "sent" =>
                recipient[b][u].status = "sent"
           /\ \A v \in Workers : recipient'[worker[v].claim.job][worker[v].claim.user] =
                                 recipient[worker[v].claim.job][worker[v].claim.user]
BY DEF RowsKept, SendInv, Shape, RowShape, JobShape

\* A message is accepted: its lease has not sent before, and never will again.
LEMMA Sending ==
    ASSUME SendInv, NEW w \in Workers, worker[w].phase = "checked",
           NEW record \in Busy, record.phase = "answered", record.todo = worker[w].todo,
           record.claim = worker[w].claim, worker' = [worker EXCEPT ![w] = record],
           Accept(worker[w].claim), UNCHANGED <<job, recipient>>, PeopleShape'
    PROVE  SendInv'
<1> DEFINE c == worker[w].claim
<1>1. /\ c \in Claims /\ c \in InHand(w) /\ c \in ToSend(w) /\ c \notin worker[w].todo
      /\ c.job \in Broadcasts /\ c.user \in Users /\ c.token \in Nat \ {0}
      /\ c = [job |-> c.job, user |-> c.user, token |-> c.token]
  BY WorkerOf DEF SendInv, Shape, LeasesApart, InHand, ToSend, Claims
<1> DEFINE b == c.job
           u == c.user
<1>2. /\ RowShape' /\ RowsKept /\ JobShape' /\ RowsAgreed'
  BY SameRows, AgreementKept
<1>3. /\ WorkerShape' /\ LeasesApart'
      /\ worker'[w] = record /\ \A v \in Workers \ {w} : worker'[v] = worker[v]
      /\ \A d \in Broadcasts, x \in Users : Spent(d, x) \subseteq Spent(d, x)'
  BY <1>1, <1>2, GoingOn DEF Busy
<1>4. /\ accepted' \in [Broadcasts -> [Users -> Nat]] /\ accepted'[b][u] = accepted[b][u] + 1
      /\ \A d \in Broadcasts, x \in Users : <<d, x>> # <<b, u>> => accepted'[d][x] = accepted[d][x]
      /\ overrun' \in [Broadcasts -> Nat]
  BY <1>1 DEF Accept, SendInv, Shape, SendShape
<1>5. Shape'
  BY <1>2, <1>3, <1>4 DEF Shape, SendShape
<1>6. SendsCounted'
  <2>1. ASSUME NEW d \in Broadcasts, NEW x \in Users, <<d, x>> # <<b, u>>
        PROVE  accepted'[d][x] <= Cardinality(Spent(d, x)')
    BY <1>2, <1>3, <1>4, <2>1, MoreSpent
  <2>2. c.token \in Spent(b, u)' /\ c.token \notin Spent(b, u)
    <3>1. c.token \in 1 .. recipient[b][u].attempts
      BY <1>1, RowOf DEF SendInv, Shape, LeasesApart
    <3>2. \A v \in Workers : c \notin ToSend(v)'
      <4>1. ASSUME NEW v \in Workers \ {w}
            PROVE  c \notin ToSend(v)'
        <5>1. c \notin InHand(v)
          BY <1>1 DEF SendInv, LeasesApart
        <5> QED  BY <5>1, <1>3 DEF InHand, ToSend
      <4>2. c \notin ToSend(w)'
        BY <1>1, <1>3 DEF ToSend
      <4> QED  BY <4>1, <4>2
    <3>3. recipient' = recipient
      OBVIOUS
    <3>4. worker'[w].claim = c
      BY <1>3
    <3>5. c.token \in Spent(b, u)'
      BY <1>1, <3>1, <3>2, <3>3, <3>4 DEF Spent
    <3>6. c.token \notin Spent(b, u)
      BY <1>1 DEF Spent
    <3> QED  BY <3>5, <3>6
  <2>3. IsFiniteSet(Spent(b, u)')
    <3>1. recipient[b][u].attempts \in Nat
      BY <1>1, RowOf DEF SendInv, Shape
    <3>2. Spent(b, u)' \subseteq 1 .. recipient[b][u].attempts
      BY DEF Spent
    <3> QED  BY <3>1, <3>2, UpTo, FS_Subset
  <2>4. Spent(b, u) \cup {c.token} \subseteq Spent(b, u)'
    BY <1>1, <1>3, <2>2
  <2>5. /\ IsFiniteSet(Spent(b, u)) /\ Cardinality(Spent(b, u)) \in Nat
        /\ accepted[b][u] <= Cardinality(Spent(b, u)) /\ accepted[b][u] \in Nat
    BY <1>1, SpentFinite DEF SendInv, Shape, SendShape, SendsCounted
  <2>6. Cardinality(Spent(b, u) \cup {c.token}) = Cardinality(Spent(b, u)) + 1
    BY <2>2, <2>5, FS_AddElement
  <2>7. /\ Cardinality(Spent(b, u) \cup {c.token}) <= Cardinality(Spent(b, u)')
        /\ Cardinality(Spent(b, u)') \in Nat
    BY <2>3, <2>4, FS_Subset, FS_CardinalityType
  <2>8. accepted'[b][u] <= Cardinality(Spent(b, u)')
    BY <1>4, <2>5, <2>6, <2>7
  <2> QED  BY <2>1, <2>8 DEF SendsCounted
<1>7. \A d \in Broadcasts, x \in Users :
        accepted'[d][x] >= accepted[d][x] /\ accepted[d][x] \in Nat /\ accepted'[b][u] > 0
  BY <1>1, <1>4 DEF SendInv, Shape, SendShape
<1>8. OutcomesTrue'
  <2>1. ASSUME NEW d \in Broadcasts, NEW x \in Users, recipient'[d][x].status = "sent"
        PROVE  accepted'[d][x] > 0
    BY <1>7, <2>1, <1>4 DEF SendInv, OutcomesTrue
  <2>2. ASSUME NEW v \in Workers, worker'[v].phase # "waiting",
               worker'[v].outcome = "sent"
        PROVE  accepted'[worker'[v].claim.job][worker'[v].claim.user] > 0
    <3>1. CASE v = w
      BY <1>1, <1>3, <1>7, <3>1
    <3>2. CASE v # w
      <4>1. worker'[v] = worker[v] /\ worker[v].claim \in Claims
        BY <1>3, <2>2, <3>2, WorkerOf DEF SendInv, Shape
      <4>2. accepted[worker[v].claim.job][worker[v].claim.user] > 0
        BY <2>2, <4>1 DEF SendInv, OutcomesTrue
      <4>3. worker[v].claim.job \in Broadcasts /\ worker[v].claim.user \in Users
        BY <4>1 DEF Claims
      <4> DEFINE d == worker[v].claim.job
                 x == worker[v].claim.user
      <4>4. accepted'[d][x] \in Nat /\ accepted'[d][x] >= accepted[d][x] /\ accepted[d][x] \in Nat
        BY <1>4, <1>7, <4>3
      <4> QED  BY <4>1, <4>2, <4>4
    <3> QED  BY <3>1, <3>2
  <2>3. ASSUME NEW v \in Workers, worker'[v].phase = "counted"
        PROVE  Holds(worker[v].claim)'
    <3>1. v # w
      BY <1>3, <2>3
    <3> QED  BY <1>3, <2>3, <3>1 DEF SendInv, OutcomesTrue, Holds
  <2> QED  BY <2>1, <2>2, <2>3 DEF OutcomesTrue
<1> QED  BY <1>2, <1>3, <1>5, <1>6, <1>8 DEF SendInv

AnswerOf(t, p, c, o, b) == [todo |-> t, phase |-> p, claim |-> c, outcome |-> o, bounced |-> b]

\* What a worker knows after Telegram has answered.
Answered(w, outcome, bounced) ==
    AnswerOf(worker[w].todo, "answered", worker[w].claim, outcome, bounced)

LEMMA SameBusy ==
    ASSUME NEW x \in Busy, NEW y \in Busy, x.todo = y.todo, x.phase = y.phase,
           x.claim = y.claim, x.outcome = y.outcome, x.bounced = y.bounced
    PROVE  x = y
BY DEF Busy

LEMMA AnswerIs ==
    ASSUME SendInv, NEW w \in Workers, worker[w] \in Busy, NEW outcome \in Outcomes
    PROVE  /\ \A bounced \in BOOLEAN : Answered(w, outcome, bounced) \in Busy
           /\ Answer(w, outcome) =>
                worker' = [worker EXCEPT ![w] = Answered(w, outcome, worker[w].bounced)]
           /\ worker' = [worker EXCEPT ![w].phase = "answered", ![w].bounced = TRUE] =>
                worker' = [worker EXCEPT ![w] = Answered(w, worker[w].outcome, TRUE)]
<1> DEFINE r == worker[w]
<1>1. /\ r.todo \in SUBSET Claims /\ r.claim \in Claims
      /\ r.outcome \in Outcomes /\ r.bounced \in BOOLEAN
  BY DEF Busy
<1>2. \A x \in Outcomes, y \in BOOLEAN :
         /\ Answered(w, x, y) \in Busy
         /\ Answered(w, x, y).todo = r.todo /\ Answered(w, x, y).phase = "answered"
         /\ Answered(w, x, y).claim = r.claim /\ Answered(w, x, y).outcome = x
         /\ Answered(w, x, y).bounced = y
  BY <1>1 DEF Busy, Answered, AnswerOf
<1>3. /\ [worker[w] EXCEPT !.phase = "answered", !.outcome = outcome] =
           Answered(w, outcome, worker[w].bounced)
      /\ [worker[w] EXCEPT !.phase = "answered", !.bounced = TRUE] =
           Answered(w, worker[w].outcome, TRUE)
  <2> DEFINE x == [r EXCEPT !.phase = "answered", !.outcome = outcome]
             y == [r EXCEPT !.phase = "answered", !.bounced = TRUE]
  <2>1. /\ x \in Busy /\ x.todo = r.todo /\ x.claim = r.claim
        /\ x.phase = "answered" /\ x.outcome = outcome /\ x.bounced = r.bounced
    BY DEF Busy
  <2>2. /\ y \in Busy /\ y.todo = r.todo /\ y.claim = r.claim
        /\ y.phase = "answered" /\ y.outcome = r.outcome /\ y.bounced = TRUE
    BY DEF Busy
  <2> HIDE DEF x, y
  <2>3. x = Answered(w, outcome, r.bounced)
    BY <1>1, <1>2, <2>1, SameBusy
  <2>4. y = Answered(w, r.outcome, TRUE)
    <3> DEFINE z == Answered(w, r.outcome, TRUE)
    <3>1. /\ z \in Busy /\ z.todo = r.todo /\ z.claim = r.claim
          /\ z.phase = "answered" /\ z.outcome = r.outcome /\ z.bounced = TRUE
      BY <1>1, <1>2
    <3> HIDE DEF z
    <3>2. y.todo = z.todo /\ y.claim = z.claim /\ y.phase = z.phase /\ y.outcome = z.outcome
          /\ y.bounced = z.bounced
      BY <2>2, <3>1
    <3>3. y = z
      BY <2>2, <3>1, <3>2, SameBusy
    <3> QED  BY <3>3 DEF z
  <2> QED  BY <2>3, <2>4 DEF x, y
<1>4. w \in DOMAIN worker
  BY DEF SendInv, Shape, WorkerShape
<1>5. Answer(w, outcome) =>
        worker' = [worker EXCEPT ![w] = [worker[w] EXCEPT !.phase = "answered", !.outcome = outcome]]
  BY <1>4 DEF Answer
<1>6. worker' = [worker EXCEPT ![w].phase = "answered", ![w].bounced = TRUE] =>
        worker' = [worker EXCEPT ![w] = [worker[w] EXCEPT !.phase = "answered", !.bounced = TRUE]]
  BY <1>4
<1> QED  BY <1>3, <1>5, <1>6, <1>2

LEMMA Posting ==
    ASSUME SendInv, NEW w \in Workers, Post(w) \/ Trouble(w)
    PROVE  SendInv'
<1>1. /\ worker[w].phase = "checked" /\ worker[w] \in Busy /\ UNCHANGED <<job, recipient>>
      /\ worker[w].outcome \in Outcomes /\ worker[w].bounced \in BOOLEAN
  BY WorkerOf DEF Post, Trouble, SendInv, Shape
<1>2. PeopleShape'
  <2>1. faults' \in 0 .. MaxFaults
    BY Sizes DEF Post, Trouble, Fault, SendInv, Shape, PeopleShape
  <2>2. UNCHANGED peopleVars
    BY DEF Post, Trouble
  <2> QED  BY <2>1, <2>2 DEF SendInv, Shape, PeopleShape, peopleVars
<1>3. /\ worker[w].claim \in InHand(w) /\ worker[w].claim \notin worker[w].todo
  BY <1>1 DEF SendInv, Shape, LeasesApart, InHand
<1>4. ASSUME NEW outcome \in Outcomes, NEW bounced \in BOOLEAN, UNCHANGED sendVars,
             worker' = [worker EXCEPT ![w] = Answered(w, outcome, bounced)],
             outcome = "sent" => accepted[worker[w].claim.job][worker[w].claim.user] > 0
      PROVE  SendInv'
  <2> DEFINE record == Answered(w, outcome, bounced)
  <2>1. /\ record \in Busy /\ record.todo = worker[w].todo /\ record.claim = worker[w].claim
        /\ record.phase = "answered" /\ record.outcome = outcome
    BY <1>1, AnswerIs DEF Answered, AnswerOf
  <2>2. worker' = [worker EXCEPT ![w] = record]
    BY <1>4
  <2> HIDE DEF record
  <2>3. /\ record.claim \in InHand(w) /\ record.claim \notin record.todo
        /\ record.todo \subseteq worker[w].todo
        /\ record.outcome = "sent" => accepted[record.claim.job][record.claim.user] > 0
    BY <2>1, <1>3, <1>4
  <2>4. /\ RowShape' /\ RowsKept /\ JobShape'
        /\ \A b \in Broadcasts : /\ job'[b].preview = job[b].preview /\ job'[b].key = job[b].key
                                 /\ job'[b].status \in {"none", "draft"} =>
                                      job[b].status \in {"none", "draft"}
    BY <1>1, SameRows
  <2>5. recipient' = recipient
    BY <1>1
  <2> QED  BY <2>1, <2>2, <2>3, <2>4, <2>5, <1>2, <1>4, WorkerStep
<1>5. ASSUME NEW outcome \in Outcomes, Answer(w, outcome), Accept(worker[w].claim)
      PROVE  SendInv'
  <2> DEFINE record == Answered(w, outcome, worker[w].bounced)
  <2>1. /\ record \in Busy /\ record.todo = worker[w].todo /\ record.claim = worker[w].claim
        /\ record.phase = "answered"
    BY <1>1, AnswerIs DEF Answered, AnswerOf
  <2>2. worker' = [worker EXCEPT ![w] = record]
    BY <1>1, <1>5, AnswerIs
  <2> HIDE DEF record
  <2> QED  BY <2>1, <2>2, <1>1, <1>2, <1>5, Sending
<1>6. CASE Post(w)
  BY <1>5, <1>6 DEF Post, Outcomes
<1>7. CASE Trouble(w)
  <2>1. ASSUME NEW outcome \in {"pending", "failed"}, Answer(w, outcome), UNCHANGED sendVars
        PROVE  SendInv'
    <3>1. outcome \in Outcomes /\ outcome # "sent"
      BY DEF Outcomes
    <3> QED  BY <1>1, <1>4, <2>1, <3>1, AnswerIs
  <2>2. CASE Answer(w, "pending") /\ Accept(worker[w].claim)
    BY <1>5, <2>2 DEF Outcomes
  <2>3. CASE /\ worker' = [worker EXCEPT ![w].phase = "answered", ![w].bounced = TRUE]
             /\ UNCHANGED sendVars
    <3>1. worker[w].outcome = "sent" => accepted[worker[w].claim.job][worker[w].claim.user] > 0
      BY <1>1 DEF SendInv, OutcomesTrue
    <3> QED  BY <1>1, <1>4, <2>3, <3>1, AnswerIs
  <2> QED  BY <1>7, <2>1, <2>2, <2>3 DEF Trouble
<1> QED  BY <1>6, <1>7
\* A transaction counts with its own row changed and locked, or finds its
\* lease gone.
LEMMA Counting ==
    ASSUME SendInv, NEW w \in Workers, Count(w)
    PROVE  SendInv'
<1> DEFINE c == worker[w].claim
           rows == [recipient[c.job] EXCEPT ![c.user].status = worker[w].outcome]
           sent == Cardinality(With(rows, "sent"))
           failed == Cardinality(With(rows, "failed"))
           verdict == IF job[c.job].status = "sending" /\ Open(rows) = {}
                      THEN IF sent = 0 /\ failed > 0 THEN "failed" ELSE "completed"
                      ELSE "same"
           record == [todo |-> worker[w].todo, claim |-> c, phase |-> "counted",
                      outcome |-> worker[w].outcome, bounced |-> worker[w].bounced,
                      sent |-> sent, failed |-> failed,
                      was |-> [sent |-> job[c.job].sent, failed |-> job[c.job].failed],
                      verdict |-> verdict]
<1>1. /\ worker[w].phase = "answered" /\ worker[w].todo \subseteq Claims
      /\ c \in Claims /\ c.job \in Broadcasts /\ c.user \in Users
      /\ worker[w].outcome \in Outcomes /\ worker[w].bounced \in BOOLEAN
      /\ c \in InHand(w) /\ c \notin worker[w].todo
      /\ UNCHANGED <<job, recipient, member, staff, sendVars, faults>>
  BY WorkerOf DEF Count, SendInv, Shape, LeasesApart, InHand, Claims
<1>2. /\ RowShape' /\ RowsKept /\ JobShape'
      /\ \A b \in Broadcasts : /\ job'[b].preview = job[b].preview /\ job'[b].key = job[b].key
                               /\ job'[b].status \in {"none", "draft"} =>
                                    job[b].status \in {"none", "draft"}
      /\ recipient' = recipient /\ UNCHANGED sendVars
  BY <1>1, SameRows
<1>3. CASE Holds(c) /\ worker' = [worker EXCEPT ![w] = record] /\ UNCHANGED blocked
  <2>1. sent \in Nat /\ failed \in Nat
    <3>1. DOMAIN rows = Users
      BY <1>1 DEF SendInv, Shape, RowShape
    <3> HIDE DEF rows
    <3>2. With(rows, "sent") \subseteq Users /\ With(rows, "failed") \subseteq Users
      BY <3>1 DEF With
    <3> QED  BY <3>2, Sizes, FS_Subset, FS_CardinalityType
  <2>2. verdict \in {"same", "completed", "failed"}
    OBVIOUS
  <2>3. job[c.job].sent \in Nat /\ job[c.job].failed \in Nat
    BY <1>1 DEF SendInv, Shape, JobShape, Jobs
  <2> HIDE DEF sent, failed, verdict
  <2>4. /\ record \in Counted /\ record.todo = worker[w].todo /\ record.claim = c
        /\ record.phase = "counted" /\ record.outcome = worker[w].outcome
    BY <1>1, <2>1, <2>2, <2>3 DEF Counted
  <2>5. PeopleShape'
    BY <1>1, <1>3 DEF SendInv, Shape, PeopleShape
  <2>6. recipient'[c.job][c.user] = [status |-> "sending", attempts |-> c.token]
    BY <1>2, <1>3 DEF Holds
  <2>7. worker[w].outcome = "sent" => accepted[c.job][c.user] > 0
    BY <1>1 DEF SendInv, OutcomesTrue
  <2>8. worker' = [worker EXCEPT ![w] = record]
    BY <1>3
  <2> HIDE DEF record
  <2>9. recipient'[record.claim.job][record.claim.user] =
        [status |-> "sending", attempts |-> record.claim.token]
    BY <2>4, <2>6
  <2> QED  BY <1>1, <1>2, <2>4, <2>5, <2>7, <2>8, <2>9, WorkerStep
<1>4. CASE /\ worker' = [worker EXCEPT ![w] = Rest(w)]
           /\ blocked' = IF worker[w].bounced THEN blocked \cup {c.user} ELSE blocked
  <2>1. /\ Rest(w) \in Idle /\ Rest(w).todo = worker[w].todo /\ Rest(w).phase = "waiting"
    BY <1>1 DEF Rest, Idle
  <2>2. PeopleShape'
    BY <1>1, <1>4 DEF SendInv, Shape, PeopleShape
  <2> QED  BY <1>1, <1>2, <1>4, <2>1, <2>2, WorkerStep
<1> QED  BY <1>3, <1>4 DEF Count
\* The outcome is recorded on the row that is locked, and progress with it.
LEMMA Committing ==
    ASSUME SendInv, NEW w \in Workers, Commit(w)
    PROVE  SendInv'
<1> DEFINE c == worker[w].claim
           outcome == worker[w].outcome
           new == Progressed(job[c.job], worker[w])
<1>1. /\ worker[w].phase = "counted" /\ worker[w] \in Counted /\ worker[w].todo \subseteq Claims
      /\ c \in Claims /\ c.job \in Broadcasts /\ c.user \in Users
      /\ outcome \in Outcomes
      /\ UNCHANGED <<member, staff, sendVars, faults>>
      /\ worker' = [worker EXCEPT ![w] = Rest(w)]
      /\ recipient' = [recipient EXCEPT ![c.job][c.user].status = outcome]
      /\ job' = [job EXCEPT ![c.job] = new]
      /\ blocked' = blocked \/ blocked' = blocked \cup {c.user}
  BY WorkerOf DEF Commit, SendInv, Shape, Claims
<1>2. /\ c \in InHand(w) /\ Holds(c) /\ recipient[c.job][c.user].status = "sending"
      /\ recipient[c.job][c.user] # NoRow
  <2>1. c \in InHand(w) /\ Holds(c)
    BY <1>1 DEF InHand, SendInv, OutcomesTrue
  <2> QED  BY <2>1 DEF Holds, NoRow
<1>3. JobShape'
      /\ \A b \in Broadcasts : /\ job'[b].preview = job[b].preview /\ job'[b].key = job[b].key
                               /\ job'[b].status \in {"none", "draft"} =>
                                    job[b].status \in {"none", "draft"}
  <2>1. job[c.job] \in Jobs
    BY <1>1 DEF SendInv, Shape, JobShape
  <2>2. /\ new \in Jobs /\ new.preview = job[c.job].preview /\ new.key = job[c.job].key
        /\ new.status = job[c.job].status \/ new.status \in {"completed", "failed"}
    BY <1>1, <2>1 DEF Progressed, Written, Jobs, Counted
  <2> HIDE DEF new
  <2>3. JobShape' /\ job'[c.job] = new /\ \A b \in Broadcasts \ {c.job} : job'[b] = job[b]
    BY <2>2, <1>1 DEF SendInv, Shape, JobShape
  <2> QED  BY <2>2, <2>3
<1> HIDE DEF new
<1>4. /\ recipient'[c.job][c.user] = [recipient[c.job][c.user] EXCEPT !.status = outcome]
      /\ \A b \in Broadcasts, u \in Users : b # c.job \/ u # c.user =>
           recipient'[b][u] = recipient[b][u]
      /\ recipient' \in [Broadcasts -> [Users -> Row \cup {NoRow}]]
  <2> DEFINE row == [recipient[c.job][c.user] EXCEPT !.status = outcome]
  <2>1. row \in Row
    <3>1. recipient[c.job][c.user] \in Row
      BY <1>1, <1>2, RowOf DEF SendInv, Shape
    <3>2. outcome \in {"pending", "sending", "sent", "failed", "cancelled"}
      BY <1>1 DEF Outcomes
    <3> HIDE DEF outcome
    <3> QED  BY <3>1, <3>2 DEF Row
  <2>2. recipient' = [recipient EXCEPT ![c.job] = [recipient[c.job] EXCEPT ![c.user] = row]]
    BY <1>1
  <2> HIDE DEF row, c
  <2>3. /\ recipient'[c.job][c.user] = row
        /\ \A b \in Broadcasts, u \in Users : b # c.job \/ u # c.user =>
             recipient'[b][u] = recipient[b][u]
        /\ recipient' \in [Broadcasts -> [Users -> Row \cup {NoRow}]]
    BY <1>1, <2>1, <2>2, SMTT(30) DEF SendInv, Shape, RowShape
  <2> QED  BY <2>3 DEF row, c
<1>5. RowShape' /\ RowsKept
  <2>1. outcome \in {"pending", "sent", "failed", "cancelled"}
    BY <1>1 DEF Outcomes
  <2> HIDE DEF c, outcome
  <2>2. Restated(c.job, c.user, outcome)
    <3>1. /\ recipient'[c.job][c.user] = [recipient[c.job][c.user] EXCEPT !.status = outcome]
          /\ recipient[c.job][c.user] # NoRow
      BY <1>2, <1>4, Zenon
    <3> QED  BY <3>1, Zenon DEF Restated
  <2>3. \A b \in Broadcasts, u \in Users :
          recipient'[b][u] = recipient[b][u]
          \/ \E s \in {"pending", "sent", "failed", "cancelled"} : Restated(b, u, s)
    <3>1. ASSUME NEW b \in Broadcasts, NEW u \in Users, b = c.job, u = c.user
          PROVE  Restated(b, u, outcome)
      BY <2>2, <3>1
    <3>2. ASSUME NEW b \in Broadcasts, NEW u \in Users, b # c.job \/ u # c.user
          PROVE  recipient'[b][u] = recipient[b][u]
      BY <1>4, <3>2
    <3> QED  BY <2>1, <3>1, <3>2
  <2>4. DOMAIN recipient' = Broadcasts
    BY <1>4
  <2> QED  BY <1>4, <2>3, <2>4, RowsRestated
<1>6. \A b \in Broadcasts, u \in Users : recipient'[b][u].status = "sent" =>
        recipient[b][u].status = "sent" \/ accepted[b][u] > 0
  <2>1. recipient'[c.job][c.user].status = outcome
    <3>1. recipient[c.job][c.user] \in Row
      BY <1>1, <1>2, RowOf DEF SendInv, Shape
    <3> QED  BY <1>4, <3>1 DEF Row
  <2>2. outcome = "sent" => accepted[c.job][c.user] > 0
    BY <1>1 DEF SendInv, OutcomesTrue
  <2> QED  BY <1>4, <2>1, <2>2
<1>7. \A v \in Workers \ {w} : worker[v].phase = "counted" =>
        recipient'[worker[v].claim.job][worker[v].claim.user] =
        recipient[worker[v].claim.job][worker[v].claim.user]
  <2>1. ASSUME NEW v \in Workers \ {w}, worker[v].phase = "counted"
        PROVE  recipient'[worker[v].claim.job][worker[v].claim.user] =
               recipient[worker[v].claim.job][worker[v].claim.user]
    <3>1. ~(worker[v].claim.job = c.job /\ worker[v].claim.user = c.user)
      BY <1>2, <2>1, CountedApart
    <3>2. worker[v].claim.job \in Broadcasts /\ worker[v].claim.user \in Users
      BY <2>1, WorkerOf DEF SendInv, Shape, Claims
    <3> QED  BY <1>4, <3>1, <3>2
  <2> QED  BY <2>1
<1>8. /\ Rest(w) \in Idle /\ Rest(w).todo = worker[w].todo /\ Rest(w).phase = "waiting"
  BY <1>1 DEF Rest, Idle
<1>9. PeopleShape' /\ UNCHANGED sendVars
  BY <1>1 DEF SendInv, Shape, PeopleShape
<1> QED  BY <1>1, <1>3, <1>5, <1>6, <1>7, <1>8, <1>9, WorkerStep
\* A row that is locked is held, by the worker whose transaction has it.
LEMMA LockedIsHeld ==
    ASSUME SendInv, NEW b \in Broadcasts, NEW u \in Users, Locked(b, u)
    PROVE  Held(b, u) /\ recipient[b][u].status = "sending"
<1>1. PICK v \in Workers : /\ worker[v].phase = "counted"
                           /\ worker[v].claim.job = b /\ worker[v].claim.user = u
  BY DEF Locked
<1>2. worker[v].claim \in InHand(v) /\ Holds(worker[v].claim)
  BY <1>1 DEF InHand, SendInv, OutcomesTrue
<1>3. recipient[b][u].status = "sending"
  BY <1>1, <1>2 DEF Holds
<1> QED  BY <1>1, <1>2, <1>3 DEF Held

\* The claims of a batch have the next token of their rows.
Given(batch) ==
    {[job |-> p[1], user |-> p[2], token |-> recipient[p[1]][p[2]].attempts + 1] : p \in batch}
Taken(b, u) ==
    recipient'[b][u] = [status |-> "sending", attempts |-> recipient[b][u].attempts + 1]
Ended(b, u) == recipient'[b][u] = [recipient[b][u] EXCEPT !.status = "cancelled"]
Free(b, u) == /\ recipient[b][u] # NoRow /\ ~Locked(b, u)
              /\ recipient[b][u].status \in {"pending", "sending"}

\* What claiming a batch does to each row.
LEMMA ClaimedRows ==
    ASSUME SendInv, NEW w \in Workers, ClaimBatch(w)
    PROVE  /\ worker[w] = Waiting /\ UNCHANGED <<peopleVars, sendVars>> /\ faults' \in 0 .. MaxFaults
           /\ job' = [b \in Broadcasts |->
                IF Unaccounted(b) THEN [job[b] EXCEPT !.status = "failed"] ELSE job[b]]
           /\ recipient' = [b \in Broadcasts |-> [u \in Users |-> recipient'[b][u]]]
           /\ \E batch \in SUBSET (Broadcasts \X Users) :
                /\ worker' = [worker EXCEPT ![w].todo = Given(batch)]
                /\ \A b \in Broadcasts, u \in Users :
                     \/ <<b, u>> \in batch /\ Taken(b, u) /\ Free(b, u)
                     \/ <<b, u>> \notin batch /\ Ended(b, u) /\ Free(b, u)
                     \/ <<b, u>> \notin batch /\ recipient'[b][u] = recipient[b][u]
<1> DEFINE Expired(late, b) == Abandoned(b) \cup {u \in Users : <<b, u>> \in late}
           Due(late) == {p \in Broadcasts \X Users :
                          /\ job[p[1]].status = "sending" /\ ~Unaccounted(p[1])
                          /\ ~Locked(p[1], p[2])
                          /\ \/ recipient[p[1]][p[2]].status = "pending"
                             \/ p[2] \in Expired(late, p[1])}
           Rows(late, batch) == [b \in Broadcasts |-> [u \in Users |->
             IF <<b, u>> \in batch
               THEN [status |-> "sending", attempts |-> recipient[b][u].attempts + 1]
             ELSE IF \/ Stopped(b) /\ u \in Expired(late, b)
                     \/ Unaccounted(b) /\ recipient[b][u].status = "pending"
               THEN [recipient[b][u] EXCEPT !.status = "cancelled"]
             ELSE recipient[b][u]]]
<1>1. \E late \in {{}} \cup {{p} : p \in Broadcasts \X Users} :
        /\ \A p \in late : recipient[p[1]][p[2]].status = "sending" /\ Held(p[1], p[2])
                           /\ ~Locked(p[1], p[2])
        /\ Fault(Cardinality(late))
        /\ \E batch \in SUBSET Due(late) :
             /\ Cardinality(batch) = Min({BatchSize, Cardinality(Due(late))})
             /\ \A p \in late : p \in batch \/ Stopped(p[1])
             /\ recipient' = Rows(late, batch)
             /\ job' = [b \in Broadcasts |->
                  IF Unaccounted(b) THEN [job[b] EXCEPT !.status = "failed"] ELSE job[b]]
             /\ worker' = [worker EXCEPT ![w].todo = Given(batch)]
  BY Zenon DEF ClaimBatch, Given
<1>2. PICK late \in {{}} \cup {{p} : p \in Broadcasts \X Users} :
        /\ \A p \in late : recipient[p[1]][p[2]].status = "sending" /\ ~Locked(p[1], p[2])
        /\ Fault(Cardinality(late))
        /\ \E batch \in SUBSET Due(late) :
             /\ recipient' = Rows(late, batch)
             /\ job' = [b \in Broadcasts |->
                  IF Unaccounted(b) THEN [job[b] EXCEPT !.status = "failed"] ELSE job[b]]
             /\ worker' = [worker EXCEPT ![w].todo = Given(batch)]
  <2> HIDE DEF Due, Rows
  <2> QED  BY <1>1, Zenon
<1>3. PICK batch \in SUBSET Due(late) :
        /\ recipient' = Rows(late, batch)
        /\ job' = [b \in Broadcasts |->
             IF Unaccounted(b) THEN [job[b] EXCEPT !.status = "failed"] ELSE job[b]]
        /\ worker' = [worker EXCEPT ![w].todo = Given(batch)]
  <2> HIDE DEF Due, Rows
  <2> QED  BY <1>2, Zenon
<1>4. /\ batch \in SUBSET (Broadcasts \X Users)
      /\ \A p \in batch : /\ ~Locked(p[1], p[2])
                          /\ \/ recipient[p[1]][p[2]].status = "pending"
                             \/ p[2] \in Abandoned(p[1]) \/ <<p[1], p[2]>> \in late
  <2> HIDE DEF Rows
  <2> QED  OBVIOUS
<1>5. worker[w] = Waiting /\ UNCHANGED <<peopleVars, sendVars>>
  BY DEF ClaimBatch
<1>6. \A b \in Broadcasts, u \in Users :
        recipient[b][u].status = "pending" \/ u \in Abandoned(b) \/ <<b, u>> \in late => Free(b, u)
  <2>1. ASSUME NEW b \in Broadcasts, NEW u \in Users, <<b, u>> \in late
        PROVE  recipient[b][u].status = "sending" /\ ~Locked(b, u)
    BY <1>2, <2>1
  <2>2. ASSUME NEW b \in Broadcasts, NEW u \in Users, u \in Abandoned(b)
        PROVE  recipient[b][u].status = "sending" /\ ~Held(b, u)
    BY <2>2 DEF Abandoned, With
  <2> QED  BY <2>1, <2>2, LockedIsHeld DEF NoRow, Free
<1>7. ASSUME NEW b \in Broadcasts, NEW u \in Users
      PROVE  \/ <<b, u>> \in batch /\ Taken(b, u) /\ Free(b, u)
             \/ <<b, u>> \notin batch /\ Ended(b, u) /\ Free(b, u)
             \/ <<b, u>> \notin batch /\ recipient'[b][u] = recipient[b][u]
  <2>1. <<b, u>> \in batch => Taken(b, u) /\ Free(b, u)
    <3>1. ASSUME <<b, u>> \in batch
          PROVE  recipient[b][u].status = "pending" \/ u \in Abandoned(b) \/ <<b, u>> \in late
      BY <1>4, <3>1, Zenon
    <3>2. <<b, u>> \in batch => Taken(b, u)
      BY <1>3 DEF Taken
    <3> QED  BY <1>6, <3>1, <3>2
  <2>2. <<b, u>> \notin batch =>
          (Ended(b, u) /\ Free(b, u)) \/ recipient'[b][u] = recipient[b][u]
    <3>1. recipient'[b][u] =
            IF <<b, u>> \in batch
               THEN [status |-> "sending", attempts |-> recipient[b][u].attempts + 1]
            ELSE IF \/ Stopped(b) /\ (u \in Abandoned(b) \/ <<b, u>> \in late)
                    \/ Unaccounted(b) /\ recipient[b][u].status = "pending"
              THEN [recipient[b][u] EXCEPT !.status = "cancelled"]
            ELSE recipient[b][u]
      BY <1>3
    <3> QED  BY <1>6, <3>1 DEF Ended
  <2> QED  BY <2>1, <2>2
<1>8. faults' \in 0 .. MaxFaults
  <2>1. Cardinality(late) \in Nat
    <3> DEFINE pairs == Broadcasts \X Users
    <3>0. late \in {{}} \cup {{p} : p \in pairs}
      OBVIOUS
    <3> HIDE DEF pairs
    <3>1. late = {} \/ \E p : late = {p}
      BY ONLY <3>0
    <3>2. IsFiniteSet({}) /\ \A p : IsFiniteSet({p})
      BY FS_EmptySet, FS_Singleton
    <3>3. IsFiniteSet(late)
      BY <3>1, <3>2, Zenon
    <3> QED  BY <3>3, FS_CardinalityType
  <2> QED  BY <2>1, <1>2, Sizes DEF Fault, SendInv, Shape, PeopleShape
<1>9. recipient' = [b \in Broadcasts |-> [u \in Users |-> recipient'[b][u]]]
  <2>1. \A b \in Broadcasts : recipient'[b] = [u \in Users |-> recipient'[b][u]]
    BY <1>3
  <2>2. recipient' = [b \in Broadcasts |-> recipient'[b]]
    BY <1>3
  <2> QED  BY <2>1, <2>2
<1> HIDE DEF Due, Rows
<1> QED  BY <1>3, <1>4, <1>5, <1>7, <1>8, <1>9

\* A batch: every claim has the next token of its row; no row that is locked
\* is touched.
LEMMA Claiming ==
    ASSUME SendInv, NEW w \in Workers, ClaimBatch(w)
    PROVE  SendInv'
<1>1. /\ worker[w] = Waiting /\ UNCHANGED <<peopleVars, sendVars>> /\ faults' \in 0 .. MaxFaults
      /\ job' = [b \in Broadcasts |->
           IF Unaccounted(b) THEN [job[b] EXCEPT !.status = "failed"] ELSE job[b]]
      /\ recipient' = [b \in Broadcasts |-> [u \in Users |-> recipient'[b][u]]]
  BY ClaimedRows
<1>2. UNCHANGED <<peopleVars, sendVars>>
  BY <1>1
<1>3. PICK batch \in SUBSET (Broadcasts \X Users) :
        /\ worker' = [worker EXCEPT ![w].todo = Given(batch)]
        /\ \A b \in Broadcasts, u \in Users :
             \/ <<b, u>> \in batch /\ Taken(b, u) /\ Free(b, u)
             \/ <<b, u>> \notin batch /\ Ended(b, u) /\ Free(b, u)
             \/ <<b, u>> \notin batch /\ recipient'[b][u] = recipient[b][u]
  BY ClaimedRows
<1>4. ASSUME NEW b \in Broadcasts, NEW u \in Users
      PROVE  \/ <<b, u>> \in batch /\ Taken(b, u) /\ Free(b, u)
             \/ <<b, u>> \notin batch /\ Ended(b, u) /\ Free(b, u)
             \/ <<b, u>> \notin batch /\ recipient'[b][u] = recipient[b][u]
  BY <1>3
<1>5. /\ recipient' \in [Broadcasts -> [Users -> Row \cup {NoRow}]]
      /\ \A b \in Broadcasts, u \in Users :
           /\ recipient[b][u].attempts \in Nat /\ recipient'[b][u].attempts \in Nat
           /\ recipient[b][u].attempts <= recipient'[b][u].attempts
           /\ recipient'[b][u] = NoRow <=> recipient[b][u] = NoRow
           /\ recipient'[b][u].status = "sent" => recipient[b][u].status = "sent"
           /\ recipient'[b][u] \in Row \cup {NoRow}
  <2>1. ASSUME NEW b \in Broadcasts, NEW u \in Users
        PROVE  /\ recipient[b][u].attempts \in Nat /\ recipient'[b][u].attempts \in Nat
               /\ recipient[b][u].attempts <= recipient'[b][u].attempts
               /\ recipient'[b][u] = NoRow <=> recipient[b][u] = NoRow
               /\ recipient'[b][u].status = "sent" => recipient[b][u].status = "sent"
               /\ recipient'[b][u] \in Row \cup {NoRow}
    <3>1. /\ recipient[b][u] \in Row \cup {NoRow} /\ recipient[b][u].attempts \in Nat
          /\ recipient[b][u] # NoRow => recipient[b][u] \in Row
      BY RowOf DEF SendInv, Shape, RowShape
    <3>2. CASE Taken(b, u) /\ Free(b, u)
      BY <3>1, <3>2 DEF Row, NoRow, Taken, Free
    <3>3. CASE Ended(b, u) /\ Free(b, u)
      BY <3>1, <3>3 DEF Row, NoRow, Ended, Free
    <3>4. CASE recipient'[b][u] = recipient[b][u]
      BY <3>1, <3>4
    <3> QED  BY <1>4, <3>2, <3>3, <3>4
  <2>2. /\ recipient' = [b \in Broadcasts |-> recipient'[b]]
        /\ \A b \in Broadcasts : recipient'[b] = [u \in Users |-> recipient'[b][u]]
    BY <1>1
  <2> QED  BY <2>1, <2>2
<1>6. /\ Given(batch) \subseteq Claims
      /\ \A c \in Given(batch) : /\ c.job \in Broadcasts /\ c.user \in Users
                                 /\ c.token = recipient[c.job][c.user].attempts + 1
                                 /\ c.token = recipient'[c.job][c.user].attempts
                                 /\ recipient[c.job][c.user] # NoRow
  <2>1. ASSUME NEW p \in batch
        PROVE  /\ p[1] \in Broadcasts /\ p[2] \in Users /\ p = <<p[1], p[2]>>
               /\ recipient[p[1]][p[2]].attempts \in Nat
               /\ recipient'[p[1]][p[2]].attempts = recipient[p[1]][p[2]].attempts + 1
               /\ recipient[p[1]][p[2]] # NoRow
    <3>1. p[1] \in Broadcasts /\ p[2] \in Users /\ p = <<p[1], p[2]>> /\ <<p[1], p[2]>> \in batch
      <4>1. p \in Broadcasts \X Users
        OBVIOUS
      <4> QED  BY <4>1
    <3>2. Taken(p[1], p[2]) /\ Free(p[1], p[2])
      BY <1>4, <3>1, Zenon
    <3> QED  BY <3>1, <3>2, <1>5 DEF Taken, Free
  <2> QED  BY <2>1 DEF Claims, Given
<1>7. /\ WorkerShape' /\ \A v \in Workers \ {w} : worker'[v] = worker[v]
      /\ worker'[w].phase = "waiting" /\ worker'[w].todo = Given(batch)
      /\ worker[w].phase = "waiting"
  BY <1>1, <1>3, <1>6 DEF SendInv, Shape, WorkerShape, Waiting, Idle
<1>8. /\ InHand(w)' = Given(batch) /\ ToSend(w)' = Given(batch)
      /\ \A v \in Workers \ {w} : InHand(v)' = InHand(v) /\ ToSend(v)' = ToSend(v)
      /\ \A v \in Workers : InHand(v) \subseteq Claims
  BY <1>7, WorkerOf DEF InHand, ToSend, SendInv, Shape
<1>9. /\ JobShape'
      /\ \A b \in Broadcasts : /\ job'[b].preview = job[b].preview /\ job'[b].key = job[b].key
                               /\ job'[b].status \in {"none", "draft"} =>
                                    job[b].status \in {"none", "draft"}
  BY <1>1, ZenonT(60) DEF SendInv, Shape, JobShape, Jobs
<1>10. RowsAgreed'
  BY <1>5, <1>9 DEF SendInv, RowsAgreed
<1>11. \A v \in Workers \ {w} : \A c \in InHand(v) :
         /\ c.job \in Broadcasts /\ c.user \in Users /\ c.token \in Nat
         /\ recipient[c.job][c.user] # NoRow /\ c.token <= recipient[c.job][c.user].attempts
  BY <1>8 DEF SendInv, LeasesApart, Claims
<1>12. LeasesApart'
  <2>1. ASSUME NEW v \in Workers, NEW c \in InHand(v)'
        PROVE  recipient'[c.job][c.user] # NoRow /\ c.token <= recipient'[c.job][c.user].attempts
    <3>1. CASE v = w
      BY <3>1, <1>5, <1>6, <1>8
    <3>2. CASE v # w
      BY <3>2, <1>5, <1>8, <1>11
    <3> QED  BY <3>1, <3>2
  <2>2. ASSUME NEW v \in Workers \ {w}, NEW c \in InHand(v)
        PROVE  c \notin Given(batch)
    BY <1>5, <1>6, <1>11
  <2>3. \A v, x \in Workers : \A c \in InHand(v)' : c \in InHand(x)' => v = x
    BY <2>2, <1>8 DEF SendInv, LeasesApart
  <2>4. \A v \in Workers : worker'[v].phase # "waiting" => worker'[v].claim \notin worker'[v].todo
    BY <1>7 DEF SendInv, LeasesApart
  <2> QED  BY <2>1, <2>3, <2>4 DEF LeasesApart
<1>13. SendsCounted'
  <2>1. ASSUME NEW b \in Broadcasts, NEW u \in Users
        PROVE  Spent(b, u) \subseteq Spent(b, u)'
    <3>1. ASSUME NEW n \in Spent(b, u)
          PROVE  n \in Spent(b, u)'
      <4>1. n \in 1 .. recipient'[b][u].attempts /\ n # recipient[b][u].attempts + 1
        BY <1>5 DEF Spent
      <4>2. \A v \in Workers \ {w} : [job |-> b, user |-> u, token |-> n] \notin ToSend(v)'
        BY <1>8 DEF Spent
      <4>3. [job |-> b, user |-> u, token |-> n] \notin ToSend(w)'
        BY <4>1, <1>6, <1>8
      <4> QED  BY <4>1, <4>2, <4>3 DEF Spent
    <3> QED  BY <3>1
  <2>2. RowShape' /\ accepted' = accepted
    BY <1>2, <1>5 DEF RowShape, sendVars
  <2> QED  BY <2>1, <2>2, MoreSpent DEF SendsCounted
<1>14. OutcomesTrue'
  <2>1. ASSUME NEW v \in Workers, worker'[v].phase = "counted"
        PROVE  v # w /\ Holds(worker[v].claim)'
    <3>1. v # w /\ worker'[v] = worker[v]
      BY <1>7, <2>1
    <3>2. Holds(worker[v].claim) /\ worker[v].claim.job \in Broadcasts /\ worker[v].claim.user \in Users
      BY <2>1, <3>1, <1>11 DEF InHand, SendInv, OutcomesTrue
    <3>3. Locked(worker[v].claim.job, worker[v].claim.user)
      BY <2>1, <3>1 DEF Locked
    <3>4. recipient'[worker[v].claim.job][worker[v].claim.user] =
          recipient[worker[v].claim.job][worker[v].claim.user]
      BY <3>2, <3>3, <1>4 DEF Free
    <3> QED  BY <3>1, <3>2, <3>4 DEF Holds
  <2>2. accepted' = accepted
    BY <1>2 DEF sendVars
  <2>3. \A b \in Broadcasts, u \in Users : recipient'[b][u].status = "sent" => accepted'[b][u] > 0
    BY <2>2, <1>5 DEF SendInv, OutcomesTrue
  <2>4. \A v \in Workers : worker'[v].phase # "waiting" => worker'[v] = worker[v]
    BY <1>7
  <2>5. \A v \in Workers : worker'[v].phase # "waiting" /\ worker'[v].outcome = "sent" =>
          accepted'[worker'[v].claim.job][worker'[v].claim.user] > 0
    BY <2>2, <2>4 DEF SendInv, OutcomesTrue
  <2> QED  BY <2>1, <2>3, <2>5 DEF OutcomesTrue
<1>15. PeopleShape'
  BY <1>1, <1>2 DEF SendInv, Shape, PeopleShape, peopleVars
<1>16. RowShape' /\ SendShape'
  BY <1>2, <1>5 DEF RowShape, SendInv, Shape, SendShape, sendVars
<1> QED  BY <1>7, <1>9, <1>10, <1>12, <1>13, <1>14, <1>15, <1>16 DEF SendInv, Shape

-----------------------------------------------------------------------------
(* The theorems. *)

LEMMA SendNext == SendInv /\ [Next]_vars => SendInv'
<1> SUFFICES ASSUME SendInv, [Next]_vars PROVE SendInv'
  OBVIOUS
<1>1. CASE \E b \in Broadcasts : CreateDraft(b) \/ Preview(b) \/ Cancel(b)
  BY <1>1, Drafting, Cancelling
<1>2. CASE \E b \in Broadcasts, k \in Keys : Launch(b, k)
  BY <1>2, Launching
<1>3. CASE ChangeStaff \/ \E u \in Users : ChangeCustomer(u)
  BY <1>3, PeopleChange
<1>4. CASE \E w \in Workers : Deliver(w) \/ Trouble(w) \/ Stop(w)
  BY <1>4, Claiming, Checking, Posting, Counting, Committing, Stopping DEF Deliver
<1>5. CASE UNCHANGED vars
  <2>1. UNCHANGED <<job, recipient, member, blocked, staff, worker, accepted, overrun, faults>>
    BY <1>5 DEF vars
  <2>2. Shape'
    BY <2>1 DEF SendInv, Shape, JobShape, RowShape, WorkerShape, SendShape, PeopleShape
  <2>3. RowsAgreed'
    BY <2>1 DEF SendInv, RowsAgreed
  <2> QED  BY <2>1, <2>2, <2>3, ElsewhereStep DEF RowsKept
<1> QED  BY <1>1, <1>2, <1>3, <1>4, <1>5 DEF Next

LEMMA SendInvariant == Spec => []SendInv
BY SendStart, SendNext, PTL DEF Spec

\* The shape of broadcasts, recipients, leases and progress.
THEOREM BroadcastTypes == Spec => []TypeOK
<1>1. SendInv => TypeOK
  BY WorkerOf DEF SendInv, Shape, TypeOK, JobShape, RowShape, SendShape, PeopleShape
<1> QED  BY <1>1, SendInvariant, PTL

\* Whoever is written to is of the audience that was confirmed, each lease
\* writes once, and a row says "sent" only of a message Telegram took: however
\* many workers, crashes, late leases and lost answers there are.
THEOREM OnlyTheAudience == Spec => []AudienceAsConfirmed
<1>1. SendInv => AudienceAsConfirmed
  <2> SUFFICES ASSUME SendInv, NEW b \in Broadcasts, NEW u \in Users
               PROVE  /\ accepted[b][u] > 0 => u \in job[b].preview /\ job[b].key # NoKey
                      /\ accepted[b][u] <= recipient[b][u].attempts
                      /\ recipient[b][u].status = "sent" => accepted[b][u] > 0
    BY DEF AudienceAsConfirmed
  <2>1. /\ accepted[b][u] \in Nat /\ recipient[b][u].attempts \in Nat
        /\ Cardinality(Spent(b, u)) \in Nat
        /\ accepted[b][u] <= Cardinality(Spent(b, u))
        /\ Cardinality(Spent(b, u)) <= recipient[b][u].attempts
    BY RowOf, SpentFinite DEF SendInv, Shape, SendShape, SendsCounted
  <2>2. accepted[b][u] <= recipient[b][u].attempts
    BY <2>1
  <2>3. accepted[b][u] > 0 => recipient[b][u] # NoRow
    BY <2>1, <2>2 DEF NoRow
  <2> QED  BY <2>2, <2>3 DEF SendInv, RowsAgreed, OutcomesTrue
<1> QED  BY <1>1, SendInvariant, PTL

\* A row that is settled is neither pending, nor held, nor absent.
LEMMA SettledStays ==
    ASSUME SendInv, [Next]_vars, NEW b \in Broadcasts, NEW u \in Users,
           recipient[b][u].status \in {"sent", "failed", "cancelled"}
    PROVE  recipient'[b][u] = recipient[b][u]
<1>1. recipient \in [Broadcasts -> [Users -> Row \cup {NoRow}]] /\ recipient[b][u] # NoRow
  BY DEF SendInv, Shape, RowShape, NoRow
<1>2. ASSUME NEW d \in Broadcasts, NEW x \in Users, recipient[d][x].status = "sending",
             \/ recipient' = recipient
             \/ \E s : recipient' = [recipient EXCEPT ![d][x].status = s]
             \/ recipient' = [recipient EXCEPT ![d] =
                                [CancelPending(recipient[d]) EXCEPT ![x].status = "cancelled"]]
      PROVE  recipient'[b][u] = recipient[b][u]
  <2>1. d # b \/ x # u
    BY <1>2
  <2>2. CASE \E s : recipient' = [recipient EXCEPT ![d][x].status = s]
    BY <1>1, <2>1, <2>2
  <2>3. CASE recipient' = [recipient EXCEPT ![d] =
                             [CancelPending(recipient[d]) EXCEPT ![x].status = "cancelled"]]
    <3>1. CancelPending(recipient[b])[u] = recipient[b][u] /\ DOMAIN CancelPending(recipient[d]) = Users
      BY DEF CancelPending
    <3> QED  BY <1>1, <2>1, <2>3, <3>1
  <2> QED  BY <1>2, <2>2, <2>3
<1>3. ASSUME NEW d \in Broadcasts, CreateDraft(d) \/ Preview(d) \/ Cancel(d)
      PROVE  recipient'[b][u] = recipient[b][u]
  <2>1. CASE Cancel(d)
    <3>1. recipient' = [recipient EXCEPT ![d] = CancelPending(recipient[d])]
      BY <2>1 DEF Cancel
    <3>2. CancelPending(recipient[b])[u] = recipient[b][u]
      BY DEF CancelPending
    <3> QED  BY <1>1, <3>1, <3>2
  <2> QED  BY <1>3, <2>1 DEF CreateDraft, Preview
<1>4. ASSUME NEW d \in Broadcasts, NEW k \in Keys, Launch(d, k)
      PROVE  recipient'[b][u] = recipient[b][u]
  <2>1. b # d
    BY <1>1, <1>4 DEF Launch, Snapshot
  <2> QED  BY <1>1, <1>4, <2>1 DEF Launch
<1>5. ASSUME NEW w \in Workers, ClaimBatch(w)
      PROVE  recipient'[b][u] = recipient[b][u]
  BY <1>5, ClaimedRows DEF Free
<1>6. ASSUME NEW w \in Workers, Check(w)
      PROVE  recipient'[b][u] = recipient[b][u]
  <2>1. PICK c \in worker[w].todo :
          \/ recipient' = recipient
          \/ Holds(c) /\ recipient' = [recipient EXCEPT ![c.job][c.user].status = "cancelled"]
          \/ Holds(c) /\ recipient' = [recipient EXCEPT ![c.job] =
                           [CancelPending(recipient[c.job]) EXCEPT ![c.user].status = "cancelled"]]
    BY <1>6 DEF Check
  <2>2. c.job \in Broadcasts /\ c.user \in Users
    BY WorkerOf DEF SendInv, Shape, Claims
  <2>3. Holds(c) => recipient[c.job][c.user].status = "sending"
    BY DEF Holds
  <2> QED  BY <1>2, <2>1, <2>2, <2>3
<1>7. ASSUME NEW w \in Workers, Commit(w)
      PROVE  recipient'[b][u] = recipient[b][u]
  <2> DEFINE c == worker[w].claim
  <2>1. /\ worker[w].phase = "counted"
        /\ recipient' = [recipient EXCEPT ![c.job][c.user].status = worker[w].outcome]
    BY <1>7 DEF Commit
  <2>2. Holds(c) /\ c.job \in Broadcasts /\ c.user \in Users
    BY <2>1, WorkerOf DEF SendInv, Shape, OutcomesTrue, Claims
  <2>3. recipient[c.job][c.user].status = "sending"
    BY <2>2 DEF Holds
  <2> HIDE DEF c
  <2>4. \E s : recipient' = [recipient EXCEPT ![c.job][c.user].status = s]
    BY <2>1
  <2> QED  BY <1>2, <2>2, <2>3, <2>4
<1>8. ASSUME NEW w \in Workers, Post(w) \/ Count(w) \/ Trouble(w) \/ Stop(w)
      PROVE  recipient'[b][u] = recipient[b][u]
  BY <1>8 DEF Post, Count, Trouble, Stop
<1> QED  BY <1>3, <1>4, <1>5, <1>6, <1>7, <1>8 DEF Next, Deliver, ChangeStaff, ChangeCustomer, vars

\* A customer who got the message, whom it could not reach, or who was stopped
\* is never claimed again (claim_broadcast_batch, _mark_claim).
THEOREM SettledRowsStay == Spec => SettledForGood
<1>1. SendInv /\ [Next]_vars =>
        [\A b \in Broadcasts, u \in Users :
          recipient[b][u].status \in {"sent", "failed", "cancelled"}
              => recipient'[b][u] = recipient[b][u]]_vars
  BY SettledStays
<1> QED  BY <1>1, SendInvariant, PTL DEF Spec, SettledForGood

-----------------------------------------------------------------------------
(* What stops a broadcast stays. *)

On(b) == job[b].status = "sending" /\ Authorised(b)
Sends(b) == {w \in Workers : worker[w].phase = "checked" /\ worker[w].claim.job = b}

\* While a broadcast may send, nothing was sent too late; then each worker
\* that had checked may still send once.
StopSound(b) ==
    /\ job[b].epoch <= staff.epoch
    /\ On(b) \/ job[b].key = NoKey => overrun[b] = 0
    /\ overrun[b] + Cardinality(Sends(b)) <= Cardinality(Workers)

StopInv == \A b \in Broadcasts : StopSound(b)

\* Only a launch turns a broadcast on, and it is launched once.
JobMovesOn(b) ==
    /\ job'[b].key = NoKey => job[b].key = NoKey
    /\ job'[b].status = "sending" =>
        job[b].key = NoKey \/ (job[b].status = "sending" /\ job'[b].epoch = job[b].epoch)
    /\ job'[b].epoch \in {job[b].epoch, staff.epoch}

LEMMA JobMoves ==
    ASSUME SendInv, [Next]_vars, NEW b \in Broadcasts
    PROVE  JobMovesOn(b)
<1>1. job \in [Broadcasts -> Jobs] /\ staff.epoch \in Nat
  BY DEF SendInv, Shape, JobShape, PeopleShape
<1>2. job[b].status \in {"none", "draft"} => job[b].key = NoKey
  BY DEF SendInv, RowsAgreed
<1>3. CASE UNCHANGED job
  BY <1>3 DEF JobMovesOn
<1>4. ASSUME NEW d \in Broadcasts, CreateDraft(d) \/ Preview(d) \/ Cancel(d)
      PROVE  JobMovesOn(b)
  <2>1. CASE CreateDraft(d)
    BY <1>1, <1>2, <2>1 DEF CreateDraft, JobMovesOn, Jobs
  <2>2. CASE Preview(d)
    BY <1>1, <1>2, <2>2 DEF Preview, JobMovesOn, Jobs
  <2>3. CASE Cancel(d)
    BY <1>1, <2>3 DEF Cancel, JobMovesOn, Jobs
  <2> QED  BY <1>4, <2>1, <2>2, <2>3
<1>5. ASSUME NEW d \in Broadcasts, NEW k \in Keys, Launch(d, k)
      PROVE  JobMovesOn(b)
  <2> DEFINE status == IF Audience = {} THEN "completed" ELSE "sending"
             launched == [job[d] EXCEPT !.status = status, !.key = k, !.epoch = staff.epoch]
  <2>1. job' = [job EXCEPT ![d] = launched] /\ job[d].key = NoKey /\ k # NoKey
    BY <1>5, Sizes DEF Launch
  <2> HIDE DEF status
  <2>2. launched.key = k /\ launched.epoch = staff.epoch
    BY <1>1 DEF Jobs
  <2> HIDE DEF launched
  <2> QED  BY <1>1, <2>1, <2>2 DEF JobMovesOn
<1>6. ASSUME NEW w \in Workers, ClaimBatch(w)
      PROVE  JobMovesOn(b)
  <2>1. job' = [d \in Broadcasts |->
                  IF Unaccounted(d) THEN [job[d] EXCEPT !.status = "failed"] ELSE job[d]]
    BY <1>6 DEF ClaimBatch
  <2> QED  BY <1>1, <2>1 DEF JobMovesOn, Jobs
<1>7. ASSUME NEW w \in Workers, Check(w)
      PROVE  JobMovesOn(b)
  <2>1. PICK c \in worker[w].todo :
          job' = job \/ job' = [job EXCEPT ![c.job].status = "cancelled"]
    BY <1>7 DEF Check
  <2> QED  BY <1>1, <2>1 DEF JobMovesOn, Jobs
<1>8. ASSUME NEW w \in Workers, Commit(w)
      PROVE  JobMovesOn(b)
  <2>0. PICK d : d = worker[w].claim.job
    OBVIOUS
  <2>1. job' = [job EXCEPT ![d] = Progressed(job[d], worker[w])]
    BY <1>8, <2>0 DEF Commit
  <2>2. worker[w] \in Counted
    BY <1>8, WorkerOf DEF Commit, SendInv, Shape
  <2>3. CASE d = b
    <3> DEFINE s == Written(worker[w].sent, worker[w].was.sent, job[b].sent)
               f == Written(worker[w].failed, worker[w].was.failed, job[b].failed)
               t == IF worker[w].verdict = "same" THEN job[b].status ELSE worker[w].verdict
               x == [job[b] EXCEPT !.sent = s, !.failed = f, !.status = t]
    <3>1. job'[b] = x
      BY <1>1, <2>1, <2>3 DEF Progressed
    <3>2. t = "sending" => job[b].status = "sending"
      BY <2>2 DEF Counted
    <3> HIDE DEF s, f, t
    <3>3. x.key = job[b].key /\ x.epoch = job[b].epoch /\ x.status = t
      BY <1>1 DEF Jobs
    <3> QED  BY <3>1, <3>2, <3>3 DEF JobMovesOn
  <2>4. CASE d # b
    BY <1>1, <2>1, <2>4 DEF JobMovesOn
  <2> QED  BY <2>3, <2>4
<1>9. ASSUME NEW w \in Workers, Post(w) \/ Count(w) \/ Trouble(w) \/ Stop(w)
      PROVE  JobMovesOn(b)
  BY <1>3, <1>9 DEF Post, Count, Trouble, Stop
<1> QED  BY <1>3, <1>4, <1>5, <1>6, <1>7, <1>8, <1>9
         DEF Next, Deliver, ChangeStaff, ChangeCustomer, vars

LEMMA StaffMoves ==
    ASSUME SendInv, [Next]_vars
    PROVE  staff' = staff \/ (staff'.epoch = staff.epoch + 1 /\ UNCHANGED job)
<1>1. CASE ChangeStaff
  BY <1>1 DEF ChangeStaff
<1>2. UNCHANGED staff \/ ChangeStaff
  BY DEF Next, Deliver, CreateDraft, Preview, Cancel, Launch, ChangeCustomer, ClaimBatch, Check,
         Post, Trouble, Count, Commit, Stop, peopleVars, vars
<1> QED  BY <1>1, <1>2

\* A broadcast that was launched and is off stays off.
LEMMA StaysOff ==
    ASSUME SendInv, SendInv', StopInv, [Next]_vars, NEW b \in Broadcasts
    PROVE  /\ On(b)' => On(b) \/ job[b].key = NoKey
           /\ job'[b].epoch <= staff'.epoch
<1>1. JobMovesOn(b) /\ job[b].epoch <= staff.epoch
  BY JobMoves DEF StopInv, StopSound
<1>2. staff' = staff \/ (staff'.epoch = staff.epoch + 1 /\ UNCHANGED job)
  BY StaffMoves
<1>3. staff.epoch \in Nat /\ job[b].epoch \in Nat /\ job'[b].epoch \in Nat /\ staff'.epoch \in Nat
  BY DEF SendInv, Shape, PeopleShape, JobShape, Jobs
<1>4. job'[b].epoch <= staff'.epoch
  BY <1>1, <1>2, <1>3 DEF JobMovesOn
<1>5. On(b)' => On(b) \/ job[b].key = NoKey
  BY <1>1, <1>2, <1>3 DEF On, Authorised, JobMovesOn
<1> QED  BY <1>4, <1>5

LEMMA SendsFinite ==
    ASSUME NEW b
    PROVE  /\ IsFiniteSet(Sends(b)) /\ Cardinality(Sends(b)) \in Nat
           /\ Cardinality(Workers) \in Nat /\ Cardinality(Sends(b)) <= Cardinality(Workers)
<1>1. Sends(b) \subseteq Workers /\ IsFiniteSet(Workers)
  BY Sizes DEF Sends
<1> QED  BY <1>1, FS_Subset, FS_CardinalityType

\* Nothing is sent: only a check, of a broadcast that is on, gives leave to.
LEMMA StopKept ==
    ASSUME SendInv, SendInv', StopInv, [Next]_vars, NEW b \in Broadcasts,
           overrun'[b] = overrun[b],
           Sends(b)' \subseteq Sends(b) \/ On(b)
    PROVE  StopSound(b)'
<1>1. /\ StopSound(b) /\ (On(b)' => On(b) \/ job[b].key = NoKey) /\ job'[b].epoch <= staff'.epoch
      /\ job'[b].key = NoKey => job[b].key = NoKey
  BY StaysOff, JobMoves DEF StopInv, JobMovesOn
<1>2. overrun[b] \in Nat
  BY DEF SendInv, Shape, SendShape
<1>3. /\ Cardinality(Sends(b)) \in Nat /\ Cardinality(Sends(b)') \in Nat
      /\ Cardinality(Workers) \in Nat /\ Cardinality(Sends(b)') <= Cardinality(Workers)
  <2>1. Sends(b)' \subseteq Workers /\ IsFiniteSet(Workers)
    BY Sizes DEF Sends
  <2> QED  BY <2>1, SendsFinite, FS_Subset, FS_CardinalityType
<1>4. overrun'[b] + Cardinality(Sends(b)') <= Cardinality(Workers)
  <2>1. CASE On(b)
    BY <1>1, <1>2, <1>3, <2>1 DEF StopSound
  <2>2. CASE Sends(b)' \subseteq Sends(b)
    <3>1. Cardinality(Sends(b)') <= Cardinality(Sends(b))
      BY <2>2, SendsFinite, FS_Subset
    <3> QED  BY <1>1, <1>2, <1>3, <3>1 DEF StopSound
  <2> QED  BY <2>1, <2>2
<1> QED  BY <1>1, <1>4 DEF StopSound

\* Telegram takes the message of worker w: it may not send again before it
\* has checked again.
LEMMA AcceptStep ==
    ASSUME SendInv, SendInv', StopInv, [Next]_vars, NEW w \in Workers, NEW c,
           c = worker[w].claim, worker[w].phase = "checked", Accept(c),
           UNCHANGED <<job, staff>>,
           \E outcome : Answer(w, outcome)
    PROVE  StopInv'
<1>1. /\ c \in Claims /\ c \in InHand(w) /\ c.job \in Broadcasts /\ c.user \in Users
      /\ job[c.job].key # NoKey
  <2>1. c \in Claims /\ c \in InHand(w)
    BY WorkerOf DEF SendInv, Shape, InHand
  <2>2. c.job \in Broadcasts /\ c.user \in Users
    BY <2>1 DEF Claims
  <2> QED  BY <2>1, <2>2 DEF SendInv, LeasesApart, RowsAgreed
<1>2. /\ \A v \in Workers \ {w} : worker'[v] = worker[v]
      /\ worker'[w].phase = "answered"
  BY DEF Answer, SendInv, Shape, WorkerShape, Busy
<1>3. /\ overrun \in [Broadcasts -> Nat]
      /\ overrun' = IF On(c.job) THEN overrun
                    ELSE [overrun EXCEPT ![c.job] = overrun[c.job] + 1]
  BY DEF SendInv, Shape, SendShape, Accept, On
<1>4. \A b \in Broadcasts : On(b)' = On(b)
  BY DEF On, Authorised
<1>5. \A b \in Broadcasts : Sends(b)' = IF b = c.job THEN Sends(b) \ {w} ELSE Sends(b)
  BY <1>2 DEF Sends
<1>6. w \in Sends(c.job)
  BY DEF Sends
<1>7. ASSUME NEW b \in Broadcasts, b # c.job \/ On(b)
      PROVE  StopSound(b)'
  BY <1>3, <1>5, <1>7, StopKept
<1>8. ASSUME ~On(c.job)
      PROVE  StopSound(c.job)'
  <2> DEFINE sends == Sends(c.job)
  <2>1. StopSound(c.job)
    BY <1>1 DEF StopInv
  <2>2. IsFiniteSet(sends) /\ Cardinality(sends) \in Nat /\ Cardinality(Workers) \in Nat
    BY SendsFinite
  <2>3. sends' = sends \ {w} /\ w \in sends
    BY <1>1, <1>5, <1>6
  <2>4. overrun'[c.job] = overrun[c.job] + 1 /\ overrun[c.job] \in Nat
    BY <1>1, <1>3, <1>8
  <2>5. overrun[c.job] + Cardinality(sends) <= Cardinality(Workers)
    BY <2>1 DEF StopSound
  <2>6. job'[c.job].epoch <= staff'.epoch
    BY <2>1 DEF StopSound
  <2>7. ~On(c.job)' /\ job'[c.job].key # NoKey
    BY <1>1, <1>4, <1>8
  <2>8. overrun'[c.job] + Cardinality(sends') <= Cardinality(Workers)
    <3> HIDE DEF sends
    <3>1. Cardinality(sends \ {w}) = Cardinality(sends) - 1
      BY <2>2, <2>3, FS_RemoveElement
    <3> QED  BY <2>2, <2>3, <2>4, <2>5, <3>1
  <2> QED  BY <2>6, <2>7, <2>8 DEF StopSound
<1>9. \A b \in Broadcasts : StopSound(b)'
  BY <1>7, <1>8
<1> QED  BY <1>9 DEF StopInv

LEMMA StopStep ==
    ASSUME SendInv, SendInv', StopInv, [Next]_vars
    PROVE  StopInv'
<1>1. ASSUME NEW w \in Workers, worker[w].phase = "checked", Accept(worker[w].claim),
             UNCHANGED <<job, staff>>, \E outcome : Answer(w, outcome)
      PROVE  StopInv'
  <2>1. PICK c : c = worker[w].claim
    OBVIOUS
  <2> QED  BY <1>1, <2>1, AcceptStep
<1>2. ASSUME UNCHANGED overrun,
             \A b \in Broadcasts : Sends(b)' \subseteq Sends(b) \/ On(b)
      PROVE  StopInv'
  BY <1>2, StopKept DEF StopInv
<1>3. ASSUME NEW w \in Workers, UNCHANGED overrun,
             \A v \in Workers \ {w} : worker'[v] = worker[v],
             \/ worker'[w].phase # "checked"
             \/ worker'[w].phase = "checked" /\ On(worker'[w].claim.job)
             \/ worker'[w].phase = worker[w].phase /\ worker'[w].claim = worker[w].claim
      PROVE  StopInv'
  BY <1>2, <1>3 DEF Sends
<1>4. worker \in [Workers -> Idle \cup Busy \cup Counted]
  BY DEF SendInv, Shape, WorkerShape
<1>5. ASSUME UNCHANGED worker, UNCHANGED overrun
      PROVE  StopInv'
  BY <1>2, <1>5 DEF Sends
<1>6. ASSUME NEW w \in Workers, ClaimBatch(w)
      PROVE  StopInv'
  <2>1. UNCHANGED overrun /\ worker[w].phase = "waiting"
    BY <1>6 DEF ClaimBatch, Waiting, sendVars
  <2>3. PICK batch : worker' = [worker EXCEPT ![w].todo =
                     {[job |-> p[1], user |-> p[2], token |-> recipient[p[1]][p[2]].attempts + 1] :
                        p \in batch}]
    BY <1>6, Zenon DEF ClaimBatch
  <2>2. worker'[w].phase # "checked" /\ \A v \in Workers \ {w} : worker'[v] = worker[v]
    BY <1>4, <2>1, <2>3 DEF Idle, Busy, Counted
  <2> QED  BY <1>3, <2>1, <2>2
<1>7. ASSUME NEW w \in Workers, Check(w)
      PROVE  StopInv'
  <2>1. UNCHANGED overrun /\ worker[w].phase = "waiting"
    BY <1>7 DEF Check, sendVars
  <2>2. PICK c \in worker[w].todo :
          \/ worker' = [worker EXCEPT ![w].todo = @ \ {c}]
          \/ /\ job[c.job].status = "sending" /\ Authorised(c.job)
             /\ worker' = [worker EXCEPT ![w] =
                  [todo |-> worker[w].todo \ {c}, claim |-> c, bounced |-> FALSE,
                   phase |-> IF c.user \in blocked THEN "answered" ELSE "checked",
                   outcome |-> "failed"]]
    BY <1>7 DEF Check, Drop
  <2>3. CASE worker' = [worker EXCEPT ![w].todo = @ \ {c}]
    <3>1. worker'[w].phase # "checked" /\ \A v \in Workers \ {w} : worker'[v] = worker[v]
      BY <1>4, <2>1, <2>3 DEF Idle, Busy, Counted
    <3> QED  BY <1>3, <2>1, <3>1
  <2>4. CASE /\ job[c.job].status = "sending" /\ Authorised(c.job)
             /\ worker' = [worker EXCEPT ![w] =
                  [todo |-> worker[w].todo \ {c}, claim |-> c, bounced |-> FALSE,
                   phase |-> IF c.user \in blocked THEN "answered" ELSE "checked",
                   outcome |-> "failed"]]
    <3>1. worker'[w].claim = c /\ \A v \in Workers \ {w} : worker'[v] = worker[v]
      BY <1>4, <2>4
    <3> QED  BY <1>3, <2>1, <2>4, <3>1 DEF On
  <2> QED  BY <2>2, <2>3, <2>4
<1>8. ASSUME NEW w \in Workers, Post(w)
      PROVE  StopInv'
  BY <1>1, <1>8 DEF Post, peopleVars
<1>9. ASSUME NEW w \in Workers, Trouble(w)
      PROVE  StopInv'
  <2>1. CASE UNCHANGED sendVars
    <3>1. /\ \A v \in Workers \ {w} : worker'[v] = worker[v]
          /\ worker'[w].phase # "checked"
      BY <1>4, <1>9, WorkerOf DEF Trouble, Answer, Busy, SendInv, Shape
    <3> QED  BY <1>3, <2>1, <3>1 DEF sendVars
  <2>2. CASE Answer(w, "pending") /\ Accept(worker[w].claim)
    BY <1>1, <1>9, <2>2 DEF Trouble, peopleVars
  <2> QED  BY <1>9, <2>1, <2>2 DEF Trouble
<1>10. ASSUME NEW w \in Workers, Count(w)
       PROVE  StopInv'
  <2>1. /\ UNCHANGED overrun /\ worker[w].phase = "answered"
        /\ \E r : worker' = [worker EXCEPT ![w] = r] /\ r.phase # "checked"
    BY <1>10, ZenonT(60) DEF Count, Rest, sendVars
  <2> QED  BY <1>3, <1>4, <2>1
<1>11. ASSUME NEW w \in Workers, Commit(w) \/ Stop(w)
       PROVE  StopInv'
  <2>1. /\ UNCHANGED overrun
        /\ \E r : worker' = [worker EXCEPT ![w] = r] /\ r.phase # "checked"
    BY <1>11 DEF Commit, Stop, Rest, Waiting, sendVars
  <2> QED  BY <1>3, <1>4, <2>1
<1> QED  BY <1>5, <1>6, <1>7, <1>8, <1>9, <1>10, <1>11
         DEF Next, Deliver, CreateDraft, Preview, Cancel, Launch, ChangeStaff, ChangeCustomer,
             sendVars, vars

LEMMA StopStart == Init => StopInv
<1> SUFFICES ASSUME Init, NEW b \in Broadcasts PROVE StopSound(b)
  BY DEF StopInv
<1>1. /\ job[b].epoch = 0 /\ staff.epoch = 0 /\ overrun[b] = 0
      /\ \A w \in Workers : worker[w].phase = "waiting"
  BY DEF Init, Waiting
<1>2. Sends(b) = {}
  BY <1>1 DEF Sends
<1> QED  BY <1>1, <1>2, SendsFinite, FS_EmptySet DEF StopSound

\* However many administrators' changes, crashes and late leases there are,
\* a broadcast that was stopped, or whose launcher lost authority, sends at
\* most one message more per worker (_check_live_delivery).
THEOREM SendingStops == Spec => []StopsSending
<1>1. SendInv /\ StopInv => StopsSending
  <2> SUFFICES ASSUME SendInv, StopInv, NEW b \in Broadcasts
               PROVE  overrun[b] <= Cardinality(Workers)
    BY DEF StopsSending
  <2>1. overrun[b] \in Nat
    BY DEF SendInv, Shape, SendShape
  <2> QED  BY <2>1, SendsFinite DEF StopInv, StopSound
<1>2. Init => StopInv
  BY StopStart
<1>3. SendInv /\ SendInv' /\ StopInv /\ [Next]_vars => StopInv'
  BY StopStep
<1> QED  BY <1>1, <1>2, <1>3, SendInvariant, PTL DEF Spec

-----------------------------------------------------------------------------
(* Progress is never more than what happened. *)

SettledAs == {"sent", "failed", "cancelled"}
AllSettled(rows) == \A u \in DOMAIN rows : rows[u] # NoRow => rows[u].status \in SettledAs

\* Numbers and an end that these rows bear out.
BorneOut(rows, sent, failed, ended) ==
    /\ sent <= Cardinality(With(rows, "sent")) /\ failed <= Cardinality(With(rows, "failed"))
    /\ ended \in {"completed", "failed"} => AllSettled(rows)
    /\ ended = "failed" => With(rows, "sent") = {}

\* The rows of a broadcast with the outcome that a transaction has yet to commit.
RowsOf(w) == [recipient[worker[w].claim.job] EXCEPT ![worker[w].claim.user].status = worker[w].outcome]

HonestInv ==
    /\ \A b \in Broadcasts :
        /\ job[b].key # NoKey => Snapshot(b) = job[b].preview
        /\ BorneOut(recipient[b], job[b].sent, job[b].failed, job[b].status)
    /\ \A w \in Workers : worker[w].phase = "counted" =>
        BorneOut(RowsOf(w), worker[w].sent, worker[w].failed, worker[w].verdict)

\* Rows of the same recipients, of which those settled have stayed.
Onward(rows, later) ==
    \A u \in Users : /\ rows[u] = NoRow <=> later[u] = NoRow
                     /\ rows[u].status \in SettledAs => later[u] = rows[u]

LEMMA WithFinite ==
    ASSUME NEW rows, DOMAIN rows = Users, NEW s
    PROVE  IsFiniteSet(With(rows, s)) /\ Cardinality(With(rows, s)) \in Nat
<1>1. With(rows, s) \subseteq Users /\ IsFiniteSet(Users)
  BY Sizes DEF With
<1> QED  BY <1>1, FS_Subset, FS_CardinalityType

LEMMA BorneOn ==
    ASSUME NEW rows \in [Users -> Row \cup {NoRow}], NEW later \in [Users -> Row \cup {NoRow}],
           NEW sent \in Nat, NEW failed \in Nat, NEW ended,
           Onward(rows, later), BorneOut(rows, sent, failed, ended)
    PROVE  BorneOut(later, sent, failed, ended)
<1>1. /\ With(rows, "sent") \subseteq With(later, "sent")
      /\ With(rows, "failed") \subseteq With(later, "failed")
  BY DEF With, Onward, SettledAs
<1>2. \A s : /\ IsFiniteSet(With(later, s)) /\ Cardinality(With(later, s)) \in Nat
             /\ Cardinality(With(rows, s)) \in Nat
  BY WithFinite
<1>3. /\ Cardinality(With(rows, "sent")) <= Cardinality(With(later, "sent"))
      /\ Cardinality(With(rows, "failed")) <= Cardinality(With(later, "failed"))
  BY <1>1, <1>2, FS_Subset
<1>4. sent <= Cardinality(With(later, "sent")) /\ failed <= Cardinality(With(later, "failed"))
  BY <1>2, <1>3 DEF BorneOut
<1>5. AllSettled(rows) => AllSettled(later)
  BY DEF AllSettled, Onward
<1>6. AllSettled(rows) /\ With(rows, "sent") = {} => With(later, "sent") = {}
  <2> SUFFICES ASSUME AllSettled(rows), NEW u \in Users, later[u].status = "sent"
               PROVE  u \in With(rows, "sent")
    BY DEF With
  <2>1. rows[u] # NoRow
    BY DEF Onward, NoRow
  <2>2. later[u] = rows[u]
    BY <2>1 DEF AllSettled, Onward
  <2> QED  BY <2>2 DEF With
<1> QED  BY <1>4, <1>5, <1>6 DEF BorneOut

\* Recipients come with the launch; a settled one stays.
LEMMA RowsGoOn ==
    ASSUME SendInv, [Next]_vars, NEW b \in Broadcasts, ~\E k \in Keys : Launch(b, k)
    PROVE  Onward(recipient[b], recipient'[b])
<1>1. recipient \in [Broadcasts -> [Users -> Row \cup {NoRow}]]
  BY DEF SendInv, Shape, RowShape
<1> SUFFICES ASSUME NEW u \in Users
             PROVE  recipient[b][u] = NoRow <=> recipient'[b][u] = NoRow
  BY SettledStays DEF Onward, SettledAs
<1>2. ASSUME NEW r \in Row, NEW s \in {"pending", "sending", "sent", "failed", "cancelled"}
      PROVE  [r EXCEPT !.status = s] # NoRow /\ r # NoRow
  BY <1>2 DEF Row, NoRow
<1>3. ASSUME NEW d \in Broadcasts, NEW x \in Users, recipient[d][x] \in Row,
             NEW s \in {"pending", "sending", "sent", "failed", "cancelled"},
             recipient' = [recipient EXCEPT ![d][x].status = s]
      PROVE  recipient[b][u] = NoRow <=> recipient'[b][u] = NoRow
  <2>1. CASE d = b /\ x = u
    BY <1>1, <1>2, <1>3, <2>1
  <2>2. CASE ~(d = b /\ x = u)
    BY <1>1, <1>3, <2>2
  <2> QED  BY <2>1, <2>2
<1>4. \A d \in Broadcasts : CancelPending(recipient[d])[u] = NoRow <=> recipient[d][u] = NoRow
  <2> SUFFICES ASSUME NEW d \in Broadcasts
               PROVE  CancelPending(recipient[d])[u] = NoRow <=> recipient[d][u] = NoRow
    OBVIOUS
  <2>1. CASE recipient[d][u].status = "pending"
    <3>1. recipient[d][u] \in Row
      BY <1>1, <2>1 DEF NoRow
    <3> QED  BY <1>2, <2>1, <3>1 DEF CancelPending
  <2>2. CASE recipient[d][u].status # "pending"
    BY <2>2 DEF CancelPending
  <2> QED  BY <2>1, <2>2
<1>5. ASSUME NEW d \in Broadcasts, CreateDraft(d) \/ Preview(d) \/ Cancel(d)
      PROVE  recipient[b][u] = NoRow <=> recipient'[b][u] = NoRow
  <2>1. CASE Cancel(d)
    <3>1. recipient' = [recipient EXCEPT ![d] = CancelPending(recipient[d])]
      BY <2>1 DEF Cancel
    <3> QED  BY <1>1, <1>4, <3>1
  <2> QED  BY <1>5, <2>1 DEF CreateDraft, Preview
<1>6. ASSUME NEW d \in Broadcasts, NEW k \in Keys, Launch(d, k)
      PROVE  recipient[b][u] = NoRow <=> recipient'[b][u] = NoRow
  BY <1>1, <1>6 DEF Launch
<1>7. ASSUME NEW w \in Workers, ClaimBatch(w)
      PROVE  recipient[b][u] = NoRow <=> recipient'[b][u] = NoRow
  <2>1. \/ Taken(b, u) /\ recipient[b][u] # NoRow
        \/ Ended(b, u) /\ recipient[b][u] # NoRow
        \/ recipient'[b][u] = recipient[b][u]
    BY <1>7, ClaimedRows DEF Free
  <2>2. recipient[b][u] # NoRow => recipient[b][u] \in Row
    BY <1>1
  <2> QED  BY <1>2, <2>1, <2>2 DEF Taken, Ended, NoRow
<1>8. ASSUME NEW w \in Workers, Check(w)
      PROVE  recipient[b][u] = NoRow <=> recipient'[b][u] = NoRow
  <2>1. PICK c \in worker[w].todo :
          \/ recipient' = recipient
          \/ Holds(c) /\ recipient' = [recipient EXCEPT ![c.job][c.user].status = "cancelled"]
          \/ Holds(c) /\ recipient' = [recipient EXCEPT ![c.job] =
                           [CancelPending(recipient[c.job]) EXCEPT ![c.user].status = "cancelled"]]
    BY <1>8 DEF Check
  <2>2. c.job \in Broadcasts /\ c.user \in Users
    BY WorkerOf DEF SendInv, Shape, Claims
  <2>3. Holds(c) => recipient[c.job][c.user] \in Row
    BY <1>1, <2>2 DEF Holds, NoRow
  <2>4. CASE Holds(c) /\ recipient' = [recipient EXCEPT ![c.job] =
                           [CancelPending(recipient[c.job]) EXCEPT ![c.user].status = "cancelled"]]
    <3> DEFINE rows == CancelPending(recipient[c.job])
    <3>1. rows[c.user] = recipient[c.job][c.user] /\ DOMAIN rows = Users
      BY <2>2, <2>4 DEF CancelPending, Holds
    <3>2. rows[u] = NoRow <=> recipient[c.job][u] = NoRow
      BY <1>4, <2>2
    <3> HIDE DEF rows
    <3>3. recipient' = [recipient EXCEPT ![c.job] = [rows EXCEPT ![c.user].status = "cancelled"]]
      BY <2>4 DEF rows
    <3>4. CASE c.user = u
      <4>1. [rows EXCEPT ![c.user].status = "cancelled"][u] # NoRow /\ rows[u] # NoRow
        BY <1>2, <2>2, <2>3, <2>4, <3>1, <3>4
      <4> QED  BY <1>1, <3>2, <3>3, <4>1
    <3>5. CASE c.user # u
      <4>1. [rows EXCEPT ![c.user].status = "cancelled"][u] = rows[u]
        BY <3>1, <3>5
      <4> QED  BY <1>1, <3>2, <3>3, <4>1
    <3> QED  BY <3>4, <3>5
  <2> QED  BY <1>3, <2>1, <2>2, <2>3, <2>4
<1>9. ASSUME NEW w \in Workers, Commit(w)
      PROVE  recipient[b][u] = NoRow <=> recipient'[b][u] = NoRow
  <2>1. PICK c : c = worker[w].claim
    OBVIOUS
  <2>2. /\ worker[w].phase = "counted"
        /\ recipient' = [recipient EXCEPT ![c.job][c.user].status = worker[w].outcome]
    BY <1>9, <2>1 DEF Commit
  <2>3. Holds(c) /\ c.job \in Broadcasts /\ c.user \in Users /\ worker[w].outcome \in Outcomes
    BY <2>1, <2>2, WorkerOf DEF SendInv, Shape, OutcomesTrue, Claims
  <2>4. recipient[c.job][c.user] \in Row
    BY <1>1, <2>3 DEF Holds, NoRow
  <2> QED  BY <1>3, <2>2, <2>3, <2>4 DEF Outcomes
<1>10. ASSUME NEW w \in Workers, Post(w) \/ Count(w) \/ Trouble(w) \/ Stop(w)
       PROVE  recipient[b][u] = NoRow <=> recipient'[b][u] = NoRow
  BY <1>10 DEF Post, Count, Trouble, Stop
<1> QED  BY <1>5, <1>6, <1>7, <1>8, <1>9, <1>10
         DEF Next, Deliver, ChangeStaff, ChangeCustomer, vars

\* A broadcast that goes on as it was, or stops.
LEMMA JobGoesOn ==
    ASSUME SendInv, SendInv', HonestInv, [Next]_vars, NEW b \in Broadcasts,
           ~\E k \in Keys : Launch(b, k),
           job'[b].key = job[b].key, job'[b].sent = job[b].sent, job'[b].failed = job[b].failed,
           job[b].key # NoKey => job'[b].preview = job[b].preview,
           job'[b].status \in {"completed", "failed"} =>
              job'[b].status = job[b].status \/ Snapshot(b) = {}
    PROVE  /\ job'[b].key # NoKey => Snapshot(b)' = job'[b].preview
           /\ BorneOut(recipient'[b], job'[b].sent, job'[b].failed, job'[b].status)
<1>1. /\ recipient[b] \in [Users -> Row \cup {NoRow}] /\ recipient'[b] \in [Users -> Row \cup {NoRow}]
      /\ job[b].sent \in Nat /\ job[b].failed \in Nat
  BY DEF SendInv, Shape, RowShape, JobShape, Jobs
<1>2. Onward(recipient[b], recipient'[b])
  BY RowsGoOn
<1>3. Snapshot(b)' = Snapshot(b)
  BY <1>2 DEF Snapshot, Onward
<1>4. BorneOut(recipient[b], job[b].sent, job[b].failed, job'[b].status)
  <2>1. BorneOut(recipient[b], job[b].sent, job[b].failed, job[b].status)
    BY DEF HonestInv
  <2>2. Snapshot(b) = {} => AllSettled(recipient[b]) /\ With(recipient[b], "sent") = {}
    BY <1>1 DEF Snapshot, AllSettled, With, NoRow
  <2> QED  BY <2>1, <2>2 DEF BorneOut
<1>5. BorneOut(recipient'[b], job[b].sent, job[b].failed, job'[b].status)
  BY <1>1, <1>2, <1>4, BorneOn
<1> QED  BY <1>3, <1>5 DEF HonestInv

\* A transaction that has counted keeps its own row; the others go on.
LEMMA CountGoesOn ==
    ASSUME SendInv, SendInv', HonestInv, [Next]_vars, NEW w \in Workers,
           worker'[w] = worker[w], worker[w].phase = "counted"
    PROVE  BorneOut(RowsOf(w)', worker'[w].sent, worker'[w].failed, worker'[w].verdict)
<1>1. PICK c : c = worker[w].claim /\ c' = c
  OBVIOUS
<1>2. PICK o : o = worker[w].outcome
  OBVIOUS
<1>3. /\ c.job \in Broadcasts /\ c.user \in Users /\ o \in Outcomes
      /\ worker[w].sent \in Nat /\ worker[w].failed \in Nat
  BY <1>1, <1>2, WorkerOf DEF SendInv, Shape, Claims, Counted
<1>4. /\ recipient[c.job] \in [Users -> Row \cup {NoRow}]
      /\ recipient'[c.job] \in [Users -> Row \cup {NoRow}]
  BY <1>3 DEF SendInv, Shape, RowShape
<1>5. recipient'[c.job][c.user] = recipient[c.job][c.user] /\ recipient[c.job][c.user] \in Row
  <2>1. Holds(c) /\ Holds(c)'
    BY <1>1 DEF SendInv, OutcomesTrue
  <2>2. recipient[c.job][c.user] = [status |-> "sending", attempts |-> c.token]
        /\ recipient'[c.job][c.user] = [status |-> "sending", attempts |-> c.token]
    BY <2>1 DEF Holds
  <2> QED  BY <1>3, <1>4, <2>2 DEF NoRow
<1>6. Onward(recipient[c.job], recipient'[c.job])
  <2>1. job[c.job].key # NoKey
    BY <1>3, <1>5 DEF SendInv, RowsAgreed, Row, NoRow
  <2>2. ~\E k \in Keys : Launch(c.job, k)
    BY <2>1 DEF Launch
  <2> QED  BY <1>3, <2>2, RowsGoOn
<1> DEFINE rows == [recipient[c.job] EXCEPT ![c.user].status = o]
           later == [recipient'[c.job] EXCEPT ![c.user].status = o]
<1>7. rows \in [Users -> Row \cup {NoRow}] /\ later \in [Users -> Row \cup {NoRow}]
  <2>1. [recipient[c.job][c.user] EXCEPT !.status = o] \in Row
    BY <1>3, <1>5 DEF Row, Outcomes
  <2> QED  BY <1>4, <1>5, <2>1
<1>8. Onward(rows, later)
  <2>1. rows[c.user] = later[c.user]
    BY <1>3, <1>4, <1>5
  <2>2. \A u \in Users \ {c.user} : rows[u] = recipient[c.job][u] /\ later[u] = recipient'[c.job][u]
    BY <1>4
  <2> HIDE DEF rows, later
  <2> QED  BY <1>6, <2>1, <2>2 DEF Onward
<1>9. RowsOf(w) = rows /\ RowsOf(w)' = later
  BY <1>1, <1>2 DEF RowsOf
<1> HIDE DEF rows, later
<1>10. BorneOut(rows, worker[w].sent, worker[w].failed, worker[w].verdict)
  BY <1>9 DEF HonestInv
<1> QED  BY <1>3, <1>7, <1>8, <1>9, <1>10, BorneOn

\* The launch: a row for everyone who was shown.
LEMMA LaunchHonest ==
    ASSUME SendInv, SendInv', HonestInv, NEW b \in Broadcasts, NEW k \in Keys, Launch(b, k)
    PROVE  /\ Snapshot(b)' = job'[b].preview
           /\ BorneOut(recipient'[b], job'[b].sent, job'[b].failed, job'[b].status)
<1>1. /\ job \in [Broadcasts -> Jobs] /\ recipient \in [Broadcasts -> [Users -> Row \cup {NoRow}]]
      /\ Audience \subseteq Users
  BY AudienceIs DEF SendInv, Shape, JobShape, RowShape
<1>2. /\ recipient'[b] = [u \in Users |-> IF u \in Audience
                                          THEN [status |-> "pending", attempts |-> 0]
                                          ELSE NoRow]
      /\ Audience = job[b].preview /\ Snapshot(b) = {}
  BY <1>1 DEF Launch
<1> DEFINE status == IF Audience = {} THEN "completed" ELSE "sending"
           launched == [job[b] EXCEPT !.status = status, !.key = k, !.epoch = staff.epoch]
<1>3. job'[b] = launched
  BY <1>1 DEF Launch
<1>4. /\ job'[b].preview = job[b].preview /\ job'[b].sent = job[b].sent
      /\ job'[b].failed = job[b].failed /\ job'[b].status = status
  <2> HIDE DEF status
  <2> QED  BY <1>1, <1>3 DEF Jobs
<1>5. Snapshot(b)' = Audience
  BY <1>1, <1>2 DEF Snapshot, NoRow
<1>6. job[b].sent = 0 /\ job[b].failed = 0
  <2>1. With(recipient[b], "sent") = {} /\ With(recipient[b], "failed") = {}
    BY <1>1, <1>2 DEF Snapshot, With, NoRow
  <2>2. /\ job[b].sent <= Cardinality(With(recipient[b], "sent"))
        /\ job[b].failed <= Cardinality(With(recipient[b], "failed"))
    BY DEF HonestInv, BorneOut
  <2>3. job[b].sent \in Nat /\ job[b].failed \in Nat
    BY <1>1 DEF Jobs
  <2> QED  BY <2>1, <2>2, <2>3, FS_EmptySet
<1>7. \A s : Cardinality(With(recipient'[b], s)) \in Nat
  BY <1>2, WithFinite
<1>8. status = "completed" => AllSettled(recipient'[b])
  BY <1>2 DEF AllSettled
<1> QED  BY <1>2, <1>4, <1>5, <1>6, <1>7, <1>8 DEF BorneOut

\* What a transaction counts, its rows bear out.
LEMMA CountHonest ==
    ASSUME SendInv, NEW w \in Workers, Count(w), worker'[w].phase = "counted"
    PROVE  BorneOut(RowsOf(w)', worker'[w].sent, worker'[w].failed, worker'[w].verdict)
<1>1. worker \in [Workers -> Idle \cup Busy \cup Counted]
      /\ recipient \in [Broadcasts -> [Users -> Row \cup {NoRow}]]
  BY DEF SendInv, Shape, WorkerShape, RowShape
<1>2. PICK c : c = worker[w].claim
  OBVIOUS
<1>3. c.job \in Broadcasts /\ c.user \in Users
  BY <1>2, WorkerOf DEF Count, SendInv, Shape, Claims
<1> DEFINE rows == [recipient[c.job] EXCEPT ![c.user].status = worker[w].outcome]
<1>4. PICK r : /\ worker'[w] = r /\ r.claim = c /\ r.outcome = worker[w].outcome
               /\ r.sent = Cardinality(With(rows, "sent"))
               /\ r.failed = Cardinality(With(rows, "failed"))
               /\ r.verdict = IF job[c.job].status = "sending" /\ Open(rows) = {}
                              THEN IF r.sent = 0 /\ r.failed > 0 THEN "failed" ELSE "completed"
                              ELSE "same"
  <2>1. \/ worker' = [worker EXCEPT ![w] = Rest(w)]
        \/ worker' = [worker EXCEPT ![w] =
             [todo |-> worker[w].todo, claim |-> c, phase |-> "counted",
              outcome |-> worker[w].outcome, bounced |-> worker[w].bounced,
              sent |-> Cardinality(With(rows, "sent")), failed |-> Cardinality(With(rows, "failed")),
              was |-> [sent |-> job[c.job].sent, failed |-> job[c.job].failed],
              verdict |-> IF job[c.job].status = "sending" /\ Open(rows) = {}
                          THEN IF Cardinality(With(rows, "sent")) = 0
                                  /\ Cardinality(With(rows, "failed")) > 0
                               THEN "failed" ELSE "completed"
                          ELSE "same"]]
    BY <1>2, Zenon DEF Count
  <2> HIDE DEF rows
  <2> QED  BY <1>1, <2>1 DEF Rest
<1>5. UNCHANGED recipient
  BY DEF Count
<1>6. RowsOf(w)' = rows
  BY <1>4, <1>5 DEF RowsOf
<1>8. \A u \in Users : rows[u] # NoRow => rows[u].status \in {"pending", "sending"} \cup SettledAs
  <2> SUFFICES ASSUME NEW u \in Users, rows[u] # NoRow
               PROVE  rows[u].status \in {"pending", "sending"} \cup SettledAs
    OBVIOUS
  <2>1. CASE u # c.user
    BY <1>1, <1>3, <2>1 DEF Row, SettledAs
  <2>2. CASE u = c.user
    <3>1. worker[w].outcome \in Outcomes
      BY WorkerOf DEF Count, SendInv, Shape
    <3>2. recipient[c.job][c.user] \in Row \cup {NoRow}
      BY <1>1, <1>3
    <3>3. rows[u].status = worker[w].outcome
      BY <1>1, <1>3, <2>2, <3>2 DEF Row, NoRow
    <3> QED  BY <3>1, <3>3 DEF Outcomes, SettledAs
  <2> QED  BY <2>1, <2>2
<1>9. DOMAIN rows = Users
  BY <1>1, <1>3
<1> HIDE DEF rows
<1>10. Open(rows) = {} => AllSettled(rows)
  BY <1>8, <1>9 DEF Open, With, AllSettled
<1>11. /\ Cardinality(With(rows, "sent")) \in Nat /\ Cardinality(With(rows, "failed")) \in Nat
       /\ Cardinality(With(rows, "sent")) = 0 => With(rows, "sent") = {}
  BY <1>9, WithFinite, FS_EmptySet
<1> QED  BY <1>4, <1>6, <1>10, <1>11 DEF BorneOut

\* A transaction commits its row, what it counted and its verdict.
LEMMA CommitHonest ==
    ASSUME SendInv, SendInv', HonestInv, [Next]_vars, NEW w \in Workers, Commit(w),
           NEW b \in Broadcasts
    PROVE  /\ job'[b].key # NoKey => Snapshot(b)' = job'[b].preview
           /\ BorneOut(recipient'[b], job'[b].sent, job'[b].failed, job'[b].status)
<1>1. PICK c : c = worker[w].claim
  OBVIOUS
<1>2. /\ worker[w].phase = "counted" /\ job' = [job EXCEPT ![c.job] = Progressed(job[c.job], worker[w])]
      /\ recipient' = [recipient EXCEPT ![c.job][c.user].status = worker[w].outcome]
  BY <1>1 DEF Commit
<1>3. /\ c.job \in Broadcasts /\ c.user \in Users /\ worker[w] \in Counted
      /\ job \in [Broadcasts -> Jobs] /\ recipient \in [Broadcasts -> [Users -> Row \cup {NoRow}]]
      /\ recipient'[b] \in [Users -> Row \cup {NoRow}]
  BY <1>1, <1>2, WorkerOf DEF SendInv, Shape, JobShape, RowShape, Claims
<1>4. job[c.job].key # NoKey
  <2>1. Holds(c)
    BY <1>1, <1>2 DEF SendInv, OutcomesTrue
  <2>2. recipient[c.job][c.user] # NoRow
    BY <2>1 DEF Holds, NoRow
  <2> QED  BY <1>3, <2>2 DEF SendInv, RowsAgreed
<1>5. ~\E k \in Keys : Launch(b, k)
  <2>1. worker' # worker
    BY <1>2 DEF Commit, Rest, SendInv, Shape, WorkerShape
  <2>2. (\E k \in Keys : Launch(b, k)) => UNCHANGED worker
    BY Zenon DEF Launch
  <2> QED  BY <2>1, <2>2
<1>6. CASE b # c.job
  BY <1>2, <1>3, <1>5, <1>6, JobGoesOn
<1>7. CASE b = c.job
  <2>1. recipient'[b] = RowsOf(w)
    BY <1>1, <1>2, <1>3, <1>7 DEF RowsOf
  <2>2. BorneOut(recipient'[b], worker[w].sent, worker[w].failed, worker[w].verdict)
    BY <1>2, <2>1 DEF HonestInv
  <2>3. Onward(recipient[b], recipient'[b])
    BY <1>5, RowsGoOn
  <2>4. BorneOut(recipient'[b], job[b].sent, job[b].failed, job[b].status)
    <3>1. BorneOut(recipient[b], job[b].sent, job[b].failed, job[b].status)
      BY DEF HonestInv
    <3>2. recipient[b] \in [Users -> Row \cup {NoRow}] /\ job[b].sent \in Nat /\ job[b].failed \in Nat
      BY <1>3 DEF Jobs
    <3> QED  BY <1>3, <2>3, <3>1, <3>2, BorneOn
  <2> DEFINE sent == Written(worker[w].sent, worker[w].was.sent, job[b].sent)
             failed == Written(worker[w].failed, worker[w].was.failed, job[b].failed)
             status == IF worker[w].verdict = "same" THEN job[b].status ELSE worker[w].verdict
             row == [job[b] EXCEPT !.sent = sent, !.failed = failed, !.status = status]
  <2>5. job'[b] = row
    BY <1>2, <1>3, <1>7 DEF Progressed
  <2>6. /\ sent \in {worker[w].sent, job[b].sent} /\ failed \in {worker[w].failed, job[b].failed}
        /\ status \in {worker[w].verdict, job[b].status}
    BY DEF Written
  <2> HIDE DEF sent, failed, status
  <2>7. /\ row.sent = sent /\ row.failed = failed /\ row.status = status
        /\ row.key = job[b].key /\ row.preview = job[b].preview
    BY <1>3 DEF Jobs
  <2> HIDE DEF row
  <2>8. BorneOut(recipient'[b], job'[b].sent, job'[b].failed, job'[b].status)
    BY <2>2, <2>4, <2>5, <2>6, <2>7 DEF BorneOut
  <2>9. Snapshot(b)' = Snapshot(b)
    BY <2>3 DEF Snapshot, Onward
  <2> QED  BY <2>5, <2>7, <2>8, <2>9 DEF HonestInv
<1> QED  BY <1>6, <1>7

\* Any other step leaves what was counted, and ends nothing that has recipients
\* but by stopping it.
LEMMA OthersHonest ==
    ASSUME SendInv, SendInv', HonestInv, [Next]_vars, NEW b \in Broadcasts,
           ~\E k \in Keys : Launch(b, k), ~\E w \in Workers : Commit(w)
    PROVE  /\ job'[b].key # NoKey => Snapshot(b)' = job'[b].preview
           /\ BorneOut(recipient'[b], job'[b].sent, job'[b].failed, job'[b].status)
<1> DEFINE Kept ==
        /\ job'[b].key = job[b].key /\ job'[b].sent = job[b].sent /\ job'[b].failed = job[b].failed
        /\ job[b].key # NoKey => job'[b].preview = job[b].preview
        /\ job'[b].status \in {"completed", "failed"} =>
              job'[b].status = job[b].status \/ Snapshot(b) = {}
<1>1. job \in [Broadcasts -> Jobs]
  BY DEF SendInv, Shape, JobShape
<1>2. job[b].status \in {"none", "draft"} => job[b].key = NoKey
  BY DEF SendInv, RowsAgreed
<1>3. CASE UNCHANGED job
  BY <1>3, JobGoesOn
<1>4. ASSUME NEW d \in Broadcasts, CreateDraft(d) \/ Preview(d) \/ Cancel(d)
      PROVE  Kept
  <2>1. CASE CreateDraft(d)
    BY <1>1, <1>2, <2>1 DEF CreateDraft, Jobs
  <2>2. CASE Preview(d)
    BY <1>1, <1>2, <2>2 DEF Preview, Jobs
  <2>3. CASE Cancel(d)
    BY <1>1, <2>3 DEF Cancel, Jobs
  <2> QED  BY <1>4, <2>1, <2>2, <2>3
<1>5. ASSUME NEW d \in Broadcasts, NEW k \in Keys, Launch(d, k)
      PROVE  Kept
  <2>1. d # b
    BY <1>5
  <2> QED  BY <1>1, <1>5, <2>1 DEF Launch
<1>6. ASSUME NEW w \in Workers, ClaimBatch(w)
      PROVE  Kept
  <2>1. job' = [d \in Broadcasts |->
                  IF Unaccounted(d) THEN [job[d] EXCEPT !.status = "failed"] ELSE job[d]]
    BY <1>6 DEF ClaimBatch
  <2>2. Unaccounted(b) => Snapshot(b) = {}
    <3>1. job[b].key # NoKey => Snapshot(b) = job[b].preview
      BY DEF HonestInv
    <3>2. job[b].key = NoKey => Snapshot(b) = {}
      BY DEF Snapshot, SendInv, RowsAgreed
    <3> QED  BY <3>1, <3>2 DEF Unaccounted
  <2>3. job'[b] = job[b] \/ (job'[b] = [job[b] EXCEPT !.status = "failed"] /\ Snapshot(b) = {})
    BY <2>1, <2>2
  <2> QED  BY <1>1, <2>3 DEF Jobs
<1>7. ASSUME NEW w \in Workers, Check(w)
      PROVE  Kept
  <2>1. PICK c \in worker[w].todo :
          job' = job \/ job' = [job EXCEPT ![c.job].status = "cancelled"]
    BY <1>7 DEF Check
  <2> QED  BY <1>1, <2>1 DEF Jobs
<1>8. ASSUME NEW w \in Workers, Post(w) \/ Count(w) \/ Trouble(w) \/ Stop(w)
      PROVE  UNCHANGED job
  BY <1>8 DEF Post, Count, Trouble, Stop
<1>9. Kept \/ UNCHANGED job
  BY <1>4, <1>5, <1>6, <1>7, <1>8 DEF Next, Deliver, ChangeStaff, ChangeCustomer, vars
<1> QED  BY <1>3, <1>9, JobGoesOn

LEMMA HonestStep ==
    ASSUME SendInv, SendInv', HonestInv, [Next]_vars
    PROVE  HonestInv'
<1>1. ASSUME NEW b \in Broadcasts
      PROVE  /\ job'[b].key # NoKey => Snapshot(b)' = job'[b].preview
             /\ BorneOut(recipient'[b], job'[b].sent, job'[b].failed, job'[b].status)
  BY <1>1, LaunchHonest, CommitHonest, OthersHonest
<1>2. ASSUME NEW w \in Workers, worker'[w].phase = "counted"
      PROVE  worker'[w] = worker[w] \/ Count(w)
  <2>1. worker \in [Workers -> Idle \cup Busy \cup Counted]
    BY DEF SendInv, Shape, WorkerShape
  <2>2. ASSUME NEW v \in Workers, v # w,
               ClaimBatch(v) \/ Check(v) \/ Post(v) \/ Trouble(v) \/ Count(v) \/ Commit(v) \/ Stop(v)
        PROVE  worker'[w] = worker[w]
    <3>1. \E r : worker' = [worker EXCEPT ![v] = r]
      <4>1. CASE ClaimBatch(v)
        BY <4>1, ClaimedRows
      <4>2. CASE ~ClaimBatch(v)
        BY <2>2, <4>2 DEF Check, Drop, Post, Trouble, Answer, Count, Commit, Stop
      <4> QED  BY <4>1, <4>2
    <3> QED  BY <2>1, <2>2, <3>1
  <2>3. CASE ClaimBatch(w)
    <3>1. worker[w] = Waiting /\ \E t : worker' = [worker EXCEPT ![w].todo = t]
      BY <2>3, ClaimedRows
    <3> QED  BY <1>2, <2>1, <3>1 DEF Waiting
  <2>4. CASE Check(w)
    <3>1. worker[w].phase = "waiting"
      BY <2>4 DEF Check
    <3>2. PICK c \in worker[w].todo :
          \/ worker' = [worker EXCEPT ![w].todo = @ \ {c}]
          \/ worker' = [worker EXCEPT ![w] =
                  [todo |-> worker[w].todo \ {c}, claim |-> c, bounced |-> FALSE,
                   phase |-> IF c.user \in blocked THEN "answered" ELSE "checked",
                   outcome |-> "failed"]]
      BY <2>4 DEF Check, Drop
    <3>3. CASE worker' = [worker EXCEPT ![w].todo = @ \ {c}]
      BY <1>2, <2>1, <3>1, <3>3 DEF Idle, Busy, Counted
    <3>4. CASE worker' = [worker EXCEPT ![w] =
                  [todo |-> worker[w].todo \ {c}, claim |-> c, bounced |-> FALSE,
                   phase |-> IF c.user \in blocked THEN "answered" ELSE "checked",
                   outcome |-> "failed"]]
      BY <1>2, <2>1, <3>4
    <3> QED  BY <3>2, <3>3, <3>4
  <2>5. CASE Post(w) \/ Trouble(w)
    <3>1. worker[w].phase = "checked" /\ worker[w] \in Busy
      BY <2>5, WorkerOf DEF Post, Trouble, SendInv, Shape
    <3>2. worker'[w].phase = "answered"
      BY <2>1, <2>5, <3>1 DEF Post, Trouble, Answer, Busy
    <3> QED  BY <1>2, <3>2
  <2>6. CASE Commit(w) \/ Stop(w)
    BY <1>2, <2>1, <2>6 DEF Commit, Stop, Rest, Waiting
  <2>7. UNCHANGED worker \/ \E v \in Workers :
          ClaimBatch(v) \/ Check(v) \/ Post(v) \/ Trouble(v) \/ Count(v) \/ Commit(v) \/ Stop(v)
    BY DEF Next, Deliver, CreateDraft, Preview, Cancel, Launch, ChangeStaff, ChangeCustomer, vars
  <2> QED  BY <2>2, <2>3, <2>4, <2>5, <2>6, <2>7
<1>3. ASSUME NEW w \in Workers, worker'[w].phase = "counted"
      PROVE  BorneOut(RowsOf(w)', worker'[w].sent, worker'[w].failed, worker'[w].verdict)
  BY <1>2, <1>3, CountGoesOn, CountHonest
<1> QED  BY <1>1, <1>3 DEF HonestInv

LEMMA HonestStart == Init => HonestInv
<1> SUFFICES ASSUME Init PROVE HonestInv
  OBVIOUS
<1>1. ASSUME NEW b \in Broadcasts
      PROVE  /\ job[b].key = NoKey
             /\ BorneOut(recipient[b], job[b].sent, job[b].failed, job[b].status)
  <2>1. /\ recipient[b] = [u \in Users |-> NoRow] /\ job[b].key = NoKey
        /\ job[b].status \in {"none", "sending"} /\ job[b].sent = 0 /\ job[b].failed = 0
    BY <1>1 DEF Init
  <2>2. \A s : Cardinality(With(recipient[b], s)) \in Nat
    BY <2>1, WithFinite
  <2> QED  BY <2>1, <2>2 DEF BorneOut
<1>2. \A w \in Workers : worker[w].phase = "waiting"
  BY DEF Init, Waiting
<1> QED  BY <1>1, <1>2 DEF HonestInv

\* However many workers count at once, and whatever happens between a count and
\* its commit, the progress shown is of messages taken and given up, and an
\* end is shown only when no recipient is left open (_refresh_progress).
THEOREM ProgressTrue == Spec => []ProgressHonest
<1>1. SendInv /\ HonestInv => ProgressHonest
  <2> SUFFICES ASSUME SendInv, HonestInv, NEW b \in Broadcasts
               PROVE
                 /\ job[b].sent <= Cardinality(With(recipient[b], "sent"))
                 /\ job[b].failed <= Cardinality(With(recipient[b], "failed"))
                 /\ job[b].status \in {"completed", "failed"} =>
                     \A u \in Snapshot(b) :
                       recipient[b][u].status \in {"sent", "failed", "cancelled"}
                 /\ job[b].status = "failed" => With(recipient[b], "sent") = {}
    BY DEF ProgressHonest
  <2>1. BorneOut(recipient[b], job[b].sent, job[b].failed, job[b].status)
    BY DEF HonestInv
  <2>2. DOMAIN recipient[b] = Users
    BY DEF SendInv, Shape, RowShape
  <2> QED  BY <2>1, <2>2 DEF BorneOut, AllSettled, SettledAs, Snapshot
<1>2. Init => HonestInv
  BY HonestStart
<1>3. SendInv /\ SendInv' /\ HonestInv /\ [Next]_vars => HonestInv'
  BY HonestStep
<1> QED  BY <1>1, <1>2, <1>3, SendInvariant, PTL DEF Spec
=============================================================================
