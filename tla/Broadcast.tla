------------------------------ MODULE Broadcast ------------------------------
(***************************************************************************)
(* A marketing broadcast: previewed and drafted by an administrator, then  *)
(* launched once, which freezes its audience into one recipient row per    *)
(* customer, delivered row by row by leasing workers, and possibly         *)
(* cancelled.  Before every send a worker checks that it still holds the   *)
(* lease, that the broadcast is on, that the administrator who launched it *)
(* still has the same authority, and that the audience is the one agreed.  *)
(*                                                                         *)
(* The transaction that records an outcome also counts the recipients as   *)
(* it sees them and may finish the broadcast; it takes two steps here,     *)
(* because it locks its own recipient row but not the broadcast.  Faults   *)
(* (refusals, crashes, late leases, changes among customers and staff) are *)
(* bounded.                                                                *)
(*                                                                         *)
(* A definition marked Mutant is a plausible bug in the definition that    *)
(* follows it.  No action uses it: it shows that the properties can fail.  *)
(***************************************************************************)
EXTENDS Integers, FiniteSets, FiniteSetsExt

CONSTANTS
    Broadcasts, Users, Keys, Workers,
    Legacy,         \* those an older version of the program may have left in sending
    NoKey,
    BatchSize,      \* recipients a worker claims at once
    MaxFaults       \* bound: faults

ASSUME Sizes ==
    /\ BatchSize \in Nat \ {0} /\ MaxFaults \in Nat /\ Legacy \subseteq Broadcasts
    /\ IsFiniteSet(Users) /\ IsFiniteSet(Workers) /\ NoKey \notin Keys

VARIABLES
    job,        \* broadcasts
    recipient,  \* broadcast_recipients
    member,     \* customers the target selects, blocked or not
    blocked,    \* customers marked as having blocked the bot
    staff,      \* the administrator: whether allowed to broadcast, auth_epoch
    worker,     \* what each worker holds and how far it is
    accepted,   \* history: how often Telegram accepted a recipient's message
    overrun,    \* history: messages accepted after the broadcast was stopped
    faults

vars == <<job, recipient, member, blocked, staff, worker, accepted, overrun, faults>>
peopleVars == <<member, blocked, staff>>
sendVars == <<accepted, overrun>>

\* preview: the audience the administrator was shown; epoch: auth_epoch of
\* the launch; sent, failed: the progress columns.
Jobs == [status: {"none", "draft", "sending", "completed", "failed", "cancelled"},
         preview: SUBSET Users, key: Keys \cup {NoKey}, epoch: Nat,
         sent: Nat, failed: Nat]
NoRow == [status |-> "none", attempts |-> 0]
Row == [status: {"pending", "sending", "sent", "failed", "cancelled"}, attempts: Nat]
\* lease_token is fresh for every claim, as attempts is: a claim carries it.
Claims == [job: Broadcasts, user: Users, token: Nat \ {0}]

Waiting == [todo |-> {}, phase |-> "waiting"]

-----------------------------------------------------------------------------
Audience == member \ blocked
Snapshot(b) == {u \in Users : recipient[b][u] # NoRow}
With(rows, s) == {u \in DOMAIN rows : rows[u].status = s}
\* Mutant: claimed recipients are not waited for.
OpenPending(rows) == With(rows, "pending")

Open(rows) == With(rows, "pending") \cup With(rows, "sending")

Fault(n) == faults + n <= MaxFaults /\ faults' = faults + n
Stopped(b) == job[b].status \in {"cancelled", "failed"}

\* A row is locked by the transaction that is about to record its outcome.
Locked(b, u) ==
    \E w \in Workers : worker[w].phase = "counted" /\ worker[w].claim.job = b
                       /\ worker[w].claim.user = u
Holds(c) == recipient[c.job][c.user] = [status |-> "sending", attempts |-> c.token]
Rest(w) == [todo |-> worker[w].todo, phase |-> "waiting"]
Drop(w, c) == worker' = [worker EXCEPT ![w].todo = @ \ {c}]

\* Stop the rows that no worker has claimed.
CancelPending(rows) ==
    [u \in Users |-> IF rows[u].status = "pending"
                     THEN [rows[u] EXCEPT !.status = "cancelled"] ELSE rows[u]]

Init ==
    /\ \E left \in SUBSET Legacy :
        job = [b \in Broadcasts |->
               [status |-> IF b \in left THEN "sending" ELSE "none", preview |-> {},
                key |-> NoKey, epoch |-> 0, sent |-> 0, failed |-> 0]]
    /\ recipient = [b \in Broadcasts |-> [u \in Users |-> NoRow]]
    /\ member \in SUBSET Users
    /\ blocked = {}
    /\ staff = [allowed |-> TRUE, epoch |-> 0]
    /\ worker = [w \in Workers |-> Waiting]
    /\ accepted = [b \in Broadcasts |-> [u \in Users |-> 0]]
    /\ overrun = [b \in Broadcasts |-> 0]
    /\ faults = 0

-----------------------------------------------------------------------------
(* The administrator. *)

\* create_broadcast_draft, of the audience just previewed.
CreateDraft(b) ==
    /\ job[b].status = "none" /\ staff.allowed
    /\ job' = [job EXCEPT ![b].status = "draft", ![b].preview = Audience]
    /\ UNCHANGED <<recipient, peopleVars, worker, sendVars, faults>>

\* preview_broadcast: look again before confirming.
Preview(b) ==
    /\ job[b].status = "draft" /\ staff.allowed
    /\ job' = [job EXCEPT ![b].preview = Audience]
    /\ UNCHANGED <<recipient, peopleVars, worker, sendVars, faults>>

\* Mutant: the audience is not compared with the one last previewed.
LaunchUncompared(b, k) ==
    /\ \A d \in Broadcasts : job[d].key # k
    /\ job[b].key = NoKey /\ job[b].status = "draft" /\ staff.allowed
    /\ recipient' = [recipient EXCEPT ![b] =
                        [u \in Users |-> IF u \in Audience
                                         THEN [status |-> "pending", attempts |-> 0]
                                         ELSE NoRow]]
    /\ job' = [job EXCEPT ![b].status = IF Audience = {} THEN "completed" ELSE "sending",
                          ![b].key = k, ![b].epoch = staff.epoch]
    /\ UNCHANGED <<peopleVars, worker, sendVars, faults>>

\* launch_broadcast.  A key used before answers with the same broadcast or a
\* conflict and changes nothing.  An empty audience is complete at once.
Launch(b, k) ==
    /\ \A d \in Broadcasts : job[d].key # k
    /\ job[b].key = NoKey /\ job[b].status = "draft" /\ staff.allowed
    /\ Audience = job[b].preview
    /\ Snapshot(b) = {}
    /\ recipient' = [recipient EXCEPT ![b] =
                        [u \in Users |-> IF u \in Audience
                                         THEN [status |-> "pending", attempts |-> 0]
                                         ELSE NoRow]]
    /\ job' = [job EXCEPT ![b].status = IF Audience = {} THEN "completed" ELSE "sending",
                          ![b].key = k, ![b].epoch = staff.epoch]
    /\ UNCHANGED <<peopleVars, worker, sendVars, faults>>

\* cancel_broadcast: stops what is pending; claimed rows stop on their own.
Cancel(b) ==
    /\ job[b].status \in {"draft", "sending"} /\ staff.allowed
    /\ recipient' = [recipient EXCEPT ![b] = CancelPending(@)]
    /\ job' = [job EXCEPT ![b].status = "cancelled"]
    /\ UNCHANGED <<peopleVars, worker, sendVars, faults>>

\* update_admin and revoke_admin_sessions: every change of authority, also
\* giving it back, advances auth_epoch.
ChangeStaff ==
    /\ \E allowed \in BOOLEAN :
        staff' = [allowed |-> allowed, epoch |-> staff.epoch + 1]
    /\ Fault(1)
    /\ UNCHANGED <<job, recipient, member, blocked, worker, sendVars>>

\* Customers come into the target and drop out of it; set_user_blocked.
ChangeCustomer(u) ==
    /\ \/ member' = member \cup {u} /\ u \notin member /\ UNCHANGED blocked
       \/ member' = member \ {u} /\ u \in member /\ UNCHANGED blocked
       \/ blocked' = blocked \cup {u} /\ u \notin blocked /\ UNCHANGED member
       \/ blocked' = blocked \ {u} /\ u \in blocked /\ UNCHANGED member
    /\ Fault(1)
    /\ UNCHANGED <<job, recipient, staff, worker, sendVars>>

-----------------------------------------------------------------------------
(* The workers. *)

InHand(w) == worker[w].todo \cup (IF worker[w].phase = "waiting" THEN {} ELSE {worker[w].claim})
Held(b, u) == \E w \in Workers : \E c \in InHand(w) : c.job = b /\ c.user = u /\ Holds(c)
\* Mutant: a lease never runs out.
AbandonedNever(b) == {}

Abandoned(b) == {u \in With(recipient[b], "sending") : ~Held(b, u)}

\* A broadcast that was not launched with a snapshot of its audience, or has
\* lost part of it (launch_count), is stopped.
Unaccounted(b) ==
    /\ job[b].status = "sending"
    /\ job[b].key = NoKey \/ Cardinality(Snapshot(b)) # Cardinality(job[b].preview)

\* claim_broadcast_batch.  Leases that ran out, whose worker is gone or late
\* (a fault), are ended if the broadcast was stopped and claimed again if it
\* is on; rows another transaction has locked are passed over.
ClaimBatch(w) ==
    /\ worker[w] = Waiting
    /\ \E late \in {{}} \cup {{p} : p \in Broadcasts \X Users} :
        /\ \A p \in late : recipient[p[1]][p[2]].status = "sending" /\ Held(p[1], p[2])
                           /\ ~Locked(p[1], p[2])
        /\ Fault(Cardinality(late))
        /\ LET expired(b) == Abandoned(b) \cup {u \in Users : <<b, u>> \in late}
               due == {p \in Broadcasts \X Users :
                        /\ job[p[1]].status = "sending" /\ ~Unaccounted(p[1])
                        /\ ~Locked(p[1], p[2])
                        /\ \/ recipient[p[1]][p[2]].status = "pending"
                           \/ p[2] \in expired(p[1])}
           IN \E batch \in SUBSET due :
                /\ Cardinality(batch) = Min({BatchSize, Cardinality(due)})
                /\ \A p \in late : p \in batch \/ Stopped(p[1])
                /\ recipient' = [b \in Broadcasts |-> [u \in Users |->
                     IF <<b, u>> \in batch
                       THEN [status |-> "sending", attempts |-> recipient[b][u].attempts + 1]
                     ELSE IF \/ Stopped(b) /\ u \in expired(b)
                             \/ Unaccounted(b) /\ recipient[b][u].status = "pending"
                       THEN [recipient[b][u] EXCEPT !.status = "cancelled"]
                     ELSE recipient[b][u]]]
                /\ job' = [b \in Broadcasts |->
                     IF Unaccounted(b) THEN [job[b] EXCEPT !.status = "failed"] ELSE job[b]]
                /\ worker' = [worker EXCEPT ![w].todo =
                     {[job |-> p[1], user |-> p[2], token |-> recipient[p[1]][p[2]].attempts + 1] :
                        p \in batch}]
    /\ UNCHANGED <<peopleVars, sendVars>>

Authorised(b) == staff.allowed /\ staff.epoch = job[b].epoch
AsAgreed(b) == Audience = Snapshot(b) \ blocked

\* Mutant: what was checked when the row was claimed is not checked again.
CheckLease(w) ==
    /\ worker[w].phase = "waiting"
    /\ \E c \in worker[w].todo :
        \/ ~Holds(c) /\ Drop(w, c)
        \/ /\ Holds(c)
           /\ worker' = [worker EXCEPT ![w] =
                [todo |-> worker[w].todo \ {c}, claim |-> c, bounced |-> FALSE,
                 phase |-> "checked", outcome |-> "failed"]]
    /\ UNCHANGED <<job, recipient, peopleVars, sendVars, faults>>

\* _check_live_delivery, just before the send: one transaction that may stop
\* the whole broadcast (_cancel_job), or find that this customer cannot be
\* written to.
Check(w) ==
    /\ worker[w].phase = "waiting"
    /\ \E c \in worker[w].todo :
        \/ ~Holds(c) /\ Drop(w, c) /\ UNCHANGED <<job, recipient>>
        \/ /\ Holds(c) /\ job[c.job].status # "sending"
           /\ recipient' = [recipient EXCEPT ![c.job][c.user].status = "cancelled"]
           /\ Drop(w, c) /\ UNCHANGED job
        \/ /\ Holds(c) /\ job[c.job].status = "sending"
           /\ ~Authorised(c.job) \/ ~AsAgreed(c.job)
           /\ recipient' = [recipient EXCEPT ![c.job] =
                [CancelPending(@) EXCEPT ![c.user].status = "cancelled"]]
           /\ job' = [job EXCEPT ![c.job].status = "cancelled"]
           /\ Drop(w, c)
        \/ /\ Holds(c) /\ job[c.job].status = "sending"
           /\ Authorised(c.job) /\ AsAgreed(c.job)
           /\ worker' = [worker EXCEPT ![w] =
                [todo |-> worker[w].todo \ {c}, claim |-> c, bounced |-> FALSE,
                 phase |-> IF c.user \in blocked THEN "answered" ELSE "checked",
                 outcome |-> "failed"]]
           /\ UNCHANGED <<job, recipient>>
    /\ UNCHANGED <<peopleVars, sendVars, faults>>

Accept(c) ==
    /\ accepted' = [accepted EXCEPT ![c.job][c.user] = @ + 1]
    /\ overrun' = IF job[c.job].status = "sending" /\ Authorised(c.job)
                  THEN overrun ELSE [overrun EXCEPT ![c.job] = @ + 1]

Answer(w, outcome) ==
    worker' = [worker EXCEPT ![w].phase = "answered", ![w].outcome = outcome]

Post(w) ==
    /\ worker[w].phase = "checked"
    /\ Accept(worker[w].claim) /\ Answer(w, "sent")
    /\ UNCHANGED <<job, recipient, peopleVars, faults>>

\* Telegram asks to wait, or its answer is lost (to be tried again); or it
\* refuses for good, or says the customer blocked the bot.
Trouble(w) ==
    /\ worker[w].phase = "checked"
    /\ \/ Answer(w, "pending") /\ UNCHANGED sendVars
       \/ Answer(w, "pending") /\ Accept(worker[w].claim)
       \/ Answer(w, "failed") /\ UNCHANGED sendVars
       \/ /\ worker' = [worker EXCEPT ![w].phase = "answered", ![w].bounced = TRUE]
          /\ UNCHANGED sendVars
    /\ Fault(1)
    /\ UNCHANGED <<job, recipient, peopleVars>>

\* _mark_claim and _refresh_progress up to the commit: with its own row
\* changed and locked, the transaction counts the committed others and reads
\* the broadcast's status.  A lease lost meanwhile ends it there.
Count(w) ==
    /\ worker[w].phase = "answered"
    /\ LET c == worker[w].claim
           rows == [recipient[c.job] EXCEPT ![c.user].status = worker[w].outcome]
           sent == Cardinality(With(rows, "sent"))
           failed == Cardinality(With(rows, "failed"))
       IN
        \/ /\ Holds(c)
           /\ worker' = [worker EXCEPT ![w] =
                [todo |-> @.todo, claim |-> c, phase |-> "counted",
                 outcome |-> @.outcome, bounced |-> @.bounced,
                 sent |-> sent, failed |-> failed,
                 was |-> [sent |-> job[c.job].sent, failed |-> job[c.job].failed],
                 verdict |-> IF job[c.job].status = "sending" /\ Open(rows) = {}
                             THEN IF sent = 0 /\ failed > 0 THEN "failed" ELSE "completed"
                             ELSE "same"]]
           /\ UNCHANGED blocked
        \/ /\ ~Holds(c) /\ ~Locked(c.job, c.user)
           /\ worker' = [worker EXCEPT ![w] = Rest(w)]
           /\ blocked' = IF worker[w].bounced THEN blocked \cup {c.user} ELSE blocked
    /\ UNCHANGED <<job, recipient, member, staff, sendVars, faults>>

\* A column is written only if its value differs from the one that was read.
Written(new, read, now) == IF new = read THEN now ELSE new

Progressed(row, counted) ==
    [row EXCEPT !.sent = Written(counted.sent, counted.was.sent, row.sent),
                !.failed = Written(counted.failed, counted.was.failed, row.failed),
                !.status = IF counted.verdict = "same" THEN row.status ELSE counted.verdict]

Commit(w) ==
    /\ worker[w].phase = "counted"
    /\ LET c == worker[w].claim IN
        /\ recipient' = [recipient EXCEPT ![c.job][c.user].status = worker[w].outcome]
        /\ blocked' = IF worker[w].bounced THEN blocked \cup {c.user} ELSE blocked
        /\ job' = [job EXCEPT ![c.job] = Progressed(@, worker[w])]
    /\ worker' = [worker EXCEPT ![w] = Rest(w)]
    /\ UNCHANGED <<member, staff, sendVars, faults>>

\* The process dies or is told to stop; its transaction rolls back and its
\* leases are left to run out.
Stop(w) ==
    /\ worker[w] # Waiting
    /\ worker' = [worker EXCEPT ![w] = Waiting]
    /\ Fault(1)
    /\ UNCHANGED <<job, recipient, peopleVars, sendVars>>

Deliver(w) ==
    ClaimBatch(w) \/ Check(w) \/ Post(w) \/ Count(w) \/ Commit(w)

Next ==
    \/ \E b \in Broadcasts : CreateDraft(b) \/ Preview(b) \/ Cancel(b)
    \/ \E b \in Broadcasts, k \in Keys : Launch(b, k)
    \/ ChangeStaff
    \/ \E u \in Users : ChangeCustomer(u)
    \/ \E w \in Workers : Deliver(w) \/ Trouble(w) \/ Stop(w)

Spec == Init /\ [][Next]_vars

\* The worker loop never stops polling while the process runs.
FairSpec == Spec /\ \A w \in Workers : WF_vars(Deliver(w))

-----------------------------------------------------------------------------
(* Properties. *)

\* The shape of every variable.
TypeOK ==
    /\ job \in [Broadcasts -> Jobs]
    /\ recipient \in [Broadcasts -> [Users -> Row \cup {NoRow}]]
    /\ member \in SUBSET Users /\ blocked \in SUBSET Users
    /\ staff \in [allowed: BOOLEAN, epoch: Nat]
    /\ \A w \in Workers :
        /\ worker[w].phase \in {"waiting", "checked", "answered", "counted"}
        /\ \A c \in InHand(w) : c \in Claims
    /\ accepted \in [Broadcasts -> [Users -> Nat]]
    /\ overrun \in [Broadcasts -> Nat] /\ faults \in 0..MaxFaults

\* Only the customers of the audience the administrator confirmed are ever
\* written to, once per lease, and a row counts as sent only if Telegram
\* took the message.
AudienceAsConfirmed ==
    \A b \in Broadcasts, u \in Users :
        /\ accepted[b][u] > 0 => u \in job[b].preview /\ job[b].key # NoKey
        /\ accepted[b][u] <= recipient[b][u].attempts
        /\ recipient[b][u].status = "sent" => accepted[b][u] > 0

\* Cancelling, or taking the launcher's authority away even if it is given
\* back, stops the broadcast but for the messages already on their way: at
\* most one per worker.
StopsSending == \A b \in Broadcasts : overrun[b] <= Cardinality(Workers)

\* A recipient who got the message is never claimed again, and a stopped one
\* never revived: settled rows stay as they are.
SettledForGood ==
    [][\A b \in Broadcasts, u \in Users :
        recipient[b][u].status \in {"sent", "failed", "cancelled"}
            => recipient'[b][u] = recipient[b][u]]_vars

\* Every recipient of a broadcast that stays on is reached or given up in
\* the end, through crashes, lost answers and leases that ran out.
EveryRowSettles ==
    \A b \in Broadcasts, u \in Users :
        job[b].status = "sending" /\ recipient[b][u].status \in {"pending", "sending"}
            ~> job[b].status # "sending"
               \/ recipient[b][u].status \in {"sent", "failed", "cancelled"}

\* The progress an administrator is shown may lag, two workers having counted
\* at once, but never claims more than what happened: finished means that no
\* recipient is open any more, failed that nobody received it.
ProgressHonest ==
    \A b \in Broadcasts :
        /\ job[b].sent <= Cardinality(With(recipient[b], "sent"))
        /\ job[b].failed <= Cardinality(With(recipient[b], "failed"))
        /\ job[b].status \in {"completed", "failed"} =>
            \A u \in Snapshot(b) : recipient[b][u].status \in {"sent", "failed", "cancelled"}
        /\ job[b].status = "failed" => With(recipient[b], "sent") = {}

\* A broadcast whose recipients are all settled does not stay "sending".
NeverStuck ==
    \A b \in Broadcasts :
        /\ job[b].status = "sending"
        /\ \A w \in Workers : worker[w] = Waiting
        => With(recipient[b], "pending") \cup With(recipient[b], "sending") # {}

=============================================================================
