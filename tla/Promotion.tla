----------------------------- MODULE Promotion ------------------------------
(***************************************************************************)
(* The daily advert of the shop's channel (services/marketing/worker.py).  *)
(* Every API process runs a worker that claims the day in one transaction, *)
(* renders and sends the advert outside of any, and writes down how it     *)
(* ended.  Telegram's answer may be lost and a process may die anywhere,   *)
(* so another may take over a day that has been rendering for too long.    *)
(*                                                                         *)
(* A definition marked Mutant is a plausible bug in the definition that    *)
(* follows it.  No action uses it: it shows that the properties can fail.  *)
(***************************************************************************)
EXTENDS Naturals

CONSTANTS
    Workers,
    LastDay,        \* bound: days 1 .. LastDay
    MaxAttempts,    \* MAX_ATTEMPTS_PER_DAY
    NoPost, NoWork

Statuses == {"rendering", "failed", "sent"}
PostRow == [status: Statuses, attempts: Nat, age: {"new", "retry", "stale"}]

ASSUME PromotionAssumption ==
    /\ LastDay \in Nat \ {0} /\ MaxAttempts \in Nat \ {0}
    /\ NoPost \notin PostRow /\ NoWork \notin [day: Nat, at: Statuses]

VARIABLES
    today,          \* the day in Tashkent
    postTime,       \* whether MARKETING_POST_TIME has passed today
    post,           \* marketing_posts: day -> status, attempts, age of the last change
    work,           \* what each worker is doing for which day
    adverts,        \* history: adverts in the channel, by day
    mishap          \* history: days with a lost answer, a death after the
                    \* sending, or an overtaken rendering

promotionVars == <<today, postTime, post, work, adverts, mishap>>

PromotionInit ==
    /\ today = 1 /\ postTime = FALSE
    /\ post = [d \in 1 .. LastDay |-> NoPost]
    /\ work = [w \in Workers |-> NoWork]
    /\ adverts = [d \in 1 .. LastDay |-> 0]
    /\ mishap = {}

\* age is "new", "retry" past RETRY_AFTER, "stale" past STALE_RENDER_AFTER.
Post(status, attempts) == [status |-> status, attempts |-> attempts, age |-> "new"]
EverSent == \E d \in 1 .. LastDay : post[d] # NoPost /\ post[d].status = "sent"

\* The guards of claim_day on a row that exists.
\* Mutant: a rendering is taken over as soon as a failure would be retried.
MayRetrySoon(d) ==
    /\ post[d].status # "sent" /\ post[d].attempts < MaxAttempts
    /\ post[d].age # "new"

MayRetry(d) ==
    /\ post[d].status # "sent" /\ post[d].attempts < MaxAttempts
    /\ post[d].age \in IF post[d].status = "rendering" THEN {"stale"} ELSE {"retry", "stale"}

Attempts(d) == IF post[d] = NoPost THEN 0 ELSE post[d].attempts

\* claim_day and pick_products, one transaction.  A row locked by another
\* claim is skipped, and an insert of the same day finds it there.
MayClaim(w) ==
    /\ work[w] = NoWork
    /\ IF post[today] = NoPost THEN postTime \/ ~EverSent ELSE MayRetry(today)

\* Half an hour has passed and another worker is still at it.
Overtakes ==
    \E v \in Workers : work[v] # NoWork /\ work[v].day = today /\ post[today].age = "stale"

ClaimDay(w) ==
    /\ MayClaim(w)
    /\ post' = [post EXCEPT ![today] = Post("rendering", Attempts(today) + 1)]
    /\ work' = [work EXCEPT ![w] = [day |-> today, at |-> "rendering"]]
    /\ mishap' = IF Overtakes THEN mishap \cup {today} ELSE mishap
    /\ UNCHANGED <<today, postTime, adverts>>

NothingToAdvertise(w) ==
    /\ MayClaim(w)
    /\ post' = [post EXCEPT ![today] = Post("failed", Attempts(today) + 1)]
    /\ mishap' = IF Overtakes THEN mishap \cup {today} ELSE mishap
    /\ UNCHANGED <<today, postTime, work, adverts>>

IsDoing(w, step) == work[w] # NoWork /\ work[w].at = step

RenderFails(w) ==
    /\ IsDoing(w, "rendering")
    /\ work' = [work EXCEPT ![w].at = "failed"]
    /\ UNCHANGED <<today, postTime, post, adverts, mishap>>

\* send_video reaches the channel; its answer may not reach the worker.
SendAdvert(w, answered) ==
    /\ IsDoing(w, "rendering")
    /\ adverts' = [adverts EXCEPT ![work[w].day] = @ + 1]
    /\ work' = [work EXCEPT ![w].at = IF answered THEN "sent" ELSE "failed"]
    /\ mishap' = IF answered THEN mishap ELSE mishap \cup {work[w].day}
    /\ UNCHANGED <<today, postTime, post>>

\* Neither UPDATE asks what the row says by now.
RecordOutcome(w) ==
    /\ IsDoing(w, "sent") \/ IsDoing(w, "failed")
    /\ post' = [post EXCEPT ![work[w].day] = Post(work[w].at, Attempts(work[w].day))]
    /\ work' = [work EXCEPT ![w] = NoWork]
    /\ UNCHANGED <<today, postTime, adverts, mishap>>

Dies(w) ==
    /\ work[w] # NoWork
    /\ mishap' = IF IsDoing(w, "sent") THEN mishap \cup {work[w].day} ELSE mishap
    /\ work' = [work EXCEPT ![w] = NoWork]
    /\ UNCHANGED <<today, postTime, post, adverts>>

Ages(d) ==
    /\ post[d] # NoPost /\ post[d].status # "sent" /\ post[d].age # "stale"
    /\ post' = [post EXCEPT ![d].age = IF @ = "new" THEN "retry" ELSE "stale"]
    /\ UNCHANGED <<today, postTime, work, adverts, mishap>>

PostTimeComes ==
    /\ ~postTime /\ postTime' = TRUE
    /\ UNCHANGED <<today, post, work, adverts, mishap>>

Midnight ==
    /\ today < LastDay
    /\ today' = today + 1 /\ postTime' = FALSE
    /\ UNCHANGED <<post, work, adverts, mishap>>

PromotionNext ==
    \/ \E w \in Workers :
        \/ ClaimDay(w) \/ NothingToAdvertise(w) \/ RenderFails(w)
        \/ \E answered \in BOOLEAN : SendAdvert(w, answered)
        \/ RecordOutcome(w) \/ Dies(w)
    \/ \E d \in 1 .. LastDay : Ages(d)
    \/ PostTimeComes \/ Midnight

PromotionSpec == PromotionInit /\ [][PromotionNext]_promotionVars

-----------------------------------------------------------------------------
(* Properties. *)

\* The channel gets one advert a day, however many processes work, retry and
\* restart: a second one needs an answer that was lost, a process that died
\* between sending and writing it down, or a rendering overtaken after half
\* an hour; and even then there are no more than the attempts.
OneAdvertADay ==
    \A d \in 1 .. LastDay :
        /\ adverts[d] > 1 => d \in mishap
        /\ adverts[d] <= MaxAttempts
=============================================================================
