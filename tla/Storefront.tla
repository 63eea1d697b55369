----------------------------- MODULE Storefront -----------------------------
(***************************************************************************)
(* What the storefront reports of its visitors                             *)
(* (services/analytics_service.py, api/v1/analytics.py).  A page sends its *)
(* events in batches, each a transaction on the row of its session; the    *)
(* first batch of a session by a customer who is signed in gives the other *)
(* guest sessions of that browser to the customer, too.  Rows are locked   *)
(* one after the other, so that two batches can wait for each other: the   *)
(* database then lets one of them fail.                                    *)
(*                                                                         *)
(* A definition marked Mutant is a plausible bug in the definition that    *)
(* follows it.  No action uses it: it shows that the properties can fail.  *)
(***************************************************************************)
EXTENDS Naturals, FiniteSets

CONSTANTS
    Batches,        \* batches handled at once
    Tabs,           \* session_key
    Browsers,       \* visitor_key
    Buyers,         \* customers who may be signed in
    MaxEvents,      \* bound: batches a session counts
    NoBatch, NoTab, Guest

\* A row of analytics_sessions; a batch under way.
Session == [browser: Browsers, user: Buyers \cup {Guest}, events: Nat]
Underway == [at: {"claim", "write", "attribute"}, tab: Tabs, browser: Browsers,
             user: Buyers \cup {Guest}, locked: SUBSET Tabs, guests: SUBSET Tabs]

ASSUME StorefrontAssumption ==
    /\ MaxEvents \in Nat /\ Guest \notin Buyers
    /\ NoTab \notin Session /\ NoBatch \notin Underway

VARIABLES
    tab,            \* analytics_sessions: visitor_key, user_id, events_count
    stored,         \* analytics_events: how many of each session there are
    batch           \* the batches under way: the rows they have locked, and
                    \* the rows still to be given to the customer

storefrontVars == <<tab, stored, batch>>

StorefrontInit ==
    /\ tab = [s \in Tabs |-> NoTab]
    /\ stored = [s \in Tabs |-> 0]
    /\ batch = [b \in Batches |-> NoBatch]

Handling(b, at) == batch[b] # NoBatch /\ batch[b].at = at
BatchEnds(b) == batch' = [batch EXCEPT ![b] = NoBatch]
HoldsTab(b, s) == batch[b] # NoBatch /\ s \in batch[b].locked
TabFree(b, s) == \A c \in Batches \ {b} : ~HoldsTab(c, s)

Receive(b, s, v, u) ==
    /\ batch[b] = NoBatch
    /\ batch' = [batch EXCEPT ![b] = [at |-> "claim", tab |-> s, browser |-> v, user |-> u,
                                      locked |-> {}, guests |-> {}]]
    /\ UNCHANGED <<tab, stored>>

SameBrowser(b) == tab[batch[b].tab] # NoTab => tab[batch[b].tab].browser = batch[b].browser

\* _claim_session: INSERT ... ON CONFLICT DO NOTHING, SELECT ... FOR UPDATE.
ClaimSession(b) ==
    /\ Handling(b, "claim") /\ TabFree(b, batch[b].tab) /\ SameBrowser(b)
    /\ batch' = [batch EXCEPT ![b].at = "write", ![b].locked = {batch[b].tab}]
    /\ UNCHANGED <<tab, stored>>

RefuseSession(b) ==
    /\ Handling(b, "claim") /\ TabFree(b, batch[b].tab) /\ ~SameBrowser(b)
    /\ BatchEnds(b)
    /\ UNCHANGED <<tab, stored>>

HadUser(b) == tab[batch[b].tab] # NoTab /\ tab[batch[b].tab].user # Guest

\* The guest sessions of the browser, as _attribute_visitor finds them.
GuestTabs(b) == {s \in Tabs \ {batch[b].tab} : /\ tab[s] # NoTab /\ tab[s].user = Guest
                                               /\ tab[s].browser = batch[b].browser}

\* The events and the UPDATE of the row that is locked; the rows that
\* _attribute_visitor will have to lock, if this customer is new to the row.
WriteBatch(b) ==
    /\ Handling(b, "write")
    /\ batch' = [batch EXCEPT ![b].at = "attribute",
                    ![b].guests = IF batch[b].user # Guest /\ ~HadUser(b)
                                  THEN GuestTabs(b) ELSE {}]
    /\ UNCHANGED <<tab, stored>>

\* A row that has a customer by the time it can be locked is passed over.
StillGuest(b, s) == s \in GuestTabs(b)

TakeGuest(b, s) ==
    /\ Handling(b, "attribute") /\ s \in batch[b].guests /\ TabFree(b, s)
    /\ batch' = [batch EXCEPT ![b].guests = @ \ {s},
                    ![b].locked = IF StillGuest(b, s) THEN @ \cup {s} ELSE @]
    /\ UNCHANGED <<tab, stored>>

\* coalesce(user_id, ...) for the row of the batch.
\* Mutant: whoever is signed in.
LastUser(b) == IF batch[b].user = Guest /\ HadUser(b) THEN tab[batch[b].tab].user
               ELSE batch[b].user

NewUser(b) == IF HadUser(b) THEN tab[batch[b].tab].user ELSE batch[b].user
Events(s) == IF tab[s] = NoTab THEN 0 ELSE tab[s].events

CommitBatch(b) ==
    LET own == batch[b].tab
    IN  /\ Handling(b, "attribute") /\ batch[b].guests = {}
        /\ Events(own) < MaxEvents
        /\ stored' = [stored EXCEPT ![own] = @ + 1]
        /\ tab' = [s \in Tabs |->
                    IF s = own
                    THEN [browser |-> batch[b].browser, user |-> NewUser(b),
                          events |-> Events(s) + 1]
                    ELSE IF s \in batch[b].locked /\ tab[s] # NoTab
                    THEN [tab[s] EXCEPT !.user = batch[b].user] ELSE tab[s]]
        /\ BatchEnds(b)

\* The process stops, or the database ends a deadlock.
BatchFails(b) ==
    /\ batch[b] # NoBatch
    /\ BatchEnds(b)
    /\ UNCHANGED <<tab, stored>>

\* prune_analytics: events go by their age, and are still counted; a session,
\* long after, goes with the events it has by then.
PruneEvents(s) ==
    /\ \E n \in 1 .. stored[s] : stored' = [stored EXCEPT ![s] = @ - n]
    /\ UNCHANGED <<tab, batch>>

PruneSession(s) ==
    /\ tab[s] # NoTab /\ \A b \in Batches : ~HoldsTab(b, s)
    /\ tab' = [tab EXCEPT ![s] = NoTab]
    /\ stored' = [stored EXCEPT ![s] = 0]
    /\ UNCHANGED batch

StorefrontNext ==
    \/ \E b \in Batches :
        \/ \E s \in Tabs, v \in Browsers, u \in Buyers \cup {Guest} : Receive(b, s, v, u)
        \/ ClaimSession(b) \/ RefuseSession(b) \/ WriteBatch(b)
        \/ \E s \in Tabs : TakeGuest(b, s)
        \/ CommitBatch(b) \/ BatchFails(b)
    \/ \E s \in Tabs : PruneEvents(s) \/ PruneSession(s)

StorefrontSpec == StorefrontInit /\ [][StorefrontNext]_storefrontVars

-----------------------------------------------------------------------------
(* Properties. *)

Stays(s) == tab[s] # NoTab /\ tab'[s] # NoTab
NewEvents(s) == IF stored'[s] > stored[s] THEN stored'[s] - stored[s] ELSE 0

GetsCustomer(s) ==
    /\ tab'[s] # NoTab /\ tab'[s].user # Guest
    /\ tab[s] # NoTab => tab'[s].user # tab[s].user
\* A batch under way has that customer signed in, in that browser.
SignedIn(u, v) == \E b \in Batches : /\ batch[b] # NoBatch
                                     /\ batch[b].user = u /\ batch[b].browser = v

\* A session belongs to one browser, and once to a customer, to that one for
\* good, whichever sessions of whichever browsers sign in at the same time.
\* A customer gets a session only while they are signed in, in the browser it
\* belongs to.  A session's count goes up by the events that are stored with
\* it and never down, so that the events that are left are at most its count.
SessionsStand ==
    [][\A s \in Tabs :
        /\ Stays(s) => /\ tab'[s].browser = tab[s].browser
                       /\ tab[s].user # Guest => tab'[s].user = tab[s].user
        /\ GetsCustomer(s) => SignedIn(tab'[s].user, tab'[s].browser)
        /\ tab'[s] # NoTab => /\ tab'[s].events = Events(s) + NewEvents(s)
                              /\ stored'[s] <= tab'[s].events]_storefrontVars
=============================================================================
