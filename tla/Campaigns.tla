----------------------------- MODULE Campaigns ------------------------------
(***************************************************************************)
(* First contacts and the campaign links they come from                    *)
(* (bot/middlewares/user_registration.py, bot/handlers/user/start.py,      *)
(* services/traffic_source_service.py).  Every update of the bot and every *)
(* sign-in of the web app looks its customer up, and registers the ones it *)
(* does not know; a start with a campaign link counts a click and, for a   *)
(* new customer, records the campaign.  A visit is one transaction: what   *)
(* it writes is seen by nobody before it commits, and a visit that needs a *)
(* row another has written waits for that one to end.                      *)
(*                                                                         *)
(* A definition marked Mutant is a plausible bug in the definition that    *)
(* follows it.  No action uses it: it shows that the properties can fail.  *)
(***************************************************************************)
EXTENDS Naturals, FiniteSets

CONSTANTS
    Visits,         \* updates and requests handled at once
    People,         \* telegram_id
    Links,          \* codes of campaigns
    MaxVisits,      \* bound: visits of each link
    NoVisit, NoLink, Stranger

ASSUME CampaignsAssumption == MaxVisits \in Nat /\ {NoLink, Stranger} \cap Links = {}

VARIABLES
    known,          \* users: traffic_source_id, or Stranger for no row
    campaign,       \* traffic_sources: code -> does the row exist, is_active, clicks_count
    visit,          \* what each visit has read and written
    visited         \* history: visits of a link that were counted and committed

campaignVars == <<known, campaign, visit, visited>>

CampaignsInit ==
    /\ known = [p \in People |-> Stranger]
    /\ campaign = [l \in Links |-> [exists |-> FALSE, active |-> FALSE, clicks |-> 0]]
    /\ visit = [v \in Visits |-> NoVisit]
    /\ visited = [l \in Links |-> 0]

Visiting(v, at) == visit[v] # NoVisit /\ visit[v].at = at
VisitAt(v, at) == visit' = [visit EXCEPT ![v].at = at]
VisitEnds(v) == visit' = [visit EXCEPT ![v] = NoVisit]
Others(v) == {u \in Visits \ {v} : visit[u] # NoVisit}

-----------------------------------------------------------------------------
(* A visit. *)

\* get_by_telegram_id; a sign-in of the web app is a visit without a link.
BeginVisit(v, p, l) ==
    /\ visit[v] = NoVisit
    /\ l # NoLink => visited[l] + Cardinality({u \in Others(v) : visit[u].link = l}) < MaxVisits
    /\ visit' = [visit EXCEPT ![v] = [at |-> "met", person |-> p, link |-> l,
                                      new |-> known[p] = Stranger,
                                      source |-> NoLink, counted |-> NoLink]]
    /\ UNCHANGED <<known, campaign, visited>>

\* The unique key of an INSERT that is not committed, or the lock of the row.
UserFree(v) ==
    \A u \in Others(v) : visit[u].person = visit[v].person => Visiting(u, "met")

\* create, touch_last_active
Register(v) ==
    /\ Visiting(v, "met") /\ UserFree(v)
    /\ visit[v].new => known[visit[v].person] = Stranger
    /\ VisitAt(v, IF visit[v].link = NoLink THEN "done" ELSE "registered")
    /\ UNCHANGED <<known, campaign, visited>>

\* Another visit registered the same customer: IntegrityError, which takes
\* the whole update with it.
RegistersTwice(v) ==
    /\ Visiting(v, "met") /\ UserFree(v)
    /\ visit[v].new /\ known[visit[v].person] # Stranger
    /\ VisitEnds(v)
    /\ UNCHANGED <<known, campaign, visited>>

\* get_by_code
FindSource(v) ==
    /\ Visiting(v, "registered")
    /\ VisitAt(v, IF campaign[visit[v].link].active THEN "found" ELSE "done")
    /\ UNCHANGED <<known, campaign, visited>>

SourceFree(v) == \A u \in Others(v) : visit[u].counted # visit[v].link

\* Mutant: any visitor without a campaign is given one.
AttributesLater(v) == visit[v].new \/ known[visit[v].person] = NoLink
Attributes(v) == visit[v].new

\* increment_clicks, and the campaign of a new customer.
CountClick(v) ==
    /\ Visiting(v, "found") /\ SourceFree(v)
    /\ visit' = [visit EXCEPT ![v].at = "done", ![v].counted = visit[v].link,
                              ![v].source = IF Attributes(v) THEN visit[v].link ELSE NoLink]
    /\ UNCHANGED <<known, campaign, visited>>

CommitVisit(v) ==
    LET p == visit[v].person  l == visit[v].counted
    IN  /\ Visiting(v, "done")
        /\ known' = [known EXCEPT ![p] = IF visit[v].new \/ visit[v].source # NoLink
                                         THEN visit[v].source ELSE @]
        /\ IF l = NoLink THEN UNCHANGED <<campaign, visited>>
           ELSE /\ campaign' = [campaign EXCEPT ![l].clicks = @ + 1]
                /\ visited' = [visited EXCEPT ![l] = @ + 1]
        /\ VisitEnds(v)

\* Telegram refuses an answer, or the process stops: everything is undone.
VisitFails(v) ==
    /\ visit[v] # NoVisit
    /\ VisitEnds(v)
    /\ UNCHANGED <<known, campaign, visited>>

-----------------------------------------------------------------------------
(* Campaigns are created, and switched off and on; the row is locked. *)

CreateSource(l) ==
    /\ ~campaign[l].exists
    /\ campaign' = [campaign EXCEPT ![l] = [exists |-> TRUE, active |-> TRUE, clicks |-> 0]]
    /\ UNCHANGED <<known, visit, visited>>

SwitchSource(l) ==
    /\ campaign[l].exists
    /\ \A v \in Visits : visit[v] # NoVisit => visit[v].counted # l
    /\ campaign' = [campaign EXCEPT ![l].active = ~@]
    /\ UNCHANGED <<known, visit, visited>>

CampaignsNext ==
    \/ \E v \in Visits :
        \/ \E p \in People, l \in Links \cup {NoLink} : BeginVisit(v, p, l)
        \/ Register(v) \/ RegistersTwice(v) \/ FindSource(v) \/ CountClick(v)
        \/ CommitVisit(v) \/ VisitFails(v)
    \/ \E l \in Links : CreateSource(l) \/ SwitchSource(l)

CampaignsSpec == CampaignsInit /\ [][CampaignsNext]_campaignVars

-----------------------------------------------------------------------------
(* Properties. *)

CameWith(l) == {p \in People : known[p] = l}

\* The clicks of a campaign are the visits it was credited with, and cover
\* the customers it is credited with; and the campaign of a customer is that
\* of the first contact, if any: it is never given, changed or taken later.
CampaignsAddUp ==
    [][/\ \A l \in Links :
            /\ campaign'[l].clicks = visited'[l]
            /\ Cardinality(CameWith(l)') <= campaign'[l].clicks
       /\ \A p \in People : known[p] # Stranger => known'[p] = known[p]]_campaignVars
=============================================================================
