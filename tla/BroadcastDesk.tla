---------------------------- MODULE BroadcastDesk ---------------------------
(***************************************************************************)
(* How a broadcast comes to be launched: by an administrator's dialogue    *)
(* with the bot (bot/handlers/admin/broadcast.py), which previews, drafts  *)
(* and launches with a key it notes in the FSM data, or by the web panel   *)
(* (api/v1/admin/broadcasts.py), which drafts first and may send a launch  *)
(* again when its answer was lost.  Buttons of old messages stay in the    *)
(* chat and carry nothing but their action; updates of one chat are        *)
(* handled at the same time, so that a handler acts on answers it read a   *)
(* while ago.  Broadcast models what follows a launch.                     *)
(*                                                                         *)
(* A fingerprint stands for the data it is taken from.                     *)
(*                                                                         *)
(* A definition marked Mutant is a plausible bug in the definition that    *)
(* follows it.  No action uses it: it shows that the properties can fail.  *)
(***************************************************************************)
EXTENDS Naturals, Sequences

CONSTANTS
    Adverts,        \* text and photo of a broadcast
    Captions,       \* text and address of the button under it
    Targets,
    Listeners,      \* customers
    Taps,           \* updates of the chat handled at once
    MaxPreviews,    \* bound: launch keys drawn
    MaxDrafts,      \* bound: drafts of the web panel
    Blank, NoTap

ASSUME PreviewAssumption == MaxPreviews \in Nat /\ MaxDrafts \in Nat

VARIABLES
    stage,          \* the FSM state of the chat
    notes,          \* the FSM data of the chat
    tap,            \* what the handlers under way have read
    reach,          \* customers each target selects
    campaign,       \* broadcasts: drafts of the web panel and all that is launched
    requests,       \* launches the web panel has sent, which may arrive again
    promise,        \* history: what the preview of each key shows
    launches        \* history: what was launched, as [row, key, content]

deskOfBroadcastVars ==
    <<stage, notes, tap, reach, campaign, requests, promise, launches>>
chatOnly == <<reach, campaign, requests, promise, launches>>

EmptyNotes == [advert |-> Blank, caption |-> Blank, link |-> Blank,
               target |-> Blank, seen |-> Blank, key |-> 0]

BroadcastDeskInit ==
    /\ stage = "none" /\ notes = EmptyNotes
    /\ tap = [t \in Taps |-> NoTap]
    /\ reach \in [Targets -> SUBSET Listeners]
    /\ campaign = <<>> /\ requests = {} /\ promise = <<>> /\ launches = {}

\* What a preview shows, and what its fingerprints are taken from.
Content(n, g) == [advert |-> n.advert, caption |-> n.caption, link |-> n.link,
                  target |-> g, crowd |-> reach[g]]
\* _validate_content: something to send; a button is complete or absent.
Valid(n) == n.advert # Blank /\ (n.caption = Blank <=> n.link = Blank)

-----------------------------------------------------------------------------
(* The dialogue. *)

Ask(s) == stage' = s /\ UNCHANGED <<tap, chatOnly>>

\* The menu button: what was noted before stays.
OpenComposer == Ask("content") /\ UNCHANGED notes

\* /admin and /start, the common cancel button, and the one of the preview.
LeaveComposer == Ask("none") /\ notes' = EmptyNotes

EnterAdvert(a) ==
    stage = "content" /\ notes' = [notes EXCEPT !.advert = a] /\ Ask("button")

ChooseButton(wanted) ==
    /\ stage = "button"
    /\ IF wanted THEN Ask("caption") /\ UNCHANGED notes
       ELSE /\ notes' = [notes EXCEPT !.caption = Blank, !.link = Blank]
            /\ Ask("target")

EnterCaption(c) ==
    stage = "caption" /\ notes' = [notes EXCEPT !.caption = c] /\ Ask("link")

EnterLink(c) ==
    stage = "link" /\ notes' = [notes EXCEPT !.link = c] /\ Ask("target")

-----------------------------------------------------------------------------
(* Preview and launch from the chat. *)

Taken(t, record) == tap' = [tap EXCEPT ![t] = record]
\* The administrator's row is locked from the draft to the commit.
ActorFree == \A t \in Taps : tap[t] # NoTap => tap[t].at # "closing"

\* on_target_chosen up to the answers it previews.
ChooseTarget(t, g) ==
    /\ stage = "target" /\ tap[t] = NoTap
    /\ Taken(t, [at |-> "preview", notes |-> notes, target |-> g])
    /\ UNCHANGED <<stage, notes, chatOnly>>

\* The rest of it: the fingerprints are noted under a new key next to
\* whatever the data holds by then.  Invalid content raises.
ShowPreview(t) ==
    /\ tap[t] # NoTap /\ tap[t].at = "preview" /\ ActorFree
    /\ LET seen == Content(tap[t].notes, tap[t].target)
           key == Len(promise) + 1
       IN  IF Valid(tap[t].notes)
           THEN /\ key <= MaxPreviews
                /\ notes' = [notes EXCEPT !.target = tap[t].target, !.seen = seen, !.key = key]
                /\ stage' = "confirming" /\ promise' = Append(promise, seen)
           ELSE UNCHANGED <<notes, stage, promise>>
    /\ Taken(t, NoTap)
    /\ UNCHANGED <<reach, campaign, requests, launches>>

\* on_broadcast_send of any preview in the chat: the filter looks at the
\* state, the handler at the data some time later.
ConfirmLaunch(t) ==
    /\ stage = "confirming" /\ tap[t] = NoTap
    /\ Taken(t, [at |-> "confirm"])
    /\ UNCHANGED <<stage, notes, chatOnly>>

ReadNotes(t) ==
    /\ tap[t] # NoTap /\ tap[t].at = "confirm"
    /\ IF notes.key = 0
       THEN Taken(t, NoTap) /\ stage' = "none" /\ notes' = EmptyNotes
       ELSE Taken(t, [at |-> "send", notes |-> notes]) /\ UNCHANGED <<stage, notes>>
    /\ UNCHANGED chatOnly

\* Mutant: the fingerprint is taken from the content alone.
SameContent(seen, now) == seen.advert = now.advert /\ seen.caption = now.caption
                          /\ seen.link = now.link /\ seen.target = now.target

StillAsSeen(seen, now) == seen = now

KeyUnused(k) == \A l \in launches : l.key # k

\* create_broadcast_draft and launch_broadcast, in one transaction that ends
\* after the handler.  A used key raises, an outdated preview asks again.
DraftAndLaunch(t) ==
    /\ tap[t] # NoTap /\ tap[t].at = "send" /\ ActorFree
    /\ LET n == tap[t].notes
           now == Content(n, n.target)
       IN  IF Valid(n) /\ ~StillAsSeen(n.seen, now)
             THEN Taken(t, NoTap) /\ stage' = "target"
           ELSE /\ Taken(t, IF Valid(n) /\ KeyUnused(n.key)
                            THEN [at |-> "closing", key |-> n.key, content |-> now]
                            ELSE NoTap)
                /\ UNCHANGED stage
    /\ UNCHANGED <<notes, chatOnly>>

\* The chat is told; if that fails, the transaction is rolled back.
CloseLaunch(t, told) ==
    /\ tap[t] # NoTap /\ tap[t].at = "closing"
    /\ stage' = "none" /\ notes' = EmptyNotes /\ Taken(t, NoTap)
    /\ IF told
       THEN /\ campaign' = Append(campaign, [content |-> tap[t].content, key |-> tap[t].key])
            /\ launches' = launches \cup
                 {[row |-> Len(campaign'), key |-> tap[t].key, content |-> tap[t].content]}
       ELSE UNCHANGED <<campaign, launches>>
    /\ UNCHANGED <<reach, requests, promise>>

-----------------------------------------------------------------------------
(* The web panel, and the customers. *)

WebNotes(a) == [advert |-> a, caption |-> Blank, link |-> Blank]

\* create_broadcast_draft, of what was just previewed.
WebDraft(a, g) ==
    /\ Len(campaign) < MaxDrafts
    /\ campaign' = Append(campaign, [content |-> Content(WebNotes(a), g), key |-> 0])
    /\ UNCHANGED <<stage, notes, tap, reach, requests, promise, launches>>

\* A new preview of the draft and the launch button: a new key.
WebConfirm(i) ==
    /\ campaign[i].key = 0 /\ Len(promise) < MaxPreviews
    /\ LET draft == campaign[i].content
           seen == Content(draft, draft.target)
       IN  /\ promise' = Append(promise, seen)
           /\ requests' = requests \cup {[row |-> i, key |-> Len(promise'), seen |-> seen]}
    /\ UNCHANGED <<stage, notes, tap, reach, campaign, launches>>

\* launch_broadcast, as often as the request arrives.
WebLaunch(r) ==
    /\ KeyUnused(r.key) /\ campaign[r.row].key = 0
    /\ LET draft == campaign[r.row].content
           now == Content(draft, draft.target)
       IN  /\ StillAsSeen(r.seen, now)
           /\ campaign' = [campaign EXCEPT ![r.row] = [content |-> now, key |-> r.key]]
           /\ launches' = launches \cup {[row |-> r.row, key |-> r.key, content |-> now]}
    /\ UNCHANGED <<stage, notes, tap, reach, requests, promise>>

\* Customers come into a target and drop out of it.
ReachChanges ==
    /\ reach' \in [Targets -> SUBSET Listeners]
    /\ UNCHANGED <<stage, notes, tap, campaign, requests, promise, launches>>

ChatNext ==
    \/ OpenComposer \/ LeaveComposer \/ ReachChanges
    \/ \E a \in Adverts : EnterAdvert(a)
    \/ \E wanted \in BOOLEAN : ChooseButton(wanted)
    \/ \E c \in Captions : EnterCaption(c) \/ EnterLink(c)
    \/ \E t \in Taps :
        \/ \E g \in Targets : ChooseTarget(t, g)
        \/ ShowPreview(t) \/ ConfirmLaunch(t) \/ ReadNotes(t) \/ DraftAndLaunch(t)
        \/ \E told \in BOOLEAN : CloseLaunch(t, told)

PanelNext ==
    \/ ReachChanges
    \/ \E a \in Adverts, g \in Targets : WebDraft(a, g)
    \/ \E i \in DOMAIN campaign : WebConfirm(i)
    \/ \E r \in requests : WebLaunch(r)

BroadcastDeskSpec == BroadcastDeskInit /\ [][ChatNext \/ PanelNext]_deskOfBroadcastVars

-----------------------------------------------------------------------------
(* Properties. *)

\* Whatever is launched is the very text, button and audience that a preview
\* showed, and each preview, like each draft, is launched once at most: when
\* the button is tapped twice, or is the button of an older preview, when the
\* answers change under a handler, and when a launch is sent again.
LaunchedAsShown ==
    /\ \A l \in launches : l.content = promise[l.key]
    /\ \A l, m \in launches : l.key = m.key \/ l.row = m.row => l = m
=============================================================================
