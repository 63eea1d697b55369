------------------------------ MODULE OrderDesk -----------------------------
(***************************************************************************)
(* What an administrator writes about an order in the chat with the bot:   *)
(* a reason to cancel it, or a message to its customer                     *)
(* (bot/handlers/admin/orders.py, services/admin_order_service.py).  A     *)
(* button sets the state of the chat, then notes the order, then asks for  *)
(* the text; the text is routed by the state, and acts on the order noted  *)
(* by then.  Updates of one chat are handled at the same time: only the    *)
(* lock of the administrator's row keeps two texts apart.                  *)
(*                                                                         *)
(* A definition marked Mutant is a plausible bug in the definition that    *)
(* follows it.  No action uses it: it shows that the properties can fail.  *)
(***************************************************************************)
EXTENDS Naturals, Sequences

CONSTANTS
    Tickets,        \* orders
    Errands,        \* updates of the chat handled at once
    Texts,
    MaxPrompts,     \* bound: buttons pressed
    NoErrand

Purposes == {"reason", "message"}
\* What a handler carries: a button, a text, or only the chat to clear.
ErrandRecord ==
    [at: {"tap"}, prompt: Nat, order: Tickets]
    \cup [at: Purposes \cup {"cancel", "queue"}, prompt: Nat, order: Tickets \cup {0}, key: Nat]
    \cup [at: {"clear"}, prompt: Nat]

ASSUME DeskAssumption == MaxPrompts \in Nat /\ NoErrand \notin ErrandRecord

VARIABLES
    open,           \* orders that may still be cancelled
    employed,       \* the administrator is active
    mode,           \* the FSM state of the chat: none, or the purpose of a text
    noted,          \* the FSM data: order_id and idempotency_key, 0 for none
    errand,         \* what the handlers under way have read
    letters,        \* admin_order_messages
    asked,          \* history: what each button pressed was to ask for
    visible,        \* history: the prompt the chat shows last, 0 for none
    acts,           \* history: what the answers to a prompt did, until it is tangled
    tangled         \* history: prompts that another button interfered with

deskVars == <<open, employed, mode, noted, errand, letters, asked, visible, acts, tangled>>
chatVars == <<mode, noted>>
historyOfDesk == <<asked, visible, acts, tangled>>

Nothing == [order |-> 0, key |-> 0]

DeskInit ==
    /\ open = Tickets /\ employed = TRUE
    /\ mode = "none" /\ noted = Nothing
    /\ errand = [e \in Errands |-> NoErrand]
    /\ letters = {} /\ asked = <<>> /\ visible = 0
    /\ acts = [n \in 0 .. MaxPrompts |-> <<>>] /\ tangled = {0}

UnderWay(e, what) == errand[e] # NoErrand /\ errand[e].at = what
ErrandIs(e, record) == errand' = [errand EXCEPT ![e] = record]
ErrandClears(e) == ErrandIs(e, [at |-> "clear", prompt |-> errand[e].prompt])
ErrandDone(e) == ErrandIs(e, NoErrand)
Busy == {e \in Errands : errand[e] # NoErrand}

-----------------------------------------------------------------------------
(* Buttons. *)

\* on_cancel_reason_selected ("other"), on_write_via_bot: state.set_state.
Tap(e, o, purpose) ==
    /\ errand[e] = NoErrand /\ employed /\ Len(asked) < MaxPrompts
    /\ mode' = purpose
    /\ asked' = Append(asked, [purpose |-> purpose, order |-> o])
    /\ ErrandIs(e, [at |-> "tap", prompt |-> Len(asked'), order |-> o])
    /\ tangled' = IF Busy = {} THEN tangled
                  ELSE tangled \cup {Len(asked'), visible} \cup {errand[d].prompt : d \in Busy}
    /\ UNCHANGED <<open, employed, noted, letters, visible, acts>>

\* state.update_data: a new key for a message, the old one stays otherwise.
KeyNoted(n) == IF asked[n].purpose = "message" THEN n ELSE noted.key

\* The prompt may not reach the chat, which then shows the one before.
NoteOrder(e, reached) ==
    LET n == errand[e].prompt
    IN  /\ UnderWay(e, "tap")
        /\ noted' = [order |-> errand[e].order, key |-> KeyNoted(n)]
        /\ visible' = IF reached THEN n ELSE visible
        /\ tangled' = IF reached THEN tangled ELSE tangled \cup {visible}
        /\ ErrandDone(e)
        /\ UNCHANGED <<open, employed, mode, letters, asked, acts>>

\* The process stops, or Redis fails, between set_state and update_data.
TapDies(e) ==
    /\ UnderWay(e, "tap")
    /\ tangled' = tangled \cup {visible}
    /\ ErrandDone(e)
    /\ UNCHANGED <<open, employed, chatVars, letters, asked, visible, acts>>

-----------------------------------------------------------------------------
(* Texts. *)

\* The filters of the two handlers, and their first check.  What the text says
\* matters when it is queued.
Type(e) ==
    /\ errand[e] = NoErrand /\ mode # "none"
    /\ ErrandIs(e, IF employed
                   THEN [at |-> mode, prompt |-> visible, order |-> 0, key |-> 0]
                   ELSE [at |-> "clear", prompt |-> visible])
    /\ tangled' = IF \E d \in Busy : UnderWay(d, "tap") THEN tangled \cup {visible} ELSE tangled
    /\ UNCHANGED <<open, employed, chatVars, letters, asked, visible, acts>>

\* load_order_admin(lock=True): until the commit of the cancellation.
Unlocked == \A d \in Errands : ~UnderWay(d, "cancel")

\* state.get_data
ReadNoted(e) ==
    /\ \/ /\ UnderWay(e, "reason") /\ Unlocked
          /\ IF employed /\ noted.order # 0
             THEN ErrandIs(e, [errand[e] EXCEPT !.at = "cancel", !.order = noted.order])
             ELSE ErrandClears(e)
       \/ /\ UnderWay(e, "message")
          /\ IF noted.order # 0 /\ noted.key # 0
             THEN ErrandIs(e, [errand[e] EXCEPT !.at = "queue", !.order = noted.order,
                                                !.key = noted.key])
             ELSE ErrandClears(e)
    /\ UNCHANGED <<open, employed, chatVars, letters, historyOfDesk>>

Acted(e, purpose) ==
    acts' = IF errand[e].prompt \in tangled THEN acts
            ELSE [acts EXCEPT ![errand[e].prompt] =
                    Append(@, [purpose |-> purpose, order |-> errand[e].order])]

\* cancel_order and the commit; an order that is closed by now is an error
\* that nothing handles, and the state stays.
Cancel(e) ==
    /\ UnderWay(e, "cancel")
    /\ IF errand[e].order \in open
       THEN /\ open' = open \ {errand[e].order}
            /\ Acted(e, "reason") /\ ErrandClears(e)
       ELSE ErrandDone(e) /\ UNCHANGED <<open, acts>>
    /\ UNCHANGED <<employed, chatVars, letters, asked, visible, tangled>>

Letter(e, t) == [order |-> errand[e].order, key |-> errand[e].key, text |-> t]
\* Mutant: a message counts as queued if its text is the same, too.
QueuedVerbatim(e, t) == Letter(e, t) \in letters
Queued(e, t) == \E l \in letters : [l EXCEPT !.text = t] = Letter(e, t)

\* queue_order_message and the commit; IdempotencyConflictError is an error
\* that nothing handles, and the state stays.
QueueMessage(e, t) ==
    /\ UnderWay(e, "queue") /\ Unlocked
    /\ IF employed /\ ~Queued(e, t)
       THEN /\ letters' = letters \cup {Letter(e, t)}
            /\ Acted(e, "message")
       ELSE UNCHANGED <<letters, acts>>
    /\ IF employed /\ Queued(e, t) /\ Letter(e, t) \notin letters THEN ErrandDone(e)
       ELSE ErrandClears(e)
    /\ UNCHANGED <<open, employed, chatVars, asked, visible, tangled>>

\* AdminOrderMessageValidationError: another text is awaited.
TextRefused(e) ==
    /\ UnderWay(e, "queue") /\ Unlocked /\ employed
    /\ ErrandDone(e)
    /\ UNCHANGED <<open, employed, chatVars, letters, historyOfDesk>>

\* state.clear
ClearChat(e) ==
    /\ UnderWay(e, "clear")
    /\ mode' = "none" /\ noted' = Nothing
    /\ ErrandDone(e)
    /\ UNCHANGED <<open, employed, letters, historyOfDesk>>

\* cmd_admin clears the chat; a button of another dialogue only sets its state.
LeaveChat(clears) ==
    /\ mode # "none"
    /\ mode' = "none" /\ noted' = IF clears THEN Nothing ELSE noted
    /\ UNCHANGED <<open, employed, errand, letters, historyOfDesk>>

-----------------------------------------------------------------------------
(* What others do meanwhile. *)

\* Another administrator, the customer or a button that needs no text
\* (_finalize_cancel, on_advance_status to completed) closes the order.
CloseElsewhere(o) ==
    /\ o \in open
    /\ open' = open \ {o}
    /\ UNCHANGED <<employed, chatVars, errand, letters, historyOfDesk>>

\* A superadmin deactivates or removes the administrator.
Dismiss ==
    /\ employed /\ Unlocked
    /\ employed' = FALSE
    /\ UNCHANGED <<open, chatVars, errand, letters, historyOfDesk>>

DeskNext ==
    \/ \E e \in Errands :
        \/ \E o \in Tickets, purpose \in Purposes : Tap(e, o, purpose)
        \/ \E reached \in BOOLEAN : NoteOrder(e, reached)
        \/ TapDies(e)
        \/ Type(e) \/ ReadNoted(e) \/ Cancel(e)
        \/ \E t \in Texts : QueueMessage(e, t)
        \/ TextRefused(e) \/ ClearChat(e)
    \/ \E o \in Tickets : CloseElsewhere(o)
    \/ \E clears \in BOOLEAN : LeaveChat(clears)
    \/ Dismiss

DeskSpec == DeskInit /\ [][DeskNext]_deskVars

-----------------------------------------------------------------------------
(* Properties. *)

\* A prompt gets one answer: of the texts typed under it, in whatever hurry,
\* at most one has an effect, and it is the effect the prompt announced, on
\* the order it was about.  Except where a button was pressed while another
\* update of the chat was under way, or failed half-way.
OnePerPrompt ==
    \A n \in DOMAIN asked \ tangled :
        /\ Len(acts[n]) <= 1
        /\ \A i \in DOMAIN acts[n] : acts[n][i] = asked[n]
=============================================================================
