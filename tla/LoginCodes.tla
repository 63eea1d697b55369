----------------------------- MODULE LoginCodes -----------------------------
(***************************************************************************)
(* One-time login codes in Redis.  An administrator's code is issued by    *)
(* the bot (bot/handlers/admin/auth.py) or asked for on the login page     *)
(* (api/admin_security.py) in four separate commands                       *)
(* (admin_login_code_service.py), a customer's in one script               *)
(* (customer_auth_service.py); both are used once, in one command.  There  *)
(* are few codes, so the same digits come back for somebody else while an  *)
(* older use of them is not quite forgotten.                               *)
(*                                                                         *)
(* A definition marked Mutant is a plausible bug in the definition that    *)
(* follows it.  No action uses it: it shows that the properties can fail.  *)
(***************************************************************************)
EXTENDS Naturals, FiniteSets

CONSTANTS
    Owners,         \* administrators, by telegram id
    Customers,
    Codes,
    Issues,         \* codes being issued to administrators at once
    NoCode, NoOwner, NoIssue

ASSUME CodeAssumption == NoCode \notin Codes /\ NoOwner \notin Owners \cup Customers

VARIABLES
    owner,          \* admin_login:<code> -> administrator
    latest,         \* admin_login:latest:<administrator> -> code
    slot,           \* administrators whose cooldown key is set
    issue,          \* what each request under way has read and done
    newest,         \* history: the code last given to an administrator alone
    customerOf,     \* customer_code:<code> -> customer
    codeOf,         \* customer_user:<customer> -> code
    cooling         \* customers whose throttle key is set

codeVars == <<owner, latest, slot, issue, newest, customerOf, codeOf, cooling>>
adminCodeVars == <<owner, latest, slot, issue, newest>>
customerCodeVars == <<customerOf, codeOf, cooling>>

AdminCodesInit ==
    /\ owner = [k \in Codes |-> NoOwner] /\ latest = [a \in Owners |-> NoCode]
    /\ slot = {} /\ issue = [i \in Issues |-> NoIssue]
    /\ newest = [a \in Owners |-> NoCode]

CustomerCodesInit ==
    /\ customerOf = [k \in Codes |-> NoOwner] /\ codeOf = [u \in Customers |-> NoCode]
    /\ cooling = {}

-----------------------------------------------------------------------------
(* Administrators. *)

Step(i, record) == issue' = [issue EXCEPT ![i] = record]
At(i, step) == issue[i] # NoIssue /\ issue[i].at = step
Alone(i) == \A j \in Issues \ {i} : issue[j] # NoIssue => issue[j].admin # issue[i].admin

\* The bot's command, or claim_request_slot and the web's request: the code
\* of before is looked up.
BeginIssue(i, a, web) ==
    /\ issue[i] = NoIssue
    /\ web => a \notin slot
    /\ slot' = IF web THEN slot \cup {a} ELSE slot
    /\ Step(i, [at |-> "set", admin |-> a, previous |-> latest[a], code |-> NoCode,
                web |-> web])
    /\ newest' = [newest EXCEPT ![a] = NoCode]
    /\ UNCHANGED <<owner, latest, customerCodeVars>>

\* SET NX of a code that nobody has.
SetCode(i, k) ==
    /\ At(i, "set") /\ owner[k] = NoOwner
    /\ owner' = [owner EXCEPT ![k] = issue[i].admin]
    /\ Step(i, [issue[i] EXCEPT !.at = "latest", !.code = k])
    /\ UNCHANGED <<latest, slot, newest, customerCodeVars>>

SetLatest(i) ==
    /\ At(i, "latest")
    /\ latest' = [latest EXCEPT ![issue[i].admin] = issue[i].code]
    /\ Step(i, [issue[i] EXCEPT !.at = "drop"])
    /\ UNCHANGED <<owner, slot, newest, customerCodeVars>>

\* _DELETE_IF_OWNED_SCRIPT
\* Mutant: the code of before is deleted whoever has it by now.
DropsAny(i) == issue[i].previous \notin {NoCode, issue[i].code}
DropsPrevious(i) ==
    /\ issue[i].previous \notin {NoCode, issue[i].code}
    /\ owner[issue[i].previous] = issue[i].admin

\* The code is sent; on the web's request an undelivered one frees the slot.
DropPrevious(i) ==
    LET a == issue[i].admin
    IN  /\ At(i, "drop")
        /\ owner' = IF DropsPrevious(i)
                    THEN [owner EXCEPT ![issue[i].previous] = NoOwner] ELSE owner
        /\ newest' = IF Alone(i) /\ owner[issue[i].code] = a
                     THEN [newest EXCEPT ![a] = issue[i].code] ELSE newest
        /\ Step(i, NoIssue)
        /\ slot' \in IF issue[i].web THEN {slot, slot \ {a}} ELSE {slot}
        /\ UNCHANGED <<latest, customerCodeVars>>

\* The process dies between two commands.
AbandonIssue(i) ==
    /\ issue[i] # NoIssue
    /\ Step(i, NoIssue)
    /\ UNCHANGED <<owner, latest, slot, newest, customerCodeVars>>

\* exchange_admin_code (GETDEL), or five minutes have passed.
UseCode(k) ==
    /\ owner[k] # NoOwner
    /\ owner' = [owner EXCEPT ![k] = NoOwner]
    /\ newest' = [newest EXCEPT ![owner[k]] = IF @ = k THEN NoCode ELSE @]
    /\ UNCHANGED <<latest, slot, issue, customerCodeVars>>

\* Keys expire on their own.
ForgetAdmin(a) ==
    /\ \/ latest' = [latest EXCEPT ![a] = NoCode] /\ UNCHANGED slot
       \/ slot' = slot \ {a} /\ UNCHANGED latest
    /\ UNCHANGED <<owner, issue, newest, customerCodeVars>>

-----------------------------------------------------------------------------
(* Customers. *)

\* _ISSUE_CODE_SCRIPT, for a candidate that is free.
IssueCustomerCode(u, k) ==
    /\ u \notin cooling /\ customerOf[k] = NoOwner
    /\ customerOf' = [c \in Codes |-> IF c = k THEN u
                                      ELSE IF c = codeOf[u] THEN NoOwner ELSE customerOf[c]]
    /\ codeOf' = [codeOf EXCEPT ![u] = k]
    /\ cooling' = cooling \cup {u}
    /\ UNCHANGED adminCodeVars

\* _CONSUME_CODE_SCRIPT, or the two keys, set together, expire together.
UseCustomerCode(k) ==
    /\ customerOf[k] # NoOwner
    /\ codeOf' = [codeOf EXCEPT ![customerOf[k]] = IF @ = k THEN NoCode ELSE @]
    /\ customerOf' = [customerOf EXCEPT ![k] = NoOwner]
    /\ UNCHANGED <<adminCodeVars, cooling>>

CoolDown(u) ==
    /\ u \in cooling
    /\ cooling' = cooling \ {u}
    /\ UNCHANGED <<adminCodeVars, customerOf, codeOf>>

AdminCodesNext ==
    \/ \E i \in Issues :
        \/ \E a \in Owners, web \in BOOLEAN : BeginIssue(i, a, web)
        \/ \E k \in Codes : SetCode(i, k)
        \/ SetLatest(i) \/ DropPrevious(i) \/ AbandonIssue(i)
    \/ \E k \in Codes : UseCode(k)
    \/ \E a \in Owners : ForgetAdmin(a)

CustomerCodesNext ==
    \/ \E k \in Codes : UseCustomerCode(k)
    \/ \E u \in Customers : CoolDown(u) \/ \E k \in Codes : IssueCustomerCode(u, k)

CodesInit == AdminCodesInit /\ CustomerCodesInit
CodesSpec == CodesInit /\ [][AdminCodesNext \/ CustomerCodesNext]_codeVars

-----------------------------------------------------------------------------
(* Properties. *)

\* A code that was delivered works, and for the one it was delivered to,
\* until it is used, runs out or is followed by another: whatever happens to
\* the same digits in other hands.
NewestCodeWorks ==
    /\ \A a \in Owners : newest[a] # NoCode => owner[newest[a]] = a
    /\ \A u \in Customers : codeOf[u] # NoCode => customerOf[codeOf[u]] = u
=============================================================================
