------------------------------ MODULE FrontDoor -----------------------------
(***************************************************************************)
(* What every call passes before it is handled: the counters in Redis that *)
(* limit the calls of one client in a window of time (api/rate_limit.py,   *)
(* bot/middlewares/throttling.py), and, for a customer's updates to the    *)
(* bot, the gate that asks Telegram whether the customer has joined the    *)
(* shop's channel and remembers a yes for a while (bot/utils/              *)
(* subscription.py).  Counters and the remembered answer are per client;   *)
(* this is one client, several of whose calls are on their way at once in  *)
(* processes that may die between two commands.                            *)
(*                                                                         *)
(* Staff and a customer's very first update pass the gate unasked and are  *)
(* left out.                                                               *)
(*                                                                         *)
(* A definition marked Mutant is a plausible bug in the definition that    *)
(* follows it.  No action uses it: it shows that the properties can fail.  *)
(***************************************************************************)
EXTENDS Naturals, Sequences

CONSTANTS
    Calls,          \* calls on their way at once
    CallKinds,      \* those of the following that occur
    Allowed,        \* calls let through in one window
    NoCaller

\* The counters a call passes, one after another.
Counters ==
    [update |-> <<"throttle">>, recheck |-> <<"throttle">>,
     statistics |-> <<"analytics">>, browse |-> <<"general">>,
     lookup |-> <<"general", "geocode">>, order |-> <<"general", "checkout">>,
     code |-> <<"general", "auth_code">>, request |-> <<"general", "admin_code">>]

Used == {"throttle", "analytics", "general", "geocode", "checkout", "auth_code", "admin_code"}

\* Where a call under way is, the counters it has left, and whether the
\* customer has been outside the channel since it arrived.
Places == {"count", "expire", "limited", "look", "forget", "ask", "remember", "passed", "refused"}
Call == [at: Places, kind: CallKinds, left: Seq(Used), away: BOOLEAN]

ASSUME DoorAssumption ==
    /\ Allowed \in Nat \ {0} /\ CallKinds \subseteq DOMAIN Counters
    /\ NoCaller \notin Call

VARIABLES
    caller,         \* how far each call is
    count,          \* the counters, up to one more than is allowed
    timed,          \* counters that are going to expire
    orphaned,       \* counters whose EXPIRE died with the process that owed it
    joined,         \* whether the customer is in the channel
    remembered      \* whether a yes is remembered

doorVars == <<caller, count, timed, orphaned, joined, remembered>>
counterVars == <<count, timed, orphaned>>
gateVars == <<joined, remembered>>

DoorInit ==
    /\ caller = [c \in Calls |-> NoCaller]
    /\ count = [d \in Used |-> 0] /\ timed = {} /\ orphaned = {}
    /\ joined \in BOOLEAN /\ remembered = FALSE

At(c, place) == caller[c] # NoCaller /\ caller[c].at = place
Moves(c, place) == caller' = [caller EXCEPT ![c].at = place]

Arrive(c, kind) ==
    /\ caller[c] = NoCaller
    /\ caller' = [caller EXCEPT ![c] =
         [at |-> "count", kind |-> kind, left |-> Counters[kind], away |-> ~joined]]
    /\ UNCHANGED <<counterVars, gateVars>>

Leave(c) ==
    /\ caller[c] # NoCaller /\ caller[c].at \in {"passed", "limited", "refused"}
    /\ caller' = [caller EXCEPT ![c] = NoCaller]
    /\ UNCHANGED <<counterVars, gateVars>>

-----------------------------------------------------------------------------
(* Counters. *)

\* Mutant: every counter takes two commands.
NoneAtomic(d) == d = ""

\* _ATOMIC_INCREMENT_SCRIPT; the others take INCR and then EXPIRE.
IsAtomic(d) == d \in {"auth_code", "admin_code"}

Counter(c) == Head(caller[c].left)

\* A call is about to set the expiry of the counter.
Owed(d) == \E c \in Calls : At(c, "expire") /\ Counter(c) = d

\* A process dies, or loses Redis, before its next command.
Die(c) ==
    /\ caller[c] # NoCaller /\ caller[c].at \notin {"passed", "limited", "refused"}
    /\ caller' = [caller EXCEPT ![c] = NoCaller]
    /\ orphaned' = IF At(c, "expire") THEN orphaned \cup {Counter(c)} ELSE orphaned
    /\ UNCHANGED <<count, timed, gateVars>>

\* What follows a counter that has let the call through.
Onwards(c) ==
    IF Len(caller[c].left) > 1
      THEN caller' = [caller EXCEPT ![c].left = Tail(@), ![c].at = "count"]
    ELSE Moves(c, CASE caller[c].kind = "update" -> "look"
                    [] caller[c].kind = "recheck" -> "forget"
                    [] OTHER -> "passed")

Increment(c) ==
    /\ At(c, "count")
    /\ LET d == Counter(c)
           n == IF count[d] > Allowed THEN count[d] ELSE count[d] + 1
       IN  /\ count' = [count EXCEPT ![d] = n]
           /\ timed' = IF n = 1 /\ IsAtomic(d) THEN timed \cup {d} ELSE timed
           /\ IF n = 1 /\ ~IsAtomic(d) THEN Moves(c, "expire")
              ELSE IF n > Allowed THEN Moves(c, "limited") ELSE Onwards(c)
    /\ UNCHANGED <<orphaned, gateVars>>

\* EXPIRE of a key that is gone does nothing.
SetExpiry(c) ==
    /\ At(c, "expire")
    /\ timed' = IF count[Counter(c)] > 0 THEN timed \cup {Counter(c)} ELSE timed
    /\ Onwards(c)
    /\ UNCHANGED <<count, orphaned, gateVars>>

WindowEnds(d) ==
    /\ d \in timed
    /\ timed' = timed \ {d} /\ count' = [count EXCEPT ![d] = 0]
    /\ UNCHANGED <<caller, orphaned, gateVars>>

-----------------------------------------------------------------------------
(* The gate. *)

\* forget_subscription, when the customer says to have joined.
Forget(c) ==
    /\ At(c, "forget")
    /\ remembered' = FALSE /\ Moves(c, "look")
    /\ UNCHANGED <<joined, counterVars>>

LookUp(c) ==
    /\ At(c, "look")
    /\ Moves(c, IF remembered THEN "passed" ELSE "ask")
    /\ UNCHANGED <<counterVars, gateVars>>

\* get_chat_member: only a definite no closes the gate, and a call that
\* fails lets the customer in.
AskTelegram(c, fails) ==
    /\ At(c, "ask")
    /\ Moves(c, IF fails THEN "passed" ELSE IF joined THEN "remember" ELSE "refused")
    /\ UNCHANGED <<counterVars, gateVars>>

Remember(c) ==
    /\ At(c, "remember")
    /\ remembered' = TRUE /\ Moves(c, "passed")
    /\ UNCHANGED <<joined, counterVars>>

AnswerExpires ==
    remembered /\ remembered' = FALSE /\ UNCHANGED <<caller, counterVars, joined>>

Join == ~joined /\ joined' = TRUE /\ UNCHANGED <<caller, counterVars, remembered>>

Quit ==
    /\ joined /\ joined' = FALSE
    /\ caller' = [c \in Calls |->
         IF caller[c] = NoCaller THEN NoCaller ELSE [caller[c] EXCEPT !.away = TRUE]]
    /\ UNCHANGED <<counterVars, remembered>>

DoorNext ==
    \/ \E c \in Calls :
        \/ \E kind \in CallKinds : Arrive(c, kind)
        \/ Leave(c) \/ Die(c) \/ Increment(c) \/ SetExpiry(c)
        \/ Forget(c) \/ LookUp(c) \/ Remember(c)
        \/ \E fails \in BOOLEAN : AskTelegram(c, fails)
    \/ \E d \in Used : WindowEnds(d)
    \/ AnswerExpires \/ Join \/ Quit

DoorSpec == DoorInit /\ [][DoorNext]_doorVars

-----------------------------------------------------------------------------
(* Properties. *)

\* Nobody is kept out for no reason.  A customer whom the gate turns away has
\* been outside the channel since the update arrived, however answers are
\* remembered and forgotten by other updates.  A limit ends by itself, however
\* calls and the ends of windows overlap, unless a process died between the
\* two commands of that counter; the counters of signing in, kept by a script,
\* always end.  (A sign-in passes the general counter first, and that one can
\* be left without an end: the second part says when, not that it cannot.)
NobodyShutOut ==
    /\ \A c \in Calls : At(c, "refused") => caller[c].away
    /\ \A d \in Used : count[d] > 0 => d \in timed \/ Owed(d) \/ d \in orphaned
    /\ \A d \in {"auth_code", "admin_code"} : count[d] > 0 => d \in timed
=============================================================================
