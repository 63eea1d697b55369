------------------------------ MODULE AdminTeam ------------------------------
(***************************************************************************)
(* The administrators, what they may change about each other               *)
(* (admin_team_service.py, asked for in bot/handlers/admin/manage.py and   *)
(* api/v1/admin/team.py), and their web sessions (admin_session_service.py,   *)
(* api/admin_security.py).  A change is decided on rows it has locked, one *)
(* change at a time in the whole database; logging in and logging out of   *)
(* every device read the administrator's row without a lock, and write     *)
(* later.                                                                  *)
(*                                                                         *)
(* Names and notification switches are left out; an operator is one of the *)
(* two roles that may not manage the team.                                 *)
(*                                                                         *)
(* A definition marked Mutant is a plausible bug in the definition that    *)
(* follows it.  No action uses it: it shows that the properties can fail.  *)
(***************************************************************************)
EXTENDS Naturals, FiniteSets

CONSTANTS
    Staff,          \* ids of administrators, present, past and to come
    Founders,       \* the superadmins there are at first
    Calls,          \* requests handled at the same time
    Logins,         \* ids of web sessions
    MaxWithdrawals, \* bound: times sessions are withdrawn in all
    NoCall, NoLogin

ASSUME TeamAssumption ==
    /\ Founders \subseteq Staff /\ Founders # {} /\ IsFiniteSet(Founders)
    /\ MaxWithdrawals \in Nat

VARIABLES
    staff,          \* admins: role and is_active
    epoch,          \* admins: auth_epoch
    session,        \* admin_sessions that are not revoked
    call,           \* what each request has read, locked or decided
    withdrawn,      \* history: times an administrator's sessions were withdrawn
    overwritten     \* history: whose auth_epoch was set from a stale one

teamVars == <<staff, epoch, session, call, withdrawn, overwritten>>

\* role "superadmin" or "manager"; "new": no row yet; "gone": deleted.
Present(a) == staff[a].role \in {"superadmin", "manager"}
IsSuperadmin(a) == staff[a].role = "superadmin" /\ staff[a].active
Superadmins == {a \in Staff : IsSuperadmin(a)}

Changes == {"add", "promote", "demote", "activate", "deactivate", "remove", "revoke"}

TeamInit ==
    /\ staff = [a \in Staff |-> [role |-> IF a \in Founders THEN "superadmin" ELSE "new",
                                 active |-> a \in Founders]]
    /\ epoch = [a \in Staff |-> 0]
    /\ session = [s \in Logins |-> NoLogin]
    /\ call = [c \in Calls |-> NoCall]
    /\ withdrawn = [a \in Staff |-> 0]
    /\ overwritten = {}

Serving(c, what) == call[c] # NoCall /\ call[c].doing = what
CallBecomes(c, record) == call' = [call EXCEPT ![c] = record]
EndCall(c) == CallBecomes(c, NoCall)
rowVars == <<staff, epoch, session, withdrawn, overwritten>>

-----------------------------------------------------------------------------
(* Changes of the team. *)

\* A handler has checked the actor's role (require_admin, or the session's
\* administrator) and fixed what is to change.
AskChange(c, a, t, change) ==
    /\ call[c] = NoCall /\ IsSuperadmin(a)
    /\ CallBecomes(c, [doing |-> "asked", actor |-> a, target |-> t, change |-> change])
    /\ UNCHANGED rowVars

\* The row as the change would leave it.
Proposed(t, change) ==
    CASE change = "add"        -> [role |-> "manager", active |-> TRUE]
      [] change = "promote"    -> [staff[t] EXCEPT !.role = "superadmin"]
      [] change = "demote"     -> [staff[t] EXCEPT !.role = "manager"]
      [] change = "activate"   -> [staff[t] EXCEPT !.active = TRUE]
      [] change = "deactivate" -> [staff[t] EXCEPT !.active = FALSE]
      [] change = "remove"     -> [role |-> "gone", active |-> FALSE]
      [] change = "revoke"     -> staff[t]

LosesSuperadmin(t, change) ==
    IsSuperadmin(t) /\ ~(Proposed(t, change).role = "superadmin" /\ Proposed(t, change).active)

\* What a decided change holds: the advisory lock, and two rows.
Rows(c) == {call[c].actor, call[c].target}
Decided == {c \in Calls : Serving(c, "decided")}
\* Mutant: there is no advisory lock, only the locks of the rows.
RowLocksFree(c) == \A d \in Decided : Rows(c) \cap Rows(d) = {}
TeamLockFree(c) == Decided = {}

\* _load_actor, under the lock.
\* Mutant: the handler's check is trusted.
TrustsHandler(c) == TRUE
ActorStands(c) == IsSuperadmin(call[c].actor)

Allowed(c) ==
    LET a == call[c].actor  t == call[c].target  change == call[c].change
    IN  /\ ActorStands(c)
        /\ IF change = "add" THEN staff[t].role = "new" ELSE Present(t)
        /\ change = "remove" => t # a
        /\ LosesSuperadmin(t, change) => Cardinality(Superadmins) > 1
        /\ change # "revoke" => Proposed(t, change) # staff[t]

DecideChange(c) ==
    /\ Serving(c, "asked") /\ TeamLockFree(c)
    /\ Allowed(c)
    /\ CallBecomes(c, [call[c] EXCEPT !.doing = "decided"])
    /\ UNCHANGED rowVars

\* An error, or nothing to change.
RefuseChange(c) ==
    /\ Serving(c, "asked") /\ TeamLockFree(c)
    /\ ~Allowed(c)
    /\ EndCall(c)
    /\ UNCHANGED rowVars

\* _revoke_sessions_and_advance_epoch; the sessions of a deleted row go too.
RevokeSessions(t) ==
    session' = [s \in Logins |-> IF session[s] # NoLogin /\ session[s].admin = t
                                 THEN NoLogin ELSE session[s]]
Withdrawals == Cardinality({w \in Staff \X (1 .. MaxWithdrawals) : w[2] <= withdrawn[w[1]]})
Withdraw(t) ==
    /\ Withdrawals < MaxWithdrawals
    /\ withdrawn' = [withdrawn EXCEPT ![t] = @ + 1]
    /\ RevokeSessions(t)

\* Mutant: the sessions are marked, the epoch stays.
SameEpoch(t) == epoch[t]
NextEpoch(t) == epoch[t] + 1

CommitChange(c) ==
    LET t == call[c].target
    IN  /\ Serving(c, "decided")
        /\ staff' = [staff EXCEPT ![t] = Proposed(t, call[c].change)]
        /\ IF call[c].change = "add"
           THEN UNCHANGED <<epoch, session, withdrawn>>
           ELSE epoch' = [epoch EXCEPT ![t] = NextEpoch(t)] /\ Withdraw(t)
        /\ EndCall(c)
        /\ UNCHANGED overwritten

-----------------------------------------------------------------------------
(* Web sessions. *)

\* FOR UPDATE on the target excludes a key that refers to the row; FOR NO
\* KEY UPDATE on the actor does not.
KeyFree(a) == \A d \in Decided : call[d].target # a
RowFree(a) == \A d \in Decided : a \notin Rows(d)

\* exchange_admin_code, create_admin_session: the row is read here ...
BeginLogin(c, a) ==
    /\ call[c] = NoCall /\ Present(a) /\ staff[a].active
    /\ CallBecomes(c, [doing |-> "login", admin |-> a, epoch |-> epoch[a],
                   seen |-> withdrawn[a]])
    /\ UNCHANGED rowVars

\* ... and the session refers to it from here on, unless it is deleted.
FinishLogin(c, s) ==
    /\ Serving(c, "login") /\ session[s] = NoLogin
    /\ KeyFree(call[c].admin)
    /\ session' = [session EXCEPT ![s] =
                    IF Present(call[c].admin)
                    THEN [admin |-> call[c].admin, epoch |-> call[c].epoch,
                          seen |-> call[c].seen]
                    ELSE NoLogin]
    /\ EndCall(c)
    /\ UNCHANGED <<staff, epoch, withdrawn, overwritten>>

\* _require_live_session
Accepted(s) ==
    /\ session[s] # NoLogin
    /\ staff[session[s].admin].active
    /\ session[s].epoch = epoch[session[s].admin]

\* revoke_admin_session, an expired session, or one that is refused.
EndSession(s) ==
    /\ session[s] # NoLogin
    /\ session' = [session EXCEPT ![s] = NoLogin]
    /\ UNCHANGED <<staff, epoch, call, withdrawn, overwritten>>

\* revoke_all_admin_sessions: the epoch is counted up from the one the
\* request has read when it looked up its own session.
BeginLogoutAll(c, s) ==
    /\ call[c] = NoCall /\ Accepted(s)
    /\ CallBecomes(c, [doing |-> "logout", admin |-> session[s].admin,
                   epoch |-> epoch[session[s].admin]])
    /\ UNCHANGED rowVars

FinishLogoutAll(c) ==
    LET a == call[c].admin
    IN  /\ Serving(c, "logout") /\ RowFree(a)
        /\ IF Present(a)
           THEN /\ epoch' = [epoch EXCEPT ![a] = call[c].epoch + 1]
                /\ Withdraw(a)
                /\ overwritten' = IF epoch[a] = call[c].epoch THEN overwritten
                                  ELSE overwritten \cup {a}
           ELSE UNCHANGED <<epoch, session, withdrawn, overwritten>>
        /\ EndCall(c)
        /\ UNCHANGED staff

TeamNext ==
    \/ \E c \in Calls :
        \/ \E a, t \in Staff, change \in Changes : AskChange(c, a, t, change)
        \/ DecideChange(c) \/ RefuseChange(c) \/ CommitChange(c)
        \/ \E a \in Staff : BeginLogin(c, a)
        \/ \E s \in Logins : FinishLogin(c, s) \/ BeginLogoutAll(c, s)
        \/ FinishLogoutAll(c)
    \/ \E s \in Logins : EndSession(s)

TeamSpec == TeamInit /\ [][TeamNext]_teamVars

-----------------------------------------------------------------------------
(* Properties. *)

\* Whatever superadmins do to each other and to themselves at the same time,
\* one of them stays: nobody else could let one in again.
SuperadminRemains == Superadmins # {}

\* A change takes effect only while the one who asked for it is a superadmin,
\* not merely was one when the handler looked.
ActsWithAuthority ==
    [][\A c \in Calls : CommitChange(c) => IsSuperadmin(call[c].actor)]_teamVars

\* No session survives the withdrawal of its administrator's sessions, not
\* even one whose login was under way; except where a logout from all devices
\* that overlapped another withdrawal has set the epoch back.
WithdrawnStaysOut ==
    \A s \in Logins :
        Accepted(s) /\ session[s].admin \notin overwritten =>
            session[s].seen = withdrawn[session[s].admin]
=============================================================================
