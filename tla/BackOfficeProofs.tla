-------------------------- MODULE BackOfficeProofs --------------------------
(***************************************************************************)
(* Proofs about the modules of the back office, each for all values of its *)
(* constants: the team, the settings, the login codes, the desk where      *)
(* administrators write about orders, the catalogue, and the move of the   *)
(* receipts.  Each part names its inductive invariant.                     *)
(*                                                                         *)
(* TeamInv says that a decided change stays allowed until it is committed, *)
(* because there is one at a time: this is what a superadmin's authority and *)
(* the last superadmin rest on.  EpochInv says that epochs count the       *)
(* withdrawals of sessions, wherever no stale one was written.             *)
(***************************************************************************)
EXTENDS AdminTeam, StoreSettings, LoginCodes, OrderDesk, Catalog, ReceiptCutover,
        FiniteSetTheorems, Induction, TLAPS

-----------------------------------------------------------------------------
(* The team. *)

Rank == [role: {"superadmin", "manager", "new", "gone"}, active: BOOLEAN]
Asking == [doing: {"asked", "decided"}, actor: Staff, target: Staff, change: Changes]
Entering == [doing: {"login"}, admin: Staff, epoch: Nat, seen: Nat]
Leaving == [doing: {"logout"}, admin: Staff, epoch: Nat]

TeamShape ==
    /\ staff \in [Staff -> Rank]
    /\ call \in [Calls -> {NoCall} \cup Asking \cup Entering \cup Leaving]
    /\ epoch \in [Staff -> Nat] /\ withdrawn \in [Staff -> Nat]
    /\ session \in [Logins -> {NoLogin} \cup [admin: Staff, epoch: Nat, seen: Nat]]

\* What is decided is still allowed, and alone.
DecisionsStand ==
    /\ \A c \in Calls : Serving(c, "decided") => Allowed(c)
    /\ \A c, d \in Calls : Serving(c, "decided") /\ Serving(d, "decided") => c = d

TeamInv == TeamShape /\ DecisionsStand /\ SuperadminRemains /\ IsFiniteSet(Superadmins)

\* Epochs and withdrawals go together, also as they were read.
EpochsOf(a) ==
    /\ epoch[a] = withdrawn[a]
    /\ \A s \in Logins : session[s] # NoLogin /\ session[s].admin = a =>
            session[s].epoch = session[s].seen
    /\ \A c \in Calls : Serving(c, "login") /\ call[c].admin = a =>
            call[c].epoch = call[c].seen

EpochInv == \A a \in Staff \ overwritten : EpochsOf(a)

LEMMA TeamStart == TeamInit => TeamInv /\ EpochInv
<1> SUFFICES ASSUME TeamInit PROVE TeamInv /\ EpochInv
  OBVIOUS
<1>1. TeamShape
  BY TeamAssumption DEF TeamInit, TeamShape, Rank
<1>2. \A c \in Calls : ~Serving(c, "decided") /\ ~Serving(c, "login")
  BY DEF TeamInit, Serving
<1>3. Superadmins = Founders
  BY TeamAssumption DEF TeamInit, Superadmins, IsSuperadmin
<1>4. EpochInv
  BY <1>2 DEF TeamInit, EpochInv, EpochsOf
<1>5. DecisionsStand
  BY <1>2 DEF DecisionsStand
<1>6. SuperadminRemains /\ IsFiniteSet(Superadmins)
  BY <1>3, TeamAssumption DEF SuperadminRemains
<1> QED  BY <1>1, <1>4, <1>5, <1>6 DEF TeamInv

\* A step that leaves the administrators as they are and decides nothing.
LEMMA RanksStay ==
    ASSUME TeamInv, staff' = staff, TeamShape', NEW c \in Calls,
           \A d \in Calls \ {c} : call'[d] = call[d], ~Serving(c, "decided")'
    PROVE  TeamInv'
<1>1. Superadmins' = Superadmins
  BY DEF Superadmins, IsSuperadmin
<1>2. ASSUME NEW d \in Calls, Serving(d, "decided")'
      PROVE  d # c /\ Serving(d, "decided") /\ call'[d] = call[d]
  BY <1>2 DEF Serving
<1>3. ASSUME NEW d \in Calls, Serving(d, "decided")'
      PROVE  Allowed(d)'
  <2>1. Allowed(d) /\ call'[d] = call[d]
    BY <1>2, <1>3 DEF TeamInv, DecisionsStand
  <2> QED  BY <2>1, <1>1 DEF Allowed, ActorStands, IsSuperadmin, Present, LosesSuperadmin, Proposed
<1>4. DecisionsStand'
  BY <1>2, <1>3 DEF TeamInv, DecisionsStand, Serving
<1> QED  BY <1>1, <1>4 DEF TeamInv, SuperadminRemains

LEMMA CallShape ==
    ASSUME TeamShape, NEW c \in Calls,
           NEW record \in {NoCall} \cup Asking \cup Entering \cup Leaving, CallBecomes(c, record)
    PROVE  /\ call' \in [Calls -> {NoCall} \cup Asking \cup Entering \cup Leaving]
           /\ call'[c] = record /\ \A d \in Calls \ {c} : call'[d] = call[d]
BY DEF TeamShape, CallBecomes

\* The change a request serves.
LEMMA AskedOf ==
    ASSUME TeamShape, NEW c \in Calls, Serving(c, "asked") \/ Serving(c, "decided")
    PROVE  call[c] \in Asking
BY DEF TeamShape, Serving, Asking, Entering, Leaving

LEMMA ProposedRank ==
    ASSUME TeamShape, NEW t \in Staff, NEW change \in Changes
    PROVE  Proposed(t, change) \in Rank
<1>1. staff[t] \in Rank
  BY DEF TeamShape
<1> QED  BY <1>1 DEF Proposed, Rank, Changes

LEMMA Deciding ==
    ASSUME TeamInv, NEW c \in Calls, DecideChange(c)
    PROVE  TeamInv'
<1> DEFINE record == [call[c] EXCEPT !.doing = "decided"]
<1>1. record \in Asking /\ call[c] \in Asking
  BY AskedOf DEF DecideChange, TeamInv, Asking
<1>2. /\ CallBecomes(c, record) /\ UNCHANGED <<staff, epoch, session, withdrawn>>
      /\ Allowed(c) /\ Decided = {}
  BY DEF DecideChange, rowVars, TeamLockFree
<1>3. /\ call' \in [Calls -> {NoCall} \cup Asking \cup Entering \cup Leaving]
      /\ call'[c] = record /\ \A d \in Calls \ {c} : call'[d] = call[d]
  BY <1>1, <1>2, CallShape DEF TeamInv
<1>4. TeamShape'
  BY <1>2, <1>3 DEF TeamInv, TeamShape
<1>5. Superadmins' = Superadmins
  BY <1>2 DEF Superadmins, IsSuperadmin
<1>6. /\ call'[c].actor = call[c].actor /\ call'[c].target = call[c].target
      /\ call'[c].change = call[c].change
  BY <1>1, <1>3 DEF Asking
<1>7. Allowed(c)'
  BY <1>2, <1>5, <1>6 DEF Allowed, ActorStands, IsSuperadmin, Present, LosesSuperadmin, Proposed
<1>8. \A d \in Calls : Serving(d, "decided")' => d = c
  BY <1>2, <1>3 DEF Decided, Serving
<1> QED  BY <1>4, <1>5, <1>7, <1>8 DEF TeamInv, DecisionsStand, SuperadminRemains

\* A change that takes a superadmin away leaves another.
LEMMA Committing ==
    ASSUME TeamInv, NEW c \in Calls, CommitChange(c)
    PROVE  TeamInv'
<1> DEFINE t == call[c].target
           change == call[c].change
           ranked == Proposed(t, change)
<1>1. /\ Serving(c, "decided") /\ Allowed(c) /\ call[c] \in Asking
      /\ t \in Staff /\ change \in Changes /\ ranked \in Rank
  BY AskedOf, ProposedRank DEF CommitChange, TeamInv, DecisionsStand, Asking
<1>2. /\ staff' = [staff EXCEPT ![t] = ranked] /\ CallBecomes(c, NoCall)
      /\ \/ UNCHANGED <<epoch, session, withdrawn>>
         \/ /\ epoch' = [epoch EXCEPT ![t] = NextEpoch(t)]
            /\ withdrawn' = [withdrawn EXCEPT ![t] = @ + 1]
            /\ RevokeSessions(t)
  BY DEF CommitChange, EndCall, Withdraw
<1>3. /\ call' \in [Calls -> {NoCall} \cup Asking \cup Entering \cup Leaving]
      /\ call'[c] = NoCall /\ \A d \in Calls \ {c} : call'[d] = call[d]
  BY <1>2, CallShape DEF TeamInv
<1> HIDE DEF ranked, t, change
<1>4. /\ staff' \in [Staff -> Rank] /\ staff'[t] = ranked
      /\ \A a \in Staff \ {t} : staff'[a] = staff[a]
  BY <1>1, <1>2 DEF TeamInv, TeamShape
<1>5. TeamShape'
  BY <1>1, <1>2, <1>3, <1>4 DEF TeamInv, TeamShape, NextEpoch, RevokeSessions
<1>6. \A d \in Calls : ~Serving(d, "decided")'
  BY <1>1, <1>3 DEF TeamInv, DecisionsStand, Serving
<1>7. Superadmins' \subseteq Superadmins \cup {t}
  BY <1>4 DEF Superadmins, IsSuperadmin
<1>8. IsFiniteSet(Superadmins')
  BY <1>7, FS_AddElement, FS_Subset DEF TeamInv
<1>9. Superadmins' # {}
  <2>1. CASE LosesSuperadmin(t, change)
    <3>1. Cardinality(Superadmins) > 1
      BY <1>1, <2>1 DEF Allowed, t, change
    <3>2. Superadmins # {t}
      BY <3>1, FS_Singleton
    <3>3. PICK a \in Superadmins : a # t
      BY <3>2 DEF TeamInv, SuperadminRemains
    <3> QED  BY <3>3, <1>4 DEF Superadmins, IsSuperadmin
  <2>2. CASE ~LosesSuperadmin(t, change) /\ IsSuperadmin(t)
    BY <2>2, <1>1, <1>4 DEF LosesSuperadmin, Superadmins, IsSuperadmin, ranked
  <2>3. CASE ~IsSuperadmin(t)
    <3>1. PICK a \in Superadmins : TRUE
      BY DEF TeamInv, SuperadminRemains
    <3>2. a \in Staff /\ a # t
      BY <3>1, <2>3 DEF Superadmins
    <3> QED  BY <3>1, <3>2, <1>4 DEF Superadmins, IsSuperadmin
  <2> QED  BY <2>1, <2>2, <2>3
<1> QED  BY <1>5, <1>6, <1>8, <1>9 DEF TeamInv, DecisionsStand, SuperadminRemains

\* Requests that change no administrator.
LEMMA OthersServed ==
    ASSUME TeamInv, NEW c \in Calls,
           \/ \E a, t \in Staff, change \in Changes : AskChange(c, a, t, change)
           \/ RefuseChange(c)
           \/ \E a \in Staff : BeginLogin(c, a)
           \/ \E s \in Logins : FinishLogin(c, s) \/ BeginLogoutAll(c, s)
           \/ FinishLogoutAll(c)
    PROVE  TeamInv'
<1>1. ASSUME NEW record \in {NoCall} \cup Asking \cup Entering \cup Leaving,
             CallBecomes(c, record), record = NoCall \/ record.doing # "decided",
             staff' = staff, epoch' \in [Staff -> Nat], withdrawn' \in [Staff -> Nat],
             session' \in [Logins -> {NoLogin} \cup [admin: Staff, epoch: Nat, seen: Nat]]
      PROVE  TeamInv'
  <2>1. TeamShape'
    BY <1>1, CallShape DEF TeamInv, TeamShape
  <2>2. /\ call'[c] = record /\ \A d \in Calls \ {c} : call'[d] = call[d]
    BY <1>1, CallShape DEF TeamInv
  <2> QED  BY <1>1, <2>1, <2>2, RanksStay DEF Serving
<1>2. /\ epoch \in [Staff -> Nat] /\ withdrawn \in [Staff -> Nat]
      /\ session \in [Logins -> {NoLogin} \cup [admin: Staff, epoch: Nat, seen: Nat]]
  BY DEF TeamInv, TeamShape
<1>3. ASSUME NEW a \in Staff, NEW t \in Staff, NEW change \in Changes, AskChange(c, a, t, change)
      PROVE  TeamInv'
  <2> DEFINE record == [doing |-> "asked", actor |-> a, target |-> t, change |-> change]
  <2>1. record \in Asking /\ record.doing # "decided"
    BY DEF Asking
  <2>2. CallBecomes(c, record) /\ UNCHANGED rowVars
    BY <1>3 DEF AskChange
  <2> HIDE DEF record
  <2> QED  BY <2>1, <2>2, <1>1, <1>2 DEF rowVars
<1>4. CASE RefuseChange(c)
  BY <1>4, <1>1, <1>2 DEF RefuseChange, EndCall, rowVars
<1>5. ASSUME NEW a \in Staff, BeginLogin(c, a)
      PROVE  TeamInv'
  <2> DEFINE record == [doing |-> "login", admin |-> a, epoch |-> epoch[a], seen |-> withdrawn[a]]
  <2>1. record \in Entering /\ record.doing # "decided"
    BY <1>2 DEF Entering
  <2>2. CallBecomes(c, record) /\ UNCHANGED rowVars
    BY <1>5 DEF BeginLogin
  <2> HIDE DEF record
  <2> QED  BY <2>1, <2>2, <1>1, <1>2 DEF rowVars
<1>6. ASSUME NEW s \in Logins, FinishLogin(c, s)
      PROVE  TeamInv'
  <2>1. call[c] \in Entering
    BY <1>6 DEF FinishLogin, Serving, TeamInv, TeamShape, Asking, Entering, Leaving
  <2>2. session' \in [Logins -> {NoLogin} \cup [admin: Staff, epoch: Nat, seen: Nat]]
    BY <1>6, <2>1, <1>2 DEF FinishLogin, Entering
  <2> QED  BY <1>6, <2>2, <1>1, <1>2 DEF FinishLogin, EndCall
<1>7. ASSUME NEW s \in Logins, BeginLogoutAll(c, s)
      PROVE  TeamInv'
  <2> DEFINE record == [doing |-> "logout", admin |-> session[s].admin,
                        epoch |-> epoch[session[s].admin]]
  <2>1. session[s] \in [admin: Staff, epoch: Nat, seen: Nat]
    BY <1>7, <1>2 DEF BeginLogoutAll, Accepted
  <2>2. record \in Leaving /\ record.doing # "decided"
    BY <2>1, <1>2 DEF Leaving
  <2>3. CallBecomes(c, record) /\ UNCHANGED rowVars
    BY <1>7 DEF BeginLogoutAll
  <2> HIDE DEF record
  <2> QED  BY <2>2, <2>3, <1>1, <1>2 DEF rowVars
<1>8. CASE FinishLogoutAll(c)
  <2>1. call[c] \in Leaving
    BY <1>8 DEF FinishLogoutAll, Serving, TeamInv, TeamShape, Asking, Entering, Leaving
  <2>2. /\ epoch' \in [Staff -> Nat] /\ withdrawn' \in [Staff -> Nat]
        /\ session' \in [Logins -> {NoLogin} \cup [admin: Staff, epoch: Nat, seen: Nat]]
    BY <1>8, <2>1, <1>2 DEF FinishLogoutAll, Leaving, Withdraw, RevokeSessions
  <2> QED  BY <1>8, <2>2, <1>1 DEF FinishLogoutAll, EndCall
<1> QED  BY <1>3, <1>4, <1>5, <1>6, <1>7, <1>8

LEMMA SessionsEnd ==
    ASSUME TeamInv, NEW s \in Logins, EndSession(s)
    PROVE  TeamInv'
<1>1. /\ UNCHANGED <<staff, epoch, call, withdrawn>>
      /\ session' = [session EXCEPT ![s] = NoLogin]
  BY DEF EndSession
<1>2. TeamShape'
  BY <1>1 DEF TeamInv, TeamShape
<1>3. Superadmins' = Superadmins
  BY <1>1 DEF Superadmins, IsSuperadmin
<1>4. ASSUME NEW d \in Calls, Serving(d, "decided")'
      PROVE  Allowed(d)' /\ Serving(d, "decided")
  <2>1. Allowed(d)
    BY <1>1, <1>4 DEF TeamInv, DecisionsStand, Serving
  <2> QED  BY <2>1, <1>1, <1>3, <1>4
           DEF Allowed, ActorStands, IsSuperadmin, Present, LosesSuperadmin, Proposed, Serving
<1> QED  BY <1>2, <1>3, <1>4 DEF TeamInv, DecisionsStand, SuperadminRemains

LEMMA TeamInductive == TeamInv /\ [TeamNext]_teamVars => TeamInv'
<1> SUFFICES ASSUME TeamInv, [TeamNext]_teamVars PROVE TeamInv'
  OBVIOUS
<1>1. CASE UNCHANGED teamVars
  <2>1. TeamShape'
    BY <1>1 DEF teamVars, TeamInv, TeamShape
  <2>2. Superadmins' = Superadmins
    BY <1>1 DEF teamVars, Superadmins, IsSuperadmin
  <2>3. ASSUME NEW c \in Calls  PROVE Allowed(c)' = Allowed(c)
    BY <1>1, <2>2 DEF teamVars, Allowed, ActorStands, IsSuperadmin, Present, LosesSuperadmin, Proposed
  <2>4. ASSUME NEW c \in Calls  PROVE Serving(c, "decided")' = Serving(c, "decided")
    BY <1>1 DEF teamVars, Serving
  <2> QED  BY <2>1, <2>2, <2>3, <2>4 DEF TeamInv, DecisionsStand, SuperadminRemains
<1>2. CASE TeamNext
  BY <1>2, OthersServed, SessionsEnd, Deciding, Committing DEF TeamNext
<1> QED  BY <1>1, <1>2

\* A step that touches no login under way and no epoch.
LEMMA EpochsRest ==
    ASSUME NEW a, EpochsOf(a), UNCHANGED <<epoch, withdrawn>>,
           \A s \in Logins : session'[s] \in {session[s], NoLogin},
           \A c \in Calls : Serving(c, "login")' => Serving(c, "login") /\ call'[c] = call[c]
    PROVE  EpochsOf(a)'
BY DEF EpochsOf

\* Sessions are withdrawn and the epoch advances.
LEMMA EpochsAdvance ==
    ASSUME TeamInv, NEW a \in Staff, EpochsOf(a), NEW t \in Staff, Withdraw(t),
           epoch' = [epoch EXCEPT ![t] = epoch[t] + 1],
           \A c \in Calls : Serving(c, "login")' => Serving(c, "login") /\ call'[c] = call[c]
    PROVE  EpochsOf(a)'
<1>1. epoch'[a] = withdrawn'[a]
  BY DEF EpochsOf, Withdraw, TeamInv, TeamShape
<1>2. \A s \in Logins : session'[s] \in {session[s], NoLogin}
  BY DEF Withdraw, RevokeSessions
<1> QED  BY <1>1, <1>2 DEF EpochsOf

\* Every step keeps epochs and withdrawals together, or marks where it did not.
LEMMA EpochsKept == TeamInv /\ EpochInv /\ [TeamNext]_teamVars => EpochInv'
<1> SUFFICES ASSUME TeamInv, EpochInv, [TeamNext]_teamVars, NEW a \in Staff \ overwritten'
             PROVE  EpochsOf(a)'
  BY DEF EpochInv
<1>1. overwritten \subseteq overwritten'
  BY DEF TeamNext, AskChange, DecideChange, RefuseChange, CommitChange, BeginLogin, FinishLogin,
     BeginLogoutAll, FinishLogoutAll, EndSession, rowVars, teamVars
<1>2. a \in Staff /\ EpochsOf(a)
  BY <1>1 DEF EpochInv
<1>3. ASSUME NEW c \in Calls, NEW record, CallBecomes(c, record),
             record = NoCall \/ record.doing # "login"
      PROVE  \A d \in Calls : Serving(d, "login")' => Serving(d, "login") /\ call'[d] = call[d]
  BY <1>3 DEF CallBecomes, Serving, TeamInv, TeamShape
<1>4. CASE UNCHANGED teamVars
  BY <1>2, <1>4 DEF EpochsOf, teamVars, Serving
<1>5. ASSUME NEW c \in Calls, \/ \E b, t \in Staff, change \in Changes : AskChange(c, b, t, change)
                              \/ RefuseChange(c) \/ DecideChange(c)
                              \/ \E s \in Logins : BeginLogoutAll(c, s)
      PROVE  EpochsOf(a)'
  <2>1. UNCHANGED <<epoch, withdrawn, session>>
    BY <1>5 DEF AskChange, RefuseChange, DecideChange, BeginLogoutAll, rowVars
  <2>2. PICK record : CallBecomes(c, record) /\ (record = NoCall \/ record.doing # "login")
    <3>1. Serving(c, "asked") => [call[c] EXCEPT !.doing = "decided"].doing # "login"
      BY AskedOf DEF TeamInv, Asking
    <3> QED  BY <1>5, <3>1 DEF AskChange, RefuseChange, DecideChange, BeginLogoutAll, EndCall
  <2> QED  BY <1>2, <1>3, <2>1, <2>2, EpochsRest
<1>6. ASSUME NEW c \in Calls, CommitChange(c)
      PROVE  EpochsOf(a)'
  <2> DEFINE t == call[c].target
  <2>1. t \in Staff
    BY <1>6, AskedOf DEF CommitChange, TeamInv, Asking
  <2>2. \A d \in Calls : Serving(d, "login")' => Serving(d, "login") /\ call'[d] = call[d]
    BY <1>3, <1>6 DEF CommitChange, EndCall
  <2>3. \/ UNCHANGED <<epoch, session, withdrawn>>
        \/ epoch' = [epoch EXCEPT ![t] = epoch[t] + 1] /\ Withdraw(t)
    BY <1>6 DEF CommitChange, NextEpoch
  <2> QED  BY <1>2, <2>1, <2>2, <2>3, EpochsRest, EpochsAdvance
<1>7. ASSUME NEW c \in Calls, NEW b \in Staff, BeginLogin(c, b)
      PROVE  EpochsOf(a)'
  <2> DEFINE record == [doing |-> "login", admin |-> b, epoch |-> epoch[b], seen |-> withdrawn[b]]
  <2>1. UNCHANGED <<epoch, withdrawn, session>> /\ call' = [call EXCEPT ![c] = record]
    BY <1>7 DEF BeginLogin, rowVars, CallBecomes
  <2>2. \A d \in Calls : call'[d] = IF d = c THEN record ELSE call[d]
    BY <2>1 DEF TeamInv, TeamShape
  <2>3. \A d \in Calls : Serving(d, "login")' /\ call'[d].admin = a => call'[d].epoch = call'[d].seen
    BY <1>2, <2>2 DEF EpochsOf, Serving
  <2> QED  BY <1>2, <2>1, <2>3 DEF EpochsOf
<1>8. ASSUME NEW c \in Calls, NEW s \in Logins, FinishLogin(c, s)
      PROVE  EpochsOf(a)'
  <2>1. UNCHANGED <<epoch, withdrawn>> /\ CallBecomes(c, NoCall)
    BY <1>8 DEF FinishLogin, EndCall
  <2>2. \A d \in Calls : Serving(d, "login")' => Serving(d, "login") /\ call'[d] = call[d]
    BY <1>3, <2>1
  <2>3. \A q \in Logins : session'[q] # NoLogin /\ session'[q].admin = a =>
                            session'[q].epoch = session'[q].seen
    BY <1>2, <1>8 DEF FinishLogin, EpochsOf, TeamInv, TeamShape
  <2> QED  BY <1>2, <2>1, <2>2, <2>3 DEF EpochsOf
<1>9. ASSUME NEW c \in Calls, FinishLogoutAll(c)
      PROVE  EpochsOf(a)'
  <2> DEFINE b == call[c].admin
  <2>1. call[c] \in Leaving /\ b \in Staff
    BY <1>9 DEF FinishLogoutAll, Serving, TeamInv, TeamShape, Asking, Entering, Leaving
  <2>2. \A d \in Calls : Serving(d, "login")' => Serving(d, "login") /\ call'[d] = call[d]
    BY <1>3, <1>9 DEF FinishLogoutAll, EndCall
  <2>3. CASE UNCHANGED <<epoch, session, withdrawn>>
    BY <1>2, <2>2, <2>3, EpochsRest
  <2>4. CASE /\ epoch' = [epoch EXCEPT ![b] = call[c].epoch + 1] /\ Withdraw(b)
             /\ epoch[b] = call[c].epoch
    BY <1>2, <2>1, <2>2, <2>4, EpochsAdvance
  <2>5. CASE /\ epoch' = [epoch EXCEPT ![b] = call[c].epoch + 1] /\ Withdraw(b)
             /\ b \in overwritten'
    <3>1. a # b /\ epoch'[a] = epoch[a] /\ withdrawn'[a] = withdrawn[a]
      BY <1>2, <2>5 DEF Withdraw, TeamInv, TeamShape
    <3>2. \A s \in Logins : session'[s] \in {session[s], NoLogin}
      BY <2>5 DEF Withdraw, RevokeSessions
    <3> QED  BY <1>2, <2>2, <3>1, <3>2 DEF EpochsOf
  <2> QED  BY <1>9, <2>3, <2>4, <2>5 DEF FinishLogoutAll
<1>10. ASSUME NEW s \in Logins, EndSession(s)
       PROVE  EpochsOf(a)'
  BY <1>2, <1>10 DEF EndSession, EpochsOf, Serving, TeamInv, TeamShape
<1> QED  BY <1>4, <1>5, <1>6, <1>7, <1>8, <1>9, <1>10 DEF TeamNext

LEMMA TeamInvariant == TeamSpec => [](TeamInv /\ EpochInv)
BY TeamStart, TeamInductive, EpochsKept, PTL DEF TeamSpec

\* Whatever superadmins do to each other, one of them stays (_lock_team,
\* _ensure_not_last_superadmin of admin_team_service.py).
THEOREM OneSuperadminStays == TeamSpec => []SuperadminRemains
<1>1. TeamInv => SuperadminRemains
  BY DEF TeamInv
<1> QED  BY <1>1, TeamInvariant, PTL

\* A change is committed only by one who is a superadmin then (_load_actor).
THEOREM ChangesHaveAuthority == TeamSpec => ActsWithAuthority
<1>1. TeamInv => [\A c \in Calls : CommitChange(c) => IsSuperadmin(call[c].actor)]_teamVars
  BY DEF TeamInv, DecisionsStand, CommitChange, Allowed, ActorStands
<1> QED  BY <1>1, TeamInvariant, PTL DEF ActsWithAuthority

\* A withdrawn session is not accepted again (auth_epoch in
\* _require_live_session), where no stale epoch was written.
THEOREM WithdrawnSessionsStayOut == TeamSpec => []WithdrawnStaysOut
<1>1. TeamInv /\ EpochInv => WithdrawnStaysOut
  BY DEF TeamInv, TeamShape, EpochInv, EpochsOf, WithdrawnStaysOut, Accepted
<1> QED  BY <1>1, TeamInvariant, PTL

-----------------------------------------------------------------------------
(* Settings. *)

\* What was read is not newer than the settings; what carries their version
\* stood with it and, where values were shown, shows theirs: the version was
\* read before the values, and every save advances it.
SnapshotTrue(s) ==
    /\ s.version <= version
    /\ s.version = version => s.stood = setting /\ s.values \in {Unread, setting}
PromptTrue(s) ==
    /\ s.version <= version
    /\ s.version = version => s.stood = setting
    /\ s.shown \in Snapshots /\ SnapshotTrue(s.shown) /\ s.shown.values # Unread

SettingsShape ==
    /\ version \in Nat /\ setting \in [Fields -> Values]
    /\ page \in [Panels -> Snapshots \cup {NoScreen}] /\ refreshed \in SUBSET Panels
    /\ listed \in [Chats -> Snapshots \cup {NoScreen}]
    /\ tapped \in [Chats -> Prompts \cup {NoScreen}]
    /\ prompt \in [Chats -> Prompts \cup {NoScreen}]
    /\ answer \in [Chats -> Prompts \cup {NoScreen}]
ScreensTrail ==
    /\ \A p \in Panels : page[p] # NoScreen =>
        /\ page[p].version <= version
        /\ page[p].version = version =>
            /\ page[p].stood = setting
            /\ p \notin refreshed => page[p].values \in {Unread, setting}
    /\ \A c \in Chats :
        /\ listed[c] # NoScreen => SnapshotTrue(listed[c])
        /\ tapped[c] # NoScreen => PromptTrue(tapped[c])
        /\ prompt[c] # NoScreen => PromptTrue(prompt[c])
        /\ answer[c] # NoScreen => PromptTrue(answer[c])
SettingsInv == SettingsShape /\ ScreensTrail

LEMMA SettingsStart == SettingsInit => SettingsInv
BY DEF SettingsInit, SettingsInv, SettingsShape, ScreensTrail

\* What the settings were read from stays true when they are saved.
LEMMA TrueAfterSave ==
    ASSUME version \in Nat, version' = version + 1
    PROVE  /\ \A s \in Snapshots : SnapshotTrue(s) => SnapshotTrue(s)'
           /\ \A s \in Prompts : PromptTrue(s) => PromptTrue(s)'
BY DEF SnapshotTrue, PromptTrue, Snapshots, Prompts

LEMMA PagesStep ==
    ASSUME SettingsInv, NEW p \in Panels,
           \/ OpenPage(p) \/ FillPage(p) \/ RefreshPage(p)
           \/ \E fields \in SUBSET Fields : \E entered \in [fields -> Values] : SavePage(p, entered)
    PROVE  SettingsInv'
<1>1. CASE OpenPage(p)
  BY <1>1 DEF SettingsInv, SettingsShape, ScreensTrail, OpenPage, FirstRead, Snapshots,
     dialogueVars, SnapshotTrue, PromptTrue
<1>2. CASE FillPage(p)
  BY <1>2 DEF SettingsInv, SettingsShape, ScreensTrail, FillPage, Loading, Snapshots,
     dialogueVars, SnapshotTrue, PromptTrue
<1>3. CASE RefreshPage(p)
  <2>1. PICK s : s = [page[p] EXCEPT !.version = version, !.stood = setting]
    OBVIOUS
  <2>2. page[p] \in Snapshots
    BY <1>3 DEF RefreshPage, Loaded, SettingsInv, SettingsShape
  <2>3. s \in Snapshots /\ s.version = version /\ s.stood = setting
    BY <2>1, <2>2 DEF SettingsInv, SettingsShape, Snapshots
  <2>4. /\ page' = [page EXCEPT ![p] = s] /\ refreshed' = refreshed \cup {p}
        /\ UNCHANGED <<setting, version, listed, dialogueVars>>
    BY <1>3, <2>1 DEF RefreshPage
  <2> QED  BY <2>3, <2>4 DEF SettingsInv, SettingsShape, ScreensTrail, dialogueVars, SnapshotTrue,
              PromptTrue
<1>4. ASSUME NEW fields \in SUBSET Fields, NEW entered \in [fields -> Values],
             SavePage(p, entered)
      PROVE  SettingsInv'
  <2>1. page[p] \in Snapshots /\ page[p].values \in [Fields -> Values]
    BY <1>4 DEF SavePage, Loaded, SettingsInv, SettingsShape, Snapshots
  <2>2. setting' \in [Fields -> Values] /\ version' = version + 1
    BY <1>4, <2>1 DEF SavePage, Patch
  <2>3. /\ UNCHANGED <<listed, dialogueVars>> /\ refreshed' = refreshed \ {p}
        /\ \/ page' = [page EXCEPT ![p] = Patched]
           \/ page' = [page EXCEPT ![p] = NoScreen]
    BY <1>4 DEF SavePage
  <2>4. Patched \in Snapshots /\ Patched.version = version' /\ Patched.stood = setting'
        /\ Patched.values = setting'
    BY <2>2 DEF Patched, Snapshots, SettingsInv, SettingsShape
  <2>5. SettingsShape'
    BY <2>2, <2>3, <2>4 DEF SettingsInv, SettingsShape, dialogueVars
  <2>6. ASSUME NEW q \in Panels, page'[q] # NoScreen
        PROVE  (/\ page[q].version <= version
                /\ page[q].version = version =>
                    /\ page[q].stood = setting
                    /\ q \notin refreshed => page[q].values \in {Unread, setting})'
    <3>1. CASE q = p
      BY <2>2, <2>3, <2>4, <2>6, <3>1 DEF SettingsInv, SettingsShape
    <3>2. CASE q # p
      BY <2>2, <2>3, <2>6, <3>2 DEF SettingsInv, SettingsShape, ScreensTrail, Snapshots
    <3> QED  BY <3>1, <3>2
  <2>7. ScreensTrail'
    BY <2>2, <2>3, <2>6, TrueAfterSave DEF SettingsInv, SettingsShape, ScreensTrail, dialogueVars
  <2> QED  BY <2>5, <2>7 DEF SettingsInv
<1> QED  BY <1>1, <1>2, <1>3, <1>4

LEMMA ChatsStep ==
    ASSUME SettingsInv, NEW c \in Chats,
           \/ OpenList(c) \/ FillList(c) \/ \E f \in Fields : ChooseSetting(c, f)
           \/ AskValue(c) \/ EnterValue(c) \/ ClearPrompt(c) \/ DropAnswer(c)
           \/ \E v \in Values : SaveAnswer(c, v)
    PROVE  SettingsInv'
<1> USE DEF pageVars, dialogueVars
<1>1. CASE OpenList(c)
  BY <1>1 DEF SettingsInv, SettingsShape, ScreensTrail, OpenList, FirstRead, Snapshots,
     SnapshotTrue, PromptTrue
<1>2. CASE FillList(c)
  BY <1>2 DEF SettingsInv, SettingsShape, ScreensTrail, FillList, Loading, Snapshots,
     SnapshotTrue, PromptTrue
<1>3. ASSUME NEW f \in Fields, ChooseSetting(c, f)
      PROVE  SettingsInv'
  <2> DEFINE new == [key |-> f, version |-> version, stood |-> setting, shown |-> listed[c]]
  <2>1. new \in Prompts /\ PromptTrue(new)
    BY <1>3 DEF ChooseSetting, Loaded, SettingsInv, SettingsShape, ScreensTrail, Prompts, PromptTrue
  <2>2. tapped' = [tapped EXCEPT ![c] = new] /\ UNCHANGED <<setting, version, pageVars, listed, prompt, answer>>
    BY <1>3 DEF ChooseSetting
  <2> HIDE DEF new
  <2> QED  BY <2>1, <2>2 DEF SettingsInv, SettingsShape, ScreensTrail, PromptTrue, SnapshotTrue
<1>4. CASE AskValue(c)
  BY <1>4 DEF SettingsInv, SettingsShape, ScreensTrail, AskValue, PromptTrue, SnapshotTrue
<1>5. CASE EnterValue(c)
  BY <1>5 DEF SettingsInv, SettingsShape, ScreensTrail, EnterValue, PromptTrue, SnapshotTrue
<1>6. CASE ClearPrompt(c) \/ DropAnswer(c)
  BY <1>6 DEF SettingsInv, SettingsShape, ScreensTrail, ClearPrompt, DropAnswer, PromptTrue,
     SnapshotTrue
<1>7. ASSUME NEW v \in Values, SaveAnswer(c, v)
      PROVE  SettingsInv'
  <2>1. setting' \in [Fields -> Values] /\ version' = version + 1
    BY <1>7 DEF SaveAnswer, Patch, SettingsInv, SettingsShape
  <2>2. /\ UNCHANGED <<pageVars, tapped, prompt>>
        /\ answer' = [answer EXCEPT ![c] = NoScreen]
    BY <1>7 DEF SaveAnswer
  <2>3. PICK new : new = Patched
    OBVIOUS
  <2>4. listed' = [listed EXCEPT ![c] = new] /\ new \in Snapshots /\ SnapshotTrue(new)'
    BY <1>7, <2>1, <2>3 DEF SaveAnswer, Patched, Snapshots, SnapshotTrue, SettingsInv, SettingsShape
  <2>5. SettingsShape'
    BY <2>1, <2>2, <2>4 DEF SettingsInv, SettingsShape
  <2>6. (\A d \in Chats : listed[d] # NoScreen => SnapshotTrue(listed[d]))'
    <3> HIDE DEF pageVars
    <3>1. listed'[c] = new /\ \A d \in Chats \ {c} : listed'[d] = listed[d]
      BY <2>4 DEF SettingsInv, SettingsShape
    <3> QED  BY <2>1, <2>4, <3>1, TrueAfterSave DEF SettingsInv, SettingsShape, ScreensTrail,
                SnapshotTrue
  <2>7. ScreensTrail'
    BY <2>1, <2>2, <2>6, TrueAfterSave DEF SettingsInv, SettingsShape, ScreensTrail, Snapshots
  <2> QED  BY <2>5, <2>7 DEF SettingsInv
<1> QED  BY <1>1, <1>2, <1>3, <1>4, <1>5, <1>6, <1>7

LEMMA SettingsStep == SettingsInv /\ [SettingsNext]_settingsVars => SettingsInv'
<1> SUFFICES ASSUME SettingsInv, [SettingsNext]_settingsVars PROVE SettingsInv'
  OBVIOUS
<1>1. CASE UNCHANGED settingsVars
  BY <1>1 DEF SettingsInv, SettingsShape, ScreensTrail, settingsVars, SnapshotTrue, PromptTrue
<1> QED  BY <1>1, PagesStep, ChatsStep DEF SettingsNext

\* A save replaces what stood when its version was read (patch_store_settings):
\* what the panel's page shows unless its editor overrode a conflict, and
\* what the bot's list showed unless somebody saved before the tap.
THEOREM SavesAreInformed == SettingsSpec => SavedAsSeen
<1>1. ASSUME SettingsInv, SettingsNext, version' > version
      PROVE  /\ \A p \in Panels : page'[p] # page[p] =>
                /\ page[p].stood = setting
                /\ p \notin refreshed => page[p].values = setting
             /\ \A c \in Chats : answer'[c] # answer[c] =>
                /\ answer[c].stood = setting
                /\ answer[c].shown.version = answer[c].version =>
                        answer[c].shown.values = setting
  <2>1. version' # version
    BY <1>1 DEF SettingsInv, SettingsShape
  <2>2. CASE \E p \in Panels : \E fields \in SUBSET Fields : \E entered \in [fields -> Values] :
                SavePage(p, entered)
    <3>1. PICK p \in Panels, fields \in SUBSET Fields : \E entered \in [fields -> Values] :
                SavePage(p, entered)
      BY <2>2
    <3>2. /\ Loaded(page[p]) /\ page[p].version = version /\ UNCHANGED answer
          /\ \/ page' = [page EXCEPT ![p] = Patched]
             \/ page' = [page EXCEPT ![p] = NoScreen]
      BY <3>1 DEF SavePage, Patch, Current, dialogueVars
    <3>3. \A q \in Panels \ {p} : page'[q] = page[q]
      BY <1>1, <3>2 DEF SettingsInv, SettingsShape
    <3>4. page[p].stood = setting /\ (p \notin refreshed => page[p].values = setting)
      BY <1>1, <3>2 DEF Loaded, SettingsInv, ScreensTrail
    <3> QED  BY <3>2, <3>3, <3>4
  <2>3. CASE \E c \in Chats : \E v \in Values : SaveAnswer(c, v)
    <3>1. PICK c \in Chats : \E v \in Values : SaveAnswer(c, v)
      BY <2>3
    <3>2. /\ answer[c] # NoScreen /\ answer[c].version = version /\ UNCHANGED page
          /\ answer' = [answer EXCEPT ![c] = NoScreen]
      BY <3>1 DEF SaveAnswer, Patch, Current, pageVars
    <3>3. \A d \in Chats \ {c} : answer'[d] = answer[d]
      BY <1>1, <3>2 DEF SettingsInv, SettingsShape
    <3>4. /\ answer[c].stood = setting
          /\ answer[c].shown.version = version => answer[c].shown.values = setting
      BY <1>1, <3>2 DEF SettingsInv, ScreensTrail, PromptTrue, SnapshotTrue
    <3> QED  BY <3>2, <3>3, <3>4
  <2> QED  BY <1>1, <2>1, <2>2, <2>3 DEF SettingsNext, OpenPage, FillPage, RefreshPage, OpenList,
               FillList, ChooseSetting, AskValue, EnterValue, ClearPrompt, DropAnswer
<1>2. SettingsInv /\ [SettingsNext]_settingsVars =>
        [version' > version =>
            /\ \A p \in Panels : page'[p] # page[p] =>
                /\ page[p].stood = setting
                /\ p \notin refreshed => page[p].values = setting
            /\ \A c \in Chats : answer'[c] # answer[c] =>
                /\ answer[c].stood = setting
                /\ answer[c].shown.version = answer[c].version =>
                        answer[c].shown.values = setting]_settingsVars
  BY <1>1
<1> QED  BY <1>2, SettingsStart, SettingsStep, PTL DEF SettingsSpec, SavedAsSeen

-----------------------------------------------------------------------------
(* Login codes. *)

Issuing == [at: {"set", "latest", "drop"}, admin: Owners, previous: Codes \cup {NoCode},
            code: Codes \cup {NoCode}, web: BOOLEAN]

\* A code that counts as delivered is owned, and nothing is being issued to
\* its owner; a customer's two keys agree.
CodesInv ==
    /\ owner \in [Codes -> Owners \cup {NoOwner}] /\ latest \in [Owners -> Codes \cup {NoCode}]
    /\ issue \in [Issues -> {NoIssue} \cup Issuing]
    /\ newest \in [Owners -> Codes \cup {NoCode}]
    /\ customerOf \in [Codes -> Customers \cup {NoOwner}]
    /\ codeOf \in [Customers -> Codes \cup {NoCode}]
    /\ \A a \in Owners : newest[a] # NoCode =>
        owner[newest[a]] = a /\ \A i \in Issues : issue[i] # NoIssue => issue[i].admin # a
    /\ \A u \in Customers : codeOf[u] # NoCode => customerOf[codeOf[u]] = u

LEMMA CodesStart == CodesInit => CodesInv
BY DEF CodesInit, AdminCodesInit, CustomerCodesInit, CodesInv

\* A request that goes on for the same administrator, or ends.
LEMMA IssueGoesOn ==
    ASSUME CodesInv, NEW i \in Issues, issue[i] # NoIssue,
           NEW record \in {NoIssue} \cup Issuing, Step(i, record),
           record # NoIssue => record.admin = issue[i].admin
    PROVE  /\ issue' \in [Issues -> {NoIssue} \cup Issuing]
           /\ \A a \in Owners : (\A j \in Issues : issue[j] # NoIssue => issue[j].admin # a) =>
                (\A j \in Issues : issue'[j] # NoIssue => issue'[j].admin # a)
BY DEF CodesInv, Step

LEMMA CodesStep ==
    CodesInv /\ [AdminCodesNext \/ CustomerCodesNext]_codeVars => CodesInv'
<1> SUFFICES ASSUME CodesInv, [AdminCodesNext \/ CustomerCodesNext]_codeVars PROVE CodesInv'
  OBVIOUS
<1> USE CodeAssumption
<1>1. CASE UNCHANGED codeVars
  BY <1>1 DEF codeVars, CodesInv
<1>2. ASSUME NEW i \in Issues, NEW a \in Owners, NEW web \in BOOLEAN, BeginIssue(i, a, web)
      PROVE  CodesInv'
  <2> DEFINE record == [at |-> "set", admin |-> a, previous |-> latest[a], code |-> NoCode,
                        web |-> web]
  <2>1. record \in Issuing /\ record.admin = a
    BY DEF CodesInv, Issuing
  <2>2. /\ issue' = [issue EXCEPT ![i] = record] /\ newest' = [newest EXCEPT ![a] = NoCode]
        /\ UNCHANGED <<owner, latest, customerCodeVars>>
    BY <1>2 DEF BeginIssue, Step
  <2> HIDE DEF record
  <2> QED  BY <2>1, <2>2 DEF CodesInv, customerCodeVars
<1>3. ASSUME NEW i \in Issues, NEW k \in Codes, SetCode(i, k)
      PROVE  CodesInv'
  <2> DEFINE record == [issue[i] EXCEPT !.at = "latest", !.code = k]
  <2>1. issue[i] # NoIssue /\ issue[i] \in Issuing
    BY <1>3 DEF SetCode, At, CodesInv
  <2>2. record \in Issuing /\ record.admin = issue[i].admin /\ issue[i].admin \in Owners
    BY <2>1 DEF Issuing
  <2>3. /\ Step(i, record) /\ owner[k] = NoOwner /\ owner' = [owner EXCEPT ![k] = issue[i].admin]
        /\ UNCHANGED <<latest, slot, newest, customerCodeVars>>
    BY <1>3 DEF SetCode
  <2> HIDE DEF record
  <2> QED  BY <2>1, <2>2, <2>3, IssueGoesOn DEF CodesInv, customerCodeVars
<1>4. ASSUME NEW i \in Issues, SetLatest(i)
      PROVE  CodesInv'
  <2> DEFINE record == [issue[i] EXCEPT !.at = "drop"]
  <2>1. issue[i] # NoIssue /\ issue[i] \in Issuing
    BY <1>4 DEF SetLatest, At, CodesInv
  <2>2. /\ record \in Issuing /\ record.admin = issue[i].admin
        /\ issue[i].code \in Codes \cup {NoCode}
    BY <2>1 DEF Issuing
  <2>3. /\ Step(i, record) /\ latest' = [latest EXCEPT ![issue[i].admin] = issue[i].code]
        /\ UNCHANGED <<owner, slot, newest, customerCodeVars>>
    BY <1>4 DEF SetLatest
  <2> HIDE DEF record
  <2> QED  BY <2>1, <2>2, <2>3, IssueGoesOn DEF CodesInv, customerCodeVars
<1>5. ASSUME NEW i \in Issues, DropPrevious(i)
      PROVE  CodesInv'
  <2> DEFINE a == issue[i].admin
             k == issue[i].code
             p == issue[i].previous
  <2>1. issue[i] # NoIssue /\ issue[i] \in Issuing
    BY <1>5 DEF DropPrevious, At, CodesInv
  <2>2. a \in Owners /\ k \in Codes \cup {NoCode} /\ p \in Codes \cup {NoCode} /\ newest[a] = NoCode
    BY <2>1 DEF Issuing, CodesInv
  <2>3. /\ Step(i, NoIssue) /\ UNCHANGED <<latest, customerCodeVars>>
        /\ owner' = IF DropsPrevious(i) THEN [owner EXCEPT ![p] = NoOwner] ELSE owner
        /\ newest' = IF Alone(i) /\ owner[k] = a THEN [newest EXCEPT ![a] = k] ELSE newest
    BY <1>5 DEF DropPrevious
  <2>4. DropsPrevious(i) => p \in Codes /\ p # k /\ owner[p] = a
    BY <2>2 DEF DropsPrevious
  <2>5. /\ issue' \in [Issues -> {NoIssue} \cup Issuing] /\ issue'[i] = NoIssue
        /\ \A j \in Issues \ {i} : issue'[j] = issue[j]
    BY <2>3 DEF Step, CodesInv
  <2>6. /\ owner' \in [Codes -> Owners \cup {NoOwner}]
        /\ newest' \in [Owners -> Codes \cup {NoCode}]
        /\ \A b \in Owners \ {a} : newest'[b] = newest[b]
        /\ \A c \in Codes : owner[c] # a => owner'[c] = owner[c]
    BY <2>2, <2>3, <2>4 DEF CodesInv
  <2>7. ASSUME newest'[a] # NoCode
        PROVE  owner'[newest'[a]] = a /\ \A j \in Issues : issue'[j] # NoIssue => issue'[j].admin # a
    <3>1. Alone(i) /\ owner[k] = a /\ newest'[a] = k /\ k \in Codes
      BY <2>2, <2>3, <2>6, <2>7 DEF CodesInv
    <3>2. owner'[k] = a
      BY <3>1, <2>3, <2>4 DEF CodesInv
    <3> QED  BY <3>1, <3>2, <2>5 DEF Alone
  <2>8. ASSUME NEW b \in Owners \ {a}, newest'[b] # NoCode
        PROVE  owner'[newest'[b]] = b /\ \A j \in Issues : issue'[j] # NoIssue => issue'[j].admin # b
    BY <2>5, <2>6, <2>8 DEF CodesInv
  <2> QED  BY <2>2, <2>3, <2>5, <2>6, <2>7, <2>8 DEF CodesInv, customerCodeVars
<1>6. ASSUME NEW i \in Issues, AbandonIssue(i)
      PROVE  CodesInv'
  BY <1>6, IssueGoesOn DEF AbandonIssue, CodesInv, customerCodeVars
<1>7. ASSUME NEW k \in Codes, UseCode(k)
      PROVE  CodesInv'
  <2>1. owner[k] \in Owners
    BY <1>7 DEF UseCode, CodesInv
  <2> QED  BY <1>7, <2>1 DEF UseCode, CodesInv, customerCodeVars
<1>8. ASSUME NEW a \in Owners, ForgetAdmin(a)
      PROVE  CodesInv'
  BY <1>8 DEF ForgetAdmin, CodesInv, customerCodeVars
<1>9. ASSUME NEW k \in Codes, UseCustomerCode(k)
      PROVE  CodesInv'
  <2>1. customerOf[k] \in Customers
    BY <1>9 DEF UseCustomerCode, CodesInv
  <2> QED  BY <1>9, <2>1 DEF UseCustomerCode, CodesInv, adminCodeVars
<1>10. ASSUME NEW u \in Customers, CoolDown(u)
       PROVE  CodesInv'
  BY <1>10 DEF CoolDown, CodesInv, adminCodeVars
<1>11. ASSUME NEW u \in Customers, NEW k \in Codes, IssueCustomerCode(u, k)
       PROVE  CodesInv'
  <2>1. /\ customerOf[k] = NoOwner /\ codeOf' = [codeOf EXCEPT ![u] = k]
        /\ customerOf' = [c \in Codes |-> IF c = k THEN u
                                          ELSE IF c = codeOf[u] THEN NoOwner ELSE customerOf[c]]
        /\ UNCHANGED adminCodeVars
    BY <1>11 DEF IssueCustomerCode
  <2>2. /\ customerOf' \in [Codes -> Customers \cup {NoOwner}]
        /\ codeOf' \in [Customers -> Codes \cup {NoCode}]
    BY <2>1 DEF CodesInv
  <2>3. ASSUME NEW v \in Customers, codeOf'[v] # NoCode
        PROVE  customerOf'[codeOf'[v]] = v
    <3>1. CASE v = u
      BY <3>1, <2>1 DEF CodesInv
    <3>2. CASE v # u
      <4>1. codeOf'[v] = codeOf[v] /\ codeOf[v] \in Codes /\ customerOf[codeOf[v]] = v
        BY <3>2, <2>1, <2>3 DEF CodesInv
      <4>2. codeOf[v] # k
        BY <4>1, <2>1
      <4>3. codeOf[v] # codeOf[u]
        BY <4>1, <3>2 DEF CodesInv
      <4> QED  BY <4>1, <4>2, <4>3, <2>1
    <3> QED  BY <3>1, <3>2
  <2> QED  BY <2>1, <2>2, <2>3 DEF CodesInv, adminCodeVars
<1> QED  BY <1>1, <1>2, <1>3, <1>4, <1>5, <1>6, <1>7, <1>8, <1>9, <1>10, <1>11
         DEF AdminCodesNext, CustomerCodesNext

\* A delivered code works until it is used, runs out or is followed by
\* another (admin_login_code_service.py, customer_auth_service.py).
THEOREM DeliveredCodesWork == CodesSpec => []NewestCodeWorks
<1>1. CodesInv => NewestCodeWorks
  BY DEF CodesInv, NewestCodeWorks
<1> QED  BY <1>1, CodesStart, CodesStep, PTL DEF CodesSpec

-----------------------------------------------------------------------------
(* Administrators writing about orders. *)

Clean(n) == n \in DOMAIN asked /\ n \notin tangled
NoButton == \A d \in Errands : ~UnderWay(d, "tap")

\* What an answer under way is going to do is what its prompt announced.
Answering(r) ==
    LET n == r.prompt IN
    /\ r.at \in Purposes => r.at = asked[n].purpose
    /\ r.at = "cancel" => asked[n].purpose = "reason" /\ r.order = asked[n].order
    /\ r.at = "queue" => asked[n].purpose = "message" /\ r.order = asked[n].order /\ r.key = n

\* A button whose prompt is clean is the last one and the only one under way;
\* a text whose prompt is clean answers the prompt in the chat, and no button
\* is under way.
ErrandSound(e) ==
    LET r == errand[e] IN
    /\ r \in ErrandRecord /\ r.prompt \in 0 .. Len(asked)
    /\ r.at = "tap" => r.prompt \in DOMAIN asked /\ r.order = asked[r.prompt].order
    /\ Clean(r.prompt) /\ r.at = "tap" =>
        /\ r.prompt = Len(asked) /\ mode \in {"none", asked[r.prompt].purpose}
        /\ \A d \in Errands : UnderWay(d, "tap") => d = e
    /\ Clean(r.prompt) /\ r.at # "tap" => r.prompt = visible /\ NoButton /\ Answering(r)

\* The state of the chat is that of the prompt it shows, or cleared.
ChatSound ==
    Clean(visible) /\ NoButton =>
        /\ mode \in {"none", asked[visible].purpose}
        /\ \/ noted = Nothing
           \/ /\ noted.order = asked[visible].order
              /\ asked[visible].purpose = "message" => noted.key = visible

ChatInv ==
    /\ asked \in Seq([purpose: Purposes, order: Tickets]) /\ Len(asked) <= MaxPrompts
    /\ visible \in 0 .. Len(asked) /\ 0 \in tangled /\ tangled \subseteq 0 .. Len(asked)
    /\ mode \in Purposes \cup {"none"}
    /\ noted \in [order: Tickets \cup {0}, key: Nat]
    /\ DOMAIN errand = Errands
    /\ \A e \in Errands : errand[e] # NoErrand => ErrandSound(e)
    /\ ChatSound

\* What a prompt has done cannot be done again: the order is closed, or the
\* message has its row.
ActsSound(n) ==
    /\ acts[n] = <<>> \/ acts[n] = <<asked[n]>>
    /\ acts[n] # <<>> => IF asked[n].purpose = "reason" THEN asked[n].order \notin open
                         ELSE \E l \in letters : l.order = asked[n].order /\ l.key = n

ActsInv ==
    /\ DOMAIN acts = 0 .. MaxPrompts
    /\ \A n \in 0 .. MaxPrompts : n > Len(asked) => acts[n] = <<>>
    /\ \A l \in letters : l = [order |-> l.order, key |-> l.key, text |-> l.text]
    /\ \A n \in DOMAIN asked : n \notin tangled => ActsSound(n)

DeskInv == ChatInv /\ ActsInv

\* A text that goes on keeps to its prompt.
LEMMA TextGoesOn ==
    ASSUME ChatInv, NEW e \in Errands, NEW r,
           errand[e] # NoErrand, errand[e].at # "tap",
           errand' = [errand EXCEPT ![e] = r],
           UNCHANGED <<mode, noted, asked, visible, tangled>>,
           \/ r = NoErrand
           \/ /\ r \in ErrandRecord /\ r.at # "tap" /\ r.prompt = errand[e].prompt
              /\ Clean(r.prompt) => Answering(r)
    PROVE  ChatInv'
<1>1. /\ ErrandSound(e) /\ errand'[e] = r /\ DOMAIN errand' = Errands
      /\ \A d \in Errands \ {e} : errand'[d] = errand[d]
  BY DEF ChatInv
<1>2. \A d \in Errands : UnderWay(d, "tap")' <=> UnderWay(d, "tap")
  BY <1>1 DEF UnderWay
<1>3. (NoButton' <=> NoButton) /\ \A n : Clean(n)' <=> Clean(n)
  BY <1>2 DEF NoButton, Clean
<1>4. ASSUME NEW d \in Errands, errand'[d] # NoErrand PROVE ErrandSound(d)'
  <2>1. CASE d = e
    BY <1>1, <1>3, <1>4, <2>1 DEF ErrandSound, Answering
  <2>2. CASE d # e
    <3>1. ErrandSound(d) /\ errand'[d] = errand[d]
      BY <1>1, <1>4, <2>2 DEF ChatInv
    <3> QED  BY <1>2, <1>3, <3>1 DEF ErrandSound, Answering
  <2> QED  BY <2>1, <2>2
<1>5. ChatSound'
  BY <1>3 DEF ChatInv, ChatSound
<1> QED  BY <1>1, <1>4, <1>5 DEF ChatInv

\* What a prompt has done stands while orders only close, letters only come
\* and prompts only tangle.
LEMMA ActsStand ==
    ASSUME ChatInv, ActsInv, UNCHANGED <<acts, asked>>, open' \subseteq open,
           letters \subseteq letters', tangled \subseteq tangled',
           \A l \in letters' : l = [order |-> l.order, key |-> l.key, text |-> l.text]
    PROVE  ActsInv'
<1>1. ASSUME NEW n \in DOMAIN asked, n \notin tangled' PROVE ActsSound(n)'
  <2>1. ActsSound(n)
    BY <1>1 DEF ActsInv
  <2> QED  BY <2>1 DEF ActsSound
<1> QED  BY <1>1 DEF ActsInv

LEMMA PromptAdded ==
    ASSUME NEW S, NEW s \in Seq(S), NEW x \in S
    PROVE  /\ Append(s, x) \in Seq(S) /\ Len(Append(s, x)) = Len(s) + 1
           /\ Len(s) \in Nat /\ DOMAIN s = 1 .. Len(s)
           /\ DOMAIN Append(s, x) = 1 .. Len(s) + 1
           /\ \A i \in 1 .. Len(s) : Append(s, x)[i] = s[i]
           /\ Append(s, x)[Len(s) + 1] = x
OBVIOUS

LEMMA ItemOf ==
    ASSUME NEW S, NEW s \in Seq(S), NEW i \in DOMAIN s
    PROVE  s[i] \in S
OBVIOUS

LEMMA TapStep ==
    ASSUME DeskInv, NEW e \in Errands, NEW o \in Tickets, NEW purpose \in Purposes,
           Tap(e, o, purpose)
    PROVE  DeskInv'
<1> USE DEF DeskInv
<1> DEFINE x == [purpose |-> purpose, order |-> o]
<1>0. PICK n \in Nat : n = Len(asked) + 1
  BY DEF ChatInv
<1>1. /\ asked' = Append(asked, x) /\ asked' \in Seq([purpose: Purposes, order: Tickets])
      /\ Len(asked) \in Nat /\ DOMAIN asked = 1 .. Len(asked)
      /\ Len(asked') = n /\ DOMAIN asked' = 1 .. n
      /\ asked'[n] = x /\ \A i \in 1 .. Len(asked) : asked'[i] = asked[i]
  BY <1>0, PromptAdded DEF ChatInv, Tap
<1>2. /\ errand'[e] = [at |-> "tap", prompt |-> n, order |-> o]
      /\ DOMAIN errand' = Errands /\ \A d \in Errands \ {e} : errand'[d] = errand[d]
      /\ errand[e] = NoErrand
  BY <1>1 DEF ChatInv, Tap, ErrandIs
<1>3. [at |-> "tap", prompt |-> n, order |-> o] \in ErrandRecord
  BY DEF ErrandRecord
<1>4. UnderWay(e, "tap")'
  BY <1>2, <1>3, DeskAssumption DEF UnderWay
<1>5. /\ mode' = purpose /\ n <= MaxPrompts
      /\ UNCHANGED <<open, employed, noted, letters, visible, acts>>
      /\ tangled' = IF Busy = {} THEN tangled
                    ELSE tangled \cup {n, visible} \cup {errand[d].prompt : d \in Busy}
      /\ n \notin tangled /\ n \notin DOMAIN asked /\ visible \in 0 .. Len(asked)
  BY <1>0, <1>1, DeskAssumption DEF Tap, ChatInv
<1>6. \A m \in DOMAIN asked : Clean(m)' => Clean(m) /\ asked'[m] = asked[m]
  BY <1>1, <1>5 DEF Clean
<1>7. ASSUME NEW d \in Errands, d # e, errand'[d] # NoErrand
      PROVE  ErrandSound(d)'
  <2>1. ErrandSound(d) /\ errand'[d] = errand[d] /\ d \in Busy
    BY <1>2, <1>7 DEF ChatInv, Busy
  <2>2. errand[d].prompt \in tangled'
    BY <1>5, <2>1
  <2>3. /\ errand[d] \in ErrandRecord /\ errand[d].prompt \in 0 .. Len(asked)
        /\ errand[d].at = "tap" => /\ errand[d].prompt \in DOMAIN asked
                                   /\ errand[d].order = asked[errand[d].prompt].order
    BY <2>1 DEF ErrandSound
  <2>4. ~Clean(errand[d].prompt)'
    BY <2>1, <2>2 DEF Clean
  <2>5. errand'[d].prompt \in 0 .. n /\ 1 .. Len(asked) \subseteq 1 .. n
    BY <1>0, <1>1, <2>1, <2>3
  <2> QED  BY <1>1, <2>1, <2>3, <2>4, <2>5 DEF ErrandSound
<1>8. ErrandSound(e)'
  <2>1. Clean(n)' => \A d \in Errands : UnderWay(d, "tap")' => d = e
    <3> SUFFICES ASSUME Clean(n)', NEW d \in Errands, d # e, UnderWay(d, "tap")' PROVE FALSE
      OBVIOUS
    <3>1. d \in Busy
      BY <1>2 DEF UnderWay, Busy
    <3>2. n \in tangled'
      BY <1>5, <3>1
    <3> QED  BY <3>2 DEF Clean
  <2>2. n \in 1 .. n
    BY <1>0, <1>1
  <2> QED  BY <1>1, <1>2, <1>3, <1>5, <2>1, <2>2 DEF ErrandSound
<1>9. ChatSound'
  BY <1>4 DEF ChatSound, NoButton
<1>10. /\ visible' \in 0 .. Len(asked') /\ 0 \in tangled' /\ tangled' \subseteq 0 .. Len(asked')
       /\ Len(asked') <= MaxPrompts
  <2>1. 0 .. Len(asked) \subseteq 0 .. n /\ n \in 0 .. n
    BY <1>0, <1>1
  <2>2. \A d \in Busy : errand[d].prompt \in 0 .. n
    BY <2>1 DEF Busy, ChatInv, ErrandSound
  <2>3. tangled \subseteq 0 .. n /\ visible \in 0 .. n /\ 0 \in tangled
    BY <2>1 DEF ChatInv
  <2> QED  BY <1>1, <1>5, <2>1, <2>2, <2>3
<1>11. ChatInv'
  <2>1. mode' \in Purposes \cup {"none"} /\ noted' \in [order: Tickets \cup {0}, key: Nat]
    BY <1>5 DEF ChatInv
  <2> QED  BY <1>1, <1>2, <1>7, <1>8, <1>9, <1>10, <2>1 DEF ChatInv
<1>12. ActsInv'
  <2>1. ASSUME NEW m \in DOMAIN asked', m \notin tangled' PROVE ActsSound(m)'
    <3>1. CASE m \in DOMAIN asked
      <4>1. m \notin tangled /\ asked'[m] = asked[m]
        BY <1>6, <2>1, <3>1 DEF Clean
      <4>2. ActsSound(m)
        BY <3>1, <4>1 DEF ActsInv
      <4> QED  BY <1>5, <4>1, <4>2 DEF ActsSound
    <3>2. CASE m \notin DOMAIN asked
      <4>1. m = n
        BY <1>0, <1>1, <3>2
      <4>2. acts[m] = <<>>
        BY <1>0, <1>1, <1>5, <4>1 DEF ActsInv
      <4> QED  BY <1>5, <4>2 DEF ActsSound
    <3> QED  BY <3>1, <3>2
  <2>2. \A m \in 0 .. MaxPrompts : m > Len(asked') => acts'[m] = <<>>
    BY <1>0, <1>1, <1>5 DEF ActsInv
  <2> QED  BY <1>5, <2>1, <2>2 DEF ActsInv
<1> QED  BY <1>11, <1>12

\* A button that is done, or stops half-way.
LEMMA ButtonStep ==
    ASSUME DeskInv, NEW e \in Errands,
           (\E reached \in BOOLEAN : NoteOrder(e, reached)) \/ TapDies(e)
    PROVE  DeskInv'
<1> USE DEF DeskInv
<1>1. /\ errand[e] # NoErrand /\ errand[e].at = "tap" /\ ErrandSound(e) /\ UnderWay(e, "tap")
      /\ errand'[e] = NoErrand /\ DOMAIN errand' = Errands
      /\ \A d \in Errands \ {e} : errand'[d] = errand[d]
      /\ UNCHANGED <<open, employed, mode, letters, asked, acts>>
  BY DEF NoteOrder, TapDies, ChatInv, ErrandDone, ErrandIs, UnderWay, chatVars
<1>2. PICK n \in DOMAIN asked : n = errand[e].prompt /\ errand[e].order = asked[n].order
  BY <1>1 DEF ErrandSound
<1>3. /\ asked[n] \in [purpose: Purposes, order: Tickets] /\ n \in Nat /\ n \in 0 .. Len(asked)
      /\ DOMAIN asked = 1 .. Len(asked) /\ Len(asked) \in Nat
  <2>1. asked \in Seq([purpose: Purposes, order: Tickets])
    BY DEF ChatInv
  <2>2. DOMAIN asked = 1 .. Len(asked) /\ Len(asked) \in Nat
    BY <2>1
  <2>3. asked[n] \in [purpose: Purposes, order: Tickets]
    BY <1>2, <2>1, ItemOf
  <2> QED  BY <2>2, <2>3
<1>4. /\ noted' \in [order: Tickets \cup {0}, key: Nat]
      /\ visible' \in 0 .. Len(asked)
      /\ tangled \subseteq tangled' /\ tangled' \subseteq 0 .. Len(asked)
      /\ \/ visible' = visible /\ visible \in tangled'
         \/ /\ visible' = n /\ tangled' = tangled /\ noted'.order = asked[n].order
            /\ asked[n].purpose = "message" => noted'.key = n
  <2>0. /\ visible \in 0 .. Len(asked) /\ tangled \subseteq 0 .. Len(asked)
        /\ noted \in [order: Tickets \cup {0}, key: Nat]
    BY DEF ChatInv
  <2>1. CASE TapDies(e)
    BY <2>0, <2>1 DEF TapDies, chatVars
  <2>2. ASSUME NEW reached \in BOOLEAN, NoteOrder(e, reached)
        PROVE  <1>4!:
    <3>1. /\ noted' = [order |-> asked[n].order, key |-> KeyNoted(n)]
          /\ visible' = (IF reached THEN n ELSE visible)
          /\ tangled' = (IF reached THEN tangled ELSE tangled \cup {visible})
      BY <1>2, <2>2 DEF NoteOrder
    <3>2. KeyNoted(n) \in Nat /\ (asked[n].purpose = "message" => KeyNoted(n) = n)
      BY <1>3, <2>0 DEF KeyNoted
    <3> QED  BY <1>3, <2>0, <3>1, <3>2
  <2> QED  BY <2>1, <2>2
<1>5. \A m : Clean(m)' => Clean(m)
  BY <1>1, <1>4 DEF Clean
<1>6. ASSUME NEW d \in Errands, errand'[d] # NoErrand PROVE ErrandSound(d)'
  <2>1. /\ ErrandSound(d) /\ errand'[d] = errand[d] /\ errand[d] # NoErrand /\ d # e
    BY <1>1, <1>6 DEF ChatInv
  <2>2. ~(Clean(errand[d].prompt) /\ errand[d].at # "tap")
    BY <1>1, <2>1 DEF ErrandSound, NoButton
  <2>3. ~(Clean(errand[d].prompt) /\ errand[d].at = "tap")
    BY <1>1, <2>1 DEF ErrandSound
  <2>4. ~Clean(errand[d].prompt)'
    BY <1>5, <2>1, <2>2, <2>3 DEF Clean
  <2> QED  BY <1>1, <2>1, <2>4 DEF ErrandSound
<1>7. ChatSound'
  <2> SUFFICES ASSUME Clean(visible)' PROVE ChatSound'
    BY DEF ChatSound
  <2>1. /\ visible' = n /\ noted'.order = asked[n].order /\ Clean(n)
        /\ asked[n].purpose = "message" => noted'.key = n
    BY <1>1, <1>4 DEF Clean
  <2>2. mode \in {"none", asked[n].purpose}
    BY <1>1, <1>2, <2>1 DEF ErrandSound
  <2> QED  BY <1>1, <2>1, <2>2 DEF ChatSound
<1>8. ChatInv'
  BY <1>1, <1>4, <1>6, <1>7 DEF ChatInv
<1>9. ActsInv'
  BY <1>1, <1>4, ActsStand DEF ActsInv
<1> QED  BY <1>8, <1>9

LEMMA TypeStep ==
    ASSUME DeskInv, NEW e \in Errands, Type(e)
    PROVE  DeskInv'
<1> USE DEF DeskInv
<1>0. PICK r : r = IF employed THEN [at |-> mode, prompt |-> visible, order |-> 0, key |-> 0]
                   ELSE [at |-> "clear", prompt |-> visible]
  OBVIOUS
<1>1. /\ errand[e] = NoErrand /\ mode \in Purposes /\ errand'[e] = r
      /\ DOMAIN errand' = Errands /\ \A d \in Errands \ {e} : errand'[d] = errand[d]
      /\ UNCHANGED <<open, employed, mode, noted, letters, asked, visible, acts>>
      /\ tangled' = IF NoButton THEN tangled ELSE tangled \cup {visible}
      /\ visible \in 0 .. Len(asked)
  <2>1. NoButton <=> ~\E d \in Busy : UnderWay(d, "tap")
    BY DEF NoButton, Busy, UnderWay
  <2> QED  BY <1>0, <2>1 DEF ChatInv, Type, ErrandIs, chatVars
<1>2. r \in ErrandRecord /\ r.prompt = visible /\ r.at # "tap"
      /\ r.at \in {mode, "clear"}
  <2>1. visible \in Nat
    BY DEF ChatInv
  <2> QED  BY <1>0, <1>1, <2>1 DEF ErrandRecord, Purposes
<1>3. \A d \in Errands : UnderWay(d, "tap")' <=> UnderWay(d, "tap")
  BY <1>1, <1>2 DEF UnderWay
<1>4. (NoButton' <=> NoButton) /\ \A m : Clean(m)' => Clean(m)
  BY <1>1, <1>3 DEF NoButton, Clean
<1>5. ASSUME NEW d \in Errands, errand'[d] # NoErrand PROVE ErrandSound(d)'
  <2>1. CASE d = e
    <3>1. Clean(visible)' => NoButton' /\ mode = asked[visible].purpose
      <4> SUFFICES ASSUME Clean(visible)' PROVE NoButton /\ mode = asked[visible].purpose
        BY <1>4
      <4>1. NoButton /\ Clean(visible)
        BY <1>1, <1>4 DEF Clean
      <4> QED  BY <1>1, <4>1 DEF ChatInv, ChatSound, Purposes
    <3>2. Clean(visible)' => Answering(r)'
      BY <1>1, <1>2, <3>1 DEF Answering, Purposes
    <3> QED  BY <1>1, <1>2, <2>1, <3>1, <3>2 DEF ErrandSound, Clean
  <2>2. CASE d # e
    <3>1. ErrandSound(d) /\ errand'[d] = errand[d]
      BY <1>1, <1>5, <2>2 DEF ChatInv
    <3> QED  BY <1>1, <1>3, <1>4, <3>1 DEF ErrandSound, Answering, Clean
  <2> QED  BY <2>1, <2>2
<1>6. ChatSound'
  BY <1>1, <1>4 DEF ChatInv, ChatSound, Clean
<1>7. ChatInv'
  BY <1>1, <1>5, <1>6 DEF ChatInv
<1>8. ActsInv'
  BY <1>1, ActsStand DEF ActsInv
<1> QED  BY <1>7, <1>8

IsText(r) == r = [at |-> r.at, prompt |-> r.prompt, order |-> r.order, key |-> r.key]

LEMMA TextCancels ==
    ASSUME NEW r, IsText(r), NEW o
    PROVE  [r EXCEPT !.at = "cancel", !.order = o]
           = [at |-> "cancel", prompt |-> r.prompt, order |-> o, key |-> r.key]
<1> DEFINE a == [r EXCEPT !.at = "cancel"]
<1>1. a = [at |-> "cancel", prompt |-> r.prompt, order |-> r.order, key |-> r.key]
  BY DEF IsText
<1> HIDE DEF a
<1>2. [a EXCEPT !.order = o] = [at |-> "cancel", prompt |-> r.prompt, order |-> o, key |-> r.key]
  BY <1>1
<1> QED  BY <1>2, Zenon DEF a

LEMMA TextQueues ==
    ASSUME NEW r, IsText(r), NEW o, NEW k
    PROVE  [r EXCEPT !.at = "queue", !.order = o, !.key = k]
           = [at |-> "queue", prompt |-> r.prompt, order |-> o, key |-> k]
<1> DEFINE b == [r EXCEPT !.at = "queue"]
           c == [b EXCEPT !.order = o]
<1>1. b = [at |-> "queue", prompt |-> r.prompt, order |-> r.order, key |-> r.key]
  BY DEF IsText
<1> HIDE DEF b
<1>2. c = [at |-> "queue", prompt |-> r.prompt, order |-> o, key |-> r.key]
  BY <1>1
<1> HIDE DEF c
<1>3. [c EXCEPT !.key = k] = [at |-> "queue", prompt |-> r.prompt, order |-> o, key |-> k]
  BY <1>2
<1> QED  BY <1>3, Zenon DEF b, c

LEMMA ReadStep ==
    ASSUME DeskInv, NEW e \in Errands, ReadNoted(e)
    PROVE  DeskInv'
<1> USE DEF DeskInv
<1>1. /\ errand[e] # NoErrand /\ ErrandSound(e) /\ errand[e].at \in Purposes
      /\ UNCHANGED <<open, employed, mode, noted, letters, asked, visible, acts, tangled>>
      /\ noted.order \in Tickets \cup {0} /\ noted.key \in Nat
  BY DEF ReadNoted, UnderWay, ChatInv, Purposes, chatVars, historyOfDesk
<1>0. PICK r : r = errand[e]
  OBVIOUS
<1>2. /\ r \in ErrandRecord /\ r.at \in Purposes /\ r.prompt \in Nat
      /\ IsText(r)
      /\ r.order \in Tickets \cup {0} /\ r.key \in Nat
  BY <1>0, <1>1 DEF ErrandSound, ErrandRecord, Purposes, IsText
<1>3. Clean(r.prompt) =>
        /\ r.prompt = visible /\ r.at = asked[r.prompt].purpose
        /\ \/ noted = Nothing
           \/ /\ noted.order = asked[r.prompt].order
              /\ r.at = "message" => noted.key = r.prompt
  <2> SUFFICES ASSUME Clean(r.prompt) PROVE <1>3!2
    OBVIOUS
  <2>1. r.prompt = visible /\ NoButton /\ Answering(r)
    BY <1>0, <1>1, <1>2 DEF ErrandSound, Purposes
  <2>2. r.at = asked[r.prompt].purpose
    BY <1>2, <2>1 DEF Answering
  <2> QED  BY <2>1, <2>2 DEF ChatInv, ChatSound
<1>4. ASSUME NEW x, errand' = [errand EXCEPT ![e] = x], x \in ErrandRecord,
             x.at # "tap", x.prompt = r.prompt, Clean(x.prompt) => Answering(x)
      PROVE  ChatInv'
  BY <1>0, <1>1, <1>2, <1>4, TextGoesOn DEF Purposes
<1>5. ASSUME ErrandClears(e) PROVE ChatInv'
  <2> DEFINE x == [at |-> "clear", prompt |-> r.prompt]
  <2>1. errand' = [errand EXCEPT ![e] = x]
    BY <1>0, <1>5 DEF ErrandClears, ErrandIs
  <2>2. x \in ErrandRecord /\ x.at # "tap" /\ x.prompt = r.prompt
    BY <1>2 DEF ErrandRecord
  <2>3. Answering(x)
    BY DEF Answering, Purposes
  <2> HIDE DEF x
  <2> QED  BY <1>4, <2>1, <2>2, <2>3
<1>6. ASSUME UnderWay(e, "reason"), noted.order # 0,
             ErrandIs(e, [errand[e] EXCEPT !.at = "cancel", !.order = noted.order])
      PROVE  ChatInv'
  <2> DEFINE x == [at |-> "cancel", prompt |-> r.prompt, order |-> noted.order, key |-> r.key]
  <2>1. errand' = [errand EXCEPT ![e] = x]
    <3>1. [r EXCEPT !.at = "cancel", !.order = noted.order] = x
      BY <1>2, TextCancels, Zenon
    <3> QED  BY <1>0, <1>6, <3>1, Zenon DEF ErrandIs
  <2>2. x \in ErrandRecord /\ x.at # "tap" /\ x.prompt = r.prompt
    BY <1>1, <1>2 DEF ErrandRecord, Purposes
  <2>3. Clean(x.prompt) => Answering(x)
    <3>1. r.at = "reason" /\ noted.order # 0
      BY <1>0, <1>6 DEF UnderWay
    <3> QED  BY <1>3, <3>1 DEF Answering, Nothing, Purposes
  <2> HIDE DEF x
  <2> QED  BY <1>4, <2>1, <2>2, <2>3
<1>7. ASSUME UnderWay(e, "message"), noted.order # 0,
             ErrandIs(e, [errand[e] EXCEPT !.at = "queue", !.order = noted.order,
                                           !.key = noted.key])
      PROVE  ChatInv'
  <2> DEFINE x == [at |-> "queue", prompt |-> r.prompt, order |-> noted.order, key |-> noted.key]
  <2>1. errand' = [errand EXCEPT ![e] = x]
    <3>1. [r EXCEPT !.at = "queue", !.order = noted.order, !.key = noted.key] = x
      BY <1>2, TextQueues, Zenon
    <3> QED  BY <1>0, <1>7, <3>1, Zenon DEF ErrandIs
  <2>2. x \in ErrandRecord /\ x.at # "tap" /\ x.prompt = r.prompt
    BY <1>1, <1>2 DEF ErrandRecord, Purposes
  <2>3. Clean(x.prompt) => Answering(x)
    <3>1. r.at = "message" /\ noted.order # 0
      BY <1>0, <1>7 DEF UnderWay
    <3> QED  BY <1>3, <3>1 DEF Answering, Nothing, Purposes
  <2> HIDE DEF x
  <2> QED  BY <1>4, <2>1, <2>2, <2>3
<1>8. ChatInv'
  BY <1>5, <1>6, <1>7 DEF ReadNoted
<1>9. ActsInv'
  BY <1>1, ActsStand DEF ActsInv
<1> QED  BY <1>8, <1>9

\* An answer takes effect: it is the first of its prompt, and what it did
\* keeps others from following it.
LEMMA AnswerActs ==
    ASSUME ChatInv, ActsInv, NEW e \in Errands, NEW purpose \in Purposes,
           NEW n, n = errand[e].prompt, NEW o, o = errand[e].order,
           Acted(e, purpose), UNCHANGED <<asked, tangled>>,
           open' \subseteq open, letters \subseteq letters',
           \A l \in letters' : l = [order |-> l.order, key |-> l.key, text |-> l.text],
           Clean(n) =>
              /\ asked[n] = [purpose |-> purpose, order |-> o]
              /\ acts[n] = <<>> /\ n \in 0 .. MaxPrompts
              /\ IF purpose = "reason" THEN o \notin open'
                 ELSE \E l \in letters' : l.order = o /\ l.key = n,
           n \in 0 .. Len(asked)
    PROVE  ActsInv'
<1>0. DOMAIN asked = 1 .. Len(asked) /\ Len(asked) \in Nat
  BY DEF ChatInv
<1>1. CASE n \in tangled
  BY <1>1, ActsStand DEF Acted
<1>2. CASE n \notin tangled
  <2>1. Clean(n)
    BY <1>0, <1>2 DEF ChatInv, Clean
  <2>2. /\ acts' = [acts EXCEPT ![n] = Append(@, [purpose |-> purpose, order |-> o])]
        /\ DOMAIN acts = 0 .. MaxPrompts
    BY <1>2 DEF Acted, ActsInv
  <2>3. acts[n] = <<>> /\ asked[n] = [purpose |-> purpose, order |-> o]
    BY <2>1
  <2> DEFINE x == [purpose |-> purpose, order |-> o]
  <2>4. Append(<<>>, x) = <<x>>
    OBVIOUS
  <2>5. /\ DOMAIN acts' = 0 .. MaxPrompts /\ acts'[n] = <<asked[n]>>
        /\ \A m \in (0 .. MaxPrompts) \ {n} : acts'[m] = acts[m]
    BY <2>1, <2>2, <2>3, <2>4
  <2>6. ASSUME NEW m \in DOMAIN asked, m \notin tangled' PROVE ActsSound(m)'
    <3>1. CASE m = n
      BY <2>1, <2>3, <2>5, <3>1 DEF ActsSound
    <3>2. CASE m # n
      <4>1. ActsSound(m) /\ m \in 0 .. MaxPrompts
        BY <1>0, <2>6, DeskAssumption DEF ActsInv, ChatInv
      <4>2. acts'[m] = acts[m]
        BY <2>5, <3>2, <4>1
      <4> QED  BY <4>1, <4>2 DEF ActsSound
    <3> QED  BY <3>1, <3>2
  <2>7. \A m \in 0 .. MaxPrompts : m > Len(asked) => acts'[m] = <<>>
    BY <1>0, <2>5 DEF ActsInv
  <2> QED  BY <2>5, <2>6, <2>7 DEF ActsInv
<1> QED  BY <1>1, <1>2

\* A text whose reading is done only ends, or clears the chat.
LEMMA AnswerEnds ==
    ASSUME ChatInv, NEW e \in Errands, errand[e] # NoErrand, errand[e].at # "tap",
           ErrandClears(e) \/ ErrandDone(e),
           UNCHANGED <<mode, noted, asked, visible, tangled>>
    PROVE  ChatInv'
<1>1. CASE ErrandDone(e)
  BY <1>1, TextGoesOn DEF ErrandDone, ErrandIs
<1>2. CASE ErrandClears(e)
  <2>0. PICK n \in Nat : n = errand[e].prompt
    BY DEF ChatInv, ErrandSound
  <2> DEFINE x == [at |-> "clear", prompt |-> n]
  <2>1. errand' = [errand EXCEPT ![e] = x]
    BY <1>2, <2>0 DEF ErrandClears, ErrandIs
  <2>2. x \in ErrandRecord /\ x.at # "tap" /\ x.prompt = n
    BY DEF ErrandRecord
  <2>3. Answering(x)
    BY DEF Answering, Purposes
  <2> HIDE DEF x
  <2> QED  BY <2>0, <2>1, <2>2, <2>3, TextGoesOn
<1> QED  BY <1>1, <1>2

\* What an answer carries that is about to act.
LEMMA AnswerAbout ==
    ASSUME ChatInv, ActsInv, NEW e \in Errands, NEW at \in {"cancel", "queue"}, UnderWay(e, at)
    PROVE  /\ errand[e] # NoErrand /\ errand[e].at = at /\ errand[e].prompt \in 0 .. Len(asked)
           /\ Clean(errand[e].prompt) =>
                /\ Answering(errand[e]) /\ ActsSound(errand[e].prompt)
                /\ asked[errand[e].prompt] \in [purpose: Purposes, order: Tickets]
                /\ errand[e].prompt \in 0 .. MaxPrompts
<1>1. errand[e] # NoErrand /\ errand[e].at = at /\ ErrandSound(e)
  BY DEF UnderWay, ChatInv
<1>2. ASSUME Clean(errand[e].prompt)
      PROVE  /\ ActsSound(errand[e].prompt)
             /\ asked[errand[e].prompt] \in [purpose: Purposes, order: Tickets]
             /\ errand[e].prompt \in 0 .. MaxPrompts
  <2>1. ActsSound(errand[e].prompt)
    BY <1>2 DEF Clean, ActsInv
  <2>2. asked[errand[e].prompt] \in [purpose: Purposes, order: Tickets]
    BY <1>2, ItemOf DEF Clean, ChatInv
  <2>3. DOMAIN asked = 1 .. Len(asked) /\ Len(asked) \in Nat
    BY DEF ChatInv
  <2> QED  BY <1>2, <2>1, <2>2, <2>3, DeskAssumption DEF Clean, ChatInv
<1> QED  BY <1>1, <1>2 DEF ErrandSound

LEMMA CancelStep ==
    ASSUME DeskInv, NEW e \in Errands, Cancel(e)
    PROVE  DeskInv'
<1> USE DEF DeskInv
<1>0. PICK n, o : n = errand[e].prompt /\ o = errand[e].order
  OBVIOUS
<1>1. /\ errand[e] # NoErrand /\ errand[e].at = "cancel" /\ n \in 0 .. Len(asked)
      /\ Clean(n) => /\ asked[n].purpose = "reason" /\ o = asked[n].order /\ ActsSound(n)
                     /\ asked[n] \in [purpose: Purposes, order: Tickets]
                     /\ n \in 0 .. MaxPrompts
  BY <1>0, AnswerAbout DEF Cancel, Answering
<1>2. UNCHANGED <<mode, noted, asked, visible, tangled, letters>> /\ open' \subseteq open
  BY DEF Cancel, chatVars
<1>3. ChatInv'
  BY <1>1, <1>2, AnswerEnds DEF Cancel
<1>4. CASE o \in open
  <2>1. open' = open \ {o} /\ Acted(e, "reason")
    BY <1>0, <1>4 DEF Cancel
  <2>2. ASSUME Clean(n)
        PROVE  /\ asked[n] = [purpose |-> "reason", order |-> o] /\ acts[n] = <<>>
               /\ n \in 0 .. MaxPrompts /\ o \notin open'
    BY <1>1, <1>4, <2>1, <2>2 DEF ActsSound
  <2>3. \A l \in letters' : l = [order |-> l.order, key |-> l.key, text |-> l.text]
    BY <1>2 DEF ActsInv
  <2> QED  BY <1>0, <1>1, <1>2, <1>3, <2>1, <2>2, <2>3, AnswerActs DEF Purposes
<1>5. CASE o \notin open
  BY <1>0, <1>2, <1>3, <1>5, ActsStand DEF Cancel, ActsInv
<1> QED  BY <1>3, <1>4, <1>5

LEMMA QueueStep ==
    ASSUME DeskInv, NEW e \in Errands,
           (\E t \in Texts : QueueMessage(e, t)) \/ TextRefused(e)
    PROVE  DeskInv'
<1> USE DEF DeskInv
<1>0. PICK n, o : n = errand[e].prompt /\ o = errand[e].order
  OBVIOUS
<1>1. UnderWay(e, "queue")
  BY DEF QueueMessage, TextRefused
<1>2. /\ errand[e] # NoErrand /\ errand[e].at = "queue" /\ n \in 0 .. Len(asked)
      /\ Clean(n) => /\ asked[n].purpose = "message" /\ o = asked[n].order /\ ActsSound(n)
                     /\ errand[e].key = n
                     /\ asked[n] \in [purpose: Purposes, order: Tickets]
                     /\ n \in 0 .. MaxPrompts
  BY <1>0, <1>1, AnswerAbout DEF Answering
<1>3. /\ UNCHANGED <<open, mode, noted, asked, visible, tangled>>
      /\ ErrandClears(e) \/ ErrandDone(e)
  BY DEF QueueMessage, TextRefused, chatVars, historyOfDesk
<1>4. ChatInv'
  BY <1>2, <1>3, AnswerEnds
<1>5. CASE UNCHANGED <<letters, acts>>
  BY <1>3, <1>4, <1>5, ActsStand DEF ActsInv
<1>6. ASSUME NEW t \in Texts, QueueMessage(e, t), ~Queued(e, t),
             letters' = letters \cup {Letter(e, t)}, Acted(e, "message")
      PROVE  ActsInv'
  <2> DEFINE x == [order |-> errand[e].order, key |-> errand[e].key, text |-> t]
  <2>0. PICK k : k = errand[e].key
    OBVIOUS
  <2>1. /\ letters' = letters \cup {[order |-> o, key |-> k, text |-> t]}
        /\ \A l \in letters : l = [order |-> l.order, key |-> l.key, text |-> l.text]
    BY <1>0, <1>6, <2>0 DEF Letter, ActsInv
  <2>2. \A l \in letters' : l = [order |-> l.order, key |-> l.key, text |-> l.text]
    BY <2>1
  <2>3. ASSUME Clean(n) PROVE acts[n] = <<>>
    <3>1. ASSUME NEW l \in letters, l.order = o, l.key = k PROVE FALSE
      <4>1. [l EXCEPT !.text = t] = [order |-> o, key |-> k, text |-> t]
        BY <2>1, <3>1
      <4> QED  BY <1>0, <1>6, <2>0, <4>1 DEF Queued, Letter
    <3> QED  BY <1>2, <2>0, <2>3, <3>1 DEF ActsSound
  <2>4. ASSUME Clean(n)
        PROVE  /\ asked[n] = [purpose |-> "message", order |-> o] /\ acts[n] = <<>>
               /\ n \in 0 .. MaxPrompts
               /\ \E l \in letters' : l.order = o /\ l.key = n
    <3>1. k = n /\ [order |-> o, key |-> k, text |-> t] \in letters'
      BY <1>2, <2>0, <2>1, <2>4
    <3> QED  BY <1>2, <2>3, <2>4, <3>1
  <2> QED  BY <1>0, <1>2, <1>3, <1>6, <2>1, <2>2, <2>4, AnswerActs DEF Purposes
<1>7. \/ UNCHANGED <<letters, acts>>
      \/ \E t \in Texts : /\ QueueMessage(e, t) /\ ~Queued(e, t)
                          /\ letters' = letters \cup {Letter(e, t)} /\ Acted(e, "message")
  BY DEF QueueMessage, TextRefused, historyOfDesk
<1> QED  BY <1>4, <1>5, <1>6, <1>7

LEMMA ClearStep ==
    ASSUME DeskInv, (\E e \in Errands : ClearChat(e)) \/ (\E clears \in BOOLEAN : LeaveChat(clears))
    PROVE  DeskInv'
<1> USE DEF DeskInv
<1>1. /\ mode' = "none" /\ noted' \in {Nothing, noted}
      /\ UNCHANGED <<open, letters, asked, visible, acts, tangled>>
  BY DEF ClearChat, LeaveChat, historyOfDesk
<1>2. /\ DOMAIN errand' = Errands
      /\ \A d \in Errands : errand'[d] = errand[d]
                            \/ (errand'[d] = NoErrand /\ UnderWay(d, "clear"))
  BY DEF ClearChat, LeaveChat, ErrandDone, ErrandIs, ChatInv
<1>3. \A d \in Errands : UnderWay(d, "tap")' <=> UnderWay(d, "tap")
  BY <1>2 DEF UnderWay
<1>4. (NoButton' <=> NoButton) /\ \A m : Clean(m)' <=> Clean(m)
  BY <1>1, <1>3 DEF NoButton, Clean
<1>5. ASSUME NEW d \in Errands, errand'[d] # NoErrand PROVE ErrandSound(d)'
  <2>1. ErrandSound(d) /\ errand'[d] = errand[d]
    BY <1>2, <1>5 DEF ChatInv
  <2> QED  BY <1>1, <1>3, <1>4, <2>1 DEF ErrandSound, Answering
<1>6. ChatSound'
  BY <1>1, <1>4 DEF ChatInv, ChatSound
<1>7. noted' \in [order: Tickets \cup {0}, key: Nat]
  BY <1>1 DEF ChatInv, Nothing
<1>8. ChatInv'
  BY <1>1, <1>2, <1>5, <1>6, <1>7 DEF ChatInv
<1>9. ActsInv'
  BY <1>1, ActsStand DEF ActsInv
<1> QED  BY <1>8, <1>9

LEMMA DeskOthersStep ==
    ASSUME DeskInv, (\E o \in Tickets : CloseElsewhere(o)) \/ Dismiss \/ UNCHANGED deskVars
    PROVE  DeskInv'
<1> USE DEF DeskInv
<1>1. /\ UNCHANGED <<mode, noted, errand, letters, asked, visible, acts, tangled>>
      /\ open' \subseteq open
  BY DEF CloseElsewhere, Dismiss, deskVars, chatVars, historyOfDesk
<1>2. ChatInv'
  BY <1>1 DEF ChatInv, ChatSound, ErrandSound, Answering, Clean, NoButton, UnderWay
<1>3. ActsInv'
  BY <1>1, ActsStand DEF ActsInv
<1> QED  BY <1>2, <1>3

LEMMA DeskStart ==
    ASSUME DeskInit PROVE DeskInv
<1>0. /\ <<>> \in Seq([purpose: Purposes, order: Tickets]) /\ Len(<<>>) = 0 /\ DOMAIN <<>> = {}
  OBVIOUS
<1>1. DOMAIN asked = {} /\ Len(asked) = 0
  BY <1>0 DEF DeskInit
<1>2. ChatInv
  BY <1>0, <1>1, DeskAssumption DEF DeskInit, ChatInv, ChatSound, Clean, Nothing
<1>3. ActsInv
  BY <1>1 DEF DeskInit, ActsInv
<1> QED  BY <1>2, <1>3 DEF DeskInv

LEMMA DeskStep ==
    ASSUME DeskInv, [DeskNext]_deskVars PROVE DeskInv'
<1>1. CASE UNCHANGED deskVars
  BY <1>1, DeskOthersStep
<1>2. ASSUME NEW e \in Errands,
             \/ \E o \in Tickets, purpose \in Purposes : Tap(e, o, purpose)
             \/ \E reached \in BOOLEAN : NoteOrder(e, reached)
             \/ TapDies(e)
             \/ Type(e) \/ ReadNoted(e) \/ Cancel(e)
             \/ \E t \in Texts : QueueMessage(e, t)
             \/ TextRefused(e) \/ ClearChat(e)
      PROVE  DeskInv'
  BY <1>2, TapStep, ButtonStep, TypeStep, ReadStep, CancelStep, QueueStep, ClearStep
<1>3. ASSUME \/ \E o \in Tickets : CloseElsewhere(o)
             \/ \E clears \in BOOLEAN : LeaveChat(clears)
             \/ Dismiss
      PROVE  DeskInv'
  BY <1>3, ClearStep, DeskOthersStep
<1> QED  BY <1>1, <1>2, <1>3 DEF DeskNext

\* Of the texts an administrator types under a prompt at most one has an
\* effect, the one the prompt announced, on its order (bot/handlers/admin/
\* orders.py), for any number of orders, updates at once and buttons pressed,
\* but for the prompts another button interfered with.
THEOREM PromptsAnsweredOnce == DeskSpec => []OnePerPrompt
<1>1. DeskInit => DeskInv
  BY DeskStart
<1>2. DeskInv /\ [DeskNext]_deskVars => DeskInv'
  BY DeskStep
<1>3. DeskInv => OnePerPrompt
  <2> SUFFICES ASSUME DeskInv, NEW n \in DOMAIN asked \ tangled
               PROVE  Len(acts[n]) <= 1 /\ \A i \in DOMAIN acts[n] : acts[n][i] = asked[n]
    BY DEF OnePerPrompt
  <2>1. acts[n] = <<>> \/ acts[n] = <<asked[n]>>
    BY DEF DeskInv, ActsInv, ActsSound
  <2>2. CASE acts[n] = <<>>
    <3>1. Len(<<>>) = 0 /\ DOMAIN <<>> = {}
      OBVIOUS
    <3> QED  BY <2>2, <3>1
  <2>3. CASE acts[n] = <<asked[n]>>
    <3>1. ASSUME NEW x PROVE Len(<<x>>) = 1 /\ DOMAIN <<x>> = {1} /\ <<x>>[1] = x
      OBVIOUS
    <3> QED  BY <2>3, <3>1
  <2> QED  BY <2>1, <2>2, <2>3
<1> QED  BY <1>1, <1>2, <1>3, PTL DEF DeskSpec

-----------------------------------------------------------------------------
(* The catalogue. *)

CatalogShape ==
    /\ category \in [Categories -> CategoryRow \cup {NoRow}]
    /\ product \in [Products -> ProductRow \cup {NoRow}]
    /\ image \in [Images -> ImageRow \cup {NoRow}]
    /\ desk \in [Editors -> Screens \cup Forms \cup {NoDesk}]

\* The parent of a category exists: a category with children stays.
ParentsExist == \A c \in Existing : category[c].parent \in Existing \cup {NoParent}

\* A screen that is not old shows what exists: who deletes makes it old.
ScreensShowRows ==
    \A e \in Editors : IsAt(e, "item") /\ desk[e].current => desk[e].item \in Existing \cup Offered

\* A photograph is of a product that exists: it goes with it.
PhotosBelong == \A i \in Images : image[i] # NoRow => image[i].product \in Offered

CatalogInv ==
    /\ CatalogShape
    /\ ParentsExist /\ NoCycle
    /\ CountsRight
    /\ PhotosBelong /\ GalleriesTidy
    /\ ScreensShowRows

LEMMA CatalogStart == CatalogInit => CatalogInv
<1> SUFFICES ASSUME CatalogInit PROVE CatalogInv
  OBVIOUS
<1>1. Existing = {} /\ Offered = {} /\ \A i \in Images : image[i] = NoRow
  BY DEF CatalogInit, Existing, Offered
<1>2. CatalogShape /\ ScreensShowRows
  BY DEF CatalogInit, CatalogShape, ScreensShowRows, IsAt
<1>3. ParentsExist /\ NoCycle /\ CountsRight /\ PhotosBelong /\ GalleriesTidy
  BY <1>1 DEF ParentsExist, NoCycle, CountsRight, PhotosBelong, GalleriesTidy
<1> QED  BY <1>2, <1>3 DEF CatalogInv

-----------------------------------------------------------------------------
(* The walks up and down the tree. *)

LEMMA ExistingFinite ==
    /\ IsFiniteSet(Existing) /\ Cardinality(Existing) <= Cardinality(Categories)
    /\ Cardinality(Categories) \in Nat /\ Existing \subseteq Categories
<1>1. Existing \subseteq Categories
  BY DEF Existing
<1> QED  BY <1>1, CatalogAssumption, FS_Subset, FS_CardinalityType

ParentsOf(X) == {category[d].parent : d \in X} \ {NoParent}

\* The walk from a parent ends above: what it has found has no parent more.
LEMMA WalkUp ==
    ASSUME ParentsExist, NEW parent \in Existing \cup {NoParent}
    PROVE  /\ AncestorsFrom(parent) \subseteq Existing
           /\ {parent} \ {NoParent} \subseteq AncestorsFrom(parent)
           /\ ParentsOf(AncestorsFrom(parent)) \subseteq AncestorsFrom(parent)
           /\ \A Y \in SUBSET Existing :
                {parent} \ {NoParent} \subseteq Y /\ ParentsOf(Y) \subseteq Y
                    => AncestorsFrom(parent) \subseteq Y
<1> DEFINE N == Cardinality(Categories)
           D == SUBSET Existing
           a == {parent} \ {NoParent}
           G == [X \in SUBSET Existing |-> X \cup ParentsOf(X)]
           Walks(f) == f = [n \in 0 .. N |-> IF n = 0 THEN a
                                ELSE f[n - 1] \cup ({category[d].parent : d \in f[n - 1]} \ {NoParent})]
           up == CHOOSE f : Walks(f)
<1>1. /\ a \in D /\ G \in [D -> D] /\ a \subseteq G[a]
      /\ \A X \in SUBSET Existing : G[X] = X \cup ParentsOf(X)
      /\ \A X, Y \in SUBSET Existing : X \subseteq Y => G[X] \subseteq G[Y]
  <2>1. \A X \in SUBSET Existing : ParentsOf(X) \subseteq Existing
    BY DEF ParentsOf, ParentsExist
  <2>2. \A X, Y \in SUBSET Existing : X \subseteq Y => ParentsOf(X) \subseteq ParentsOf(Y)
    BY DEF ParentsOf
  <2> QED  BY <2>1, <2>2
<1>2. N \in Nat /\ Cardinality(Existing) <= N /\ IsFiniteSet(Existing)
  BY ExistingFinite
<1>3. AncestorsFrom(parent) = up[N]
  BY DEF AncestorsFrom
<1> HIDE DEF N, D, a, G
<1>4. \E f : Walks(f)
  <2>0. a \in D /\ G \in [D -> D] /\ N \in Nat
    BY <1>1, <1>2
  <2>1. PICK f : f \in [0 .. N -> D] /\ Iteration(f, a, G, N)
    BY <2>0, Iterated, Zenon
  <2> HIDE DEF Walks
  <2>4. f = [n \in 0 .. N |-> IF n = 0 THEN a ELSE G[f[n - 1]]]
    <3>1. f = [n \in 0 .. N |-> f[n]] /\ \A n \in 0 .. N : n # 0 => n \in 1 .. N
      BY <2>0, <2>1
    <3>2. \A n \in 0 .. N : f[n] = IF n = 0 THEN a ELSE G[f[n - 1]]
      BY <2>1, <3>1 DEF Iteration
    <3> QED  BY <3>1, <3>2
  <2>2. \A n \in 0 .. N : n # 0 => G[f[n - 1]] = f[n - 1] \cup ParentsOf(f[n - 1])
    <3>1. \A n \in 0 .. N : n # 0 => n - 1 \in 0 .. N
      BY <2>0
    <3> QED  BY <1>1, <1>2, <2>1, <3>1 DEF D
  <2>3. Walks(f)
    BY <2>2, <2>4 DEF ParentsOf, Walks
  <2> QED  BY <2>3
<1>5. Walks(up)
  BY <1>4, Zenon
<1> HIDE DEF up
<1>6. up[0] = a /\ \A n \in 1 .. N : up[n] = up[n - 1] \cup ParentsOf(up[n - 1])
  BY <1>2, <1>5 DEF ParentsOf
<1> HIDE DEF Walks
<1>7. \A n \in 0 .. N : up[n] \in SUBSET Existing
  <2> DEFINE T == {n \in 0 .. N : up[n] \in SUBSET Existing}
  <2>1. 0 \in T
    BY <1>1, <1>2, <1>6 DEF D
  <2>2. ASSUME NEW n \in 1 .. N, n - 1 \in T PROVE n \in T
    <3>1. up[n - 1] \in SUBSET Existing /\ n \in 0 .. N
      BY <2>2
    <3>2. up[n] = G[up[n - 1]]
      BY <1>1, <1>6, <3>1
    <3> QED  BY <1>1, <3>1, <3>2 DEF D
  <2> HIDE DEF T
  <2>3. \A n \in 0 .. N : n \in T
    BY <1>2, <2>1, <2>2, UpTo
  <2> QED  BY <2>3 DEF T
<1>8. \A n \in 1 .. N : up[n] = G[up[n - 1]]
  <2> SUFFICES ASSUME NEW n \in 1 .. N PROVE up[n] = G[up[n - 1]]
    OBVIOUS
  <2>1. n - 1 \in 0 .. N
    BY <1>2
  <2> QED  BY <1>1, <1>6, <1>7, <2>1
<1>9. /\ up[N] \in SUBSET Existing /\ a \subseteq up[N] /\ G[up[N]] = up[N]
      /\ \A Y \in SUBSET Existing : a \subseteq Y /\ G[Y] \subseteq Y => up[N] \subseteq Y
  <2>1. /\ a \in SUBSET Existing /\ G \in [SUBSET Existing -> SUBSET Existing] /\ up[0] = a
        /\ \A X, Y \in SUBSET Existing : X \subseteq Y => G[X] \subseteq G[Y]
    BY <1>1, <1>6 DEF D
  <2>2. Adds(Existing, a, G) /\ Iteration(up, a, G, N)
    BY <1>1, <1>8, <2>1 DEF Adds, Iteration, D
  <2>3. LeastAbove(up[N], Existing, a, G)
    BY <1>2, <2>2, Closure, Zenon
  <2> QED  BY <2>3 DEF LeastAbove
<1>10. ParentsOf(up[N]) \subseteq up[N]
  BY <1>1, <1>9
<1>11. \A Y \in SUBSET Existing : ParentsOf(Y) \subseteq Y => G[Y] \subseteq Y
  BY <1>1
<1> QED  BY <1>3, <1>9, <1>10, <1>11 DEF a

\* What customers see is a root or below what they see.
LEMMA WalkDown ==
    /\ Public \subseteq Existing
    /\ Public = {c \in Existing : category[c].active /\ category[c].parent \in {NoParent} \cup Public}
<1> DEFINE N == Cardinality(Categories)
           D == SUBSET Existing
           Seen(X) == {c \in Existing : category[c].active /\ category[c].parent \in {NoParent} \cup X}
           a == Seen({})
           G == [X \in SUBSET Existing |-> Seen(X)]
           Walks(f) == f = [n \in 0 .. N |->
                             {c \in Existing :
                                /\ category[c].active
                                /\ category[c].parent \in
                                     IF n = 0 THEN {NoParent} ELSE {NoParent} \cup f[n - 1]}]
           down == CHOOSE f : Walks(f)
<1>1. /\ a \in D /\ G \in [D -> D] /\ a \subseteq G[a]
      /\ \A X, Y \in SUBSET Existing : X \subseteq Y => G[X] \subseteq G[Y]
  OBVIOUS
<1>2. N \in Nat /\ Cardinality(Existing) <= N /\ IsFiniteSet(Existing)
  BY ExistingFinite
<1>3. Public = down[N]
  BY DEF Public
<1>4. \A f, n : {c \in Existing :
                    /\ category[c].active
                    /\ category[c].parent \in IF n = 0 THEN {NoParent} ELSE {NoParent} \cup f[n - 1]}
                = IF n = 0 THEN a ELSE Seen(f[n - 1])
  OBVIOUS
<1>5. \A X \in SUBSET Existing : G[X] = Seen(X)
  OBVIOUS
<1> HIDE DEF N, D, a, G, Seen
<1>6. \E f : Walks(f)
  <2>0. a \in D /\ G \in [D -> D] /\ N \in Nat
    BY <1>1, <1>2
  <2>1. PICK f : f \in [0 .. N -> D] /\ Iteration(f, a, G, N)
    BY <2>0, Iterated, Zenon
  <2> HIDE DEF Walks
  <2>4. f = [n \in 0 .. N |-> IF n = 0 THEN a ELSE G[f[n - 1]]]
    <3>1. f = [n \in 0 .. N |-> f[n]] /\ \A n \in 0 .. N : n # 0 => n \in 1 .. N
      BY <2>0, <2>1
    <3>2. \A n \in 0 .. N : f[n] = IF n = 0 THEN a ELSE G[f[n - 1]]
      BY <2>1, <3>1 DEF Iteration
    <3> QED  BY <3>1, <3>2
  <2>2. \A n \in 0 .. N : n # 0 => G[f[n - 1]] = Seen(f[n - 1])
    <3>1. \A n \in 0 .. N : n # 0 => n - 1 \in 0 .. N
      BY <2>0
    <3> QED  BY <1>2, <1>5, <2>1, <3>1 DEF D
  <2>3. f = [n \in 0 .. N |-> IF n = 0 THEN a ELSE Seen(f[n - 1])]
    BY <2>2, <2>4
  <2>5. Walks(f)
    <3>1. \A n \in 0 .. N :
            {c \in Existing :
                /\ category[c].active
                /\ category[c].parent \in IF n = 0 THEN {NoParent} ELSE {NoParent} \cup f[n - 1]}
              = IF n = 0 THEN a ELSE Seen(f[n - 1])
      BY <1>4
    <3> QED  BY <2>3, <3>1 DEF Walks
  <2> QED  BY <2>5
<1>7. Walks(down)
  BY <1>6, Zenon
<1> HIDE DEF down
<1>8. down = [n \in 0 .. N |-> IF n = 0 THEN a ELSE Seen(down[n - 1])]
  BY <1>4, <1>7
<1> HIDE DEF Walks
<1>9. down[0] = a /\ \A n \in 1 .. N : down[n] = Seen(down[n - 1])
  BY <1>2, <1>8
<1>10. \A n \in 0 .. N : down[n] \in SUBSET Existing
  <2>1. \A X : Seen(X) \subseteq Existing
    BY DEF Seen
  <2> QED  BY <1>1, <1>2, <1>9, <2>1 DEF D
<1>11. \A n \in 1 .. N : down[n] = G[down[n - 1]]
  <2> SUFFICES ASSUME NEW n \in 1 .. N PROVE down[n] = G[down[n - 1]]
    OBVIOUS
  <2>1. n - 1 \in 0 .. N
    BY <1>2
  <2> QED  BY <1>5, <1>9, <1>10, <2>1
<1>12. down[N] \in SUBSET Existing /\ G[down[N]] = down[N]
  <2>1. /\ a \in SUBSET Existing /\ G \in [SUBSET Existing -> SUBSET Existing] /\ down[0] = a
        /\ \A X, Y \in SUBSET Existing : X \subseteq Y => G[X] \subseteq G[Y]
    BY <1>1, <1>9 DEF D
  <2>2. Adds(Existing, a, G) /\ Iteration(down, a, G, N)
    BY <1>1, <1>11, <2>1 DEF Adds, Iteration, D
  <2>3. LeastAbove(down[N], Existing, a, G)
    BY <1>2, <2>2, Closure, Zenon
  <2> QED  BY <2>3 DEF LeastAbove
<1> QED  BY <1>3, <1>5, <1>12 DEF Seen

\* Above every category there are only categories, none above itself; so
\* there is a topmost one among those a customer should see and does not.
LEMMA PublicAbove ==
    ASSUME CatalogInv
    PROVE  PublicIsActiveAbove
<1> USE DEF CatalogInv
<1> SUFFICES ASSUME NEW c \in Existing
             PROVE  c \in Public <=> category[c].active /\ \A d \in AncestorsFrom(category[c].parent) :
                                                              category[d].active
  BY DEF PublicIsActiveAbove
<1> DEFINE A == AncestorsFrom(category[c].parent)
<1>1. category[c].parent \in Existing \cup {NoParent}
  BY DEF ParentsExist
<1>2. /\ A \subseteq Existing /\ {category[c].parent} \ {NoParent} \subseteq A
      /\ ParentsOf(A) \subseteq A
      /\ \A Y \in SUBSET Existing :
           {category[c].parent} \ {NoParent} \subseteq Y /\ ParentsOf(Y) \subseteq Y => A \subseteq Y
  BY <1>1, WalkUp
<1> HIDE DEF A
<1>3. ASSUME c \in Public
      PROVE  category[c].active /\ \A d \in A : category[d].active
  <2>1. category[c].active /\ category[c].parent \in {NoParent} \cup Public
    BY <1>3, WalkDown
  <2>2. ParentsOf(Public) \subseteq Public /\ Public \in SUBSET Existing
    BY WalkDown DEF ParentsOf
  <2>3. A \subseteq Public
    BY <1>2, <2>1, <2>2
  <2> QED  BY <2>1, <2>3, WalkDown
<1>4. ASSUME category[c].active, \A d \in A : category[d].active
      PROVE  c \in Public
  <2> SUFFICES ASSUME c \notin Public PROVE FALSE
    OBVIOUS
  <2> DEFINE B == ({c} \cup A) \ Public
  <2>1. \A d \in B : d \in Existing /\ category[d].active
    BY <1>2, <1>4
  <2>2. ASSUME NEW d \in B PROVE category[d].parent \in B
    <3>1. category[d].parent \notin {NoParent} \cup Public
      BY <2>1, <2>2, WalkDown
    <3>2. category[d].parent \in A
      BY <1>2, <3>1, <2>2 DEF ParentsOf
    <3> QED  BY <3>1, <3>2
  <2>3. B \in (SUBSET Existing) \ {{}}
    BY <2>1
  <2> HIDE DEF B
  <2> QED  BY <2>2, <2>3 DEF NoCycle
<1> QED  BY <1>3, <1>4 DEF A

-----------------------------------------------------------------------------
(* The tree of categories. *)

TreeSound == category \in [Categories -> CategoryRow \cup {NoRow}] /\ ParentsExist /\ NoCycle

\* No parent changes.
LEMMA SameTree ==
    ASSUME TreeSound, category' \in [Categories -> CategoryRow \cup {NoRow}],
           Existing' = Existing, \A c \in Existing : category'[c].parent = category[c].parent
    PROVE  TreeSound'
<1>1. ParentsExist'
  BY DEF TreeSound, ParentsExist
<1>2. NoCycle'
  <2> SUFFICES ASSUME NEW S \in (SUBSET Existing) \ {{}}
               PROVE  \E c \in S : category'[c].parent \notin S
    BY DEF NoCycle
  <2>1. PICK c \in S : category[c].parent \notin S
    BY DEF TreeSound, NoCycle
  <2> QED  BY <2>1
<1> QED  BY <1>1, <1>2 DEF TreeSound

\* A new category has no children.
LEMMA TreeGrows ==
    ASSUME TreeSound, NEW c \in Categories, category[c] = NoRow,
           NEW parent \in Existing \cup {NoParent},
           category' = [category EXCEPT ![c] = [parent |-> parent, count |-> 0, active |-> TRUE]]
    PROVE  TreeSound' /\ Existing' = Existing \cup {c}
           /\ \A d \in Existing : category'[d] = category[d]
<1>1. c \notin Existing /\ Existing \subseteq Categories
  BY DEF Existing
<1>2. [parent |-> parent, count |-> 0, active |-> TRUE] \in CategoryRow
  BY <1>1 DEF CategoryRow
<1>3. /\ category' \in [Categories -> CategoryRow \cup {NoRow}]
      /\ category'[c] # NoRow /\ category'[c].parent = parent
      /\ \A d \in Categories \ {c} : category'[d] = category[d]
  BY <1>2, CatalogAssumption DEF TreeSound
<1>4. Existing' = Existing \cup {c}
  BY <1>3 DEF Existing
<1>5. ParentsExist'
  BY <1>1, <1>3, <1>4 DEF TreeSound, ParentsExist
<1>6. NoCycle'
  <2> SUFFICES ASSUME NEW S \in (SUBSET (Existing \cup {c})) \ {{}},
                      \A d \in S : category'[d].parent \in S
               PROVE  FALSE
    BY <1>4 DEF NoCycle
  <2>1. \A d \in Existing : category[d].parent # c
    BY <1>1, CatalogAssumption DEF TreeSound, ParentsExist
  <2>2. S \ {c} # {}
    <3> SUFFICES ASSUME S = {c} PROVE FALSE
      OBVIOUS
    <3> QED  BY <1>1, <1>3, CatalogAssumption
  <2>3. \A d \in S \ {c} : category[d].parent \in S \ {c}
    BY <1>1, <1>3, <2>1
  <2>4. S \ {c} \in (SUBSET Existing) \ {{}}
    BY <2>2
  <2> QED  BY <2>3, <2>4 DEF TreeSound, NoCycle
<1> QED  BY <1>1, <1>3, <1>4, <1>5, <1>6 DEF TreeSound

\* A category goes below one that it is not above.
LEMMA TreeMoves ==
    ASSUME TreeSound, NEW c \in Existing, NEW parent, MayMove(c, parent),
           category' = [category EXCEPT ![c].parent = parent]
    PROVE  TreeSound' /\ Existing' = Existing
           /\ \A d \in Existing : category'[d].count = category[d].count
<1>1. c \in Categories /\ Existing \subseteq Categories /\ category[c] \in CategoryRow
      /\ parent \in Existing \cup {NoParent}
  BY DEF Existing, TreeSound, MayMove
<1> DEFINE record == [category[c] EXCEPT !.parent = parent]
<1>2. record \in CategoryRow /\ record.parent = parent /\ record.count = category[c].count
  BY <1>1 DEF CategoryRow
<1>3. category' = [category EXCEPT ![c] = record]
  BY <1>1 DEF TreeSound
<1> HIDE DEF record
<1>4. /\ category' \in [Categories -> CategoryRow \cup {NoRow}] /\ category'[c] = record
      /\ \A d \in Categories \ {c} : category'[d] = category[d]
  BY <1>1, <1>2, <1>3 DEF TreeSound
<1>5. Existing' = Existing
  BY <1>1, <1>2, <1>4, CatalogAssumption DEF Existing
<1>6. ParentsExist'
  BY <1>1, <1>2, <1>4, <1>5 DEF TreeSound, ParentsExist
<1>7. NoCycle'
  <2> SUFFICES ASSUME NEW S \in (SUBSET Existing) \ {{}}, \A d \in S : category'[d].parent \in S
               PROVE  FALSE
    BY <1>5 DEF NoCycle
  <2>1. CASE c \notin S
    BY <1>1, <1>4, <2>1 DEF TreeSound, NoCycle
  <2>2. CASE c \in S
    <3> DEFINE A == AncestorsFrom(parent)
    <3>1. parent \in S /\ parent # NoParent
      BY <1>1, <1>2, <1>4, <2>2, CatalogAssumption
    <3>2. A \subseteq Existing /\ parent \in A /\ ParentsOf(A) \subseteq A /\ c \notin A
      BY <1>1, <3>1, WalkUp DEF TreeSound, MayMove
    <3> HIDE DEF A
    <3>3. ASSUME NEW d \in S \cap A PROVE category[d].parent \in S \cap A
      <4>1. category[d].parent \in S
        BY <1>1, <1>4, <3>2
      <4>2. category[d].parent # NoParent
        BY <1>1, <4>1, CatalogAssumption
      <4> QED  BY <3>2, <4>1, <4>2 DEF ParentsOf
    <3>4. S \cap A \in (SUBSET Existing) \ {{}}
      BY <3>1, <3>2
    <3> QED  BY <3>3, <3>4 DEF TreeSound, NoCycle
  <2> QED  BY <2>1, <2>2
<1> QED  BY <1>1, <1>2, <1>4, <1>5, <1>6, <1>7 DEF TreeSound

\* A category without children goes.
LEMMA TreeShrinks ==
    ASSUME TreeSound, NEW c \in Existing, \A d \in Existing : category[d].parent # c,
           category' = [category EXCEPT ![c] = NoRow]
    PROVE  TreeSound' /\ Existing' = Existing \ {c}
           /\ \A d \in Existing' : category'[d] = category[d]
<1>1. c \in Categories /\ Existing \subseteq Categories
  BY DEF Existing
<1>2. /\ category' \in [Categories -> CategoryRow \cup {NoRow}] /\ category'[c] = NoRow
      /\ \A d \in Categories \ {c} : category'[d] = category[d]
  BY <1>1 DEF TreeSound
<1>3. Existing' = Existing \ {c}
  BY <1>1, <1>2 DEF Existing
<1>4. \A d \in Existing \ {c} : category'[d] = category[d]
  BY <1>1, <1>2
<1>5. ParentsExist'
  BY <1>3, <1>4 DEF TreeSound, ParentsExist
<1>6. NoCycle'
  BY <1>3, <1>4 DEF TreeSound, NoCycle
<1> QED  BY <1>2, <1>3, <1>4, <1>5, <1>6 DEF TreeSound

-----------------------------------------------------------------------------
(* The counts. *)

LEMMA ProductsFinite ==
    \A c : IsFiniteSet(ProductsOf(c)) /\ Cardinality(ProductsOf(c)) \in Nat
<1> SUFFICES ASSUME NEW c PROVE IsFiniteSet(ProductsOf(c)) /\ Cardinality(ProductsOf(c)) \in Nat
  OBVIOUS
<1>1. ProductsOf(c) \subseteq Products
  BY DEF ProductsOf, Offered
<1> DEFINE S == ProductsOf(c)
<1> HIDE DEF S
<1>2. IsFiniteSet(S) /\ Cardinality(S) \in Nat
  BY <1>1, CatalogAssumption, FS_Subset, FS_CardinalityType DEF S
<1> QED  BY <1>2 DEF S

\* A set with one member more, or fewer.
LEMMA OneMore ==
    ASSUME NEW S, IsFiniteSet(S), NEW x, x \notin S
    PROVE  Cardinality(S \cup {x}) = Cardinality(S) + 1
BY FS_AddElement

LEMMA OneFewer ==
    ASSUME NEW S, IsFiniteSet(S), NEW x, x \in S
    PROVE  Cardinality(S) \in Nat \ {0} /\ Cardinality(S \ {x}) = Cardinality(S) - 1
<1>1. IsFiniteSet(S \ {x}) /\ Cardinality(S \ {x}) = Cardinality(S) - 1
  BY FS_RemoveElement
<1>2. Cardinality(S) \in Nat /\ Cardinality(S \ {x}) \in Nat
  BY <1>1, FS_CardinalityType
<1> QED  BY <1>1, <1>2

LEMMA SameCounts ==
    ASSUME CountsRight, Existing \subseteq Existing',
           \A c \in Existing : category'[c].count = category[c].count,
           \A c \in Existing' \ Existing : category'[c].count = 0,
           Offered' = Offered, \A p \in Offered : product'[p].category = product[p].category
    PROVE  CountsRight'
<1>1. \A c : ProductsOf(c)' = ProductsOf(c)
  BY DEF ProductsOf
<1>2. \A c \in Existing' \ Existing : ProductsOf(c) = {}
  BY DEF CountsRight, ProductsOf
<1>3. Cardinality({}) = 0
  BY FS_EmptySet
<1> QED  BY <1>1, <1>2, <1>3 DEF CountsRight

\* A category without products goes.
LEMMA CountsWithout ==
    ASSUME CountsRight, NEW c \in Existing, ProductsOf(c) = {}, Existing' = Existing \ {c},
           \A d \in Existing' : category'[d] = category[d], product' = product
    PROVE  CountsRight'
<1>1. Offered' = Offered /\ \A d : ProductsOf(d)' = ProductsOf(d)
  BY DEF ProductsOf, Offered
<1>2. \A p \in Offered : product[p].category \in Existing \ {c}
  BY DEF CountsRight, ProductsOf
<1> QED  BY <1>1, <1>2 DEF CountsRight

\* What changes of the counts, category by category.
CountIs(c, n) == category'[c].count = n
Less(n) == IF n = 0 THEN 0 ELSE n - 1

LEMMA CountsAdd ==
    ASSUME CountsRight, Existing' = Existing, NEW c \in Existing, NEW p, p \notin Offered,
           Offered' = Offered \cup {p}, product'[p].category = c,
           \A q \in Offered : product'[q] = product[q],
           CountIs(c, category[c].count + 1),
           \A d \in Existing \ {c} : CountIs(d, category[d].count)
    PROVE  CountsRight'
<1>1. p \notin ProductsOf(c) /\ ProductsOf(c)' = ProductsOf(c) \cup {p}
  BY DEF ProductsOf
<1>2. \A d \in Existing \ {c} : ProductsOf(d)' = ProductsOf(d)
  BY DEF ProductsOf
<1>3. Cardinality(ProductsOf(c) \cup {p}) = Cardinality(ProductsOf(c)) + 1
  BY <1>1, ProductsFinite, OneMore
<1> QED  BY <1>1, <1>2, <1>3 DEF CountsRight, CountIs

LEMMA CountsDrop ==
    ASSUME CountsRight, Existing' = Existing, NEW p \in Offered, NEW c, c = product[p].category,
           Offered' = Offered \ {p}, \A q \in Offered' : product'[q] = product[q],
           CountIs(c, Less(category[c].count)),
           \A d \in Existing \ {c} : CountIs(d, category[d].count)
    PROVE  CountsRight'
<1>1. p \in ProductsOf(c) /\ ProductsOf(c)' = ProductsOf(c) \ {p} /\ c \in Existing
  BY DEF ProductsOf, CountsRight
<1>2. \A d \in Existing \ {c} : ProductsOf(d)' = ProductsOf(d)
  BY DEF ProductsOf
<1>3. /\ Cardinality(ProductsOf(c)) \in Nat \ {0}
      /\ Cardinality(ProductsOf(c) \ {p}) = Cardinality(ProductsOf(c)) - 1
  BY <1>1, ProductsFinite, OneFewer
<1>4. \A x \in Existing : category'[x].count = Cardinality(ProductsOf(x)')
  <2> SUFFICES ASSUME NEW x \in Existing
               PROVE  category'[x].count = Cardinality(ProductsOf(x)')
    OBVIOUS
  <2>1. CASE x = c
    BY <1>1, <1>3, <2>1 DEF CountsRight, CountIs, Less
  <2>2. CASE x # c
    BY <1>2, <2>2 DEF CountsRight, CountIs
  <2> QED  BY <2>1, <2>2
<1> QED  BY <1>4 DEF CountsRight

LEMMA CountsShift ==
    ASSUME CountsRight, Existing' = Existing, NEW p \in Offered, NEW c, c = product[p].category,
           NEW d \in Existing \ {c},
           Offered' = Offered, product'[p].category = d,
           \A q \in Offered \ {p} : product'[q] = product[q],
           CountIs(c, Less(category[c].count)), CountIs(d, category[d].count + 1),
           \A x \in Existing \ {c, d} : CountIs(x, category[x].count)
    PROVE  CountsRight'
<1>1. p \in ProductsOf(c) /\ ProductsOf(c)' = ProductsOf(c) \ {p} /\ c \in Existing
  BY DEF ProductsOf, CountsRight
<1>2. p \notin ProductsOf(d) /\ ProductsOf(d)' = ProductsOf(d) \cup {p}
  BY DEF ProductsOf
<1>3. \A x \in Existing \ {c, d} : ProductsOf(x)' = ProductsOf(x)
  BY DEF ProductsOf
<1>4. /\ Cardinality(ProductsOf(c)) \in Nat \ {0}
      /\ Cardinality(ProductsOf(c) \ {p}) = Cardinality(ProductsOf(c)) - 1
  BY <1>1, ProductsFinite, OneFewer
<1>5. Cardinality(ProductsOf(d) \cup {p}) = Cardinality(ProductsOf(d)) + 1
  BY <1>2, ProductsFinite, OneMore
<1>6. \A x \in Existing : category'[x].count = Cardinality(ProductsOf(x)')
  <2> SUFFICES ASSUME NEW x \in Existing
               PROVE  category'[x].count = Cardinality(ProductsOf(x)')
    OBVIOUS
  <2>1. CASE x = c
    BY <1>1, <1>4, <2>1 DEF CountsRight, CountIs, Less
  <2>2. CASE x = d
    BY <1>2, <1>5, <2>2 DEF CountsRight, CountIs
  <2>3. CASE x \notin {c, d}
    BY <1>3, <2>3 DEF CountsRight, CountIs
  <2> QED  BY <2>1, <2>2, <2>3
<1> QED  BY <1>6 DEF CountsRight

-----------------------------------------------------------------------------
(* The photographs. *)

LEMMA GalleryIs ==
    ASSUME CatalogShape, NEW p
    PROVE  /\ Gallery(p) \subseteq Images /\ IsFiniteSet(Gallery(p)) /\ Cardinality(Gallery(p)) \in Nat
           /\ \A i \in Gallery(p) : image[i] \in ImageRow /\ image[i].product = p
<1>1. Gallery(p) \subseteq Images
  BY DEF Gallery
<1>2. IsFiniteSet(Gallery(p)) /\ Cardinality(Gallery(p)) \in Nat
  <2> DEFINE S == Gallery(p)
  <2> HIDE DEF S
  <2>1. IsFiniteSet(S) /\ Cardinality(S) \in Nat
    BY <1>1, CatalogAssumption, FS_Subset, FS_CardinalityType DEF S
  <2> QED  BY <2>1 DEF S
<1>3. \A i \in Gallery(p) : image[i] \in ImageRow /\ image[i].product = p
  BY DEF Gallery, CatalogShape
<1> QED  BY <1>1, <1>2, <1>3

Numbered(p) == {image[i].order : i \in Gallery(p)} = 0 .. Cardinality(Gallery(p)) - 1
OneMain(p) ==
    Gallery(p) # {} => \E m \in Gallery(p) : \A i \in Gallery(p) : image[i].main <=> i = m

LEMMA OnlyOne ==
    ASSUME NEW S, IsFiniteSet(S)
    PROVE  Cardinality(S) = 1 <=> \E m : S = {m}
BY FS_Singleton

AllTidy == \A p \in Offered : Numbered(p) /\ OneMain(p)
LEMMA TidyIs == CatalogShape => (GalleriesTidy <=> AllTidy)
<1> SUFFICES ASSUME CatalogShape, NEW p \in Offered
             PROVE  (Gallery(p) # {} => Cardinality({i \in Gallery(p) : image[i].main}) = 1)
                      <=> OneMain(p)
  BY DEF GalleriesTidy, AllTidy, Numbered
<1> DEFINE G == Gallery(p)
           M == {i \in G : image[i].main}
<1>1. IsFiniteSet(G) /\ M \subseteq G
  BY GalleryIs
<1>2. IsFiniteSet(M)
  <2> HIDE DEF M, G
  <2> QED  BY <1>1, FS_Subset
<1>3. Cardinality(M) = 1 <=> \E m : M = {m}
  <2> HIDE DEF M
  <2> QED  BY <1>2, OnlyOne
<1>4. ASSUME NEW m, M = {m} PROVE m \in G /\ \A i \in G : image[i].main <=> i = m
  BY <1>4
<1>5. ASSUME NEW m \in G, \A i \in G : image[i].main <=> i = m PROVE M = {m}
  BY <1>5
<1> HIDE DEF M
<1> QED  BY <1>3, <1>4, <1>5 DEF OneMain, G, M

\* A gallery none of whose rows changes.
LEMMA SameGallery ==
    ASSUME NEW p, Gallery(p)' = Gallery(p), \A i \in Gallery(p) : image'[i] = image[i],
           Numbered(p) /\ OneMain(p)
    PROVE  (Numbered(p) /\ OneMain(p))'
BY DEF Numbered, OneMain

\* A new product has no photographs.
LEMMA SameGalleries ==
    ASSUME CatalogShape, CatalogShape', PhotosBelong, GalleriesTidy, image' = image,
           Offered \subseteq Offered'
    PROVE  PhotosBelong' /\ GalleriesTidy'
<1>1. PhotosBelong' /\ \A p : Gallery(p)' = Gallery(p)
  BY DEF PhotosBelong, Gallery
<1>2. \A p \in Offered : Numbered(p) /\ OneMain(p)
  BY TidyIs DEF AllTidy
<1>3. ASSUME NEW p \in Offered' PROVE (Numbered(p) /\ OneMain(p))'
  <2>1. CASE p \in Offered
    BY <1>1, <1>2, <2>1, SameGallery
  <2>2. CASE p \notin Offered
    <3>1. Gallery(p) = {}
      BY <2>2 DEF PhotosBelong, Gallery
    <3>2. Cardinality({}) = 0
      BY FS_EmptySet
    <3> QED  BY <1>1, <3>1, <3>2 DEF Numbered, OneMain
  <2> QED  BY <2>1, <2>2
<1>4. GalleriesTidy' <=> AllTidy'
  BY TidyIs, PTL
<1> QED  BY <1>1, <1>3, <1>4 DEF AllTidy

\* The photographs of one product change.
LEMMA GalleryOf ==
    ASSUME CatalogShape, CatalogShape', PhotosBelong, GalleriesTidy, NEW p \in Products,
           \A i \in Images : image'[i] # image[i] =>
             /\ image[i] = NoRow \/ image[i].product = p
             /\ image'[i] = NoRow \/ image'[i].product = p,
           Offered \ {p} = Offered' \ {p},
           p \in Offered' => (Numbered(p) /\ OneMain(p))',
           p \notin Offered' => Gallery(p)' = {}
    PROVE  PhotosBelong' /\ GalleriesTidy'
<1>1. PhotosBelong'
  <2> SUFFICES ASSUME NEW i \in Images, image'[i] # NoRow
               PROVE  image'[i].product \in Offered'
    BY DEF PhotosBelong
  <2>1. CASE image'[i] = image[i] /\ image[i].product # p
    BY <2>1 DEF PhotosBelong
  <2>2. CASE image'[i].product = p
    BY <2>2 DEF Gallery
  <2> QED  BY <2>1, <2>2
<1>2. ASSUME NEW q \in Offered' \ {p} PROVE (Numbered(q) /\ OneMain(q))'
  <2>1. Gallery(q)' = Gallery(q) /\ \A i \in Gallery(q) : image'[i] = image[i]
    BY DEF Gallery
  <2>2. Numbered(q) /\ OneMain(q)
    BY TidyIs DEF AllTidy
  <2> QED  BY <2>1, <2>2, SameGallery
<1>3. AllTidy'
  BY <1>2 DEF AllTidy
<1>4. GalleriesTidy' <=> AllTidy'
  BY TidyIs, PTL
<1> QED  BY <1>1, <1>3, <1>4

\* The rows of a gallery, in the order they are read in.
LEMMA Places ==
    ASSUME NEW S \in SUBSET Images, IsFiniteSet(S), \A i \in S : image[i] \in ImageRow
    PROVE  /\ \A x \in S : Place(x, S) \in 0 .. Cardinality(S) - 1
           /\ \A x, y \in S : Place(x, S) = Place(y, S) => x = y
           /\ \A n \in 0 .. Cardinality(S) - 1 : \E x \in S : Place(x, S) = n
           /\ S # {} => First(S) \in S
<1> DEFINE R == {e \in S \X S : Before(e[1], e[2])}
<1>1. \A i \in S : i \in Nat /\ image[i].order \in Nat
  BY CatalogAssumption DEF ImageRow
<1>2. \A i, j \in S : <<i, j>> \in R <=> Before(i, j)
  OBVIOUS
<1> HIDE DEF R
<1>3. \A x, y, z \in S : /\ ~Before(x, x) /\ (Before(x, y) /\ Before(y, z) => Before(x, z))
                         /\ (x # y => Before(x, y) \/ Before(y, x))
  BY <1>1 DEF Before
<1>4. StrictOrder(S, R)
  BY <1>2, <1>3 DEF StrictOrder
<1>5. \A x \in S : Place(x, S) = RankIn(x, S, R)
  <2> SUFFICES ASSUME NEW x \in S PROVE {j \in S : Before(j, x)} = {j \in S : <<j, x>> \in R}
    BY DEF Place, RankIn
  <2> QED  BY <1>2
<1>6. /\ \A x \in S : RankIn(x, S, R) \in 0 .. Cardinality(S) - 1
      /\ \A x, y \in S : RankIn(x, S, R) = RankIn(y, S, R) => x = y
      /\ \A n \in 0 .. Cardinality(S) - 1 : \E x \in S : RankIn(x, S, R) = n
  BY <1>4, Ranks
<1>7. ASSUME S # {} PROVE First(S) \in S
  <2>1. Cardinality(S) \in Nat \ {0}
    BY <1>7, FS_EmptySet, FS_CardinalityType
  <2>2. \E x \in S : Place(x, S) = 0
    BY <1>5, <1>6, <2>1
  <2> QED  BY <2>2, Zenon DEF First
<1> QED  BY <1>5, <1>6, <1>7

LEMMA NumberPlaces ==
    ASSUME NEW S, IsFiniteSet(S), S \subseteq Nat
    PROVE  LET number(i) == Cardinality({j \in S : j < i})
           IN  /\ \A x \in S : number(x) \in 0 .. Cardinality(S) - 1
               /\ \A x, y \in S : number(x) = number(y) => x = y
               /\ \A n \in 0 .. Cardinality(S) - 1 : \E x \in S : number(x) = n
<1> DEFINE R == {e \in S \X S : e[1] < e[2]}
           number(i) == Cardinality({j \in S : j < i})
<1>2. \A i, j \in S : <<i, j>> \in R <=> i < j
  OBVIOUS
<1> HIDE DEF R
<1>3. \A x, y, z \in S : /\ ~(x < x) /\ (x < y /\ y < z => x < z)
                         /\ (x # y => x < y \/ y < x)
  OBVIOUS
<1>4. StrictOrder(S, R)
  BY <1>2, <1>3 DEF StrictOrder
<1>5. \A x \in S : number(x) = RankIn(x, S, R)
  <2> SUFFICES ASSUME NEW x \in S PROVE {j \in S : j < x} = {j \in S : <<j, x>> \in R}
    BY DEF RankIn
  <2> QED  BY <1>2
<1>6. /\ \A x \in S : RankIn(x, S, R) \in 0 .. Cardinality(S) - 1
      /\ \A x, y \in S : RankIn(x, S, R) = RankIn(y, S, R) => x = y
      /\ \A n \in 0 .. Cardinality(S) - 1 : \E x \in S : RankIn(x, S, R) = n
  BY <1>4, Ranks
<1> QED  BY <1>5, <1>6

\* A photograph more, at the end; the first one is the main one.
LEMMA GalleryGrows ==
    ASSUME CatalogInv, CatalogShape', NEW p \in Offered, NEW i \in Images, image[i] = NoRow,
           image' = [image EXCEPT ![i] = [product |-> p, order |-> Cardinality(Gallery(p)),
                                          main |-> \A j \in Gallery(p) : ~image[j].main]]
    PROVE  /\ Gallery(p)' = Gallery(p) \cup {i}
           /\ (Numbered(p) /\ OneMain(p))'
           /\ \A j \in Images \ {i} : image'[j] = image[j]
<1> DEFINE G == Gallery(p)
           n == Cardinality(G)
           first == \A j \in G : ~image[j].main
<1>1. /\ G \subseteq Images /\ IsFiniteSet(G) /\ n \in Nat /\ i \notin G
      /\ Numbered(p) /\ OneMain(p)
  BY GalleryIs, TidyIs DEF CatalogInv, AllTidy, Gallery
<1>2. /\ image'[i] = [product |-> p, order |-> n, main |-> first]
      /\ \A j \in Images \ {i} : image'[j] = image[j]
  BY DEF CatalogInv, CatalogShape
<1>3. [product |-> p, order |-> n, main |-> first] \in ImageRow
  BY <1>1 DEF ImageRow, Offered
<1>4. Gallery(p)' = G \cup {i}
  <2>1. image'[i] # NoRow /\ image'[i].product = p
    <3>1. image'[i] \in ImageRow
      BY <1>2, <1>3, Zenon
    <3>2. image'[i].product = p
      <4>1. image'[i] = [product |-> p, order |-> n, main |-> first]
        BY <1>2
      <4> HIDE DEF n, first
      <4> QED  BY <4>1
    <3>3. \A x \in ImageRow : x # NoRow
      BY CatalogAssumption
    <3> QED  BY <3>1, <3>2, <3>3, Zenon
  <2>2. \A j \in Images : image'[j] # NoRow /\ image'[j].product = p <=> j \in G \cup {i}
    <3>1. \A j \in Images : j \in G <=> image[j] # NoRow /\ image[j].product = p
      BY DEF Gallery
    <3> HIDE DEF G
    <3> QED  BY <1>2, <2>1, <3>1
  <2>3. Gallery(p)' = {j \in Images : image'[j] # NoRow /\ image'[j].product = p}
    BY DEF Gallery
  <2> HIDE DEF G
  <2> QED  BY <1>1, <2>2, <2>3
<1>5. Cardinality(G \cup {i}) = n + 1
  BY <1>1, OneMore
<1>6. {image'[j].order : j \in G \cup {i}} = 0 .. n
  <2>1. {image[j].order : j \in G} = 0 .. n - 1
    BY <1>1 DEF Numbered
  <2>2. \A j \in G : image'[j] = image[j]
    BY <1>1, <1>2
  <2>3. {image'[j].order : j \in G \cup {i}} = {image[j].order : j \in G} \cup {n}
    BY <1>2, <2>2
  <2> HIDE DEF G, n
  <2> QED  BY <1>1, <2>1, <2>3
<1>7. Numbered(p)'
  BY <1>1, <1>4, <1>5, <1>6 DEF Numbered
<1>8. OneMain(p)'
  <2> SUFFICES \E m \in G \cup {i} : \A j \in G \cup {i} : image'[j].main <=> j = m
    BY <1>4 DEF OneMain
  <2>1. image'[i].main <=> first
    BY <1>2
  <2>2. \A j \in G : image'[j] = image[j]
    BY <1>1, <1>2
  <2>3. CASE G = {}
    <3>1. first
      BY <2>3
    <3> HIDE DEF first, G
    <3> QED  BY <2>1, <2>3, <3>1
  <2>4. CASE G # {}
    <3>1. PICK m \in G : \A j \in G : image[j].main <=> j = m
      BY <1>1, <2>4 DEF OneMain
    <3>2. ~first
      BY <3>1
    <3> HIDE DEF first, G
    <3>3. \A j \in G \cup {i} : image'[j].main <=> j = m
      BY <1>1, <2>1, <2>2, <3>1, <3>2
    <3> QED  BY <3>1, <3>3
  <2> QED  BY <2>3, <2>4
<1> QED  BY <1>2, <1>4, <1>7, <1>8

\* Photographs are put in a new order.
LEMMA Renumbered ==
    ASSUME NEW G, NEW n, {image'[j].order : j \in G} = 0 .. n - 1, Cardinality(G) = n,
           NEW p, Gallery(p)' = G
    PROVE  Numbered(p)'
BY DEF Numbered

\* One goes to another place, and may become or cease to be the main one.
LEMMA GalleryReordered ==
    ASSUME CatalogInv, NEW p \in Offered, NEW e \in Editors, NEW i \in Images,
           NEW main \in BOOLEAN, NEW sort \in Nat, SetImage(e, p, i, main, sort)
    PROVE  /\ image' \in [Images -> ImageRow \cup {NoRow}]
           /\ Gallery(p)' = Gallery(p)
           /\ (Numbered(p) /\ OneMain(p))'
           /\ \A j \in Images \ Gallery(p) : image'[j] = image[j]
<1> DEFINE G == Gallery(p)
           others == G \ {i}
           place == Lesser(sort, Cardinality(others))
           chosen == IF main THEN i ELSE IF others = {} THEN i ELSE First(others)
           PlaceOf(j) == IF j = i THEN place
                         ELSE Place(j, others) + (IF Place(j, others) < place THEN 0 ELSE 1)
           new(j) == IF main \/ image[i].main THEN j = chosen ELSE image[j].main
           n == Cardinality(G)
<1>1. /\ G \subseteq Images /\ IsFiniteSet(G) /\ n \in Nat /\ i \in G
      /\ \A j \in G : image[j] \in ImageRow /\ image[j].product = p
      /\ Numbered(p) /\ OneMain(p)
  BY GalleryIs, TidyIs DEF CatalogInv, AllTidy, SetImage
<1>2. image' = [j \in Images |-> IF j \notin G THEN image[j]
                                 ELSE [product |-> p, order |-> PlaceOf(j), main |-> new(j)]]
  BY DEF SetImage
<1>3. /\ IsFiniteSet(others) /\ Cardinality(others) = n - 1 /\ n - 1 \in Nat
      /\ n \in Nat /\ others \in SUBSET Images /\ \A j \in others : image[j] \in ImageRow
  <2>1. others \in SUBSET Images /\ \A j \in others : image[j] \in ImageRow
    BY <1>1
  <2> HIDE DEF G
  <2>2. IsFiniteSet(others) /\ Cardinality(others) = n - 1 /\ n \in Nat \ {0}
    BY <1>1, OneFewer, FS_RemoveElement
  <2> QED  BY <2>1, <2>2
<1>4. /\ \A x \in others : Place(x, others) \in 0 .. n - 2
      /\ \A m \in 0 .. n - 2 : \E x \in others : Place(x, others) = m
      /\ others # {} => First(others) \in others
  <2> DEFINE S == others
  <2>1. S \in SUBSET Images /\ IsFiniteSet(S) /\ \A j \in S : image[j] \in ImageRow
    BY <1>3
  <2>2. Cardinality(S) - 1 = n - 2
    BY <1>1, <1>3
  <2> HIDE DEF S, n
  <2>3. /\ \A x \in S : Place(x, S) \in 0 .. Cardinality(S) - 1
        /\ \A m \in 0 .. Cardinality(S) - 1 : \E x \in S : Place(x, S) = m
        /\ S # {} => First(S) \in S
    BY <2>1, Places
  <2>4. /\ \A x \in S : Place(x, S) \in 0 .. n - 2
        /\ \A m \in 0 .. n - 2 : \E x \in S : Place(x, S) = m
        /\ S # {} => First(S) \in S
    BY <2>2, <2>3
  <2> QED  BY <2>4 DEF S
<1>5. place \in 0 .. n - 1 /\ chosen \in G
  <2> HIDE DEF n, G
  <2>1. Cardinality(others) = n - 1 /\ n - 1 \in Nat
    BY <1>3
  <2> QED  BY <1>1, <1>4, <2>1 DEF Lesser
<1>6. \A j \in G : PlaceOf(j) \in 0 .. n - 1
  <2> SUFFICES ASSUME NEW j \in G PROVE PlaceOf(j) \in 0 .. n - 1
    OBVIOUS
  <2>1. CASE j = i
    BY <1>5, <2>1
  <2>2. CASE j # i
    <3>1. Place(j, others) \in 0 .. n - 2
      BY <1>4, <2>2
    <3> HIDE DEF others, place, n
    <3> QED  BY <1>3, <1>5, <2>2, <3>1
  <2> QED  BY <2>1, <2>2
<1>7. \A m \in 0 .. n - 1 : \E j \in G : PlaceOf(j) = m
  <2> SUFFICES ASSUME NEW m \in 0 .. n - 1 PROVE \E j \in G : PlaceOf(j) = m
    OBVIOUS
  <2>1. CASE m = place
    BY <1>1, <2>1
  <2>2. CASE m < place
    <3>1. m \in 0 .. n - 2
      <4> HIDE DEF place, n
      <4> QED  BY <1>3, <1>5, <2>2
    <3>2. PICK x \in others : Place(x, others) = m
      BY <1>4, <3>1
    <3> HIDE DEF place, n
    <3> QED  BY <2>2, <3>2
  <2>3. CASE place < m
    <3>1. m - 1 \in 0 .. n - 2 /\ ~(m - 1 < place) /\ (m - 1) + 1 = m
      <4> HIDE DEF place, n
      <4> QED  BY <1>3, <1>5, <2>3
    <3>2. PICK x \in others : Place(x, others) = m - 1
      BY <1>4, <3>1
    <3> HIDE DEF place, n
    <3> QED  BY <3>1, <3>2
  <2>4. m = place \/ m < place \/ place < m
    <3> HIDE DEF place, n
    <3> QED  BY <1>3, <1>5
  <2> QED  BY <2>1, <2>2, <2>3, <2>4
<1> HIDE DEF place, chosen, PlaceOf
<1>8. \A j \in G : new(j) \in BOOLEAN
  BY <1>1 DEF ImageRow
<1> HIDE DEF new
<1>9. \A j \in G : /\ image'[j] \in ImageRow /\ image'[j].product = p
                   /\ image'[j].order = PlaceOf(j) /\ image'[j].main = new(j)
  <2> SUFFICES ASSUME NEW j \in G
               PROVE  /\ image'[j] \in ImageRow /\ image'[j].product = p
                      /\ image'[j].order = PlaceOf(j) /\ image'[j].main = new(j)
    OBVIOUS
  <2> DEFINE x == PlaceOf(j)
             y == new(j)
  <2>1. image'[j] = [product |-> p, order |-> x, main |-> y]
    BY <1>1, <1>2
  <2>2. x \in Nat /\ y \in BOOLEAN /\ p \in Products
    BY <1>1, <1>6, <1>8 DEF Offered
  <2> HIDE DEF x, y
  <2>3. /\ image'[j] \in ImageRow /\ image'[j].product = p
        /\ image'[j].order = x /\ image'[j].main = y
    BY <2>1, <2>2 DEF ImageRow
  <2> QED  BY <2>3 DEF x, y
<1>10. \A j \in Images \ G : image'[j] = image[j]
  BY <1>2
<1>11. image' \in [Images -> ImageRow \cup {NoRow}]
  <2>1. \A j \in Images : image'[j] \in ImageRow \cup {NoRow}
    BY <1>9, <1>10 DEF CatalogInv, CatalogShape
  <2>2. image' = [j \in Images |-> image'[j]]
    BY <1>2
  <2> QED  BY <2>1, <2>2
<1>12. Gallery(p)' = G
  <2>1. \A j \in Images : j \in G <=> image[j] # NoRow /\ image[j].product = p
    BY DEF Gallery
  <2>2. Gallery(p)' = {j \in Images : image'[j] # NoRow /\ image'[j].product = p}
    BY DEF Gallery
  <2>3. \A j \in G : image'[j] # NoRow
    BY <1>9, CatalogAssumption
  <2> HIDE DEF G
  <2> QED  BY <1>1, <1>9, <1>10, <2>1, <2>2, <2>3
<1>13. Numbered(p)'
  <2>1. {image'[j].order : j \in G} = 0 .. n - 1
    <3> HIDE DEF G, n
    <3> QED  BY <1>6, <1>7, <1>9
  <2> QED  BY <1>12, <2>1, Renumbered
<1>14. OneMain(p)'
  <2> SUFFICES \E m \in G : \A j \in G : image'[j].main <=> j = m
    BY <1>12 DEF OneMain
  <2>1. CASE main \/ image[i].main
    <3>1. \A j \in G : image'[j].main <=> j = chosen
      BY <1>9, <2>1 DEF new
    <3> QED  BY <1>5, <3>1
  <2>2. CASE ~(main \/ image[i].main)
    <3>1. PICK m \in G : \A j \in G : image[j].main <=> j = m
      BY <1>1 DEF OneMain
    <3>2. \A j \in G : image'[j].main <=> j = m
      BY <1>9, <2>2, <3>1 DEF new
    <3> QED  BY <3>2
  <2> QED  BY <2>1, <2>2
<1> QED  BY <1>10, <1>11, <1>12, <1>13, <1>14

\* One goes, the others close up; another is the main one if it was.
LEMMA GalleryShrinks ==
    ASSUME CatalogInv, NEW p \in Offered, NEW e \in Editors, NEW i \in Images, DeleteImage(e, p, i)
    PROVE  /\ image' \in [Images -> ImageRow \cup {NoRow}]
           /\ (Numbered(p) /\ OneMain(p))'
           /\ \A j \in Images \ Gallery(p) : image'[j] = image[j]
           /\ \A j \in Gallery(p) : image'[j] = NoRow \/ image'[j].product = p
<1> DEFINE G == Gallery(p)
           others == G \ {i}
           new(j) == IF image[i].main THEN j = First(others) ELSE image[j].main
<1>1. /\ G \subseteq Images /\ IsFiniteSet(G) /\ i \in G
      /\ \A j \in G : image[j] \in ImageRow /\ image[j].product = p
      /\ Numbered(p) /\ OneMain(p)
  BY GalleryIs, TidyIs DEF CatalogInv, AllTidy, DeleteImage
<1>2. image' = [j \in Images |-> IF j = i THEN NoRow ELSE IF j \notin others THEN image[j]
                                 ELSE [product |-> p, order |-> Place(j, others), main |-> new(j)]]
  BY DEF DeleteImage
<1>3. /\ IsFiniteSet(others) /\ others \in SUBSET Images /\ \A j \in others : image[j] \in ImageRow
      /\ Cardinality(others) \in Nat
  <2>1. others \in SUBSET Images /\ \A j \in others : image[j] \in ImageRow
    BY <1>1
  <2> HIDE DEF G
  <2>2. IsFiniteSet(others) /\ Cardinality(others) \in Nat
    BY <1>1, FS_RemoveElement, FS_CardinalityType
  <2> QED  BY <2>1, <2>2
<1>4. /\ \A x \in others : Place(x, others) \in 0 .. Cardinality(others) - 1
      /\ \A m \in 0 .. Cardinality(others) - 1 : \E x \in others : Place(x, others) = m
      /\ others # {} => First(others) \in others
  <2> DEFINE S == others
  <2>1. S \in SUBSET Images /\ IsFiniteSet(S) /\ \A j \in S : image[j] \in ImageRow
    BY <1>3
  <2> HIDE DEF S
  <2>2. /\ \A x \in S : Place(x, S) \in 0 .. Cardinality(S) - 1
        /\ \A m \in 0 .. Cardinality(S) - 1 : \E x \in S : Place(x, S) = m
        /\ S # {} => First(S) \in S
    BY <2>1, Places
  <2> QED  BY <2>2 DEF S
<1>5. \A j \in others : new(j) \in BOOLEAN
  BY <1>1 DEF ImageRow
<1> HIDE DEF new
<1>6. \A j \in others : /\ image'[j] \in ImageRow /\ image'[j].product = p
                        /\ image'[j].order = Place(j, others) /\ image'[j].main = new(j)
  <2> SUFFICES ASSUME NEW j \in others
               PROVE  /\ image'[j] \in ImageRow /\ image'[j].product = p
                      /\ image'[j].order = Place(j, others) /\ image'[j].main = new(j)
    OBVIOUS
  <2> DEFINE x == Place(j, others)
             y == new(j)
  <2>1. image'[j] = [product |-> p, order |-> x, main |-> y]
    BY <1>1, <1>2
  <2>2. x \in Nat /\ y \in BOOLEAN /\ p \in Products
    <3> HIDE DEF G
    <3> QED  BY <1>3, <1>4, <1>5 DEF Offered
  <2> HIDE DEF x, y
  <2>3. /\ image'[j] \in ImageRow /\ image'[j].product = p
        /\ image'[j].order = x /\ image'[j].main = y
    BY <2>1, <2>2 DEF ImageRow
  <2> QED  BY <2>3 DEF x, y
<1>7. image'[i] = NoRow /\ \A j \in Images \ G : image'[j] = image[j]
  BY <1>1, <1>2
<1>8. image' \in [Images -> ImageRow \cup {NoRow}]
  <2>1. \A j \in Images : image'[j] \in ImageRow \cup {NoRow}
    BY <1>6, <1>7 DEF CatalogInv, CatalogShape
  <2>2. image' = [j \in Images |-> image'[j]]
    BY <1>2
  <2> QED  BY <2>1, <2>2
<1>9. Gallery(p)' = others
  <2>1. \A j \in Images : j \in G <=> image[j] # NoRow /\ image[j].product = p
    BY DEF Gallery
  <2>2. Gallery(p)' = {j \in Images : image'[j] # NoRow /\ image'[j].product = p}
    BY DEF Gallery
  <2>3. \A j \in others : image'[j] # NoRow
    BY <1>6, CatalogAssumption
  <2> HIDE DEF G
  <2> QED  BY <1>1, <1>6, <1>7, <2>1, <2>2, <2>3
<1>10. Numbered(p)'
  <2> DEFINE S == others
             n == Cardinality(S)
  <2>1. {image'[j].order : j \in S} = 0 .. n - 1
    <3>1. /\ \A j \in S : image'[j].order = Place(j, S) /\ Place(j, S) \in 0 .. n - 1
          /\ \A m \in 0 .. n - 1 : \E x \in S : Place(x, S) = m
      BY <1>4, <1>6
    <3> HIDE DEF S, n
    <3> QED  BY <3>1
  <2> QED  BY <1>9, <2>1, Renumbered
<1>11. OneMain(p)'
  <2> SUFFICES ASSUME others # {}
               PROVE  \E m \in others : \A j \in others : image'[j].main <=> j = m
    BY <1>9 DEF OneMain
  <2>1. CASE image[i].main
    <3>1. \A j \in others : image'[j].main <=> j = First(others)
      BY <1>6, <2>1 DEF new
    <3> QED  BY <1>4, <3>1
  <2>2. CASE ~image[i].main
    <3>1. PICK m \in G : \A j \in G : image[j].main <=> j = m
      BY <1>1 DEF OneMain
    <3>2. m \in others
      BY <1>1, <2>2, <3>1
    <3>3. \A j \in others : image'[j].main <=> j = m
      BY <1>6, <2>2, <3>1 DEF new
    <3> QED  BY <3>2, <3>3
  <2> QED  BY <2>1, <2>2
<1> QED  BY <1>6, <1>7, <1>8, <1>10, <1>11

\* The photographs of a form, in the order they were sent.
LEMMA GalleryBegins ==
    ASSUME CatalogInv, NEW p \in Products, product[p] = NoRow, NEW new \in SUBSET Images,
           \A i \in new : image[i] = NoRow,
           image' = [i \in Images |->
                      IF i \in new
                      THEN LET place == Cardinality({j \in new : j < i})
                           IN  [product |-> p, order |-> place, main |-> place = 0]
                      ELSE image[i]]
    PROVE  /\ image' \in [Images -> ImageRow \cup {NoRow}]
           /\ (Numbered(p) /\ OneMain(p))'
           /\ \A j \in Images \ new : image'[j] = image[j]
           /\ \A j \in new : image'[j].product = p
<1> DEFINE number(i) == Cardinality({j \in new : j < i})
           n == Cardinality(new)
<1>1. IsFiniteSet(new) /\ n \in Nat /\ new \subseteq Nat
  BY CatalogAssumption, FS_Subset, FS_CardinalityType
<1>2. /\ \A x \in new : number(x) \in 0 .. n - 1
      /\ \A x, y \in new : number(x) = number(y) => x = y
      /\ \A m \in 0 .. n - 1 : \E x \in new : number(x) = m
  BY <1>1, NumberPlaces
<1>3. image' = [i \in Images |-> IF i \in new
                                 THEN [product |-> p, order |-> number(i), main |-> number(i) = 0]
                                 ELSE image[i]]
  OBVIOUS
<1> HIDE DEF number
<1>4. \A j \in new : /\ image'[j] \in ImageRow /\ image'[j].product = p
                     /\ image'[j].order = number(j) /\ (image'[j].main <=> number(j) = 0)
  <2> SUFFICES ASSUME NEW j \in new
               PROVE  /\ image'[j] \in ImageRow /\ image'[j].product = p
                      /\ image'[j].order = number(j) /\ (image'[j].main <=> number(j) = 0)
    OBVIOUS
  <2> DEFINE x == number(j)
             y == x = 0
  <2>1. image'[j] = [product |-> p, order |-> x, main |-> y]
    BY <1>3
  <2>2. x \in Nat
    BY <1>1, <1>2
  <2>3. y \in BOOLEAN
    OBVIOUS
  <2> HIDE DEF x, y
  <2>4. /\ image'[j] \in ImageRow /\ image'[j].product = p
        /\ image'[j].order = x /\ image'[j].main = y
    BY <2>1, <2>2, <2>3 DEF ImageRow
  <2> QED  BY <2>4 DEF x, y
<1>5. \A j \in Images \ new : image'[j] = image[j]
  BY <1>3
<1>6. image' \in [Images -> ImageRow \cup {NoRow}]
  <2>1. \A j \in Images : image'[j] \in ImageRow \cup {NoRow}
    BY <1>4, <1>5 DEF CatalogInv, CatalogShape
  <2>2. image' = [j \in Images |-> image'[j]]
    BY <1>3
  <2> QED  BY <2>1, <2>2
<1>7. Gallery(p)' = new
  <2>1. \A j \in Images : ~(image[j] # NoRow /\ image[j].product = p)
    BY DEF CatalogInv, PhotosBelong, Offered
  <2>2. Gallery(p)' = {j \in Images : image'[j] # NoRow /\ image'[j].product = p}
    BY DEF Gallery
  <2>3. \A j \in new : image'[j] # NoRow
    BY <1>4, CatalogAssumption
  <2>4. \A j \in Images : image'[j] # NoRow /\ image'[j].product = p <=> j \in new
    BY <1>4, <1>5, <2>1, <2>3
  <2> QED  BY <2>2, <2>4
<1>8. Numbered(p)'
  <2>1. {image'[j].order : j \in new} = 0 .. n - 1
    <3> DEFINE order(j) == image'[j].order
    <3>1. \A j \in new : order(j) = number(j)
      BY <1>4
    <3> HIDE DEF n, order
    <3>2. /\ \A j \in new : order(j) \in 0 .. n - 1
          /\ \A m \in 0 .. n - 1 : \E j \in new : order(j) = m
      BY <1>2, <3>1
    <3>3. {order(j) : j \in new} = 0 .. n - 1
      BY <3>2, Zenon
    <3> QED  BY <3>3 DEF order
  <2> QED  BY <1>7, <2>1, Renumbered
<1>9. OneMain(p)'
  <2> SUFFICES ASSUME new # {}
               PROVE  \E m \in new : \A j \in new : image'[j].main <=> j = m
    BY <1>7 DEF OneMain
  <2>1. n \in Nat \ {0}
    BY <1>1, FS_EmptySet
  <2>2. PICK m \in new : number(m) = 0
    BY <1>2, <2>1
  <2>3. \A j \in new : number(j) = 0 <=> j = m
    BY <1>2, <2>2
  <2> QED  BY <1>4, <2>3
<1> QED  BY <1>4, <1>5, <1>6, <1>8, <1>9

-----------------------------------------------------------------------------
(* The screens, and the steps. *)

LEMMA ScreensAfter ==
    ASSUME CatalogInv, NEW e \in Editors, NEW item, Wrote(e, item),
           (Existing \cup Offered) \ {item} \subseteq (Existing \cup Offered)'
    PROVE  desk' \in [Editors -> Screens \cup Forms \cup {NoDesk}] /\ ScreensShowRows'
<1>1. desk \in [Editors -> Screens \cup Forms \cup {NoDesk}]
  BY DEF CatalogInv, CatalogShape
<1>2. ASSUME NEW d \in Editors
      PROVE  /\ desk'[d] \in Screens \cup Forms \cup {NoDesk}
             /\ desk'[d] = desk[d] \/ desk'[d] = NoDesk \/ ~desk'[d].current
             /\ desk'[d] = desk[d] => d = e \/ ~Holds(d, item) \/ ~desk[d].current
             /\ d = e => desk'[d] = NoDesk
  <2>1. CASE d = e
    BY <2>1 DEF Wrote
  <2>2. CASE d # e /\ Holds(d, item)
    <3>1. desk[d] \in Screens
      BY <1>1, <2>2 DEF Holds, IsAt, Screens, Forms
    <3>2. desk'[d] = [desk[d] EXCEPT !.current = FALSE]
      BY <2>2 DEF Wrote
    <3>3. desk'[d] \in Screens /\ ~desk'[d].current
      BY <3>1, <3>2 DEF Screens
    <3> QED  BY <2>2, <3>3
  <2>3. CASE d # e /\ ~Holds(d, item)
    BY <1>1, <2>3 DEF Wrote
  <2> QED  BY <2>1, <2>2, <2>3
<1>3. desk' \in [Editors -> Screens \cup Forms \cup {NoDesk}]
  <2>1. desk' = [d \in Editors |-> desk'[d]]
    BY DEF Wrote
  <2> QED  BY <1>2, <2>1
<1>4. ASSUME NEW d \in Editors, desk'[d] # NoDesk, desk'[d].at = "item", desk'[d].current
      PROVE  desk'[d].item \in (Existing \cup Offered)'
  <2>1. desk'[d] = desk[d] /\ d # e
    BY <1>2, <1>4
  <2>2. ~Holds(d, item) /\ IsAt(d, "item") /\ desk[d].current
    BY <1>2, <1>4, <2>1 DEF IsAt
  <2> QED  BY <2>1, <2>2 DEF Holds, CatalogInv, ScreensShowRows
<1> QED  BY <1>3, <1>4 DEF ScreensShowRows, IsAt

\* One editor begins, goes on or stops; nothing disappears.
LEMMA ScreensOne ==
    ASSUME CatalogInv, NEW e \in Editors, NEW x \in Screens \cup Forms \cup {NoDesk},
           desk' = [desk EXCEPT ![e] = x],
           x # NoDesk /\ x.at = "item" => x.item \in Existing \cup Offered,
           Existing \cup Offered \subseteq (Existing \cup Offered)'
    PROVE  desk' \in [Editors -> Screens \cup Forms \cup {NoDesk}] /\ ScreensShowRows'
BY DEF CatalogInv, CatalogShape, ScreensShowRows, IsAt

LEMMA ScreensSame ==
    ASSUME CatalogInv, desk' = desk, Existing \cup Offered \subseteq (Existing \cup Offered)'
    PROVE  desk' \in [Editors -> Screens \cup Forms \cup {NoDesk}] /\ ScreensShowRows'
BY DEF CatalogInv, CatalogShape, ScreensShowRows, IsAt

\* The editor sees a category, or a product, that exists.
LEMMA SeesExisting ==
    ASSUME CatalogInv, NEW e \in Editors, NEW item, SeesCurrent(e, item)
    PROVE  /\ item \in Categories => item \in Existing
           /\ item \in Products => item \in Offered
<1>1. item \in Existing \cup Offered
  BY DEF CatalogInv, ScreensShowRows, SeesCurrent, Holds
<1>2. item \in Existing => item \in Categories
  BY DEF Existing
<1>3. item \in Offered => item \in Products
  BY DEF Offered
<1> QED  BY <1>1, <1>2, <1>3, CatalogAssumption

\* Only a desk changes.
LEMMA DeskSteps ==
    ASSUME CatalogInv, UNCHANGED <<category, product, image>>,
           desk' \in [Editors -> Screens \cup Forms \cup {NoDesk}] /\ ScreensShowRows'
    PROVE  CatalogInv'
<1>1. /\ Existing' = Existing /\ Offered' = Offered /\ \A c : ProductsOf(c)' = ProductsOf(c)
      /\ \A p : Gallery(p)' = Gallery(p)
  BY DEF Existing, Offered, ProductsOf, Gallery
<1>2. CatalogShape' /\ ParentsExist' /\ NoCycle' /\ CountsRight' /\ PhotosBelong'
  BY <1>1 DEF CatalogInv, CatalogShape, ParentsExist, NoCycle, CountsRight, PhotosBelong
<1>3. GalleriesTidy'
  BY <1>1, <1>2, SameGalleries DEF CatalogInv
<1> QED  BY <1>2, <1>3 DEF CatalogInv

\* A category changes and no product.
LEMMA TreeSteps ==
    ASSUME CatalogInv, UNCHANGED <<product, image>>, TreeSound', CountsRight',
           desk' \in [Editors -> Screens \cup Forms \cup {NoDesk}] /\ ScreensShowRows'
    PROVE  CatalogInv'
<1>1. Offered' = Offered /\ CatalogShape'
  BY DEF Offered, CatalogInv, CatalogShape, TreeSound
<1>2. PhotosBelong' /\ GalleriesTidy'
  BY <1>1, SameGalleries DEF CatalogInv
<1> QED  BY <1>1, <1>2 DEF CatalogInv, TreeSound

\* A count is set.
LEMMA CountSet ==
    ASSUME TreeSound, NEW c \in Existing, NEW k \in Nat,
           category' = [category EXCEPT ![c] = [category[c] EXCEPT !.count = k]]
    PROVE  /\ TreeSound' /\ Existing' = Existing /\ CountIs(c, k)
           /\ \A d \in Existing \ {c} : CountIs(d, category[d].count)
<1> DEFINE record == [category[c] EXCEPT !.count = k]
<1>1. c \in Categories /\ Existing \subseteq Categories /\ category[c] \in CategoryRow
  BY DEF Existing, TreeSound
<1>2. record \in CategoryRow /\ record.parent = category[c].parent /\ record.count = k
  BY <1>1 DEF CategoryRow
<1>3. category' = [category EXCEPT ![c] = record]
  OBVIOUS
<1> HIDE DEF record
<1>4. /\ category' \in [Categories -> CategoryRow \cup {NoRow}] /\ category'[c] = record
      /\ \A d \in Categories \ {c} : category'[d] = category[d]
  BY <1>1, <1>2, <1>3 DEF TreeSound
<1>5. Existing' = Existing
  BY <1>1, <1>2, <1>4, CatalogAssumption DEF Existing
<1>6. \A d \in Existing : category'[d].parent = category[d].parent
  BY <1>1, <1>2, <1>4
<1>7. TreeSound'
  BY <1>4, <1>5, <1>6, SameTree
<1> QED  BY <1>1, <1>2, <1>4, <1>5, <1>7 DEF CountIs

LEMMA CountsSet ==
    ASSUME TreeSound, NEW c \in Existing, NEW d \in Existing \ {c},
           NEW record \in CategoryRow, record.parent = category[c].parent,
           NEW other \in CategoryRow, other.parent = category[d].parent,
           category' = [category EXCEPT ![c] = record, ![d] = other]
    PROVE  /\ TreeSound' /\ Existing' = Existing
           /\ CountIs(c, record.count) /\ CountIs(d, other.count)
           /\ \A x \in Existing \ {c, d} : CountIs(x, category[x].count)
<1>1. c \in Categories /\ d \in Categories /\ Existing \subseteq Categories
  BY DEF Existing
<1>4. /\ category' \in [Categories -> CategoryRow \cup {NoRow}]
      /\ category'[c] = record /\ category'[d] = other
      /\ \A x \in Categories \ {c, d} : category'[x] = category[x]
  BY <1>1 DEF TreeSound
<1>5. Existing' = Existing
  BY <1>1, <1>4, CatalogAssumption DEF Existing
<1>6. \A x \in Existing : category'[x].parent = category[x].parent
  BY <1>1, <1>4
<1>7. TreeSound'
  BY <1>4, <1>5, <1>6, SameTree
<1> QED  BY <1>1, <1>4, <1>5, <1>7 DEF CountIs

LEMMA InvParts ==
    ASSUME CatalogInv
    PROVE  /\ CatalogShape /\ TreeSound /\ CountsRight /\ PhotosBelong /\ GalleriesTidy
           /\ \A c \in Existing : category[c] \in CategoryRow
           /\ \A p \in Offered : product[p] \in ProductRow /\ product[p].category \in Existing
BY DEF CatalogInv, TreeSound, CatalogShape, CountsRight, Existing, Offered

\* A product is created.
LEMMA Created ==
    ASSUME CatalogInv, NEW p \in Products, NEW c, NEW s \in Skus, Create(p, c, s)
    PROVE  /\ TreeSound' /\ Existing' = Existing /\ CountsRight'
           /\ product' \in [Products -> ProductRow \cup {NoRow}]
           /\ Offered' = Offered \cup {p} /\ p \notin Offered
<1> DEFINE record == [category |-> c, sku |-> s]
<1>1. c \in Existing /\ c \in Categories /\ product' = [product EXCEPT ![p] = record]
      /\ category' = [category EXCEPT ![c].count = @ + 1] /\ p \notin Offered
  BY DEF Create, Existing, Offered
<1>2. record \in ProductRow /\ record.category = c
  BY <1>1 DEF ProductRow
<1> HIDE DEF record
<1>3. /\ product' \in [Products -> ProductRow \cup {NoRow}] /\ product'[p] = record
      /\ \A q \in Products \ {p} : product'[q] = product[q]
  BY <1>1, <1>2 DEF CatalogInv, CatalogShape
<1>4. Offered' = Offered \cup {p} /\ \A q \in Offered : product'[q] = product[q]
  BY <1>1, <1>2, <1>3, CatalogAssumption DEF Offered
<1> DEFINE k == category[c].count + 1
<1>5. k \in Nat /\ category' = [category EXCEPT ![c] = [category[c] EXCEPT !.count = k]]
  BY <1>1, InvParts DEF CategoryRow, TreeSound
<1> HIDE DEF k
<1>6. /\ TreeSound' /\ Existing' = Existing /\ CountIs(c, k)
      /\ \A d \in Existing \ {c} : CountIs(d, category[d].count)
  BY <1>1, <1>5, InvParts, CountSet
<1>7. CountsRight'
  BY <1>1, <1>2, <1>3, <1>4, <1>6, InvParts, CountsAdd DEF k
<1> QED  BY <1>1, <1>3, <1>4, <1>6, <1>7

LEMMA CatalogStepCategories ==
    ASSUME CatalogInv, NEW e \in Editors, NEW c \in Categories,
           \/ ToggleCategory(e, c) \/ ChangeCategoryImage(e, c) \/ DeleteCategory(e, c)
           \/ \E parent \in Categories \cup {NoParent} : MoveCategory(e, c, parent)
    PROVE  CatalogInv'
<1>2. ASSUME Wrote(e, c), UNCHANGED <<product, image>>, TreeSound', Existing' = Existing,
             \A d \in Existing : category'[d].count = category[d].count
      PROVE  CatalogInv'
  <2>1. Offered' = Offered /\ \A p \in Offered : product'[p].category = product[p].category
    BY <1>2 DEF Offered
  <2>2. CountsRight'
    <3>1. Existing \subseteq Existing' /\ \A d \in Existing' \ Existing : category'[d].count = 0
      BY <1>2
    <3> QED  BY <1>2, <2>1, <3>1, InvParts, SameCounts
  <2>3. (Existing \cup Offered) \ {c} \subseteq (Existing \cup Offered)'
    BY <1>2, <2>1
  <2> QED  BY <1>2, <2>2, <2>3, ScreensAfter, TreeSteps
<1>3. CASE ToggleCategory(e, c)
  <2> DEFINE record == [category[c] EXCEPT !.active = ~@]
  <2>1. c \in Existing /\ Wrote(e, c) /\ UNCHANGED <<product, image>>
        /\ category' = [category EXCEPT ![c].active = ~@]
    BY <1>3, SeesExisting DEF ToggleCategory
  <2>2. category[c] \in CategoryRow
    BY <2>1, InvParts
  <2>3. record \in CategoryRow /\ record.parent = category[c].parent /\ record.count = category[c].count
    BY <2>2 DEF CategoryRow
  <2>4. category' = [category EXCEPT ![c] = record]
    BY <2>1, Zenon
  <2> HIDE DEF record
  <2>5. /\ category' \in [Categories -> CategoryRow \cup {NoRow}] /\ category'[c] = record
        /\ \A d \in Categories \ {c} : category'[d] = category[d]
    BY <2>3, <2>4, InvParts DEF TreeSound
  <2>6. Existing' = Existing /\ Existing \subseteq Categories
    BY <2>1, <2>3, <2>5, CatalogAssumption DEF Existing
  <2>7. \A d \in Existing : /\ category'[d].parent = category[d].parent
                            /\ category'[d].count = category[d].count
    BY <2>3, <2>5, <2>6
  <2>8. TreeSound'
    BY <2>5, <2>6, <2>7, InvParts, SameTree
  <2> QED  BY <1>2, <2>1, <2>6, <2>7, <2>8
<1>4. CASE ChangeCategoryImage(e, c)
  <2>1. Wrote(e, c) /\ UNCHANGED <<category, product, image>>
    BY <1>4 DEF ChangeCategoryImage
  <2>2. Existing' = Existing
    BY <2>1 DEF Existing
  <2>3. TreeSound'
    BY <2>1, <2>2, InvParts, SameTree DEF TreeSound
  <2> QED  BY <1>2, <2>1, <2>2, <2>3
<1>5. CASE DeleteCategory(e, c)
  <2>1. /\ c \in Existing /\ Wrote(e, c) /\ UNCHANGED <<product, image>> /\ ProductsOf(c) = {}
        /\ \A d \in Existing : category[d].parent # c
        /\ category' = [category EXCEPT ![c] = NoRow]
    BY <1>5 DEF DeleteCategory
  <2>2. TreeSound' /\ Existing' = Existing \ {c} /\ \A d \in Existing' : category'[d] = category[d]
    BY <2>1, InvParts, TreeShrinks
  <2>3. CountsRight'
    BY <2>1, <2>2, InvParts, CountsWithout
  <2>4. (Existing \cup Offered) \ {c} \subseteq (Existing \cup Offered)'
    BY <2>1, <2>2 DEF Offered
  <2> QED  BY <2>1, <2>2, <2>3, <2>4, ScreensAfter, TreeSteps
<1>6. ASSUME NEW parent, MoveCategory(e, c, parent) PROVE CatalogInv'
  <2>1. /\ c \in Existing /\ Wrote(e, c) /\ UNCHANGED <<product, image>> /\ MayMove(c, parent)
        /\ category' = [category EXCEPT ![c].parent = parent]
    BY <1>6, SeesExisting DEF MoveCategory
  <2>2. /\ TreeSound' /\ Existing' = Existing
        /\ \A d \in Existing : category'[d].count = category[d].count
    BY <2>1, InvParts, TreeMoves
  <2> QED  BY <1>2, <2>1, <2>2
<1> QED  BY <1>3, <1>4, <1>5, <1>6

\* A product is created, moved or edited: no photograph changes.
LEMMA ProductSteps ==
    ASSUME CatalogInv, image' = image, TreeSound', Existing' = Existing, CountsRight',
           product' \in [Products -> ProductRow \cup {NoRow}], Offered \subseteq Offered',
           desk' \in [Editors -> Screens \cup Forms \cup {NoDesk}] /\ ScreensShowRows'
    PROVE  CatalogInv'
<1>1. CatalogShape'
  BY DEF CatalogInv, CatalogShape, TreeSound
<1>2. PhotosBelong' /\ GalleriesTidy'
  BY <1>1, SameGalleries DEF CatalogInv
<1> QED  BY <1>1, <1>2 DEF CatalogInv, TreeSound

LEMMA CatalogStepNew ==
    ASSUME CatalogInv, NEW c \in Categories,
           \/ \E parent \in Categories \cup {NoParent} : CreateCategory(c, parent)
           \/ \E p \in Products, s \in Skus : CreateProduct(p, c, s)
    PROVE  CatalogInv'
<1>1. ASSUME NEW parent, CreateCategory(c, parent) PROVE CatalogInv'
  <2>1. /\ category' = [category EXCEPT ![c] = [parent |-> parent, count |-> 0, active |-> TRUE]]
        /\ category[c] = NoRow /\ parent \in Existing \cup {NoParent}
        /\ UNCHANGED <<product, image, desk>> /\ c \notin Existing
    BY <1>1 DEF CreateCategory, Existing
  <2>2. TreeSound' /\ Existing' = Existing \cup {c} /\ \A d \in Existing : category'[d] = category[d]
    BY <2>1, InvParts, TreeGrows
  <2>3. category'[c].count = 0
    <3> DEFINE record == [parent |-> parent, count |-> 0, active |-> TRUE]
    <3>1. record.count = 0
      OBVIOUS
    <3>2. category' = [category EXCEPT ![c] = record]
      BY <2>1
    <3> HIDE DEF record
    <3> QED  BY <3>1, <3>2, InvParts DEF TreeSound
  <2>4. Offered' = Offered
    BY <2>1 DEF Offered
  <2>5. CountsRight'
    <3>1. /\ Existing \subseteq Existing' /\ \A d \in Existing' \ Existing : category'[d].count = 0
          /\ \A d \in Existing : category'[d].count = category[d].count
          /\ \A p \in Offered : product'[p].category = product[p].category
      BY <2>1, <2>2, <2>3
    <3> QED  BY <2>4, <3>1, InvParts, SameCounts
  <2>6. desk' \in [Editors -> Screens \cup Forms \cup {NoDesk}] /\ ScreensShowRows'
    <3>1. Existing \cup Offered \subseteq (Existing \cup Offered)'
      BY <2>2, <2>4
    <3> QED  BY <2>1, <3>1, ScreensSame
  <2> QED  BY <2>1, <2>2, <2>5, <2>6, TreeSteps
<1>2. ASSUME NEW p \in Products, NEW s \in Skus, CreateProduct(p, c, s) PROVE CatalogInv'
  <2>1. Create(p, c, s) /\ UNCHANGED <<image, desk>>
    BY <1>2 DEF CreateProduct
  <2>2. /\ TreeSound' /\ Existing' = Existing /\ CountsRight'
        /\ product' \in [Products -> ProductRow \cup {NoRow}] /\ Offered' = Offered \cup {p}
    BY <2>1, Created
  <2>3. Existing \cup Offered \subseteq (Existing \cup Offered)'
    BY <2>2
  <2>4. desk' \in [Editors -> Screens \cup Forms \cup {NoDesk}] /\ ScreensShowRows'
    BY <2>1, <2>3, ScreensSame
  <2> QED  BY <2>1, <2>2, <2>4, ProductSteps
<1> QED  BY <1>1, <1>2

LEMMA CatalogStepProducts ==
    ASSUME CatalogInv, NEW e \in Editors, NEW p \in Products,
           \/ \E c \in Categories : MoveProduct(e, p, c)
           \/ \E s \in Skus : EditProduct(e, p, s)
    PROVE  CatalogInv'
<1>2. ASSUME NEW c \in Categories, MoveProduct(e, p, c) PROVE CatalogInv'
  <2> DEFINE from == product[p].category
             record == [product[p] EXCEPT !.category = c]
             k == Less(category[from].count)
             m == category[c].count + 1
  <2>1. /\ p \in Offered /\ c \in Existing \ {from} /\ Wrote(e, p) /\ image' = image
        /\ product' = [product EXCEPT ![p].category = c] /\ category' = CountsMove(from, c)
    BY <1>2, SeesExisting DEF MoveProduct
  <2>2. /\ product[p] \in ProductRow /\ from \in Existing
        /\ category[from] \in CategoryRow /\ category[c] \in CategoryRow
    BY <2>1, InvParts
  <2>3. record \in ProductRow /\ record.category = c /\ k \in Nat /\ m \in Nat
    BY <2>1, <2>2 DEF ProductRow, CategoryRow, Less
  <2>4. product' = [product EXCEPT ![p] = record]
    BY <2>1
  <2> DEFINE x == [category[from] EXCEPT !.count = k]
             y == [category[c] EXCEPT !.count = m]
  <2>5. /\ x \in CategoryRow /\ x.parent = category[from].parent /\ x.count = k
        /\ y \in CategoryRow /\ y.parent = category[c].parent /\ y.count = m
    <3> HIDE DEF k, m
    <3> QED  BY <2>2, <2>3 DEF CategoryRow
  <2>12. category' = [category EXCEPT ![from] = x, ![c] = y]
    <3>1. from \in Categories /\ c \in Categories /\ c # from
      BY <2>1, <2>2 DEF Existing
    <3>2. category' = [category EXCEPT ![from].count = k, ![c].count = m]
      BY <2>1 DEF CountsMove, Less
    <3> HIDE DEF k, m
    <3>3. category' = [[category EXCEPT ![from] = x] EXCEPT
                         ![c] = [[category EXCEPT ![from] = x][c] EXCEPT !.count = m]]
      BY <3>2
    <3>4. [category EXCEPT ![from] = x][c] = category[c]
      BY <3>1, InvParts DEF TreeSound
    <3> HIDE DEF x
    <3> QED  BY <3>3, <3>4
  <2> HIDE DEF record, k, m, x, y
  <2>6. /\ TreeSound' /\ Existing' = Existing /\ CountIs(from, k) /\ CountIs(c, m)
        /\ \A d \in Existing \ {from, c} : CountIs(d, category[d].count)
    <3>1. TreeSound /\ from \in Existing /\ c \in Existing \ {from}
      BY <2>1, <2>2, InvParts
    <3> HIDE DEF from
    <3>2. /\ TreeSound' /\ Existing' = Existing /\ CountIs(from, x.count) /\ CountIs(c, y.count)
          /\ \A d \in Existing \ {from, c} : CountIs(d, category[d].count)
      BY <2>5, <2>12, <3>1, CountsSet
    <3> QED  BY <2>5, <3>2
  <2>7. /\ product' \in [Products -> ProductRow \cup {NoRow}] /\ product'[p] = record
        /\ \A q \in Products \ {p} : product'[q] = product[q]
    BY <2>3, <2>4 DEF CatalogInv, CatalogShape
  <2>8. Offered' = Offered /\ \A q \in Offered \ {p} : product'[q] = product[q]
    BY <2>1, <2>3, <2>7, CatalogAssumption DEF Offered
  <2>9. CountsRight'
    BY <2>1, <2>2, <2>3, <2>6, <2>7, <2>8, InvParts, CountsShift DEF k, m
  <2>10. (Existing \cup Offered) \ {p} \subseteq (Existing \cup Offered)'
    BY <2>6, <2>8
  <2>11. desk' \in [Editors -> Screens \cup Forms \cup {NoDesk}] /\ ScreensShowRows'
    BY <2>1, <2>10, ScreensAfter
  <2> QED  BY <2>1, <2>6, <2>7, <2>8, <2>9, <2>11, ProductSteps
<1>3. ASSUME NEW s \in Skus, EditProduct(e, p, s) PROVE CatalogInv'
  <2> DEFINE record == [product[p] EXCEPT !.sku = s]
  <2>1. /\ p \in Offered /\ Wrote(e, p) /\ UNCHANGED <<category, image>>
        /\ product' = [product EXCEPT ![p].sku = s]
    BY <1>3, SeesExisting DEF EditProduct
  <2>2. product[p] \in ProductRow
    BY <2>1, InvParts
  <2>3. record \in ProductRow /\ record.category = product[p].category
    BY <2>2 DEF ProductRow
  <2>4. product' = [product EXCEPT ![p] = record]
    BY <2>1
  <2> HIDE DEF record
  <2>5. /\ product' \in [Products -> ProductRow \cup {NoRow}] /\ product'[p] = record
        /\ \A q \in Products \ {p} : product'[q] = product[q]
    BY <2>3, <2>4 DEF CatalogInv, CatalogShape
  <2>6. /\ Offered' = Offered /\ Existing' = Existing
        /\ \A q \in Offered : product'[q].category = product[q].category
    BY <2>1, <2>3, <2>5, CatalogAssumption DEF Offered, Existing
  <2>7. TreeSound' /\ CountsRight'
    BY <2>1, <2>6, InvParts, SameTree, SameCounts DEF TreeSound
  <2>8. (Existing \cup Offered) \ {p} \subseteq (Existing \cup Offered)'
    BY <2>6
  <2>9. desk' \in [Editors -> Screens \cup Forms \cup {NoDesk}] /\ ScreensShowRows'
    BY <2>1, <2>8, ScreensAfter
  <2> QED  BY <2>1, <2>5, <2>6, <2>7, <2>9, ProductSteps
<1> QED  BY <1>2, <1>3

\* Only the photographs of one product change.
LEMMA ImageSteps ==
    ASSUME CatalogInv, NEW p \in Offered, NEW e \in Editors, Wrote(e, p),
           UNCHANGED <<category, product>>,
           image' \in [Images -> ImageRow \cup {NoRow}], (Numbered(p) /\ OneMain(p))',
           \A i \in Images : image'[i] # image[i] =>
             /\ image[i] = NoRow \/ image[i].product = p
             /\ image'[i] = NoRow \/ image'[i].product = p
    PROVE  CatalogInv'
<1>1. /\ Existing' = Existing /\ Offered' = Offered /\ \A c : ProductsOf(c)' = ProductsOf(c)
      /\ p \in Products
  BY DEF Existing, Offered, ProductsOf
<1>2. (Existing \cup Offered) \ {p} \subseteq (Existing \cup Offered)'
  BY <1>1
<1>3. desk' \in [Editors -> Screens \cup Forms \cup {NoDesk}] /\ ScreensShowRows'
  BY <1>2, ScreensAfter
<1>4. CatalogShape' /\ ParentsExist' /\ NoCycle' /\ CountsRight'
  BY <1>1, <1>3 DEF CatalogInv, CatalogShape, ParentsExist, NoCycle, CountsRight
<1>5. PhotosBelong' /\ GalleriesTidy'
  BY <1>1, <1>4, GalleryOf DEF CatalogInv
<1> QED  BY <1>3, <1>4, <1>5 DEF CatalogInv

LEMMA CatalogStepImages ==
    ASSUME CatalogInv, NEW e \in Editors, NEW p \in Products, NEW i \in Images,
           \/ AddImage(e, p, i) \/ DeleteImage(e, p, i)
           \/ \E main \in BOOLEAN, sort \in Nat : SetImage(e, p, i, main, sort)
    PROVE  CatalogInv'
<1>1. \A q, j : j \in Gallery(q) => image[j].product = q
  BY DEF Gallery
<1>2. CASE AddImage(e, p, i)
  <2> DEFINE n == Cardinality(Gallery(p))
             first == \A j \in Gallery(p) : ~image[j].main
             record == [product |-> p, order |-> n, main |-> first]
  <2>1. /\ p \in Offered /\ image[i] = NoRow /\ Wrote(e, p) /\ UNCHANGED <<category, product>>
        /\ image' = [image EXCEPT ![i] = record]
    BY <1>2 DEF AddImage
  <2>2. n \in Nat /\ first \in BOOLEAN
    BY GalleryIs DEF CatalogInv
  <2>3. record \in ImageRow /\ record.product = p
    <3> HIDE DEF n, first
    <3> QED  BY <2>2 DEF ImageRow
  <2>4. /\ image' \in [Images -> ImageRow \cup {NoRow}] /\ image'[i] = record
        /\ \A j \in Images \ {i} : image'[j] = image[j]
    <3> HIDE DEF record
    <3> QED  BY <2>1, <2>3 DEF CatalogInv, CatalogShape
  <2>5. CatalogShape'
    <3>1. p \in Offered /\ (Existing \cup Offered) \ {p} \subseteq (Existing \cup Offered)'
      BY <2>1 DEF Existing, Offered
    <3>2. desk' \in [Editors -> Screens \cup Forms \cup {NoDesk}]
      BY <2>1, <3>1, ScreensAfter
    <3> QED  BY <2>1, <2>4, <3>2 DEF CatalogInv, CatalogShape
  <2>6. (Numbered(p) /\ OneMain(p))'
    BY <2>1, <2>5, GalleryGrows
  <2>7. \A j \in Images : image'[j] # image[j] =>
          /\ image[j] = NoRow \/ image[j].product = p
          /\ image'[j] = NoRow \/ image'[j].product = p
    <3> HIDE DEF record
    <3> QED  BY <2>1, <2>3, <2>4
  <2> QED  BY <2>1, <2>4, <2>6, <2>7, ImageSteps
<1>3. CASE DeleteImage(e, p, i)
  <2>1. p \in Offered /\ Wrote(e, p) /\ UNCHANGED <<category, product>>
    <3>1. i \in Gallery(p)
      BY <1>3 DEF DeleteImage
    <3> QED  BY <1>3, <3>1 DEF DeleteImage, Gallery, CatalogInv, PhotosBelong
  <2>2. /\ image' \in [Images -> ImageRow \cup {NoRow}] /\ (Numbered(p) /\ OneMain(p))'
        /\ \A j \in Images \ Gallery(p) : image'[j] = image[j]
        /\ \A j \in Gallery(p) : image'[j] = NoRow \/ image'[j].product = p
    BY <1>3, <2>1, GalleryShrinks
  <2>3. \A j \in Images : image'[j] # image[j] =>
          /\ image[j] = NoRow \/ image[j].product = p
          /\ image'[j] = NoRow \/ image'[j].product = p
    BY <1>1, <2>2
  <2> QED  BY <2>1, <2>2, <2>3, ImageSteps
<1>4. ASSUME NEW main \in BOOLEAN, NEW sort \in Nat, SetImage(e, p, i, main, sort)
      PROVE  CatalogInv'
  <2>1. p \in Offered /\ Wrote(e, p) /\ UNCHANGED <<category, product>>
    <3>1. i \in Gallery(p)
      BY <1>4 DEF SetImage
    <3> QED  BY <1>4, <3>1 DEF SetImage, Gallery, CatalogInv, PhotosBelong
  <2>2. /\ image' \in [Images -> ImageRow \cup {NoRow}] /\ (Numbered(p) /\ OneMain(p))'
        /\ Gallery(p)' = Gallery(p)
        /\ \A j \in Images \ Gallery(p) : image'[j] = image[j]
    BY <1>4, <2>1, GalleryReordered
  <2>3. \A j \in Gallery(p) : image'[j].product = p
    BY <2>2 DEF Gallery
  <2>4. \A j \in Images : image'[j] # image[j] =>
          /\ image[j] = NoRow \/ image[j].product = p
          /\ image'[j] = NoRow \/ image'[j].product = p
    BY <1>1, <2>2, <2>3
  <2> QED  BY <2>1, <2>2, <2>4, ImageSteps
<1> QED  BY <1>2, <1>3, <1>4

LEMMA CatalogStepDelete ==
    ASSUME CatalogInv, NEW e \in Editors, NEW p \in Products, DeleteProduct(e, p)
    PROVE  CatalogInv'
<1> DEFINE c == product[p].category
           k == Less(category[c].count)
<1>1. /\ p \in Offered /\ Wrote(e, p) /\ product' = [product EXCEPT ![p] = NoRow]
      /\ category' = [category EXCEPT ![c].count = Less(@)]
      /\ image' = [i \in Images |-> IF i \in Gallery(p) THEN NoRow ELSE image[i]]
  BY DEF DeleteProduct, Less
<1>2. product[p] \in ProductRow /\ c \in Existing /\ category[c] \in CategoryRow
  BY <1>1, InvParts
<1>3. k \in Nat /\ category' = [category EXCEPT ![c] = [category[c] EXCEPT !.count = k]]
  BY <1>1, <1>2 DEF CategoryRow, Less
<1> HIDE DEF k
<1>4. /\ TreeSound' /\ Existing' = Existing /\ CountIs(c, k)
      /\ \A d \in Existing \ {c} : CountIs(d, category[d].count)
  BY <1>2, <1>3, InvParts, CountSet
<1>5. /\ product' \in [Products -> ProductRow \cup {NoRow}] /\ product'[p] = NoRow
      /\ \A q \in Products \ {p} : product'[q] = product[q]
  BY <1>1 DEF CatalogInv, CatalogShape
<1>6. Offered' = Offered \ {p} /\ \A q \in Offered' : product'[q] = product[q]
  BY <1>5 DEF Offered
<1>7. CountsRight'
  BY <1>1, <1>4, <1>6, InvParts, CountsDrop DEF k
<1>8. (Existing \cup Offered) \ {p} \subseteq (Existing \cup Offered)'
  BY <1>4, <1>6
<1>9. desk' \in [Editors -> Screens \cup Forms \cup {NoDesk}] /\ ScreensShowRows'
  BY <1>1, <1>8, ScreensAfter
<1>10. /\ image' \in [Images -> ImageRow \cup {NoRow}]
       /\ \A i \in Images : image'[i] # image[i] => image'[i] = NoRow /\ image[i].product = p
       /\ Gallery(p)' = {}
  <2>1. image' \in [Images -> ImageRow \cup {NoRow}]
    BY <1>1 DEF CatalogInv, CatalogShape
  <2>2. \A i \in Images : image'[i] = IF i \in Gallery(p) THEN NoRow ELSE image[i]
    BY <1>1
  <2> QED  BY <2>1, <2>2 DEF Gallery
<1>11. CatalogShape'
  BY <1>4, <1>5, <1>9, <1>10 DEF CatalogShape, TreeSound
<1>12. PhotosBelong' /\ GalleriesTidy'
  BY <1>6, <1>10, <1>11, GalleryOf DEF CatalogInv
<1> QED  BY <1>4, <1>7, <1>9, <1>11, <1>12 DEF CatalogInv, TreeSound

LEMMA CatalogStepForms ==
    ASSUME CatalogInv, NEW e \in Editors,
           \/ \E item \in Categories \cup Products : LookAt(e, item)
           \/ \E c \in Categories : OpenForm(e, c)
           \/ \E s \in Skus : GiveSku(e, s)
           \/ GivePhoto(e) \/ LeaveDesk(e)
    PROVE  CatalogInv'
<1>1. desk \in [Editors -> Screens \cup Forms \cup {NoDesk}]
  BY DEF CatalogInv, CatalogShape
<1>2. ASSUME NEW x \in Screens \cup Forms \cup {NoDesk}, UNCHANGED <<category, product, image>>,
             desk' = [desk EXCEPT ![e] = x],
             x # NoDesk /\ x.at = "item" => x.item \in Existing \cup Offered
      PROVE  CatalogInv'
  <2>1. Existing \cup Offered \subseteq (Existing \cup Offered)'
    BY <1>2 DEF Existing, Offered
  <2> QED  BY <1>2, <2>1, ScreensOne, DeskSteps
<1>3. ASSUME NEW item \in Categories \cup Products, LookAt(e, item) PROVE CatalogInv'
  <2> DEFINE x == [at |-> "item", item |-> item, current |-> TRUE]
  <2>1. /\ item \in Existing \cup Offered /\ desk' = [desk EXCEPT ![e] = x]
        /\ UNCHANGED <<category, product, image>>
    BY <1>3 DEF LookAt
  <2>2. x \in Screens /\ x.item = item
    BY DEF Screens
  <2> HIDE DEF x
  <2> QED  BY <1>2, <2>1, <2>2
<1>4. CASE LeaveDesk(e)
  BY <1>2, <1>4 DEF LeaveDesk
<1>5. ASSUME NEW c \in Categories, OpenForm(e, c) PROVE CatalogInv'
  <2> DEFINE x == [at |-> "form", category |-> c, sku |-> NoSku, photos |-> 0]
  <2>1. desk' = [desk EXCEPT ![e] = x] /\ UNCHANGED <<category, product, image>>
    BY <1>5 DEF OpenForm
  <2>2. x \in Forms /\ x.at = "form"
    BY DEF Forms
  <2> HIDE DEF x
  <2> QED  BY <1>2, <2>1, <2>2
<1>6. ASSUME NEW s \in Skus, GiveSku(e, s) PROVE CatalogInv'
  <2> DEFINE x == [desk[e] EXCEPT !.sku = s]
  <2>1. /\ desk' = [desk EXCEPT ![e].sku = s] /\ UNCHANGED <<category, product, image>>
        /\ desk[e] # NoDesk /\ desk[e].at = "form"
    BY <1>6 DEF GiveSku, IsAt
  <2>2. desk[e] \in Forms
    BY <1>1, <2>1 DEF Screens
  <2>3. x \in Forms /\ x.at = "form"
    BY <2>2 DEF Forms
  <2>4. desk' = [desk EXCEPT ![e] = x]
    BY <2>1
  <2> HIDE DEF x
  <2> QED  BY <1>2, <2>1, <2>3, <2>4
<1>7. CASE GivePhoto(e)
  <2> DEFINE x == [desk[e] EXCEPT !.photos = @ + 1]
  <2>1. /\ desk' = [desk EXCEPT ![e].photos = @ + 1] /\ UNCHANGED <<category, product, image>>
        /\ desk[e] # NoDesk /\ desk[e].at = "form" /\ desk[e].sku # NoSku
    BY <1>7 DEF GivePhoto, IsAt
  <2>2. desk[e] \in Forms
    BY <1>1, <2>1 DEF Screens
  <2>3. x \in Forms /\ x.at = "form"
    BY <2>1, <2>2 DEF Forms
  <2>4. desk' = [desk EXCEPT ![e] = x]
    BY <2>1
  <2> HIDE DEF x
  <2> QED  BY <1>2, <2>1, <2>3, <2>4
<1> QED  BY <1>3, <1>4, <1>5, <1>6, <1>7

LEMMA CatalogStepSave ==
    ASSUME CatalogInv, NEW e \in Editors, NEW p \in Products, NEW new \in SUBSET Images,
           SaveForm(e, p, new)
    PROVE  CatalogInv'
<1> DEFINE c == desk[e].category
           s == desk[e].sku
<1>1. desk[e] \in Forms /\ desk[e].photos > 0
  BY DEF SaveForm, IsAt, CatalogInv, CatalogShape, Screens
<1>2. s \in Skus
  BY <1>1 DEF Forms
<1>3. /\ Create(p, c, s) /\ \A i \in new : image[i] = NoRow
      /\ desk' = [desk EXCEPT ![e] = NoDesk]
      /\ image' = [i \in Images |->
                    IF i \in new
                    THEN LET place == Cardinality({j \in new : j < i})
                         IN  [product |-> p, order |-> place, main |-> place = 0]
                    ELSE image[i]]
  BY DEF SaveForm
<1> HIDE DEF c, s
<1>4. /\ TreeSound' /\ Existing' = Existing /\ CountsRight'
      /\ product' \in [Products -> ProductRow \cup {NoRow}]
      /\ Offered' = Offered \cup {p} /\ p \notin Offered
  BY <1>2, <1>3, Created
<1>5. product[p] = NoRow
  BY <1>4 DEF Offered
<1>6. /\ image' \in [Images -> ImageRow \cup {NoRow}] /\ (Numbered(p) /\ OneMain(p))'
      /\ \A j \in Images \ new : image'[j] = image[j]
      /\ \A j \in new : image'[j].product = p
  BY <1>3, <1>5, GalleryBegins
<1>7. Existing \cup Offered \subseteq (Existing \cup Offered)'
  BY <1>4
<1>8. desk' \in [Editors -> Screens \cup Forms \cup {NoDesk}] /\ ScreensShowRows'
  BY <1>3, <1>7, ScreensOne
<1>9. CatalogShape'
  BY <1>4, <1>6, <1>8 DEF CatalogShape, TreeSound
<1>10. \A j \in Images : image'[j] # image[j] => image[j] = NoRow /\ image'[j].product = p
  BY <1>3, <1>6
<1>11. PhotosBelong' /\ GalleriesTidy'
  <2>1. Offered \ {p} = Offered' \ {p} /\ p \in Offered'
    BY <1>4
  <2>2. \A j \in Images : image'[j] # image[j] =>
          /\ image[j] = NoRow \/ image[j].product = p
          /\ image'[j] = NoRow \/ image'[j].product = p
    BY <1>10
  <2> QED  BY <1>6, <1>9, <2>1, <2>2, GalleryOf DEF CatalogInv
<1> QED  BY <1>4, <1>8, <1>9, <1>11 DEF CatalogInv, TreeSound

LEMMA CatalogStep == CatalogInv /\ [CatalogNext]_catalogVars => CatalogInv'
<1> SUFFICES ASSUME CatalogInv, [CatalogNext]_catalogVars PROVE CatalogInv'
  OBVIOUS
<1>1. CASE UNCHANGED catalogVars
  <2>1. UNCHANGED <<category, product, image>> /\ desk' = desk
    BY <1>1 DEF catalogVars
  <2>2. Existing \cup Offered \subseteq (Existing \cup Offered)'
    BY <2>1 DEF Existing, Offered
  <2> QED  BY <2>1, <2>2, ScreensSame, DeskSteps
<1>2. ASSUME NEW c \in Categories, NEW parent \in Categories \cup {NoParent}, CreateCategory(c, parent)
      PROVE  CatalogInv'
  BY <1>2, CatalogStepNew
<1>3. ASSUME NEW c \in Categories, NEW p \in Products, NEW s \in Skus, CreateProduct(p, c, s)
      PROVE  CatalogInv'
  BY <1>3, CatalogStepNew
<1>4. ASSUME NEW e \in Editors, LeaveDesk(e) \/ GivePhoto(e)
      PROVE  CatalogInv'
  BY <1>4, CatalogStepForms
<1>5. ASSUME NEW e \in Editors, NEW item \in Categories \cup Products, LookAt(e, item)
      PROVE  CatalogInv'
  BY <1>5, CatalogStepForms
<1>6. ASSUME NEW e \in Editors, NEW s \in Skus, GiveSku(e, s)
      PROVE  CatalogInv'
  BY <1>6, CatalogStepForms
<1>7. ASSUME NEW e \in Editors, NEW c \in Categories, OpenForm(e, c)
      PROVE  CatalogInv'
  BY <1>7, CatalogStepForms
<1>8. ASSUME NEW e \in Editors, NEW c \in Categories,
             \/ ToggleCategory(e, c) \/ ChangeCategoryImage(e, c) \/ DeleteCategory(e, c)
             \/ \E parent \in Categories \cup {NoParent} : MoveCategory(e, c, parent)
      PROVE  CatalogInv'
  BY <1>8, CatalogStepCategories
<1>9. ASSUME NEW e \in Editors, NEW c \in Categories, NEW p \in Products, MoveProduct(e, p, c)
      PROVE  CatalogInv'
  BY <1>9, CatalogStepProducts
<1>10. ASSUME NEW e \in Editors, NEW p \in Products, NEW s \in Skus, EditProduct(e, p, s)
       PROVE  CatalogInv'
  BY <1>10, CatalogStepProducts
<1>11. ASSUME NEW e \in Editors, NEW p \in Products, NEW i \in Images,
              \/ AddImage(e, p, i) \/ DeleteImage(e, p, i)
              \/ \E main \in BOOLEAN, sort \in 0 .. Cardinality(Images) : SetImage(e, p, i, main, sort)
       PROVE  CatalogInv'
  <2>1. \A sort \in 0 .. Cardinality(Images) : sort \in Nat
    BY CatalogAssumption, FS_CardinalityType
  <2> QED  BY <1>11, <2>1, CatalogStepImages
<1>12. ASSUME NEW e \in Editors, NEW p \in Products, NEW new \in SUBSET Images, SaveForm(e, p, new)
       PROVE  CatalogInv'
  BY <1>12, CatalogStepSave
<1>13. ASSUME NEW e \in Editors, NEW p \in Products, DeleteProduct(e, p)
       PROVE  CatalogInv'
  BY <1>13, CatalogStepDelete
<1> QED  BY <1>1, <1>2, <1>3, <1>4, <1>5, <1>6, <1>7, <1>8, <1>9, <1>10, <1>11, <1>12, <1>13
         DEF CatalogNext

\* Whatever old screens and half-filled forms are saved, in whatever order,
\* the tree has no cycle, customers see what has nothing hidden above it,
\* the counts are those of the products, and galleries are in order.
THEOREM CatalogHolds == CatalogSpec => []CatalogConsistent
<1>1. CatalogInv => CatalogConsistent
  BY PublicAbove DEF CatalogConsistent, CatalogInv
<1> QED  BY <1>1, CatalogStart, CatalogStep, PTL DEF CatalogSpec

-----------------------------------------------------------------------------
(* The move of the receipts. *)

Entry == [order: Orders, key: Key, content: Contents]
RunState == [at: {"rest", "next", "copy", "commit", "remove", "count", "failed"},
             todo: SUBSET Entry, entry: SUBSET Entry, held: SUBSET Orders]

ReceiptShape ==
    /\ row \in [Orders -> ReceiptRow]
    /\ public \in [Orders -> File]
    /\ private \in [Key -> File]
    /\ drawn \in 0 .. MaxFiles
    /\ evidence \in [Orders -> File]
CutoverShape == ReceiptShape /\ cutover \in [Runs -> RunState]

\* A row leads to what the customer sent: to a private file, or, before the
\* move, to public files that are nothing else.
RowTrue(o) ==
    IF row[o].key = 0
    THEN {public[o], row[o].telegram} \subseteq {NoFile, evidence[o]}
    ELSE row[o].key <= drawn /\ private[row[o].key] = evidence[o] /\ evidence[o] # NoFile
RowsTrue == \A o \in Orders : RowTrue(o)

\* An entry has a key that was drawn, and, as long as the row has no key,
\* what the customer sent.
EntryTrue(e) ==
    e \in Entry /\ e.key <= drawn /\ (row[e.order].key = 0 => e.content = evidence[e.order])
EntriesTrue ==
    /\ manifest # NoManifest => \A e \in manifest.entries : EntryTrue(e)
    /\ \A r \in Runs : \A e \in cutover[r].todo \cup cutover[r].entry : EntryTrue(e)

\* A row that is being moved is locked and has no key; its file is there
\* before its key; the key is there before the public file goes.
EntrySound(run, e) ==
    /\ run.at \in {"copy", "commit"} => e.order \in run.held /\ row[e.order].key = 0
    /\ run.at = "commit" => private[e.key] = e.content
    /\ run.at = "remove" => row[e.order].key # 0
Complete == \A o \in Orders : Relevant(o) => row[o].url = "none" /\ row[o].key # 0
RunSound(run) ==
    /\ \A e \in run.entry : EntrySound(run, e)
    /\ \A e, f \in run.entry : e = f
    /\ run.at = "count" => Complete
LockedOnce == \A r, s \in Runs : r # s => cutover[r].held \cap cutover[s].held = {}

CutoverInv ==
    /\ CutoverShape /\ RowsTrue /\ EntriesTrue
    /\ LockedOnce /\ \A r \in Runs : RunSound(cutover[r])

\* What a step of one run has to leave true for the others.
LEMMA RunGoesOn ==
    ASSUME CutoverInv, NEW r \in Runs, NEW run \in RunState, RunBecomes(r, run),
           manifest' = manifest, ReceiptShape', RowsTrue',
           \A e \in Entry : EntryTrue(e) => EntryTrue(e)',
           \A e \in run.todo \cup run.entry : EntryTrue(e),
           \A s \in Runs \ {r} : run.held \cap cutover[s].held = {},
           \A s \in Runs \ {r} : \A other \in RunState :
               cutover[s] = other => RunSound(other)',
           RunSound(run)'
    PROVE  CutoverInv'
<1>1. cutover \in [Runs -> RunState]
  BY DEF CutoverInv, CutoverShape
<1>2. /\ cutover' \in [Runs -> RunState]
      /\ cutover'[r] = run
      /\ \A s \in Runs \ {r} : cutover'[s] = cutover[s]
  BY <1>1 DEF RunBecomes
<1>3. CutoverShape'
  BY <1>2 DEF CutoverShape
<1>4. \A s \in Runs : \A e \in cutover[s].todo \cup cutover[s].entry : e \in Entry
  BY <1>1 DEF RunState
<1>5. EntriesTrue'
  <2>1. ASSUME NEW e, EntryTrue(e)  PROVE EntryTrue(e)'
    BY <2>1 DEF EntryTrue
  <2>2. ASSUME NEW s \in Runs  PROVE (\A e \in cutover[s].todo \cup cutover[s].entry : EntryTrue(e))'
    <3>1. CASE s = r
      BY <1>2, <2>1, <3>1
    <3>2. CASE s # r
      <4>1. \A e \in cutover[s].todo \cup cutover[s].entry : EntryTrue(e)
        BY DEF CutoverInv, EntriesTrue
      <4> QED BY <1>2, <2>1, <3>2, <4>1
    <3> QED BY <3>1, <3>2
  <2>3. manifest # NoManifest => \A e \in manifest.entries : EntryTrue(e)
    BY DEF CutoverInv, EntriesTrue
  <2>4. (manifest # NoManifest => \A e \in manifest.entries : EntryTrue(e))'
    BY <2>1, <2>3
  <2> QED BY <2>2, <2>4 DEF EntriesTrue
<1>6. LockedOnce'
  <2>1. LockedOnce
    BY DEF CutoverInv
  <2> QED BY <1>2, <2>1 DEF LockedOnce
<1>7. (\A s \in Runs : RunSound(cutover[s]))'
  <2>1. ASSUME NEW s \in Runs  PROVE RunSound(cutover[s])'
    <3>1. CASE s = r
      <4>1. cutover'[s] = run
        BY <1>2, <3>1
      <4> QED BY <4>1 DEF RunSound, EntrySound, Complete
    <3>2. CASE s # r
      <4>1. cutover[s] \in RunState /\ cutover'[s] = cutover[s]
        BY <1>1, <1>2, <3>2
      <4>2. PICK other \in RunState : other = cutover[s]
        BY <4>1
      <4>3. RunSound(other)'
        BY <3>2, <4>2
      <4> QED BY <4>1, <4>2, <4>3 DEF RunSound, EntrySound, Complete
    <3> QED BY <3>1, <3>2
  <2> QED BY <2>1
<1> QED BY <1>3, <1>5, <1>6, <1>7 DEF CutoverInv

\* Nothing but the run changes.
Files == <<row, public, private, drawn, manifest, evidence>>
Kept == \A o \in Orders : Reachable(o) /\ evidence[o] # NoFile => Reachable(o)'

LEMMA FilesAlone ==
    ASSUME CutoverInv, NEW r \in Runs, NEW run \in RunState, RunBecomes(r, run),
           UNCHANGED Files,
           \A e \in run.todo \cup run.entry : EntryTrue(e),
           \A s \in Runs \ {r} : run.held \cap cutover[s].held = {},
           RunSound(run)
    PROVE  CutoverInv' /\ Kept
<1>1. ReceiptShape' /\ RowsTrue'
  BY DEF CutoverInv, CutoverShape, ReceiptShape, RowsTrue, RowTrue, Files
<1>2. \A e \in Entry : EntryTrue(e) => EntryTrue(e)'
  BY DEF EntryTrue, Files
<1>3. ASSUME NEW other \in RunState, RunSound(other)  PROVE RunSound(other)'
  BY <1>3 DEF RunSound, EntrySound, Complete, Relevant, Files
<1>4. \A s \in Runs \ {r} : \A other \in RunState : cutover[s] = other => RunSound(other)'
  <2>1. \A s \in Runs : RunSound(cutover[s])
    BY DEF CutoverInv
  <2> QED BY <2>1, <1>3
<1>5. RunSound(run)'
  BY <1>3
<1>6. CutoverInv'
  BY <1>1, <1>2, <1>4, <1>5, RunGoesOn DEF Files
<1>7. Kept
  BY DEF Kept, Reachable, PrivateFile, Files
<1> QED BY <1>6, <1>7

LEMMA RunsAre ==
    ASSUME CutoverInv, NEW r \in Runs
    PROVE  /\ cutover[r] \in RunState
           /\ RunSound(cutover[r])
           /\ \A e \in cutover[r].todo \cup cutover[r].entry : EntryTrue(e)
           /\ \A s \in Runs \ {r} : cutover[r].held \cap cutover[s].held = {}
BY DEF CutoverInv, CutoverShape, EntriesTrue, LockedOnce

LEMMA NoRunSound == NoRun \in RunState /\ RunSound(NoRun)
BY DEF NoRun, RunState, RunSound

LEMMA LeaveKeeps ==
    ASSUME CutoverInv, NEW r \in Runs, Leave(r)
    PROVE  CutoverInv' /\ Kept
<1>1. NoRun.todo \cup NoRun.entry = {} /\ NoRun.held = {}
  BY DEF NoRun
<1> HIDE DEF NoRun
<1>2. RunBecomes(r, NoRun) /\ UNCHANGED Files
  BY DEF Leave, Files
<1> QED BY <1>1, <1>2, NoRunSound, FilesAlone

LEMMA BeginApplyKeeps ==
    ASSUME CutoverInv, NEW r \in Runs, BeginApply(r)
    PROVE  CutoverInv' /\ Kept
<1> DEFINE run == [NoRun EXCEPT !.at = "next", !.todo = manifest.entries]
<1>1. \A e \in manifest.entries : EntryTrue(e)
  BY DEF CutoverInv, EntriesTrue, BeginApply
<1>2. manifest.entries \subseteq Entry
  BY <1>1 DEF EntryTrue
<1>3. /\ run \in RunState /\ run.todo = manifest.entries /\ run.entry = {} /\ run.held = {}
      /\ run.at = "next"
  BY <1>2 DEF RunState, NoRun
<1>4. RunBecomes(r, run) /\ UNCHANGED Files
  BY DEF BeginApply, Files
<1> HIDE DEF run
<1>5. RunSound(run)
  BY <1>3 DEF RunSound
<1>6. \A e \in run.todo \cup run.entry : EntryTrue(e)
  BY <1>1, <1>3
<1> QED BY <1>3, <1>4, <1>5, <1>6, FilesAlone

LEMMA VerifyRowsKeeps ==
    ASSUME CutoverInv, NEW r \in Runs, VerifyRows(r)
    PROVE  CutoverInv' /\ Kept
<1>1. PICK withManifest \in BOOLEAN :
        RunBecomes(r, [NoRun EXCEPT !.at = IF Unresolved(withManifest) = {}
                                        THEN "count" ELSE "failed"])
  BY DEF VerifyRows
<1> DEFINE run == [NoRun EXCEPT !.at = IF Unresolved(withManifest) = {} THEN "count" ELSE "failed"]
<1>2. /\ run.todo = {} /\ run.entry = {} /\ run.held = {}
      /\ run.at = IF Unresolved(withManifest) = {} THEN "count" ELSE "failed"
      /\ run \in RunState
  BY DEF RunState, NoRun
<1>3. RunBecomes(r, run) /\ UNCHANGED Files
  BY <1>1 DEF VerifyRows, Files
<1> HIDE DEF run
<1>4. run.at = "count" => Complete
  <2>1. SUFFICES ASSUME run.at = "count", NEW o \in Orders, Relevant(o)
                 PROVE  row[o].url = "none" /\ row[o].key # 0
    BY DEF Complete
  <2>2. Unresolved(withManifest) = {}
    BY <1>2, <2>1
  <2>3. o \notin {q \in Orders : Relevant(q) /\ (row[q].url # "none" \/ PrivateFile(q) = NoFile)}
    BY <2>2 DEF Unresolved
  <2> QED BY <2>1, <2>3 DEF PrivateFile
<1>5. RunSound(run)
  BY <1>2, <1>4 DEF RunSound
<1>6. \A e \in run.todo \cup run.entry : EntryTrue(e)
  BY <1>2
<1> QED BY <1>2, <1>3, <1>5, <1>6, FilesAlone

\* What a run is after it took the next entry.
Steps == {"copy", "remove"}
TakenUp(r, e, step, held) ==
    [at |-> step, todo |-> cutover[r].todo \ {e}, entry |-> {e}, held |-> held]
GoesOn(r, e, step, held) ==
    \E run \in RunState :
        /\ RunBecomes(r, run)
        /\ run.at = step /\ run.entry = {e} /\ run.held = held
        /\ \A f \in run.todo \cup run.entry : EntryTrue(f)
        /\ \A s \in Runs \ {r} : run.held \cap cutover[s].held = {}
LEMMA TakeIs ==
    ASSUME CutoverInv, NEW r \in Runs, NEW e \in cutover[r].todo,
           NEW step \in Steps, NEW held \in SUBSET Orders,
           Turn(r, e), Take(r, e, step, held), held \subseteq cutover[r].held \cup {e.order}
    PROVE  GoesOn(r, e, step, held)
<1> DEFINE run == TakenUp(r, e, step, held)
<1>1. /\ cutover[r] \in RunState
      /\ \A f \in cutover[r].todo \cup cutover[r].entry : EntryTrue(f)
      /\ \A s \in Runs \ {r} : cutover[r].held \cap cutover[s].held = {}
  BY RunsAre
<1>2. EntryTrue(e) /\ e \in Entry
  BY <1>1 DEF EntryTrue
<1>3. /\ run.todo = cutover[r].todo \ {e} /\ run.entry = {e} /\ run.held = held /\ run.at = step
      /\ run \in RunState
  BY <1>1, <1>2 DEF TakenUp, Steps, RunState
<1>4. RunBecomes(r, run)
  BY DEF Take, TakenUp
<1> HIDE DEF run
<1>5. \A f \in run.todo \cup run.entry : EntryTrue(f)
  BY <1>1, <1>3
<1>6. \A s \in Runs \ {r} : run.held \cap cutover[s].held = {}
  <2>1. \A s \in Runs \ {r} : e.order \notin cutover[s].held
    BY <1>1 DEF Turn, ReceiptRowFree
  <2> QED BY <1>1, <1>3, <2>1
<1> QED BY <1>3, <1>4, <1>5, <1>6 DEF GoesOn

LEMMA AlreadyMigratedKeeps ==
    ASSUME CutoverInv, NEW r \in Runs, NEW e \in cutover[r].todo, AlreadyMigrated(r, e)
    PROVE  CutoverInv' /\ Kept
<1>1. EntryTrue(e) /\ e \in Entry /\ cutover[r] \in RunState
  BY RunsAre DEF EntryTrue
<1>2. PICK held \in SUBSET Orders : held = cutover[r].held \cup {e.order}
  BY <1>1 DEF RunState, Entry
<1>3. /\ Turn(r, e) /\ Take(r, e, "remove", held) /\ UNCHANGED Files
      /\ held \subseteq cutover[r].held \cup {e.order} /\ e.order \in held
  BY <1>2 DEF AlreadyMigrated, Files
<1>4. PICK run \in RunState :
          /\ RunBecomes(r, run)
          /\ run.at = "remove" /\ run.entry = {e} /\ run.held = held
          /\ \A f \in run.todo \cup run.entry : EntryTrue(f)
          /\ \A s \in Runs \ {r} : run.held \cap cutover[s].held = {}
  <2>1. "remove" \in Steps
    BY DEF Steps
  <2>2. GoesOn(r, e, "remove", held)
    BY <1>3, <2>1, TakeIs
  <2> QED BY <2>2 DEF GoesOn
<1>5. row[e.order].key # 0
  BY <1>1 DEF AlreadyMigrated, Migrated, Entry, Key
<1>6. RunSound(run)
  BY <1>4, <1>5 DEF RunSound, EntrySound
<1> QED BY <1>3, <1>4, <1>6, FilesAlone

LEMMA LockEntryKeeps ==
    ASSUME CutoverInv, NEW r \in Runs, NEW e \in cutover[r].todo, LockEntry(r, e)
    PROVE  CutoverInv' /\ Kept
<1>1. EntryTrue(e) /\ e \in Entry /\ cutover[r] \in RunState
  BY RunsAre DEF EntryTrue
<1>2. PICK held \in SUBSET Orders : held = cutover[r].held \cup {e.order}
  BY <1>1 DEF RunState, Entry
<1>3. /\ Turn(r, e) /\ Take(r, e, "copy", held) /\ UNCHANGED Files
      /\ held \subseteq cutover[r].held \cup {e.order} /\ e.order \in held
  BY <1>2 DEF LockEntry, Files
<1>4. PICK run \in RunState :
          /\ RunBecomes(r, run)
          /\ run.at = "copy" /\ run.entry = {e} /\ run.held = held
          /\ \A f \in run.todo \cup run.entry : EntryTrue(f)
          /\ \A s \in Runs \ {r} : run.held \cap cutover[s].held = {}
  <2>1. "copy" \in Steps
    BY DEF Steps
  <2>2. GoesOn(r, e, "copy", held)
    BY <1>3, <2>1, TakeIs
  <2> QED BY <2>2 DEF GoesOn
<1>5. row[e.order].key = 0
  BY DEF LockEntry, AsPlanned
<1>6. RunSound(run)
  BY <1>2, <1>4, <1>5 DEF RunSound, EntrySound
<1> QED BY <1>3, <1>4, <1>6, FilesAlone

\* A row that has a key keeps one, and only a row that had none lets the
\* receipt the customer sent change hands.
LEMMA DropUrlKeeps ==
    ASSUME CutoverInv, NEW r \in Runs, NEW e \in cutover[r].todo, DropUrl(r, e)
    PROVE  CutoverInv' /\ Kept
<1>1. EntryTrue(e) /\ e \in Entry /\ cutover[r] \in RunState /\ e.order \in Orders
  BY RunsAre DEF EntryTrue, Entry
<1>2. PICK held \in SUBSET Orders : held = {}
  OBVIOUS
<1>3. Turn(r, e) /\ Take(r, e, "remove", held) /\ held \subseteq cutover[r].held \cup {e.order}
  BY <1>2 DEF DropUrl
<1>4. PICK run \in RunState :
          /\ RunBecomes(r, run)
          /\ run.at = "remove" /\ run.entry = {e} /\ run.held = held
          /\ \A f \in run.todo \cup run.entry : EntryTrue(f)
          /\ \A s \in Runs \ {r} : run.held \cap cutover[s].held = {}
  <2>1. "remove" \in Steps
    BY DEF Steps
  <2>2. GoesOn(r, e, "remove", held)
    BY <1>3, <2>1, TakeIs
  <2> QED BY <2>2 DEF GoesOn
<1>5. row \in [Orders -> ReceiptRow]
  BY DEF CutoverInv, CutoverShape, ReceiptShape
<1>6. /\ row' \in [Orders -> ReceiptRow]
      /\ \A o \in Orders : row'[o].key = row[o].key /\ row'[o].telegram = row[o].telegram
      /\ \A o \in Orders \ {e.order} : row'[o] = row[o]
      /\ row'[e.order].url = "none"
  BY <1>1, <1>5 DEF DropUrl, ReceiptRow
<1>7. row[e.order].key = e.key /\ private[e.key] = e.content /\ row[e.order].key # 0
  BY <1>1 DEF DropUrl, Migrated, Entry, Key
<1>8. UNCHANGED <<public, private, drawn, manifest, evidence>>
  BY DEF DropUrl
<1>9. ReceiptShape' /\ RowsTrue'
  BY <1>6, <1>8 DEF CutoverInv, CutoverShape, ReceiptShape, RowsTrue, RowTrue
<1>10. \A f \in Entry : EntryTrue(f) => EntryTrue(f)'
  BY <1>6, <1>8 DEF EntryTrue, Entry
<1>11. ASSUME NEW other \in RunState, RunSound(other)  PROVE RunSound(other)'
  <2>1. \A f \in other.entry : f.order \in Orders
    BY DEF RunState, Entry
  <2>2. \A f \in other.entry : EntrySound(other, f)'
    BY <1>6, <1>8, <1>11, <2>1 DEF RunSound, EntrySound
  <2>3. Complete => Complete'
    BY <1>6, <1>7, <1>8 DEF Complete, Relevant
  <2> QED BY <1>11, <2>2, <2>3 DEF RunSound
<1>12. \A s \in Runs \ {r} : \A other \in RunState : cutover[s] = other => RunSound(other)'
  <2>1. \A s \in Runs : RunSound(cutover[s])
    BY DEF CutoverInv
  <2> QED BY <2>1, <1>11
<1>13. RunSound(run)'
  BY <1>1, <1>4, <1>6, <1>7 DEF RunSound, EntrySound
<1>14. CutoverInv'
  BY <1>4, <1>8, <1>9, <1>10, <1>12, <1>13, RunGoesOn
<1>15. Kept
  BY <1>6, <1>7, <1>8 DEF Kept, Reachable, PrivateFile
<1> QED BY <1>14, <1>15

LEMMA CommitReferenceKeeps ==
    ASSUME CutoverInv, NEW r \in Runs, NEW e \in cutover[r].entry, CommitReference(r, e)
    PROVE  CutoverInv' /\ Kept
<1>1. /\ EntryTrue(e) /\ e \in Entry /\ cutover[r] \in RunState /\ e.order \in Orders /\ e.key \in Key
      /\ cutover[r].at = "commit" /\ RunSound(cutover[r])
      /\ \A f \in cutover[r].todo \cup cutover[r].entry : EntryTrue(f)
      /\ \A s \in Runs \ {r} : cutover[r].held \cap cutover[s].held = {}
  BY RunsAre DEF EntryTrue, Entry, CommitReference, Stands
<1>2. PICK run \in RunState :
          /\ run = [cutover[r] EXCEPT !.at = "remove", !.held = {}]
          /\ run.at = "remove" /\ run.held = {}
          /\ run.todo = cutover[r].todo /\ run.entry = cutover[r].entry
  <2> DEFINE was == cutover[r]
  <2>1. was \in RunState
    BY <1>1
  <2> HIDE DEF was
  <2>2. [was EXCEPT !.at = "remove", !.held = {}] \in RunState
    BY <2>1 DEF RunState
  <2>3. PICK run \in RunState : run = [was EXCEPT !.at = "remove", !.held = {}]
    BY <2>2
  <2>4. /\ run.at = "remove" /\ run.held = {}
        /\ run.todo = was.todo /\ run.entry = was.entry
    BY <2>1, <2>3 DEF RunState
  <2> QED BY <2>3, <2>4 DEF was
<1>3. RunBecomes(r, run)
  BY <1>2 DEF CommitReference
<1>4. row[e.order].key = 0 /\ private[e.key] = e.content /\ e.order \in cutover[r].held
  BY <1>1 DEF RunSound, EntrySound
<1>5. row \in [Orders -> ReceiptRow] /\ e.content = evidence[e.order] /\ e.content # NoFile
  BY <1>1, <1>4, CutoverAssumption
     DEF CutoverInv, CutoverShape, ReceiptShape, EntryTrue, Entry
<1>6. /\ row' \in [Orders -> ReceiptRow]
      /\ \A o \in Orders \ {e.order} : row'[o] = row[o]
      /\ row'[e.order].url = "none" /\ row'[e.order].key = e.key
  BY <1>1, <1>5 DEF CommitReference, ReceiptRow
<1>7. e.key # 0
  BY <1>1 DEF Key
<1>8. UNCHANGED <<public, private, drawn, manifest, evidence>>
  BY DEF CommitReference
<1>9. ReceiptShape'
  BY <1>6, <1>8 DEF CutoverInv, CutoverShape, ReceiptShape
<1>10. RowsTrue'
  BY <1>1, <1>4, <1>5, <1>6, <1>7, <1>8 DEF CutoverInv, RowsTrue, RowTrue, EntryTrue
<1>11. \A f \in Entry : EntryTrue(f) => EntryTrue(f)'
  BY <1>6, <1>7, <1>8 DEF EntryTrue, Entry
<1>12. ASSUME NEW s \in Runs \ {r}, NEW other \in RunState, cutover[s] = other
       PROVE  RunSound(other)'
  <2>1. RunSound(other) /\ e.order \notin other.held
    BY <1>1, <1>4, <1>12, RunsAre
  <2>2. \A f \in other.entry : f.order \in Orders
    BY DEF RunState, Entry
  <2>3. \A f \in other.entry : EntrySound(other, f)'
    BY <1>6, <1>7, <1>8, <2>1, <2>2 DEF RunSound, EntrySound
  <2>4. Complete => Complete'
    BY <1>6, <1>7, <1>8 DEF Complete, Relevant
  <2> QED BY <2>1, <2>3, <2>4 DEF RunSound
<1>13. RunSound(run)'
  <2>1. ASSUME NEW f \in run.entry  PROVE row'[f.order].key # 0
    BY <1>1, <1>2, <1>6, <1>7 DEF RunSound
  <2>2. \A f \in run.entry : EntrySound(run, f)'
    BY <1>2, <2>1 DEF EntrySound
  <2> QED BY <1>1, <1>2, <2>2 DEF RunSound
<1>14. CutoverInv'
  <2>1. \A f \in run.todo \cup run.entry : EntryTrue(f)
    BY <1>1, <1>2
  <2>2. \A s \in Runs \ {r} : run.held \cap cutover[s].held = {}
    BY <1>2
  <2>3. run \in RunState /\ manifest' = manifest
    BY <1>2, <1>8
  <2> QED BY <1>3, <1>9, <1>10, <1>11, <1>12, <1>13, <2>1, <2>2, <2>3, RunGoesOn
<1>15. Kept
  BY <1>4, <1>5, <1>6, <1>7, <1>8 DEF Kept, Reachable, PrivateFile
<1> QED BY <1>14, <1>15

\* A file is only ever put where there was none.
LEMMA CopyKeeps ==
    ASSUME CutoverInv, NEW r \in Runs, NEW e \in cutover[r].entry, Copy(r, e)
    PROVE  CutoverInv' /\ Kept
<1>1. /\ EntryTrue(e) /\ e \in Entry /\ cutover[r] \in RunState /\ e.order \in Orders /\ e.key \in Key
      /\ cutover[r].at = "copy" /\ RunSound(cutover[r]) /\ e.content \in Contents
      /\ \A f \in cutover[r].todo \cup cutover[r].entry : EntryTrue(f)
      /\ \A s \in Runs \ {r} : cutover[r].held \cap cutover[s].held = {}
  BY RunsAre DEF EntryTrue, Entry, Copy, Stands
<1>2. PICK run \in RunState :
          /\ run = [cutover[r] EXCEPT !.at = "commit"]
          /\ run.at = "commit" /\ run.held = cutover[r].held
          /\ run.todo = cutover[r].todo /\ run.entry = cutover[r].entry
  <2> DEFINE was == cutover[r]
  <2>1. was \in RunState
    BY <1>1
  <2> HIDE DEF was
  <2>2. [was EXCEPT !.at = "commit"] \in RunState
    BY <2>1 DEF RunState
  <2>3. PICK run \in RunState : run = [was EXCEPT !.at = "commit"]
    BY <2>2
  <2>4. /\ run.at = "commit" /\ run.held = was.held
        /\ run.todo = was.todo /\ run.entry = was.entry
    BY <2>1, <2>3 DEF RunState
  <2> QED BY <2>3, <2>4 DEF was
<1>3. RunBecomes(r, run)
  BY <1>2 DEF Copy
<1>4. private \in [Key -> File] /\ public \in [Orders -> File] /\ NoFile \notin Contents
  BY CutoverAssumption DEF CutoverInv, CutoverShape, ReceiptShape
<1>5. /\ private' \in [Key -> File]
      /\ \A k \in Key : private[k] # NoFile => private'[k] = private[k]
      /\ private'[e.key] = e.content
  BY <1>1, <1>4 DEF Copy, CopySucceeds
<1>6. UNCHANGED <<row, public, drawn, manifest, evidence>>
  BY DEF Copy
<1>7. row \in [Orders -> ReceiptRow] /\ \A o \in Orders : row[o].key \in Key \cup {0}
  BY DEF CutoverInv, CutoverShape, ReceiptShape, ReceiptRow
<1>8. ReceiptShape'
  BY <1>5, <1>6 DEF CutoverInv, CutoverShape, ReceiptShape
<1>9. RowsTrue'
  BY <1>5, <1>6, <1>7 DEF CutoverInv, RowsTrue, RowTrue
<1>10. \A f \in Entry : EntryTrue(f) => EntryTrue(f)'
  BY <1>6 DEF EntryTrue
<1>11. Complete => Complete'
  BY <1>6 DEF Complete, Relevant
<1>12. ASSUME NEW s \in Runs \ {r}, NEW other \in RunState, cutover[s] = other
       PROVE  RunSound(other)'
  <2>1. RunSound(other)
    BY <1>12, RunsAre
  <2>2. \A f \in other.entry : f.key \in Key /\ f.content \in Contents
    BY DEF RunState, Entry
  <2>3. \A f \in other.entry : EntrySound(other, f)'
    BY <1>4, <1>5, <1>6, <2>1, <2>2 DEF RunSound, EntrySound
  <2> QED BY <1>11, <2>1, <2>3 DEF RunSound
<1>13. RunSound(run)'
  <2>1. \A f \in run.entry : f = e
    BY <1>1, <1>2 DEF RunSound
  <2>2. e.order \in run.held /\ row'[e.order].key = 0
    BY <1>1, <1>2, <1>6 DEF RunSound, EntrySound
  <2>3. EntrySound(run, e)'
    BY <1>2, <1>5, <2>2 DEF EntrySound
  <2> QED BY <1>2, <2>1, <2>3 DEF RunSound
<1>14. CutoverInv'
  <2>1. \A f \in run.todo \cup run.entry : EntryTrue(f)
    BY <1>1, <1>2
  <2>2. \A s \in Runs \ {r} : run.held \cap cutover[s].held = {}
    BY <1>1, <1>2
  <2>3. run \in RunState /\ manifest' = manifest
    BY <1>6
  <2> QED BY <1>3, <1>8, <1>9, <1>10, <1>12, <1>13, <2>1, <2>2, <2>3, RunGoesOn
<1>15. Kept
  BY <1>5, <1>6, <1>7 DEF Kept, Reachable, PrivateFile
<1> QED BY <1>14, <1>15

\* The public file goes when the row leads to the private one.
LEMMA RemoveSourceKeeps ==
    ASSUME CutoverInv, NEW r \in Runs, NEW e \in cutover[r].entry, RemoveSource(r, e)
    PROVE  CutoverInv' /\ Kept
<1>1. /\ cutover[r] \in RunState /\ cutover[r].at = "remove" /\ RunSound(cutover[r])
      /\ e \in Entry /\ e.order \in Orders
      /\ \A f \in cutover[r].todo \cup cutover[r].entry : EntryTrue(f)
      /\ \A s \in Runs \ {r} : cutover[r].held \cap cutover[s].held = {}
  BY RunsAre DEF EntryTrue, Entry, RemoveSource, Stands
<1>2. PICK run \in RunState :
          /\ run = [cutover[r] EXCEPT !.at = "next", !.entry = {}]
          /\ run.at = "next" /\ run.held = cutover[r].held
          /\ run.todo = cutover[r].todo /\ run.entry = {}
  <2> DEFINE was == cutover[r]
  <2>1. was \in RunState
    BY <1>1
  <2> HIDE DEF was
  <2>2. [was EXCEPT !.at = "next", !.entry = {}] \in RunState
    BY <2>1 DEF RunState
  <2>3. PICK run \in RunState : run = [was EXCEPT !.at = "next", !.entry = {}]
    BY <2>2
  <2>4. /\ run.at = "next" /\ run.held = was.held
        /\ run.todo = was.todo /\ run.entry = {}
    BY <2>1, <2>3 DEF RunState
  <2> QED BY <2>3, <2>4 DEF was
<1>3. RunBecomes(r, run)
  BY <1>2 DEF RemoveSource
<1>4. row[e.order].key # 0
  BY <1>1 DEF RunSound, EntrySound
<1>5. /\ public' \in [Orders -> File]
      /\ \A o \in Orders \ {e.order} : public'[o] = public[o]
  BY <1>1 DEF RemoveSource, CutoverInv, CutoverShape, ReceiptShape, File
<1>6. UNCHANGED <<row, private, drawn, manifest, evidence>>
  BY DEF RemoveSource
<1>7. ReceiptShape'
  BY <1>5, <1>6 DEF CutoverInv, CutoverShape, ReceiptShape
<1>8. RowsTrue'
  BY <1>4, <1>5, <1>6 DEF CutoverInv, RowsTrue, RowTrue
<1>9. \A f \in Entry : EntryTrue(f) => EntryTrue(f)'
  BY <1>6 DEF EntryTrue
<1>10. ASSUME NEW other \in RunState, RunSound(other)  PROVE RunSound(other)'
  BY <1>6, <1>10 DEF RunSound, EntrySound, Complete, Relevant
<1>11. ASSUME NEW s \in Runs \ {r}, NEW other \in RunState, cutover[s] = other
       PROVE  RunSound(other)'
  BY <1>10, <1>11, RunsAre
<1>12. RunSound(run)'
  BY <1>2 DEF RunSound
<1>13. CutoverInv'
  <2>1. \A f \in run.todo \cup run.entry : EntryTrue(f)
    BY <1>1, <1>2
  <2>2. \A s \in Runs \ {r} : run.held \cap cutover[s].held = {}
    BY <1>1, <1>2
  <2>3. run \in RunState /\ manifest' = manifest
    BY <1>6
  <2> QED BY <1>3, <1>7, <1>8, <1>9, <1>11, <1>12, <2>1, <2>2, <2>3, RunGoesOn
<1>14. Kept
  BY <1>4, <1>5, <1>6 DEF Kept, Reachable, PrivateFile
<1> QED BY <1>13, <1>14

-----------------------------------------------------------------------------
(* The shop and the dry run beside them. *)

\* A step that leaves the runs alone.
LEMMA BesideTheRuns ==
    ASSUME CutoverInv, cutover' = cutover, ReceiptShape', RowsTrue',
           \A e \in Entry : EntryTrue(e) => EntryTrue(e)',
           (manifest # NoManifest => \A e \in manifest.entries : EntryTrue(e))',
           \A s \in Runs : \A other \in RunState : cutover[s] = other => RunSound(other)'
    PROVE  CutoverInv'
<1>1. cutover \in [Runs -> RunState] /\ LockedOnce
  BY DEF CutoverInv, CutoverShape
<1>2. CutoverShape' /\ LockedOnce'
  BY <1>1 DEF CutoverShape, LockedOnce
<1>3. ASSUME NEW s \in Runs  PROVE (\A e \in cutover[s].todo \cup cutover[s].entry : EntryTrue(e))'
  <2>1. \A e \in cutover[s].todo \cup cutover[s].entry : EntryTrue(e)
    BY RunsAre
  <2>2. \A e : EntryTrue(e) => e \in Entry
    BY DEF EntryTrue
  <2> QED BY <2>1, <2>2
<1>4. EntriesTrue'
  BY <1>3 DEF EntriesTrue
<1>5. ASSUME NEW s \in Runs  PROVE RunSound(cutover[s])'
  <2>1. PICK other \in RunState : other = cutover[s]
    BY <1>1
  <2>2. RunSound(other)'
    BY <2>1
  <2> QED BY <2>1, <2>2 DEF RunSound, EntrySound, Complete
<1> QED BY <1>2, <1>4, <1>5 DEF CutoverInv

LEMMA RestoreReceiptKeeps ==
    ASSUME CutoverInv, NEW o \in Orders, RestoreReceipt(o)
    PROVE  CutoverInv' /\ Kept
<1>1. row \in [Orders -> ReceiptRow] /\ row[o].telegram \in File
  BY DEF CutoverInv, CutoverShape, ReceiptShape, ReceiptRow
<1>2. /\ public' \in [Orders -> File]
      /\ public'[o] = row[o].telegram
      /\ \A q \in Orders \ {o} : public'[q] = public[q]
  BY <1>1 DEF RestoreReceipt, CutoverInv, CutoverShape, ReceiptShape
<1>3. UNCHANGED <<row, private, drawn, manifest, cutover, evidence>>
  BY DEF RestoreReceipt
<1>4. ReceiptShape'
  BY <1>2, <1>3 DEF CutoverInv, CutoverShape, ReceiptShape
<1>5. RowsTrue'
  BY <1>2, <1>3 DEF CutoverInv, RowsTrue, RowTrue
<1>6. \A e : EntryTrue(e) => EntryTrue(e)'
  BY <1>3 DEF EntryTrue
<1>7. (manifest # NoManifest => \A e \in manifest.entries : EntryTrue(e))'
  BY <1>3, <1>6 DEF CutoverInv, EntriesTrue
<1>8. ASSUME NEW s \in Runs, NEW other \in RunState, cutover[s] = other  PROVE RunSound(other)'
  <2>1. RunSound(other)
    BY <1>8, RunsAre
  <2> QED BY <1>3, <2>1 DEF RunSound, EntrySound, Complete, Relevant
<1>9. CutoverInv'
  BY <1>3, <1>4, <1>5, <1>6, <1>7, <1>8, BesideTheRuns
<1>10. Kept
  BY <1>2, <1>3 DEF Kept, Reachable, PrivateFile, CutoverInv, RowsTrue, RowTrue, RestoreReceipt
<1> QED BY <1>9, <1>10

LEMMA ReplaceReceiptKeeps ==
    ASSUME CutoverInv, NEW o \in Orders, NEW c \in Contents, ReplaceReceipt(o, c)
    PROVE  CutoverInv' /\ Kept
<1> DEFINE k == drawn + 1
<1>1. k \in Key /\ drawn \in Nat /\ k # 0 /\ k = drawn + 1 /\ drawn < MaxFiles /\ MaxFiles \in Nat
  BY CutoverAssumption DEF CutoverInv, CutoverShape, ReceiptShape, ReplaceReceipt, Key
<1>2. PICK telegram \in {c, NoFile} :
        row' = [row EXCEPT ![o] = [key |-> k, url |-> "none", telegram |-> telegram]]
  BY DEF ReplaceReceipt
<1>3. /\ private' = [private EXCEPT ![k] = c] /\ evidence' = [evidence EXCEPT ![o] = c]
      /\ drawn' = k /\ UNCHANGED <<public, manifest, cutover>> /\ ReceiptRowFree(o)
  BY DEF ReplaceReceipt
<1> HIDE DEF k
<1>4. /\ row \in [Orders -> ReceiptRow] /\ private \in [Key -> File] /\ evidence \in [Orders -> File]
      /\ public \in [Orders -> File] /\ c \in File /\ c # NoFile
      /\ \A q \in Orders : row[q].key \in Key \cup {0}
  BY CutoverAssumption DEF CutoverInv, CutoverShape, ReceiptShape, ReceiptRow, File
<1>5. [key |-> k, url |-> "none", telegram |-> telegram] \in ReceiptRow
  BY <1>1, <1>4 DEF ReceiptRow, File
<1>6. /\ row' \in [Orders -> ReceiptRow]
      /\ row'[o].key = k /\ row'[o].url = "none"
      /\ \A q \in Orders \ {o} : row'[q] = row[q]
  BY <1>2, <1>4, <1>5
<1>7. /\ private' \in [Key -> File] /\ private'[k] = c
      /\ \A j \in Key \ {k} : private'[j] = private[j]
      /\ evidence' \in [Orders -> File] /\ evidence'[o] = c
      /\ \A q \in Orders \ {o} : evidence'[q] = evidence[q]
  BY <1>1, <1>3, <1>4
<1>8. ReceiptShape'
  BY <1>1, <1>3, <1>4, <1>6, <1>7 DEF ReceiptShape
<1>9. \A j \in Key : j <= drawn => j # k /\ j <= drawn'
  BY <1>1, <1>3 DEF Key
<1>10. RowsTrue'
  <2>1. ASSUME NEW q \in Orders  PROVE RowTrue(q)'
    <3>1. CASE q = o
      <4>1. drawn' = k /\ k <= k
        BY <1>1, <1>3
      <4> QED BY <1>1, <1>4, <1>6, <1>7, <3>1, <4>1 DEF RowTrue
    <3>2. CASE q # o
      <4>1. RowTrue(q)
        BY DEF CutoverInv, RowsTrue
      <4> QED BY <1>3, <1>4, <1>6, <1>7, <1>9, <3>2, <4>1 DEF RowTrue
    <3> QED BY <3>1, <3>2
  <2> QED BY <2>1 DEF RowsTrue
<1>11. \A e \in Entry : EntryTrue(e) => EntryTrue(e)'
  <2>1. ASSUME NEW e \in Entry, EntryTrue(e)  PROVE EntryTrue(e)'
    <3>1. e.key \in Key /\ e.order \in Orders
      BY DEF Entry
    <3>2. e.key <= drawn'
      BY <1>9, <2>1, <3>1 DEF EntryTrue
    <3>3. row'[e.order].key = 0 => e.content = evidence'[e.order]
      BY <1>1, <1>6, <1>7, <2>1, <3>1 DEF EntryTrue
    <3> QED BY <3>2, <3>3 DEF EntryTrue
  <2> QED BY <2>1
<1>12. (manifest # NoManifest => \A e \in manifest.entries : EntryTrue(e))'
  <2>1. \A e : EntryTrue(e) => e \in Entry
    BY DEF EntryTrue
  <2> QED BY <1>3, <1>11, <2>1 DEF CutoverInv, EntriesTrue
<1>13. Complete => Complete'
  BY <1>1, <1>6 DEF Complete, Relevant
<1>14. ASSUME NEW s \in Runs, NEW other \in RunState, cutover[s] = other  PROVE RunSound(other)'
  <2>1. RunSound(other) /\ \A f \in other.entry : EntryTrue(f)
    BY <1>14, RunsAre
  <2>2. \A f \in other.entry : f.order \in Orders /\ f.key \in Key /\ f.key <= drawn
    BY <2>1 DEF RunState, Entry, EntryTrue
  <2>3. o \notin other.held
    BY <1>3, <1>14 DEF ReceiptRowFree
  <2>4. \A f \in other.entry : EntrySound(other, f)'
    BY <1>1, <1>6, <1>7, <1>9, <2>1, <2>2, <2>3 DEF RunSound, EntrySound
  <2> QED BY <1>13, <2>1, <2>4 DEF RunSound
<1>15. CutoverInv'
  BY <1>3, <1>8, <1>10, <1>11, <1>12, <1>14, BesideTheRuns
<1>16. Kept
  <2>1. ASSUME NEW q \in Orders, Reachable(q)  PROVE Reachable(q)'
    <3>1. CASE q = o
      BY <1>1, <1>6, <1>7, <3>1 DEF Reachable, PrivateFile
    <3>2. CASE q # o
      <4>1. RowTrue(q)
        BY DEF CutoverInv, RowsTrue
      <4> QED BY <1>3, <1>4, <1>6, <1>7, <1>9, <2>1, <3>2, <4>1 DEF Reachable, PrivateFile, RowTrue
    <3> QED BY <3>1, <3>2
  <2> QED BY <2>1 DEF Kept
<1> QED BY <1>15, <1>16

LEMMA DryRunKeeps ==
    ASSUME CutoverInv, NEW r \in Runs, DryRun(r)
    PROVE  CutoverInv' /\ Kept
<1> DEFINE moves == {o \in Orders : ResolvedPublic(o)}
           upTo(o) == {q \in moves : q <= o}
           kept(orders) == {[order |-> o, key |-> row[o].key, content |-> PrivateFile(o)] : o \in orders}
           fresh == {[order |-> o, key |-> drawn + Cardinality(upTo(o)), content |-> public[o]] : o \in moves}
           equal == {o \in Orders : ResolvedPrivate(o) /\ row[o].url = "own"}
<1>1. /\ drawn' = drawn + Cardinality(moves) /\ drawn + Cardinality(moves) <= MaxFiles
      /\ UNCHANGED <<row, public, private, cutover, evidence>>
  BY DEF DryRun
<1>2. manifest'.entries = fresh \cup kept(equal)
  BY DEF DryRun
<1>3. /\ row \in [Orders -> ReceiptRow] /\ public \in [Orders -> File] /\ private \in [Key -> File]
      /\ drawn \in Nat /\ MaxFiles \in Nat /\ evidence \in [Orders -> File]
      /\ \A q \in Orders : row[q].key \in Key \cup {0}
  BY CutoverAssumption DEF CutoverInv, CutoverShape, ReceiptShape, ReceiptRow
<1>4. /\ IsFiniteSet(moves) /\ Cardinality(moves) \in Nat
      /\ \A o \in moves : Cardinality(upTo(o)) \in 1 .. Cardinality(moves)
  <2>1. IsFiniteSet(moves)
    <3>1. moves \subseteq Orders
      OBVIOUS
    <3> HIDE DEF moves
    <3> QED BY <3>1, CutoverAssumption, FS_Subset
  <2>2. Cardinality(moves) \in Nat
    BY <2>1, FS_CardinalityType
  <2>3. ASSUME NEW o \in moves  PROVE Cardinality(upTo(o)) \in 1 .. Cardinality(moves)
    <3> DEFINE some == upTo(o)
    <3>1. o \in Nat /\ some \subseteq moves
      BY CutoverAssumption
    <3>2. o \in some
      BY <3>1
    <3> HIDE DEF some, moves
    <3>3. IsFiniteSet(some) /\ Cardinality(some) <= Cardinality(moves)
      BY <2>1, <3>1, FS_Subset
    <3>4. Cardinality(some) \in Nat /\ Cardinality(some) # 0
      BY <3>2, <3>3, FS_CardinalityType, FS_EmptySet
    <3>5. Cardinality(some) \in 1 .. Cardinality(moves)
      BY <2>2, <3>3, <3>4
    <3> QED BY <3>5 DEF some
  <2> QED BY <2>1, <2>2, <2>3
<1>5. drawn' \in 0 .. MaxFiles /\ drawn <= drawn'
  <2> HIDE DEF moves
  <2> QED BY <1>1, <1>3, <1>4
<1>6. ASSUME NEW e \in fresh  PROVE EntryTrue(e)'
  <2>1. PICK o \in moves : e = [order |-> o, key |-> drawn + Cardinality(upTo(o)), content |-> public[o]]
    OBVIOUS
  <2>2. /\ o \in Orders /\ row[o].key = 0 /\ public[o] # NoFile /\ public[o] \in File
        /\ public[o] = evidence[o] /\ public[o] \in Contents
    BY <1>3 DEF ResolvedPublic, CutoverInv, RowsTrue, RowTrue, File
  <2>3. Cardinality(upTo(o)) \in 1 .. Cardinality(moves)
    BY <1>4
  <2> HIDE DEF upTo, moves
  <2>4. /\ drawn + Cardinality(upTo(o)) \in Key
        /\ drawn + Cardinality(upTo(o)) <= drawn'
    BY <1>1, <1>3, <1>4, <2>3 DEF Key
  <2>5. /\ e \in Entry /\ e.order = o /\ e.key <= drawn' /\ e.content = evidence[o]
    BY <2>1, <2>2, <2>4 DEF Entry
  <2> QED BY <1>1, <2>5 DEF EntryTrue
<1>7. ASSUME NEW e \in kept(equal)  PROVE EntryTrue(e)'
  <2>1. PICK o \in equal : e = [order |-> o, key |-> row[o].key, content |-> PrivateFile(o)]
    OBVIOUS
  <2>2. o \in Orders /\ PrivateFile(o) # NoFile
    BY DEF ResolvedPrivate
  <2>3. row[o].key # 0 /\ row[o].key \in Key /\ PrivateFile(o) \in Contents
    BY <1>3, <2>2 DEF PrivateFile, File
  <2>4. row[o].key <= drawn /\ row[o].key \in Nat
    BY <2>2, <2>3 DEF CutoverInv, RowsTrue, RowTrue, Key
  <2>5. row[o].key <= drawn'
    BY <1>3, <1>5, <2>4
  <2>6. /\ e \in Entry /\ e.order = o /\ e.key = row[o].key
    BY <2>1, <2>2, <2>3 DEF Entry
  <2> QED BY <1>1, <2>3, <2>5, <2>6 DEF EntryTrue
<1>8. (manifest # NoManifest => \A e \in manifest.entries : EntryTrue(e))'
  <2> HIDE DEF fresh, kept, equal
  <2> QED BY <1>2, <1>6, <1>7
<1> HIDE DEF moves
<1>9. ReceiptShape'
  BY <1>1, <1>5 DEF CutoverInv, CutoverShape, ReceiptShape
<1>10. RowsTrue'
  <2>1. ASSUME NEW q \in Orders  PROVE RowTrue(q)'
    <3>1. RowTrue(q)
      BY DEF CutoverInv, RowsTrue
    <3>2. row[q].key \in Nat
      BY <1>3 DEF Key
    <3>3. row[q].key <= drawn => row[q].key <= drawn'
      BY <1>3, <1>5, <3>2
    <3> QED BY <1>1, <3>1, <3>3 DEF RowTrue
  <2> QED BY <2>1 DEF RowsTrue
<1>11. \A e \in Entry : EntryTrue(e) => EntryTrue(e)'
  <2>1. ASSUME NEW e \in Entry, e.key <= drawn  PROVE e.key <= drawn'
    <3>1. e.key \in Nat
      BY DEF Entry, Key
    <3> QED BY <1>3, <1>5, <2>1, <3>1
  <2> QED BY <1>1, <2>1 DEF EntryTrue
<1>12. ASSUME NEW s \in Runs, NEW other \in RunState, cutover[s] = other  PROVE RunSound(other)'
  <2>1. RunSound(other)
    BY <1>12, RunsAre
  <2> QED BY <1>1, <2>1 DEF RunSound, EntrySound, Complete, Relevant
<1>13. CutoverInv'
  BY <1>1, <1>8, <1>9, <1>10, <1>11, <1>12, BesideTheRuns
<1>14. Kept
  BY <1>1 DEF Kept, Reachable, PrivateFile
<1> QED BY <1>13, <1>14

-----------------------------------------------------------------------------
(* The two results. *)

LEMMA CutoverStarts == CutoverInit => CutoverInv
<1> SUFFICES ASSUME CutoverInit PROVE CutoverInv
  OBVIOUS
<1>1. PICK legacy \in [Orders -> Legacy] :
        /\ row = [o \in Orders |-> legacy[o].row]
        /\ public = [o \in Orders |-> legacy[o].public]
        /\ evidence = [o \in Orders |-> legacy[o].sent]
        /\ drawn = Cardinality({o \in Orders : legacy[o].row.key # 0})
        /\ {legacy[o].row.key : o \in Orders} \ {0} = 1 .. drawn
        /\ private \in [Key -> File]
        /\ \A k \in Key : private[k] = NoFile <=> k > drawn
        /\ \A o \in Orders : row[o].key # 0 => private[row[o].key] = evidence[o]
  BY DEF CutoverInit
<1>2. \A o \in Orders :
        /\ legacy[o].row \in ReceiptRow /\ legacy[o].public \in File /\ legacy[o].sent \in File
        /\ legacy[o].row.key \in Key \cup {0}
        /\ legacy[o].row.key = 0 => {legacy[o].public, legacy[o].row.telegram} \subseteq {NoFile, legacy[o].sent}
  BY CutoverAssumption DEF ReceiptRow
<1>3. drawn \in Nat
  <2> DEFINE keyed == {o \in Orders : legacy[o].row.key # 0}
  <2>1. keyed \subseteq Orders /\ drawn = Cardinality(keyed)
    BY <1>1
  <2> HIDE DEF keyed
  <2> QED BY <2>1, CutoverAssumption, FS_Subset, FS_CardinalityType
<1>4. drawn <= MaxFiles
  <2>1. CASE drawn = 0
    BY <2>1, CutoverAssumption
  <2>2. CASE drawn # 0
    <3>1. drawn \in 1 .. drawn
      BY <1>3, <2>2
    <3>2. drawn \in {legacy[o].row.key : o \in Orders} \ {0}
      BY <1>1, <3>1
    <3>3. drawn \in Key
      BY <1>2, <3>2
    <3> QED BY <3>3, CutoverAssumption DEF Key
  <2> QED BY <2>1, <2>2
<1>5. ReceiptShape
  BY <1>1, <1>2, <1>3, <1>4, CutoverAssumption DEF ReceiptShape
<1>6. RowsTrue
  <2>1. ASSUME NEW o \in Orders  PROVE RowTrue(o)
    <3>1. row[o] = legacy[o].row /\ public[o] = legacy[o].public /\ evidence[o] = legacy[o].sent
      BY <1>1
    <3>2. CASE row[o].key = 0
      BY <1>2, <3>1, <3>2 DEF RowTrue
    <3>3. CASE row[o].key # 0
      <4>1. row[o].key \in 1 .. drawn /\ row[o].key \in Key
        BY <1>1, <1>2, <3>1, <3>3
      <4>2. row[o].key <= drawn /\ ~(row[o].key > drawn)
        BY <1>3, <4>1
      <4>3. private[row[o].key] # NoFile
        BY <1>1, <4>1, <4>2
      <4> QED BY <1>1, <3>3, <4>2, <4>3 DEF RowTrue
    <3> QED BY <3>2, <3>3
  <2> QED BY <2>1 DEF RowsTrue
<1>7. \A r \in Runs : cutover[r] = NoRun
  BY DEF CutoverInit
<1>8. NoRun.todo \cup NoRun.entry = {} /\ NoRun.held = {} /\ manifest = NoManifest
  BY DEF NoRun, CutoverInit
<1>9. CutoverShape
  BY <1>5, NoRunSound DEF CutoverShape, CutoverInit
<1> HIDE DEF NoRun
<1>10. EntriesTrue /\ LockedOnce
  BY <1>7, <1>8 DEF EntriesTrue, LockedOnce
<1>11. \A r \in Runs : RunSound(cutover[r])
  BY <1>7, NoRunSound
<1> QED BY <1>6, <1>9, <1>10, <1>11 DEF CutoverInv

LEMMA CutoverKeeps ==
    ASSUME CutoverInv, [CutoverNext]_cutoverVars
    PROVE  CutoverInv' /\ Kept
<1>1. CASE UNCHANGED cutoverVars
  <2>1. ReceiptShape' /\ RowsTrue'
    BY <1>1 DEF CutoverInv, CutoverShape, ReceiptShape, RowsTrue, RowTrue, cutoverVars
  <2>2. \A e \in Entry : EntryTrue(e) => EntryTrue(e)'
    BY <1>1 DEF EntryTrue, cutoverVars
  <2>3. (manifest # NoManifest => \A e \in manifest.entries : EntryTrue(e))'
    <3>1. \A e : EntryTrue(e) => e \in Entry
      BY DEF EntryTrue
    <3> QED BY <1>1, <2>2, <3>1 DEF CutoverInv, EntriesTrue, cutoverVars
  <2>4. ASSUME NEW s \in Runs, NEW other \in RunState, cutover[s] = other  PROVE RunSound(other)'
    <3>1. RunSound(other)
      BY <2>4, RunsAre
    <3> QED BY <1>1, <3>1 DEF RunSound, EntrySound, Complete, Relevant, cutoverVars
  <2>5. cutover' = cutover
    BY <1>1 DEF cutoverVars
  <2>6. CutoverInv'
    BY <2>1, <2>2, <2>3, <2>4, <2>5, BesideTheRuns
  <2>7. Kept
    BY <1>1 DEF Kept, Reachable, PrivateFile, cutoverVars
  <2> QED BY <2>6, <2>7
<1>2. CASE \E o \in Orders : RestoreReceipt(o) \/ \E c \in Contents : ReplaceReceipt(o, c)
  BY <1>2, RestoreReceiptKeeps, ReplaceReceiptKeeps
<1>3. ASSUME NEW r \in Runs,
             \/ DryRun(r) \/ BeginApply(r) \/ FinishApply(r) \/ Crash(r)
             \/ VerifyRows(r) \/ VerifySucceeds(r) \/ VerifyFails(r)
      PROVE  CutoverInv' /\ Kept
  <2>1. FinishApply(r) \/ Crash(r) \/ VerifySucceeds(r) \/ VerifyFails(r) => Leave(r)
    BY DEF FinishApply, Crash, VerifySucceeds, VerifyFails
  <2> QED BY <1>3, <2>1, DryRunKeeps, BeginApplyKeeps, VerifyRowsKeeps, LeaveKeeps
<1>4. ASSUME NEW r \in Runs, NEW e \in cutover[r].todo \cup cutover[r].entry,
             \/ DropUrl(r, e) \/ AlreadyMigrated(r, e) \/ LockEntry(r, e)
             \/ Copy(r, e) \/ CommitReference(r, e) \/ RemoveSource(r, e)
             \/ RefuseEntry(r, e)
      PROVE  CutoverInv' /\ Kept
  <2>1. /\ DropUrl(r, e) \/ AlreadyMigrated(r, e) \/ LockEntry(r, e) => e \in cutover[r].todo
        /\ Copy(r, e) \/ CommitReference(r, e) \/ RemoveSource(r, e) => e \in cutover[r].entry
        /\ RefuseEntry(r, e) => Leave(r)
    BY DEF DropUrl, AlreadyMigrated, LockEntry, Turn, Copy, CommitReference, RemoveSource, RefuseEntry
  <2> QED BY <1>4, <2>1, DropUrlKeeps, AlreadyMigratedKeeps, LockEntryKeeps, CopyKeeps,
             CommitReferenceKeeps, RemoveSourceKeeps, LeaveKeeps
<1>5. CutoverNext =>
        \/ \E o \in Orders : RestoreReceipt(o) \/ \E c \in Contents : ReplaceReceipt(o, c)
        \/ \E r \in Runs :
             \/ DryRun(r) \/ BeginApply(r) \/ FinishApply(r) \/ Crash(r)
             \/ VerifyRows(r) \/ VerifySucceeds(r) \/ VerifyFails(r)
        \/ \E r \in Runs : \E e \in cutover[r].todo \cup cutover[r].entry :
             \/ DropUrl(r, e) \/ AlreadyMigrated(r, e) \/ LockEntry(r, e)
             \/ Copy(r, e) \/ CommitReference(r, e) \/ RemoveSource(r, e)
             \/ RefuseEntry(r, e)
  BY DEF CutoverNext
<1> QED BY <1>1, <1>2, <1>3, <1>4, <1>5

\* Whatever runs of the migration overlap, and wherever they die, a receipt
\* that can be shown stays one that can be shown
\* (scripts/migrate_private_receipts.py: apply_manifest).
THEOREM ReceiptsStay == CutoverSpec => ReceiptsKept
<1>1. CutoverInv /\ [CutoverNext]_cutoverVars => CutoverInv'
  BY CutoverKeeps
<1>2. CutoverInv /\ [CutoverNext]_cutoverVars =>
        [\A o \in Orders : Reachable(o) /\ evidence[o] # NoFile => Reachable(o)']_cutoverVars
  BY CutoverKeeps DEF Kept
<1> QED BY <1>1, <1>2, CutoverStarts, PTL DEF CutoverSpec, ReceiptsKept

\* When --verify succeeds, no receipt is public, and every row that says
\* anything of a receipt leads to the private file the customer sent last
\* (scripts/migrate_private_receipts.py: verify_cutover).
THEOREM VerifyMeansPrivate == CutoverSpec => VerifiedIsPrivate
<1>1. CutoverInv /\ [CutoverNext]_cutoverVars => CutoverInv'
  BY CutoverKeeps
<1>2. ASSUME CutoverInv, NEW r \in Runs, VerifySucceeds(r)
      PROVE  /\ NoPublicReceipts'
             /\ \A o \in Orders : Relevant(o) => row[o].url = "none" /\ Reachable(o)
  <2>1. NoPublicReceipts'
    BY <1>2 DEF VerifySucceeds, Leave, NoPublicReceipts
  <2>2. Complete
    BY <1>2, RunsAre DEF VerifySucceeds, Stands, RunSound
  <2>3. ASSUME NEW o \in Orders, Relevant(o)  PROVE row[o].url = "none" /\ Reachable(o)
    BY <1>2, <2>2, <2>3 DEF Complete, Reachable, PrivateFile, CutoverInv, RowsTrue, RowTrue
  <2> QED BY <2>1, <2>3
<1>3. CutoverInv /\ [CutoverNext]_cutoverVars =>
        [\A r \in Runs : VerifySucceeds(r) =>
            /\ NoPublicReceipts'
            /\ \A o \in Orders : Relevant(o) => row[o].url = "none" /\ Reachable(o)]_cutoverVars
  BY <1>2
<1> QED BY <1>1, <1>3, CutoverStarts, PTL DEF CutoverSpec, VerifiedIsPrivate
=============================================================================
