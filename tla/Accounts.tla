------------------------------ MODULE Accounts ------------------------------
(***************************************************************************)
(* Signing in with a password and an authenticator, and everything that    *)
(* changes who can: routers/auth.py, routers/users.py, the break-glass     *)
(* half of routers/platform_admin.py, services/auth/account_reset.py,      *)
(* totp.py and session_manager.py.                                         *)
(*                                                                         *)
(* A request reads what it checks and commits what it writes at its end,   *)
(* in READ COMMITTED: between the two, other requests commit.  Each        *)
(* handler is therefore a step that reads (named after the handler) and a  *)
(* step that commits (Finish...); a request may also fail in between.      *)
(*                                                                         *)
(* Challenges (half-finished sign-ins), sessions and set-password links    *)
(* are tickets: they remember which state of the credentials they stand    *)
(* on, counted by epoch, and whether they were under way when those        *)
(* credentials changed.  Both are history; the code never reads them.      *)
(***************************************************************************)
EXTENDS Integers, FiniteSets

CONSTANTS
  Member,    \* people of one organization, each with at most one users row
  Glass,     \* break-glass accounts (platform_admins)
  Request,   \* requests under way at one time
  Slot,      \* room for challenges, for sessions and for links
  None,      \* no row, no ticket, nothing under way
  Steps,     \* time steps of the authenticator codes
  Work       \* how many requests may begin

VARIABLES
  org,        \* organization: suspended, sso (it has an Entra tenant), demo (published, read-only)
  user,       \* the row of each account, None before there is one
  challenge,  \* mfa_pending_challenges that have not expired
  session,    \* sessions neither revoked nor expired
  link,       \* password_setup_tokens neither used nor expired
  now,        \* the current 30-second step
  req,        \* what each request has read
  epoch,      \* history: how often the credentials of an account were changed
  used,       \* history: codes that confirmed the account's present authenticator or signed in
  ahead,      \* history: of those, one that confirmed it before its time and has not signed in
  raced,      \* history: accounts where a commit went over another one's work
  work        \* requests that may still begin

vars == <<org, user, challenge, session, link, now, req, epoch, used,
          ahead, raced, work>>
-----------------------------------------------------------------------------
Account == Member \cup Glass
Code == 0..Steps + 1
Recovery == -1                     \* a recovery code, where a code is expected

Row == [role : {"org_admin", "member"}, active : BOOLEAN, local : BOOLEAN, pw : BOOLEAN,
        mfa : BOOLEAN, step : Code, codes : BOOLEAN]

Ticket == [on : Account, epoch : Nat, late : BOOLEAN]

ASSUME AccountsAssumption ==
  /\ Member \cap Glass = {} /\ None \notin Member \cup Glass \cup Slot
  /\ None \notin Row /\ None \notin Ticket
  /\ Steps \in Nat /\ Work \in Nat

Op == {"login", "verify_otp", "enroll_otp_confirm", "set_password", "change_password",
       "mfa_reset_confirm", "reset_password", "reset_mfa", "update_user",
       "create_local_user", "callback"}

\* The handlers that use a column they read when they write.
RowReaders == {"verify_otp", "reset_password", "update_user", "callback"}

\* by and actor: the session it acts with and whose that is; via: its challenge
\* or link; row: the target's row as read; first: the organization had no users;
\* seen: the target's links; stale: another authenticator is in place since.
Idle == [op |-> "idle"]
Busy == [op : Op, on : Account, by : Slot \cup {None}, actor : Account \cup {None},
         via : Slot \cup {None}, row : Row \cup {None}, first : BOOLEAN, seen : SUBSET Slot,
         epoch : Nat, late : BOOLEAN, stale : BOOLEAN]

Has(u) == user[u] # None
HasAdmin == \E u \in Member : Has(u) /\ user[u].active /\ user[u].role = "org_admin"
LinksOf(u) == {l \in Slot : link[l] # None /\ link[l].on = u}

\* A slot that holds no ticket and that no request has seen one in.
SeenBy(r) == IF req[r] = Idle THEN {} ELSE {req[r].via, req[r].by} \cup req[r].seen
Free(table, c) == table[c] = None /\ \A r \in Request : c \notin SeenBy(r)
-----------------------------------------------------------------------------
NewRow(role, local) == [role |-> role, active |-> TRUE, local |-> local, pw |-> FALSE,
                        mfa |-> FALSE, step |-> 0, codes |-> FALSE]
WithPassword == [NewRow("org_admin", TRUE) EXCEPT !.pw = TRUE]
Enrolled(role) == [NewRow(role, TRUE) EXCEPT !.pw = TRUE, !.mfa = TRUE, !.codes = TRUE]

Tickets(accounts) == [Slot -> {[on |-> u, epoch |-> 0, late |-> FALSE] : u \in accounts} \cup {None}]

\* An organization as provisioned, one whose admins have been at work a while, or
\* the demo with the one user it is seeded with, who has enrolled nothing; a
\* break-glass account has its password from the start.
Init ==
  /\ \E founders \in SUBSET Member, enrolled \in SUBSET Glass :
       /\ org \in [suspended : {FALSE}, sso : {FALSE, founders = {}}, demo : {FALSE, Cardinality(founders) = 1}]
       /\ LET signing == IF org.demo THEN {} ELSE founders      \* who has a second factor
          IN /\ user = [u \in Account |-> IF u \in signing \cup enrolled THEN Enrolled("org_admin")
                                         ELSE IF u \in founders \cup Glass THEN WithPassword
                                         ELSE None]
             /\ \/ session \in Tickets(founders \cup enrolled) /\ challenge \in Tickets({})
                \/ session \in Tickets({}) /\ challenge \in Tickets(signing \cup Glass)
  /\ link = [c \in Slot |-> None]
  /\ now = 1
  /\ req = [r \in Request |-> Idle]
  /\ epoch = [u \in Account |-> 0]
  /\ used = [u \in Account |-> {}]
  /\ ahead = [u \in Account |-> {}]
  /\ raced = {}
  /\ work = Work
-----------------------------------------------------------------------------
Begun == work > 0 /\ work' = work - 1

\* What a request reads and remembers.
Reads(r, op, u, by, via, since) ==
  /\ req[r] = Idle
  /\ Begun
  /\ req' = [req EXCEPT ![r] =
       [op |-> op, on |-> u, by |-> by, actor |-> IF by = None THEN None ELSE session[by].on,
        via |-> via, row |-> IF op \in RowReaders THEN user[u] ELSE None,
        first |-> op = "callback" /\ \A m \in Member : ~Has(m),
        seen |-> IF op = "reset_password" THEN LinksOf(u) ELSE {},
        epoch |-> since.epoch, late |-> since.late, stale |-> FALSE]]
  /\ UNCHANGED <<org, user, challenge, session, link, now, epoch, used, ahead, raced>>

Fresh(u) == [epoch |-> epoch[u], late |-> FALSE]

\* enforce_demo_read_only: a session of the demo changes nothing.
BlockedForDemo == org.demo

\* get_current_user lets the session act, for a member or an org_admin.
ActsFor(s) == session[s] # None /\ session[s].on \in Member
              /\ user[session[s].on].active /\ ~org.suspended /\ ~BlockedForDemo
ActsAsAdmin(s) == ActsFor(s) /\ user[session[s].on].role = "org_admin"

\* _get_pending_user: the challenge is there and its account active.
Pending(c, accounts) == challenge[c] # None /\ challenge[c].on \in accounts /\ user[challenge[c].on].active

LocalLogin(r, u) ==
  /\ Has(u) /\ user[u].local /\ user[u].pw /\ user[u].active /\ ~org.suspended
  /\ Reads(r, "login", u, None, None, Fresh(u))

AdminLogin(r, u) ==
  /\ user[u].active
  /\ Reads(r, "login", u, None, None, Fresh(u))

\* Mutant: an account that has enrolled nothing may answer too.
GuessUnenrolled(r, c) ==
  Reads(r, "verify_otp", challenge[c].on, None, c, challenge[c])

\* An enrolled account, and otp_account_limiter lets the guess pass.
Guess(r, c) ==
  /\ user[challenge[c].on].mfa
  /\ Reads(r, "verify_otp", challenge[c].on, None, c, challenge[c])

VerifyOtp(r, c) == Pending(c, Member) /\ Guess(r, c)
AdminVerifyOtp(r, c) == Pending(c, Glass) /\ Guess(r, c)

\* The limiter refuses (see RateLimit for when): every half-finished sign-in of a user ends, of a
\* break-glass account only this one.
CancelPendingLogins(u) ==
  [c \in Slot |-> IF challenge[c] # None /\ challenge[c].on = u THEN None ELSE challenge[c]]

TooManyGuesses(c) ==
  LET u == challenge[c].on IN
  /\ Pending(c, Account) /\ user[u].mfa
  /\ challenge' = IF u \in Glass THEN [challenge EXCEPT ![c] = None] ELSE CancelPendingLogins(u)
  /\ UNCHANGED <<org, user, session, link, now, req, epoch, used, ahead, raced, work>>

\* A password alone never replaces an authenticator.
EnrollOtpConfirm(r, c) ==
  /\ Pending(c, Member) /\ ~user[challenge[c].on].mfa
  /\ Reads(r, "enroll_otp_confirm", challenge[c].on, None, c, challenge[c])

AdminEnrollOtpConfirm(r, c) ==
  /\ Pending(c, Glass) /\ ~user[challenge[c].on].mfa
  /\ Reads(r, "enroll_otp_confirm", challenge[c].on, None, c, challenge[c])

SetPassword(r, l) ==
  /\ link[l] # None /\ user[link[l].on].active
  /\ Reads(r, "set_password", link[l].on, None, l, link[l])

\* _require_current_password: a local user who knows it.
ChangePassword(r, s) ==
  /\ ActsFor(s) /\ user[session[s].on].local /\ user[session[s].on].pw
  /\ Reads(r, "change_password", session[s].on, s, None, Fresh(session[s].on))

MfaResetConfirm(r, s) ==
  /\ ActsFor(s) /\ user[session[s].on].local /\ user[session[s].on].pw
  /\ Reads(r, "mfa_reset_confirm", session[s].on, s, None, Fresh(session[s].on))

AdminChangePassword(r, s) ==
  /\ session[s] # None /\ session[s].on \in Glass /\ user[session[s].on].active
  /\ Reads(r, "change_password", session[s].on, s, None, Fresh(session[s].on))

\* _local_teammate: another local user of the admin's organization.
ResetTeammate(r, s, u, op) ==
  /\ op \in {"reset_password", "reset_mfa"}
  /\ ActsAsAdmin(s) /\ u # session[s].on /\ Has(u) /\ user[u].local
  /\ Reads(r, op, u, s, None, Fresh(u))

\* _resettable_user: the platform admin's way to help a locked-out organization.
AdminResetUser(r, u, op) ==
  /\ op \in {"reset_password", "reset_mfa"}
  /\ Has(u) /\ user[u].local
  /\ Reads(r, op, u, None, None, Fresh(u))

UpdateUser(r, s, u) ==
  /\ ActsAsAdmin(s) /\ Has(u)
  /\ Reads(r, "update_user", u, s, None, Fresh(u))

\* routers/users.py and platform_admin.py, the second without a session.
CreateLocalUser(r, s, u) ==
  /\ ActsAsAdmin(s) /\ ~org.sso /\ ~Has(u)
  /\ Reads(r, "create_local_user", u, s, None, Fresh(u))

AdminCreateLocalUser(r, u) ==
  /\ ~org.sso /\ ~Has(u)
  /\ Reads(r, "create_local_user", u, None, None, Fresh(u))

\* Signing in with Microsoft; the first one of an organization becomes its admin.
Callback(r, u) ==
  /\ org.sso /\ ~org.suspended
  /\ Has(u) => ~user[u].local /\ user[u].active
  /\ Reads(r, "callback", u, None, None, Fresh(u))
-----------------------------------------------------------------------------
(* What a request commits.                                                 *)

Ends(r) == [req EXCEPT ![r] = Idle]
Finishing(r, op) == req[r] # Idle /\ req[r].op = op

\* The request's ticket: a challenge or a session of its account.
TicketOf(r) == [on |-> req[r].on, epoch |-> req[r].epoch, late |-> req[r].late]
Without(table, c) == IF c = None THEN table ELSE [table EXCEPT ![c] = None]

\* A commit overtakes the other requests for u: with a change of credentials
\* they are late, with another authenticator what they read of it is stale.
Overtakes(r, u, credentials, factor) ==
  req' = [q \in Request |-> IF q = r THEN Idle
                           ELSE IF req[q] # Idle /\ req[q].on = u
                           THEN [req[q] EXCEPT !.late = @ \/ credentials, !.stale = @ \/ factor]
                           ELSE req[q]]

Late(table, u) == [c \in Slot |-> IF table[c] # None /\ table[c].on = u
                                 THEN [table[c] EXCEPT !.late = TRUE] ELSE table[c]]

\* A request that ends without writing: its transaction is rolled back.
Fails(r) ==
  /\ req[r] # Idle
  /\ req' = Ends(r)
  /\ UNCHANGED <<org, user, challenge, session, link, now, epoch, used, ahead, raced, work>>

\* Whoever signs in to the demo is not asked for a second factor.
ToDemo(r) == org.demo /\ req[r].on \in Member

FinishDemoLogin(r) ==
  /\ Finishing(r, "login") /\ ToDemo(r)
  /\ \E s \in Slot : Free(session, s) /\ session' = [session EXCEPT ![s] = TicketOf(r)]
  /\ req' = Ends(r)
  /\ UNCHANGED <<org, user, challenge, link, now, epoch, used, ahead, raced, work>>

FinishLogin(r) ==
  /\ Finishing(r, "login") /\ ~ToDemo(r)
  /\ \E c \in Slot : Free(challenge, c) /\ challenge' = [challenge EXCEPT ![c] = TicketOf(r)]
  /\ req' = Ends(r)
  /\ UNCHANGED <<org, user, session, link, now, epoch, used, ahead, raced, work>>

\* totp.accept_code: the code of this step or of one beside it, and of none
\* at or below the last step used.
Current(t) == t \in now - 1 .. now + 1
\* Mutant: a code is good for its whole window.
VerifyCode(row, t) == Current(t)

AcceptCode(row, t) == Current(t) /\ t > row.step

\* With a TOTP code, or with a recovery code that was unused when looked up
\* and is still there.
SignsIn(r, t) ==
  LET u == req[r].on IN
  \/ /\ t # Recovery /\ AcceptCode(req[r].row, t)
     /\ user' = [user EXCEPT ![u].step = t]
     /\ raced' = raced \cup {v \in {u} : t <= user[u].step /\ (user[u].step # req[r].row.step \/ req[r].stale)}
  \/ /\ t = Recovery /\ req[r].row.codes /\ ~req[r].stale
     /\ user' = [user EXCEPT ![u].codes = FALSE]
     /\ UNCHANGED raced

FinishVerifyOtp(r) ==
  /\ Finishing(r, "verify_otp")
  /\ \E t \in Code \cup {Recovery} :
       /\ SignsIn(r, t)
       /\ used' = [used EXCEPT ![req[r].on] = IF req[r].stale THEN @ ELSE @ \cup {t}]
       /\ ahead' = [ahead EXCEPT ![req[r].on] = IF req[r].stale THEN @ ELSE @ \ {t}]
  /\ \E s \in Slot : Free(session, s) /\ session' = [session EXCEPT ![s] = TicketOf(r)]
  /\ challenge' = Without(challenge, req[r].via)
  /\ req' = Ends(r)
  /\ UNCHANGED <<org, link, now, epoch, work>>

\* A new authenticator, confirmed with a code of it.  The present step is
\* recorded, whichever step the code is of.
Enrols(u, t) ==
  /\ Current(t)
  /\ user' = [user EXCEPT ![u] = [@ EXCEPT !.mfa = TRUE, !.step = now, !.codes = TRUE]]
  /\ used' = [used EXCEPT ![u] = {t}]
  /\ ahead' = [ahead EXCEPT ![u] = {c \in {t} : c > now}]

FinishEnrollOtpConfirm(r) ==
  /\ Finishing(r, "enroll_otp_confirm")
  /\ \E t \in Code : Enrols(req[r].on, t)
  /\ raced' = raced \cup {u \in {req[r].on} : user[u].mfa}
  /\ \E s \in Slot : Free(session, s) /\ session' = [session EXCEPT ![s] = TicketOf(r)]
  /\ challenge' = Without(challenge, req[r].via)
  /\ Overtakes(r, req[r].on, FALSE, TRUE)
  /\ UNCHANGED <<org, link, now, epoch, work>>

FinishSetPassword(r) ==
  /\ Finishing(r, "set_password")
  /\ user' = [user EXCEPT ![req[r].on].pw = TRUE]
  /\ link' = Without(link, req[r].via)
  /\ \E c \in Slot : Free(challenge, c) /\ challenge' = [challenge EXCEPT ![c] = TicketOf(r)]
  /\ req' = Ends(r)
  /\ UNCHANGED <<org, session, now, epoch, used, ahead, raced, work>>

\* Mutant: a reset leaves the sessions alone.
RevokeNothing(u, keep) == session

\* revoke_user_sessions, sparing at most the session that makes the change.
RevokeUserSessions(u, keep) ==
  [s \in Slot |-> IF session[s] = None \/ session[s].on # u THEN session[s]
                  ELSE IF s = keep THEN [session[s] EXCEPT !.epoch = epoch[u] + 1] ELSE None]

\* A user's own change: pending sign-ins go on.
FinishOwnChange(r) ==
  LET u == req[r].on IN
  /\ Finishing(r, "change_password") \/ Finishing(r, "mfa_reset_confirm")
  /\ IF req[r].op = "change_password"
     THEN user' = [user EXCEPT ![u].pw = TRUE] /\ UNCHANGED <<used, ahead>>
     ELSE \E t \in Code : Enrols(u, t)
  /\ session' = RevokeUserSessions(u, req[r].by)
  /\ challenge' = Late(challenge, u)
  /\ link' = Late(link, u)
  /\ Overtakes(r, u, TRUE, req[r].op = "mfa_reset_confirm")
  /\ epoch' = [epoch EXCEPT ![u] = @ + 1]
  /\ UNCHANGED <<org, now, raced, work>>

\* issue_password_setup_link voids the unused links it sees.  A reset that
\* takes a password away holds the row's lock by then and sees every link
\* committed before; one that finds no password may miss a later one.
Voided(r) == IF req[r].row # None /\ req[r].row.pw THEN LinksOf(req[r].on) ELSE req[r].seen

IssueLink(r, since) ==
  \E l \in Slot :
    /\ Free(link, l)
    /\ link' = [k \in Slot |-> IF k = l THEN [on |-> req[r].on, epoch |-> since, late |-> FALSE]
                               ELSE IF k \in Voided(r) THEN None
                               ELSE IF k \in LinksOf(req[r].on) THEN [link[k] EXCEPT !.late = TRUE]
                               ELSE link[k]]

FinishResetPassword(r) ==
  LET u == req[r].on IN
  /\ Finishing(r, "reset_password")
  /\ user' = [user EXCEPT ![u].pw = FALSE]
  /\ IssueLink(r, epoch[u] + 1)
  /\ challenge' = CancelPendingLogins(u)
  /\ session' = RevokeUserSessions(u, None)
  /\ epoch' = [epoch EXCEPT ![u] = @ + 1]
  /\ Overtakes(r, u, TRUE, FALSE)
  /\ raced' = raced \cup {v \in {u} : LinksOf(u) \ Voided(r) # {}}
  /\ UNCHANGED <<org, now, used, ahead, work>>

\* clear_mfa: a link already issued stays good; the last used step stays.
FinishResetMfa(r) ==
  LET u == req[r].on IN
  /\ Finishing(r, "reset_mfa")
  /\ user' = [user EXCEPT ![u] = [@ EXCEPT !.mfa = FALSE, !.codes = FALSE]]
  /\ challenge' = CancelPendingLogins(u)
  /\ session' = RevokeUserSessions(u, None)
  /\ link' = [l \in Slot |-> IF l \in LinksOf(u) THEN [link[l] EXCEPT !.epoch = epoch[u] + 1] ELSE link[l]]
  /\ epoch' = [epoch EXCEPT ![u] = @ + 1]
  /\ used' = [used EXCEPT ![u] = {}]
  /\ ahead' = [ahead EXCEPT ![u] = {}]
  /\ Overtakes(r, u, TRUE, TRUE)
  /\ UNCHANGED <<org, now, raced, work>>

\* The columns the body names, written when they differ from what was read;
\* nobody demotes or disables himself.
Written(r, role, active) ==
  [user[req[r].on] EXCEPT !.role = IF role = req[r].row.role THEN @ ELSE role,
                          !.active = IF active = req[r].row.active THEN @ ELSE active]

\* Mutant: an admin may demote or disable himself.
AnyRank(r, role, active) == TRUE

OwnRankKept(r, role, active) == req[r].on = req[r].actor => role = "org_admin" /\ active

FinishUpdateUser(r) ==
  /\ Finishing(r, "update_user")
  /\ \E role \in {"org_admin", "member"}, active \in BOOLEAN :
       /\ OwnRankKept(r, role, active)
       /\ user' = [user EXCEPT ![req[r].on] = Written(r, role, active)]
  /\ req' = Ends(r)
  /\ UNCHANGED <<org, challenge, session, link, now, epoch, used, ahead, raced, work>>

\* A second row for one address or one Microsoft account is an IntegrityError.
FinishCreate(r) ==
  /\ Finishing(r, "create_local_user")
  /\ ~Has(req[r].on)
  /\ \E role \in {"org_admin", "member"} : user' = [user EXCEPT ![req[r].on] = NewRow(role, TRUE)]
  /\ IssueLink(r, epoch[req[r].on])
  /\ req' = Ends(r)
  /\ UNCHANGED <<org, challenge, session, now, epoch, used, ahead, raced, work>>

FinishCallback(r) ==
  LET u == req[r].on IN
  /\ Finishing(r, "callback")
  /\ IF req[r].row = None
     THEN /\ ~Has(u)
          /\ user' = [user EXCEPT ![u] = NewRow(IF req[r].first THEN "org_admin" ELSE "member", FALSE)]
     ELSE UNCHANGED user
  /\ \E s \in Slot : Free(session, s) /\ session' = [session EXCEPT ![s] = TicketOf(r)]
  /\ req' = Ends(r)
  /\ UNCHANGED <<org, challenge, link, now, epoch, used, ahead, raced, work>>
-----------------------------------------------------------------------------
\* A platform admin suspends the organization, or gives it a tenant or takes it.
UpdateOrganization ==
  /\ Begun
  /\ org' \in [suspended : BOOLEAN, sso : BOOLEAN, demo : {org.demo}]
  /\ UNCHANGED <<user, challenge, session, link, now, req, epoch, used, ahead, raced>>

\* Signing out, and the ends of sessions, challenges and links in time.
SessionEnds(s) ==
  /\ session[s] # None
  /\ session' = [session EXCEPT ![s] = None]
  /\ UNCHANGED <<org, user, challenge, link, now, req, epoch, used, ahead, raced, work>>

ChallengeExpires(c) ==
  /\ challenge[c] # None
  /\ challenge' = [challenge EXCEPT ![c] = None]
  /\ UNCHANGED <<org, user, session, link, now, req, epoch, used, ahead, raced, work>>

LinkExpires(l) ==
  /\ link[l] # None
  /\ link' = [link EXCEPT ![l] = None]
  /\ UNCHANGED <<org, user, challenge, session, now, req, epoch, used, ahead, raced, work>>

NextStep ==
  /\ now < Steps
  /\ now' = now + 1
  /\ UNCHANGED <<org, user, challenge, session, link, req, epoch, used, ahead, raced, work>>

Begins(r) ==
  \/ \E u \in Member : LocalLogin(r, u) \/ Callback(r, u) \/ AdminCreateLocalUser(r, u)
  \/ \E u \in Glass : AdminLogin(r, u)
  \/ \E c \in Slot : VerifyOtp(r, c) \/ AdminVerifyOtp(r, c) \/ EnrollOtpConfirm(r, c)
                      \/ AdminEnrollOtpConfirm(r, c) \/ SetPassword(r, c)
  \/ \E s \in Slot : ChangePassword(r, s) \/ MfaResetConfirm(r, s) \/ AdminChangePassword(r, s)
  \/ \E s \in Slot, u \in Member : UpdateUser(r, s, u) \/ CreateLocalUser(r, s, u)
  \/ \E u \in Member, op \in {"reset_password", "reset_mfa"} :
       AdminResetUser(r, u, op) \/ \E s \in Slot : ResetTeammate(r, s, u, op)

Finishes(r) ==
  \/ FinishLogin(r) \/ FinishDemoLogin(r) \/ FinishVerifyOtp(r) \/ FinishEnrollOtpConfirm(r) \/ FinishSetPassword(r)
  \/ FinishOwnChange(r) \/ FinishResetPassword(r) \/ FinishResetMfa(r)
  \/ FinishUpdateUser(r) \/ FinishCreate(r) \/ FinishCallback(r) \/ Fails(r)

Next ==
  \/ \E r \in Request : Begins(r) \/ Finishes(r)
  \/ \E c \in Slot : TooManyGuesses(c) \/ SessionEnds(c) \/ ChallengeExpires(c) \/ LinkExpires(c)
  \/ UpdateOrganization \/ NextStep

Spec == Init /\ [][Next]_vars
-----------------------------------------------------------------------------
(* Properties                                                              *)

TypeOK ==
  /\ org \in [suspended : BOOLEAN, sso : BOOLEAN, demo : BOOLEAN]
  /\ user \in [Account -> Row \cup {None}] /\ \A g \in Glass : Has(g)
  /\ challenge \in [Slot -> Ticket \cup {None}]
  /\ session \in [Slot -> Ticket \cup {None}]
  /\ link \in [Slot -> Ticket \cup {None}]
  /\ now \in Code
  /\ req \in [Request -> Busy \cup {Idle}]
  /\ epoch \in [Account -> Nat] /\ work \in 0..Work
  /\ used \in [Account -> SUBSET (Code \cup {Recovery})] /\ ahead \in [Account -> SUBSET Code]
  /\ raced \subseteq Account

\* A password or authenticator change ends the sessions and half-finished sign-ins
\* that were there when it was committed (revoke_user_sessions,
\* cancel_pending_logins).  Not so what was under way in a request of its own, or
\* the pending sign-ins the user's own change leaves alone: those are marked late,
\* and for a reset ResetsEndSignIns shows what comes of them.
Outlives(t) == t # None /\ ~t.late /\ t.epoch # epoch[t.on]
ChangesSignOut ==
  /\ \A s \in Slot : ~Outlives(session[s])
  /\ \A c \in Slot : ~Outlives(challenge[c])

\* A code that confirmed the authenticator or signed in stays spent
\* (totp.accept_code, current_step, used_at), until a request that read an older
\* step commits over a later one, and but for one that confirmed ahead of its
\* time, which signs in once more: EachCodeWorksOnce shows both.
Spent(u, t) == IF t = Recovery THEN ~user[u].codes ELSE t <= user[u].step
CodesStaySpent == \A u \in Account \ raced : \A t \in used[u] \ ahead[u] : Spent(u, t)

\* Only the newest link works, unless two resets of an account that has no
\* password overlapped (issue_password_setup_link).
OneLinkWorks == \A u \in Member \ raced : \A k, l \in LinksOf(u) : k = l

\* What is to be used once.
SecretsWorkOnce == CodesStaySpent /\ OneLinkWorks

\* No session of a local account without an authenticator behind it: enrolling
\* comes first, and taking it away ends the sessions (verify_otp, clear_mfa);
\* the demo asks its visitors for none.
SecondFactor ==
  \A s \in Slot : session[s] # None /\ ~session[s].late /\ ~(org.demo /\ session[s].on \in Member) =>
    LET row == user[session[s].on] IN row.local => row.mfa

\* An organization that has an active admin keeps one, unless an update is
\* committed for an admin who is none any more (update_user).
Overtaken(r) == Finishing(r, "update_user") /\ ~(user[req[r].actor].active /\ user[req[r].actor].role = "org_admin")
AnAdminRemains == [][HasAdmin => HasAdmin' \/ \E r \in Request : Overtaken(r)]_vars

\* "so a reset can't be raced by someone already past the password step"
\* (account_reset.py:46-47): no session of a local account whose password a reset
\* took away.  The code does not ensure it: a request that has read its challenge
\* signs in after the reset.
ResetsEndSignIns ==
  \A s \in Slot : session[s] # None /\ ~org.demo => LET row == user[session[s].on] IN row.local => row.pw

\* "each code works only once" (totp.py:49-50), "so the code used to confirm a new
\* authenticator can't then also sign in" (:69-70): no sign-in with a code that
\* confirmed the authenticator or signed in before.  The code does not ensure it:
\* the confirming code may be of the step after the recorded one, and two sign-ins
\* that overlap may accept the same code.
EachCodeWorksOnce ==
  [][\A r \in Request : FinishVerifyOtp(r) /\ ~req[r].stale => used' # used]_vars
=============================================================================
