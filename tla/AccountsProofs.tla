--------------------------- MODULE AccountsProofs ---------------------------
(* Proofs about Accounts, for any people, requests, slots and time steps.     *)
EXTENDS Accounts, TLAPS

\* A ticket, or a request, that stands on the account's present credentials, or
\* was under way when they changed.
Good(t, ep) == t.late \/ t.epoch = ep[t.on]

Stands(t, us, ep) == t # None => us[t.on] # None /\ Good(t, ep)

Table(tab, us, ep) ==
  /\ tab \in [Slot -> Ticket \cup {None}]
  /\ \A c \in Slot : Stands(tab[c], us, ep)

\* What a request has read still holds of the rows: they do not go, a Microsoft
\* account does not become a local one, and an authenticator is only taken away
\* by a change that makes the request late.
Informed(q, us) ==
  /\ q.op \notin {"callback", "create_local_user"} => us[q.on] # None
  /\ q.op = "callback" /\ q.row # None => us[q.on] # None /\ ~us[q.on].local
  /\ q.op = "verify_otp" /\ ~q.late => us[q.on].mfa

Requests(rq, us, ep) ==
  /\ rq \in [Request -> Busy \cup {Idle}]
  /\ \A r \in Request : rq[r] # Idle => Good(rq[r], ep) /\ Informed(rq[r], us)

Users(us) == us \in [Account -> Row \cup {None}] /\ \A g \in Glass : us[g] # None

\* Who is asked for a second factor.
Asked(u, us) == us[u].local /\ ~(org.demo /\ u \in Member)

Factor(tab, us) ==
  \A s \in Slot : tab[s] # None /\ ~tab[s].late /\ Asked(tab[s].on, us) => us[tab[s].on].mfa

Codes(us, ah) ==
  us \in [Account -> SUBSET (Code \cup {Recovery})] /\ ah \in [Account -> SUBSET Code]

Rest ==
  /\ org \in [suspended : BOOLEAN, sso : BOOLEAN, demo : BOOLEAN]
  /\ now \in Code /\ work \in 0..Work
  /\ Codes(used, ahead) /\ raced \subseteq Account

AccountsInv ==
  /\ Users(user) /\ epoch \in [Account -> Nat]
  /\ Table(session, user, epoch) /\ Table(challenge, user, epoch) /\ Table(link, user, epoch)
  /\ Requests(req, user, epoch)
  /\ Factor(session, user)
  /\ Rest
-----------------------------------------------------------------------------
\* Rows stay, stay local or not, and keep their authenticator.
Kept(us, vs) ==
  \A u \in Account : us[u] # None =>
    vs[u] # None /\ vs[u].local = us[u].local /\ (us[u].mfa => vs[u].mfa)

LEMMA BusyOn == Idle \notin Busy /\ \A q \in Busy : q.on \in Account
BY DEF Idle, Busy, Op

LEMMA TableKept ==
  ASSUME NEW tab, NEW us, NEW vs, NEW ep, Table(tab, us, ep), Kept(us, vs)
  PROVE  Table(tab, vs, ep)
BY DEF Table, Stands, Kept, Ticket

LEMMA FactorKept ==
  ASSUME NEW tab, NEW us, NEW vs, NEW ep, Table(tab, us, ep), Factor(tab, us), Kept(us, vs)
  PROVE  Factor(tab, vs)
<1> SUFFICES ASSUME NEW s \in Slot, tab[s] # None, ~tab[s].late, Asked(tab[s].on, vs)
             PROVE  vs[tab[s].on].mfa
  BY DEF Factor
<1>1. tab[s].on \in Account /\ us[tab[s].on] # None
  BY DEF Table, Stands, Ticket
<1> QED
  BY <1>1 DEF Factor, Kept, Asked

LEMMA RequestsKept ==
  ASSUME NEW rq, NEW us, NEW vs, NEW ep, Requests(rq, us, ep), Kept(us, vs)
  PROVE  Requests(rq, vs, ep)
<1> SUFFICES ASSUME NEW r \in Request, rq[r] # Idle PROVE Informed(rq[r], vs)
  BY DEF Requests
<1>1. rq[r].on \in Account /\ Informed(rq[r], us)
  BY BusyOn DEF Requests
<1> QED
  BY <1>1 DEF Informed, Kept

\* Tickets come, with what their request knew, and go.
LEMMA TicketComes ==
  ASSUME NEW tab, NEW us, NEW ep, Table(tab, us, ep), NEW c \in Slot,
         NEW t \in Ticket, us[t.on] # None, Good(t, ep)
  PROVE  Table([tab EXCEPT ![c] = t], us, ep)
BY DEF Table, Stands

LEMMA TicketGoes ==
  ASSUME NEW tab, NEW us, NEW ep, Table(tab, us, ep), NEW c
  PROVE  Table(Without(tab, c), us, ep)
BY DEF Table, Stands, Without

LEMMA RequestEnds ==
  ASSUME NEW us, NEW ep, Requests(req, us, ep), NEW r \in Request
  PROVE  Requests(Ends(r), us, ep)
BY DEF Requests, Ends

LEMMA FinishingIs ==
  ASSUME AccountsInv, NEW r \in Request, NEW op, Finishing(r, op)
  PROVE  req[r] \in Busy /\ req[r].op = op /\ Good(req[r], epoch) /\ Informed(req[r], user)
BY DEF AccountsInv, Requests, Finishing

LEMMA TicketOfIs ==
  ASSUME NEW r \in Request, req[r] \in Busy, Good(req[r], epoch)
  PROVE  /\ TicketOf(r) \in Ticket /\ TicketOf(r).on = req[r].on /\ TicketOf(r).late = req[r].late
         /\ Good(TicketOf(r), epoch)
BY DEF TicketOf, Ticket, Busy, Good
-----------------------------------------------------------------------------
\* A request begins: what it reads is so.
LEMMA ReadsHolds ==
  ASSUME AccountsInv, NEW r \in Request, NEW op \in Op, NEW u \in Account,
         NEW by \in Slot \cup {None}, NEW via \in Slot \cup {None}, NEW since,
         Reads(r, op, u, by, via, since),
         by # None => session[by] # None,
         since.epoch \in Nat, since.late \in BOOLEAN, since.late \/ since.epoch = epoch[u],
         op \notin {"callback", "create_local_user"} => Has(u),
         op = "callback" => (Has(u) => ~user[u].local),
         op = "verify_otp" => user[u].mfa
  PROVE  AccountsInv'
<1> DEFINE q == [op |-> op, on |-> u, by |-> by, actor |-> IF by = None THEN None ELSE session[by].on,
        via |-> via, row |-> IF op \in RowReaders THEN user[u] ELSE None,
        first |-> op = "callback" /\ \A m \in Member : ~Has(m),
        seen |-> IF op = "reset_password" THEN LinksOf(u) ELSE {},
        epoch |-> since.epoch, late |-> since.late, stale |-> FALSE]
<1>1. req' = [req EXCEPT ![r] = q]
  BY DEF Reads
<1>2. q.row \in Row \cup {None} /\ q.actor \in Account \cup {None} /\ q.seen \in SUBSET Slot
  BY DEF AccountsInv, Users, Table, Ticket, LinksOf
<1>3. q \in Busy
  BY <1>2 DEF Busy
<1>4. Good(q, epoch)
  BY DEF Good
<1>5. Informed(q, user)
  BY DEF Informed, Has, RowReaders
<1> HIDE DEF q
<1>6. Requests(req', user, epoch)
  BY <1>1, <1>3, <1>4, <1>5 DEF AccountsInv, Requests
<1>7. UNCHANGED <<org, user, challenge, session, link, now, epoch, used, ahead, raced>>
      /\ work' \in 0..Work
  BY AccountsAssumption DEF Reads, Begun, AccountsInv, Rest
<1> QED
  BY <1>6, <1>7 DEF AccountsInv, Users, Rest, Factor, Asked

LEMMA TicketReads ==
  ASSUME NEW tab, Table(tab, user, epoch), NEW c \in Slot, tab[c] # None
  PROVE  /\ tab[c].on \in Account /\ Has(tab[c].on)
         /\ tab[c].epoch \in Nat /\ tab[c].late \in BOOLEAN
         /\ tab[c].late \/ tab[c].epoch = epoch[tab[c].on]
BY DEF Table, Ticket, Stands, Has, Good

LEMMA FreshReads ==
  ASSUME AccountsInv, NEW u \in Account
  PROVE  Fresh(u).epoch \in Nat /\ Fresh(u).late \in BOOLEAN /\ Fresh(u).epoch = epoch[u]
BY DEF Fresh, AccountsInv

LEMMA BeginsHolds == ASSUME AccountsInv, NEW r \in Request, Begins(r) PROVE AccountsInv'
<1> USE DEF Op
<1>t. Table(session, user, epoch) /\ Table(challenge, user, epoch) /\ Table(link, user, epoch)
  BY DEF AccountsInv
<1>a. Member \subseteq Account /\ Glass \subseteq Account /\ \A g \in Glass : Has(g)
  BY DEF Account, AccountsInv, Users, Has
<1>1. ASSUME NEW u \in Member, LocalLogin(r, u) \/ Callback(r, u) \/ AdminCreateLocalUser(r, u)
      PROVE  AccountsInv'
  BY <1>1, <1>a, FreshReads, ReadsHolds DEF LocalLogin, Callback, AdminCreateLocalUser
<1>2. ASSUME NEW u \in Glass, AdminLogin(r, u) PROVE AccountsInv'
  BY <1>2, <1>a, FreshReads, ReadsHolds DEF AdminLogin
<1>3. ASSUME NEW c \in Slot, VerifyOtp(r, c) \/ AdminVerifyOtp(r, c) PROVE AccountsInv'
  <2>1. /\ challenge[c] # None /\ user[challenge[c].on].mfa
        /\ Reads(r, "verify_otp", challenge[c].on, None, c, challenge[c])
    BY <1>3 DEF VerifyOtp, AdminVerifyOtp, Pending, Guess
  <2> QED
    BY <2>1, <1>t, TicketReads, ReadsHolds
<1>4. ASSUME NEW c \in Slot, EnrollOtpConfirm(r, c) \/ AdminEnrollOtpConfirm(r, c) PROVE AccountsInv'
  <2>1. /\ challenge[c] # None
        /\ Reads(r, "enroll_otp_confirm", challenge[c].on, None, c, challenge[c])
    BY <1>4 DEF EnrollOtpConfirm, AdminEnrollOtpConfirm, Pending
  <2> QED
    BY <2>1, <1>t, TicketReads, ReadsHolds
<1>5. ASSUME NEW l \in Slot, SetPassword(r, l) PROVE AccountsInv'
  BY <1>5, <1>t, TicketReads, ReadsHolds DEF SetPassword
<1>6. ASSUME NEW s \in Slot, ChangePassword(r, s) \/ MfaResetConfirm(r, s) \/ AdminChangePassword(r, s)
      PROVE  AccountsInv'
  <2>1. session[s] # None
    BY <1>6 DEF ChangePassword, MfaResetConfirm, AdminChangePassword, ActsFor
  <2>2. session[s].on \in Account /\ Has(session[s].on)
    BY <2>1, <1>t, TicketReads
  <2>3. \/ Reads(r, "change_password", session[s].on, s, None, Fresh(session[s].on))
        \/ Reads(r, "mfa_reset_confirm", session[s].on, s, None, Fresh(session[s].on))
    BY <1>6 DEF ChangePassword, MfaResetConfirm, AdminChangePassword
  <2> QED
    BY <2>1, <2>2, <2>3, FreshReads, ReadsHolds
<1>7. ASSUME NEW s \in Slot, NEW u \in Member, UpdateUser(r, s, u) \/ CreateLocalUser(r, s, u)
      PROVE  AccountsInv'
  BY <1>7, <1>a, FreshReads, ReadsHolds DEF UpdateUser, CreateLocalUser, ActsAsAdmin, ActsFor
<1>8. ASSUME NEW u \in Member, NEW op \in {"reset_password", "reset_mfa"},
             AdminResetUser(r, u, op) \/ \E s \in Slot : ResetTeammate(r, s, u, op)
      PROVE  AccountsInv'
  BY <1>8, <1>a, FreshReads, ReadsHolds DEF AdminResetUser, ResetTeammate, ActsAsAdmin, ActsFor
<1> QED
  BY <1>1, <1>2, <1>3, <1>4, <1>5, <1>6, <1>7, <1>8 DEF Begins
-----------------------------------------------------------------------------
\* A request commits and leaves the credentials' epochs alone.
LEMMA RowWritten ==
  ASSUME AccountsInv, NEW u \in Account, NEW row \in Row, user' = [user EXCEPT ![u] = row],
         row # None, Has(u) => row.local = user[u].local /\ (user[u].mfa => row.mfa)
  PROVE  Users(user') /\ Kept(user, user')
BY DEF AccountsInv, Users, Kept, Has, Account

LEMMA SessionComes ==
  ASSUME NEW tab, NEW us, NEW ep, Table(tab, us, ep), Factor(tab, us), NEW c \in Slot,
         NEW t \in Ticket, us[t.on] # None, Good(t, ep), ~t.late /\ Asked(t.on, us) => us[t.on].mfa
  PROVE  Table([tab EXCEPT ![c] = t], us, ep) /\ Factor([tab EXCEPT ![c] = t], us)
<1>1. Table([tab EXCEPT ![c] = t], us, ep)
  BY TicketComes
<1> QED
  BY <1>1 DEF Factor, Table

LEMMA Commits ==
  ASSUME AccountsInv, epoch' = epoch, org'.demo = org.demo, Users(user'), Kept(user, user'), Rest',
         Table(session', user', epoch), Factor(session', user'), Table(challenge', user', epoch),
         Table(link', user', epoch), Requests(req', user', epoch)
  PROVE  AccountsInv'
BY DEF AccountsInv, Factor, Asked

\* What a commit that leaves the tables alone may rely on.
LEMMA AfterRows ==
  ASSUME AccountsInv, Kept(user, user')
  PROVE  /\ Table(session, user', epoch) /\ Factor(session, user')
         /\ Table(challenge, user', epoch) /\ Table(link, user', epoch)
         /\ Requests(req, user', epoch)
BY TableKept, FactorKept, RequestsKept DEF AccountsInv

LEMMA FinishLoginHolds == ASSUME AccountsInv, NEW r \in Request, FinishLogin(r) PROVE AccountsInv'
<1>1. /\ req[r] \in Busy /\ Good(req[r], epoch) /\ user[req[r].on] # None
  BY FinishingIs DEF FinishLogin, Informed
<1>2. PICK c \in Slot : challenge' = [challenge EXCEPT ![c] = TicketOf(r)]
  BY DEF FinishLogin
<1>3. Table(challenge', user, epoch)
  BY <1>1, <1>2, TicketOfIs, TicketComes DEF AccountsInv
<1>4. Requests(req', user, epoch)
  BY RequestEnds DEF FinishLogin, AccountsInv
<1> QED
  BY <1>3, <1>4 DEF FinishLogin, AccountsInv, Users, Rest, Factor, Asked

LEMMA FinishDemoLoginHolds == ASSUME AccountsInv, NEW r \in Request, FinishDemoLogin(r) PROVE AccountsInv'
<1>1. /\ req[r] \in Busy /\ Good(req[r], epoch) /\ user[req[r].on] # None
  BY FinishingIs DEF FinishDemoLogin, Informed
<1>2. PICK s \in Slot : session' = [session EXCEPT ![s] = TicketOf(r)]
  BY DEF FinishDemoLogin
<1>3. /\ TicketOf(r) \in Ticket /\ TicketOf(r).on = req[r].on /\ Good(TicketOf(r), epoch)
      /\ ~Asked(TicketOf(r).on, user)
  BY <1>1, TicketOfIs DEF FinishDemoLogin, ToDemo, Asked
<1>4. Table(session', user, epoch) /\ Factor(session', user)
  BY <1>1, <1>2, <1>3, SessionComes DEF AccountsInv
<1>5. Requests(req', user, epoch)
  BY RequestEnds DEF FinishDemoLogin, AccountsInv
<1> QED
  BY <1>4, <1>5 DEF FinishDemoLogin, AccountsInv, Users, Rest, Factor, Asked

LEMMA FinishVerifyOtpHolds ==
  ASSUME AccountsInv, NEW r \in Request, FinishVerifyOtp(r) PROVE AccountsInv'
<1> DEFINE u == req[r].on
<1>1. /\ req[r] \in Busy /\ Good(req[r], epoch) /\ Informed(req[r], user) /\ req[r].op = "verify_otp"
  BY FinishingIs DEF FinishVerifyOtp
<1>2. user[u] # None /\ (~req[r].late => user[u].mfa) /\ u \in Account
  BY <1>1, BusyOn DEF Informed
<1>3. user[u] \in Row
  BY <1>2 DEF AccountsInv, Users
<1>4. PICK t \in Code \cup {Recovery} : SignsIn(r, t)
        /\ used' = [used EXCEPT ![u] = IF req[r].stale THEN @ ELSE @ \cup {t}]
        /\ ahead' = [ahead EXCEPT ![u] = IF req[r].stale THEN @ ELSE @ \ {t}]
  BY DEF FinishVerifyOtp
<1>5. Users(user') /\ Kept(user, user') /\ raced' \subseteq Account /\ (~req[r].late => user'[u].mfa)
  <2>1. CASE t # Recovery /\ user' = [user EXCEPT ![u].step = t]
    <3> DEFINE row == [user[u] EXCEPT !.step = t]
    <3>1. row \in Row /\ row.local = user[u].local /\ row.mfa = user[u].mfa /\ row # None
      BY <1>3, <2>1, AccountsAssumption DEF Row
    <3>2. user' = [user EXCEPT ![u] = row]
      BY <2>1
    <3>3. raced' \subseteq Account
      BY <1>2, <1>4 DEF SignsIn, AccountsInv, Rest
    <3> HIDE DEF row
    <3>4. Users(user') /\ Kept(user, user')
      BY <1>2, <3>1, <3>2, RowWritten
    <3>5. user'[u] = row
      BY <1>2, <3>2 DEF AccountsInv, Users
    <3> QED
      BY <1>2, <3>1, <3>3, <3>4, <3>5
  <2>2. CASE t = Recovery /\ user' = [user EXCEPT ![u].codes = FALSE] /\ UNCHANGED raced
    <3> DEFINE row == [user[u] EXCEPT !.codes = FALSE]
    <3>1. row \in Row /\ row.local = user[u].local /\ row.mfa = user[u].mfa /\ row # None
      BY <1>3, AccountsAssumption DEF Row
    <3>2. user' = [user EXCEPT ![u] = row]
      BY <2>2
    <3>3. raced' \subseteq Account
      BY <2>2 DEF AccountsInv, Rest
    <3> HIDE DEF row
    <3>4. Users(user') /\ Kept(user, user')
      BY <1>2, <3>1, <3>2, RowWritten
    <3>5. user'[u] = row
      BY <1>2, <3>2 DEF AccountsInv, Users
    <3> QED
      BY <1>2, <3>1, <3>3, <3>4, <3>5
  <2> QED
    BY <1>4, <2>1, <2>2 DEF SignsIn
<1>6. Codes(used', ahead')
  BY <1>2, <1>4 DEF AccountsInv, Rest, Codes
<1>7. /\ Table(session, user', epoch) /\ Factor(session, user')
      /\ Table(challenge, user', epoch) /\ Table(link, user', epoch) /\ Requests(req, user', epoch)
  BY <1>5, AfterRows
<1>8. Table(session', user', epoch) /\ Factor(session', user')
  <2>1. PICK s \in Slot : session' = [session EXCEPT ![s] = TicketOf(r)]
    BY DEF FinishVerifyOtp
  <2>2. user'[u] # None
    BY <1>2, <1>5 DEF Kept
  <2>3. TicketOf(r) \in Ticket /\ TicketOf(r).on = u /\ TicketOf(r).late = req[r].late
        /\ Good(TicketOf(r), epoch)
    BY <1>1, TicketOfIs
  <2> QED
    BY <1>5, <1>7, <2>1, <2>2, <2>3, SessionComes
<1>9. Table(challenge', user', epoch) /\ Requests(req', user', epoch)
  BY <1>7, TicketGoes, RequestEnds DEF FinishVerifyOtp
<1> QED
  BY <1>5, <1>6, <1>7, <1>8, <1>9, Commits DEF FinishVerifyOtp, AccountsInv, Rest

\* Marking a ticket late, or moving a ticket to new credentials.
LEMMA TicketMarked ==
  ASSUME NEW t \in Ticket, NEW e \in Nat
  PROVE  /\ [t EXCEPT !.late = TRUE] \in Ticket /\ [t EXCEPT !.late = TRUE].on = t.on
         /\ [t EXCEPT !.late = TRUE].late
         /\ [t EXCEPT !.epoch = e] \in Ticket /\ [t EXCEPT !.epoch = e].on = t.on
         /\ [t EXCEPT !.epoch = e].epoch = e /\ [t EXCEPT !.epoch = e].late = t.late
BY DEF Ticket

LEMMA OvertakesQuiet ==
  ASSUME NEW us, Requests(req, us, epoch), NEW r \in Request, NEW u, NEW f \in BOOLEAN,
         Overtakes(r, u, FALSE, f)
  PROVE  Requests(req', us, epoch)
<1> SUFFICES ASSUME NEW q \in Request
             PROVE  /\ req'[q] \in Busy \cup {Idle}
                    /\ req'[q] # Idle => Good(req'[q], epoch) /\ Informed(req'[q], us)
  BY DEF Requests, Overtakes
<1>1. CASE req'[q] = Idle \/ req'[q] = req[q]
  BY <1>1 DEF Requests
<1>2. CASE req[q] # Idle /\ req'[q] = [req[q] EXCEPT !.late = @ \/ FALSE, !.stale = @ \/ f]
  <2>1. req[q] \in Busy /\ Good(req[q], epoch) /\ Informed(req[q], us)
    BY <1>2 DEF Requests
  <2> DEFINE p == req'[q]
  <2>b. /\ req[q].late \in BOOLEAN /\ req[q].stale \in BOOLEAN
        /\ (req[q].late \/ FALSE) \in BOOLEAN /\ (req[q].stale \/ f) \in BOOLEAN
    BY <2>1 DEF Busy
  <2>2. /\ p \in Busy /\ p.on = req[q].on /\ p.op = req[q].op /\ p.row = req[q].row
        /\ p.epoch = req[q].epoch /\ p.late = (req[q].late \/ FALSE)
    BY <1>2, <2>1, <2>b DEF Busy
  <2> HIDE DEF p
  <2>3. Good(p, epoch) /\ Informed(p, us)
    BY <2>1, <2>2 DEF Good, Informed
  <2> QED
    BY <2>2, <2>3 DEF p
<1> QED
  BY <1>1, <1>2 DEF Overtakes

-----------------------------------------------------------------------------
\* A change of the credentials of u: the epoch moves on, and what stood on the
\* old ones ends, moves along or is late.  A row may lose its authenticator.
KeptBut(us, ws, u) ==
  \A v \in Account : us[v] # None =>
    ws[v] # None /\ ws[v].local = us[v].local /\ (v # u /\ us[v].mfa => ws[v].mfa)

LEMMA OvertakesChange ==
  ASSUME AccountsInv, NEW u \in Account, NEW r \in Request, NEW f \in BOOLEAN, NEW ws,
         Overtakes(r, u, TRUE, f), KeptBut(user, ws, u), NEW ep, ep = [epoch EXCEPT ![u] = @ + 1]
  PROVE  Requests(req', ws, ep)
<1> SUFFICES ASSUME NEW q \in Request
             PROVE  /\ req'[q] \in Busy \cup {Idle}
                    /\ req'[q] # Idle => Good(req'[q], ep) /\ Informed(req'[q], ws)
  BY DEF Requests, Overtakes
<1>r. Requests(req, user, epoch) /\ epoch \in [Account -> Nat]
  BY DEF AccountsInv
<1>1. CASE req'[q] = Idle
  BY <1>1
<1>2. CASE req[q] # Idle /\ req[q].on # u /\ req'[q] = req[q]
  <2>1. req[q] \in Busy /\ Good(req[q], epoch) /\ Informed(req[q], user) /\ req[q].on \in Account
    BY <1>2, <1>r, BusyOn DEF Requests
  <2>2. ep[req[q].on] = epoch[req[q].on]
    BY <1>2, <1>r, <2>1
  <2> QED
    BY <1>2, <2>1, <2>2 DEF Good, Informed, KeptBut
<1>3. CASE req[q] # Idle /\ req[q].on = u /\ req'[q] = [req[q] EXCEPT !.late = @ \/ TRUE, !.stale = @ \/ f]
  <2>1. req[q] \in Busy /\ Informed(req[q], user)
    BY <1>3, <1>r DEF Requests
  <2> DEFINE p == req'[q]
  <2>b. /\ req[q].late \in BOOLEAN /\ req[q].stale \in BOOLEAN
        /\ (req[q].late \/ TRUE) \in BOOLEAN /\ (req[q].stale \/ f) \in BOOLEAN
    BY <2>1 DEF Busy
  <2>2. /\ p \in Busy /\ p.on = req[q].on /\ p.op = req[q].op /\ p.row = req[q].row
        /\ p.epoch = req[q].epoch /\ p.late = (req[q].late \/ TRUE)
    BY <1>3, <2>1, <2>b DEF Busy
  <2> HIDE DEF p
  <2>3. Good(p, ep) /\ Informed(p, ws)
    BY <1>3, <2>1, <2>2 DEF Good, Informed, KeptBut
  <2> QED
    BY <2>2, <2>3 DEF p
<1>4. CASE req[q] = Idle /\ req'[q] = req[q]
  BY <1>4
<1> QED
  BY <1>1, <1>2, <1>3, <1>4 DEF Overtakes

\* Each ticket of tab2 is one of tab and not of u's, or is u's and of the new epoch or late.
Moved(tab, tab2, u) ==
  /\ tab2 \in [Slot -> Ticket \cup {None}]
  /\ \A c \in Slot :
       \/ tab2[c] = None
       \/ tab[c] # None /\ tab[c].on # u /\ tab2[c] = tab[c]
       \/ tab2[c].on = u /\ (tab2[c].late \/ tab2[c].epoch = epoch[u] + 1)

LEMMA TableChanged ==
  ASSUME AccountsInv, NEW u \in Account, KeptBut(user, user', u), user[u] # None,
         epoch' = [epoch EXCEPT ![u] = @ + 1],
         NEW tab, Table(tab, user, epoch), NEW tab2, Moved(tab, tab2, u)
  PROVE  Table(tab2, user', epoch')
<1> SUFFICES ASSUME NEW c \in Slot, tab2[c] # None
             PROVE  user'[tab2[c].on] # None /\ Good(tab2[c], epoch')
  BY DEF Table, Stands, Moved
<1>1. CASE tab[c] # None /\ tab[c].on # u /\ tab2[c] = tab[c]
  <2>1. tab[c].on \in Account /\ user[tab[c].on] # None /\ Good(tab[c], epoch)
    BY <1>1 DEF Table, Stands, Ticket
  <2> QED
    BY <1>1, <2>1 DEF Good, KeptBut, AccountsInv
<1>2. CASE tab2[c].on = u /\ (tab2[c].late \/ tab2[c].epoch = epoch[u] + 1)
  BY <1>2 DEF Good, KeptBut, AccountsInv
<1> QED
  BY <1>1, <1>2 DEF Moved
-----------------------------------------------------------------------------
\* The request's account, its row, and what finishing leaves of the rest.
LEMMA FinishesWithRow ==
  ASSUME AccountsInv, NEW r \in Request, NEW op \in Op \ {"callback", "create_local_user"},
         Finishing(r, op)
  PROVE  /\ req[r] \in Busy /\ Good(req[r], epoch) /\ Informed(req[r], user) /\ req[r].op = op
         /\ req[r].on \in Account /\ user[req[r].on] \in Row /\ user[req[r].on] # None
         /\ \A row \in Row : row # None
BY FinishingIs, BusyOn, AccountsAssumption DEF Informed, AccountsInv, Users

LEMMA EnrolsHolds ==
  ASSUME AccountsInv, NEW u \in Account, user[u] \in Row, NEW t \in Code, Enrols(u, t)
  PROVE  /\ Users(user') /\ Kept(user, user') /\ user'[u] # None /\ user'[u].mfa
         /\ Codes(used', ahead')
<1> DEFINE row == [user[u] EXCEPT !.mfa = TRUE, !.step = now, !.codes = TRUE]
<1>1. row \in Row /\ row.local = user[u].local /\ row.mfa /\ row # None
  BY AccountsAssumption DEF Row, AccountsInv, Rest
<1>2. user' = [user EXCEPT ![u] = row]
  BY DEF Enrols
<1>3. Codes(used', ahead')
  BY DEF Enrols, AccountsInv, Rest, Codes
<1> HIDE DEF row
<1>4. Users(user') /\ Kept(user, user')
  BY <1>1, <1>2, RowWritten
<1>5. user'[u] = row
  BY <1>2 DEF AccountsInv, Users
<1> QED
  BY <1>1, <1>3, <1>4, <1>5

LEMMA FinishEnrollHolds ==
  ASSUME AccountsInv, NEW r \in Request, FinishEnrollOtpConfirm(r) PROVE AccountsInv'
<1> DEFINE u == req[r].on
<1>1. /\ req[r] \in Busy /\ Good(req[r], epoch) /\ u \in Account /\ user[u] \in Row
  BY FinishesWithRow DEF FinishEnrollOtpConfirm, Op
<1>2. /\ Users(user') /\ Kept(user, user') /\ user'[u] # None /\ user'[u].mfa
      /\ Codes(used', ahead')
  BY <1>1, EnrolsHolds DEF FinishEnrollOtpConfirm
<1>3. /\ Table(session, user', epoch) /\ Factor(session, user')
      /\ Table(challenge, user', epoch) /\ Table(link, user', epoch) /\ Requests(req, user', epoch)
  BY <1>2, AfterRows
<1>4. Table(session', user', epoch) /\ Factor(session', user')
  <2>1. PICK s \in Slot : session' = [session EXCEPT ![s] = TicketOf(r)]
    BY DEF FinishEnrollOtpConfirm
  <2> QED
    BY <1>1, <1>2, <1>3, <2>1, TicketOfIs, SessionComes
<1>5. Table(challenge', user', epoch)
  BY <1>3, TicketGoes DEF FinishEnrollOtpConfirm
<1>6. Requests(req', user', epoch)
  BY <1>3, OvertakesQuiet DEF FinishEnrollOtpConfirm
<1>7. raced' \subseteq Account
  BY <1>1 DEF FinishEnrollOtpConfirm, AccountsInv, Rest
<1> QED
  BY <1>2, <1>3, <1>4, <1>5, <1>6, <1>7, Commits DEF FinishEnrollOtpConfirm, AccountsInv, Rest

LEMMA FinishSetPasswordHolds ==
  ASSUME AccountsInv, NEW r \in Request, FinishSetPassword(r) PROVE AccountsInv'
<1> DEFINE u == req[r].on
           row == [user[u] EXCEPT !.pw = TRUE]
<1>1. /\ req[r] \in Busy /\ Good(req[r], epoch) /\ u \in Account /\ user[u] \in Row
      /\ user[u] # None /\ \A w \in Row : w # None
  BY FinishesWithRow DEF FinishSetPassword, Op
<1>2. row \in Row /\ row.local = user[u].local /\ row.mfa = user[u].mfa
  BY <1>1 DEF Row
<1>3. user' = [user EXCEPT ![u] = row]
  BY DEF FinishSetPassword
<1> HIDE DEF row
<1>4. Users(user') /\ Kept(user, user')
  BY <1>1, <1>2, <1>3, RowWritten
<1>5. /\ Table(session, user', epoch) /\ Factor(session, user')
      /\ Table(challenge, user', epoch) /\ Table(link, user', epoch) /\ Requests(req, user', epoch)
  BY <1>4, AfterRows
<1>6. Table(challenge', user', epoch)
  <2>1. PICK c \in Slot : challenge' = [challenge EXCEPT ![c] = TicketOf(r)]
    BY DEF FinishSetPassword
  <2>2. user'[u] # None
    BY <1>1, <1>4 DEF Kept
  <2> QED
    BY <1>1, <1>5, <2>1, <2>2, TicketOfIs, TicketComes
<1>7. Table(link', user', epoch) /\ Requests(req', user', epoch)
  BY <1>5, TicketGoes, RequestEnds DEF FinishSetPassword
<1> QED
  BY <1>4, <1>5, <1>6, <1>7, Commits DEF FinishSetPassword, AccountsInv, Rest

LEMMA FinishUpdateUserHolds ==
  ASSUME AccountsInv, NEW r \in Request, FinishUpdateUser(r) PROVE AccountsInv'
<1> DEFINE u == req[r].on
<1>1. /\ u \in Account /\ user[u] \in Row /\ user[u] # None /\ \A w \in Row : w # None
  BY FinishesWithRow DEF FinishUpdateUser, Op
<1>2. PICK role \in {"org_admin", "member"}, active \in BOOLEAN :
        user' = [user EXCEPT ![u] = Written(r, role, active)]
  BY DEF FinishUpdateUser
<1> DEFINE row == Written(r, role, active)
<1>3. row \in Row /\ row.local = user[u].local /\ row.mfa = user[u].mfa
  BY <1>1 DEF Written, Row
<1> HIDE DEF row
<1>4. Users(user') /\ Kept(user, user')
  BY <1>1, <1>2, <1>3, RowWritten DEF row
<1>5. /\ Table(session, user', epoch) /\ Factor(session, user')
      /\ Table(challenge, user', epoch) /\ Table(link, user', epoch) /\ Requests(req, user', epoch)
  BY <1>4, AfterRows
<1>6. Requests(req', user', epoch)
  BY <1>5, RequestEnds DEF FinishUpdateUser
<1> QED
  BY <1>4, <1>5, <1>6, Commits DEF FinishUpdateUser, AccountsInv, Rest

LEMMA NewRowIs ==
  ASSUME NEW role \in {"org_admin", "member"}
  PROVE  /\ NewRow(role, TRUE) \in Row /\ NewRow(role, TRUE) # None
         /\ NewRow(role, FALSE) \in Row /\ NewRow(role, FALSE) # None
<1>1. 0 \in Code
  BY AccountsAssumption DEF Code
<1>2. NewRow(role, TRUE) \in Row
  BY <1>1 DEF NewRow, Row
<1>3. NewRow(role, FALSE) \in Row
  BY <1>1 DEF NewRow, Row
<1> QED
  BY <1>2, <1>3, AccountsAssumption

LEMMA FinishCallbackHolds ==
  ASSUME AccountsInv, NEW r \in Request, FinishCallback(r) PROVE AccountsInv'
<1> DEFINE u == req[r].on
<1>1. /\ req[r] \in Busy /\ Good(req[r], epoch) /\ Informed(req[r], user) /\ u \in Account
      /\ req[r].op = "callback"
  BY FinishingIs, BusyOn DEF FinishCallback
<1>2. Users(user') /\ Kept(user, user') /\ user'[u] # None /\ ~user'[u].local
  <2>1. CASE req[r].row = None
    <3> DEFINE row == NewRow(IF req[r].first THEN "org_admin" ELSE "member", FALSE)
    <3>1. row \in Row /\ row # None
      BY NewRowIs
    <3>2. ~row.local
      BY DEF NewRow
    <3>3. user' = [user EXCEPT ![u] = row] /\ ~Has(u)
      BY <2>1 DEF FinishCallback
    <3> HIDE DEF row
    <3>4. user'[u] = row
      BY <1>1, <3>3 DEF AccountsInv, Users
    <3> QED
      BY <1>1, <3>1, <3>2, <3>3, <3>4, RowWritten
  <2>2. CASE req[r].row # None
    <3>1. user' = user /\ user[u] # None /\ ~user[u].local
      BY <1>1, <2>2 DEF FinishCallback, Informed
    <3> QED
      BY <3>1 DEF AccountsInv, Users, Kept
  <2> QED
    BY <2>1, <2>2
<1>3. /\ Table(session, user', epoch) /\ Factor(session, user')
      /\ Table(challenge, user', epoch) /\ Table(link, user', epoch) /\ Requests(req, user', epoch)
  BY <1>2, AfterRows
<1>4. Table(session', user', epoch) /\ Factor(session', user')
  <2>1. PICK s \in Slot : session' = [session EXCEPT ![s] = TicketOf(r)]
    BY DEF FinishCallback
  <2> QED
    BY <1>1, <1>2, <1>3, <2>1, TicketOfIs, SessionComes DEF Asked
<1>5. Requests(req', user', epoch)
  BY <1>3, RequestEnds DEF FinishCallback
<1> QED
  BY <1>2, <1>3, <1>4, <1>5, Commits DEF FinishCallback, AccountsInv, Rest

-----------------------------------------------------------------------------
\* issue_password_setup_link: a new link, the others voided or late.
LEMMA IssuedLinks ==
  ASSUME AccountsInv, NEW r \in Request, NEW e \in Nat, IssueLink(r, e), req[r].on \in Account
  PROVE  /\ link' \in [Slot -> Ticket \cup {None}]
         /\ \A c \in Slot :
              \/ link'[c] = None
              \/ link[c] # None /\ link[c].on # req[r].on /\ link'[c] = link[c]
              \/ link'[c].on = req[r].on /\ link'[c].late
              \/ link'[c].on = req[r].on /\ link'[c].epoch = e
<1> DEFINE u == req[r].on
           new == [on |-> u, epoch |-> e, late |-> FALSE]
<1>1. PICK l \in Slot :
        link' = [k \in Slot |-> IF k = l THEN new ELSE IF k \in Voided(r) THEN None
                               ELSE IF k \in LinksOf(u) THEN [link[k] EXCEPT !.late = TRUE]
                               ELSE link[k]]
  BY DEF IssueLink
<1>2. new \in Ticket /\ new.on = u /\ new.epoch = e
  BY DEF Ticket
<1>3. \A k \in Slot : link[k] \in Ticket \cup {None}
  BY DEF AccountsInv, Table
<1>4. \A k \in LinksOf(u) : k \in Slot /\ link[k] \in Ticket /\ link[k].on = u
  BY <1>3 DEF LinksOf
<1>5. \A k \in LinksOf(u) : /\ [link[k] EXCEPT !.late = TRUE] \in Ticket
                            /\ [link[k] EXCEPT !.late = TRUE].on = u
                            /\ [link[k] EXCEPT !.late = TRUE].late
  BY <1>4, TicketMarked
<1> HIDE DEF new, u
<1>6. ASSUME NEW c \in Slot
      PROVE  /\ link'[c] \in Ticket \cup {None}
             /\ \/ link'[c] = None
                \/ link[c] # None /\ link[c].on # u /\ link'[c] = link[c]
                \/ link'[c].on = u /\ link'[c].late
                \/ link'[c].on = u /\ link'[c].epoch = e
  <2>1. CASE link'[c] = new
    BY <1>2, <2>1
  <2>2. CASE link'[c] = None
    BY <2>2
  <2>3. CASE c \in LinksOf(u) /\ link'[c] = [link[c] EXCEPT !.late = TRUE]
    BY <1>5, <2>3
  <2>4. CASE c \notin LinksOf(u) /\ link'[c] = link[c]
    BY <1>3, <2>4 DEF LinksOf
  <2> QED
    BY <1>1, <2>1, <2>2, <2>3, <2>4
<1>7. link' = [k \in Slot |-> link'[k]]
  BY <1>1
<1> QED
  BY <1>6, <1>7 DEF u

LEMMA FinishCreateHolds ==
  ASSUME AccountsInv, NEW r \in Request, FinishCreate(r) PROVE AccountsInv'
<1> DEFINE u == req[r].on
<1>1. u \in Account /\ user[u] = None /\ epoch[u] \in Nat
  BY FinishingIs, BusyOn DEF FinishCreate, Has, AccountsInv
<1>2. PICK role \in {"org_admin", "member"} : user' = [user EXCEPT ![u] = NewRow(role, TRUE)]
  BY DEF FinishCreate
<1>3. Users(user') /\ Kept(user, user')
  BY <1>1, <1>2, NewRowIs, RowWritten DEF Has
<1>4. user'[u] # None
  BY <1>1, <1>2, NewRowIs DEF AccountsInv, Users
<1>5. /\ Table(session, user', epoch) /\ Factor(session, user')
      /\ Table(challenge, user', epoch) /\ Table(link, user', epoch) /\ Requests(req, user', epoch)
  BY <1>3, AfterRows
<1>6. Table(link', user', epoch)
  <2>1. IssueLink(r, epoch[u])
    BY DEF FinishCreate
  <2>2. /\ link' \in [Slot -> Ticket \cup {None}]
        /\ \A c \in Slot :
              \/ link'[c] = None
              \/ link[c] # None /\ link[c].on # u /\ link'[c] = link[c]
              \/ link'[c].on = u /\ link'[c].late
              \/ link'[c].on = u /\ link'[c].epoch = epoch[u]
    BY <1>1, <2>1, IssuedLinks
  <2> QED
    BY <1>4, <1>5, <2>2 DEF Table, Stands, Good
<1>7. Requests(req', user', epoch)
  BY <1>5, RequestEnds DEF FinishCreate
<1> QED
  BY <1>3, <1>5, <1>6, <1>7, Commits DEF FinishCreate, AccountsInv, Rest

\* revoke_user_sessions: none is left but the one spared, which moves along.
LEMMA RevokedSessions ==
  ASSUME AccountsInv, NEW u \in Account, NEW keep, session' = RevokeUserSessions(u, keep)
  PROVE  /\ session' \in [Slot -> Ticket \cup {None}]
         /\ \A c \in Slot :
              \/ session'[c] = None
              \/ session[c] # None /\ session[c].on # u /\ session'[c] = session[c]
              \/ /\ session[c] # None /\ session[c].on = u /\ c = keep
                 /\ session'[c].on = u /\ session'[c].epoch = epoch[u] + 1
                 /\ session'[c].late = session[c].late
<1>1. \A c \in Slot : session[c] \in Ticket \cup {None}
  BY DEF AccountsInv, Table
<1>2. epoch[u] + 1 \in Nat
  BY DEF AccountsInv
<1>3. ASSUME NEW c \in Slot
      PROVE  /\ session'[c] \in Ticket \cup {None}
             /\ \/ session'[c] = None
                \/ session[c] # None /\ session[c].on # u /\ session'[c] = session[c]
                \/ /\ session[c] # None /\ session[c].on = u /\ c = keep
                   /\ session'[c].on = u /\ session'[c].epoch = epoch[u] + 1
                   /\ session'[c].late = session[c].late
  <2>1. CASE session[c] # None /\ session[c].on = u /\ c = keep
    <3>1. session'[c] = [session[c] EXCEPT !.epoch = epoch[u] + 1]
      BY <2>1 DEF RevokeUserSessions
    <3>2. session[c] \in Ticket
      BY <1>1, <2>1
    <3>3. /\ session'[c] \in Ticket /\ session'[c].on = session[c].on
          /\ session'[c].epoch = epoch[u] + 1 /\ session'[c].late = session[c].late
      BY <1>2, <3>1, <3>2 DEF Ticket
    <3> QED
      BY <2>1, <3>3
  <2>2. CASE ~(session[c] # None /\ session[c].on = u /\ c = keep)
    BY <1>1, <2>2 DEF RevokeUserSessions
  <2> QED
    BY <2>1, <2>2
<1>4. session' = [c \in Slot |-> session'[c]]
  BY DEF RevokeUserSessions
<1> QED
  BY <1>3, <1>4

LEMMA FactorRevoked ==
  ASSUME AccountsInv, NEW u \in Account, NEW keep, session' = RevokeUserSessions(u, keep),
         KeptBut(user, user', u), keep # None => (user[u].mfa => user'[u].mfa), keep \in Slot \cup {None}
  PROVE  Factor(session', user')
<1> SUFFICES ASSUME NEW s \in Slot, session'[s] # None, ~session'[s].late,
                    Asked(session'[s].on, user')
             PROVE  user'[session'[s].on].mfa
  BY DEF Factor
<1>1. \/ session[s] # None /\ session[s].on # u /\ session'[s] = session[s]
      \/ /\ session[s] # None /\ session[s].on = u /\ s = keep
         /\ session'[s].on = u /\ session'[s].late = session[s].late
  BY RevokedSessions
<1>2. session[s] # None /\ session'[s].on = session[s].on /\ session'[s].late = session[s].late
  BY <1>1
<1>3. session[s].on \in Account /\ user[session[s].on] # None
  BY <1>2 DEF AccountsInv, Table, Stands, Ticket
<1>4. Asked(session[s].on, user) => user[session[s].on].mfa
  BY <1>2 DEF AccountsInv, Factor
<1>5. keep # None \/ session[s].on # u
  BY <1>1, AccountsAssumption
<1> QED
  BY <1>2, <1>3, <1>4, <1>5 DEF KeptBut, Asked

\* cancel_pending_logins, or marking what goes on.
LEMMA CancelledOrLate ==
  ASSUME NEW tab, Table(tab, user, epoch), NEW u, NEW tab2,
         tab2 \in {Late(tab, u), [c \in Slot |-> IF tab[c] # None /\ tab[c].on = u THEN None ELSE tab[c]]}
  PROVE  Moved(tab, tab2, u)
<1>1. \A c \in Slot : tab[c] \in Ticket \cup {None}
  BY DEF Table
<1>2. \A c \in Slot : tab[c] # None /\ tab[c].on = u =>
        /\ [tab[c] EXCEPT !.late = TRUE] \in Ticket
        /\ [tab[c] EXCEPT !.late = TRUE].on = u /\ [tab[c] EXCEPT !.late = TRUE].late
  BY <1>1, TicketMarked
<1>3. CASE tab2 = Late(tab, u)
  BY <1>1, <1>2, <1>3 DEF Late, Moved
<1>4. CASE tab2 = [c \in Slot |-> IF tab[c] # None /\ tab[c].on = u THEN None ELSE tab[c]]
  BY <1>1, <1>4 DEF Moved
<1> QED
  BY <1>3, <1>4

\* The three changes of credentials, from what each does to rows and tables.
LEMMA Changes ==
  ASSUME AccountsInv, NEW u \in Account, user[u] # None, epoch' = [epoch EXCEPT ![u] = @ + 1],
         org'.demo = org.demo, Users(user'), KeptBut(user, user', u), Rest', Factor(session', user'),
         Table(session', user', epoch'), Table(challenge', user', epoch'),
         Table(link', user', epoch'), Requests(req', user', epoch')
  PROVE  AccountsInv'
<1>1. epoch' \in [Account -> Nat]
  BY DEF AccountsInv
<1> QED
  BY <1>1 DEF AccountsInv, Factor, Asked

LEMMA RowChanged ==
  ASSUME AccountsInv, NEW u \in Account, NEW row \in Row, row # None, user[u] # None,
         row.local = user[u].local, user' = [user EXCEPT ![u] = row]
  PROVE  Users(user') /\ KeptBut(user, user', u) /\ user'[u] = row
BY DEF AccountsInv, Users, KeptBut

LEMMA FinishOwnChangeHolds ==
  ASSUME AccountsInv, NEW r \in Request, FinishOwnChange(r) PROVE AccountsInv'
<1> DEFINE u == req[r].on
<1>1. /\ req[r] \in Busy /\ u \in Account /\ user[u] \in Row /\ user[u] # None
      /\ \A w \in Row : w # None
  BY FinishesWithRow DEF FinishOwnChange, Op
<1>2. /\ Users(user') /\ KeptBut(user, user', u) /\ (user[u].mfa => user'[u].mfa)
      /\ Codes(used', ahead')
  <2>1. CASE user' = [user EXCEPT ![u].pw = TRUE] /\ UNCHANGED <<used, ahead>>
    <3> DEFINE row == [user[u] EXCEPT !.pw = TRUE]
    <3>1. row \in Row /\ row.local = user[u].local /\ row.mfa = user[u].mfa
      BY <1>1 DEF Row
    <3>2. user' = [user EXCEPT ![u] = row]
      BY <2>1
    <3> HIDE DEF row
    <3>3. Users(user') /\ KeptBut(user, user', u) /\ user'[u] = row
      BY <1>1, <3>1, <3>2, RowChanged
    <3> QED
      BY <2>1, <3>1, <3>3 DEF AccountsInv, Rest
  <2>2. ASSUME NEW t \in Code, Enrols(u, t)
        PROVE  /\ Users(user') /\ KeptBut(user, user', u) /\ (user[u].mfa => user'[u].mfa)
               /\ Codes(used', ahead')
    BY <1>1, <2>2, EnrolsHolds DEF Kept, KeptBut
  <2> QED
    BY <2>1, <2>2 DEF FinishOwnChange
<1>e. epoch' = [epoch EXCEPT ![u] = @ + 1] /\ epoch \in [Account -> Nat]
  BY DEF FinishOwnChange, AccountsInv
<1>3. session' = RevokeUserSessions(u, req[r].by) /\ req[r].by \in Slot \cup {None}
  BY <1>1 DEF FinishOwnChange, Busy
<1>4. Factor(session', user')
  BY <1>1, <1>2, <1>3, FactorRevoked
<1>5. Table(session', user', epoch')
  <2>1. Moved(session, session', u)
    BY <1>1, <1>3, RevokedSessions DEF Moved
  <2> QED
    BY <1>1, <1>2, <1>e, <2>1, TableChanged DEF AccountsInv
<1>6. Table(challenge', user', epoch') /\ Table(link', user', epoch')
  <2>1. challenge' = Late(challenge, u) /\ link' = Late(link, u)
    BY DEF FinishOwnChange
  <2>2. Table(challenge, user, epoch) /\ Table(link, user, epoch)
    BY DEF AccountsInv
  <2>3. Table(challenge', user', epoch')
    <3>1. Moved(challenge, challenge', u)
      BY <2>1, <2>2, CancelledOrLate
    <3> QED
      BY <1>1, <1>2, <1>e, <2>2, <3>1, TableChanged
  <2>4. Table(link', user', epoch')
    <3>1. Moved(link, link', u)
      BY <2>1, <2>2, CancelledOrLate
    <3> QED
      BY <1>1, <1>2, <1>e, <2>2, <3>1, TableChanged
  <2> QED
    BY <2>3, <2>4
<1>7. Requests(req', user', epoch')
  <2>1. Overtakes(r, u, TRUE, TRUE) \/ Overtakes(r, u, TRUE, FALSE)
    BY DEF FinishOwnChange, Overtakes
  <2> QED
    BY <1>1, <1>2, <1>e, <2>1, OvertakesChange
<1> QED
  BY <1>1, <1>2, <1>e, <1>4, <1>5, <1>6, <1>7, Changes DEF FinishOwnChange, AccountsInv, Rest

LEMMA FinishResetPasswordHolds ==
  ASSUME AccountsInv, NEW r \in Request, FinishResetPassword(r) PROVE AccountsInv'
<1> DEFINE u == req[r].on
           row == [user[u] EXCEPT !.pw = FALSE]
<1>1. /\ req[r] \in Busy /\ u \in Account /\ user[u] \in Row /\ user[u] # None
      /\ \A w \in Row : w # None
  BY FinishesWithRow DEF FinishResetPassword, Op
<1>2. row \in Row /\ row.local = user[u].local /\ row.mfa = user[u].mfa
  BY <1>1 DEF Row
<1>3. user' = [user EXCEPT ![u] = row]
  BY DEF FinishResetPassword
<1> HIDE DEF row
<1>4. Users(user') /\ KeptBut(user, user', u)
  BY <1>1, <1>2, <1>3, RowChanged
<1>e. epoch' = [epoch EXCEPT ![u] = @ + 1] /\ epoch \in [Account -> Nat] /\ epoch[u] + 1 \in Nat
  BY <1>1 DEF FinishResetPassword, AccountsInv
<1>5. session' = RevokeUserSessions(u, None)
  BY DEF FinishResetPassword
<1>6. Factor(session', user')
  BY <1>1, <1>4, <1>5, FactorRevoked
<1>7. Table(session', user', epoch')
  <2>1. Moved(session, session', u)
    BY <1>1, <1>5, RevokedSessions DEF Moved
  <2> QED
    BY <1>1, <1>4, <1>e, <2>1, TableChanged DEF AccountsInv
<1>8. Table(challenge', user', epoch')
  <2>1. challenge' = [c \in Slot |-> IF challenge[c] # None /\ challenge[c].on = u THEN None ELSE challenge[c]]
    BY DEF FinishResetPassword, CancelPendingLogins
  <2>2. Table(challenge, user, epoch)
    BY DEF AccountsInv
  <2>3. Moved(challenge, challenge', u)
    BY <2>1, <2>2, CancelledOrLate
  <2> QED
    BY <1>1, <1>4, <1>e, <2>2, <2>3, TableChanged
<1>9. Table(link', user', epoch')
  <2>1. IssueLink(r, epoch[u] + 1)
    BY DEF FinishResetPassword
  <2>2. Moved(link, link', u)
    BY <1>1, <1>e, <2>1, IssuedLinks DEF Moved
  <2> QED
    BY <1>1, <1>4, <1>e, <2>2, TableChanged DEF AccountsInv
<1>10. Requests(req', user', epoch')
  BY <1>1, <1>4, <1>e, OvertakesChange DEF FinishResetPassword
<1>11. Rest' /\ org' = org
  BY <1>1 DEF FinishResetPassword, AccountsInv, Rest
<1> QED
  BY <1>1, <1>4, <1>e, <1>6, <1>7, <1>8, <1>9, <1>10, <1>11, Changes

LEMMA FinishResetMfaHolds ==
  ASSUME AccountsInv, NEW r \in Request, FinishResetMfa(r) PROVE AccountsInv'
<1> DEFINE u == req[r].on
           row == [user[u] EXCEPT !.mfa = FALSE, !.codes = FALSE]
<1>1. /\ req[r] \in Busy /\ u \in Account /\ user[u] \in Row /\ user[u] # None
      /\ \A w \in Row : w # None
  BY FinishesWithRow DEF FinishResetMfa, Op
<1>2. row \in Row /\ row.local = user[u].local
  BY <1>1 DEF Row
<1>3. user' = [user EXCEPT ![u] = row]
  BY DEF FinishResetMfa
<1> HIDE DEF row
<1>4. Users(user') /\ KeptBut(user, user', u)
  BY <1>1, <1>2, <1>3, RowChanged
<1>e. epoch' = [epoch EXCEPT ![u] = @ + 1] /\ epoch \in [Account -> Nat] /\ epoch[u] + 1 \in Nat
  BY <1>1 DEF FinishResetMfa, AccountsInv
<1>5. session' = RevokeUserSessions(u, None)
  BY DEF FinishResetMfa
<1>6. Factor(session', user')
  BY <1>1, <1>4, <1>5, FactorRevoked
<1>7. Table(session', user', epoch')
  <2>1. Moved(session, session', u)
    BY <1>1, <1>5, RevokedSessions DEF Moved
  <2> QED
    BY <1>1, <1>4, <1>e, <2>1, TableChanged DEF AccountsInv
<1>8. Table(challenge', user', epoch')
  <2>1. challenge' = [c \in Slot |-> IF challenge[c] # None /\ challenge[c].on = u THEN None ELSE challenge[c]]
    BY DEF FinishResetMfa, CancelPendingLogins
  <2>2. Table(challenge, user, epoch)
    BY DEF AccountsInv
  <2>3. Moved(challenge, challenge', u)
    BY <2>1, <2>2, CancelledOrLate
  <2> QED
    BY <1>1, <1>4, <1>e, <2>2, <2>3, TableChanged
<1>9. Table(link', user', epoch')
  <2>1. link' = [l \in Slot |-> IF l \in LinksOf(u) THEN [link[l] EXCEPT !.epoch = epoch[u] + 1] ELSE link[l]]
    BY DEF FinishResetMfa
  <2>2. \A l \in Slot : link[l] \in Ticket \cup {None}
    BY DEF AccountsInv, Table
  <2>3. ASSUME NEW c \in Slot
        PROVE  /\ link'[c] \in Ticket \cup {None}
               /\ \/ link'[c] = None
                  \/ link[c] # None /\ link[c].on # u /\ link'[c] = link[c]
                  \/ link'[c].on = u /\ (link'[c].late \/ link'[c].epoch = epoch[u] + 1)
    <3>1. CASE c \in LinksOf(u)
      <4>1. link[c] \in Ticket /\ link[c].on = u
        BY <2>2, <3>1 DEF LinksOf
      <4>2. link'[c] = [link[c] EXCEPT !.epoch = epoch[u] + 1]
        BY <2>1, <3>1
      <4>3. link'[c] \in Ticket /\ link'[c].on = u /\ link'[c].epoch = epoch[u] + 1
        BY <1>e, <4>1, <4>2 DEF Ticket
      <4> QED
        BY <4>3
    <3>2. CASE c \notin LinksOf(u)
      BY <2>1, <2>2, <3>2 DEF LinksOf
    <3> QED
      BY <3>1, <3>2
  <2>4. Moved(link, link', u)
    BY <2>1, <2>3 DEF Moved
  <2> QED
    BY <1>1, <1>4, <1>e, <2>4, TableChanged DEF AccountsInv
<1>10. Requests(req', user', epoch')
  BY <1>1, <1>4, <1>e, OvertakesChange DEF FinishResetMfa
<1>11. Rest' /\ org' = org
  BY <1>1 DEF FinishResetMfa, AccountsInv, Rest, Codes
<1> QED
  BY <1>1, <1>4, <1>e, <1>6, <1>7, <1>8, <1>9, <1>10, <1>11, Changes
-----------------------------------------------------------------------------
LEMMA FailsHolds == ASSUME AccountsInv, NEW r \in Request, Fails(r) PROVE AccountsInv'
<1>1. Requests(req', user, epoch)
  BY RequestEnds DEF Fails, AccountsInv
<1> QED
  BY <1>1 DEF Fails, AccountsInv, Users, Rest, Factor, Asked

\* Tickets that end by themselves, by signing out or by too many guesses.
LEMMA EndsHolds ==
  ASSUME AccountsInv, NEW c \in Slot,
         TooManyGuesses(c) \/ SessionEnds(c) \/ ChallengeExpires(c) \/ LinkExpires(c)
  PROVE  AccountsInv'
<1> DEFINE Shrinks(tab, tab2) == tab2 \in [Slot -> Ticket \cup {None}] /\ \A s \in Slot : tab2[s] \in {tab[s], None}
<1>1. Shrinks(session, session') /\ Shrinks(challenge, challenge') /\ Shrinks(link, link')
  <2>1. CASE TooManyGuesses(c)
    BY <2>1 DEF TooManyGuesses, CancelPendingLogins, AccountsInv, Table
  <2>2. CASE SessionEnds(c) \/ ChallengeExpires(c) \/ LinkExpires(c)
    BY <2>2 DEF SessionEnds, ChallengeExpires, LinkExpires, AccountsInv, Table
  <2> QED
    BY <2>1, <2>2
<1>2. UNCHANGED <<org, user, now, req, epoch, used, ahead, raced, work>>
  BY DEF TooManyGuesses, SessionEnds, ChallengeExpires, LinkExpires
<1>3. Table(session', user, epoch) /\ Table(challenge', user, epoch) /\ Table(link', user, epoch)
  BY <1>1 DEF AccountsInv, Table, Stands
<1>4. Factor(session', user)
  BY <1>1 DEF AccountsInv, Factor
<1> QED
  BY <1>2, <1>3, <1>4 DEF AccountsInv, Users, Rest, Factor, Asked

LEMMA InitHolds == Init => AccountsInv
<1> SUFFICES ASSUME Init PROVE AccountsInv
  OBVIOUS
<1>1. PICK founders \in SUBSET Member, enrolled \in SUBSET Glass, signing \in SUBSET Member :
       /\ org \in [suspended : {FALSE}, sso : {FALSE, founders = {}}, demo : {FALSE, Cardinality(founders) = 1}]
       /\ signing \subseteq founders /\ (~org.demo => signing = founders)
       /\ user = [u \in Account |-> IF u \in signing \cup enrolled THEN Enrolled("org_admin")
                                  ELSE IF u \in founders \cup Glass THEN WithPassword
                                  ELSE None]
       /\ \/ session \in Tickets(founders \cup enrolled) /\ challenge \in Tickets({})
          \/ session \in Tickets({}) /\ challenge \in Tickets(signing \cup Glass)
  <2>1. PICK founders \in SUBSET Member, enrolled \in SUBSET Glass :
         /\ org \in [suspended : {FALSE}, sso : {FALSE, founders = {}}, demo : {FALSE, Cardinality(founders) = 1}]
         /\ user = [u \in Account |-> IF u \in (IF org.demo THEN {} ELSE founders) \cup enrolled THEN Enrolled("org_admin")
                                    ELSE IF u \in founders \cup Glass THEN WithPassword
                                    ELSE None]
         /\ \/ session \in Tickets(founders \cup enrolled) /\ challenge \in Tickets({})
            \/ session \in Tickets({}) /\ challenge \in Tickets((IF org.demo THEN {} ELSE founders) \cup Glass)
    BY DEF Init
  <2> DEFINE signing == IF org.demo THEN {} ELSE founders
  <2>2. signing \in SUBSET Member /\ signing \subseteq founders /\ (~org.demo => signing = founders)
    OBVIOUS
  <2> HIDE DEF signing
  <2>3. \E sgn \in SUBSET Member :
         /\ sgn \subseteq founders /\ (~org.demo => sgn = founders)
         /\ user = [u \in Account |-> IF u \in sgn \cup enrolled THEN Enrolled("org_admin")
                                    ELSE IF u \in founders \cup Glass THEN WithPassword
                                    ELSE None]
         /\ \/ session \in Tickets(founders \cup enrolled) /\ challenge \in Tickets({})
            \/ session \in Tickets({}) /\ challenge \in Tickets(sgn \cup Glass)
    <3> WITNESS signing \in SUBSET Member
    <3> QED
      BY <2>1, <2>2 DEF signing
  <2> QED
    BY <2>1, <2>3
<1>2. /\ Enrolled("org_admin") \in Row /\ Enrolled("org_admin").mfa
      /\ WithPassword \in Row
  BY NewRowIs DEF Enrolled, WithPassword, Row
<1>3. Users(user) /\ \A u \in founders \cup Glass : user[u] # None
  BY <1>1, <1>2, AccountsAssumption DEF Users, Account
<1>4. epoch = [u \in Account |-> 0] /\ epoch \in [Account -> Nat]
  BY DEF Init
<1>5. ASSUME NEW A \in SUBSET Account, NEW tab \in Tickets(A), \A u \in A : user[u] # None
      PROVE  Table(tab, user, epoch) /\ \A s \in Slot : tab[s] # None => tab[s].on \in A
  <2>1. ASSUME NEW s \in Slot, tab[s] # None
        PROVE  tab[s] \in Ticket /\ tab[s].on \in A /\ tab[s].epoch = 0
    <3>1. PICK u \in A : tab[s] = [on |-> u, epoch |-> 0, late |-> FALSE]
      BY <2>1 DEF Tickets
    <3>2. u \in Account
      OBVIOUS
    <3> QED
      BY <3>1, <3>2 DEF Ticket
  <2>2. tab \in [Slot -> Ticket \cup {None}]
    BY <2>1 DEF Tickets
  <2> QED
    BY <1>4, <1>5, <2>1, <2>2 DEF Table, Stands, Good
<1>6. /\ founders \cup enrolled \in SUBSET Account /\ signing \cup Glass \in SUBSET Account
      /\ {} \in SUBSET Account
  BY DEF Account
<1>7. Table(session, user, epoch) /\ Table(challenge, user, epoch)
      /\ \A s \in Slot : session[s] # None => session[s].on \in founders \cup enrolled
  <2>1. CASE session \in Tickets(founders \cup enrolled) /\ challenge \in Tickets({})
    BY <1>3, <1>5, <1>6, <2>1
  <2>2. CASE session \in Tickets({}) /\ challenge \in Tickets(signing \cup Glass)
    BY <1>1, <1>3, <1>5, <1>6, <2>2
  <2> QED
    BY <1>1, <2>1, <2>2
<1>8. Factor(session, user)
  <2> SUFFICES ASSUME NEW s \in Slot, session[s] # None, Asked(session[s].on, user)
               PROVE  user[session[s].on].mfa
    BY DEF Factor
  <2>1. session[s].on \in founders \cup enrolled /\ session[s].on \in Account
    BY <1>6, <1>7
  <2>2. session[s].on \in signing \cup enrolled
    BY <1>1, <2>1 DEF Asked
  <2> QED
    BY <1>1, <1>2, <2>1, <2>2
<1>9. Table(link, user, epoch)
  BY DEF Init, Table, Stands
<1>10. Requests(req, user, epoch)
  BY DEF Init, Requests
<1>11. Rest
  <2>1. org \in [suspended : BOOLEAN, sso : BOOLEAN, demo : BOOLEAN]
    BY <1>1
  <2> QED
    BY <2>1, AccountsAssumption DEF Init, Rest, Codes, Code
<1> QED
  BY <1>3, <1>4, <1>7, <1>8, <1>9, <1>10, <1>11 DEF AccountsInv

LEMMA StepHolds == AccountsInv /\ [Next]_vars => AccountsInv'
<1> SUFFICES ASSUME AccountsInv, [Next]_vars PROVE AccountsInv'
  OBVIOUS
<1>1. ASSUME NEW r \in Request, Finishes(r) PROVE AccountsInv'
  BY <1>1, FinishLoginHolds, FinishDemoLoginHolds, FinishVerifyOtpHolds, FinishEnrollHolds, FinishSetPasswordHolds,
     FinishOwnChangeHolds, FinishResetPasswordHolds, FinishResetMfaHolds, FinishUpdateUserHolds,
     FinishCreateHolds, FinishCallbackHolds, FailsHolds DEF Finishes
<1>2. CASE UpdateOrganization
  BY <1>2, AccountsAssumption DEF UpdateOrganization, Begun, AccountsInv, Users, Rest, Factor, Asked
<1>3. CASE NextStep
  BY <1>3, AccountsAssumption DEF NextStep, AccountsInv, Users, Rest, Factor, Asked, Code
<1>4. CASE UNCHANGED vars
  BY <1>4 DEF vars, AccountsInv, Users, Rest, Factor, Asked
<1> QED
  BY <1>1, <1>2, <1>3, <1>4, BeginsHolds, EndsHolds DEF Next

LEMMA AccountsInvariant == Spec => []AccountsInv
BY InitHolds, StepHolds, PTL DEF Spec
-----------------------------------------------------------------------------
\* Every variable keeps its type, whatever requests overlap.
THEOREM TypeCorrect == Spec => []TypeOK
<1>1. AccountsInv => TypeOK
  BY DEF AccountsInv, TypeOK, Users, Table, Requests, Rest, Codes, Has
<1> QED
  BY <1>1, AccountsInvariant, PTL

\* A change of password or authenticator ends every session and half-finished
\* sign-in that stood on the old ones (revoke_user_sessions,
\* cancel_pending_logins), those of requests under way at the commit aside.
THEOREM ChangesAlwaysSignOut == Spec => []ChangesSignOut
<1>1. AccountsInv => ChangesSignOut
  BY DEF AccountsInv, Table, Stands, Good, ChangesSignOut, Outlives
<1> QED
  BY <1>1, AccountsInvariant, PTL

\* No session of a local account without an authenticator behind it
\* (verify_otp, clear_mfa).
THEOREM SecondFactorAlways == Spec => []SecondFactor
<1>1. AccountsInv => SecondFactor
  BY DEF AccountsInv, Factor, Asked, SecondFactor
<1> QED
  BY <1>1, AccountsInvariant, PTL
-----------------------------------------------------------------------------
\* What it takes for an admin to remain: rows keep their rank, and whoever an
\* update is made by is a member with a row.
Ranked(us, vs) ==
  \A u \in Account : us[u] # None =>
    vs[u] # None /\ vs[u].role = us[u].role /\ vs[u].active = us[u].active

ActorOf(q, us) == q.op = "update_user" => q.actor \in Member /\ us[q.actor] # None

Actors(rq, us) == \A r \in Request : rq[r] # Idle => ActorOf(rq[r], us)

ActorsInv == Actors(req, user)

LEMMA RankedByRow ==
  ASSUME AccountsInv, NEW u \in Account, NEW row \in Row, user' = [user EXCEPT ![u] = row],
         Has(u) => row.role = user[u].role /\ row.active = user[u].active
  PROVE  Ranked(user, user')
BY AccountsAssumption DEF AccountsInv, Users, Has, Ranked

LEMMA EnrolsRanked ==
  ASSUME AccountsInv, NEW u \in Account, user[u] \in Row, NEW t \in Code, Enrols(u, t)
  PROVE  Ranked(user, user')
<1> DEFINE row == [user[u] EXCEPT !.mfa = TRUE, !.step = now, !.codes = TRUE]
<1>1. row \in Row /\ row.role = user[u].role /\ row.active = user[u].active
  BY DEF Row, AccountsInv, Rest
<1>2. user' = [user EXCEPT ![u] = row]
  BY DEF Enrols
<1> HIDE DEF row
<1> QED
  BY <1>1, <1>2, RankedByRow

LEMMA VerifyRanked ==
  ASSUME AccountsInv, NEW r \in Request, FinishVerifyOtp(r)
  PROVE  Ranked(user, user')
<1> DEFINE u == req[r].on
<1>1. u \in Account /\ user[u] \in Row
  BY FinishesWithRow DEF FinishVerifyOtp, Op
<1>2. PICK t \in Code \cup {Recovery} : SignsIn(r, t)
  BY DEF FinishVerifyOtp
<1>3. CASE t # Recovery /\ user' = [user EXCEPT ![u].step = t]
  <2> DEFINE row == [user[u] EXCEPT !.step = t]
  <2>1. row \in Row /\ row.role = user[u].role /\ row.active = user[u].active
    BY <1>1, <1>3 DEF Row
  <2>2. user' = [user EXCEPT ![u] = row]
    BY <1>3
  <2> HIDE DEF row
  <2> QED
    BY <1>1, <2>1, <2>2, RankedByRow
<1>4. CASE user' = [user EXCEPT ![u].codes = FALSE]
  <2> DEFINE row == [user[u] EXCEPT !.codes = FALSE]
  <2>1. row \in Row /\ row.role = user[u].role /\ row.active = user[u].active
    BY <1>1 DEF Row
  <2>2. user' = [user EXCEPT ![u] = row]
    BY <1>4
  <2> HIDE DEF row
  <2> QED
    BY <1>1, <2>1, <2>2, RankedByRow
<1> QED
  BY <1>2, <1>3, <1>4 DEF SignsIn

LEMMA PasswordRanked ==
  ASSUME AccountsInv, NEW u \in Account, user[u] \in Row, NEW b \in BOOLEAN,
         user' = [user EXCEPT ![u].pw = b]
  PROVE  Ranked(user, user')
<1> DEFINE row == [user[u] EXCEPT !.pw = b]
<1>1. row \in Row /\ row.role = user[u].role /\ row.active = user[u].active
  BY DEF Row
<1>2. user' = [user EXCEPT ![u] = row]
  OBVIOUS
<1> HIDE DEF row
<1> QED
  BY <1>1, <1>2, RankedByRow

LEMMA ResetMfaRanked ==
  ASSUME AccountsInv, NEW r \in Request, FinishResetMfa(r)
  PROVE  Ranked(user, user')
<1> DEFINE u == req[r].on
           row == [user[u] EXCEPT !.mfa = FALSE, !.codes = FALSE]
<1>1. u \in Account /\ user[u] \in Row
  BY FinishesWithRow DEF FinishResetMfa, Op
<1>2. row \in Row /\ row.role = user[u].role /\ row.active = user[u].active
  BY <1>1 DEF Row
<1>3. user' = [user EXCEPT ![u] = row]
  BY DEF FinishResetMfa
<1> HIDE DEF row
<1> QED
  BY <1>1, <1>2, <1>3, RankedByRow

LEMMA NewRowRanked ==
  ASSUME AccountsInv, NEW u \in Account, ~Has(u), NEW role \in {"org_admin", "member"},
         NEW local \in BOOLEAN, user' = [user EXCEPT ![u] = NewRow(role, local)]
  PROVE  Ranked(user, user')
<1>1. NewRow(role, local) \in Row
  BY NewRowIs
<1> QED
  BY <1>1, RankedByRow

LEMMA UnchangedRanked == ASSUME user' = user PROVE Ranked(user, user')
BY DEF Ranked

\* Only update_user gives an account another rank.
LEMMA OthersKeepRanks ==
  ASSUME AccountsInv, [Next]_vars, ~\E r \in Request : FinishUpdateUser(r)
  PROVE  Ranked(user, user')
<1>1. ASSUME NEW r \in Request, Begins(r) PROVE user' = user
  BY <1>1 DEF Begins, LocalLogin, Callback, AdminCreateLocalUser, AdminLogin, VerifyOtp, Guess,
     AdminVerifyOtp, EnrollOtpConfirm, AdminEnrollOtpConfirm, SetPassword, ChangePassword,
     MfaResetConfirm, AdminChangePassword, UpdateUser, CreateLocalUser, AdminResetUser,
     ResetTeammate, Reads
<1>2. ASSUME NEW r \in Request, FinishLogin(r) \/ FinishDemoLogin(r) \/ Fails(r) PROVE user' = user
  BY <1>2 DEF FinishLogin, FinishDemoLogin, Fails
<1>3. ASSUME NEW r \in Request, FinishEnrollOtpConfirm(r) PROVE Ranked(user, user')
  <2>1. req[r].on \in Account /\ user[req[r].on] \in Row
    BY <1>3, FinishesWithRow DEF FinishEnrollOtpConfirm, Op
  <2> QED
    BY <1>3, <2>1, EnrolsRanked DEF FinishEnrollOtpConfirm
<1>4. ASSUME NEW r \in Request, FinishSetPassword(r) \/ FinishResetPassword(r)
      PROVE  Ranked(user, user')
  <2>1. req[r].on \in Account /\ user[req[r].on] \in Row
    BY <1>4, FinishesWithRow DEF FinishSetPassword, FinishResetPassword, Op
  <2>2. PICK b \in BOOLEAN : user' = [user EXCEPT ![req[r].on].pw = b]
    BY <1>4 DEF FinishSetPassword, FinishResetPassword
  <2> QED
    BY <2>1, <2>2, PasswordRanked
<1>5. ASSUME NEW r \in Request, FinishOwnChange(r) PROVE Ranked(user, user')
  <2>1. req[r].on \in Account /\ user[req[r].on] \in Row
    BY <1>5, FinishesWithRow DEF FinishOwnChange, Op
  <2>2. CASE user' = [user EXCEPT ![req[r].on].pw = TRUE]
    BY <2>1, <2>2, PasswordRanked
  <2>3. CASE \E t \in Code : Enrols(req[r].on, t)
    BY <2>1, <2>3, EnrolsRanked
  <2> QED
    BY <1>5, <2>2, <2>3 DEF FinishOwnChange
<1>6. ASSUME NEW r \in Request, FinishCreate(r) PROVE Ranked(user, user')
  <2>1. req[r].on \in Account
    BY <1>6, FinishingIs, BusyOn DEF FinishCreate
  <2> QED
    BY <1>6, <2>1, NewRowRanked DEF FinishCreate
<1>7. ASSUME NEW r \in Request, FinishCallback(r) PROVE Ranked(user, user')
  <2>1. req[r].on \in Account
    BY <1>7, FinishingIs, BusyOn DEF FinishCallback
  <2>2. CASE UNCHANGED user
    BY <2>2, UnchangedRanked
  <2>3. CASE ~Has(req[r].on) /\ \E role \in {"org_admin", "member"} :
               user' = [user EXCEPT ![req[r].on] = NewRow(role, FALSE)]
    BY <2>1, <2>3, NewRowRanked
  <2> QED
    BY <1>7, <2>2, <2>3 DEF FinishCallback
<1>8. ASSUME NEW c \in Slot,
             TooManyGuesses(c) \/ SessionEnds(c) \/ ChallengeExpires(c) \/ LinkExpires(c)
      PROVE  user' = user
  BY <1>8 DEF TooManyGuesses, SessionEnds, ChallengeExpires, LinkExpires
<1>9. ASSUME UpdateOrganization \/ NextStep \/ UNCHANGED vars PROVE user' = user
  BY <1>9 DEF UpdateOrganization, NextStep, vars
<1> QED
  BY <1>1, <1>2, <1>3, <1>4, <1>5, <1>6, <1>7, <1>8, <1>9, VerifyRanked, ResetMfaRanked,
     UnchangedRanked DEF Next, Finishes

\* No step takes a row away.
LEMMA RowsStay ==
  ASSUME AccountsInv, [Next]_vars, NEW u \in Account, user[u] # None
  PROVE  user'[u] # None
<1>1. CASE ~\E r \in Request : FinishUpdateUser(r)
  BY <1>1, OthersKeepRanks DEF Ranked
<1>2. ASSUME NEW r \in Request, FinishUpdateUser(r) PROVE user'[u] # None
  <2>1. user[req[r].on] \in Row /\ \A w \in Row : w # None
    BY <1>2, FinishesWithRow DEF FinishUpdateUser, Op
  <2>2. PICK role \in {"org_admin", "member"}, active \in BOOLEAN :
          user' = [user EXCEPT ![req[r].on] = Written(r, role, active)]
    BY <1>2 DEF FinishUpdateUser
  <2>3. Written(r, role, active) \in Row
    BY <2>1 DEF Written, Row
  <2> QED
    BY <2>1, <2>2, <2>3 DEF AccountsInv, Users
<1> QED
  BY <1>1, <1>2

\* A request begins an update only for a member who may make one.
LEMMA ReadsActor ==
  ASSUME AccountsInv, ActorsInv, NEW r \in Request, NEW op, NEW u,
         NEW by, NEW via, NEW since, Reads(r, op, u, by, via, since),
         op = "update_user" => by # None /\ session[by].on \in Member /\ user[session[by].on] # None
  PROVE  Actors(req', user)
<1> DEFINE q == [op |-> op, on |-> u, by |-> by, actor |-> IF by = None THEN None ELSE session[by].on,
        via |-> via, row |-> IF op \in RowReaders THEN user[u] ELSE None,
        first |-> op = "callback" /\ \A m \in Member : ~Has(m),
        seen |-> IF op = "reset_password" THEN LinksOf(u) ELSE {},
        epoch |-> since.epoch, late |-> since.late, stale |-> FALSE]
<1>1. req' = [req EXCEPT ![r] = q]
  BY DEF Reads
<1>2. ActorOf(q, user)
  BY DEF ActorOf
<1> HIDE DEF q
<1> QED
  BY <1>1, <1>2 DEF ActorsInv, Actors, AccountsInv, Requests

LEMMA BeginsActor ==
  ASSUME AccountsInv, ActorsInv, NEW r \in Request, Begins(r)
  PROVE  Actors(req', user)
<1>1. CASE \E s \in Slot, u \in Member : UpdateUser(r, s, u)
  <2>1. PICK s \in Slot, u \in Member : UpdateUser(r, s, u)
    BY <1>1
  <2>2. /\ session[s] # None /\ session[s].on \in Member
        /\ Reads(r, "update_user", u, s, None, Fresh(u))
    BY <2>1 DEF UpdateUser, ActsAsAdmin, ActsFor
  <2>3. user[session[s].on] # None /\ s # None
    BY <2>2, AccountsAssumption DEF AccountsInv, Table, Stands
  <2> QED
    BY <2>2, <2>3, ReadsActor
<1>2. CASE ~\E s \in Slot, u \in Member : UpdateUser(r, s, u)
  <2>1. PICK op \in Op \ {"update_user"} : \E u, by, via, since : Reads(r, op, u, by, via, since)
    BY <1>2 DEF Op, Begins, LocalLogin, Callback, AdminCreateLocalUser, AdminLogin, VerifyOtp, Guess,
       AdminVerifyOtp, EnrollOtpConfirm, AdminEnrollOtpConfirm, SetPassword, ChangePassword,
       MfaResetConfirm, AdminChangePassword, CreateLocalUser, AdminResetUser, ResetTeammate
  <2> QED
    BY <2>1, ReadsActor
<1> QED
  BY <1>1, <1>2

LEMMA OvertakesActor ==
  ASSUME AccountsInv, ActorsInv, NEW r \in Request, NEW u, NEW c, NEW f, Overtakes(r, u, c, f)
  PROVE  Actors(req', user)
<1> SUFFICES ASSUME NEW q \in Request, req'[q] # Idle PROVE ActorOf(req'[q], user)
  BY DEF Actors
<1>1. CASE req'[q] = req[q]
  BY <1>1 DEF ActorsInv, Actors
<1>2. CASE req[q] # Idle /\ req'[q] = [req[q] EXCEPT !.late = @ \/ c, !.stale = @ \/ f]
  <2>1. req[q] \in Busy
    BY <1>2 DEF AccountsInv, Requests
  <2>2. req'[q].op = req[q].op /\ req'[q].actor = req[q].actor
    BY <1>2, <2>1 DEF Busy
  <2> QED
    BY <1>2, <2>2 DEF ActorsInv, Actors, ActorOf
<1> QED
  BY <1>1, <1>2 DEF Overtakes

LEMMA EndsActor ==
  ASSUME AccountsInv, ActorsInv, NEW r \in Request, req' = Ends(r)
  PROVE  Actors(req', user)
BY DEF Ends, ActorsInv, Actors, AccountsInv, Requests

\* A request has just read, is overtaken, ends, or is as it was.
LEMMA RequestsGoOn ==
  ASSUME AccountsInv, ActorsInv, [Next]_vars
  PROVE  Actors(req', user)
<1>1. ASSUME NEW r \in Request, Finishes(r) PROVE Actors(req', user)
  <2>1. \/ req' = Ends(r)
        \/ \E u, c, f : Overtakes(r, u, c, f)
    BY <1>1 DEF Finishes, FinishLogin, FinishDemoLogin, FinishVerifyOtp, FinishEnrollOtpConfirm, FinishSetPassword,
       FinishOwnChange, FinishResetPassword, FinishResetMfa, FinishUpdateUser, FinishCreate,
       FinishCallback, Fails
  <2> QED
    BY <2>1, EndsActor, OvertakesActor
<1>2. ASSUME req' = req PROVE Actors(req', user)
  BY <1>2 DEF ActorsInv
<1>3. ASSUME NEW c \in Slot,
             TooManyGuesses(c) \/ SessionEnds(c) \/ ChallengeExpires(c) \/ LinkExpires(c)
      PROVE  req' = req
  BY <1>3 DEF TooManyGuesses, SessionEnds, ChallengeExpires, LinkExpires
<1>4. ASSUME UpdateOrganization \/ NextStep \/ UNCHANGED vars PROVE req' = req
  BY <1>4 DEF UpdateOrganization, NextStep, vars
<1> QED
  BY <1>1, <1>2, <1>3, <1>4, BeginsActor DEF Next

LEMMA ActorsStep == AccountsInv /\ ActorsInv /\ [Next]_vars => ActorsInv'
<1> SUFFICES ASSUME AccountsInv, ActorsInv, [Next]_vars PROVE ActorsInv'
  OBVIOUS
<1>1. Actors(req', user)
  BY RequestsGoOn
<1>2. \A u \in Member : user[u] # None => user'[u] # None
  BY RowsStay DEF Account
<1> QED
  BY <1>1, <1>2 DEF ActorsInv, Actors, ActorOf

\* Whoever makes the update is an admin still, and stays one.
LEMMA UpdaterRemains ==
  ASSUME AccountsInv, ActorsInv, NEW r \in Request, FinishUpdateUser(r), ~Overtaken(r)
  PROVE  HasAdmin'
<1> DEFINE a == req[r].actor
           u == req[r].on
<1>1. /\ u \in Account /\ user[u] \in Row /\ user[u] # None /\ \A w \in Row : w # None
  BY FinishesWithRow DEF FinishUpdateUser, Op
<1>2. a \in Member /\ user[a] # None
  BY DEF FinishUpdateUser, Finishing, ActorsInv, Actors, ActorOf
<1>3. user[a].active /\ user[a].role = "org_admin"
  BY DEF Overtaken, FinishUpdateUser
<1>4. PICK role \in {"org_admin", "member"}, active \in BOOLEAN :
        /\ OwnRankKept(r, role, active)
        /\ user' = [user EXCEPT ![u] = Written(r, role, active)]
  BY DEF FinishUpdateUser
<1>5. CASE a # u
  <2>1. user'[a] = user[a]
    BY <1>2, <1>4, <1>5 DEF Account, AccountsInv, Users
  <2> QED
    BY <1>2, <1>3, <2>1 DEF HasAdmin, Has
<1>6. CASE a = u
  <2>1. role = "org_admin" /\ active
    BY <1>4, <1>6 DEF OwnRankKept
  <2>2. /\ Written(r, role, active) \in Row
        /\ Written(r, role, active).role = "org_admin" /\ Written(r, role, active).active
    BY <1>1, <1>3, <1>6, <2>1 DEF Written, Row
  <2>3. user'[a] = Written(r, role, active)
    BY <1>1, <1>4, <1>6 DEF AccountsInv, Users
  <2> QED
    BY <1>1, <1>2, <2>2, <2>3 DEF HasAdmin, Has
<1> QED
  BY <1>5, <1>6

LEMMA AdminStep ==
  AccountsInv /\ ActorsInv /\ [Next]_vars => (HasAdmin => HasAdmin' \/ \E r \in Request : Overtaken(r))
<1> SUFFICES ASSUME AccountsInv, ActorsInv, [Next]_vars, HasAdmin, ~\E r \in Request : Overtaken(r)
             PROVE  HasAdmin'
  OBVIOUS
<1>1. CASE \E r \in Request : FinishUpdateUser(r)
  BY <1>1, UpdaterRemains
<1>2. CASE ~\E r \in Request : FinishUpdateUser(r)
  <2>1. PICK m \in Member : Has(m) /\ user[m].active /\ user[m].role = "org_admin"
    BY DEF HasAdmin
  <2>2. user'[m] # None /\ user'[m].active /\ user'[m].role = "org_admin"
    BY <1>2, <2>1, OthersKeepRanks DEF Ranked, Account, Has
  <2> QED
    BY <2>2 DEF HasAdmin, Has
<1> QED
  BY <1>1, <1>2

\* An organization with an active admin keeps one, unless an update is committed
\* for an admin who is none any more (update_user).
THEOREM AnAdminAlwaysRemains == Spec => AnAdminRemains
<1>1. Init => ActorsInv
  BY DEF Init, ActorsInv, Actors
<1>2. Spec => []ActorsInv
  BY <1>1, ActorsStep, AccountsInvariant, PTL DEF Spec
<1> QED
  BY <1>2, AdminStep, AccountsInvariant, PTL DEF Spec, AnAdminRemains
-----------------------------------------------------------------------------
\* A row that is not there has spent nothing; what was spent stays spent.
CodesInv == CodesStaySpent /\ \A u \in Account : user[u] = None => used[u] = {}

\* A row whose step only rises and whose codes only go, or whose history begins anew.
Carries(u) ==
  \/ used'[u] = {}
  \/ user'[u] # None /\ \A t \in used'[u] \ ahead'[u] : Spent(u, t)'
  \/ /\ used'[u] = used[u] /\ ahead'[u] = ahead[u]
     /\ user[u] # None => /\ user'[u] # None /\ user'[u].step >= user[u].step
                          /\ user'[u].codes => user[u].codes

LEMMA SpentCarries ==
  ASSUME AccountsInv, AccountsInv', CodesInv, raced \subseteq raced', \A u \in Account : Carries(u)
  PROVE  CodesInv'
<1> SUFFICES ASSUME NEW u \in Account
             PROVE  /\ user'[u] = None => used'[u] = {}
                    /\ u \notin raced' => \A t \in used'[u] \ ahead'[u] : Spent(u, t)'
  BY DEF CodesInv, CodesStaySpent
<1>1. CASE used'[u] = {}
  BY <1>1
<1>2. CASE used'[u] = used[u] /\ user[u] = None
  BY <1>2 DEF CodesInv
<1>3. CASE /\ used'[u] = used[u] /\ ahead'[u] = ahead[u] /\ user[u] # None /\ user'[u] # None
           /\ user'[u].step >= user[u].step
           /\ user'[u].codes => user[u].codes
  <2>1. user[u] \in Row /\ user'[u] \in Row /\ used[u] \subseteq Code \cup {Recovery}
    BY <1>3 DEF AccountsInv, Users, Rest, Codes
  <2>2. user[u].step \in Int /\ user'[u].step \in Int /\ \A t \in used[u] : t \in Int
    BY <2>1, AccountsAssumption DEF Row, Code, Recovery
  <2>3. ASSUME u \notin raced', NEW t \in used[u] \ ahead[u] PROVE Spent(u, t)'
    <3>1. Spent(u, t)
      BY <2>3 DEF CodesInv, CodesStaySpent
    <3> QED
      BY <1>3, <2>2, <3>1 DEF Spent
  <2> QED
    BY <1>3, <2>3
<1> QED
  BY <1>1, <1>2, <1>3 DEF Carries

\* One row is written, and the history of the others stays.
LEMMA RowCarries ==
  ASSUME AccountsInv, NEW u \in Account, NEW row \in Row,
         user' = [user EXCEPT ![u] = row], used' = used, ahead' = ahead,
         Has(u) => row.step = user[u].step /\ row.codes = user[u].codes
  PROVE  \A v \in Account : Carries(v)
<1>1. \A v \in Account : user[v] # None => user[v] \in Row /\ user[v].step \in Int
  BY AccountsAssumption DEF AccountsInv, Users, Row, Code
<1>2. row # None
  BY AccountsAssumption
<1> QED
  BY <1>1, <1>2 DEF AccountsInv, Users, Has, Carries

LEMMA SameCarries ==
  ASSUME AccountsInv, user' = user, used' = used, ahead' = ahead
  PROVE  \A v \in Account : Carries(v)
<1>1. \A v \in Account : user[v] # None => user[v] \in Row /\ user[v].step \in Int
  BY AccountsAssumption DEF AccountsInv, Users, Row, Code
<1> QED
  BY <1>1 DEF Carries

\* Another authenticator, or none.
LEMMA AnewCarries ==
  ASSUME AccountsInv, NEW u \in Account, NEW row,
         user' = [user EXCEPT ![u] = row], used' = [used EXCEPT ![u] = {}],
         ahead' = [ahead EXCEPT ![u] = {}]
  PROVE  \A v \in Account : Carries(v)
<1>1. \A v \in Account : user[v] # None => user[v] \in Row /\ user[v].step \in Int
  BY AccountsAssumption DEF AccountsInv, Users, Row, Code
<1> QED
  BY <1>1 DEF AccountsInv, Users, Rest, Codes, Carries

LEMMA EnrolsCarries ==
  ASSUME AccountsInv, NEW u \in Account, user[u] \in Row, NEW t \in Code, Enrols(u, t)
  PROVE  \A v \in Account : Carries(v)
<1> SUFFICES ASSUME NEW v \in Account PROVE Carries(v)
  OBVIOUS
<1>1. now \in Int /\ t \in Int /\ t # Recovery
  BY AccountsAssumption DEF AccountsInv, Rest, Code, Recovery
<1>2. user \in [Account -> Row \cup {None}] /\ Codes(used, ahead) /\ \A w \in Row : w # None
  BY AccountsAssumption DEF AccountsInv, Users, Rest
<1>3. CASE v = u
  <2> DEFINE row == [user[u] EXCEPT !.mfa = TRUE, !.step = now, !.codes = TRUE]
  <2>1. row \in Row /\ row.step = now
    BY DEF Row, AccountsInv, Rest
  <2>2. user'[u] = row
    BY <1>2 DEF Enrols
  <2> HIDE DEF row
  <2>3. used'[u] \ ahead'[u] = {t} \ {c \in {t} : c > now}
    BY <1>2 DEF Enrols, Codes
  <2>4. ASSUME NEW c \in used'[u] \ ahead'[u] PROVE Spent(u, c)'
    BY <1>1, <2>1, <2>2, <2>3, <2>4 DEF Spent
  <2> QED
    BY <1>2, <1>3, <2>1, <2>2, <2>4 DEF Carries
<1>4. CASE v # u
  <2>1. user'[v] = user[v] /\ used'[v] = used[v] /\ ahead'[v] = ahead[v]
    BY <1>2, <1>4 DEF Enrols, Codes
  <2>2. user[v] # None => user[v].step \in Int
    BY <1>2, AccountsAssumption DEF Row, Code
  <2> QED
    BY <2>1, <2>2 DEF Carries
<1> QED
  BY <1>3, <1>4

LEMMA PasswordCarries ==
  ASSUME AccountsInv, NEW u \in Account, user[u] \in Row, NEW b \in BOOLEAN,
         user' = [user EXCEPT ![u].pw = b], used' = used, ahead' = ahead
  PROVE  \A v \in Account : Carries(v)
<1> DEFINE row == [user[u] EXCEPT !.pw = b]
<1>1. row \in Row /\ row.step = user[u].step /\ row.codes = user[u].codes
  BY DEF Row
<1>2. user' = [user EXCEPT ![u] = row]
  OBVIOUS
<1> HIDE DEF row
<1> QED
  BY <1>1, <1>2, RowCarries

LEMMA UpdateCarries ==
  ASSUME AccountsInv, NEW r \in Request, FinishUpdateUser(r)
  PROVE  \A v \in Account : Carries(v)
<1>1. req[r].on \in Account /\ user[req[r].on] \in Row
  BY FinishesWithRow DEF FinishUpdateUser, Op
<1>2. PICK role \in {"org_admin", "member"}, active \in BOOLEAN :
        user' = [user EXCEPT ![req[r].on] = Written(r, role, active)]
  BY DEF FinishUpdateUser
<1> DEFINE row == Written(r, role, active)
<1>3. row \in Row /\ row.step = user[req[r].on].step /\ row.codes = user[req[r].on].codes
  BY <1>1 DEF Written, Row
<1> HIDE DEF row
<1> QED
  BY <1>1, <1>2, <1>3, RowCarries DEF row, FinishUpdateUser

\* A code is accepted: it lies above all that were, or the account is raced.
LEMMA VerifySpends ==
  ASSUME AccountsInv, AccountsInv', CodesInv, NEW r \in Request, FinishVerifyOtp(r)
  PROVE  CodesInv'
<1>0. /\ req[r].on \in Account /\ user[req[r].on] \in Row /\ user[req[r].on] # None
      /\ req[r] \in Busy /\ \A w \in Row : w # None
  BY FinishesWithRow DEF FinishVerifyOtp, Op
<1>u. PICK u \in Account : u = req[r].on
  BY <1>0
<1>1. user[u] \in Row /\ user[u] # None /\ req[r] \in Busy /\ \A w \in Row : w # None
  BY <1>0, <1>u
<1>2. PICK t \in Code \cup {Recovery} : SignsIn(r, t)
        /\ used' = [used EXCEPT ![u] = IF req[r].stale THEN @ ELSE @ \cup {t}]
        /\ ahead' = [ahead EXCEPT ![u] = IF req[r].stale THEN @ ELSE @ \ {t}]
  BY <1>u DEF FinishVerifyOtp
<1>3. /\ used \in [Account -> SUBSET (Code \cup {Recovery})] /\ ahead \in [Account -> SUBSET Code] /\ user \in [Account -> Row \cup {None}]
      /\ user[u].step \in Int
      /\ \A s \in Code \cup {Recovery} : s \in Int /\ (s = Recovery <=> s \notin Code)
  BY <1>1, AccountsAssumption DEF AccountsInv, Users, Rest, Codes, Row, Code, Recovery
<1>4. raced \subseteq raced'
  BY <1>2 DEF SignsIn
<1>5. ASSUME NEW v \in Account, v # u
      PROVE  user'[v] = user[v] /\ used'[v] = used[v] /\ ahead'[v] = ahead[v]
  BY <1>u, <1>2, <1>3, <1>5 DEF SignsIn
<1>6. user'[u] # None
  BY <1>1, RowsStay DEF Next, Finishes
<1>7. ASSUME u \notin raced', NEW s \in used'[u] \ ahead'[u] PROVE Spent(u, s)'
  <2>1. CASE t # Recovery /\ AcceptCode(req[r].row, t) /\ user' = [user EXCEPT ![u].step = t]
             /\ (t <= user[u].step => user[u].step = req[r].row.step)
    <3>1. t > user[u].step
      BY <1>3, <2>1 DEF AcceptCode
    <3>2. user'[u].step = t /\ user'[u].codes = user[u].codes
      BY <1>1, <1>3, <2>1 DEF Row
    <3>3. s \in (used[u] \ ahead[u]) \cup {t}
      BY <1>1, <1>2, <1>3, <1>7
    <3>4. s \in used[u] \ ahead[u] => Spent(u, s)
      BY <1>1, <1>4, <1>7 DEF CodesInv, CodesStaySpent
    <3>5. s \in Int /\ t \in Int
      BY <1>1, <1>3, <3>3
    <3> QED
      BY <1>3, <2>1, <3>1, <3>2, <3>3, <3>4, <3>5 DEF Spent
  <2>2. CASE t = Recovery /\ user' = [user EXCEPT ![u].codes = FALSE]
    <3>1. user'[u].codes = FALSE /\ user'[u].step = user[u].step
      BY <1>1, <1>3, <2>2 DEF Row
    <3>2. s \in (used[u] \ ahead[u]) \cup {t}
      BY <1>1, <1>2, <1>3, <1>7
    <3>3. s \in used[u] \ ahead[u] => Spent(u, s)
      BY <1>1, <1>4, <1>7 DEF CodesInv, CodesStaySpent
    <3> QED
      BY <2>2, <3>1, <3>2, <3>3 DEF Spent
  <2> QED
    BY <1>u, <1>2, <1>7, <2>1, <2>2 DEF SignsIn
<1>8. ASSUME NEW v \in Account PROVE user'[v] = None => used'[v] = {}
  BY <1>5, <1>6 DEF CodesInv
<1>9. ASSUME NEW v \in Account \ raced', NEW s \in used'[v] \ ahead'[v] PROVE Spent(v, s)'
  <2>1. CASE v = u
    BY <1>7, <1>9, <2>1
  <2>2. CASE v # u
    <3>1. Spent(v, s)
      BY <1>4, <1>5, <1>9, <2>2 DEF CodesInv, CodesStaySpent
    <3> QED
      BY <1>5, <1>9, <2>2, <3>1 DEF Spent
  <2> QED
    BY <2>1, <2>2
<1> QED
  BY <1>8, <1>9 DEF CodesInv, CodesStaySpent
-----------------------------------------------------------------------------
LEMMA BeginsLeaves ==
  ASSUME NEW r \in Request, Begins(r)
  PROVE  UNCHANGED <<user, used, ahead, link, raced>>
BY DEF Begins, LocalLogin, Callback, AdminCreateLocalUser, AdminLogin, VerifyOtp, Guess,
   AdminVerifyOtp, EnrollOtpConfirm, AdminEnrollOtpConfirm, SetPassword, ChangePassword,
   MfaResetConfirm, AdminChangePassword, UpdateUser, CreateLocalUser, AdminResetUser,
   ResetTeammate, Reads

LEMMA RacedStays == ASSUME [Next]_vars PROVE raced \subseteq raced'
<1>1. ASSUME NEW r \in Request, Finishes(r) PROVE raced \subseteq raced'
  BY <1>1 DEF Finishes, FinishLogin, FinishDemoLogin, FinishVerifyOtp, SignsIn, FinishEnrollOtpConfirm,
     FinishSetPassword, FinishOwnChange, FinishResetPassword, FinishResetMfa, FinishUpdateUser,
     FinishCreate, FinishCallback, Fails
<1>2. ASSUME NEW c \in Slot,
             TooManyGuesses(c) \/ SessionEnds(c) \/ ChallengeExpires(c) \/ LinkExpires(c)
      PROVE  raced \subseteq raced'
  BY <1>2 DEF TooManyGuesses, SessionEnds, ChallengeExpires, LinkExpires
<1>3. ASSUME UpdateOrganization \/ NextStep \/ UNCHANGED vars PROVE raced \subseteq raced'
  BY <1>3 DEF UpdateOrganization, NextStep, vars
<1> QED
  BY <1>1, <1>2, <1>3, BeginsLeaves DEF Next

LEMMA OthersCarry ==
  ASSUME AccountsInv, [Next]_vars, ~\E r \in Request : FinishVerifyOtp(r)
  PROVE  \A u \in Account : Carries(u)
<1>1. ASSUME NEW r \in Request, Begins(r) \/ FinishLogin(r) \/ FinishDemoLogin(r) \/ Fails(r)
      PROVE  \A u \in Account : Carries(u)
  <2>1. user' = user /\ used' = used /\ ahead' = ahead
    BY <1>1, BeginsLeaves DEF FinishLogin, FinishDemoLogin, Fails
  <2> QED
    BY <2>1, SameCarries
<1>2. ASSUME NEW r \in Request, FinishEnrollOtpConfirm(r) PROVE \A u \in Account : Carries(u)
  <2>1. req[r].on \in Account /\ user[req[r].on] \in Row
    BY <1>2, FinishesWithRow DEF FinishEnrollOtpConfirm, Op
  <2> QED
    BY <1>2, <2>1, EnrolsCarries DEF FinishEnrollOtpConfirm
<1>3. ASSUME NEW r \in Request, FinishSetPassword(r) \/ FinishResetPassword(r)
      PROVE  \A u \in Account : Carries(u)
  <2>1. req[r].on \in Account /\ user[req[r].on] \in Row
    BY <1>3, FinishesWithRow DEF FinishSetPassword, FinishResetPassword, Op
  <2>2. PICK b \in BOOLEAN : user' = [user EXCEPT ![req[r].on].pw = b]
    BY <1>3 DEF FinishSetPassword, FinishResetPassword
  <2>3. used' = used /\ ahead' = ahead
    BY <1>3 DEF FinishSetPassword, FinishResetPassword
  <2> QED
    BY <2>1, <2>2, <2>3, PasswordCarries
<1>4. ASSUME NEW r \in Request, FinishOwnChange(r) PROVE \A u \in Account : Carries(u)
  <2>1. req[r].on \in Account /\ user[req[r].on] \in Row
    BY <1>4, FinishesWithRow DEF FinishOwnChange, Op
  <2>2. CASE user' = [user EXCEPT ![req[r].on].pw = TRUE] /\ used' = used /\ ahead' = ahead
    BY <2>1, <2>2, PasswordCarries
  <2>3. CASE \E t \in Code : Enrols(req[r].on, t)
    BY <2>1, <2>3, EnrolsCarries
  <2> QED
    BY <1>4, <2>2, <2>3 DEF FinishOwnChange
<1>5. ASSUME NEW r \in Request, FinishResetMfa(r) PROVE \A u \in Account : Carries(u)
  <2>1. req[r].on \in Account
    BY <1>5, FinishesWithRow DEF FinishResetMfa, Op
  <2> QED
    BY <1>5, <2>1, AnewCarries DEF FinishResetMfa
<1>6. ASSUME NEW r \in Request, FinishCreate(r) PROVE \A u \in Account : Carries(u)
  <2>1. req[r].on \in Account
    BY <1>6, FinishingIs, BusyOn DEF FinishCreate
  <2>2. PICK role \in {"org_admin", "member"} : user' = [user EXCEPT ![req[r].on] = NewRow(role, TRUE)]
    BY <1>6 DEF FinishCreate
  <2>3. NewRow(role, TRUE) \in Row /\ ~Has(req[r].on) /\ used' = used /\ ahead' = ahead
    BY <1>6, NewRowIs DEF FinishCreate
  <2> QED
    BY <2>1, <2>2, <2>3, RowCarries
<1>7. ASSUME NEW r \in Request, FinishCallback(r) PROVE \A u \in Account : Carries(u)
  <2>1. req[r].on \in Account /\ used' = used /\ ahead' = ahead
    BY <1>7, FinishingIs, BusyOn DEF FinishCallback
  <2>2. CASE user' = user
    BY <2>1, <2>2, SameCarries
  <2>3. CASE ~Has(req[r].on) /\ \E role \in {"org_admin", "member"} :
               user' = [user EXCEPT ![req[r].on] = NewRow(role, FALSE)]
    BY <2>1, <2>3, NewRowIs, RowCarries
  <2> QED
    BY <1>7, <2>2, <2>3 DEF FinishCallback
<1>8. ASSUME NEW c \in Slot,
             TooManyGuesses(c) \/ SessionEnds(c) \/ ChallengeExpires(c) \/ LinkExpires(c)
      PROVE  user' = user /\ used' = used /\ ahead' = ahead
  BY <1>8 DEF TooManyGuesses, SessionEnds, ChallengeExpires, LinkExpires
<1>9. ASSUME UpdateOrganization \/ NextStep \/ UNCHANGED vars PROVE user' = user /\ used' = used /\ ahead' = ahead
  BY <1>9 DEF UpdateOrganization, NextStep, vars
<1> QED
  BY <1>1, <1>2, <1>3, <1>4, <1>5, <1>6, <1>7, <1>8, <1>9, UpdateCarries, SameCarries
     DEF Next, Finishes

LEMMA CodesStep == AccountsInv /\ AccountsInv' /\ CodesInv /\ [Next]_vars => CodesInv'
<1> SUFFICES ASSUME AccountsInv, AccountsInv', CodesInv, [Next]_vars PROVE CodesInv'
  OBVIOUS
<1>1. CASE \E r \in Request : FinishVerifyOtp(r)
  BY <1>1, VerifySpends
<1>2. CASE ~\E r \in Request : FinishVerifyOtp(r)
  BY <1>2, OthersCarry, RacedStays, SpentCarries
<1> QED
  BY <1>1, <1>2
-----------------------------------------------------------------------------
\* Links only go, or change what they remember.
NoNewLink == \A l \in Slot : link'[l] # None => link[l] # None /\ link'[l].on = link[l].on

LEMMA FewerLinks ==
  ASSUME OneLinkWorks, NoNewLink, raced \subseteq raced'
  PROVE  OneLinkWorks'
<1> SUFFICES ASSUME NEW u \in Member \ raced', NEW k \in LinksOf(u)', NEW l \in LinksOf(u)'
             PROVE  k = l
  BY DEF OneLinkWorks
<1>1. k \in LinksOf(u) /\ l \in LinksOf(u)
  BY DEF NoNewLink, LinksOf
<1> QED
  BY <1>1 DEF OneLinkWorks

\* A new link for u, and none of u's left beside it.
OnlyNewLink(u) ==
  \E l \in Slot :
    /\ link'[l].on = u
    /\ \A k \in Slot \ {l} :
         link'[k] # None => link[k] # None /\ link'[k].on = link[k].on /\ (u \notin raced' => link[k].on # u)

LEMMA LinkIssued ==
  ASSUME OneLinkWorks, NEW u \in Account, OnlyNewLink(u), raced \subseteq raced'
  PROVE  OneLinkWorks'
<1> SUFFICES ASSUME NEW v \in Member \ raced', NEW k \in LinksOf(v)', NEW m \in LinksOf(v)'
             PROVE  k = m
  BY DEF OneLinkWorks
<1>1. PICK l \in Slot :
        /\ link'[l].on = u
        /\ \A j \in Slot \ {l} :
             link'[j] # None => link[j] # None /\ link'[j].on = link[j].on /\ (u \notin raced' => link[j].on # u)
  BY DEF OnlyNewLink
<1>2. k \in Slot /\ link'[k] # None /\ link'[k].on = v /\ m \in Slot /\ link'[m] # None /\ link'[m].on = v
  BY DEF LinksOf
<1>3. CASE v = u
  BY <1>1, <1>2, <1>3
<1>4. CASE v # u
  <2>1. k \in LinksOf(v) /\ m \in LinksOf(v)
    BY <1>1, <1>2, <1>4 DEF LinksOf
  <2> QED
    BY <2>1 DEF OneLinkWorks
<1> QED
  BY <1>3, <1>4

LEMMA IssuedAlone ==
  ASSUME AccountsInv, NEW r \in Request, NEW since, IssueLink(r, since),
         NEW u, u = req[r].on,
         u \notin raced' => LinksOf(u) \subseteq Voided(r)
  PROVE  OnlyNewLink(u)
<1>1. PICK l \in Slot :
         link' = [k \in Slot |-> IF k = l THEN [on |-> u, epoch |-> since, late |-> FALSE]
                               ELSE IF k \in Voided(r) THEN None
                               ELSE IF k \in LinksOf(u) THEN [link[k] EXCEPT !.late = TRUE]
                               ELSE link[k]]
  BY DEF IssueLink
<1>2. link'[l].on = u
  BY <1>1
<1>3. ASSUME NEW k \in Slot \ {l}, link'[k] # None
      PROVE  link[k] # None /\ link'[k].on = link[k].on /\ (u \notin raced' => link[k].on # u)
  <2>1. k \notin Voided(r)
    BY <1>1, <1>3
  <2>2. CASE k \in LinksOf(u)
    <3>1. link[k] \in Ticket /\ link[k] # None
      BY <2>2 DEF LinksOf, AccountsInv, Table
    <3>2. link'[k] = [link[k] EXCEPT !.late = TRUE]
      BY <1>1, <2>1, <2>2
    <3>3. link'[k].on = link[k].on
      BY <3>1, <3>2 DEF Ticket
    <3> QED
      BY <2>1, <2>2, <3>1, <3>3
  <2>3. CASE k \notin LinksOf(u)
    <3>1. link'[k] = link[k]
      BY <1>1, <2>1, <2>3
    <3> QED
      BY <1>3, <2>3, <3>1 DEF LinksOf
  <2> QED
    BY <2>2, <2>3
<1> QED
  BY <1>2, <1>3 DEF OnlyNewLink

LEMMA ResetIssues ==
  ASSUME AccountsInv, OneLinkWorks, NEW r \in Request, FinishResetPassword(r), raced \subseteq raced'
  PROVE  OneLinkWorks'
<1>1. PICK u \in Account : u = req[r].on
  BY FinishesWithRow DEF FinishResetPassword, Op
<1>2. u \notin raced' => LinksOf(u) \subseteq Voided(r)
  BY <1>1 DEF FinishResetPassword
<1>3. IssueLink(r, epoch[u] + 1)
  BY <1>1 DEF FinishResetPassword
<1> QED
  BY <1>1, <1>2, <1>3, IssuedAlone, LinkIssued

LEMMA CreateIssues ==
  ASSUME AccountsInv, OneLinkWorks, NEW r \in Request, FinishCreate(r), raced \subseteq raced'
  PROVE  OneLinkWorks'
<1>1. PICK u \in Account : u = req[r].on
  BY FinishingIs, BusyOn DEF FinishCreate
<1>2. LinksOf(u) = {}
  BY <1>1 DEF FinishCreate, Has, LinksOf, AccountsInv, Table, Stands
<1>3. IssueLink(r, epoch[u])
  BY <1>1 DEF FinishCreate
<1> QED
  BY <1>1, <1>2, <1>3, IssuedAlone, LinkIssued

LEMMA OthersIssueNone ==
  ASSUME AccountsInv, [Next]_vars, ~\E r \in Request : FinishResetPassword(r) \/ FinishCreate(r)
  PROVE  NoNewLink
<1>t. \A l \in Slot : link[l] # None => link[l] \in Ticket
  BY DEF AccountsInv, Table
<1>1. ASSUME link' = link PROVE NoNewLink
  BY <1>1 DEF NoNewLink
<1>2. ASSUME NEW r \in Request, FinishOwnChange(r) PROVE NoNewLink
  <2>1. PICK u : link' = Late(link, u)
    BY <1>2 DEF FinishOwnChange
  <2>2. ASSUME NEW l \in Slot, link'[l] # None PROVE link[l] # None /\ link'[l].on = link[l].on
    BY <1>t, <2>1, <2>2, TicketMarked DEF Late, Ticket
  <2> QED
    BY <2>2 DEF NoNewLink
<1>3. ASSUME NEW r \in Request, FinishResetMfa(r) PROVE NoNewLink
  <2>1. PICK u, e : link' = [l \in Slot |-> IF l \in LinksOf(u) THEN [link[l] EXCEPT !.epoch = e] ELSE link[l]]
    BY <1>3 DEF FinishResetMfa
  <2>2. ASSUME NEW l \in Slot, link'[l] # None PROVE link[l] # None /\ link'[l].on = link[l].on
    BY <1>t, <2>1, <2>2 DEF LinksOf, Ticket
  <2> QED
    BY <2>2 DEF NoNewLink
<1>4. ASSUME NEW r \in Request, FinishSetPassword(r) PROVE NoNewLink
  BY <1>4 DEF FinishSetPassword, Without, NoNewLink, AccountsInv, Table
<1>5. ASSUME NEW c \in Slot, LinkExpires(c) PROVE NoNewLink
  BY <1>5 DEF LinkExpires, NoNewLink, AccountsInv, Table
<1>6. ASSUME NEW r \in Request,
             \/ Begins(r) \/ FinishLogin(r) \/ FinishDemoLogin(r) \/ FinishVerifyOtp(r) \/ FinishEnrollOtpConfirm(r)
             \/ FinishUpdateUser(r) \/ FinishCallback(r) \/ Fails(r)
      PROVE  link' = link
  BY <1>6, BeginsLeaves DEF FinishLogin, FinishDemoLogin, FinishVerifyOtp, FinishEnrollOtpConfirm, FinishUpdateUser,
     FinishCallback, Fails
<1>7. ASSUME NEW c \in Slot, TooManyGuesses(c) \/ SessionEnds(c) \/ ChallengeExpires(c)
      PROVE  link' = link
  BY <1>7 DEF TooManyGuesses, SessionEnds, ChallengeExpires
<1>8. ASSUME UpdateOrganization \/ NextStep \/ UNCHANGED vars PROVE link' = link
  BY <1>8 DEF UpdateOrganization, NextStep, vars
<1> QED
  BY <1>1, <1>2, <1>3, <1>4, <1>5, <1>6, <1>7, <1>8 DEF Next, Finishes

LEMMA LinksStep == AccountsInv /\ OneLinkWorks /\ [Next]_vars => OneLinkWorks'
<1> SUFFICES ASSUME AccountsInv, OneLinkWorks, [Next]_vars PROVE OneLinkWorks'
  OBVIOUS
<1>1. CASE \E r \in Request : FinishResetPassword(r) \/ FinishCreate(r)
  BY <1>1, ResetIssues, CreateIssues, RacedStays
<1>2. CASE ~\E r \in Request : FinishResetPassword(r) \/ FinishCreate(r)
  BY <1>2, OthersIssueNone, FewerLinks, RacedStays
<1> QED
  BY <1>1, <1>2

\* A code that confirmed the authenticator or signed in stays spent, but for one
\* that confirmed ahead of its time and has not signed in yet, and only the newest
\* link works (totp.accept_code, issue_password_setup_link).  Accounts where a
\* request committed over a later step than it read, or where resets of an account
\* without a password overlapped, are outside it.
THEOREM SecretsAlwaysWorkOnce == Spec => []SecretsWorkOnce
<1>1. Init => CodesInv /\ OneLinkWorks
  BY DEF Init, CodesInv, CodesStaySpent, OneLinkWorks, LinksOf
<1>2. Spec => [](CodesInv /\ OneLinkWorks)
  BY <1>1, CodesStep, LinksStep, AccountsInvariant, PTL DEF Spec
<1>3. CodesInv /\ OneLinkWorks => SecretsWorkOnce
  BY DEF CodesInv, SecretsWorkOnce
<1> QED
  BY <1>2, <1>3, PTL
=============================================================================
