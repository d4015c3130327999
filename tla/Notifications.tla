---------------------------- MODULE Notifications ----------------------------
(***************************************************************************)
(* The notifications behind the bell (services/notifications, repositories/ *)
(* notifications.py, routers/notifications.py): one per domain name that    *)
(* shows up in reports without being registered, one per DKIM selector that *)
(* signs a domain's mail without being monitored.                           *)
(*                                                                          *)
(* A job goes through the organizations, a transaction each: it inserts     *)
(* what is new (a name or selector is notified once, ever) and resolves     *)
(* what has been handled, i.e. added, dismissed, monitored or blocked.      *)
(* Reading the notifications resolves what is handled, too, and an admin    *)
(* may dismiss one.  All of them read and write at different moments, while *)
(* members handle things.                                                   *)
(***************************************************************************)
EXTENDS Naturals, FiniteSets, Sequences

CONSTANTS
  OrgList,     \* the active organizations in the order the job finds them
  Names,       \* domain names that reports mention
  Slots,       \* DKIM selectors that reports mention, as <<name, selector>>
  OrgOf,       \* [Names -> organization]
  Home,        \* names registered and verified from the start
  Refresher,   \* the job that goes through the organizations
  Readers,     \* members who read and dismiss
  MaxEdits     \* bound: what members and reports change

VARIABLES
  domains,     \* [Names -> absent, pending or verified]
  seen,        \* names and selectors the reports of late mention
  dismissed,   \* names marked as not ours
  monitored,   \* the dkim_selectors rows
  blocked,     \* names whose sender is blocked in the sender review
  notices,     \* [Subjects -> none, open, handled or dismissed]
  work,        \* what the job and each request is doing
  context,     \* whether the job's transaction may see the organizations' rows
  steady,      \* history: what has been handled, and how, ever since the job's transaction began
  edits

facts == <<domains, seen, dismissed, monitored, blocked>>
noticesVars == <<domains, seen, dismissed, monitored, blocked, notices, work, context, steady, edits>>

(* A subject is <<name>> for a domain, <<name, selector>> for a selector. *)
Named == {<<n>> : n \in Names}
Subjects == Named \cup Slots
Actors == {Refresher} \cup Readers
Orgs == {OrgList[i] : i \in DOMAIN OrgList}
Of(org) == {s \in Subjects : OrgOf[s[1]] = org}

Ways == {"settled", "monitored", "blocked"}   \* how a subject is handled

ASSUME ConstantsAssumption ==
  /\ OrgList \in Seq(Orgs)
  /\ Slots \subseteq Names \X {x[2] : x \in Slots}
  /\ Home \subseteq Names
  /\ OrgOf \in [Names -> Orgs] /\ Refresher \notin Readers

Work == [pc : {"idle", "next", "detect", "selectors", "insert", "facts", "open", "flush", "dismiss"},
         left : Seq(Orgs), org : Orgs \cup {"none"}, blocked : SUBSET Names, found : SUBSET Slots,
         created : SUBSET Subjects, handled : SUBSET Subjects, open : SUBSET Subjects]
Resting == [pc |-> "idle", left |-> <<>>, org |-> "none", blocked |-> {}, found |-> {}, created |-> {}, handled |-> {}, open |-> {}]

NoticesTypeOK ==
  /\ domains \in [Names -> {"absent", "pending", "verified"}]
  /\ seen \subseteq Subjects /\ dismissed \subseteq Names /\ monitored \subseteq Slots /\ blocked \subseteq Names
  /\ notices \in [Subjects -> {"none", "open", "handled", "dismissed"}]
  /\ work \in [Actors -> Work] /\ context \in BOOLEAN
  /\ steady \subseteq Subjects \X Ways

-----------------------------------------------------------------------------
(* detected_domain_items and new_selectors, less what they say of an item. *)
DetectedDomains(org) == {s \in Named \cap seen : OrgOf[s[1]] = org /\ domains[s[1]] = "absent" /\ s[1] \notin dismissed}
NewSelectors(org) ==
  {s \in Slots \cap seen : OrgOf[s[1]] = org /\ domains[s[1]] = "verified" /\ s \notin monitored}

\* Mutant: dismissing a name does not count.
HandledByAdding(b) ==
  {s \in Named : domains[s[1]] # "absent"} \cup {s \in Slots : s \in monitored \/ s[1] \in b}

(* A domain is handled once it is added or dismissed, a selector once it is *)
(* monitored or its sender blocked.                                         *)
Handled(b) ==
  {s \in Named : domains[s[1]] # "absent" \/ s[1] \in dismissed} \cup {s \in Slots : s \in monitored \/ s[1] \in b}

\* Mutant: an upsert opens it again.
InsertedAgain(new) == {s \in new : notices[s] # "open"}

(* ON CONFLICT DO NOTHING: a subject with a row keeps it. *)
Inserted(new) == {s \in new : notices[s] = "none"}

(* Whether, and in which way, members have dealt with it. *)
HandledAs(s, way) ==
  \/ way = "settled" /\ s \in Named /\ (domains[s[1]] # "absent" \/ s[1] \in dismissed)
  \/ way = "monitored" /\ s \in monitored
  \/ way = "blocked" /\ s \in Slots /\ s[1] \in blocked
IsHandled(s) == \E way \in Ways : HandledAs(s, way)

Doing(a, w) == work' = [work EXCEPT ![a] = w]
Began == steady' = {x \in Subjects \X Ways : HandledAs(x[1], x[2])}
Ended == steady' = {}
StillHandled == steady' = {x \in steady : HandledAs(x[1], x[2])'}

-----------------------------------------------------------------------------
NoticesInit ==
  /\ domains = [n \in Names |-> IF n \in Home THEN "verified" ELSE "absent"]
  /\ seen = {} /\ dismissed = {} /\ monitored = {} /\ blocked = {}
  /\ notices = [s \in Subjects |-> "none"]
  /\ work = [a \in Actors |-> Resting]
  /\ context = FALSE
  /\ steady = {}
  /\ edits = 0

(* run_notifications_refresh: under an advisory lock, so one at a time. *)
StartRefresh ==
  /\ work[Refresher].pc = "idle"
  /\ Doing(Refresher, [Resting EXCEPT !.pc = "next", !.left = OrgList])
  /\ context' = TRUE
  /\ UNCHANGED <<facts, notices, steady, edits>>

(* refresh_org_notifications begins with the blocked senders. *)
NextOrganization ==
  /\ work[Refresher].pc = "next"
  /\ IF work[Refresher].left = <<>> THEN Doing(Refresher, Resting) /\ UNCHANGED steady
     ELSE /\ Doing(Refresher, [Resting EXCEPT !.pc = "detect", !.left = Tail(work[Refresher].left), !.org = Head(work[Refresher].left),
                                     !.blocked = IF context THEN blocked ELSE {}])
          /\ Began
  /\ UNCHANGED <<facts, notices, context, edits>>

(* Without the context every row is hidden. *)
DetectDomains ==
  /\ work[Refresher].pc = "detect"
  /\ Doing(Refresher, [work[Refresher] EXCEPT !.pc = "selectors",
                   !.created = IF context THEN Inserted(DetectedDomains(work[Refresher].org)) ELSE {}])
  /\ UNCHANGED <<facts, notices, context, steady, edits>>

FindSelectors ==
  /\ work[Refresher].pc = "selectors"
  /\ Doing(Refresher, [work[Refresher] EXCEPT !.pc = "insert",
                   !.found = IF context THEN {s \in NewSelectors(work[Refresher].org) : s[1] \notin work[Refresher].blocked} ELSE {}])
  /\ UNCHANGED <<facts, notices, context, steady, edits>>

(* The exception handler: roll back, set the context for the next one. *)
Onwards == Doing(Refresher, [Resting EXCEPT !.pc = "next", !.left = work[Refresher].left]) /\ Ended
GiveUp == Onwards /\ context' = TRUE

(* A selector's notification refers to its domain, which may be gone. *)
InsertSelectors ==
  /\ work[Refresher].pc = "insert"
  /\ IF \E s \in work[Refresher].found : domains[s[1]] # "verified" THEN GiveUp
     ELSE /\ Doing(Refresher, [work[Refresher] EXCEPT !.pc = "facts", !.found = {},
                           !.created = @ \cup Inserted(work[Refresher].found)])
          /\ UNCHANGED <<context, steady>>
  /\ UNCHANGED <<facts, notices, edits>>

(* resolve_handled, in the job and in every request that reads: what is     *)
(* handled, then what is open, then the updates, each for a row by its key. *)
ReadHandled(a) ==
  /\ work[a].pc = "facts"
  /\ Doing(a, [work[a] EXCEPT !.pc = "open", !.blocked = {}, !.handled = Handled(work[a].blocked) \cap Of(work[a].org)])
  /\ UNCHANGED <<facts, notices, context, steady, edits>>

OpenHandled(a) == {s \in work[a].handled : notices[s] = "open" \/ s \in work[a].created}
ReadOpen(a) ==
  /\ work[a].pc = "open"
  /\ Doing(a, [work[a] EXCEPT !.pc = "flush", !.handled = {},
                 !.open = OpenHandled(a)])
  /\ UNCHANGED <<facts, notices, context, steady, edits>>

(* An update of a row that is gone is an error. *)
CanFlush(a) == \A s \in work[a].open : notices[s] # "none" \/ s \in work[a].created
Resolved(a) ==
  [s \in Subjects |-> IF s \in work[a].open THEN "handled" ELSE IF s \in work[a].created THEN "open" ELSE notices[s]]

(* The context lasts as long as the transaction: it is set again. *)
\* Mutant: it is not.
ContextForgotten == FALSE
ContextAfterCommit == TRUE
CommitRefresh ==
  /\ work[Refresher].pc = "flush"
  /\ IF CanFlush(Refresher)
     THEN Onwards /\ notices' = Resolved(Refresher) /\ context' = ContextAfterCommit
     ELSE GiveUp /\ UNCHANGED notices
  /\ UNCHANGED <<facts, edits>>

(* The process dies or loses its database; the job is queued again. *)
CrashRefresh ==
  /\ work[Refresher].pc # "idle" /\ edits < MaxEdits
  /\ Doing(Refresher, Resting) /\ Ended
  /\ edits' = edits + 1
  /\ UNCHANGED <<facts, notices, context>>

-----------------------------------------------------------------------------
(* GET /notifications and /notifications/count. *)
StartReading(r, org) ==
  /\ work[r].pc = "idle"
  /\ Doing(r, [Resting EXCEPT !.pc = "facts", !.org = org, !.blocked = blocked])
  /\ UNCHANGED <<facts, notices, context, steady, edits>>

CommitReading(r) ==
  /\ work[r].pc = "flush"
  /\ notices' = IF CanFlush(r) THEN Resolved(r) ELSE notices
  /\ Doing(r, Resting)
  /\ UNCHANGED <<facts, context, steady, edits>>

(* POST /notifications/{id}/dismiss: read, then update by key. *)
StartDismissing(r, s) ==
  /\ work[r].pc = "idle" /\ notices[s] = "open"
  /\ Doing(r, [Resting EXCEPT !.pc = "dismiss", !.open = {s}])
  /\ UNCHANGED <<facts, notices, context, steady, edits>>

CommitDismissing(r) ==
  /\ work[r].pc = "dismiss"
  /\ notices' = [s \in Subjects |-> IF s \in work[r].open /\ notices[s] # "none" THEN "dismissed" ELSE notices[s]]
  /\ Doing(r, Resting)
  /\ UNCHANGED <<facts, context, steady, edits>>

-----------------------------------------------------------------------------
(* What members and reports change meanwhile, a transaction each. *)
Edit == edits < MaxEdits /\ edits' = edits + 1 /\ StillHandled /\ UNCHANGED <<work, context>>

Mention(s) ==
  /\ s \notin seen /\ seen' = seen \cup {s}
  /\ UNCHANGED <<domains, dismissed, monitored, blocked, notices>> /\ Edit
(* A selector counts while it signed mail within SELECTOR_WINDOW_DAYS. *)
AgeOut(s) ==
  /\ s \in seen \cap Slots /\ seen' = seen \ {s}
  /\ UNCHANGED <<domains, dismissed, monitored, blocked, notices>> /\ Edit
AddDomain(n) ==
  /\ domains[n] = "absent" /\ domains' = [domains EXCEPT ![n] = "pending"]
  /\ UNCHANGED <<seen, dismissed, monitored, blocked, notices>> /\ Edit
DismissDomain(n) ==
  /\ n \notin dismissed /\ dismissed' = dismissed \cup {n}
  /\ UNCHANGED <<domains, seen, monitored, blocked, notices>> /\ Edit
AddSelector(s) ==
  /\ domains[s[1]] # "absent" /\ s \notin monitored /\ monitored' = monitored \cup {s}
  /\ UNCHANGED <<domains, seen, dismissed, blocked, notices>> /\ Edit
DeleteSelector(s) ==
  /\ s \in monitored /\ monitored' = monitored \ {s}
  /\ UNCHANGED <<domains, seen, dismissed, blocked, notices>> /\ Edit
ReviewSender(n) ==
  /\ domains[n] # "absent"
  /\ blocked' = IF n \in blocked THEN blocked \ {n} ELSE blocked \cup {n}
  /\ UNCHANGED <<domains, seen, dismissed, monitored, notices>> /\ Edit

(* Selectors, reviews and the selectors' notifications go with a domain; it *)
(* waits for a transaction that has written such a notification.            *)
DeleteDomain(n) ==
  /\ domains[n] # "absent"
  /\ \A s \in work[Refresher].created : s \in Slots => s[1] # n
  /\ domains' = [domains EXCEPT ![n] = "absent"]
  /\ monitored' = {s \in monitored : s[1] # n}
  /\ blocked' = blocked \ {n}
  /\ notices' = [s \in Subjects |-> IF s \in Slots /\ s[1] = n THEN "none" ELSE notices[s]]
  /\ UNCHANGED <<seen, dismissed>> /\ Edit

Handle ==
  \/ \E s \in Subjects : Mention(s) \/ AgeOut(s)
  \/ \E n \in Names : AddDomain(n) \/ DismissDomain(n) \/ ReviewSender(n) \/ DeleteDomain(n)
  \/ \E s \in Slots : AddSelector(s) \/ DeleteSelector(s)

Refresh ==
  \/ NextOrganization \/ DetectDomains \/ FindSelectors \/ InsertSelectors
  \/ ReadHandled(Refresher) \/ ReadOpen(Refresher) \/ CommitRefresh

Request(r) ==
  \/ \E org \in Orgs : StartReading(r, org)
  \/ ReadHandled(r) \/ ReadOpen(r) \/ CommitReading(r)
  \/ \E s \in Subjects : StartDismissing(r, s)
  \/ CommitDismissing(r)

NoticesNext == StartRefresh \/ Refresh \/ CrashRefresh \/ (\E r \in Readers : Request(r)) \/ Handle

(* The scheduler queues the job every NOTIFICATIONS_REFRESH_INTERVAL_SECONDS. *)
NoticesFairness == WF_noticesVars(StartRefresh) /\ WF_noticesVars(Refresh)
NoticesSpec == NoticesInit /\ [][NoticesNext]_noticesVars /\ NoticesFairness
-----------------------------------------------------------------------------
(* Properties. *)

(* When a refresh commits an organization, none of its notifications is left *)
(* open for something that was handled before the refresh began and has been *)
(* ever since, in the same way, whatever else was handled, undone or         *)
(* dismissed in between.  (Blocked senders are read first, monitored         *)
(* selectors later: one that stops being monitored just when its sender is   *)
(* blocked is overlooked until the next refresh.)                            *)
RefreshLeavesNothingHandled ==
  [][(work[Refresher].pc = "flush" /\ CommitRefresh /\ CanFlush(Refresher)) =>
       \A s \in Of(work[Refresher].org), way \in Ways : <<s, way>> \in steady => notices'[s] # "open"]_noticesVars

(* A notification that was resolved, by whoever, is never open again and     *)
(* never comes a second time, unless its domain is deleted and it goes along.  *)
ResolvedStays ==
  [][\A s \in Subjects : notices[s] \in {"handled", "dismissed"} =>
       \/ notices'[s] \in {"handled", "dismissed"}
       \/ s \in Slots /\ domains'[s[1]] = "absent"]_noticesVars

(* What remains handled does not stay open, although a request's insert or   *)
(* update may cross the moment it was handled.                               *)
NothingHandledStaysOpen ==
  \A s \in Subjects : <>[]IsHandled(s) => <>[](notices[s] # "open")

(* What remains unhandled and mentioned is notified, in every organization,  *)
(* although the refresh of one may fail.                                     *)
WhatIsNewIsNotified ==
  \A org \in Orgs : \A s \in Of(org) :
    <>[](~IsHandled(s) /\ s \in DetectedDomains(org) \cup NewSelectors(org)) => <>(notices[s] # "none")

(* Refreshes keep up with what members and reports change. *)
RefreshKeepsUp ==
  /\ NothingHandledStaysOpen
  /\ WhatIsNewIsNotified
=============================================================================
