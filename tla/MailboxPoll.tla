---------------------------- MODULE MailboxPoll ----------------------------
(***************************************************************************)
(* One organization's report mailbox: the connection its admins set up     *)
(* (backend/app/routers/mailbox_connections.py), and the polls that read   *)
(* it message by message (workers/jobs/mailbox_poll_job.py) through        *)
(* Graph's delta query (services/graph/mailbox_poller.py).                 *)
(*                                                                         *)
(* A poll loads the connection once, asks Graph what is new since its      *)
(* delta link, handles the messages one at a time, commits every Batch-th, *)
(* and writes the new delta link with its last commit.  An advisory lock   *)
(* keeps polls of one organization apart as long as its session lives.     *)
(*                                                                         *)
(* Message i of mailbox b is <<b, i>>, in the order of arrival; a delta    *)
(* link is the mailbox it was issued for and how far it has been read.     *)
(***************************************************************************)
EXTENDS Integers, FiniteSets

CONSTANTS
  Mailbox,   \* mailbox addresses the organization may connect
  Poller,    \* consumers that may run the mailbox_poll job at one time
  Nobody,    \* the advisory lock is free
  None,      \* no connection, or no delta link
  MaxMail,   \* how many messages a mailbox may receive
  Batch,     \* COMMIT_BATCH_SIZE
  Changes,   \* how many times the organization may set another mailbox
  Faults     \* how many polls may be aborted or lose their lock session

ASSUME MailboxAssumption ==
  /\ Nobody \notin Poller
  /\ None \notin Mailbox /\ None \notin [box : Mailbox, upto : 0..MaxMail]
  /\ MaxMail \in Nat /\ Batch \in Nat \ {0}
  /\ Changes \in Nat /\ Faults \in Nat

VARIABLES
  inbox,    \* messages each mailbox has received so far
  box,      \* mailbox_address; None before there is a connection
  delta,    \* delta_link
  granted,  \* consent_status is granted
  poll,     \* what each running poll knows
  lock,     \* whose session holds the organization's advisory lock
  stored,   \* messages whose report is committed
  given,    \* messages a poll that completed counted as errors
  changes,  \* times another mailbox may still be set
  faults,   \* faults still allowed
  crossed   \* history: another mailbox was set while a poll was under way

connection == <<box, delta, granted>>
vars == <<inbox, box, delta, granted, poll, lock, stored, given, changes, faults, crossed>>
-----------------------------------------------------------------------------
Message == Mailbox \X (1..MaxMail)
Delta   == [box : Mailbox, upto : 0..MaxMail]

\* A poll between its steps: it has loaded the connection, or it also has the
\* list of new messages and has handled those below next.
Loaded == [stage : {"loaded"}, box : Mailbox, from : Delta \cup {None}]
Working == [stage : {"working"}, box : Mailbox, from : Delta, upto : 0..MaxMail,
            next : 1..MaxMail + 1, written : SUBSET Message, errors : SUBSET Message]
Idle == [stage |-> "idle"]

Running(p) == poll[p].stage # "idle"
Fault == faults > 0 /\ faults' = faults - 1
-----------------------------------------------------------------------------
Init ==
  /\ inbox \in [Mailbox -> 0..MaxMail]
  /\ box = None /\ delta = None /\ granted = FALSE
  /\ poll = [p \in Poller |-> Idle]
  /\ lock = Nobody
  /\ stored = {} /\ given = {}
  /\ changes = Changes
  /\ faults = Faults
  /\ crossed = FALSE

Arrive(b) ==
  /\ inbox[b] < MaxMail
  /\ inbox' = [inbox EXCEPT ![b] = @ + 1]
  /\ UNCHANGED <<box, delta, granted, poll, lock, stored, given, changes, faults, crossed>>

DeltaAfterSetting(b) == IF b = box THEN delta ELSE None

\* PUT /mailbox-connection: another mailbox starts from no delta link.
SetMailbox(b) ==
  /\ b # box => changes > 0
  /\ changes' = IF b # box THEN changes - 1 ELSE changes
  /\ box' = b
  /\ delta' = DeltaAfterSetting(b)
  /\ granted' = TRUE
  /\ crossed' = (crossed \/ (b # box /\ \E p \in Poller : Running(p)))
  /\ UNCHANGED <<inbox, poll, lock, stored, given, faults>>

\* The platform admin's PATCH.
SetConsent(g) ==
  /\ box # None
  /\ granted' = g
  /\ UNCHANGED <<inbox, box, delta, poll, lock, stored, given, changes, faults, crossed>>

\* The lock is taken and the connection loaded; another poll's lock, a missing
\* connection or missing consent ends the job at once.
Begin(p) ==
  /\ ~Running(p)
  /\ lock = Nobody
  /\ granted
  /\ lock' = p
  /\ poll' = [poll EXCEPT ![p] = [stage |-> "loaded", box |-> box, from |-> delta]]
  /\ UNCHANGED <<inbox, connection, stored, given, changes, faults, crossed>>

\* fetch_new_message_ids: what came after the delta link, in the mailbox the link
\* was issued for; the whole Inbox without one.
List(p) ==
  /\ poll[p].stage = "loaded"
  /\ LET from == IF poll[p].from = None THEN [box |-> poll[p].box, upto |-> 0] ELSE poll[p].from
     IN  poll' = [poll EXCEPT ![p] = [stage |-> "working", box |-> poll[p].box, from |-> from,
                                      upto |-> inbox[from.box], next |-> from.upto + 1,
                                      written |-> {}, errors |-> {}]]
  /\ UNCHANGED <<inbox, connection, lock, stored, given, changes, faults, crossed>>

Pending(p) == poll[p].stage = "working" /\ poll[p].next <= poll[p].upto
Current(p) == <<poll[p].from.box, poll[p].next>>

\* The Batch-th, 2*Batch-th, ... message of the run.
EndsBatch(p) == (poll[p].next - poll[p].from.upto) % Batch = 0

\* Mutant: an interim commit carries the delta link as well.
DeltaAtInterimCommit(p) ==
  IF EndsBatch(p) THEN [box |-> poll[p].from.box, upto |-> poll[p].upto] ELSE delta

DeltaAfterStore(p) == delta

\* The message is fetched (from the mailbox the poll loaded), parsed and written;
\* an interim commit makes it and those before it durable.
Store(p) ==
  /\ Pending(p)
  /\ poll[p].from.box = poll[p].box
  /\ LET written == poll[p].written \cup {Current(p)}
     IN  /\ stored' = IF EndsBatch(p) THEN stored \cup written ELSE stored
         /\ poll' = [poll EXCEPT ![p] = [poll[p] EXCEPT !.next = @ + 1,
                                                        !.written = IF EndsBatch(p) THEN {} ELSE written]]
  /\ delta' = DeltaAfterStore(p)
  /\ UNCHANGED <<inbox, box, granted, lock, given, changes, faults, crossed>>

\* It cannot be fetched, parsed or stored: counted as an error, and no commit even
\* if it ends a batch.
GiveUp(p) ==
  /\ Pending(p)
  /\ poll' = [poll EXCEPT ![p] = [poll[p] EXCEPT !.next = @ + 1,
                                                  !.errors = @ \cup {Current(p)}]]
  /\ UNCHANGED <<inbox, connection, lock, stored, given, changes, faults, crossed>>

Unlocked(p) == IF lock = p THEN Nobody ELSE lock

\* Mutant: the link written is the one a query would return now.
NewestDelta(p) == [box |-> poll[p].from.box, upto |-> inbox[poll[p].from.box]]

NewDelta(p) == [box |-> poll[p].from.box, upto |-> poll[p].upto]

\* The last commit: the rest of the reports and the new delta link.  A link equal
\* to the loaded one is not written (the unit of work updates what changed).
Finish(p) ==
  /\ poll[p].stage = "working"
  /\ ~Pending(p)
  /\ stored' = stored \cup poll[p].written
  /\ given' = given \cup poll[p].errors
  /\ \/ delta' = NewDelta(p)
     \/ poll[p].from = NewDelta(p) /\ delta' = delta
  /\ poll' = [poll EXCEPT ![p] = Idle]
  /\ lock' = Unlocked(p)
  /\ UNCHANGED <<inbox, box, granted, changes, faults, crossed>>

\* An error that ends the run (recorded by a fresh session), or its worker's
\* death: what was not committed is gone.
Abort(p) ==
  /\ Running(p)
  /\ Fault
  /\ poll' = [poll EXCEPT ![p] = Idle]
  /\ lock' = Unlocked(p)
  /\ UNCHANGED <<inbox, connection, stored, given, changes, crossed>>

\* The lock's own session dies while the poll goes on.
LockLost ==
  /\ lock # Nobody
  /\ Fault
  /\ lock' = Nobody
  /\ UNCHANGED <<inbox, connection, poll, stored, given, changes, crossed>>

Work(p) == List(p) \/ Store(p) \/ GiveUp(p) \/ Finish(p)

Next ==
  \/ \E b \in Mailbox : Arrive(b) \/ SetMailbox(b)
  \/ \E g \in BOOLEAN : SetConsent(g)
  \/ \E p \in Poller : Begin(p) \/ Work(p) \/ Abort(p)
  \/ LockLost

Spec == Init /\ [][Next]_vars

\* The scheduler queues a poll again and again, and a poll that runs comes to an
\* end: every wait in it has a timeout.
Fairness == /\ WF_vars(\E p \in Poller : Begin(p))
            /\ \A p \in Poller : WF_vars(Work(p))

FairSpec == Spec /\ Fairness
-----------------------------------------------------------------------------
TypeOK ==
  /\ inbox \in [Mailbox -> 0..MaxMail]
  /\ box \in Mailbox \cup {None}
  /\ delta \in Delta \cup {None}
  /\ granted \in BOOLEAN /\ (granted => box \in Mailbox)
  /\ poll \in [Poller -> {Idle} \cup Loaded \cup Working]
  /\ lock \in Poller \cup {Nobody}
  /\ stored \subseteq Message /\ given \subseteq Message
  /\ changes \in 0..Changes /\ faults \in 0..Faults
  /\ crossed \in BOOLEAN

\* The delta link never runs ahead of the work: what it has passed is stored or
\* was counted as an error by a run that completed, whatever interim commits,
\* aborted runs and overlapping polls there were ("advancing it early ... would
\* permanently skip whatever hadn't been reached yet", mailbox_poll_job.py).
NothingPassedOver ==
  delta # None => \A i \in 1..delta.upto : <<delta.box, i>> \in stored \cup given

\* The delta link in use was issued for the mailbox in use (the comment in
\* set_mailbox_connection: a link "is bound to the previous mailbox's context").
DeltaIsOfMailbox == delta # None => delta.box = box

\* So it is as long as no other mailbox is set while a poll is under way, whatever
\* polls overlap, are aborted or read with a link from before.
DeltaFollowsMailbox == ~crossed => DeltaIsOfMailbox

\* The link stays with the mailbox and never passes what was not handled.
LinkHolds == TypeOK /\ NothingPassedOver /\ DeltaFollowsMailbox

\* Until a poll is crossed, whatever reaches the connected mailbox is ingested or
\* reported as an error, a backlog from before the connection included, unless it
\* is disconnected first.
MailIsIngested ==
  \A b \in Mailbox : \A i \in 1..MaxMail :
    (box = b /\ granted /\ i <= inbox[b])
      ~> (<<b, i>> \in stored \cup given \/ box # b \/ ~granted \/ crossed)
=============================================================================
