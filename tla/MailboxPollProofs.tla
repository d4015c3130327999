------------------------- MODULE MailboxPollProofs -------------------------
(***************************************************************************)
(* Proofs about MailboxPoll, for any mailboxes, any number of polls at a   *)
(* time, any batch size and any number of changes and faults.              *)
(***************************************************************************)
EXTENDS MailboxPoll, TLAPS

\* A link d is safe when all it has passed is in S.
Covered(d, S) == d # None => \A i \in 1..d.upto : <<d.box, i>> \in S

Accounted == stored \cup given

\* What a poll knows is consistent: the link it started from is safe, and what it
\* has handled since is stored, about to be, or counted as an error.
PollInv(p) ==
  /\ poll[p].stage = "loaded" => Covered(poll[p].from, Accounted)
  /\ poll[p].stage = "working" =>
       /\ Covered(poll[p].from, Accounted)
       /\ poll[p].from.upto < poll[p].next
       /\ \A i \in 1..MaxMail : poll[p].from.upto < i /\ i < poll[p].next =>
            <<poll[p].from.box, i>> \in stored \cup poll[p].written \cup poll[p].errors

LinkInv == Covered(delta, Accounted) /\ \A p \in Poller : PollInv(p)

LEMMA ConstantTypes ==
  /\ MaxMail \in Nat /\ Batch \in Nat \ {0} /\ Changes \in Nat /\ Faults \in Nat
  /\ Nobody \notin Poller /\ None \notin Mailbox
BY MailboxAssumption

\* The fields of a poll at each stage.
LEMMA PollFields ==
  ASSUME TypeOK, NEW p \in Poller
  PROVE  /\ poll[p] \in {Idle} \cup Loaded \cup Working
         /\ poll[p].stage = "loaded" => /\ poll[p] \in Loaded
                                        /\ poll[p].box \in Mailbox
                                        /\ poll[p].from \in Delta \cup {None}
         /\ poll[p].stage = "working" => /\ poll[p] \in Working
                                         /\ poll[p].from \in Delta
                                         /\ poll[p].upto \in 0..MaxMail
                                         /\ poll[p].next \in 1..MaxMail + 1
                                         /\ poll[p].written \subseteq Message
                                         /\ poll[p].errors \subseteq Message
<1>1. poll[p] \in {Idle} \cup Loaded \cup Working
  BY DEF TypeOK
<1>2. Idle.stage = "idle"
  BY DEF Idle
<1>3. \A r \in Loaded : r.stage = "loaded" /\ r.box \in Mailbox /\ r.from \in Delta \cup {None}
  BY DEF Loaded
<1>4. \A r \in Working : /\ r.stage = "working" /\ r.from \in Delta
                         /\ r.upto \in 0..MaxMail /\ r.next \in 1..MaxMail + 1
                         /\ r.written \subseteq Message /\ r.errors \subseteq Message
  BY DEF Working
<1> QED
  BY <1>1, <1>2, <1>3, <1>4

\* None is not a link.
LEMMA NoneIsNoDelta == None \notin Delta
BY MailboxAssumption DEF Delta

LEMMA NewDeltaType ==
  ASSUME TypeOK, NEW p \in Poller, poll[p].stage = "working"
  PROVE  NewDelta(p) \in Delta
BY PollFields DEF NewDelta, Delta
-----------------------------------------------------------------------------
\* Every variable keeps its type.
THEOREM TypeCorrect == Spec => []TypeOK
<1>1. Init => TypeOK
  <2> SUFFICES ASSUME Init
               PROVE  TypeOK
    OBVIOUS
  <2>1. granted \in BOOLEAN /\ (granted => box \in Mailbox)
    BY Zenon DEF Init
  <2>2. changes \in 0..Changes /\ faults \in 0..Faults
    BY ConstantTypes DEF Init
  <2> QED
    BY <2>1, <2>2 DEF Init, TypeOK
<1>2. TypeOK /\ [Next]_vars => TypeOK'
  <2> SUFFICES ASSUME TypeOK, [Next]_vars
               PROVE  TypeOK'
    OBVIOUS
  <2>0. TypeOK
    OBVIOUS
  <2>1. ASSUME NEW b \in Mailbox, Arrive(b)
        PROVE  TypeOK'
    BY <2>0, <2>1, ConstantTypes DEF Arrive, TypeOK
  <2>2. ASSUME NEW b \in Mailbox, SetMailbox(b)
        PROVE  TypeOK'
    <3>1. changes' \in 0..Changes
      BY <2>0, <2>2, ConstantTypes DEF SetMailbox, TypeOK
    <3> QED
      BY <2>0, <2>2, <3>1 DEF SetMailbox, DeltaAfterSetting, TypeOK
  <2>3. ASSUME NEW g \in BOOLEAN, SetConsent(g)
        PROVE  TypeOK'
    BY <2>0, <2>3 DEF SetConsent, TypeOK
  <2>4. ASSUME NEW p \in Poller, Begin(p)
        PROVE  TypeOK'
    <3>1. [stage |-> "loaded", box |-> box, from |-> delta] \in Loaded
      BY <2>0, <2>4 DEF Begin, TypeOK, Loaded
    <3> QED
      BY <2>0, <2>4, <3>1 DEF Begin, TypeOK, connection
  <2>5. ASSUME NEW p \in Poller, List(p)
        PROVE  TypeOK'
    <3> DEFINE from == IF poll[p].from = None THEN [box |-> poll[p].box, upto |-> 0] ELSE poll[p].from
               r == [stage |-> "working", box |-> poll[p].box, from |-> from,
                     upto |-> inbox[from.box], next |-> from.upto + 1, written |-> {}, errors |-> {}]
    <3>1. poll[p].box \in Mailbox /\ poll[p].from \in Delta \cup {None}
      BY <2>0, <2>5, PollFields DEF List
    <3>2. from \in Delta
      BY <3>1, ConstantTypes DEF Delta
    <3>3. from.box \in Mailbox /\ from.upto \in 0..MaxMail
      BY <3>2 DEF Delta
    <3>4. inbox[from.box] \in 0..MaxMail
      BY <2>0, <3>3 DEF TypeOK
    <3>5. from.upto + 1 \in 1..MaxMail + 1
      BY <3>3, ConstantTypes
    <3>6. r \in Working
      <4> HIDE DEF from
      <4> QED
        BY <3>1, <3>2, <3>4, <3>5 DEF Working
    <3>7. poll' = [poll EXCEPT ![p] = r]
      BY <2>5 DEF List
    <3> HIDE DEF r
    <3> QED
      BY <2>0, <2>5, <3>6, <3>7 DEF List, TypeOK, connection
  <2>6. ASSUME NEW p \in Poller, Pending(p)
        PROVE  Current(p) \in Message /\ poll[p].next + 1 \in 1..MaxMail + 1
    BY <2>0, <2>6, PollFields, ConstantTypes DEF Pending, Current, Message, Delta
  <2>7. ASSUME NEW p \in Poller, Store(p)
        PROVE  TypeOK'
    <3> DEFINE written == poll[p].written \cup {Current(p)}
    <3>1. poll[p] \in Working /\ poll[p].written \subseteq Message
      BY <2>0, <2>7, PollFields DEF Store, Pending
    <3>2. written \in SUBSET Message
      BY <2>6, <2>7, <3>1 DEF Store
    <3> DEFINE kept == IF EndsBatch(p) THEN {} ELSE written
    <3>3. kept \in SUBSET Message
      BY <3>2
    <3>4. [poll[p] EXCEPT !.next = @ + 1, !.written = kept] \in Working
      <4> HIDE DEF kept
      <4> QED
        BY <2>6, <2>7, <3>1, <3>3 DEF Store, Working
    <3>5. poll' = [poll EXCEPT ![p] = [poll[p] EXCEPT !.next = @ + 1, !.written = kept]]
      BY <2>7 DEF Store
    <3>6. poll' \in [Poller -> {Idle} \cup Loaded \cup Working]
      <4> HIDE DEF kept
      <4> QED
        BY <2>0, <3>4, <3>5 DEF TypeOK
    <3>7. stored' \subseteq Message
      BY <2>0, <2>7, <3>2 DEF Store, TypeOK
    <3> QED
      BY <2>0, <2>7, <3>6, <3>7 DEF Store, DeltaAfterStore, TypeOK
  <2>8. ASSUME NEW p \in Poller, GiveUp(p)
        PROVE  TypeOK'
    <3>1. poll[p] \in Working /\ poll[p].errors \subseteq Message
      BY <2>0, <2>8, PollFields DEF GiveUp, Pending
    <3>2. poll[p].errors \cup {Current(p)} \in SUBSET Message
      BY <2>6, <2>8, <3>1 DEF GiveUp
    <3>3. [poll[p] EXCEPT !.next = @ + 1, !.errors = @ \cup {Current(p)}] \in Working
      BY <2>6, <2>8, <3>1, <3>2 DEF GiveUp, Working
    <3>4. poll' \in [Poller -> {Idle} \cup Loaded \cup Working]
      BY <2>0, <2>8, <3>3 DEF GiveUp, TypeOK
    <3> QED
      BY <2>0, <2>8, <3>4 DEF GiveUp, TypeOK, connection
  <2>9. ASSUME NEW p \in Poller, Finish(p)
        PROVE  TypeOK'
    <3>1. poll[p].written \subseteq Message /\ poll[p].errors \subseteq Message
      BY <2>0, <2>9, PollFields DEF Finish
    <3>2. delta' \in Delta \cup {None}
      BY <2>0, <2>9, NewDeltaType DEF Finish, TypeOK
    <3> QED
      BY <2>0, <2>9, <3>1, <3>2 DEF Finish, Unlocked, TypeOK
  <2>10. ASSUME NEW p \in Poller, Abort(p)
         PROVE  TypeOK'
    <3>1. faults' \in 0..Faults
      BY <2>0, <2>10, ConstantTypes DEF Abort, Fault, TypeOK
    <3> QED
      BY <2>0, <2>10, <3>1 DEF Abort, Unlocked, TypeOK, connection
  <2>11. CASE LockLost
    <3>1. faults' \in 0..Faults
      BY <2>0, <2>11, ConstantTypes DEF LockLost, Fault, TypeOK
    <3> QED
      BY <2>0, <2>11, <3>1 DEF LockLost, TypeOK, connection
  <2>12. CASE UNCHANGED vars
    BY <2>0, <2>12 DEF vars, TypeOK
  <2> QED
    BY <2>1, <2>2, <2>3, <2>4, <2>5, <2>7, <2>8, <2>9, <2>10, <2>11, <2>12 DEF Next, Work
<1> QED
  BY <1>1, <1>2, PTL DEF Spec
-----------------------------------------------------------------------------
(***************************************************************************)
(* The delta link never runs ahead of the work.  A poll only writes a link *)
(* whose messages it has handled since a link that was safe when it was    *)
(* loaded; what is stored or given up stays so, hence a safe link is safe  *)
(* for ever, however late it is written and by how many polls.             *)
(***************************************************************************)
Grows == stored \subseteq stored' /\ given \subseteq given'

LEMMA CoveredStays ==
  ASSUME Grows, NEW d, Covered(d, Accounted)
  PROVE  Covered(d, Accounted')
BY DEF Grows, Covered, Accounted

LEMMA PollInvStays ==
  ASSUME Grows, NEW p \in Poller, PollInv(p), poll'[p] = poll[p]
  PROVE  PollInv(p)'
BY DEF Grows, Covered, Accounted, PollInv

\* Message poll[p].next is handled: stored, or added to the poll's own sets.
LEMMA HandledOne ==
  ASSUME TypeOK, Grows, NEW p \in Poller, PollInv(p), Pending(p),
         poll'[p].stage = "working", poll'[p].from = poll[p].from,
         poll'[p].next = poll[p].next + 1,
         stored \cup poll[p].written \cup poll[p].errors \cup {Current(p)}
           \subseteq stored' \cup poll'[p].written \cup poll'[p].errors
  PROVE  PollInv(p)'
<1> DEFINE f == poll[p].from
           n == poll[p].next
           handled == stored' \cup poll'[p].written \cup poll'[p].errors
<1>1. poll[p].stage = "working" /\ n \in Int /\ f.upto \in Int
  BY PollFields, ConstantTypes DEF Pending, Delta
<1>2. Covered(f, Accounted')
  BY <1>1 DEF PollInv, Grows, Covered, Accounted
<1>3. ASSUME NEW i \in 1..MaxMail, f.upto < i, i < n + 1
      PROVE  <<f.box, i>> \in handled
  <2>1. CASE i < n
    BY <1>1, <1>3, <2>1 DEF PollInv
  <2>2. CASE i = n
    BY <2>2 DEF Current
  <2> QED
    BY <1>1, <1>3, <2>1, <2>2, ConstantTypes
<1>4. f.upto < n + 1
  BY <1>1 DEF PollInv
<1> QED
  BY <1>2, <1>3, <1>4 DEF PollInv

\* A poll that has handled all it listed may write the link it was given.
LEMMA NewDeltaCovered ==
  ASSUME TypeOK, NEW p \in Poller, PollInv(p), poll[p].stage = "working", ~Pending(p)
  PROVE  Covered(NewDelta(p), Accounted \cup poll[p].written \cup poll[p].errors)
<1> DEFINE f == poll[p].from
<1>1. /\ f \in Delta /\ f.upto \in Int /\ f # None
      /\ poll[p].upto \in 0..MaxMail /\ poll[p].next \in Int /\ poll[p].upto < poll[p].next
  BY PollFields, ConstantTypes, NoneIsNoDelta DEF Pending, Delta
<1>2. ASSUME NEW i \in 1..poll[p].upto
      PROVE  <<f.box, i>> \in Accounted \cup poll[p].written \cup poll[p].errors
  <2>1. CASE i <= f.upto
    BY <1>1, <2>1 DEF PollInv, Covered
  <2>2. CASE f.upto < i
    <3>1. i \in 1..MaxMail /\ i < poll[p].next
      BY <1>1, ConstantTypes
    <3> QED
      BY <2>2, <3>1 DEF PollInv, Accounted
  <2> QED
    BY <1>1, <2>1, <2>2
<1> QED
  BY <1>2 DEF NewDelta, Covered

LEMMA LinkInvStep == TypeOK /\ LinkInv /\ [Next]_vars => LinkInv'
<1> SUFFICES ASSUME TypeOK, LinkInv, [Next]_vars
             PROVE  LinkInv'
  OBVIOUS
<1>0. TypeOK /\ LinkInv
  OBVIOUS
\* What another poll or nobody does.
<1>1. ASSUME Grows, UNCHANGED poll, delta' \in {delta, None}
      PROVE  LinkInv'
  <2>1. Covered(delta', Accounted')
    BY <1>0, <1>1 DEF LinkInv, Grows, Covered, Accounted
  <2>2. ASSUME NEW q \in Poller
        PROVE  PollInv(q)'
    BY <1>0, <1>1, PollInvStays DEF LinkInv
  <2> QED
    BY <2>1, <2>2 DEF LinkInv
<1>2. ASSUME NEW p \in Poller, Grows, Covered(delta', Accounted'), PollInv(p)',
             \A q \in Poller \ {p} : poll'[q] = poll[q]
      PROVE  LinkInv'
  <2>1. ASSUME NEW q \in Poller \ {p}
        PROVE  PollInv(q)'
    BY <1>0, <1>2, <2>1, PollInvStays DEF LinkInv
  <2> QED
    BY <1>2, <2>1 DEF LinkInv
<1>3. ASSUME Grows, UNCHANGED delta
      PROVE  Covered(delta', Accounted')
  BY <1>0, <1>3 DEF Grows, Covered, Accounted, LinkInv
<1>4. ASSUME NEW p \in Poller, Begin(p)
      PROVE  LinkInv'
  <2>1. Grows /\ UNCHANGED delta
    BY <1>4 DEF Begin, Grows, connection
  <2>2. poll'[p] = [stage |-> "loaded", box |-> box, from |-> delta]
    BY <1>0, <1>4 DEF Begin, TypeOK
  <2>3. PollInv(p)'
    BY <1>3, <2>1, <2>2 DEF PollInv
  <2> QED
    BY <1>0, <1>2, <1>3, <1>4, <2>1, <2>3 DEF Begin, TypeOK
<1>5. ASSUME NEW p \in Poller, List(p)
      PROVE  LinkInv'
  <2> DEFINE from == IF poll[p].from = None THEN [box |-> poll[p].box, upto |-> 0] ELSE poll[p].from
  <2>1. Grows /\ UNCHANGED delta
    BY <1>5 DEF List, Grows, connection
  <2>2. poll'[p] = [stage |-> "working", box |-> poll[p].box, from |-> from,
                    upto |-> inbox[from.box], next |-> from.upto + 1,
                    written |-> {}, errors |-> {}]
    BY <1>0, <1>5 DEF List, TypeOK
  <2>3. Covered(from, Accounted') /\ from.upto \in Int
    <3>1. CASE poll[p].from = None
      BY <3>1 DEF Covered
    <3>2. CASE poll[p].from # None
      <4>1. poll[p].from \in Delta
        BY <1>0, <1>5, <3>2, PollFields DEF List
      <4>2. poll[p].from.upto \in Int
        BY <4>1, ConstantTypes DEF Delta
      <4> QED
        BY <1>0, <1>5, <2>1, <3>2, <4>2 DEF List, LinkInv, PollInv, Grows, Covered, Accounted
    <3> QED
      BY <3>1, <3>2
  <2>4. PollInv(p)'
    <3> HIDE DEF from
    <3>1. /\ poll'[p].stage = "working"
          /\ poll'[p].from = from
          /\ poll'[p].next = from.upto + 1
      BY <2>2
    <3>2. \A i \in 1..MaxMail : ~(from.upto < i /\ i < from.upto + 1)
      BY <2>3, ConstantTypes
    <3>3. from.upto < from.upto + 1
      BY <2>3
    <3> QED
      BY <2>3, <3>1, <3>2, <3>3 DEF PollInv
  <2> QED
    BY <1>0, <1>2, <1>3, <1>5, <2>1, <2>4 DEF List, TypeOK
<1>6. ASSUME NEW p \in Poller, Store(p)
      PROVE  LinkInv'
  <2> DEFINE written == poll[p].written \cup {Current(p)}
             kept == IF EndsBatch(p) THEN {} ELSE written
  <2>1. Grows /\ UNCHANGED delta
    BY <1>6 DEF Store, DeltaAfterStore, Grows
  <2>2. poll[p] \in Working
    BY <1>0, <1>6, PollFields DEF Store, Pending
  <2>3. poll' = [poll EXCEPT ![p] = [poll[p] EXCEPT !.next = @ + 1, !.written = kept]]
    BY <1>6 DEF Store
  <2>4. /\ poll'[p].stage = "working" /\ poll'[p].from = poll[p].from
        /\ poll'[p].next = poll[p].next + 1
        /\ poll'[p].written = kept /\ poll'[p].errors = poll[p].errors
    <3> HIDE DEF kept
    <3> QED
      BY <1>0, <2>2, <2>3 DEF TypeOK, Working
  <2>5. stored \cup written \subseteq stored' \cup kept
    BY <1>6 DEF Store
  <2>6. PollInv(p)'
    <3> HIDE DEF kept
    <3> QED
      BY <1>0, <1>6, <2>1, <2>4, <2>5, HandledOne DEF Store, LinkInv
  <2>7. \A q \in Poller \ {p} : poll'[q] = poll[q]
    <3> HIDE DEF kept
    <3> QED
      BY <1>0, <2>3 DEF TypeOK
  <2> QED
    BY <1>2, <1>3, <2>1, <2>6, <2>7
<1>7. ASSUME NEW p \in Poller, GiveUp(p)
      PROVE  LinkInv'
  <2>1. Grows /\ UNCHANGED delta
    BY <1>7 DEF GiveUp, Grows, connection
  <2>2. poll[p] \in Working
    BY <1>0, <1>7, PollFields DEF GiveUp, Pending
  <2>3. /\ poll'[p].stage = "working" /\ poll'[p].from = poll[p].from
        /\ poll'[p].next = poll[p].next + 1
        /\ poll'[p].written = poll[p].written
        /\ poll'[p].errors = poll[p].errors \cup {Current(p)}
    BY <1>0, <1>7, <2>2 DEF GiveUp, TypeOK, Working
  <2>4. PollInv(p)'
    BY <1>0, <1>7, <2>1, <2>3, HandledOne DEF GiveUp, LinkInv, Grows
  <2>5. \A q \in Poller \ {p} : poll'[q] = poll[q]
    BY <1>0, <1>7 DEF GiveUp, TypeOK
  <2> QED
    BY <1>2, <1>3, <2>1, <2>4, <2>5
<1>8. ASSUME NEW p \in Poller, Finish(p)
      PROVE  LinkInv'
  <2>1. /\ stored' = stored \cup poll[p].written /\ given' = given \cup poll[p].errors
        /\ poll' = [poll EXCEPT ![p] = Idle]
        /\ delta' = NewDelta(p) \/ delta' = delta
        /\ poll[p].stage = "working" /\ ~Pending(p)
    BY <1>8 DEF Finish
  <2>2. Grows
    BY <2>1 DEF Grows
  <2>3. Covered(NewDelta(p), Accounted')
    BY <1>0, <2>1, NewDeltaCovered DEF LinkInv, Covered, Accounted
  <2>4. Covered(delta', Accounted')
    BY <1>3, <2>1, <2>2, <2>3
  <2>5. PollInv(p)'
    BY <1>0, <2>1 DEF PollInv, Idle, TypeOK
  <2>6. \A q \in Poller \ {p} : poll'[q] = poll[q]
    BY <1>0, <2>1 DEF TypeOK
  <2> QED
    BY <1>2, <2>2, <2>4, <2>5, <2>6
<1>9. ASSUME NEW p \in Poller, Abort(p)
      PROVE  LinkInv'
  <2>1. Grows /\ UNCHANGED delta /\ poll' = [poll EXCEPT ![p] = Idle]
    BY <1>9 DEF Abort, Grows, connection
  <2>2. PollInv(p)'
    BY <1>0, <2>1 DEF PollInv, Idle, TypeOK
  <2>3. \A q \in Poller \ {p} : poll'[q] = poll[q]
    BY <1>0, <2>1 DEF TypeOK
  <2> QED
    BY <1>2, <1>3, <2>1, <2>2, <2>3
<1>10. ASSUME NEW b \in Mailbox, Arrive(b) \/ SetMailbox(b)
       PROVE  LinkInv'
  BY <1>1, <1>10 DEF Arrive, SetMailbox, DeltaAfterSetting, Grows
<1>11. ASSUME NEW g \in BOOLEAN, SetConsent(g)
       PROVE  LinkInv'
  BY <1>1, <1>11 DEF SetConsent, Grows
<1>12. CASE LockLost \/ UNCHANGED vars
  BY <1>1, <1>12 DEF LockLost, connection, vars, Grows
<1> QED
  BY <1>4, <1>5, <1>6, <1>7, <1>8, <1>9, <1>10, <1>11, <1>12 DEF Next, Work

\* The row's link and the one each poll loaded cover handled messages only, through
\* every commit, abort and change of the mailbox.
THEOREM LinkInvariant == Spec => []LinkInv
<1>1. Init => LinkInv
  BY DEF Init, LinkInv, PollInv, Covered, Idle
<1> QED
  BY <1>1, LinkInvStep, TypeCorrect, PTL DEF Spec

\* The delta link has passed nothing that was not handled, in particular when
\* polls overlap because a lock session died, and whenever the mailbox changes.
THEOREM NothingIsPassedOver == Spec => []NothingPassedOver
<1>1. LinkInv => NothingPassedOver
  BY DEF LinkInv, Covered, Accounted, NothingPassedOver
<1> QED
  BY <1>1, LinkInvariant, PTL

-----------------------------------------------------------------------------
(***************************************************************************)
(* As long as no other mailbox was set while a poll was under way, every   *)
(* poll is about the mailbox that is connected, and so is the link it has  *)
(* loaded and the one it will write.                                       *)
(***************************************************************************)
AboutMailbox(r) ==
  /\ r.stage # "idle" => r.box = box
  /\ r.stage = "loaded" => r.from = None \/ r.from.box = box
  /\ r.stage = "working" => r.from.box = box

FollowInv == ~crossed => DeltaIsOfMailbox /\ \A p \in Poller : AboutMailbox(poll[p])

LEMMA FollowStep == TypeOK /\ FollowInv /\ [Next]_vars => FollowInv'
<1> SUFFICES ASSUME TypeOK, FollowInv, [Next]_vars, ~crossed'
             PROVE  DeltaIsOfMailbox' /\ \A p \in Poller : AboutMailbox(poll[p])'
  BY DEF FollowInv
<1>0. TypeOK
  OBVIOUS
\* The history only grows.
<1>1. ~crossed
  BY DEF Next, Arrive, SetMailbox, SetConsent, Begin, Work, List, Store, GiveUp, Finish, Abort, LockLost, vars
<1>2. DeltaIsOfMailbox /\ \A p \in Poller : AboutMailbox(poll[p])
  BY <1>1 DEF FollowInv
<1>3. poll \in [Poller -> {Idle} \cup Loaded \cup Working]
  BY DEF TypeOK
\* One poll moves on, about the same mailbox.
<1>4. ASSUME NEW p \in Poller, NEW r, poll' = [poll EXCEPT ![p] = r], AboutMailbox(r),
             UNCHANGED box, delta' = delta \/ delta'.box = box
      PROVE  DeltaIsOfMailbox' /\ \A q \in Poller : AboutMailbox(poll[q])'
  <2>1. \A q \in Poller : poll'[q] = r \/ poll'[q] = poll[q]
    BY <1>3, <1>4
  <2> QED
    BY <1>2, <1>4, <2>1 DEF DeltaIsOfMailbox, AboutMailbox
<1>5. ASSUME UNCHANGED <<box, delta, poll>>
      PROVE  DeltaIsOfMailbox' /\ \A q \in Poller : AboutMailbox(poll[q])'
  BY <1>2, <1>5 DEF DeltaIsOfMailbox, AboutMailbox
<1>6. ASSUME NEW b \in Mailbox, SetMailbox(b)
      PROVE  DeltaIsOfMailbox' /\ \A q \in Poller : AboutMailbox(poll[q])'
  <2>1. CASE b = box
    BY <1>5, <1>6, <2>1 DEF SetMailbox, DeltaAfterSetting
  <2>2. CASE b # box
    <3>1. delta' = None /\ poll' = poll /\ \A p \in Poller : poll[p].stage = "idle"
      BY <1>6, <2>2 DEF SetMailbox, DeltaAfterSetting, Running
    <3> QED
      BY <3>1 DEF DeltaIsOfMailbox, AboutMailbox
  <2> QED
    BY <2>1, <2>2
<1>7. ASSUME NEW p \in Poller, Begin(p)
      PROVE  DeltaIsOfMailbox' /\ \A q \in Poller : AboutMailbox(poll[q])'
  <2> DEFINE r == [stage |-> "loaded", box |-> box, from |-> delta]
  <2>1. AboutMailbox(r)
    BY <1>2 DEF AboutMailbox, DeltaIsOfMailbox
  <2>2. poll' = [poll EXCEPT ![p] = r] /\ UNCHANGED <<box, delta>>
    BY <1>7 DEF Begin, connection
  <2> QED
    BY <1>4, <2>1, <2>2
<1>8. ASSUME NEW p \in Poller, List(p)
      PROVE  DeltaIsOfMailbox' /\ \A q \in Poller : AboutMailbox(poll[q])'
  <2> DEFINE from == IF poll[p].from = None THEN [box |-> poll[p].box, upto |-> 0] ELSE poll[p].from
             r == [stage |-> "working", box |-> poll[p].box, from |-> from,
                   upto |-> inbox[from.box], next |-> from.upto + 1, written |-> {}, errors |-> {}]
  <2>1. poll[p].box = box /\ from.box = box
    BY <1>2, <1>8 DEF List, AboutMailbox
  <2>2. poll' = [poll EXCEPT ![p] = r] /\ UNCHANGED <<box, delta>>
    BY <1>8 DEF List, connection
  <2>3. AboutMailbox(r)
    <3> HIDE DEF from
    <3> QED
      BY <2>1 DEF AboutMailbox
  <2> HIDE DEF r
  <2> QED
    BY <1>4, <2>2, <2>3
<1>9. ASSUME NEW p \in Poller, Store(p) \/ GiveUp(p)
      PROVE  DeltaIsOfMailbox' /\ \A q \in Poller : AboutMailbox(poll[q])'
  <2>1. poll[p] \in Working /\ poll[p].stage = "working"
    BY <1>0, <1>9, PollFields DEF Store, GiveUp, Pending
  <2>2. PICK r : /\ poll' = [poll EXCEPT ![p] = r]
                 /\ r.stage = "working" /\ r.box = poll[p].box /\ r.from = poll[p].from
    <3>1. CASE Store(p)
      <4> DEFINE kept == IF EndsBatch(p) THEN {} ELSE poll[p].written \cup {Current(p)}
                 r == [poll[p] EXCEPT !.next = @ + 1, !.written = kept]
      <4>1. poll' = [poll EXCEPT ![p] = r]
        BY <3>1 DEF Store
      <4> HIDE DEF kept
      <4>2. r.stage = "working" /\ r.box = poll[p].box /\ r.from = poll[p].from
        BY <2>1 DEF Working
      <4> HIDE DEF r
      <4> QED
        BY <4>1, <4>2
    <3>2. CASE GiveUp(p)
      <4> DEFINE r == [poll[p] EXCEPT !.next = @ + 1, !.errors = @ \cup {Current(p)}]
      <4>1. poll' = [poll EXCEPT ![p] = r]
        BY <3>2 DEF GiveUp
      <4>2. r.stage = "working" /\ r.box = poll[p].box /\ r.from = poll[p].from
        BY <2>1 DEF Working
      <4> HIDE DEF r
      <4> QED
        BY <4>1, <4>2
    <3> QED
      BY <1>9, <3>1, <3>2
  <2>3. AboutMailbox(r)
    BY <1>2, <2>1, <2>2 DEF AboutMailbox
  <2>5. UNCHANGED <<box, delta>>
    BY <1>9 DEF Store, GiveUp, DeltaAfterStore, connection
  <2> QED
    BY <1>4, <2>2, <2>3, <2>5
<1>10. ASSUME NEW p \in Poller, Finish(p) \/ Abort(p)
       PROVE  DeltaIsOfMailbox' /\ \A q \in Poller : AboutMailbox(poll[q])'
  <2>1. poll' = [poll EXCEPT ![p] = Idle] /\ UNCHANGED box
    BY <1>10 DEF Finish, Abort, connection
  <2>2. AboutMailbox(Idle)
    BY DEF AboutMailbox, Idle
  <2>3. delta' = delta \/ delta'.box = box
    BY <1>2, <1>10 DEF Finish, Abort, NewDelta, connection, AboutMailbox
  <2> QED
    BY <1>4, <2>1, <2>2, <2>3
<1>11. CASE \E b \in Mailbox : Arrive(b)
  BY <1>5, <1>11 DEF Arrive
<1>12. CASE \E g \in BOOLEAN : SetConsent(g)
  BY <1>5, <1>12 DEF SetConsent
<1>13. CASE LockLost \/ UNCHANGED vars
  BY <1>5, <1>13 DEF LockLost, vars, connection
<1> QED
  BY <1>6, <1>7, <1>8, <1>9, <1>10, <1>11, <1>12, <1>13 DEF Next, Work

\* The link in use is the connected mailbox's, unless another mailbox was set while
\* a poll was under way.
THEOREM LinkStaysWithMailbox == Spec => []DeltaFollowsMailbox
<1>1. Init => FollowInv
  BY DEF Init, FollowInv, DeltaIsOfMailbox, AboutMailbox, Idle
<1>2. FollowInv => DeltaFollowsMailbox
  BY DEF FollowInv, DeltaFollowsMailbox
<1> QED
  BY <1>1, <1>2, FollowStep, TypeCorrect, PTL DEF Spec

\* The link as the run checks it, with its types.
THEOREM LinkAlwaysHolds == Spec => []LinkHolds
<1>1. TypeOK /\ NothingPassedOver /\ DeltaFollowsMailbox => LinkHolds
  BY DEF LinkHolds
<1> QED
  BY <1>1, TypeCorrect, NothingIsPassedOver, LinkStaysWithMailbox, PTL
=============================================================================
