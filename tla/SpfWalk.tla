------------------------------- MODULE SpfWalk -------------------------------
(***************************************************************************)
(* The lookups of an SPF record (services/dns_checks/spf.py): a record may  *)
(* include others and redirect to one, and an evaluation may make at most   *)
(* MAX_LOOKUPS lookups, MAX_VOID_LOOKUPS of them in vain.  The checker      *)
(* walks the records once, remembering where it has been, and stops when it *)
(* gets there again.                                                        *)
(*                                                                          *)
(* Which terms a record is made of is abstracted to what they cost.  The    *)
(* recursions are functions of how much deeper they may go, and within a    *)
(* record of how many of its targets they have followed.                    *)
(***************************************************************************)
EXTENDS Naturals, Sequences, FiniteSets

CONSTANTS
  Hosts, Root,
  SpfRecords,      \* records that may be published, see SpfAssumption
  MaxDepth,        \* how deep the walk goes, 10
  MaxLookups,      \* MAX_LOOKUPS
  MaxVoidLookups   \* MAX_VOID_LOOKUPS

(* A published record: how many SPF records the host has (only the first is *)
(* read), its a, mx, ptr and exists terms, the hosts it includes in order,  *)
(* the host it redirects to as a sequence of at most one.                   *)
ASSUME SpfAssumption ==
  /\ IsFiniteSet(Hosts) /\ Root \in Hosts
  /\ MaxDepth \in Nat /\ MaxLookups \in Nat /\ MaxVoidLookups \in Nat
  /\ \A r \in SpfRecords : /\ r.copies \in Nat \ {0} /\ r.direct \in Nat
                           /\ r.includes \in Seq(Hosts) /\ r.redirect \in Seq(Hosts)

VARIABLE spf        \* what each host publishes; no record or a failing lookup are void

NoRecord == [copies |-> 0, direct |-> 0, includes |-> <<>>, redirect |-> <<>>]
Failing == [NoRecord EXCEPT !.direct = 1]      \* a lookup that fails is told apart only by this
Void(host) == spf[host].copies = 0
Targets(host) == spf[host].includes \o spf[host].redirect      \* the redirect last

SpfTypeOK == spf \in [Hosts -> SpfRecords \cup {NoRecord, Failing}]

SpfInit == spf = [h \in Hosts |-> NoRecord]
(* Each host publishes once: the verdict is on what is published, not when. *)
Publish(h, r) == spf[h] = NoRecord /\ spf' = [spf EXCEPT ![h] = r]
SpfNext == \E h \in Hosts, r \in SpfRecords \cup {Failing} : Publish(h, r)
SpfSpec == SpfInit /\ [][SpfNext]_spf

-----------------------------------------------------------------------------
Walks == [lookups : Nat, voids : Nat, visited : SUBSET Hosts, notes : SUBSET {"loop", "copies"}]
Unwalked == [lookups |-> 0, voids |-> 0, visited |-> {}, notes |-> {}]

\* Mutant: a host seen before is passed over in silence.
AgainQuietly(walk) == walk
Again(walk) == [walk EXCEPT !.notes = @ \cup {"loop"}]

Looked(walk, more) == [walk EXCEPT !.lookups = @ + more]
Entered(host, walk) == [walk EXCEPT !.visited = @ \cup {host}]
Begun(host, walk) ==
  [Looked(Entered(host, walk), spf[host].direct) EXCEPT
     !.notes = @ \cup (IF spf[host].copies > 1 THEN {"copies"} ELSE {})]
InVain(walk) == [walk EXCEPT !.voids = @ + 1]

(* _walk, which may go this much deeper. *)
Walk[deeper \in 0 .. MaxDepth + 1] ==
  [host \in Hosts |-> [walk \in Walks |->
    LET after[i \in 0 .. Len(Targets(host))] ==
          IF i = 0 THEN Begun(host, walk) ELSE Walk[deeper - 1][Targets(host)[i]][Looked(after[i - 1], 1)] IN
    IF deeper = 0 \/ host \in walk.visited THEN Again(walk)
    ELSE IF ~Void(host) THEN after[Len(Targets(host))]
    ELSE IF deeper <= MaxDepth \/ spf[host] = Failing THEN InVain(Entered(host, walk)) ELSE Entered(host, walk)]]

(* check, up to the qualifier of the record's 'all'. *)
Findings ==
  LET walk == Walk[MaxDepth + 1][Root][Unwalked] IN
  IF Void(Root) THEN {"none"}
  ELSE walk.notes
       \cup (IF walk.lookups > MaxLookups THEN {"over"} ELSE IF walk.lookups + 2 >= MaxLookups THEN {"close"} ELSE {})
       \cup (IF walk.voids > MaxVoidLookups THEN {"voids"} ELSE {})

-----------------------------------------------------------------------------
(* What an evaluation may come to that follows every term, however often it *)
(* has been there; one that does not end exceeds every limit.               *)
Evaluate[fuel \in 0 .. Cardinality(Hosts) + 1] ==
  [host \in Hosts |->
    LET sum[i \in 0 .. Len(Targets(host))] ==
          IF i = 0 THEN [lookups |-> spf[host].direct, voids |-> 0]
          ELSE LET e == Evaluate[fuel - 1][Targets(host)[i]] IN
               [lookups |-> sum[i - 1].lookups + 1 + e.lookups, voids |-> sum[i - 1].voids + e.voids] IN
    IF fuel = 0 THEN [lookups |-> MaxLookups + 1, voids |-> MaxVoidLookups + 1]
    ELSE IF Void(host) THEN [lookups |-> 0, voids |-> 1]
    ELSE sum[Len(Targets(host))]]

(* A record that the checker finds neither too long nor looping is within    *)
(* the limits however a receiver evaluates it, although the checker counts   *)
(* each host once; and a loop it reports or a limit it finds exceeded is     *)
(* never made up: the evaluation exceeds it too.                             *)
SpfVerdictIsTrue ==
  LET all == Evaluate[Cardinality(Hosts) + 1][Root] IN
  "none" \notin Findings =>
    /\ "loop" \notin Findings => ("over" \in Findings <=> all.lookups > MaxLookups)
    /\ "loop" \notin Findings => ("voids" \in Findings <=> all.voids > MaxVoidLookups)
    /\ "over" \in Findings => all.lookups > MaxLookups
=============================================================================
