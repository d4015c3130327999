------------------------- MODULE ReportStoreProofs -------------------------
(***************************************************************************)
(* Proofs about ReportStore, for any names, natural keys, sender facts and *)
(* number of polls at a time: types, verdicts, attribution, and that       *)
(* nothing is lost.                                                        *)
(***************************************************************************)
EXTENDS ReportStore, WellFoundedInduction, TLAPS

\* A row in the shape the code writes: its records carry its verdict.
Uniform(r) == r.recVerdict = r.verdict

\* Every row, committed or in flight, is uniform.
RecordInv ==
  /\ \A k \in Key : stored[k] # NoRow => Uniform(stored[k])
  /\ \A i \in Ingester, k \in Key : new[i][k] # NoRow => Uniform(new[i][k])

\* r was judged under setting m.
Judged(r, m) == r.verdict = Decide(m, r.facts)

\* Every verdict, committed or in flight, is the one of the current setting.
JudgedInv ==
  /\ \A k \in Key : stored[k] # NoRow => Judged(stored[k], mode)
  /\ \A i \in Ingester, k \in Key : new[i][k] # NoRow => Judged(new[i][k], mode)
  /\ \A i \in Ingester : draft[i] # NoRow => Judged(draft[i], mode)

VerdictInv == crossed \/ JudgedInv
-----------------------------------------------------------------------------
(***************************************************************************)
(* The operators the model is built from.                                  *)
(***************************************************************************)

\* The rule as Python states it and the rule as SQL states it agree, whatever
\* combination of facts was recorded: re-evaluating a stored report gives the
\* verdict ingestion would give it.
THEOREM OneRuleTwice ==
  ASSUME NEW m \in Mode, NEW f \in Sender
  PROVE  DecideSql(m, f) = Decide(m, f)
<1>1. CASE m = "off"
  BY <1>1 DEF DecideSql, Decide
<1>2. CASE m = "strict"
  BY <1>2 DEF DecideSql, Decide, Strict
<1>3. CASE m = "standard"
  BY <1>3 DEF DecideSql, Decide, Standard
<1> QED
  BY <1>1, <1>2, <1>3 DEF Mode

LEMMA DecideType ==
  ASSUME NEW m, NEW f
  PROVE  Decide(m, f) \in Verdict
BY DEF Decide, Verdict

\* A set of numbers that is not empty has a least one.
LEMMA LeastExists ==
  ASSUME NEW T, T \subseteq Nat, T # {}
  PROVE  \E x \in T : \A y \in T : ~(y < x)
<1>1. \E x \in T : \A y \in T : <<y, x>> \notin OpToRel(<, Nat)
  BY NatLessThanWellFounded, WFMin, Zenon
<1> QED
  BY <1>1 DEF OpToRel

\* Some name always answers for n: the first registered one of its walk, or none.
LEMMA MatchExists ==
  ASSUME NEW n \in Name, NEW R
  PROVE  \E d \in Link : Matches(n, R, d)
<1> DEFINE hits == {i \in DOMAIN Lineage[n] : Lineage[n][i] \in R}
<1>1. Lineage[n] \in Seq(Name) /\ DOMAIN Lineage[n] \subseteq Nat
  BY StoreAssumption
<1>2. CASE hits = {}
  <2>1. Matches(n, R, NoDomain)
    BY <1>2 DEF Matches
  <2> QED
    BY <2>1 DEF Link
<1>3. CASE hits # {}
  <2>1. PICK x \in hits : \A y \in hits : ~(y < x)
    BY <1>1, <1>3, LeastExists
  <2>2. Matches(n, R, Lineage[n][x])
    BY <2>1 DEF Matches
  <2>3. Lineage[n][x] \in Link
    BY <1>1, <2>1 DEF Link
  <2> QED
    BY <2>2, <2>3
<1> QED
  BY <1>2, <1>3

LEMMA MatchType ==
  ASSUME NEW n \in Name, NEW R
  PROVE  Match(n, R) \in Link /\ Matches(n, R, Match(n, R))
BY MatchExists DEF Match

LEMMA StoreTypes ==
  /\ \A k \in Key : Published[k] \in Name
  /\ Gone \notin Link
  /\ Facts \subseteq Sender
BY StoreAssumption, FactsAssumption DEF Link
-----------------------------------------------------------------------------
(***************************************************************************)
(* Rows: what the actions build.                                           *)
(***************************************************************************)

\* What a poll sees of a key is a row of one of the two places it looks at.
LEMMA SeenIsEither ==
  ASSUME NEW i \in Ingester, NEW k \in Key
  PROVE  Seen(i, k) = new[i][k] \/ Seen(i, k) = stored[k] \/ Seen(i, k) = NoRow
BY DEF Seen

LEMMA DraftFields ==
  ASSUME TypeOK, NEW i \in Ingester, draft[i] # NoRow
  PROVE  /\ draft[i].key \in Key /\ draft[i].facts \in Sender /\ draft[i].verdict \in Verdict
         /\ draft[i].domain \in Link \cup {Gone} /\ draft[i].clears \in BOOLEAN
<1>1. draft[i] \in Draft
  BY DEF TypeOK
<1> QED
  BY <1>1, StoreTypes DEF Draft

\* A row that is inserted: in type, uniform, and judged as its draft was.
LEMMA InsertedRow ==
  ASSUME TypeOK, NEW i \in Ingester, draft[i] # NoRow, Fits(i)
  PROVE  /\ Inserted(i) \in Row
         /\ Uniform(Inserted(i))
         /\ Inserted(i).verdict = draft[i].verdict /\ Inserted(i).facts = draft[i].facts
<1>1. draft[i].domain \in Link
  BY DraftFields DEF Fits
<1>2. [n \in Name |-> IF n \in Froms[draft[i].key] THEN Match(n, Registered) ELSE NoDomain] \in [Name -> Link]
  BY MatchType DEF Link
<1>3. Inserted(i) \in Row
  BY <1>1, <1>2, DraftFields DEF Inserted, Row
<1>4. Inserted(i).verdict = draft[i].verdict /\ Inserted(i).facts = draft[i].facts /\ Uniform(Inserted(i))
  BY DEF Inserted, Uniform
<1> QED
  BY <1>3, <1>4

\* Re-evaluation under m: in type, uniform, and judged under m.
LEMMA RejudgedRow ==
  ASSUME NEW r \in Row, NEW m \in Mode
  PROVE  Rejudged(r, m) \in Row /\ Uniform(Rejudged(r, m)) /\ Judged(Rejudged(r, m), m)
<1> DEFINE v == DecideSql(m, r.facts)
<1>1. r.facts \in Sender
  BY DEF Row
<1>2. v = Decide(m, r.facts) /\ v \in Verdict
  BY <1>1, OneRuleTwice, DecideType
<1> HIDE DEF v
<1>3. Rejudged(r, m) = [r EXCEPT !.verdict = v, !.recVerdict = v]
  BY DEF Rejudged, v
<1>4. /\ Rejudged(r, m) \in Row
      /\ Rejudged(r, m).verdict = v /\ Rejudged(r, m).recVerdict = v /\ Rejudged(r, m).facts = r.facts
  BY <1>2, <1>3 DEF Row
<1> QED
  BY <1>2, <1>4 DEF Uniform, Judged

\* Attribution touches nothing but the links.
LEMMA AttributedRow ==
  ASSUME NEW T \in [Key -> Row \cup {NoRow}], NEW R, NEW d \in Name, NEW k \in Key, T[k] # NoRow
  PROVE  /\ Attributed(T, R, d)[k] \in Row
         /\ Attributed(T, R, d)[k].verdict = T[k].verdict
         /\ Attributed(T, R, d)[k].recVerdict = T[k].recVerdict
         /\ Attributed(T, R, d)[k].facts = T[k].facts
<1> DEFINE link == SweptReport(T, R, k)
           links == [n \in Name |-> SweptRecord(T, R, d, k, n)]
<1>1. T[k] \in Row
  OBVIOUS
<1>2. link \in Link
  BY <1>1, MatchType, StoreTypes DEF SweptReport, Row
<1>3. links \in [Name -> Link]
  BY <1>1, MatchType DEF SweptRecord, Row
<1>4. Attributed(T, R, d)[k] = [T[k] EXCEPT !.domain = link, !.at = links]
  BY DEF Attributed
<1> HIDE DEF link, links
<1> QED
  BY <1>1, <1>2, <1>3, <1>4 DEF Row

LEMMA AttributedType ==
  ASSUME NEW T \in [Key -> Row \cup {NoRow}], NEW R, NEW d \in Name
  PROVE  /\ Attributed(T, R, d) \in [Key -> Row \cup {NoRow}]
         /\ \A k \in Key : T[k] = NoRow => Attributed(T, R, d)[k] = NoRow
<1>1. \A k \in Key : T[k] = NoRow => Attributed(T, R, d)[k] = NoRow
  BY DEF Attributed
<1>2. \A k \in Key : Attributed(T, R, d)[k] \in Row \cup {NoRow}
  BY <1>1, AttributedRow
<1>3. Attributed(T, R, d) = [k \in Key |-> Attributed(T, R, d)[k]]
  BY DEF Attributed
<1> QED
  BY <1>1, <1>2, <1>3

\* So does the removal of a domain.
LEMMA UnlinkedRow ==
  ASSUME TypeOK, NEW d \in Name
  PROVE  /\ Unlinked(d) \in [Key -> Row \cup {NoRow}]
         /\ \A k \in Key : stored[k] = NoRow => Unlinked(d)[k] = NoRow
         /\ \A k \in Key : stored[k] # NoRow =>
              /\ Unlinked(d)[k].verdict = stored[k].verdict
              /\ Unlinked(d)[k].recVerdict = stored[k].recVerdict
              /\ Unlinked(d)[k].facts = stored[k].facts
<1>1. ASSUME NEW k \in Key, stored[k] # NoRow
      PROVE  /\ Unlinked(d)[k] \in Row
             /\ Unlinked(d)[k].verdict = stored[k].verdict
             /\ Unlinked(d)[k].recVerdict = stored[k].recVerdict
             /\ Unlinked(d)[k].facts = stored[k].facts
  <2> DEFINE link == Unlink(stored[k].domain, d)
             links == [n \in Name |-> Unlink(stored[k].at[n], d)]
  <2>1. stored[k] \in Row
    BY <1>1 DEF TypeOK
  <2>2. link \in Link /\ links \in [Name -> Link]
    BY <2>1 DEF Unlink, Row, Link
  <2>3. Unlinked(d)[k] = [stored[k] EXCEPT !.domain = link, !.at = links]
    BY <1>1 DEF Unlinked
  <2> HIDE DEF link, links
  <2> QED
    BY <2>1, <2>2, <2>3 DEF Row
<1>2. \A k \in Key : stored[k] = NoRow => Unlinked(d)[k] = NoRow
  BY DEF Unlinked
<1>3. Unlinked(d) = [k \in Key |-> Unlinked(d)[k]]
  BY DEF Unlinked
<1>4. \A k \in Key : Unlinked(d)[k] \in Row \cup {NoRow}
  BY <1>1, <1>2
<1> QED
  BY <1>1, <1>2, <1>3, <1>4
-----------------------------------------------------------------------------
(***************************************************************************)
(* Type correctness.                                                       *)
(***************************************************************************)

LEMMA InitType == Init => TypeOK
<1> SUFFICES ASSUME Init
             PROVE  TypeOK
  OBVIOUS
<1> DEFINE bare == [facts |-> Unchecked, verdict |-> "unchecked", domain |-> NoDomain,
                    recVerdict |-> "unchecked", at |-> [n \in Name |-> NoDomain]]
<1>1. bare \in Row
  BY DEF Row, Sender, Verdict, Link, Unchecked
<1>2. PICK old \in SUBSET Key : stored = [k \in Key |-> IF k \in old THEN bare ELSE NoRow]
  BY DEF Init
<1> HIDE DEF bare
<1>3. stored \in [Key -> Row \cup {NoRow}]
  BY <1>1, <1>2
<1> QED
  BY <1>3 DEF Init, TypeOK, Mode, NoRows

\* What Insert leaves in the poll's transaction.
LEMMA OutcomeType ==
  ASSUME TypeOK, NEW i \in Ingester, NEW k \in Key, draft[i] # NoRow
  PROVE  Outcome(i, k) \in Row \cup {NoRow}
BY InsertedRow DEF Outcome, TypeOK

LEMMA IngestType ==
  ASSUME TypeOK, NEW i \in Ingester, Ingest(i)
  PROVE  TypeOK'
<1>1. ASSUME NEW k \in Key, NEW f \in Facts, Start(i, k, f)
      PROVE  TypeOK'
  <2> DEFINE b == [key |-> k, facts |-> f, verdict |-> Decide(mode, f),
                   clears |-> Replaces(i, k, Decide(mode, f)), domain |-> Match(Published[k], Registered)]
  <2>1. Match(Published[k], Registered) \in Link
    BY MatchType, StoreTypes
  <2>2. Decide(mode, f) \in Verdict /\ Replaces(i, k, Decide(mode, f)) \in BOOLEAN
    BY DecideType DEF Replaces
  <2>3. b \in Draft
    BY <2>1, <2>2 DEF Draft
  <2>4. draft' = [draft EXCEPT ![i] = b]
    BY <1>1 DEF Start
  <2> HIDE DEF b
  <2>5. draft' \in [Ingester -> Draft \cup {NoRow}]
    BY <2>3, <2>4 DEF TypeOK
  <2>6. crossed' \in BOOLEAN
    BY <1>1 DEF Start, TypeOK
  <2> QED
    BY <1>1, <2>5, <2>6 DEF Start, TypeOK, store
<1>2. CASE Insert(i)
  <2> DEFINE k == draft[i].key
             out == Outcome(i, k)
  <2>1. k \in Key /\ out \in Row \cup {NoRow}
    BY <1>2, DraftFields, OutcomeType DEF Insert
  <2>2. new' = [new EXCEPT ![i][k] = out]
    BY <1>2 DEF Insert
  <2>3. cleared' \in [Ingester -> SUBSET Key]
    BY <1>2, <2>1 DEF Insert, TypeOK
  <2> HIDE DEF k, out
  <2>4. new' \in [Ingester -> [Key -> Row \cup {NoRow}]]
    BY <2>1, <2>2 DEF TypeOK
  <2>5. draft' \in [Ingester -> Draft \cup {NoRow}]
    BY <1>2 DEF Insert, TypeOK
  <2> QED
    BY <1>2, <2>3, <2>4, <2>5 DEF Insert, TypeOK, store
<1>3. CASE StoreFails(i)
  BY <1>3 DEF StoreFails, TypeOK, store
<1>4. CASE Commit(i)
  <2>1. \A k \in Key : Seen(i, k) \in Row \cup {NoRow}
    BY DEF Seen, TypeOK
  <2>2. stored' \in [Key -> Row \cup {NoRow}]
    BY <1>4, <2>1 DEF Commit
  <2> QED
    BY <1>4, <2>2 DEF Commit, TypeOK, NoRows
<1>5. CASE Abort(i)
  BY <1>5 DEF Abort, TypeOK, NoRows, store
<1> QED
  BY <1>1, <1>2, <1>3, <1>4, <1>5 DEF Ingest

LEMMA RequestType ==
  ASSUME TypeOK, Request
  PROVE  TypeOK'
<1>1. ASSUME NEW m \in Mode, SetMode(m)
      PROVE  TypeOK'
  <2>1. \A k \in Key : stored[k] # NoRow => Rejudged(stored[k], m) \in Row
    BY RejudgedRow DEF TypeOK
  <2>2. stored' \in [Key -> Row \cup {NoRow}]
    BY <1>1, <2>1 DEF SetMode
  <2>3. crossed' \in BOOLEAN
    BY <1>1 DEF SetMode, Cross, TypeOK, Quiet
  <2> QED
    BY <1>1, <2>2, <2>3 DEF SetMode, TypeOK, polls
<1>2. ASSUME NEW d \in Name, NEW s \in {"pending", "verified"}, Add(d, s)
      PROVE  TypeOK'
  <2>1. stored' \in [Key -> Row \cup {NoRow}]
    BY <1>2, AttributedType DEF Add, TypeOK
  <2>2. crossed' \in BOOLEAN
    BY <1>2 DEF Add, Cross, TypeOK, Quiet
  <2>3. domains' \in [Name -> {"absent", "pending", "verified"}]
    BY <1>2 DEF Add, TypeOK
  <2> QED
    BY <1>2, <2>1, <2>2, <2>3 DEF Add, TypeOK, polls
<1>3. ASSUME NEW d \in Name, Verify(d)
      PROVE  TypeOK'
  BY <1>3 DEF Verify, TypeOK, polls
<1>4. ASSUME NEW d \in Name, Remove(d)
      PROVE  TypeOK'
  <2>1. stored' \in [Key -> Row \cup {NoRow}]
    BY <1>4, AttributedType, UnlinkedRow DEF Remove
  <2>2. crossed' \in BOOLEAN
    BY <1>4 DEF Remove, Cross, TypeOK, Quiet
  <2>3. domains' \in [Name -> {"absent", "pending", "verified"}]
    BY <1>4 DEF Remove, TypeOK
  <2>4. \A i \in Ingester : draft[i] # NoRow => [draft[i] EXCEPT !.domain = Gone] \in Draft
    BY DEF TypeOK, Draft
  <2>5. draft' \in [Ingester -> Draft \cup {NoRow}]
    BY <1>4, <2>4 DEF Remove, TypeOK
  <2> QED
    BY <1>4, <2>1, <2>2, <2>3, <2>5 DEF Remove, TypeOK
<1> QED
  BY <1>1, <1>2, <1>3, <1>4 DEF Request

\* Every step keeps the types; in particular no row is inserted for a domain that
\* was removed since it was matched.
THEOREM TypeCorrect == Spec => []TypeOK
<1>1. TypeOK /\ [Next]_vars => TypeOK'
  <2> SUFFICES ASSUME TypeOK, [Next]_vars
               PROVE  TypeOK'
    OBVIOUS
  <2>1. CASE Next
    BY <2>1, IngestType, RequestType DEF Next
  <2>2. CASE UNCHANGED vars
    BY <2>2 DEF vars, TypeOK
  <2> QED
    BY <2>1, <2>2
<1> QED
  BY <1>1, InitType, PTL DEF Spec
-----------------------------------------------------------------------------
(***************************************************************************)
(* Records carry their report's verdict.  The invariant speaks of the rows *)
(* in flight too: a commit makes them everybody's.                         *)
(***************************************************************************)

LEMMA IngestKeepsRecords ==
  ASSUME TypeOK, RecordInv, NEW i \in Ingester, Ingest(i)
  PROVE  RecordInv'
<1>1. CASE \E k \in Key, f \in Facts : Start(i, k, f)
  BY <1>1 DEF Start, RecordInv, store
<1>2. CASE Insert(i)
  <2> DEFINE k == draft[i].key
             out == Outcome(i, k)
  <2>1. out # NoRow => Uniform(out)
    BY <1>2, InsertedRow, DraftFields DEF Insert, Outcome, RecordInv
  <2>2. new' = [new EXCEPT ![i][k] = out] /\ UNCHANGED stored
    BY <1>2 DEF Insert, store
  <2> HIDE DEF k, out
  <2>3. \A j \in Ingester, n \in Key : new'[j][n] = new[j][n] \/ new'[j][n] = out
    BY <2>2 DEF TypeOK
  <2> QED
    BY <2>1, <2>2, <2>3 DEF RecordInv
<1>3. CASE StoreFails(i)
  BY <1>3 DEF StoreFails, RecordInv, store
<1>4. CASE Commit(i)
  <2>1. \A k \in Key : stored'[k] = Seen(i, k)
    BY <1>4 DEF Commit
  <2>2. \A k \in Key : stored'[k] # NoRow => Uniform(stored'[k])
    BY <2>1, SeenIsEither DEF RecordInv
  <2>3. \A j \in Ingester, k \in Key : new'[j][k] # NoRow => Uniform(new'[j][k])
    BY <1>4 DEF Commit, NoRows, RecordInv, TypeOK
  <2> QED
    BY <2>2, <2>3 DEF RecordInv
<1>5. CASE Abort(i)
  BY <1>5 DEF Abort, RecordInv, TypeOK, NoRows, store
<1> QED
  BY <1>1, <1>2, <1>3, <1>4, <1>5 DEF Ingest

\* What a request does to the committed rows, whichever it is: each row keeps its
\* facts, and both its verdicts, or is judged anew under the setting it installs.
LEMMA RequestRows ==
  ASSUME TypeOK, Request, NEW k \in Key
  PROVE  /\ stored'[k] # NoRow => stored[k] # NoRow
         /\ stored'[k] # NoRow =>
              \/ /\ mode' = mode
                 /\ stored'[k].facts = stored[k].facts
                 /\ stored'[k].verdict = stored[k].verdict
                 /\ stored'[k].recVerdict = stored[k].recVerdict
              \/ Uniform(stored'[k]) /\ Judged(stored'[k], mode')
<1>1. ASSUME NEW m \in Mode, SetMode(m), stored'[k] # NoRow
      PROVE  stored[k] # NoRow /\ Uniform(stored'[k]) /\ Judged(stored'[k], mode')
  <2>1. stored'[k] = Rejudged(stored[k], m) /\ stored[k] # NoRow /\ mode' = m
    BY <1>1 DEF SetMode
  <2> QED
    BY <2>1, RejudgedRow DEF TypeOK
<1>2. ASSUME NEW d \in Name, NEW s \in {"pending", "verified"}, Add(d, s), stored'[k] # NoRow
      PROVE  /\ stored[k] # NoRow /\ mode' = mode
             /\ stored'[k].facts = stored[k].facts
             /\ stored'[k].verdict = stored[k].verdict
             /\ stored'[k].recVerdict = stored[k].recVerdict
  <2>1. stored' = Attributed(stored, Registered \cup {d}, d) /\ mode' = mode
    BY <1>2 DEF Add
  <2>2. stored[k] # NoRow
    BY <1>2, <2>1, AttributedType DEF TypeOK
  <2> QED
    BY <2>1, <2>2, AttributedRow DEF TypeOK
<1>3. ASSUME NEW d \in Name, Verify(d)
      PROVE  UNCHANGED <<mode, stored>>
  BY <1>3 DEF Verify
<1>4. ASSUME NEW d \in Name, Remove(d), stored'[k] # NoRow
      PROVE  /\ stored[k] # NoRow /\ mode' = mode
             /\ stored'[k].facts = stored[k].facts
             /\ stored'[k].verdict = stored[k].verdict
             /\ stored'[k].recVerdict = stored[k].recVerdict
  <2> DEFINE T == Unlinked(d)
  <2>1. stored' = Attributed(T, Registered \ {d}, d) /\ mode' = mode
    BY <1>4 DEF Remove
  <2>2. /\ T \in [Key -> Row \cup {NoRow}]
        /\ stored[k] = NoRow => T[k] = NoRow
        /\ stored[k] # NoRow => /\ T[k].verdict = stored[k].verdict
                                /\ T[k].recVerdict = stored[k].recVerdict
                                /\ T[k].facts = stored[k].facts
    BY UnlinkedRow
  <2> HIDE DEF T
  <2>3. T[k] # NoRow
    BY <1>4, <2>1, <2>2, AttributedType
  <2> QED
    BY <2>1, <2>2, <2>3, AttributedRow
<1> QED
  BY <1>1, <1>2, <1>3, <1>4 DEF Request

\* No request touches rows in flight.
LEMMA RequestKeepsNew == Request => UNCHANGED new
BY DEF Request, SetMode, Add, Verify, Remove, polls

LEMMA RecordInvariant == Spec => []RecordInv
<1>1. Init => RecordInv
  BY DEF Init, RecordInv, Uniform, NoRows
<1>2. TypeOK /\ RecordInv /\ [Next]_vars => RecordInv'
  <2> SUFFICES ASSUME TypeOK, RecordInv, [Next]_vars
               PROVE  RecordInv'
    OBVIOUS
  <2>1. CASE Request
    <3>1. \A k \in Key : stored'[k] # NoRow => Uniform(stored'[k])
      BY <2>1, RequestRows DEF RecordInv, Uniform
    <3> QED
      BY <2>1, <3>1, RequestKeepsNew DEF RecordInv
  <2>2. CASE \E i \in Ingester : Ingest(i)
    BY <2>2, IngestKeepsRecords
  <2>3. CASE UNCHANGED vars
    BY <2>3 DEF vars, RecordInv
  <2> QED
    BY <2>1, <2>2, <2>3 DEF Next
<1> QED
  BY <1>1, <1>2, TypeCorrect, PTL DEF Spec

\* A record and its report never disagree about counting.
THEOREM RecordsAlwaysFollow == Spec => []RecordsFollowReport
<1>1. RecordInv => RecordsFollowReport
  BY DEF RecordInv, RecordsFollowReport, Uniform
<1> QED
  BY <1>1, RecordInvariant, PTL
-----------------------------------------------------------------------------
(***************************************************************************)
(* Verdicts are those of the setting.  A draft carries one as well, and a  *)
(* setting that changes with nothing in flight finds every row committed.  *)
(***************************************************************************)

LEMMA IngestKeepsVerdicts ==
  ASSUME TypeOK, JudgedInv, NEW i \in Ingester, Ingest(i)
  PROVE  JudgedInv'
<1>1. ASSUME NEW k \in Key, NEW f \in Facts, Start(i, k, f)
      PROVE  JudgedInv'
  <2> DEFINE b == [key |-> k, facts |-> f, verdict |-> Decide(mode, f),
                   clears |-> Replaces(i, k, Decide(mode, f)), domain |-> Match(Published[k], Registered)]
  <2>1. Judged(b, mode)
    BY DEF Judged
  <2>2. draft' = [draft EXCEPT ![i] = b] /\ UNCHANGED <<mode, stored, new>>
    BY <1>1 DEF Start, store
  <2> HIDE DEF b
  <2>3. \A j \in Ingester : draft'[j] = draft[j] \/ draft'[j] = b
    BY <2>2 DEF TypeOK
  <2> QED
    BY <2>1, <2>2, <2>3 DEF JudgedInv
<1>2. CASE Insert(i)
  <2> DEFINE k == draft[i].key
             out == Outcome(i, k)
  <2>1. out # NoRow => Judged(out, mode)
    BY <1>2, InsertedRow, DraftFields DEF Insert, Outcome, JudgedInv, Judged
  <2>2. new' = [new EXCEPT ![i][k] = out] /\ UNCHANGED <<mode, stored>>
    BY <1>2 DEF Insert, store
  <2>3. draft' = [draft EXCEPT ![i] = NoRow]
    BY <1>2 DEF Insert
  <2> HIDE DEF k, out
  <2>4. \A j \in Ingester, n \in Key : new'[j][n] = new[j][n] \/ new'[j][n] = out
    BY <2>2 DEF TypeOK
  <2>5. \A j \in Ingester : draft'[j] = draft[j] \/ draft'[j] = NoRow
    BY <2>3 DEF TypeOK
  <2> QED
    BY <2>1, <2>2, <2>4, <2>5 DEF JudgedInv
<1>3. CASE StoreFails(i)
  BY <1>3 DEF StoreFails, JudgedInv, TypeOK, store
<1>4. CASE Commit(i)
  <2>1. \A k \in Key : stored'[k] = Seen(i, k)
    BY <1>4 DEF Commit
  <2>2. \A k \in Key : stored'[k] # NoRow => Judged(stored'[k], mode)
    BY <2>1, SeenIsEither DEF JudgedInv
  <2>3. \A j \in Ingester, k \in Key : new'[j][k] # NoRow => Judged(new'[j][k], mode)
    BY <1>4 DEF Commit, NoRows, JudgedInv, TypeOK
  <2> QED
    BY <1>4, <2>2, <2>3 DEF JudgedInv, Commit
<1>5. CASE Abort(i)
  BY <1>5 DEF Abort, JudgedInv, TypeOK, NoRows, store
<1> QED
  BY <1>1, <1>2, <1>3, <1>4, <1>5 DEF Ingest

\* A request that finds nothing in flight leaves nothing in flight.
LEMMA RequestWhenQuiet ==
  ASSUME TypeOK, Quiet, Request
  PROVE  \A i \in Ingester : draft'[i] = NoRow /\ \A k \in Key : new'[i][k] = NoRow
<1>1. \A i \in Ingester : draft[i] = NoRow /\ \A k \in Key : new[i][k] = NoRow
  BY DEF Quiet, InFlight
<1>2. \A i \in Ingester : draft'[i] = draft[i]
  BY <1>1 DEF Request, SetMode, Add, Verify, Remove, polls
<1> QED
  BY <1>1, <1>2, RequestKeepsNew

\* A request with something in flight is recorded, except a verification, which
\* touches neither rows nor the setting.
LEMMA RequestCrosses ==
  ASSUME Request, ~crossed'
  PROVE  ~crossed /\ (Quiet \/ UNCHANGED <<mode, stored, draft, new>>)
<1>1. Cross => ~crossed /\ Quiet
  BY Zenon DEF Cross
<1>2. ASSUME NEW d \in Name, Verify(d)
      PROVE  crossed' = crossed /\ UNCHANGED <<mode, stored, draft, new>>
  BY <1>2 DEF Verify, polls
<1>3. Cross \/ \E d \in Name : Verify(d)
  BY DEF Request, SetMode, Add, Remove
<1> QED
  BY <1>1, <1>2, <1>3

LEMMA VerdictInvariant == Spec => []VerdictInv
<1>1. Init => VerdictInv
  <2> SUFFICES ASSUME Init
               PROVE  JudgedInv
    BY DEF VerdictInv
  <2>1. \A k \in Key : stored[k] # NoRow => stored[k].facts = Unchecked /\ stored[k].verdict = "unchecked"
    BY DEF Init
  <2>2. Decide(mode, Unchecked) = "unchecked"
    BY DEF Decide, Unchecked
  <2>3. \A k \in Key : stored[k] # NoRow => Judged(stored[k], mode)
    BY <2>1, <2>2 DEF Judged
  <2> QED
    BY <2>3 DEF Init, JudgedInv, NoRows
<1>2. TypeOK /\ VerdictInv /\ [Next]_vars => VerdictInv'
  <2> SUFFICES ASSUME TypeOK, VerdictInv, [Next]_vars, ~crossed'
               PROVE  JudgedInv'
    BY DEF VerdictInv
  <2>1. CASE Request
    <3>1. JudgedInv /\ (Quiet \/ UNCHANGED <<mode, stored, draft, new>>)
      BY <2>1, RequestCrosses DEF VerdictInv
    <3>2. CASE Quiet
      <4>1. \A k \in Key : stored'[k] # NoRow => Judged(stored'[k], mode')
        BY <2>1, <3>1, RequestRows DEF JudgedInv, Judged
      <4> QED
        BY <2>1, <3>2, <4>1, RequestWhenQuiet DEF JudgedInv
    <3>3. CASE UNCHANGED <<mode, stored, draft, new>>
      BY <3>1, <3>3 DEF JudgedInv
    <3> QED
      BY <3>1, <3>2, <3>3
  <2>2. ASSUME NEW i \in Ingester, Ingest(i)
        PROVE  JudgedInv'
    <3>1. ~crossed
      BY <2>2 DEF Ingest, Start, Insert, StoreFails, Commit, Abort
    <3> QED
      BY <2>2, <3>1, IngestKeepsVerdicts DEF VerdictInv
  <2>3. CASE UNCHANGED vars
    BY <2>3 DEF vars, VerdictInv, JudgedInv
  <2> QED
    BY <2>1, <2>2, <2>3 DEF Next
<1> QED
  BY <1>1, <1>2, TypeCorrect, PTL DEF Spec

\* What counts is what the setting says, for reports received before and after it
\* was changed, if no poll had rows in flight at a change.
THEOREM VerdictsSettle == Spec => []SettledVerdicts
<1>1. VerdictInv => SettledVerdicts
  BY DEF VerdictInv, JudgedInv, SettledVerdicts, VerdictFollowsSetting, Judged
<1> QED
  BY <1>1, VerdictInvariant, PTL

\* Types, records and verdicts in one invariant.
THEOREM VerdictsAlwaysHold == Spec => []VerdictsHold
<1>1. TypeOK /\ RecordsFollowReport /\ SettledVerdicts => VerdictsHold
  BY DEF VerdictsHold
<1> QED
  BY <1>1, TypeCorrect, RecordsAlwaysFollow, VerdictsSettle, PTL

-----------------------------------------------------------------------------
(***************************************************************************)
(* Attribution: rows that are always shown, rows in flight and drafts are  *)
(* where the registered names put them.                                    *)
(***************************************************************************)

\* A report for name n may be at d when the names of R are registered.
Claims(n, R, d) == IF d = NoDomain THEN Matches(n, R, NoDomain) ELSE d \in R /\ n \in Below(d)

\* A row of key k and its records.
Settled(r, k, R) ==
  /\ \A n \in Froms[k] : Matches(n, R, r.at[n])
  /\ Claims(Published[k], R, r.domain)

PlacedInv ==
  /\ \A k \in Key : stored[k] # NoRow /\ AlwaysShown(stored[k]) => Settled(stored[k], k, Registered)
  /\ \A i \in Ingester, k \in Key : new[i][k] # NoRow => Settled(new[i][k], k, Registered)
  /\ \A i \in Ingester : draft[i] # NoRow => Claims(Published[draft[i].key], Registered, draft[i].domain)

\* What is shown is shown by its records too.
LEMMA AlwaysShows ==
  ASSUME TypeOK, RecordInv, JudgedInv, NEW k \in Key, stored[k] # NoRow, AlwaysShown(stored[k])
  PROVE  stored[k].verdict # "left out" /\ stored[k].recVerdict # "left out"
BY DEF TypeOK, RecordInv, Uniform, JudgedInv, Judged, AlwaysShown

\* What match_domain answers is a claim.
LEMMA MatchClaims ==
  ASSUME NEW n \in Name, NEW R \in SUBSET Name
  PROVE  Claims(n, R, Match(n, R))
<1>1. Matches(n, R, Match(n, R)) /\ Match(n, R) \in Link
  BY MatchType
<1>2. CASE Match(n, R) = NoDomain
  BY <1>1, <1>2 DEF Claims
<1>3. CASE Match(n, R) # NoDomain
  BY <1>1, <1>3 DEF Claims, Matches, Below
<1> QED
  BY <1>2, <1>3

\* A name that is not on the walk makes no difference.
LEMMA MatchElsewhere ==
  ASSUME NEW n \in Name, NEW R \in SUBSET Name, NEW d \in Name, n \notin Below(d), NEW x,
         Matches(n, R, x), NEW S, S = R \cup {d} \/ S = R \ {d}
  PROVE  Matches(n, S, x) /\ x # d
<1>1. \A i \in DOMAIN Lineage[n] : Lineage[n][i] # d
  BY DEF Below
<1>2. d # NoDomain
  BY StoreAssumption
<1>3. \A i \in DOMAIN Lineage[n] : Lineage[n][i] \in S <=> Lineage[n][i] \in R
  BY <1>1
<1>4. \A e : (\E i \in DOMAIN Lineage[n] : Lineage[n][i] = e) => (e \in S <=> e \in R)
  BY <1>3
<1> HIDE DEF Below
<1>5. Matches(n, S, x)
  BY <1>3, <1>4 DEF Matches
<1> QED
  BY <1>1, <1>2, <1>5 DEF Matches

\* Where a shown row goes when names are registered anew.
Swept(r, row, R, d, k) ==
  /\ \A n \in Name : n \in Froms[k] => r.at[n] = IF n \in Below(d) THEN Match(n, R) ELSE row.at[n]
  /\ r.domain = IF row.domain = NoDomain THEN Match(Published[k], R) ELSE row.domain

LEMMA SweptAt ==
  ASSUME NEW T \in [Key -> Row \cup {NoRow}], NEW R \in SUBSET Name, NEW d \in Name, NEW k \in Key,
         T[k] # NoRow, T[k].verdict # "left out", T[k].recVerdict # "left out"
  PROVE  Swept(Attributed(T, R, d)[k], T[k], R, d, k)
<1> DEFINE link == SweptReport(T, R, k)
           links == [n \in Name |-> SweptRecord(T, R, d, k, n)]
<1>1. T[k] \in Row /\ ShowsReport(T, k) /\ \A n \in Froms[k] : ShowsRecord(T, n)
  BY DEF ShowsReport, ShowsRecord
<1>2. link = IF T[k].domain = NoDomain THEN Match(Published[k], R) ELSE T[k].domain
  BY <1>1 DEF SweptReport
<1>3. \A n \in Name : n \in Froms[k] => links[n] = IF n \in Below(d) THEN Match(n, R) ELSE T[k].at[n]
  BY <1>1 DEF SweptRecord
<1>4. Attributed(T, R, d)[k] = [T[k] EXCEPT !.domain = link, !.at = links]
  BY DEF Attributed
<1> HIDE DEF link, links
<1>5. Attributed(T, R, d)[k].domain = link /\ Attributed(T, R, d)[k].at = links
  BY <1>1, <1>4 DEF Row
<1> QED
  BY <1>2, <1>3, <1>5 DEF Swept

LEMMA AddSettles ==
  ASSUME TypeOK, NEW d \in Name, NEW k \in Key,
         stored[k] # NoRow, Settled(stored[k], k, Registered),
         stored[k].verdict # "left out", stored[k].recVerdict # "left out"
  PROVE  Settled(Attributed(stored, Registered \cup {d}, d)[k], k, Registered \cup {d})
<1>0. PICK R : R = Registered \cup {d}
  OBVIOUS
<1> DEFINE r == Attributed(stored, R, d)[k]
<1>1. stored \in [Key -> Row \cup {NoRow}] /\ R \in SUBSET Name /\ Registered \in SUBSET Name
      /\ Froms[k] \in SUBSET Name /\ Published[k] \in Name
  BY <1>0, StoreAssumption DEF TypeOK, Registered
<1>2. Swept(r, stored[k], R, d, k)
  BY <1>1, SweptAt
<1> HIDE DEF r
<1>3. ASSUME NEW n \in Froms[k] PROVE Matches(n, R, r.at[n])
  <2>1. n \in Name /\ Matches(n, Registered, stored[k].at[n])
    BY <1>1 DEF Settled
  <2>2. CASE n \in Below(d)
    BY <1>2, <2>1, <2>2, MatchType DEF Swept
  <2>3. CASE n \notin Below(d)
    <3>1. Matches(n, R, stored[k].at[n])
      BY <1>0, <1>1, <2>1, <2>3, MatchElsewhere
    <3> QED
      BY <1>2, <2>1, <2>3, <3>1 DEF Swept
  <2> QED
    BY <2>2, <2>3
<1>4. Claims(Published[k], R, r.domain)
  <2>1. Claims(Published[k], Registered, stored[k].domain)
    BY DEF Settled
  <2>2. CASE stored[k].domain = NoDomain
    BY <1>1, <1>2, <2>2, MatchClaims DEF Swept
  <2>3. CASE stored[k].domain # NoDomain
    BY <1>0, <1>2, <2>1, <2>3 DEF Claims, Swept
  <2> QED
    BY <2>2, <2>3
<1> QED
  BY <1>0, <1>3, <1>4 DEF Settled, r

LEMMA UnlinkedLinks ==
  ASSUME TypeOK, NEW d \in Name, NEW k \in Key, stored[k] # NoRow
  PROVE  /\ Unlinked(d)[k].domain = Unlink(stored[k].domain, d)
         /\ \A n \in Name : Unlinked(d)[k].at[n] = Unlink(stored[k].at[n], d)
<1> DEFINE link == Unlink(stored[k].domain, d)
           links == [n \in Name |-> Unlink(stored[k].at[n], d)]
<1>1. stored[k] \in Row
  BY DEF TypeOK
<1>2. Unlinked(d)[k] = [stored[k] EXCEPT !.domain = link, !.at = links]
  BY DEF Unlinked
<1>3. \A n \in Name : links[n] = Unlink(stored[k].at[n], d)
  OBVIOUS
<1> HIDE DEF link, links
<1>4. Unlinked(d)[k].domain = link /\ Unlinked(d)[k].at = links
  BY <1>1, <1>2 DEF Row
<1> QED
  BY <1>3, <1>4 DEF link

LEMMA RemoveSettles ==
  ASSUME TypeOK, NEW d \in Name, NEW k \in Key, stored[k] # NoRow, Unlinked(d)[k] # NoRow,
         Settled(stored[k], k, Registered),
         stored[k].verdict # "left out", stored[k].recVerdict # "left out"
  PROVE  Settled(Attributed(Unlinked(d), Registered \ {d}, d)[k], k, Registered \ {d})
<1>0. PICK R, T : R = Registered \ {d} /\ T = Unlinked(d)
  OBVIOUS
<1> DEFINE r == Attributed(T, R, d)[k]
<1>1. R \in SUBSET Name /\ Registered \in SUBSET Name /\ Froms[k] \in SUBSET Name /\ Published[k] \in Name
  BY <1>0, StoreAssumption DEF Registered
<1>2. /\ T \in [Key -> Row \cup {NoRow}] /\ T[k] # NoRow
      /\ T[k].verdict # "left out" /\ T[k].recVerdict # "left out"
      /\ T[k].domain = Unlink(stored[k].domain, d)
      /\ \A n \in Name : T[k].at[n] = Unlink(stored[k].at[n], d)
  BY <1>0, UnlinkedRow, UnlinkedLinks
<1>3. Swept(r, T[k], R, d, k)
  BY <1>1, <1>2, SweptAt
<1> HIDE DEF r
<1>4. ASSUME NEW n \in Froms[k] PROVE Matches(n, R, r.at[n])
  <2>1. n \in Name /\ Matches(n, Registered, stored[k].at[n])
    BY <1>1 DEF Settled
  <2>2. CASE n \in Below(d)
    BY <1>3, <2>1, <2>2, MatchType DEF Swept
  <2>3. CASE n \notin Below(d)
    <3>1. Matches(n, R, stored[k].at[n]) /\ stored[k].at[n] # d
      <4>1. PICK x : x = stored[k].at[n] /\ Matches(n, Registered, x)
        BY <2>1
      <4>2. R = Registered \cup {d} \/ R = Registered \ {d}
        BY <1>0
      <4>3. Matches(n, R, x) /\ x # d
        BY <1>1, <2>1, <2>3, <4>1, <4>2, MatchElsewhere
      <4> QED
        BY <4>1, <4>3
    <3> QED
      BY <1>2, <1>3, <2>1, <2>3, <3>1 DEF Unlink, Swept
  <2> QED
    BY <2>2, <2>3
<1>5. Claims(Published[k], R, r.domain)
  <2>1. Claims(Published[k], Registered, stored[k].domain)
    BY DEF Settled
  <2>2. CASE T[k].domain = NoDomain
    BY <1>1, <1>3, <2>2, MatchClaims DEF Swept
  <2>3. CASE T[k].domain # NoDomain
    BY <1>0, <1>2, <1>3, <2>1, <2>3 DEF Claims, Unlink, Swept
  <2> QED
    BY <2>2, <2>3
<1> QED
  BY <1>0, <1>4, <1>5 DEF Settled, r

LEMMA IngestSettles ==
  ASSUME TypeOK, PlacedInv, NEW i \in Ingester, Ingest(i)
  PROVE  PlacedInv'
<1>0. Registered \in SUBSET Name /\ Registered' = Registered
  BY DEF Registered, Ingest, Start, Insert, StoreFails, Commit, Abort, store
<1>1. ASSUME NEW k \in Key, NEW f \in Facts, Start(i, k, f) PROVE PlacedInv'
  <2>1. PICK b : /\ b.key = k /\ b.domain = Match(Published[k], Registered)
                 /\ draft' = [draft EXCEPT ![i] = b]
    BY <1>1 DEF Start
  <2>2. Claims(Published[b.key], Registered, b.domain)
    BY <1>0, <2>1, MatchClaims, StoreTypes
  <2>3. \A j \in Ingester : draft'[j] = draft[j] \/ draft'[j] = b
    BY <2>1 DEF TypeOK
  <2>4. UNCHANGED <<stored, new>>
    BY <1>1 DEF Start, store
  <2> QED
    BY <1>0, <2>2, <2>3, <2>4 DEF PlacedInv
<1>2. CASE Insert(i)
  <2>0. PICK k \in Key : k = draft[i].key
    BY <1>2, DraftFields DEF Insert
  <2>1. PICK out : k = draft[i].key /\ out = Outcome(i, k)
    BY <2>0
  <2>2. out # NoRow => Settled(out, k, Registered)
    <3>1. CASE Fits(i)
      <4>1. out = Inserted(i)
        BY <2>1, <3>1 DEF Outcome
      <4>2. /\ out.domain = draft[i].domain
            /\ out.at = [n \in Name |-> IF n \in Froms[k] THEN Match(n, Registered) ELSE NoDomain]
        BY <2>1, <4>1 DEF Inserted
      <4>3. \A n \in Froms[k] : n \in Name /\ out.at[n] = Match(n, Registered)
        BY <4>2, StoreAssumption
      <4>4. Claims(Published[k], Registered, out.domain)
        BY <1>2, <2>1, <4>2 DEF Insert, PlacedInv
      <4> QED
        BY <4>3, <4>4, MatchType DEF Settled
    <3>2. CASE ~Fits(i)
      BY <2>1, <3>2 DEF Outcome, PlacedInv
    <3> QED
      BY <3>1, <3>2
  <2>3. new' = [new EXCEPT ![i][k] = out] /\ UNCHANGED stored
    BY <1>2, <2>1 DEF Insert, store
  <2>4. \A j \in Ingester, n \in Key : new'[j][n] = new[j][n] \/ (n = k /\ new'[j][n] = out)
    BY <2>3 DEF TypeOK
  <2>5. \A j \in Ingester : draft'[j] = draft[j] \/ draft'[j] = NoRow
    BY <1>2 DEF Insert, TypeOK
  <2> QED
    BY <1>0, <2>2, <2>3, <2>4, <2>5 DEF PlacedInv
<1>3. CASE StoreFails(i)
  BY <1>0, <1>3 DEF StoreFails, PlacedInv, TypeOK, store
<1>4. CASE Commit(i)
  <2>1. \A k \in Key : stored'[k] = Seen(i, k)
    BY <1>4 DEF Commit
  <2>2. \A k \in Key : stored'[k] # NoRow /\ AlwaysShown(stored'[k]) => Settled(stored'[k], k, Registered)
    BY <2>1, SeenIsEither DEF PlacedInv
  <2>3. \A j \in Ingester, k \in Key : new'[j][k] = new[j][k] \/ new'[j][k] = NoRow
    BY <1>4 DEF Commit, NoRows, TypeOK
  <2> QED
    BY <1>0, <1>4, <2>2, <2>3 DEF PlacedInv, Commit, AlwaysShown
<1>5. CASE Abort(i)
  BY <1>0, <1>5 DEF Abort, PlacedInv, TypeOK, NoRows, store
<1> QED
  BY <1>1, <1>2, <1>3, <1>4, <1>5 DEF Ingest

LEMMA RequestSettles ==
  ASSUME TypeOK, RecordInv, JudgedInv, PlacedInv, Request, ~crossed'
  PROVE  PlacedInv'
<1>1. ASSUME NEW d \in Name, Verify(d) PROVE PlacedInv'
  <2>1. Registered' = Registered
    BY <1>1 DEF Verify, Registered, TypeOK
  <2>2. UNCHANGED <<stored, new, draft>>
    BY <1>1 DEF Verify, polls
  <2> QED
    BY <2>1, <2>2 DEF PlacedInv
\* The others find nothing in flight.
<1>2. ASSUME Cross, \A k \in Key : stored'[k] # NoRow /\ AlwaysShown(stored'[k])
                                      => Settled(stored'[k], k, Registered')
      PROVE  PlacedInv'
  <2>1. Quiet
    BY <1>2, Zenon DEF Cross
  <2>2. \A i \in Ingester : draft'[i] = NoRow /\ \A k \in Key : new'[i][k] = NoRow
    BY <2>1, RequestWhenQuiet
  <2> QED
    BY <1>2, <2>2 DEF PlacedInv
<1>3. ASSUME NEW m \in Mode, SetMode(m) PROVE PlacedInv'
  <2>1. Registered' = Registered
    BY <1>3 DEF SetMode, Registered
  <2>2. ASSUME NEW k \in Key, stored'[k] # NoRow, AlwaysShown(stored'[k])
        PROVE  Settled(stored'[k], k, Registered')
    <3>1. stored[k] # NoRow /\ stored'[k] = Rejudged(stored[k], m) /\ stored[k] \in Row
      BY <1>3, <2>2 DEF SetMode, TypeOK
    <3>2. /\ stored'[k].facts = stored[k].facts /\ stored'[k].domain = stored[k].domain
          /\ stored'[k].at = stored[k].at
      BY <3>1 DEF Rejudged, Row
    <3>3. AlwaysShown(stored[k])
      BY <2>2, <3>2 DEF AlwaysShown
    <3> QED
      BY <2>1, <3>1, <3>2, <3>3 DEF PlacedInv, Settled
  <2> QED
    BY <1>2, <1>3, <2>2 DEF SetMode
<1>4. ASSUME NEW d \in Name, NEW s \in {"pending", "verified"}, Add(d, s) PROVE PlacedInv'
  <2>1. Registered' = Registered \cup {d}
    BY <1>4 DEF Add, Registered, TypeOK
  <2>2. ASSUME NEW k \in Key, stored'[k] # NoRow, AlwaysShown(stored'[k])
        PROVE  Settled(stored'[k], k, Registered')
    <3>1. stored' = Attributed(stored, Registered \cup {d}, d)
      BY <1>4 DEF Add
    <3>2. stored[k] # NoRow /\ stored'[k].facts = stored[k].facts
      BY <2>2, <3>1, AttributedType, AttributedRow DEF TypeOK
    <3>3. AlwaysShown(stored[k])
      BY <2>2, <3>2 DEF AlwaysShown
    <3> QED
      BY <2>1, <3>1, <3>2, <3>3, AlwaysShows, AddSettles DEF PlacedInv
  <2> QED
    BY <1>2, <1>4, <2>2 DEF Add
<1>5. ASSUME NEW d \in Name, Remove(d) PROVE PlacedInv'
  <2>1. Registered' = Registered \ {d}
    BY <1>5 DEF Remove, Registered, TypeOK
  <2>2. ASSUME NEW k \in Key, stored'[k] # NoRow, AlwaysShown(stored'[k])
        PROVE  Settled(stored'[k], k, Registered')
    <3>1. stored' = Attributed(Unlinked(d), Registered \ {d}, d)
      BY <1>5 DEF Remove
    <3>2. Unlinked(d) \in [Key -> Row \cup {NoRow}]
      BY UnlinkedRow
    <3>3. Unlinked(d)[k] # NoRow /\ stored'[k].facts = Unlinked(d)[k].facts
      BY <2>2, <3>1, <3>2, AttributedType, AttributedRow
    <3>4. stored[k] # NoRow /\ Unlinked(d)[k].facts = stored[k].facts
      BY <3>3, UnlinkedRow
    <3>5. AlwaysShown(stored[k])
      BY <2>2, <3>3, <3>4 DEF AlwaysShown
    <3> QED
      BY <2>1, <3>1, <3>3, <3>4, <3>5, AlwaysShows, RemoveSettles DEF PlacedInv
  <2> QED
    BY <1>2, <1>5, <2>2 DEF Remove
<1> QED
  BY <1>1, <1>3, <1>4, <1>5 DEF Request

LEMMA CrossedStays == ASSUME [Next]_vars, ~crossed' PROVE ~crossed
BY DEF Next, Request, SetMode, Verify, Add, Remove, Cross, Ingest, Start, Insert, StoreFails, Commit,
       Abort, vars

PlacedSoFar == crossed \/ PlacedInv

LEMMA PlacedInvariant == Spec => []PlacedSoFar
<1>1. Init => PlacedSoFar
  <2> SUFFICES ASSUME Init PROVE PlacedInv
    BY DEF PlacedSoFar
  <2>1. Registered = {} /\ NoDomain \notin Registered
    BY DEF Init, Registered
  <2>2. \A k \in Key : stored[k] # NoRow =>
          stored[k].domain = NoDomain /\ stored[k].at = [n \in Name |-> NoDomain]
    BY DEF Init
  <2>3. \A n : Matches(n, Registered, NoDomain)
    BY <2>1 DEF Matches
  <2>4. \A k \in Key : Froms[k] \in SUBSET Name
    BY StoreAssumption
  <2>5. \A k \in Key : stored[k] # NoRow => Settled(stored[k], k, Registered)
    BY <2>2, <2>3, <2>4 DEF Settled, Claims
  <2> QED
    BY <2>5 DEF Init, PlacedInv, NoRows
<1>2. TypeOK /\ RecordInv /\ VerdictInv /\ PlacedSoFar /\ [Next]_vars => PlacedSoFar'
  <2> SUFFICES ASSUME TypeOK, RecordInv, VerdictInv, PlacedSoFar, [Next]_vars, ~crossed'
               PROVE  PlacedInv'
    BY DEF PlacedSoFar
  <2>1. PlacedInv /\ JudgedInv
    BY CrossedStays DEF PlacedSoFar, VerdictInv
  <2>2. CASE UNCHANGED vars
    BY <2>1, <2>2 DEF vars, PlacedInv, Registered
  <2> QED
    BY <2>1, <2>2, IngestSettles, RequestSettles DEF Next
<1> QED
  BY <1>1, <1>2, TypeCorrect, RecordInvariant, VerdictInvariant, PTL DEF Spec

\* Whatever names come and go, the records of every report that is always shown
\* are at the closest registered name, and the report waits for none that is
\* there (domain_matcher.py, domain_setup.attribute_reports).
THEOREM AttributionAlwaysHolds == Spec => []AttributionHolds
<1>1. PlacedSoFar => AttributionHolds
  BY DEF PlacedSoFar, PlacedInv, Settled, Claims, AttributionHolds, RecordsAtClosest,
         WaitingReportsAreClaimed
<1> QED
  BY <1>1, PlacedInvariant, PTL

-----------------------------------------------------------------------------
(***************************************************************************)
(* Nothing is lost.  While nobody crosses, one poll at a time has work on  *)
(* a key, what it decided about the copy in its way still holds, and it    *)
(* takes away left-out rows only.                                          *)
(***************************************************************************)

Works(i, k) == Stores(i, k) \/ Locks(i, k)

\* A draft goes over a left-out row, or beside one that need not go.
Decided(i) ==
  LET s == Seen(i, draft[i].key)
  IN  /\ draft[i].clears => s # NoRow /\ s.verdict = "left out"
      /\ ~draft[i].clears /\ draft[i].verdict = "counted" => s = NoRow \/ s.verdict # "left out"

Weak(k) == stored[k] = NoRow \/ stored[k].verdict = "left out"

WorkInv ==
  /\ \A i, j \in Ingester, k \in Key : Works(i, k) /\ Works(j, k) => i = j
  /\ \A i \in Ingester : draft[i] # NoRow => Decided(i)
  /\ \A i \in Ingester, k \in Key : k \in cleared[i] => Weak(k)
  /\ \A i \in Ingester, k \in Key : new[i][k] # NoRow => stored[k] = NoRow \/ k \in cleared[i]

\* A poll that a step leaves alone, and the rows of its draft with it.
LEMMA DecidedStays ==
  ASSUME NEW j \in Ingester, draft[j] # NoRow, Decided(j), draft'[j] = draft[j], new'[j] = new[j],
         cleared'[j] = cleared[j], stored'[draft[j].key] = stored[draft[j].key]
  PROVE  Decided(j)'
BY DEF Decided, Seen

\* A step that leaves the rows and the drafts.
LEMMA SameWorks ==
  ASSUME WorkInv, UNCHANGED <<stored, draft, new, cleared>>
  PROVE  WorkInv'
<1>1. stored' = stored /\ draft' = draft /\ new' = new /\ cleared' = cleared
  OBVIOUS
<1>2. \A j \in Ingester, n \in Key : Works(j, n)' => Works(j, n)
  BY <1>1 DEF Works, Stores, Locks, Clears
<1>3. \A j \in Ingester : draft'[j] # NoRow => Decided(j)'
  BY <1>1, DecidedStays DEF WorkInv
<1>4. \A n \in Key : Weak(n) => Weak(n)'
  BY <1>1 DEF Weak
<1> QED
  BY <1>1, <1>2, <1>3, <1>4 DEF WorkInv

LEMMA StartWorks ==
  ASSUME TypeOK, WorkInv, NEW i \in Ingester, NEW k \in Key, NEW f \in Facts, Start(i, k, f), ~crossed'
  PROVE  WorkInv'
<1>1. PICK b : /\ b.key = k /\ b.verdict = Decide(mode, f) /\ b.clears = Replaces(i, k, b.verdict)
               /\ draft' = [draft EXCEPT ![i] = b]
  BY DEF Start
<1>2. UNCHANGED <<stored, new, cleared>>
  BY DEF Start, store
<1>3. draft'[i] = b /\ \A j \in Ingester \ {i} : draft'[j] = draft[j]
  BY <1>1 DEF TypeOK
<1>4. \A j \in Ingester \ {i} : ~Stores(j, k) /\ ~Locks(j, k)
  BY Zenon DEF Start
<1>5. \A j \in Ingester, n \in Key : Works(j, n)' => Works(j, n) \/ (j = i /\ n = k)
  BY <1>1, <1>2, <1>3 DEF Works, Stores, Locks, Clears
<1>6. \A j, l \in Ingester, n \in Key : Works(j, n)' /\ Works(l, n)' => j = l
  BY <1>4, <1>5 DEF WorkInv, Works
<1>7. Decided(i)'
  BY <1>1, <1>2, <1>3 DEF Decided, Seen, Replaces
<1>8. \A j \in Ingester : draft'[j] # NoRow => Decided(j)'
  BY <1>2, <1>3, <1>7, DecidedStays DEF WorkInv
<1> QED
  BY <1>2, <1>6, <1>8 DEF WorkInv, Weak

\* What the poll sees of the key after its insert.
LEMMA InsertLeaves ==
  ASSUME TypeOK, NEW i \in Ingester, Insert(i), NEW k, k = draft[i].key
  PROVE  /\ k \in Key /\ draft[i] # NoRow
         /\ new'[i][k] = Outcome(i, k)
         /\ \A n \in Key \ {k} : new'[i][n] = new[i][n]
         /\ cleared'[i] = IF draft[i].clears THEN cleared[i] \cup {k} ELSE cleared[i]
         /\ draft'[i] = NoRow
         /\ \A j \in Ingester \ {i} : new'[j] = new[j] /\ cleared'[j] = cleared[j] /\ draft'[j] = draft[j]
         /\ stored' = stored
<1>1. k \in Key /\ draft[i] # NoRow
  BY DraftFields DEF Insert
<1>2. /\ new' = [new EXCEPT ![i][k] = Outcome(i, k)]
      /\ cleared' = [cleared EXCEPT ![i] = IF draft[i].clears THEN cleared[i] \cup {k} ELSE cleared[i]]
      /\ draft' = [draft EXCEPT ![i] = NoRow]
      /\ stored' = stored
  BY DEF Insert, store
<1> QED
  BY <1>1, <1>2 DEF TypeOK

LEMMA InsertWorks ==
  ASSUME TypeOK, WorkInv, NEW i \in Ingester, Insert(i)
  PROVE  WorkInv'
<1>1. PICK k : k = draft[i].key
  OBVIOUS
<1>2. /\ k \in Key /\ draft[i] # NoRow /\ new'[i][k] = Outcome(i, k)
      /\ \A n \in Key \ {k} : new'[i][n] = new[i][n]
      /\ cleared'[i] = IF draft[i].clears THEN cleared[i] \cup {k} ELSE cleared[i]
      /\ draft'[i] = NoRow
      /\ \A j \in Ingester \ {i} : new'[j] = new[j] /\ cleared'[j] = cleared[j] /\ draft'[j] = draft[j]
      /\ stored' = stored
  BY <1>1, InsertLeaves
<1>3. Stores(i, k) /\ Decided(i)
  BY <1>1, <1>2 DEF Stores, WorkInv
<1>4. \A j \in Ingester, n \in Key : Works(j, n)' => Works(j, n)
  BY <1>2, <1>3 DEF Works, Stores, Locks, Clears
<1>5. \A j \in Ingester : draft'[j] # NoRow => Decided(j)'
  BY <1>2, DecidedStays DEF WorkInv
<1>6. draft[i].clears => Weak(k)
  BY <1>1, <1>2, <1>3 DEF Decided, Seen, WorkInv, Weak
<1>7. \A j \in Ingester, n \in Key : n \in cleared'[j] => Weak(n)'
  BY <1>2, <1>6 DEF WorkInv, Weak
<1>8. new'[i][k] # NoRow => stored[k] = NoRow \/ k \in cleared'[i]
  BY <1>1, <1>2 DEF Outcome, Fits, Seen, WorkInv
<1>9. \A j \in Ingester, n \in Key : new'[j][n] # NoRow => stored'[n] = NoRow \/ n \in cleared'[j]
  BY <1>2, <1>8 DEF WorkInv
<1> QED
  BY <1>4, <1>5, <1>7, <1>9 DEF WorkInv

LEMMA CommitWorks ==
  ASSUME TypeOK, WorkInv, NEW i \in Ingester, Commit(i)
  PROVE  WorkInv'
<1>1. /\ draft[i] = NoRow /\ draft' = draft
      /\ \A k \in Key : stored'[k] = Seen(i, k) /\ new'[i][k] = NoRow
      /\ cleared'[i] = {}
      /\ \A j \in Ingester \ {i} : new'[j] = new[j] /\ cleared'[j] = cleared[j]
  BY DEF Commit, NoRows, TypeOK
\* The rows another poll works on are not its own.
<1>2. ASSUME NEW j \in Ingester \ {i}, NEW k \in Key, Works(j, k) PROVE stored'[k] = stored[k]
  <2>1. ~Works(i, k)
    BY <1>2 DEF WorkInv
  <2> QED
    BY <1>1, <2>1 DEF Works, Locks, Clears, Seen
<1>3. \A j \in Ingester, n \in Key : Works(j, n)' => Works(j, n) /\ j # i
  BY <1>1 DEF Works, Stores, Locks, Clears
<1>4. ASSUME NEW j \in Ingester, draft'[j] # NoRow PROVE Decided(j)'
  <2>1. j # i /\ draft[j] # NoRow /\ draft[j].key \in Key /\ Works(j, draft[j].key)
    BY <1>1, <1>4, DraftFields DEF Works, Stores
  <2> QED
    BY <1>1, <1>2, <2>1, DecidedStays DEF WorkInv
<1>5. ASSUME NEW j \in Ingester, NEW k \in Key, k \in cleared'[j] PROVE Weak(k)'
  <2>1. j # i /\ k \in cleared[j] /\ Works(j, k)
    BY <1>1, <1>5 DEF Works, Locks, Clears
  <2> QED
    BY <1>2, <2>1 DEF WorkInv, Weak
<1>6. ASSUME NEW j \in Ingester, NEW k \in Key, new'[j][k] # NoRow
      PROVE  stored'[k] = NoRow \/ k \in cleared'[j]
  <2>1. j # i /\ new[j][k] # NoRow /\ Works(j, k)
    BY <1>1, <1>6 DEF Works, Locks
  <2> QED
    BY <1>1, <1>2, <2>1 DEF WorkInv
<1> QED
  BY <1>3, <1>4, <1>5, <1>6 DEF WorkInv

\* A poll drops its work.
LEMMA DropWorks ==
  ASSUME TypeOK, WorkInv, NEW i \in Ingester, StoreFails(i) \/ Abort(i)
  PROVE  WorkInv'
<1>1. /\ draft'[i] = NoRow /\ stored' = stored
      /\ \A j \in Ingester \ {i} : new'[j] = new[j] /\ cleared'[j] = cleared[j] /\ draft'[j] = draft[j]
      /\ \/ new'[i] = new[i] /\ cleared'[i] = cleared[i]
         \/ cleared'[i] = {} /\ \A k \in Key : new'[i][k] = NoRow
  BY DEF StoreFails, Abort, store, NoRows, TypeOK
<1>2. \A j \in Ingester, n \in Key : Works(j, n)' => Works(j, n)
  BY <1>1 DEF Works, Stores, Locks, Clears
<1>3. \A j \in Ingester : draft'[j] # NoRow => Decided(j)'
  BY <1>1, DecidedStays DEF WorkInv
<1> QED
  BY <1>1, <1>2, <1>3 DEF WorkInv, Weak

LEMMA RequestWorks ==
  ASSUME TypeOK, WorkInv, Request, ~crossed'
  PROVE  WorkInv'
<1>1. CASE Quiet
  <2>1. \A i \in Ingester : draft'[i] = NoRow /\ \A k \in Key : new'[i][k] = NoRow
    BY <1>1, RequestWhenQuiet
  <2>2. \A i \in Ingester : cleared'[i] = {}
    BY <1>1 DEF Quiet, InFlight, Request, SetMode, Add, Verify, Remove, polls
  <2> QED
    BY <2>1, <2>2 DEF WorkInv, Works, Stores, Locks, Clears
<1>2. CASE UNCHANGED <<mode, stored, draft, new>>
  <2>1. cleared' = cleared
    BY DEF Request, SetMode, Add, Verify, Remove, polls
  <2> QED
    BY <1>2, <2>1, SameWorks
<1> QED
  BY <1>1, <1>2, RequestCrosses

WorkSoFar == crossed \/ WorkInv

LEMMA WorkInvariant == Spec => []WorkSoFar
<1>1. Init => WorkSoFar
  BY DEF Init, WorkSoFar, WorkInv, Works, Stores, Locks, Clears, NoRows
<1>2. TypeOK /\ WorkSoFar /\ [Next]_vars => WorkSoFar'
  <2> SUFFICES ASSUME TypeOK, WorkSoFar, [Next]_vars, ~crossed'
               PROVE  WorkInv'
    BY DEF WorkSoFar
  <2>1. WorkInv
    BY CrossedStays DEF WorkSoFar
  <2>2. CASE UNCHANGED vars
    BY <2>1, <2>2, SameWorks DEF vars
  <2>3. ASSUME NEW i \in Ingester, Ingest(i) PROVE WorkInv'
    BY <2>1, <2>3, StartWorks, InsertWorks, CommitWorks, DropWorks DEF Ingest
  <2> QED
    BY <2>1, <2>2, <2>3, RequestWorks DEF Next
<1> QED
  BY <1>1, <1>2, TypeCorrect, PTL DEF Spec

LEMMA HandledStep ==
  ASSUME TypeOK, WorkInv, PlacedInv, NEW i \in Ingester, NEW k \in Key, Insert(i), Stores(i, k)
  PROVE  /\ Seen(i, k)' # NoRow
         /\ draft[i].verdict = "counted" => Seen(i, k)'.verdict # "left out"
<1>1. k = draft[i].key /\ draft[i] # NoRow
  BY DEF Stores
<1>2. /\ new'[i][k] = Outcome(i, k) /\ stored' = stored
      /\ cleared'[i] = IF draft[i].clears THEN cleared[i] \cup {k} ELSE cleared[i]
  BY <1>1, InsertLeaves
<1>3. draft[i].domain # Gone
  BY <1>1, StoreAssumption DEF PlacedInv, Claims, Registered
<1>4. CASE Fits(i)
  <2>1. Inserted(i) \in Row /\ Inserted(i).verdict = draft[i].verdict
    BY <1>1, <1>4, InsertedRow
  <2>2. new'[i][k] = Inserted(i) /\ Inserted(i) # NoRow
    BY <1>2, <1>4, <2>1, NoRowAssumption DEF Outcome
  <2> QED
    BY <2>1, <2>2 DEF Seen
<1>5. CASE ~Fits(i)
  <2>1. ~draft[i].clears /\ Seen(i, k) # NoRow
    BY <1>1, <1>3, <1>5 DEF Fits
  <2>2. Seen(i, k)' = Seen(i, k)
    BY <1>2, <1>5, <2>1 DEF Outcome, Seen
  <2> QED
    BY <1>1, <2>1, <2>2 DEF WorkInv, Decided
<1> QED
  BY <1>4, <1>5

LEMMA HistoryStep ==
  ASSUME TypeOK, WorkSoFar, [Next]_vars, NEW k \in Key, NEW d \in Name,
         ShowsReport(stored, k), stored[k].domain = d, domains[d] = "verified", ~crossed'
  PROVE  stored'[k].domain = d
<1>0. WorkInv /\ stored[k] \in Row /\ d # NoDomain
  BY CrossedStays, StoreAssumption DEF WorkSoFar, TypeOK, ShowsReport
<1>1. ASSUME NEW i \in Ingester, Ingest(i) PROVE stored'[k].domain = d
  <2>1. CASE Commit(i)
    <3>1. stored'[k] = Seen(i, k)
      BY <2>1 DEF Commit
    <3>2. k \notin cleared[i] /\ new[i][k] = NoRow
      BY <1>0 DEF WorkInv, Weak, ShowsReport
    <3> QED
      BY <3>1, <3>2 DEF Seen
  <2>2. CASE ~Commit(i)
    BY <1>1, <2>2 DEF Ingest, Start, Insert, StoreFails, Abort, store
  <2> QED
    BY <2>1, <2>2
<1>2. ASSUME NEW m \in Mode, SetMode(m) PROVE stored'[k].domain = d
  <2>1. stored'[k] = Rejudged(stored[k], m)
    BY <1>2 DEF SetMode, ShowsReport
  <2> QED
    BY <1>0, <2>1 DEF Rejudged, Row
<1>3. ASSUME NEW T \in [Key -> Row \cup {NoRow}], NEW R, NEW e \in Name, T[k] # NoRow, T[k].domain = d,
             stored' = Attributed(T, R, e)
      PROVE  stored'[k].domain = d
  <2> DEFINE link == SweptReport(T, R, k)
             links == [n \in Name |-> SweptRecord(T, R, e, k, n)]
  <2>1. link = d /\ T[k] \in Row
    BY <1>0, <1>3 DEF SweptReport
  <2>2. stored'[k] = [T[k] EXCEPT !.domain = link, !.at = links]
    BY <1>3 DEF Attributed
  <2> HIDE DEF link, links
  <2> QED
    BY <2>1, <2>2 DEF Row
<1>4. ASSUME NEW e \in Name, NEW s \in {"pending", "verified"}, Add(e, s) PROVE stored'[k].domain = d
  <2>1. stored' = Attributed(stored, Registered \cup {e}, e) /\ stored[k] # NoRow
    BY <1>4 DEF Add, ShowsReport
  <2> QED
    BY <1>3, <2>1 DEF TypeOK
<1>5. ASSUME NEW e \in Name, Remove(e) PROVE stored'[k].domain = d
  <2>1. e # d
    BY <1>5 DEF Remove, Removable
  <2>2. /\ Unlinked(e) \in [Key -> Row \cup {NoRow}]
        /\ Unlinked(e)[k].domain = d
    BY <2>1, UnlinkedRow, UnlinkedLinks DEF ShowsReport, Unlink
  <2>3. Unlinked(e)[k] # NoRow
    <3> DEFINE link == Unlink(stored[k].domain, e)
               links == [n \in Name |-> Unlink(stored[k].at[n], e)]
    <3>1. link \in Link /\ links \in [Name -> Link]
      BY <1>0 DEF Unlink, Row, Link
    <3>2. Unlinked(e)[k] = [stored[k] EXCEPT !.domain = link, !.at = links]
      BY DEF Unlinked, ShowsReport
    <3> HIDE DEF link, links
    <3>3. Unlinked(e)[k] \in Row
      BY <1>0, <3>1, <3>2 DEF Row
    <3> QED
      BY <3>3, NoRowAssumption
  <2> QED
    BY <1>3, <1>5, <2>2, <2>3 DEF Remove
<1>6. ASSUME (\E e \in Name : Verify(e)) \/ UNCHANGED vars PROVE stored' = stored
  BY <1>6 DEF Verify, vars
<1> QED
  BY <1>1, <1>2, <1>4, <1>5, <1>6 DEF Next, Request

\* While nobody crosses, a handled report is there in the end, counting if this
\* copy does (delete_unverified_aggregate_duplicate), and a verified domain keeps
\* the reports that show (delete_domain).
THEOREM NothingIsEverLost == Spec => NothingIsLost
<1>1. TypeOK /\ WorkSoFar /\ PlacedSoFar /\ [Next]_vars
        => \A i \in Ingester, k \in Key :
             Insert(i) /\ Stores(i, k) /\ ~crossed =>
               /\ Seen(i, k)' # NoRow
               /\ draft[i].verdict = "counted" => Seen(i, k)'.verdict # "left out"
  BY HandledStep DEF WorkSoFar, PlacedSoFar
<1>2. TypeOK /\ WorkSoFar /\ [Next]_vars
        => \A k \in Key, d \in Name :
             ShowsReport(stored, k) /\ stored[k].domain = d /\ domains[d] = "verified" /\ ~crossed'
               => stored'[k].domain = d
  BY HistoryStep
<1>3. Spec => HandledIsKept
  BY <1>1, TypeCorrect, WorkInvariant, PlacedInvariant, PTL DEF Spec, HandledIsKept
<1>4. Spec => HistoryStays
  BY <1>2, TypeCorrect, WorkInvariant, PTL DEF Spec, HistoryStays
<1> QED
  BY <1>3, <1>4 DEF NothingIsLost
=============================================================================
