------------------------- MODULE DomainFamilyProofs -------------------------
(***************************************************************************)
(* What holds of DomainFamily for any names, any number of sessions and    *)
(* however their transactions overlap: the types, that a domain is         *)
(* verified only after a proof of control for it or above it, and that a   *)
(* row keeps its verification; and, of transactions that come one at a     *)
(* time, that families stay in order.                                      *)
(***************************************************************************)
EXTENDS MCDomainFamily, TLAPS

Transactions == {Idle} \union Inserts \union Deletes \union Checks

Proved(n) == \E ref \in published : ref[1] = n \/ IsUnder(n, ref[1])

(* A row that is there has been added once at least. *)
Numbered == \A n \in Alive : rows[n].gen \in 1 .. MaxGen

(* Every family is one by name. *)
ParentsAbove ==
    \A n \in Alive : rows[n].parent # None => IsUnder(n, rows[n].parent)

(* What a transaction under way may rely on: it puts domains under a root
   they fall under, trusts a proved one only, and found proofs only.       *)
Sound(t) ==
    /\ t.op = "insert" =>
         /\ \A n \in t.subs : IsUnder(n, t.root)
         /\ \A ref \in t.moves : IsUnder(ref[1], t.root)
         /\ t.trusted => Proved(t.root)
    /\ t.op = "check" =>
         /\ t.ok \subseteq published
         /\ \A ref \in t.kids : Proved(ref[1])

VerifiedProved == \A n \in Alive : rows[n].verified => Proved(n)

ControlInv ==
    /\ TypeOK
    /\ Numbered
    /\ ParentsAbove
    /\ VerifiedProved
    /\ \A s \in Sessions : Sound(req[s])

----------------------------------------------------------------------------
LEMMA Shapes ==
    ASSUME NEW t \in Transactions
    PROVE  /\ t.op = "insert" => t \in Inserts
           /\ t.op = "delete" => t \in Deletes
           /\ t.op = "check" => t \in Checks
BY DEF Transactions, Idle, Inserts, Deletes, Checks

LEMMA IdleSound == Idle \in Transactions /\ Sound(Idle)
BY DEF Idle, Transactions, Sound

(* The refs read are refs of the rows of this model. *)
LEMMA RefType ==
    ASSUME TypeOK, Numbered, NEW n \in Alive
    PROVE  Ref(n) \in Refs /\ n \in Names
BY DEF TypeOK, Alive, Rows, Ref, Refs, Numbered

(* A proof above a name's parent is one above the name. *)
LEMMA ProvedBelow ==
    ASSUME TypeOK, NEW n \in Names, NEW root \in Names, IsUnder(n, root), Proved(root)
    PROVE  Proved(n)
<1>1. PICK ref \in published : ref[1] = root \/ IsUnder(root, ref[1])
  BY DEF Proved
<1>2. ref[1] \in Names
  BY <1>1 DEF TypeOK, Refs
<1>3. IsUnder(n, ref[1])
  BY <1>1, <1>2, NamesAssumption DEF IsUnder
<1> QED
  BY <1>3 DEF Proved

(* Replacing one transaction by a sound one, the rows as they were. *)
LEMMA ReplaceStep ==
    ASSUME ControlInv, NEW s \in Sessions, NEW t \in Transactions, Sound(t),
           req' = [req EXCEPT ![s] = t], UNCHANGED <<rows, published>>
    PROVE  ControlInv'
<1>1. TypeOK'
  BY DEF ControlInv, TypeOK, Transactions
<1>2. Numbered' /\ ParentsAbove' /\ VerifiedProved'
  BY DEF ControlInv, Numbered, ParentsAbove, VerifiedProved, Alive, Proved
<1>3. ASSUME NEW r \in Sessions PROVE Sound(req[r])'
  <2>1. CASE r = s
    BY <2>1 DEF ControlInv, TypeOK, Sound, Proved
  <2>2. CASE r # s
    <3>1. req'[r] = req[r] /\ Sound(req[r])
      BY <2>2 DEF ControlInv, TypeOK
    <3> QED
      BY <3>1 DEF Sound, Proved
  <2> QED
    BY <2>1, <2>2
<1> QED
  BY <1>1, <1>2, <1>3 DEF ControlInv

(* A transaction that ends, the rows being as they must be. *)
LEMMA EndStep ==
    ASSUME ControlInv, NEW s \in Sessions, End(s), UNCHANGED published,
           rows' \in [Names -> Rows], Numbered', ParentsAbove', VerifiedProved'
    PROVE  ControlInv'
<1>1. TypeOK'
  BY DEF ControlInv, TypeOK, End
<1>2. ASSUME NEW r \in Sessions PROVE Sound(req[r])'
  <2>1. req'[r] = Idle \/ req'[r] = req[r]
    BY DEF End, ControlInv, TypeOK
  <2>2. Sound(req[r])
    BY DEF ControlInv
  <2> QED
    BY <2>1, <2>2, IdleSound DEF Sound, Proved
<1> QED
  BY <1>1, <1>2 DEF ControlInv

----------------------------------------------------------------------------
(* A transaction that reads its root and the rows to move is sound. *)
LEMMA FamilyStep ==
    ASSUME ControlInv, NEW s \in Sessions, NEW root \in Names \union {None},
           NEW tops \in SUBSET Names, NEW subs \in SUBSET Names,
           NEW moves \in SUBSET Alive,
           \A n \in subs \union moves : IsUnder(n, root),
           req' = [req EXCEPT ![s] = Family(root, tops, subs, moves)],
           UNCHANGED <<rows, published>>
    PROVE  ControlInv'
<1> DEFINE t == Family(root, tops, subs, moves)
<1>1. \A n \in moves : Ref(n) \in Refs
  BY RefType DEF ControlInv
<1>2. (IF root = None THEN 0 ELSE rows[root].gen) \in 0 .. MaxGen
  BY NamesAssumption DEF ControlInv, TypeOK, Rows
<1>3. t \in Inserts
  BY <1>1, <1>2 DEF Family, Inserts
<1>4. /\ t.op = "insert" /\ t.subs = subs /\ t.root = root
      /\ \A ref \in t.moves : ref[1] \in moves
      /\ t.trusted => root \in Alive /\ rows[root].verified
  <2>1. t.moves = {Ref(n) : n \in moves}
    BY DEF Family
  <2>2. t.trusted => root \in Alive /\ rows[root].verified
    BY Zenon DEF Family
  <2>3. t.op = "insert" /\ t.subs = subs /\ t.root = root
    BY DEF Family
  <2> QED
    BY <2>1, <2>2, <2>3 DEF Ref
<1>5. t \in Transactions /\ req' = [req EXCEPT ![s] = t]
  BY <1>3 DEF Transactions
<1> HIDE DEF t
<1>6. t.trusted => Proved(t.root)
  BY <1>4 DEF ControlInv, VerifiedProved
<1>7. Sound(t)
  <2>1. \A ref \in t.moves : IsUnder(ref[1], t.root)
    BY <1>4
  <2>2. \A n \in t.subs : IsUnder(n, t.root)
    BY <1>4
  <2> QED
    BY <1>4, <1>6, <2>1, <2>2 DEF Sound
<1> QED
  BY <1>5, <1>7, ReplaceStep

LEMMA InsertReads ==
    ASSUME ControlInv, NEW s \in Requests, NEW n \in Names
    PROVE  /\ CreateRoot(s, n) => ControlInv'
           /\ \A parent \in Names : CreateUnder(s, n, parent) => ControlInv'
           /\ \A detected \in SUBSET Names : AddDetected(s, n, detected) => ControlInv'
<1> USE DEF Sessions
<1>1. ASSUME CreateRoot(s, n) PROVE ControlInv'
  <2> DEFINE nobody == {}
  <2>1. /\ {n} \in SUBSET Names /\ nobody \in SUBSET Names /\ nobody \in SUBSET Alive
        /\ \A m \in nobody \union nobody : IsUnder(m, None)
        /\ req' = [req EXCEPT ![s] = Family(None, {n}, nobody, nobody)]
        /\ s \in Sessions /\ None \in Names \union {None}
    BY <1>1 DEF CreateRoot
  <2> HIDE DEF nobody
  <2> QED
    BY <1>1, <2>1, FamilyStep DEF CreateRoot
<1>2. ASSUME NEW parent \in Names, CreateUnder(s, n, parent) PROVE ControlInv'
  <2> DEFINE nobody == {}
  <2>1. /\ {n} \in SUBSET Names /\ nobody \in SUBSET Names /\ nobody \in SUBSET Alive
        /\ \A m \in {n} \union nobody : IsUnder(m, parent)
        /\ req' = [req EXCEPT ![s] = Family(parent, nobody, {n}, nobody)]
        /\ s \in Sessions
    BY <1>2 DEF CreateUnder
  <2> HIDE DEF nobody
  <2> QED
    BY <1>2, <2>1, FamilyStep DEF CreateUnder
<1>3. ASSUME NEW root \in Names, NEW detected \in SUBSET Names,
             req' = [req EXCEPT ![s] = FamilyOf(root, n, detected)],
             UNCHANGED <<rows, published>>
      PROVE  ControlInv'
  <2> DEFINE subs == {m \in detected \union {n} : IsUnder(m, root)} \ Alive
  <2>1. /\ subs \in SUBSET Names /\ {root} \ Alive \in SUBSET Names
        /\ Movable(root) \in SUBSET Alive
        /\ \A m \in subs \union Movable(root) : IsUnder(m, root)
    BY DEF Movable, Roots
  <2> QED
    BY <1>3, <2>1, FamilyStep DEF FamilyOf
<1>4. ASSUME NEW detected \in SUBSET Names, AddDetected(s, n, detected)
      PROVE  ControlInv'
  <2>1. Nearest(n) \subseteq Names /\ RootOf[n] \in Names
    BY NamesAssumption DEF Nearest, RootsAbove, Roots, Alive
  <2>2. CASE req' = [req EXCEPT ![s] = Family(None, {n}, {}, {})]
    BY <1>4, <2>2, FamilyStep DEF AddDetected
  <2>3. ASSUME NEW root \in Names,
               req' = [req EXCEPT ![s] = FamilyOf(root, n, detected)]
        PROVE  ControlInv'
    BY <1>3, <1>4, <2>3 DEF AddDetected
  <2> QED
    BY <1>4, <2>1, <2>2, <2>3 DEF AddDetected
<1> QED
  BY <1>1, <1>2, <1>4

(* The transactions that look for tokens, and those that remove a row. *)
LEMMA LoadStep ==
    ASSUME ControlInv, NEW s \in Sessions, NEW names \in SUBSET Alive,
           Load(s, names), UNCHANGED <<rows, published>>
    PROVE  ControlInv'
<1> DEFINE t == [op |-> "check", todo |-> {Ref(n) : n \in names}, ok |-> {},
                 kids |-> {}, tops |-> {Ref(n) : n \in names \intersect Roots}]
<1>1. \A n \in names : Ref(n) \in Refs
  BY RefType DEF ControlInv
<1>2. t \in Transactions
  BY <1>1 DEF Transactions, Checks
<1>3. Sound(t)
  BY DEF Sound
<1>4. req' = [req EXCEPT ![s] = t]
  BY DEF Load
<1> HIDE DEF t
<1> QED
  BY <1>2, <1>3, <1>4, ReplaceStep

LEMMA DeleteStep ==
    ASSUME ControlInv, NEW s \in Requests, NEW n \in Names,
           NEW history \in BOOLEAN, Delete(s, n, history)
    PROVE  ControlInv'
<1> DEFINE t == [op |-> "delete", name |-> n, gen |-> rows[n].gen]
<1>1. t \in Transactions
  BY DEF ControlInv, TypeOK, Rows, Transactions, Deletes
<1>2. Sound(t)
  BY DEF Sound
<1>3. req' = [req EXCEPT ![s] = t] /\ UNCHANGED <<rows, published>>
  BY DEF Delete
<1> HIDE DEF t
<1> QED
  BY <1>1, <1>2, <1>3, ReplaceStep DEF Sessions

----------------------------------------------------------------------------
(* An insert puts rows under roots they fall under, and verifies those under
   a proved root only.                                                     *)
LEMMA CommitInsertStep ==
    ASSUME ControlInv, NEW s \in Sessions, CommitInsert(s)
    PROVE  ControlInv' /\ KeepsVerification
<1> DEFINE t == req[s]
<1>1. t \in Inserts /\ Sound(t)
  BY Shapes DEF ControlInv, TypeOK, CommitInsert, Transactions
<1>2. CASE ~Accepted(t)
  <2>1. UNCHANGED <<rows, published>> /\ End(s)
    BY <1>2 DEF CommitInsert
  <2> QED
    BY <2>1, IdleSound, ReplaceStep DEF End, KeepsVerification
<1>3. CASE Accepted(t)
  <2>1. /\ rows' = AfterInsert(t) /\ End(s) /\ UNCHANGED published
        /\ \A n \in t.tops \union t.subs : rows[n].gen < MaxGen
    BY <1>3 DEF CommitInsert
  <2>2. /\ t.op = "insert" /\ t.tops \subseteq Names /\ t.subs \subseteq Names
        /\ t.root \in Names \union {None} /\ t.trusted \in BOOLEAN
        /\ \A n \in t.subs : IsUnder(n, t.root)
        /\ \A ref \in t.moves : IsUnder(ref[1], t.root)
        /\ t.trusted => Proved(t.root)
    BY <1>1 DEF Inserts, Sound
  <2> HIDE DEF t
  \* What becomes of one row.
  <2>3. ASSUME NEW n \in Names
        PROVE  \/ n \in t.tops /\ rows'[n] = NewRow(n, None, FALSE)
               \/ n \in t.subs /\ rows'[n] = NewRow(n, t.root, t.trusted)
               \/ Ref(n) \in t.moves /\ rows'[n] = Moved(t, n)
               \/ rows'[n] = rows[n]
    BY <2>1 DEF AfterInsert
  <2>4. ASSUME NEW n \in Names
        PROVE  rows[n] \in Rows /\ rows[n].gen \in 0 .. MaxGen
    BY DEF ControlInv, TypeOK, Rows
  <2>5. ASSUME NEW n \in Names
        PROVE  /\ rows'[n] \in Rows
               /\ rows'[n].alive =>
                    /\ rows'[n].gen \in 1 .. MaxGen
                    /\ rows'[n].parent # None => IsUnder(n, rows'[n].parent)
                    /\ rows'[n].verified => Proved(n)
               /\ rows[n].alive /\ rows[n].verified /\ rows'[n].gen = rows[n].gen
                    => rows'[n].verified
    <3>1. CASE n \in t.tops /\ rows'[n] = NewRow(n, None, FALSE)
      BY <2>1, <2>4, <3>1, NamesAssumption DEF NewRow, Rows
    <3>2. CASE n \in t.subs /\ rows'[n] = NewRow(n, t.root, t.trusted)
      <4>1. t.root \in Names \/ t.root = None
        BY <2>2
      <4>2. t.root # None => (t.trusted => Proved(n))
        BY <2>2, <3>2, <4>1, ProvedBelow DEF ControlInv
      <4>3. t.root = None => ~t.trusted \/ Proved(None)
        BY <2>2
      <4>4. IsUnder(n, t.root)
        BY <2>2, <3>2
      <4>5. t.root # None
        BY <4>4, NamesAssumption DEF IsUnder
      <4> QED
        BY <2>1, <2>2, <2>4, <3>2, <4>2, <4>4, <4>5, NamesAssumption DEF NewRow, Rows
    <3>3. CASE Ref(n) \in t.moves /\ rows'[n] = Moved(t, n)
      <4>1. IsUnder(n, t.root)
        BY <2>2, <3>3 DEF Ref
      <4>2. t.root \in Names
        BY <2>2, <4>1, NamesAssumption DEF IsUnder
      <4>3. t.trusted => Proved(n)
        BY <2>2, <4>1, <4>2, ProvedBelow DEF ControlInv
      <4>4. Exists(Ref(n))
        BY <1>3, <3>3 DEF Accepted
      <4>5. rows[n].alive /\ n \in Alive
        BY <4>4 DEF Exists, Ref, Alive
      <4>6. rows[n].verified => Proved(n)
        BY <4>5 DEF ControlInv, VerifiedProved
      <4>7. rows[n].gen \in 1 .. MaxGen
        BY <4>5 DEF ControlInv, Numbered
      <4>8. /\ rows'[n].alive = rows[n].alive /\ rows'[n].gen = rows[n].gen
            /\ rows'[n].parent = t.root
            /\ rows'[n].verified = (rows[n].verified \/ (t.trusted /\ Ref(n) \in t.pending))
            /\ rows'[n] \in Rows
        BY <2>2, <2>4, <3>3 DEF Moved, Rows
      <4> QED
        BY <4>1, <4>3, <4>6, <4>7, <4>8
    <3>4. CASE rows'[n] = rows[n]
      BY <2>4, <3>4 DEF ControlInv, Numbered, ParentsAbove, VerifiedProved, Alive
    <3> QED
      BY <2>3, <3>1, <3>2, <3>3, <3>4
  <2>6. rows' \in [Names -> Rows]
    BY <2>1, <2>5 DEF AfterInsert
  <2>7. Numbered' /\ ParentsAbove' /\ VerifiedProved'
    BY <2>1, <2>5 DEF Numbered, ParentsAbove, VerifiedProved, Alive, Proved
  <2>8. KeepsVerification
    BY <2>5 DEF KeepsVerification, Alive
  <2> QED
    BY <2>1, <2>6, <2>7, <2>8, EndStep
<1> QED
  BY <1>2, <1>3

(* A removal takes rows away and changes none that stays. *)
LEMMA CommitDeleteStep ==
    ASSUME ControlInv, NEW s \in Sessions, CommitDelete(s)
    PROVE  ControlInv' /\ KeepsVerification
<1>1. End(s) /\ UNCHANGED published
  BY DEF CommitDelete
<1>2. /\ rows' \in [Names -> Rows]
      /\ \A n \in Names : \/ rows'[n] = rows[n]
                           \/ rows'[n] = [rows[n] EXCEPT !.alive = FALSE]
  BY DEF CommitDelete, ControlInv, TypeOK, Rows
<1>3. \A n \in Names : /\ rows[n] \in Rows /\ rows'[n].gen = rows[n].gen
                       /\ rows'[n].parent = rows[n].parent
                       /\ rows'[n].verified = rows[n].verified
                       /\ rows'[n].alive => rows[n].alive
  BY <1>2 DEF ControlInv, TypeOK, Rows
<1>4. Numbered' /\ ParentsAbove' /\ VerifiedProved'
  BY <1>1, <1>3 DEF ControlInv, Numbered, ParentsAbove, VerifiedProved, Alive, Proved
<1>5. KeepsVerification
  BY <1>3 DEF KeepsVerification, Alive
<1> QED
  BY <1>1, <1>2, <1>4, <1>5, EndStep

----------------------------------------------------------------------------
(* What is found is published, and what follows a found root is below it. *)
LEMMA CheckStep ==
    ASSUME ControlInv, NEW s \in Sessions, NEW ref \in Refs, Check(s, ref)
    PROVE  ControlInv'
<1> DEFINE t == req[s]
           kids == FollowersOf(t, ref)
           found == [t EXCEPT !.todo = t.todo \ {ref}, !.ok = t.ok \union {ref},
                              !.kids = t.kids \union kids]
           missed == [t EXCEPT !.todo = t.todo \ {ref}]
<1>1. t \in Checks /\ Sound(t)
  BY Shapes DEF ControlInv, TypeOK, Check, Transactions
<1>2. UNCHANGED <<rows, published>>
  BY DEF Check
<1>3. CASE ref \in published
  <2>1. kids \subseteq Refs
    BY RefType DEF FollowersOf, Children, ControlInv
  <2>2. ASSUME NEW kid \in kids PROVE Proved(kid[1])
    <3>1. PICK c \in Children(ref[1]) : kid = Ref(c)
      BY <2>2 DEF FollowersOf
    <3>2. c \in Names /\ ref[1] \in Names /\ IsUnder(c, ref[1])
      BY <3>1, NamesAssumption DEF Children, Alive, ControlInv, ParentsAbove, Refs
    <3>3. Proved(c)
      BY <1>3, <3>2 DEF Proved
    <3> QED
      BY <3>1, <3>3 DEF Ref
  <2>3. req' = [req EXCEPT ![s] = found]
    BY <1>3 DEF Check
  <2> HIDE DEF t, kids
  <2>4. found \in Checks
    BY <1>1, <2>1 DEF Checks
  <2>5. Sound(found)
    <3>1. /\ found.op = "check" /\ found.ok = t.ok \union {ref}
          /\ found.kids = t.kids \union kids
      BY <1>1 DEF Checks
    <3>2. t.ok \subseteq published /\ \A kid \in t.kids : Proved(kid[1])
      BY <1>1 DEF Sound, Checks
    <3> QED
      BY <1>3, <2>2, <3>1, <3>2 DEF Sound
  <2> HIDE DEF found
  <2> QED
    BY <1>2, <2>3, <2>4, <2>5, ReplaceStep DEF Transactions
<1>4. CASE ref \notin published
  <2>1. req' = [req EXCEPT ![s] = missed]
    BY <1>4 DEF Check
  <2> HIDE DEF t
  <2>2. missed \in Checks /\ Sound(missed)
    BY <1>1 DEF Checks, Sound
  <2> HIDE DEF missed
  <2> QED
    BY <1>2, <2>1, <2>2, ReplaceStep DEF Transactions
<1> QED
  BY <1>3, <1>4

LEMMA CommitChecksStep ==
    ASSUME ControlInv, NEW s \in Sessions, CommitChecks(s)
    PROVE  ControlInv' /\ KeepsVerification
<1> DEFINE t == req[s]
<1>1. t \in Checks /\ Sound(t)
  BY Shapes DEF ControlInv, TypeOK, CommitChecks, Transactions
<1>2. End(s) /\ UNCHANGED published
  BY DEF CommitChecks
<1>3. ASSUME NEW n \in Alive, Ref(n) \in Verifiable(t) PROVE Proved(n)
  <2>1. CASE Ref(n) \in t.ok
    BY <1>1, <2>1 DEF Sound, Checks, Proved, Ref
  <2>2. CASE Ref(n) \in t.kids
    BY <1>1, <2>2 DEF Sound, Checks, Ref
  <2> QED
    BY <1>3, <2>1, <2>2 DEF Verifiable
<1>4. /\ rows' \in [Names -> Rows]
      /\ \A n \in Names : \/ rows'[n] = rows[n]
                           \/ /\ n \in Alive /\ Ref(n) \in Verifiable(t)
                              /\ rows'[n] = [rows[n] EXCEPT !.verified = TRUE]
  BY DEF CommitChecks, ControlInv, TypeOK, Rows
<1> HIDE DEF t
<1>5. \A n \in Names : /\ rows[n] \in Rows /\ rows'[n].gen = rows[n].gen
                       /\ rows'[n].parent = rows[n].parent
                       /\ rows'[n].alive = rows[n].alive
                       /\ rows[n].verified => rows'[n].verified
                       /\ rows'[n].alive /\ rows'[n].verified => Proved(n)
  BY <1>3, <1>4 DEF ControlInv, TypeOK, Rows, VerifiedProved, Alive
<1>6. Numbered' /\ ParentsAbove' /\ VerifiedProved'
  BY <1>2, <1>5 DEF ControlInv, Numbered, ParentsAbove, VerifiedProved, Alive, Proved
<1>7. KeepsVerification
  BY <1>5 DEF KeepsVerification, Alive
<1> QED
  BY <1>2, <1>4, <1>6, <1>7, EndStep

----------------------------------------------------------------------------
(* A proof more takes nothing away from those there are. *)
LEMMA PublishStep ==
    ASSUME ControlInv, NEW n \in Names, Publish(n)
    PROVE  ControlInv'
<1>1. /\ UNCHANGED <<rows, req>> /\ published' = published \union {Ref(n)}
      /\ Ref(n) \in Refs
  BY RefType DEF Publish, ControlInv
<1>2. TypeOK'
  BY <1>1 DEF ControlInv, TypeOK
<1>3. ASSUME NEW m, Proved(m) PROVE Proved(m)'
  BY <1>1, <1>3 DEF Proved
<1>4. Numbered' /\ ParentsAbove' /\ VerifiedProved'
  BY <1>1, <1>3 DEF ControlInv, Numbered, ParentsAbove, VerifiedProved, Alive
<1>5. ASSUME NEW s \in Sessions PROVE Sound(req[s])'
  <2>1. Sound(req[s]) /\ req'[s] = req[s]
    BY <1>1 DEF ControlInv
  <2> QED
    BY <1>1, <1>3, <2>1 DEF Sound
<1> QED
  BY <1>2, <1>4, <1>5 DEF ControlInv

LEMMA RequestStep ==
    ASSUME ControlInv, NEW s \in Requests, Request(s)
    PROVE  ControlInv' /\ UNCHANGED rows
<1>1. ASSUME NEW n \in Names, Verify(s, n) PROVE ControlInv'
  <2>1. {n} \in SUBSET Alive
    BY <1>1 DEF Verify, Pending
  <2> QED
    BY <1>1, <2>1, LoadStep DEF Verify, Sessions
<1>2. ControlInv'
  BY <1>1, InsertReads, DeleteStep DEF Request
<1>3. UNCHANGED rows
  BY DEF Request, CreateRoot, Verify, CreateUnder, AddDetected, Delete
<1> QED
  BY <1>2, <1>3

LEMMA CheckingStep ==
    ASSUME ControlInv, NEW s \in Sessions, Checking(s)
    PROVE  ControlInv' /\ KeepsVerification
<1>1. ASSUME NEW ref \in Refs, Check(s, ref)
      PROVE  ControlInv' /\ KeepsVerification
  BY <1>1, CheckStep DEF Check, KeepsVerification
<1> QED
  BY <1>1, CommitChecksStep DEF Checking

LEMMA ControlInit == Init => ControlInv
<1> SUFFICES ASSUME Init PROVE ControlInv
  OBVIOUS
<1>1. TypeOK
  BY NamesAssumption DEF Init, TypeOK, Rows
<1>2. Alive = {}
  BY DEF Init, Alive
<1>3. \A s \in Sessions : Sound(req[s])
  BY IdleSound DEF Init
<1> QED
  BY <1>1, <1>2, <1>3 DEF ControlInv, Numbered, ParentsAbove, VerifiedProved

LEMMA ControlStep ==
    ASSUME ControlInv, [Next]_vars
    PROVE  ControlInv' /\ (KeepsVerification \/ UNCHANGED vars)
<1> USE DEF Sessions
<1>1. ASSUME NEW s \in Requests, Request(s)
      PROVE  ControlInv' /\ KeepsVerification
  BY <1>1, RequestStep DEF KeepsVerification
<1>2. ASSUME NEW s \in Requests, Commit(s)
      PROVE  ControlInv' /\ KeepsVerification
  BY <1>2, CommitInsertStep, CommitDeleteStep, CheckingStep DEF Commit
<1>3. ASSUME NEW n \in Names, Publish(n)
      PROVE  ControlInv' /\ KeepsVerification
  BY <1>3, PublishStep DEF Publish, KeepsVerification
<1>4. CASE Sweep
  <2>1. Pending \in SUBSET Alive
    BY DEF Pending
  <2> QED
    BY <1>4, <2>1, LoadStep DEF Sweep, KeepsVerification
<1>5. CASE Checking(Sweeper)
  BY <1>5, CheckingStep
<1>6. CASE UNCHANGED vars
  <2>1. ControlInv'
    BY <1>6 DEF vars, ControlInv, TypeOK, Numbered, ParentsAbove, VerifiedProved,
                Alive, Proved, Sound
  <2> QED
    BY <1>6, <2>1
<1> QED
  BY <1>1, <1>2, <1>3, <1>4, <1>5, <1>6 DEF Next

\* Verified rows are proved, and what each transaction holds is sound, through every
\* request and sweep.
THEOREM ControlInvariant == Spec => []ControlInv
BY ControlInit, ControlStep, PTL DEF Spec

(* Every variable of DomainFamily has its type, in every behaviour. *)
THEOREM TypeCorrect == Spec => []TypeOK
<1>1. ControlInv => TypeOK
  BY DEF ControlInv
<1> QED
  BY <1>1, ControlInvariant, PTL

(* Domain.verification_status: no domain counts as verified without a proof
   of control for it or for a name above it, for any names, any number of
   requests and however families are added, moved and removed meanwhile.   *)
THEOREM ControlIsAlwaysProved == Spec => []ControlIsProved
<1>1. ControlInv => ControlIsProved
  BY DEF ControlInv, VerifiedProved, Proved, ControlIsProved
<1> QED
  BY <1>1, ControlInvariant, PTL

(* add_detected_domain, apply_domain_verification: no request or sweep takes
   the verification of a row back, whatever it had loaded before.          *)
THEOREM VerificationStays == Spec => VerifiedStays
<1>1. ControlInv /\ [Next]_vars => [KeepsVerification]_vars
  BY ControlStep
<1> QED
  BY <1>1, ControlInvariant, PTL DEF Spec, VerifiedStays

----------------------------------------------------------------------------
(* Transactions that do not overlap: a transaction commits among the rows it
   has read.                                                               *)
OneAtATime == \A r, s \in Sessions : req[r] # Idle /\ req[s] # Idle => r = s

Families == OneLevel /\ FamilyFollowsRoot

(* An insert has its root, and moves roots without subdomains below it. *)
Placed(t) ==
    /\ t.root \in Roots \union t.tops \union {None}
    /\ t.trusted => t.root \in Alive /\ rows[t.root].verified
    /\ t.root \in Alive /\ rows[t.root].verified => t.trusted
    /\ \A n \in Alive : Ref(n) \in t.moves =>
         /\ n \in Roots /\ n # t.root /\ Children(n) = {}
         /\ rows[n].verified \/ Ref(n) \in t.pending

(* A check takes along what is pending below a root it has found. *)
Followed(t) ==
    /\ \A n \in Roots : Ref(n) \in t.todo => Ref(n) \in t.tops
    /\ \A n \in Roots : Ref(n) \in t.ok =>
         \A c \in Children(n) \intersect Pending : Ref(c) \in t.kids
    /\ \A n \in Roots : Ref(n) \notin t.kids

Steady(t) ==
    /\ t.op = "insert" => Placed(t)
    /\ t.op = "delete" => Children(t.name) = {}
    /\ t.op = "check" => Followed(t)

FamilyInv == Families /\ \A s \in Sessions : Steady(req[s])

LEMMA IdleSteady == Steady(Idle)
BY DEF Idle, Steady

LEMMA ReplaceSteady ==
    ASSUME TypeOK, FamilyInv, NEW s \in Sessions, NEW t, Steady(t),
           req' = [req EXCEPT ![s] = t], UNCHANGED rows
    PROVE  FamilyInv'
<1>1. Families'
  BY DEF FamilyInv, Families, OneLevel, FamilyFollowsRoot, Alive, Roots
<1>2. ASSUME NEW r \in Sessions PROVE Steady(req[r])'
  <2>1. PICK q : q = req'[r] /\ Steady(q)
    BY DEF TypeOK, FamilyInv
  <2> QED
    BY <2>1 DEF Steady, Placed, Followed, Roots, Children, Pending, Alive, Ref
<1> QED
  BY <1>1, <1>2 DEF FamilyInv

(* The only transaction under way commits. *)
LEMMA CommitAlone ==
    ASSUME TypeOK, OneAtATime, NEW s \in Sessions, req[s] # Idle, End(s), Families'
    PROVE  FamilyInv'
<1>1. \A r \in Sessions : req'[r] = Idle
  BY DEF TypeOK, OneAtATime, End
<1>2. \A r \in Sessions : Steady(req[r])'
  BY <1>1 DEF Steady, Idle
<1> QED
  BY <1>2 DEF FamilyInv

----------------------------------------------------------------------------
LEMMA FamilySteady ==
    ASSUME TypeOK, FamilyInv, NEW s \in Sessions, NEW root,
           NEW tops, NEW subs, NEW moves, root \in Roots \union tops \union {None},
           moves \subseteq Movable(root),
           req' = [req EXCEPT ![s] = Family(root, tops, subs, moves)],
           UNCHANGED rows
    PROVE  FamilyInv'
<1> DEFINE t == Family(root, tops, subs, moves)
<1>1. /\ t.op = "insert" /\ t.root = root /\ t.tops = tops
      /\ t.moves = {Ref(n) : n \in moves}
      /\ t.pending = {Ref(n) : n \in {m \in moves : ~rows[m].verified}}
  BY DEF Family
<1>2. t.trusted = (root \in Alive /\ rows[root].verified)
  BY Zenon DEF Family
<1>3. ASSUME NEW n \in Alive, Ref(n) \in t.moves
      PROVE  /\ n \in Roots /\ n # root /\ Children(n) = {}
             /\ rows[n].verified \/ Ref(n) \in t.pending
  <2>1. n \in moves
    BY <1>1, <1>3 DEF Ref
  <2> QED
    BY <1>1, <2>1 DEF Movable
<1> HIDE DEF t
<1>4. Steady(t)
  BY <1>1, <1>2, <1>3 DEF Steady, Placed
<1> QED
  BY <1>4, ReplaceSteady DEF t

LEMMA InsertsPlaced ==
    ASSUME TypeOK, FamilyInv, NEW s \in Requests, NEW n \in Names
    PROVE  /\ CreateRoot(s, n) => FamilyInv'
           /\ \A parent \in Names : CreateUnder(s, n, parent) => FamilyInv'
           /\ \A detected \in SUBSET Names : AddDetected(s, n, detected) => FamilyInv'
<1> USE DEF Sessions
<1> DEFINE nobody == {}
<1>0. \A root : nobody \subseteq Movable(root)
  OBVIOUS
<1>1. ASSUME CreateRoot(s, n) PROVE FamilyInv'
  <2>1. req' = [req EXCEPT ![s] = Family(None, {n}, nobody, nobody)] /\ UNCHANGED rows
    BY <1>1 DEF CreateRoot
  <2> HIDE DEF nobody
  <2> QED
    BY <1>0, <2>1, FamilySteady
<1>2. ASSUME NEW parent \in Names, CreateUnder(s, n, parent) PROVE FamilyInv'
  <2>1. /\ req' = [req EXCEPT ![s] = Family(parent, nobody, {n}, nobody)]
        /\ UNCHANGED rows /\ parent \in Roots
    BY <1>2 DEF CreateUnder
  <2> HIDE DEF nobody
  <2> QED
    BY <1>0, <2>1, FamilySteady
<1>3. ASSUME NEW detected \in SUBSET Names, AddDetected(s, n, detected) PROVE FamilyInv'
  <2>1. UNCHANGED rows
    BY <1>3 DEF AddDetected
  <2>2. CASE req' = [req EXCEPT ![s] = Family(None, {n}, nobody, nobody)]
    <3> HIDE DEF nobody
    <3> QED
      BY <1>0, <2>1, <2>2, FamilySteady
  <2>3. ASSUME NEW root, root \in Roots \union ({root} \ Alive),
               req' = [req EXCEPT ![s] = FamilyOf(root, n, detected)]
        PROVE  FamilyInv'
    <3> DEFINE tops == {root} \ Alive
               subs == {m \in detected \union {n} : IsUnder(m, root)} \ Alive
    <3>1. req' = [req EXCEPT ![s] = Family(root, tops, subs, Movable(root))]
      BY <2>3 DEF FamilyOf
    <3>2. root \in Roots \union tops \union {None} /\ s \in Sessions
      BY <2>3
    <3> HIDE DEF tops, subs
    <3> QED
      BY <2>1, <3>1, <3>2, FamilySteady
  <2>4. Nearest(n) \subseteq Roots
    BY DEF Nearest, RootsAbove
  <2>5. RootOf[n] = n \/ RootOf[n] \in detected => RootOf[n] \notin Alive
    BY <1>3 DEF AddDetected
  <2> QED
    BY <1>3, <2>2, <2>3, <2>4, <2>5 DEF AddDetected
<1> QED
  BY <1>1, <1>2, <1>3

LEMMA LoadSteady ==
    ASSUME TypeOK, FamilyInv, NEW s \in Sessions, NEW names \in SUBSET Alive,
           Load(s, names), UNCHANGED rows
    PROVE  FamilyInv'
<1> DEFINE t == [op |-> "check", todo |-> {Ref(n) : n \in names}, ok |-> {},
                 kids |-> {}, tops |-> {Ref(n) : n \in names \intersect Roots}]
<1>1. Followed(t)
  BY DEF Followed, Ref
<1>2. Steady(t)
  BY <1>1 DEF Steady
<1>3. req' = [req EXCEPT ![s] = t]
  BY DEF Load
<1> HIDE DEF t
<1> QED
  BY <1>2, <1>3, ReplaceSteady

LEMMA DeleteSteady ==
    ASSUME TypeOK, FamilyInv, NEW s \in Requests, NEW n \in Names,
           NEW history \in BOOLEAN, Delete(s, n, history)
    PROVE  FamilyInv'
<1> DEFINE t == [op |-> "delete", name |-> n, gen |-> rows[n].gen]
<1>1. Steady(t)
  BY DEF Steady, Delete, Removable
<1>2. req' = [req EXCEPT ![s] = t] /\ UNCHANGED rows
  BY DEF Delete
<1> HIDE DEF t
<1> QED
  BY <1>1, <1>2, ReplaceSteady DEF Sessions

LEMMA CheckSteady ==
    ASSUME ControlInv, FamilyInv, NEW s \in Sessions, NEW ref \in Refs, Check(s, ref)
    PROVE  FamilyInv'
<1> DEFINE t == req[s]
           kids == FollowersOf(t, ref)
           found == [t EXCEPT !.todo = t.todo \ {ref}, !.ok = t.ok \union {ref},
                              !.kids = t.kids \union kids]
           missed == [t EXCEPT !.todo = t.todo \ {ref}]
<1>0. TypeOK
  BY DEF ControlInv
<1>1. t \in Checks /\ Followed(t) /\ ref \in t.todo
  BY Shapes DEF ControlInv, FamilyInv, TypeOK, Check, Transactions, Steady
<1>2. UNCHANGED rows
  BY DEF Check
<1>3. CASE ref \in published
  <2>1. req' = [req EXCEPT ![s] = found]
    BY <1>3 DEF Check
  <2>2. ASSUME NEW n \in Roots, Ref(n) = ref, NEW c \in Children(n) \intersect Pending
        PROVE  Ref(c) \in kids
    <3>1. ref \in t.tops /\ Exists(ref) /\ ref[1] = n
      BY <1>1, <2>2 DEF Followed, Exists, Ref, Roots
    <3> QED
      BY <3>1 DEF FollowersOf
  <2>3. ASSUME NEW n \in Roots PROVE Ref(n) \notin kids
    BY NamesAssumption DEF FollowersOf, Ref, Children, Roots, Alive, Exists
  <2> HIDE DEF t, kids
  <2>4. /\ found.op = "check" /\ found.ok = t.ok \union {ref} /\ found.todo = t.todo \ {ref}
        /\ found.kids = t.kids \union kids /\ found.tops = t.tops
    BY <1>1 DEF Checks
  <2> HIDE DEF found
  <2>5. Followed(found)
    BY <1>1, <2>2, <2>3, <2>4 DEF Followed
  <2> QED
    BY <1>0, <1>2, <2>1, <2>4, <2>5, ReplaceSteady DEF Steady
<1>4. CASE ref \notin published
  <2>1. req' = [req EXCEPT ![s] = missed]
    BY <1>4 DEF Check
  <2> HIDE DEF t
  <2>2. /\ missed.op = "check" /\ missed.ok = t.ok /\ missed.todo = t.todo \ {ref}
        /\ missed.kids = t.kids /\ missed.tops = t.tops
    BY <1>1 DEF Checks
  <2> HIDE DEF missed
  <2>3. Followed(missed)
    BY <1>1, <2>2 DEF Followed
  <2> QED
    BY <1>0, <1>2, <2>1, <2>2, <2>3, ReplaceSteady DEF Steady
<1> QED
  BY <1>3, <1>4

----------------------------------------------------------------------------
(* What an insert makes of one row. *)
LEMMA InsertedRow ==
    ASSUME NEW t, rows' = AfterInsert(t), NEW n \in Names
    PROVE  \/ n \in t.tops /\ rows'[n] = NewRow(n, None, FALSE)
           \/ n \notin t.tops /\ n \in t.subs /\ rows'[n] = NewRow(n, t.root, t.trusted)
           \/ /\ n \notin t.tops \union t.subs
              /\ Ref(n) \in t.moves /\ rows'[n] = Moved(t, n)
           \/ n \notin t.tops \union t.subs /\ Ref(n) \notin t.moves /\ rows'[n] = rows[n]
BY DEF AfterInsert

LEMMA CommitInsertFamilies ==
    ASSUME ControlInv, ControlInv', FamilyInv, NEW s \in Sessions, CommitInsert(s)
    PROVE  Families'
<1>1. PICK t : t = req[s]
  OBVIOUS
<1>2. /\ t \in Inserts /\ Sound(t) /\ Placed(t) /\ t.op = "insert"
  BY <1>1, Shapes DEF ControlInv, TypeOK, FamilyInv, Steady, CommitInsert, Transactions
<1>3. CASE ~Accepted(t)
  BY <1>1, <1>3 DEF CommitInsert, FamilyInv, Families, OneLevel, FamilyFollowsRoot, Alive, Roots
<1>4. CASE Accepted(t)
  <2>1. rows' = AfterInsert(t)
    BY <1>1, <1>4 DEF CommitInsert
  <2>2. /\ t.tops \subseteq Names /\ t.subs \subseteq Names /\ t.trusted \in BOOLEAN
        /\ (t.tops \union t.subs) \intersect Alive = {}
        /\ \A n \in t.subs : IsUnder(n, t.root)
        /\ \A n \in Names : Ref(n) \in t.moves => IsUnder(n, t.root) /\ n \in Alive
    BY <1>2, <1>4 DEF Inserts, Sound, Accepted, Exists, Ref
  <2>3. \A n \in Names : rows[n] \in Rows /\ rows'[n] \in Rows
    BY DEF ControlInv, TypeOK
  <2>4. \A n \in Names : IsUnder(n, t.root) => t.root # None /\ t.root \in Names /\ n # t.root
    BY NamesAssumption DEF IsUnder
  \* The root is a root in the end, verified only if it is trusted.
  <2>5. ASSUME t.root # None
        PROVE  /\ t.root \in Names /\ rows'[t.root].alive /\ rows'[t.root].parent = None
               /\ rows'[t.root].verified => t.trusted
    <3>1. CASE t.root \in t.tops
      <4>1. rows'[t.root] = NewRow(t.root, None, FALSE) /\ t.root \in Names
        BY <2>1, <2>2, <3>1, InsertedRow
      <4> QED
        BY <4>1 DEF NewRow
    <3>2. CASE t.root \in Roots /\ t.root \notin t.tops
      <4>1. t.root \in Alive /\ t.root \in Names /\ t.root \notin t.subs /\ Ref(t.root) \notin t.moves
        BY <1>2, <2>2, <2>4, <3>2 DEF Roots, Alive, Placed
      <4>2. rows'[t.root] = rows[t.root]
        BY <2>1, <3>2, <4>1, InsertedRow
      <4>3. rows[t.root].verified => t.trusted
        BY <1>2, <4>1 DEF Placed
      <4> QED
        BY <3>2, <4>1, <4>2, <4>3 DEF Roots, Alive
    <3> QED
      BY <1>2, <2>5, <3>1, <3>2 DEF Placed
  \* A root with subdomains stays as it is.
  <2>6. ASSUME NEW c \in Alive, rows[c].parent # None
        PROVE  LET p == rows[c].parent IN
               p \in Roots /\ rows'[p] = rows[p] /\ (rows[p].verified => rows[c].verified)
    <3>1. PICK p : p = rows[c].parent
      OBVIOUS
    <3>2. p \in Roots /\ (rows[p].verified => rows[c].verified) /\ c \in Children(p)
      BY <2>6, <3>1 DEF FamilyInv, Families, OneLevel, FamilyFollowsRoot, Children
    <3>3. p \in Names /\ p \notin t.tops \union t.subs /\ Ref(p) \notin t.moves
      BY <1>2, <2>2, <3>2 DEF Roots, Alive, Placed
    <3> QED
      BY <2>1, <3>1, <3>2, <3>3, InsertedRow
  <2>7. ASSUME NEW n \in Names, rows'[n].alive, rows'[n].parent # None
        PROVE  LET p == rows'[n].parent IN
               /\ p \in Names /\ rows'[p].alive /\ rows'[p].parent = None
               /\ rows'[p].verified => rows'[n].verified
    <3>1. CASE n \in t.tops /\ rows'[n] = NewRow(n, None, FALSE)
      BY <2>7, <3>1 DEF NewRow
    <3>2. CASE n \in t.subs /\ rows'[n] = NewRow(n, t.root, t.trusted)
      <4>1. rows'[n].parent = t.root /\ rows'[n].verified = t.trusted /\ t.root # None
        BY <2>2, <2>4, <3>2 DEF NewRow
      <4> QED
        BY <2>5, <4>1
    <3>3. CASE Ref(n) \in t.moves /\ rows'[n] = Moved(t, n)
      <4>1. /\ rows'[n].parent = t.root
            /\ rows'[n].verified = (rows[n].verified \/ (t.trusted /\ Ref(n) \in t.pending))
        BY <2>3, <3>3 DEF Moved, Rows
      <4>2. t.root # None /\ (rows[n].verified \/ Ref(n) \in t.pending)
        BY <1>2, <2>2, <2>4, <3>3 DEF Placed
      <4> QED
        BY <2>5, <4>1, <4>2
    <3>4. CASE rows'[n] = rows[n]
      BY <2>6, <2>7, <3>4 DEF Roots, Alive
    <3> QED
      BY <2>1, <3>1, <3>2, <3>3, <3>4, InsertedRow
  <2> QED
    BY <2>7 DEF Families, OneLevel, FamilyFollowsRoot, Alive, Roots, ControlInv, ParentsAbove
<1> QED
  BY <1>3, <1>4

LEMMA CommitDeleteFamilies ==
    ASSUME ControlInv, ControlInv', FamilyInv, NEW s \in Sessions, CommitDelete(s)
    PROVE  Families' /\ NoneGoesWithItsRoot
<1>1. PICK t : t = req[s]
  OBVIOUS
<1>2. t \in Deletes /\ Children(t.name) = {}
  BY <1>1, Shapes DEF ControlInv, TypeOK, FamilyInv, Steady, CommitDelete, Transactions
<1>3. CASE ~Exists(<<t.name, t.gen>>)
  <2>1. rows' = rows
    BY <1>1, <1>3 DEF CommitDelete
  <2> QED
    BY <2>1 DEF FamilyInv, Families, OneLevel, FamilyFollowsRoot, Alive, Roots, NoneGoesWithItsRoot
<1>4. CASE Exists(<<t.name, t.gen>>)
  <2>1. Cascade(t.name) = {t.name}
    BY <1>2 DEF Cascade
  <2>2. rows' = [n \in Names |-> IF n = t.name THEN [rows[n] EXCEPT !.alive = FALSE] ELSE rows[n]]
    BY <1>1, <1>4, <2>1 DEF CommitDelete
  <2>3. ASSUME NEW n \in Names
        PROVE  IF n = t.name THEN ~rows'[n].alive ELSE rows'[n] = rows[n]
    BY <2>2 DEF ControlInv, TypeOK, Rows
  <2>4. ASSUME NEW n \in Alive, rows[n].parent # None
        PROVE  /\ rows[n].parent # t.name /\ rows[n].parent \in Names
               /\ rows[n].parent \in Roots
               /\ rows[rows[n].parent].verified => rows[n].verified
               /\ rows'[rows[n].parent] = rows[rows[n].parent]
    <3>1. PICK p : p = rows[n].parent
      OBVIOUS
    <3>2. p \in Roots /\ (rows[p].verified => rows[n].verified) /\ n \in Children(p)
      BY <2>4, <3>1 DEF FamilyInv, Families, OneLevel, FamilyFollowsRoot, Children
    <3>3. p # t.name /\ p \in Names
      BY <1>2, <3>2 DEF Roots, Alive
    <3> QED
      BY <2>3, <3>1, <3>2, <3>3
  <2>5. NoneGoesWithItsRoot
    BY <2>4 DEF NoneGoesWithItsRoot, Roots, Alive
  <2>6. Families'
    BY <2>3, <2>4 DEF Families, OneLevel, FamilyFollowsRoot, Alive, Roots, ControlInv, ParentsAbove
  <2> QED
    BY <2>5, <2>6
<1> QED
  BY <1>3, <1>4

LEMMA CommitChecksFamilies ==
    ASSUME ControlInv, ControlInv', FamilyInv, NEW s \in Sessions, CommitChecks(s)
    PROVE  Families' /\ NoneGoesWithItsRoot
<1>1. PICK t : t = req[s]
  OBVIOUS
<1>2. t \in Checks /\ Followed(t)
  BY <1>1, Shapes DEF ControlInv, TypeOK, FamilyInv, Steady, CommitChecks, Transactions
<1>3. CASE rows' = rows
  BY <1>3 DEF FamilyInv, Families, OneLevel, FamilyFollowsRoot, Alive, Roots, NoneGoesWithItsRoot
<1>4. CASE rows' = [n \in Names |-> IF n \in Alive /\ Ref(n) \in Verifiable(t)
                                    THEN [rows[n] EXCEPT !.verified = TRUE]
                                    ELSE rows[n]]
  <2>1. ASSUME NEW n \in Names
        PROVE  /\ rows'[n].alive = rows[n].alive /\ rows'[n].parent = rows[n].parent
               /\ n \in Alive /\ Ref(n) \in Verifiable(t) => rows'[n].verified
               /\ rows[n].verified => rows'[n].verified
               /\ rows'[n].verified => rows[n].verified \/ Ref(n) \in Verifiable(t)
    <3>1. rows[n] \in Rows
      BY DEF ControlInv, TypeOK
    <3> QED
      BY <1>4, <3>1 DEF Rows
  <2>2. ASSUME NEW n \in Alive, rows[n].parent # None
        PROVE  /\ rows[n].parent \in Roots
               /\ rows'[rows[n].parent].verified => rows'[n].verified
    <3>1. PICK p : p = rows[n].parent
      OBVIOUS
    <3>2. p \in Roots /\ (rows[p].verified => rows[n].verified) /\ n \in Children(p) /\ n \in Names
      BY <2>2, <3>1 DEF FamilyInv, Families, OneLevel, FamilyFollowsRoot, Children, Alive
    <3>3. p \in Names
      BY <3>2 DEF Roots, Alive
    <3>4. CASE rows[n].verified
      BY <2>1, <3>1, <3>2, <3>4
    <3>5. CASE ~rows[n].verified /\ rows'[p].verified
      <4>1. Ref(p) \in t.ok
        BY <1>2, <2>1, <3>2, <3>3, <3>5 DEF Verifiable, Followed
      <4>2. Ref(n) \in t.kids
        BY <1>2, <3>2, <3>5, <4>1 DEF Followed, Pending
      <4> QED
        BY <2>1, <3>1, <3>2, <4>2 DEF Verifiable
    <3> QED
      BY <3>1, <3>2, <3>4, <3>5
  <2>3. Alive' = Alive /\ Roots' = Roots
    BY <2>1 DEF Alive, Roots
  <2>4. \A n \in Alive : rows'[n].parent = rows[n].parent
    BY <2>1 DEF Alive
  <2>5. OneLevel' /\ FamilyFollowsRoot'
    BY <2>2, <2>3, <2>4 DEF OneLevel, FamilyFollowsRoot, ControlInv, ParentsAbove
  <2>6. NoneGoesWithItsRoot
    BY <2>1 DEF NoneGoesWithItsRoot, Alive
  <2> QED
    BY <2>5, <2>6 DEF Families
<1> QED
  BY <1>1, <1>3, <1>4 DEF CommitChecks

LEMMA FamilyStepHolds ==
    ASSUME ControlInv, ControlInv', FamilyInv, OneAtATime, [Next]_vars
    PROVE  FamilyInv' /\ (NoneGoesWithItsRoot \/ UNCHANGED vars)
<1> USE DEF Sessions
<1>0. TypeOK
  BY DEF ControlInv
<1>k. UNCHANGED rows => NoneGoesWithItsRoot
  BY DEF FamilyInv, Families, OneLevel, Roots, Alive, NoneGoesWithItsRoot
<1>1. ASSUME NEW s \in Requests, Request(s) PROVE FamilyInv' /\ UNCHANGED rows
  <2>1. ASSUME NEW n \in Names, Verify(s, n) PROVE FamilyInv'
    <3>1. {n} \in SUBSET Alive
      BY <2>1 DEF Verify, Pending
    <3> QED
      BY <1>0, <2>1, <3>1, LoadSteady DEF Verify
  <2>2. FamilyInv'
    BY <1>0, <1>1, <2>1, InsertsPlaced, DeleteSteady DEF Request
  <2> QED
    BY <1>1, <2>2, RequestStep
<1>2. ASSUME NEW s \in Sessions, CommitInsert(s) PROVE FamilyInv' /\ NoneGoesWithItsRoot
  <2>1. req[s] # Idle /\ End(s)
    BY <1>2 DEF CommitInsert, Idle
  <2>2. FamilyInv'
    BY <1>0, <1>2, <2>1, CommitInsertFamilies, CommitAlone
  <2>3. NoneGoesWithItsRoot
    <3>1. ASSUME NEW n \in Names, rows[n].alive PROVE rows'[n].alive
      <4>1. CASE ~Accepted(req[s])
        BY <1>2, <3>1, <4>1 DEF CommitInsert
      <4>2. CASE Accepted(req[s])
        <5>1. PICK t : t = req[s] /\ rows' = AfterInsert(t) /\ rows[n] \in Rows
          BY <1>2, <4>2 DEF CommitInsert, ControlInv, TypeOK
        <5>2. /\ NewRow(n, None, FALSE).alive /\ NewRow(n, t.root, t.trusted).alive
              /\ Moved(t, n).alive = rows[n].alive
          BY <5>1 DEF NewRow, Moved, Rows
        <5> QED
          BY <3>1, <5>1, <5>2, InsertedRow
      <4> QED
        BY <4>1, <4>2
    <3> QED
      BY <3>1 DEF NoneGoesWithItsRoot, Alive
  <2> QED
    BY <2>2, <2>3
<1>3. ASSUME NEW s \in Sessions, CommitDelete(s) PROVE FamilyInv' /\ NoneGoesWithItsRoot
  <2>1. req[s] # Idle /\ End(s)
    BY <1>3 DEF CommitDelete, Idle
  <2> QED
    BY <1>0, <1>3, <2>1, CommitDeleteFamilies, CommitAlone
<1>4. ASSUME NEW s \in Sessions, Checking(s) PROVE FamilyInv' /\ NoneGoesWithItsRoot
  <2>1. ASSUME NEW ref \in Refs, Check(s, ref) PROVE FamilyInv' /\ NoneGoesWithItsRoot
    BY <1>k, <2>1, CheckSteady DEF Check
  <2>2. CASE CommitChecks(s)
    <3>1. req[s] # Idle /\ End(s)
      BY <2>2 DEF CommitChecks, Idle
    <3> QED
      BY <1>0, <2>2, <3>1, CommitChecksFamilies, CommitAlone
  <2> QED
    BY <1>4, <2>1, <2>2 DEF Checking
<1>5. ASSUME NEW n \in Names, Publish(n) PROVE FamilyInv' /\ UNCHANGED rows
  BY <1>5 DEF Publish, FamilyInv, Families, OneLevel, FamilyFollowsRoot, Steady, Placed, Followed,
              Roots, Children, Pending, Alive, Ref
<1>6. CASE Sweep
  <2>1. Pending \in SUBSET Alive /\ UNCHANGED rows
    BY <1>6 DEF Pending, Sweep
  <2> QED
    BY <1>0, <1>6, <1>k, <2>1, LoadSteady DEF Sweep
<1>7. CASE UNCHANGED vars
  BY <1>7 DEF vars, FamilyInv, Families, OneLevel, FamilyFollowsRoot, Steady, Placed, Followed,
              Roots, Children, Pending, Alive, Ref
<1> QED
  BY <1>1, <1>2, <1>3, <1>4, <1>5, <1>6, <1>7, <1>k DEF Next, Commit

(* As long as transactions come one at a time, families keep to one level
   below their roots, the subdomains of a verified root are verified
   (domain_setup.py), and no subdomain goes with its root (delete_domain).  *)
THEOREM FamiliesStayInOrder ==
    Spec /\ []OneAtATime => []Families /\ [][NoneGoesWithItsRoot]_vars
<1>1. Init => FamilyInv
  <2> SUFFICES ASSUME Init PROVE FamilyInv
    OBVIOUS
  <2>1. Alive = {} /\ \A s \in Sessions : req[s] = Idle
    BY DEF Init, Alive
  <2> QED
    BY <2>1, IdleSteady DEF FamilyInv, Families, OneLevel, FamilyFollowsRoot
<1>2. ControlInv /\ ControlInv' /\ FamilyInv /\ OneAtATime /\ [Next]_vars
        => FamilyInv' /\ [NoneGoesWithItsRoot]_vars
  BY FamilyStepHolds
<1>3. FamilyInv => Families
  BY DEF FamilyInv
<1> QED
  BY <1>1, <1>2, <1>3, ControlInvariant, PTL DEF Spec

(* What the run of MCDomainFamily checks of three names, for any names, any
   walk above them and any number of sessions.                              *)
THEOREM FamiliesAlwaysHold == MCSpec => FamiliesHold
<1> DEFINE AloneInv == alone => FamilyInv /\ OneAtATime
<1>1. MCInit => Init /\ AloneInv
  <2> SUFFICES ASSUME MCInit PROVE Init /\ FamilyInv /\ OneAtATime
    OBVIOUS
  <2>1. Init /\ Alive = {} /\ \A s \in Sessions : req[s] = Idle
    BY DEF MCInit, Init, Alive
  <2> QED
    BY <2>1, IdleSteady DEF FamilyInv, Families, OneLevel, FamilyFollowsRoot, OneAtATime
<1>2. [MCNext]_MCVars => [Next]_vars
  BY DEF MCNext, MCVars
<1>3. ControlInv /\ ControlInv' /\ AloneInv /\ [MCNext]_MCVars
        => AloneInv' /\ [alone => NoneGoesWithItsRoot]_MCVars
  <2> SUFFICES ASSUME ControlInv, ControlInv', AloneInv, [MCNext]_MCVars
               PROVE  AloneInv' /\ (alone => NoneGoesWithItsRoot \/ UNCHANGED vars)
    BY DEF MCNext, MCVars
  <2>1. alone' = alone
    BY DEF MCNext, MCVars
  <2>2. alone => OneAtATime'
    BY DEF MCNext, MCVars, vars, OneAtATime
  <2> QED
    BY <1>2, <2>1, <2>2, FamilyStepHolds
<1>4. AloneInv => (alone => OneLevel /\ FamilyFollowsRoot)
  BY DEF FamilyInv, Families
<1> HIDE DEF AloneInv
<1>5. MCSpec => []ControlInv
  BY <1>1, <1>2, ControlInvariant, PTL DEF MCSpec, Spec
<1> QED
  BY <1>1, <1>3, <1>4, <1>5, PTL DEF MCSpec, FamiliesHold
=============================================================================
