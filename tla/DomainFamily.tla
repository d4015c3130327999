---------------------------- MODULE DomainFamily ----------------------------
(***************************************************************************)
(* The domains of one organization: adding them alone, under a root or as  *)
(* a family (domain_setup.py, routers/domains.py), proving control of them *)
(* by a DNS record, at once or by the sweep (domain_verification.py), and  *)
(* removing them.  Every request is one READ COMMITTED transaction: it     *)
(* reads what others have committed by then, and its own writes show at    *)
(* its commit, which the unique name and the foreign key may refuse.       *)
(*                                                                         *)
(* A domain of a name that was removed and added again is another row with *)
(* another token: gen tells the rows of a name apart.                      *)
(***************************************************************************)
EXTENDS Integers

CONSTANTS
    Names,      \* domain names
    Under,      \* the pairs <<sub, name>> such that sub ends with "." name
    RootOf,     \* RootOf[n]: the registrable domain n falls under
    Requests,   \* sessions of the api
    Sweeper,    \* the session of the verification sweep
    Overlap,    \* whether transactions may overlap
    MaxGen,     \* bound: how often a name is added
    None

ASSUME NamesAssumption ==
    /\ Under \subseteq Names \X Names
    /\ \A a, b, c \in Names :
         <<a, b>> \in Under /\ <<b, c>> \in Under => <<a, c>> \in Under
    /\ \A n \in Names : <<n, n>> \notin Under
    /\ RootOf \in [Names -> Names]
    /\ \A n \in Names : RootOf[n] = n \/ <<n, RootOf[n]>> \in Under
    /\ None \notin Names
    /\ Sweeper \notin Requests
    /\ Overlap \in BOOLEAN
    /\ MaxGen \in Nat

VARIABLES
    rows,       \* the committed domains
    published,  \* the rows <<name, gen>> whose token is in the DNS
    req         \* the transactions under way

vars == <<rows, published, req>>

Refs == Names \X (1 .. MaxGen)
Sessions == Requests \union {Sweeper}
IsUnder(a, b) == <<a, b>> \in Under

Rows == [alive : BOOLEAN, gen : 0 .. MaxGen, parent : Names \union {None},
         verified : BOOLEAN]

Idle == [op |-> "idle"]

\* A transaction that will insert tops and subs and move rows under root.
Inserts == [op : {"insert"}, tops : SUBSET Names, subs : SUBSET Names,
            moves : SUBSET Refs, root : Names \union {None}, rootGen : 0 .. MaxGen,
            trusted : BOOLEAN, pending : SUBSET Refs]

\* One that removes a row.
Deletes == [op : {"delete"}, name : Names, gen : 0 .. MaxGen]

\* One that looks for the tokens of rows: those left, those found, and the
\* subdomains that follow them; tops are those loaded without a parent.
Checks == [op : {"check"}, todo : SUBSET Refs, ok : SUBSET Refs,
           kids : SUBSET Refs, tops : SUBSET Refs]

TypeOK ==
    /\ rows \in [Names -> Rows]
    /\ published \subseteq Refs
    /\ req \in [Sessions -> {Idle} \union Inserts \union Deletes \union Checks]

Init ==
    /\ rows = [n \in Names |-> [alive |-> FALSE, gen |-> 0, parent |-> None,
                                verified |-> FALSE]]
    /\ published = {}
    /\ req = [s \in Sessions |-> Idle]

----------------------------------------------------------------------------
Alive == {n \in Names : rows[n].alive}
Roots == {n \in Alive : rows[n].parent = None}
Children(n) == {c \in Alive : rows[c].parent = n}

Ref(n) == <<n, rows[n].gen>>
Exists(ref) == ref[1] \in Alive /\ Ref(ref[1]) = ref

\* Whether the session s may begin a transaction.
MayBegin(s) ==
    /\ req[s] = Idle
    /\ Overlap \/ \A other \in Sessions : req[other] = Idle

End(s) == req' = [req EXCEPT ![s] = Idle]

(* What a transaction reads of the root it will put domains under. *)
Family(root, tops, subs, moves) ==
    [op |-> "insert", tops |-> tops, subs |-> subs,
     moves |-> {Ref(n) : n \in moves},
     root |-> root,
     rootGen |-> IF root = None THEN 0 ELSE rows[root].gen,
     trusted |-> root \in Alive /\ rows[root].verified,
     pending |-> {Ref(n) : n \in {m \in moves : ~rows[m].verified}}]

(* create_domain without a parent. *)
CreateRoot(s, n) ==
    /\ MayBegin(s)
    /\ req' = [req EXCEPT ![s] = Family(None, {n}, {}, {})]
    /\ UNCHANGED <<rows, published>>

(* create_domain under a parent, which must be a root. *)
CreateUnder(s, n, parent) ==
    /\ MayBegin(s)
    /\ parent \in Roots
    /\ IsUnder(n, parent)
    /\ req' = [req EXCEPT ![s] = Family(parent, {}, {n}, {})]
    /\ UNCHANGED <<rows, published>>

(* add_detected_domain: the most specific added root the name is under, else
   its registrable domain if that is detected as well, else none.           *)
RootsAbove(n) == {r \in Roots : IsUnder(n, r)}

Nearest(n) == {r \in RootsAbove(n) : \A q \in RootsAbove(n) : ~IsUnder(q, r)}

(* A row with subdomains of its own stays: nesting is one level only. *)
Movable(root) == {n \in Roots \ {root} : IsUnder(n, root) /\ Children(n) = {}}

FamilyOf(root, n, detected) ==
    Family(root, {root} \ Alive, 
           {m \in detected \union {n} : IsUnder(m, root)} \ Alive,
           Movable(root))

AddDetected(s, n, detected) ==
    /\ MayBegin(s)
    /\ n \notin Alive
    /\ detected \intersect Alive = {}
    /\ \/ \E r \in Nearest(n) :
             req' = [req EXCEPT ![s] = FamilyOf(r, n, detected)]
       \/ /\ RootsAbove(n) = {}
          /\ RootOf[n] = n \/ RootOf[n] \in detected
          /\ req' = [req EXCEPT ![s] = FamilyOf(RootOf[n], n, detected)]
       \/ /\ RootsAbove(n) = {}
          /\ RootOf[n] # n /\ RootOf[n] \notin detected
          /\ req' = [req EXCEPT ![s] = Family(None, {n}, {}, {})]
    /\ UNCHANGED <<rows, published>>

(* The inserts and updates and their commit.  An existing name, a root that
   is gone by then (foreign key) or a moved row that is (StaleDataError)
   refuses the whole transaction.                                          *)
Accepted(t) ==
    /\ (t.tops \union t.subs) \intersect Alive = {}
    /\ t.root \in t.tops \union {None} \/ Exists(<<t.root, t.rootGen>>)
    /\ \A ref \in t.moves : Exists(ref)

NewRow(n, parent, verified) ==
    [alive |-> TRUE, gen |-> rows[n].gen + 1, parent |-> parent, verified |-> verified]

(* Only a row loaded as pending takes the verification of its new root. *)
Moved(t, n) ==
    [rows[n] EXCEPT !.parent = t.root,
                    !.verified = rows[n].verified \/ (t.trusted /\ Ref(n) \in t.pending)]

AfterInsert(t) ==
    [n \in Names |->
       CASE n \in t.tops -> NewRow(n, None, FALSE)
         [] n \in t.subs \ t.tops -> NewRow(n, t.root, t.trusted)
         [] Ref(n) \in t.moves /\ n \notin t.tops \union t.subs -> Moved(t, n)
         [] OTHER -> rows[n]]

CommitInsert(s) ==
    /\ req[s].op = "insert"
    /\ \A n \in req[s].tops \union req[s].subs : rows[n].gen < MaxGen
    /\ rows' = IF Accepted(req[s]) THEN AfterInsert(req[s]) ELSE rows
    /\ End(s)
    /\ UNCHANGED published

----------------------------------------------------------------------------
Removable(n, history) == Children(n) = {} /\ ~(rows[n].verified /\ history)

(* delete_domain: refused while subdomains are there, and for a verified
   domain with report history.                                             *)
Delete(s, n, history) ==
    /\ MayBegin(s)
    /\ n \in Alive
    /\ Removable(n, history)
    /\ req' = [req EXCEPT ![s] = [op |-> "delete", name |-> n, gen |-> rows[n].gen]]
    /\ UNCHANGED <<rows, published>>

(* parent_domain_id is ON DELETE CASCADE. *)
Cascade(n) == {n} \union Children(n) \union UNION {Children(c) : c \in Children(n)}

CommitDelete(s) ==
    /\ req[s].op = "delete"
    /\ rows' = IF Exists(<<req[s].name, req[s].gen>>)
               THEN [n \in Names |-> IF n \in Cascade(req[s].name)
                                     THEN [rows[n] EXCEPT !.alive = FALSE]
                                     ELSE rows[n]]
               ELSE rows
    /\ End(s)
    /\ UNCHANGED published

----------------------------------------------------------------------------
(* The owner publishes the token of a row at its DNS host. *)
Publish(n) ==
    /\ n \in Alive
    /\ Ref(n) \notin published
    /\ published' = published \union {Ref(n)}
    /\ UNCHANGED <<rows, req>>

Load(s, names) ==
    req' = [req EXCEPT ![s] =
      [op |-> "check", todo |-> {Ref(n) : n \in names}, ok |-> {}, kids |-> {},
       tops |-> {Ref(n) : n \in names \intersect Roots}]]

(* Mutant of Pending. *)
PendingRoots == {n \in Roots : ~rows[n].verified}

Pending == {n \in Alive : ~rows[n].verified}

(* POST /domains/{id}/verify of a pending domain. *)
Verify(s, n) ==
    /\ MayBegin(s)
    /\ n \in Pending
    /\ Load(s, {n})
    /\ UNCHANGED <<rows, published>>

(* The sweep loads every pending domain; its lock keeps a second one out. *)
Sweep ==
    /\ MayBegin(Sweeper)
    /\ Pending # {}
    /\ Load(Sweeper, Pending)
    /\ UNCHANGED <<rows, published>>

(* Mutant of FollowersOf: the subdomains are not looked for. *)
NoFollowers(t, ref) == {}

(* mark_pending_subdomains_verified, which sees the subdomains committed by
   then; for a row that was loaded as a root only.                         *)
FollowersOf(t, ref) ==
    IF ref \in t.tops /\ Exists(ref)
    THEN {Ref(c) : c \in Children(ref[1]) \intersect Pending}
    ELSE {}

(* apply_domain_verification of one loaded row: a lookup over the network. *)
Check(s, ref) ==
    /\ req[s].op = "check"
    /\ ref \in req[s].todo
    /\ req' = [req EXCEPT ![s] =
         IF ref \in published
         THEN [req[s] EXCEPT !.todo = req[s].todo \ {ref},
                             !.ok = req[s].ok \union {ref},
                             !.kids = req[s].kids \union FollowersOf(req[s], ref)]
         ELSE [req[s] EXCEPT !.todo = req[s].todo \ {ref}]]
    /\ UNCHANGED <<rows, published>>

(* Mutant of Verifiable: what was loaded is verified, found or not. *)
Loaded(t) == t.ok \union t.kids \union t.tops

Verifiable(t) == t.ok \union t.kids

(* One commit for everything found; a row that is gone by then raises
   StaleDataError and takes the others with it.                            *)
CommitChecks(s) ==
    /\ req[s].op = "check"
    /\ req[s].todo = {}
    /\ rows' = IF \A ref \in req[s].ok : Exists(ref)
               THEN [n \in Names |-> IF n \in Alive /\ Ref(n) \in Verifiable(req[s])
                                     THEN [rows[n] EXCEPT !.verified = TRUE]
                                     ELSE rows[n]]
               ELSE rows
    /\ End(s)
    /\ UNCHANGED published

----------------------------------------------------------------------------
Request(s) ==
    \/ \E n \in Names : CreateRoot(s, n) \/ Verify(s, n)
    \/ \E n, parent \in Names : CreateUnder(s, n, parent)
    \/ \E n \in Names : \E detected \in SUBSET Names : AddDetected(s, n, detected)
    \/ \E n \in Names : \E history \in BOOLEAN : Delete(s, n, history)

Checking(s) == (\E ref \in Refs : Check(s, ref)) \/ CommitChecks(s)

Commit(s) == CommitInsert(s) \/ CommitDelete(s) \/ Checking(s)

Next ==
    \/ \E s \in Requests : Request(s) \/ Commit(s)
    \/ \E n \in Names : Publish(n)
    \/ Sweep
    \/ Checking(Sweeper)

Spec == Init /\ [][Next]_vars

(* The sweep is scheduled for good and every lookup ends (the resolver has a
   timeout); requests are not owed to anybody.                             *)
Fairness == WF_vars(Sweep) /\ WF_vars(Checking(Sweeper))

----------------------------------------------------------------------------
(* Properties. *)

(* Domain.verification_status: a domain counts as verified only if control
   was proved by its own record or by that of a name above it, whatever the
   order in which families are added, moved, verified and removed.         *)
ControlIsProved ==
    \A n \in Alive : rows[n].verified =>
        \E ref \in published : ref[1] = n \/ IsUnder(n, ref[1])

(* A verification is never taken back from a row. *)
KeepsVerification ==
    \A n \in Alive : rows[n].verified /\ rows'[n].gen = rows[n].gen
                     => rows'[n].verified

VerifiedStays == [][KeepsVerification]_vars

(* create_domain: "Only one level of nesting: apex domain -> subdomains." *)
OneLevel ==
    \A n \in Alive : rows[n].parent # None =>
        rows[n].parent \in Roots /\ IsUnder(n, rows[n].parent)

(* domain_setup.py: the subdomains of a verified root are verified, those
   "added under a verified root" and those "under a pending root" alike.    *)
FamilyFollowsRoot ==
    \A n \in Alive : rows[n].parent # None =>
        (rows[rows[n].parent].verified => rows[n].verified)

(* delete_domain: "This domain has subdomains. Remove those first."  No
   subdomain goes with its root.                                           *)
NoneGoesWithItsRoot ==
    \A n \in Alive : rows[n].parent # None /\ ~rows'[n].alive
                      => rows'[rows[n].parent].alive

(* A row whose token is in the DNS is verified, or removed, in the end. *)
PublishedIsVerified ==
    \A n \in Names : \A g \in 1 .. MaxGen :
        (Ref(n) = <<n, g>> /\ n \in Alive /\ <<n, g>> \in published)
            ~> (Ref(n) # <<n, g>> \/ n \notin Alive \/ rows[n].verified)
=============================================================================
