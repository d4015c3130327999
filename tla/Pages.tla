-------------------------------- MODULE Pages --------------------------------
(***************************************************************************)
(* Lists that a client loads page by page (services/pagination.py): DMARC   *)
(* records, TLS reports, sign-ins and job runs from the newest down, an     *)
(* admin's organizations from A up.  A page is two queries: where the row   *)
(* the client names last stands now, and the rows beyond it.                *)
(*                                                                          *)
(* Rows come, go and (organizations) are renamed between any two queries;   *)
(* rows with equal keys are told apart by their ids.  TLS reports are       *)
(* narrowed to one kind of failure after the page was read.                 *)
(***************************************************************************)
EXTENDS Naturals, FiniteSets

CONSTANTS
  Ids,           \* row ids, which are random: numbers, in no order of time
  Keys,          \* values of the order column
  Shown,         \* rows that the narrowing leaves
  Limit,         \* rows of a page
  MaxRowEdits    \* bound: rows that come, go or change

ASSUME PagesAssumption ==
  /\ Ids \subseteq Nat \ {0} /\ IsFiniteSet(Ids) /\ Keys \subseteq Nat \ {0}
  /\ Shown \subseteq Ids /\ Limit \in Nat \ {0}

VARIABLES
  key,           \* the table: [Ids -> Keys], 0 for no such row
  descending,
  client,        \* what it is waiting for, the row it names last, and what that row's key was
  listed,        \* how often it was shown each row
  lasting,        \* history: rows unchanged since it began
  restarted,     \* history: the row it named was gone, the list began again
  moved,         \* history: the row it named had been moved
  rowEdits

pagesVars == <<key, descending, client, listed, lasting, restarted, moved, rowEdits>>

Idle0 == [pc |-> "closed", anchor |-> 0, at |-> 0]

PagesTypeOK ==
  /\ key \in [Ids -> Keys \cup {0}] /\ descending \in BOOLEAN
  /\ client \in [pc : {"closed", "ask", "read", "end"}, anchor : Ids \cup {0}, at : Keys \cup {0}]
  /\ listed \in [Ids -> Nat] /\ lasting \subseteq Ids

-----------------------------------------------------------------------------
Rows == {x \in Ids : key[x] # 0}

\* Mutant: rows with the anchor's key are passed over.
BeyondByKey(k, x) == {y \in Rows : IF descending THEN key[y] < k ELSE key[y] > k}

(* The keyset comparison (order column, id) < anchor, or > ascending. *)
Beyond(k, x) ==
  {y \in Rows : IF descending THEN key[y] < k \/ (key[y] = k /\ y < x)
                ELSE key[y] > k \/ (key[y] = k /\ y > x)}

(* ORDER BY ... LIMIT *)
FirstRows(found) == {x \in found : Cardinality({y \in found : x \in Beyond(key[y], y)}) < Limit}
LastRow(page) == CHOOSE x \in page : Beyond(key[x], x) \cap page = {}

PagesInit ==
  /\ key \in [Ids -> Keys \cup {0}] /\ descending \in BOOLEAN
  /\ client = Idle0
  /\ listed = [x \in Ids |-> 0]
  /\ lasting = {} /\ restarted = FALSE /\ moved = FALSE
  /\ rowEdits = 0

Open ==
  /\ client.pc = "closed"
  /\ client' = [client EXCEPT !.pc = "read"]
  /\ lasting' = Rows
  /\ UNCHANGED <<key, descending, listed, restarted, moved, rowEdits>>

(* The anchor query: a row that is gone means the first page again. *)
FindAnchor ==
  /\ client.pc = "ask"
  /\ LET k == key[client.anchor] IN
     /\ client' = [client EXCEPT !.pc = "read", !.at = k, !.anchor = IF k = 0 THEN 0 ELSE @]
     /\ restarted' = (restarted \/ k = 0)
     /\ moved' = (moved \/ (k # 0 /\ k # client.at))
  /\ UNCHANGED <<key, descending, listed, lasting, rowEdits>>

(* The page.  has_more is whether it is full; what the client names next is *)
(* the page's last row, whether it was shown or not.                        *)
ReadPage ==
  /\ client.pc = "read"
  /\ LET page == FirstRows(IF client.anchor = 0 THEN Rows ELSE Beyond(client.at, client.anchor))
         last == LastRow(page) IN
     /\ listed' = [x \in Ids |-> IF x \in page \cap Shown THEN listed[x] + 1 ELSE listed[x]]
     /\ client' = IF Cardinality(page) = Limit THEN [pc |-> "ask", anchor |-> last, at |-> key[last]]
                  ELSE [Idle0 EXCEPT !.pc = "end"]
  /\ UNCHANGED <<key, descending, lasting, restarted, moved, rowEdits>>

(* Whatever writes the table: insert, delete or rename. *)
EditRow(x, k) ==
  /\ key[x] # k /\ rowEdits < MaxRowEdits
  /\ key' = [key EXCEPT ![x] = k]
  /\ lasting' = lasting \ {x}
  /\ rowEdits' = rowEdits + 1
  /\ UNCHANGED <<descending, client, listed, restarted, moved>>

PagesNext ==
  \/ Open \/ FindAnchor \/ ReadPage
  \/ \E x \in Ids, k \in Keys \cup {0} : EditRow(x, k)

PagesSpec == PagesInit /\ [][PagesNext]_pagesVars
-----------------------------------------------------------------------------
(* Once the client has reached the end it was shown every row that was there *)
(* unchanged all along, exactly once, whatever came, went or moved around    *)
(* it; but more than once if a row it named was removed meanwhile.  Only a   *)
(* renamed row that it names can lead it astray.                             *)
ListIsComplete ==
  client.pc = "end" /\ ~moved =>
    \A x \in lasting \cap Shown : listed[x] >= 1 /\ (listed[x] = 1 \/ restarted)
=============================================================================
