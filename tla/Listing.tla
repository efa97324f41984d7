------------------------------- MODULE Listing -------------------------------
(***************************************************************************)
(* The paged lists (findAll of organizations, partners and invoices) and a *)
(* client that reads one page after the other while rows come, go and move.*)
(* One request is several queries without a common snapshot: getManyAndCount *)
(* reads the page, then counts; with joins TypeORM first selects the keys  *)
(* of the page, then the rows with these keys; and findAll of partners     *)
(* then reads the invoices of each partner of the page.                    *)
(*                                                                         *)
(* A list is what matches the filters; its rows are ordered by a sort key, *)
(* compared in the direction the query asks for.                           *)
(***************************************************************************)
EXTENDS Integers, FiniteSetsExt

CONSTANTS
  Rows,    \* primary keys, as numbers to have their order
  Keys,    \* values of the column sorted by; two rows may have the same
  Limit    \* query.limit

ASSUME RowsAreNumbers == Rows \subseteq Nat /\ IsFiniteSet(Rows)
ASSUME KeysAreNumbers == Keys \subseteq Nat
ASSUME LimitIsPositive == Limit \in Nat \ {0}

VARIABLES
  kind,    \* which of the lists
  table,   \* the sort key of each row, Absent if it is not in the list
  walk,    \* the client's request: its stage, page, rows and total so far
  seen,    \* what the client has been given
  since    \* history: what has happened since the client began

vars == <<kind, table, walk, seen, since>>

Kinds  == {"organizations", "partners", "invoices"}
Stages == {"read", "load", "count", "fill", "answer", "done"}
Absent == -1
Listed == {x \in Rows : table[x] # Absent}

\* since.start is the list as it was. A list is shuffled when a row moves or when
\* its order leaves the order of two rows open.
History == [start : SUBSET Rows, events : SUBSET {"grown", "shrunk", "shuffled"},
            repeated : BOOLEAN]

FirstPage == [stage |-> "read", page |-> 1, rows |-> {}, total |-> 0, stale |-> FALSE]

Init ==
  /\ kind \in Kinds
  /\ table \in [Rows -> Keys \cup {Absent}]
  /\ walk = FirstPage
  /\ seen = {}
  /\ since = [start |-> Listed, events |-> {}, repeated |-> FALSE]

Note(event) == since' = [since EXCEPT !.events = @ \cup {event}]

-----------------------------------------------------------------------------
\* Other clients.
Create(x, k) ==
  /\ x \notin Listed
  /\ table' = [table EXCEPT ![x] = k]
  /\ Note("grown")
  /\ UNCHANGED <<kind, walk, seen>>

\* A column sorted by changes, if the list can be sorted by one that does.
Move(x, k) ==
  /\ x \in Listed /\ kind # "partners"
  /\ table' = [table EXCEPT ![x] = k]
  /\ Note("shuffled")
  /\ UNCHANGED <<kind, walk, seen>>

\* The row is deleted, or no longer matches the filters.
Remove(x) ==
  /\ x \in Listed
  /\ table' = [table EXCEPT ![x] = Absent]
  /\ Note("shrunk")
  /\ walk' = [walk EXCEPT !.stale = walk.stage \in {"load", "count"} \/ @]
  /\ UNCHANGED <<kind, seen>>

-----------------------------------------------------------------------------
\* The keys query of a joined list breaks ties by primary key; the others do not.
Before(x, y) ==
  \/ table[x] < table[y]
  \/ kind = "invoices" /\ table[x] = table[y] /\ x < y

Tied == kind # "invoices" /\ \E x, y \in Listed : x # y /\ table[x] = table[y]

\* Mutants: pages are counted from zero; the page number is taken for the offset.
SkipFromZero(page) == page * Limit
SkipRows(page) == page - 1

Skip(page) == (page - 1) * Limit

\* Nothing outside S comes before a row of S.
Leads(S) == \A x \in S, y \in Listed \ S : ~Before(y, x)

\* Mutant: everything after the offset.
TailOf(S, page) == \E B \in SUBSET Listed : S = Listed \ B /\ Cardinality(B) = page - 1

\* ORDER BY ... LIMIT ... OFFSET ...: S is cut out of some ordering of the list.
IsPage(S, page) ==
  \E B \in SUBSET (Listed \ S) :
    /\ Cardinality(B) = Min({Skip(page), Cardinality(Listed)})
    /\ Cardinality(S) = Min({Limit, Cardinality(Listed \ B)})
    /\ Leads(B) /\ Leads(B \cup S)

ReadPage(S) ==
  /\ walk.stage = "read" /\ IsPage(S, walk.page)
  /\ walk' = [walk EXCEPT !.rows = S,
                !.stage = CASE kind = "organizations" -> "count"
                            [] kind = "partners" -> "fill"
                            [] kind = "invoices" -> "load"]
  /\ IF Tied THEN Note("shuffled") ELSE UNCHANGED since
  /\ UNCHANGED <<kind, table, seen>>

\* The rows of the selected keys that still match the filters.
LoadRows ==
  /\ walk.stage = "load"
  /\ walk' = [walk EXCEPT !.rows = @ \cap Listed, !.stage = "count"]
  /\ UNCHANGED <<kind, table, seen, since>>

\* Mutant: the total is that of the page.
CountPage(total) ==
  /\ walk.stage = "count"
  /\ total = Cardinality(walk.rows)
  /\ walk' = [walk EXCEPT !.total = total, !.stage = "answer"]
  /\ UNCHANGED <<kind, table, seen, since>>

\* A page that is not full ends the list, and may save TypeORM the count.
CountRows(total) ==
  LET shown == Cardinality(walk.rows)
  IN  /\ walk.stage = "count"
      /\ \/ total = Cardinality(Listed)
         \/ /\ shown < Limit /\ (shown > 0 \/ walk.page = 1)
            /\ total = Skip(walk.page) + shown
      /\ walk' = [walk EXCEPT !.total = total, !.stage = "answer"]
      /\ UNCHANGED <<kind, table, seen, since>>

\* The invoices of the partners of the page, which may be gone by now.
FillInvoices ==
  /\ walk.stage = "fill"
  /\ walk' = [walk EXCEPT !.stage = "answer"]
  /\ UNCHANGED <<kind, table, seen, since>>

\* Organizations come with totalPages; the other lists as rows only, where a page
\* that is not full is the last.
IsLast ==
  IF kind = "organizations" THEN walk.page * Limit >= walk.total
  ELSE Cardinality(walk.rows) < Limit

Answer ==
  /\ walk.stage = "answer"
  /\ seen' = seen \cup walk.rows
  /\ since' = [since EXCEPT !.repeated = @ \/ seen \cap walk.rows # {}]
  /\ walk' = IF IsLast THEN [walk EXCEPT !.stage = "done"]
             ELSE [FirstPage EXCEPT !.page = walk.page + 1]
  /\ UNCHANGED <<kind, table>>

Next ==
  \/ \E x \in Rows, k \in Keys : Create(x, k) \/ Move(x, k)
  \/ \E x \in Rows : Remove(x)
  \/ \E S \in SUBSET Listed : ReadPage(S)
  \/ LoadRows \/ FillInvoices \/ Answer
  \/ \E total \in 0 .. 2 * Cardinality(Rows) : CountRows(total)

Spec == Init /\ [][Next]_vars

-----------------------------------------------------------------------------
\* A page holds at most as many rows as were asked for.
TypeOK ==
  /\ kind \in Kinds
  /\ table \in [Rows -> Keys \cup {Absent}]
  /\ walk \in [stage : Stages, page : Nat \ {0}, rows : SUBSET Rows, total : Nat,
              stale : BOOLEAN]
  /\ Cardinality(walk.rows) <= Limit
  /\ seen \subseteq Rows
  /\ since \in History

\* A client that reads to the last page has seen every row that was in the list
\* when it began, however many were added meanwhile, as long as none left or
\* moved and no two had the same key in a list that breaks no ties.
NothingMissed ==
  walk.stage = "done" /\ since.events \cap {"shrunk", "shuffled"} = {} =>
    since.start \subseteq seen

\* ... and has seen none twice, however many left meanwhile, as long as none was
\* added or moved.
NothingTwice ==
  since.repeated => since.events \cap {"grown", "shuffled"} # {}

\* findAll of organizations and invoices: the total covers the page it is sent
\* with, although it is counted later, unless rows left in between.
TotalCoversPage ==
  walk.stage = "answer" /\ kind # "partners" /\ walk.rows # {} /\ ~walk.stale =>
    Skip(walk.page) + Cardinality(walk.rows) <= walk.total
=============================================================================
