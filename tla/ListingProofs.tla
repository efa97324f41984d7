---------------------------- MODULE ListingProofs ----------------------------
(***************************************************************************)
(* Theorems about Listing, for every finite set of rows, every set of keys *)
(* and every limit.  What carries them is where a row stands: how many     *)
(* rows of the list come before it.  A page is the rows that have at least *)
(* Skip and fewer than Skip + Limit before them; rows that are added push  *)
(* the others back, rows that leave let them move up, and nothing else     *)
(* moves them as long as no key changes.                                   *)
(***************************************************************************)
EXTENDS Listing, FiniteSetTheorems, TLAPS

-----------------------------------------------------------------------------
\* Arithmetic of pages.
LEMMA SkipNext ==
  ASSUME NEW p \in Nat \ {0}
  PROVE  Skip(p) \in Nat /\ Skip(p + 1) = Skip(p) + Limit /\ p * Limit = Skip(p) + Limit
<1>1. Limit \in Nat /\ p - 1 \in Nat
  BY LimitIsPositive
<1>. DEFINE q == p - 1
<1>2. q \in Nat /\ p = q + 1
  BY <1>1
<1>. HIDE DEF q
<1>3. (q + 1) * Limit = q * Limit + Limit /\ q * Limit \in Nat
  BY <1>1, <1>2
<1>. QED  BY <1>1, <1>2, <1>3 DEF Skip, q

LEMMA MinOfTwo ==
  ASSUME NEW a \in Int, NEW b \in Int
  PROVE  Min({a, b}) \in {a, b} /\ Min({a, b}) <= a /\ Min({a, b}) <= b
<1>1. \E x \in {a, b} : \A y \in {a, b} : x <= y
  OBVIOUS
<1>. QED  BY <1>1 DEF Min

\* The list is finite, and so is every part of it.
LEMMA PartsAreFinite ==
  ASSUME NEW T \in SUBSET Rows
  PROVE  /\ IsFiniteSet(T) /\ Cardinality(T) \in Nat
         /\ \A U \in SUBSET T : Cardinality(U) <= Cardinality(T)
         /\ \A U \in SUBSET T : Cardinality(U) = Cardinality(T) => U = T
         /\ \A x \in T : \A U \in SUBSET (T \ {x}) : Cardinality(U) < Cardinality(T)
<1>1. IsFiniteSet(T) /\ Cardinality(T) \in Nat
  BY FS_Subset, FS_CardinalityType, RowsAreNumbers
<1>2. \A U \in SUBSET T : Cardinality(U) <= Cardinality(T) /\ Cardinality(U) \in Nat
  BY <1>1, FS_Subset, FS_CardinalityType
<1>3. \A U \in SUBSET T : Cardinality(U) = Cardinality(T) => U = T
  BY <1>1, FS_Subset
<1>4. ASSUME NEW x \in T, NEW U \in SUBSET (T \ {x})
      PROVE  Cardinality(U) < Cardinality(T)
  <2>1. U \in SUBSET T /\ U # T
    OBVIOUS
  <2>. QED  BY <1>1, <1>2, <1>3, <2>1
<1>. QED  BY <1>1, <1>2, <1>3, <1>4

-----------------------------------------------------------------------------
\* Where a row stands.
Preceding(x) == {y \in Listed : Before(y, x)}
Ahead(x)     == Cardinality(Preceding(x))

LEMMA AheadIsNat ==
  ASSUME NEW x
  PROVE  Preceding(x) \in SUBSET Rows /\ Ahead(x) \in Nat
<1>1. Preceding(x) \in SUBSET Rows
  BY DEF Preceding, Listed
<1>. QED  BY <1>1, PartsAreFinite DEF Ahead

\* Without ties the order is total.
LEMMA OrderIsTotal ==
  ASSUME TypeOK, ~Tied, NEW x \in Listed, NEW y \in Listed
  PROVE  /\ ~Before(x, x)
         /\ x # y => (Before(x, y) \/ Before(y, x))
<1>1. table[x] \in Nat /\ table[y] \in Nat /\ x \in Nat /\ y \in Nat
  BY RowsAreNumbers, KeysAreNumbers DEF TypeOK, Listed
<1>. QED  BY <1>1 DEF Tied, Before

LEMMA NotBeforeItself ==
  ASSUME TypeOK, NEW x \in Listed
  PROVE  ~Before(x, x)
<1>1. table[x] \in Nat /\ x \in Nat
  BY RowsAreNumbers, KeysAreNumbers DEF TypeOK, Listed
<1>. QED  BY <1>1 DEF Before

\* The rows before the page, and the page.
IsCut(B, S, p) ==
  /\ Leads(B) /\ Leads(B \cup S)
  /\ Cardinality(B) <= Skip(p) /\ Cardinality(S) <= Limit
  /\ S # {} => Cardinality(B) = Skip(p)
  /\ B \cup S # Listed => Cardinality(B) = Skip(p) /\ Cardinality(S) = Limit
  /\ Cardinality(B \cup S) = Cardinality(B) + Cardinality(S)
  /\ Cardinality(B \cup S) \in Nat /\ Cardinality(B) \in Nat

LEMMA PageIsCut ==
  ASSUME TypeOK, NEW p \in Nat \ {0}, NEW S \in SUBSET Listed, IsPage(S, p)
  PROVE  \E B \in SUBSET (Listed \ S) : IsCut(B, S, p)
<1>1. PICK B \in SUBSET (Listed \ S) :
        /\ Cardinality(B) = Min({Skip(p), Cardinality(Listed)})
        /\ Cardinality(S) = Min({Limit, Cardinality(Listed \ B)})
        /\ Leads(B) /\ Leads(B \cup S)
  BY DEF IsPage
<1>2. /\ Listed \in SUBSET Rows /\ B \in SUBSET Listed /\ S \in SUBSET (Listed \ B)
      /\ Listed \ B \in SUBSET Rows /\ B \cup S \in SUBSET Rows /\ S \in SUBSET Rows
  BY DEF Listed
<1>3. /\ Skip(p) \in Nat /\ Limit \in Nat
      /\ Cardinality(Listed) \in Nat /\ Cardinality(Listed \ B) \in Nat
  BY <1>2, SkipNext, LimitIsPositive, PartsAreFinite
<1>4. /\ Cardinality(B) <= Skip(p) /\ Cardinality(S) <= Limit
      /\ Cardinality(B) = Skip(p) \/ Cardinality(B) = Cardinality(Listed)
      /\ Cardinality(S) = Limit \/ Cardinality(S) = Cardinality(Listed \ B)
  <2>1. /\ Min({Skip(p), Cardinality(Listed)}) \in {Skip(p), Cardinality(Listed)}
        /\ Min({Skip(p), Cardinality(Listed)}) <= Skip(p)
    <3>. DEFINE a == Skip(p)
                b == Cardinality(Listed)
    <3>1. a \in Int /\ b \in Int
      BY <1>3
    <3>. HIDE DEF a, b
    <3>2. Min({a, b}) \in {a, b} /\ Min({a, b}) <= a
      BY <3>1, MinOfTwo
    <3>. QED  BY <3>2 DEF a, b
  <2>2. /\ Min({Limit, Cardinality(Listed \ B)}) \in {Limit, Cardinality(Listed \ B)}
        /\ Min({Limit, Cardinality(Listed \ B)}) <= Limit
    <3>. DEFINE b == Cardinality(Listed \ B)
    <3>1. b \in Int /\ Limit \in Int
      BY <1>3
    <3>. HIDE DEF b
    <3>2. Min({Limit, b}) \in {Limit, b} /\ Min({Limit, b}) <= Limit
      BY <3>1, MinOfTwo
    <3>. QED  BY <3>2 DEF b
  <2>. QED  BY <1>1, <2>1, <2>2
<1>5. B # Listed => Cardinality(B) = Skip(p)
  BY <1>2, <1>4, PartsAreFinite
<1>6. S # Listed \ B => Cardinality(S) = Limit
  BY <1>2, <1>4, PartsAreFinite
<1>7. /\ S # {} => Cardinality(B) = Skip(p)
      /\ B \cup S # Listed => Cardinality(B) = Skip(p) /\ Cardinality(S) = Limit
  BY <1>2, <1>5, <1>6
<1>8. Cardinality(B \cup S) = Cardinality(B) + Cardinality(S)
  <2>1. IsFiniteSet(B) /\ IsFiniteSet(S) /\ B \cap S = {}
    BY <1>2, PartsAreFinite
  <2>2. Cardinality(B) \in Nat /\ Cardinality(S) \in Nat
    BY <2>1, FS_CardinalityType
  <2>3. Cardinality(B \cap S) = 0
    BY <2>1, FS_EmptySet
  <2>4. Cardinality(B \cup S) = Cardinality(B) + Cardinality(S) - Cardinality(B \cap S)
    BY <2>1, FS_Union
  <2>. QED  BY <2>2, <2>3, <2>4
<1>9. Cardinality(B \cup S) \in Nat /\ Cardinality(B) \in Nat
  BY <1>2, PartsAreFinite
<1>10. IsCut(B, S, p)
  BY <1>1, <1>4, <1>7, <1>8, <1>9 DEF IsCut
<1>. QED  BY <1>10

\* A page is the rows that stand between its borders.
LEMMA PageIsBetween ==
  ASSUME TypeOK, ~Tied, NEW p \in Nat \ {0}, NEW S \in SUBSET Listed, IsPage(S, p),
         NEW x \in Listed
  PROVE  /\ x \in S => Skip(p) <= Ahead(x) /\ Ahead(x) < Skip(p) + Limit
         /\ x \notin S => \/ Ahead(x) < Skip(p)
                          \/ Skip(p) + Limit <= Ahead(x) /\ Cardinality(S) = Limit
<1>0. PICK B \in SUBSET (Listed \ S) : IsCut(B, S, p)
  BY PageIsCut
<1>1. /\ Leads(B) /\ Leads(B \cup S)
      /\ Cardinality(B) <= Skip(p) /\ Cardinality(S) <= Limit
      /\ S # {} => Cardinality(B) = Skip(p)
      /\ B \cup S # Listed => Cardinality(B) = Skip(p) /\ Cardinality(S) = Limit
      /\ Cardinality(B \cup S) = Cardinality(B) + Cardinality(S)
      /\ Cardinality(B \cup S) \in Nat /\ Cardinality(B) \in Nat
  BY <1>0 DEF IsCut
<1>2. /\ Skip(p) \in Nat /\ Limit \in Nat /\ Ahead(x) \in Nat
      /\ Preceding(x) \in SUBSET Rows
      /\ B \in SUBSET Rows /\ B \cup S \in SUBSET Rows
      /\ Cardinality(S) <= Limit /\ Cardinality(S) \in Nat
  <2>1. S \in SUBSET Rows /\ B \in SUBSET Rows
    BY DEF Listed
  <2>. QED  BY <1>1, <2>1, AheadIsNat, SkipNext, LimitIsPositive, PartsAreFinite
<1>3. \A y \in Listed : (y # x => Before(x, y) \/ Before(y, x)) /\ ~Before(x, x)
  BY OrderIsTotal
<1>4. CASE x \in B
  <2>1. Preceding(x) \in SUBSET (B \ {x})
    BY <1>1, <1>3, <1>4 DEF Preceding, Leads
  <2>2. Ahead(x) < Cardinality(B)
    BY <1>2, <1>4, <2>1, PartsAreFinite DEF Ahead
  <2>. QED  BY <1>1, <1>2, <1>4, <2>2
<1>5. CASE x \in S
  <2>1. B \in SUBSET Preceding(x)
    BY <1>1, <1>3, <1>5 DEF Preceding, Leads
  <2>2. Preceding(x) \in SUBSET ((B \cup S) \ {x})
    BY <1>1, <1>3, <1>5 DEF Preceding, Leads
  <2>3. Cardinality(B) <= Ahead(x) /\ Ahead(x) < Cardinality(B \cup S)
    BY <1>2, <1>5, <2>1, <2>2, PartsAreFinite DEF Ahead
  <2>. QED  BY <1>1, <1>2, <1>5, <2>3
<1>6. CASE x \notin B \cup S
  <2>1. B \cup S \in SUBSET Preceding(x)
    BY <1>1, <1>3, <1>6 DEF Preceding, Leads
  <2>2. Cardinality(B \cup S) <= Ahead(x)
    BY <1>2, <2>1, PartsAreFinite DEF Ahead
  <2>. QED  BY <1>1, <1>2, <1>6, <2>2
<1>. QED  BY <1>4, <1>5, <1>6

-----------------------------------------------------------------------------
\* Types.
LEMMA TypeStep ==
  ASSUME TypeOK, [Next]_vars
  PROVE  TypeOK'
<1>. USE DEF Listed, Stages, Kinds, History
<1>0. /\ walk \in [stage : Stages, page : Nat \ {0}, rows : SUBSET Rows, total : Nat,
                   stale : BOOLEAN]
      /\ Cardinality(walk.rows) <= Limit
      /\ since \in History /\ seen \subseteq Rows
  BY DEF TypeOK
<1>1. ASSUME NEW x \in Rows, NEW k \in Keys, Create(x, k) \/ Move(x, k) PROVE TypeOK'
  BY <1>0, <1>1 DEF Create, Move, Note, TypeOK
<1>2. ASSUME NEW x \in Rows, Remove(x) PROVE TypeOK'
  <2>1. /\ walk' \in [stage : Stages, page : Nat \ {0}, rows : SUBSET Rows, total : Nat,
                      stale : BOOLEAN]
        /\ walk'.rows = walk.rows
    BY <1>0, <1>2 DEF Remove
  <2>2. since' \in History /\ table' \in [Rows -> Keys \cup {Absent}]
    BY <1>0, <1>2 DEF Remove, Note, TypeOK
  <2>. QED  BY <1>0, <1>2, <2>1, <2>2 DEF Remove, TypeOK
<1>3. ASSUME NEW S \in SUBSET Listed, ReadPage(S) PROVE TypeOK'
  <2>1. Cardinality(S) <= Limit
    BY <1>0, <1>3, PageIsCut DEF ReadPage, IsCut
  <2>2. /\ walk' \in [stage : Stages, page : Nat \ {0}, rows : SUBSET Rows, total : Nat,
                      stale : BOOLEAN]
        /\ walk'.rows = S
    <3>1. kind \in Kinds
      BY DEF TypeOK
    <3>. QED  BY <1>0, <1>3, <3>1 DEF ReadPage
  <2>3. since' \in History
    BY <1>0, <1>3 DEF ReadPage, Note
  <2>. QED  BY <1>0, <1>3, <2>1, <2>2, <2>3 DEF ReadPage, TypeOK
<1>4. CASE LoadRows
  <2>1. /\ walk' \in [stage : Stages, page : Nat \ {0}, rows : SUBSET Rows, total : Nat,
                      stale : BOOLEAN]
        /\ walk'.rows \in SUBSET walk.rows
    BY <1>0, <1>4 DEF LoadRows
  <2>2. Cardinality(walk'.rows) <= Limit
    <3>1. /\ Cardinality(walk'.rows) <= Cardinality(walk.rows)
          /\ Cardinality(walk'.rows) \in Nat /\ Cardinality(walk.rows) \in Nat
      BY <1>0, <2>1, PartsAreFinite
    <3>. QED  BY <1>0, <3>1, LimitIsPositive
  <2>. QED  BY <1>0, <1>4, <2>1, <2>2 DEF LoadRows, TypeOK
<1>5. CASE FillInvoices
  BY <1>0, <1>5 DEF FillInvoices, TypeOK
<1>6. CASE Answer
  <2>1. walk'.rows = walk.rows \/ walk'.rows = {}
    BY <1>0, <1>6 DEF Answer, FirstPage
  <2>2. Cardinality(walk'.rows) <= Limit
    BY <1>0, <2>1, FS_EmptySet, LimitIsPositive
  <2>3. walk' \in [stage : Stages, page : Nat \ {0}, rows : SUBSET Rows, total : Nat,
                   stale : BOOLEAN]
    <3>1. CASE walk' = [walk EXCEPT !.stage = "done"]
      BY <1>0, <3>1
    <3>2. CASE walk' = [FirstPage EXCEPT !.page = walk.page + 1]
      <4>1. walk' = [stage |-> "read", page |-> walk.page + 1, rows |-> {}, total |-> 0,
                     stale |-> FALSE]
        BY <3>2 DEF FirstPage
      <4>. QED  BY <1>0, <4>1
    <3>. QED  BY <1>6, <3>1, <3>2 DEF Answer
  <2>4. since' \in History /\ seen' \subseteq Rows
    BY <1>0, <1>6 DEF Answer
  <2>. QED  BY <1>6, <2>2, <2>3, <2>4 DEF Answer, TypeOK
<1>7. ASSUME NEW total \in 0 .. 2 * Cardinality(Rows), CountRows(total) PROVE TypeOK'
  <2>1. total \in Nat
    BY PartsAreFinite
  <2>. QED  BY <1>0, <1>7, <2>1 DEF CountRows, TypeOK
<1>8. CASE UNCHANGED vars
  BY <1>8 DEF vars, TypeOK
<1>. QED  BY <1>1, <1>2, <1>3, <1>4, <1>5, <1>6, <1>7, <1>8 DEF Next

\* Every state of a walk through a list is well typed, and a page holds at most as
\* many rows as were asked for, also where its rows were selected by key first.
THEOREM TypeCorrect == Spec => []TypeOK
<1>1. Init => TypeOK
  BY FS_EmptySet, LimitIsPositive
     DEF Init, TypeOK, FirstPage, History, Stages, Listed
<1>2. TypeOK /\ [Next]_vars => TypeOK'
  BY TypeStep
<1>. QED  BY <1>1, <1>2, PTL DEF Spec

-----------------------------------------------------------------------------
\* What the other clients do to where a row stands.
LEMMA AddedRow ==
  ASSUME TypeOK, NEW x \in Rows, NEW k \in Keys, Create(x, k)
  PROVE  /\ Listed' = Listed \cup {x}
         /\ \A y \in Listed : Ahead(y) <= Ahead(y)'
<1>1. /\ Listed' = Listed \cup {x} /\ kind' = kind
      /\ \A y \in Listed : table'[y] = table[y]
  BY KeysAreNumbers DEF TypeOK, Create, Listed, Absent
<1>2. ASSUME NEW y \in Listed PROVE Ahead(y) <= Ahead(y)'
  <2>1. Preceding(y) \in SUBSET Preceding(y)'
    BY <1>1, <1>2 DEF Preceding, Before
  <2>2. Preceding(y)' \in SUBSET Rows
    BY DEF Preceding, Listed
  <2>. QED  BY <2>1, <2>2, PartsAreFinite DEF Ahead
<1>. QED  BY <1>1, <1>2

LEMMA RemovedRow ==
  ASSUME TypeOK, NEW x \in Rows, Remove(x)
  PROVE  /\ Listed' = Listed \ {x}
         /\ \A y \in Listed' : Ahead(y)' <= Ahead(y)
<1>1. /\ Listed' = Listed \ {x} /\ kind' = kind
      /\ \A y \in Listed' : table'[y] = table[y]
  BY DEF TypeOK, Remove, Listed, Absent
<1>2. ASSUME NEW y \in Listed' PROVE Ahead(y)' <= Ahead(y)
  <2>1. Preceding(y)' \in SUBSET Preceding(y)
    BY <1>1, <1>2 DEF Preceding, Before
  <2>2. Preceding(y) \in SUBSET Rows
    BY DEF Preceding, Listed
  <2>. QED  BY <2>1, <2>2, PartsAreFinite DEF Ahead
<1>. QED  BY <1>1, <1>2

\* The steps of the walk leave the list alone.
LEMMA SameList ==
  ASSUME UNCHANGED <<kind, table>>
  PROVE  Listed' = Listed /\ \A x : Ahead(x)' = Ahead(x)
BY DEF Listed, Ahead, Preceding, Before

\* The handler's fields, step by step.
LEMMA WalkSteps ==
  ASSUME TypeOK
  PROVE  /\ \A S \in SUBSET Listed : ReadPage(S) =>
              /\ walk.stage = "read" /\ walk'.stage \in {"load", "count", "fill"}
              /\ walk'.stage = "fill" => kind = "partners"
              /\ walk'.page = walk.page /\ walk'.rows = S /\ walk'.stale = walk.stale
         /\ LoadRows => /\ walk.stage = "load" /\ walk'.stage = "count"
                        /\ walk'.page = walk.page /\ walk'.stale = walk.stale
                        /\ walk'.rows = walk.rows \cap Listed
         /\ FillInvoices => /\ walk.stage = "fill" /\ walk'.stage = "answer"
                            /\ walk'.page = walk.page /\ walk'.stale = walk.stale
                            /\ walk'.rows = walk.rows
         /\ \A total \in Nat : CountRows(total) =>
              /\ walk.stage = "count" /\ walk'.stage = "answer"
              /\ walk'.page = walk.page /\ walk'.stale = walk.stale
              /\ walk'.rows = walk.rows /\ walk'.total = total
         /\ Answer =>
              /\ walk.stage = "answer"
              /\ \/ /\ IsLast /\ walk'.stage = "done"
                    /\ walk'.page = walk.page /\ walk'.rows = walk.rows
                 \/ /\ ~IsLast /\ walk'.stage = "read"
                    /\ walk'.page = walk.page + 1 /\ walk'.rows = {}
<1>1. walk \in [stage : Stages, page : Nat \ {0}, rows : SUBSET Rows, total : Nat,
                stale : BOOLEAN] /\ kind \in Kinds
  BY DEF TypeOK
<1>2. ASSUME NEW S \in SUBSET Listed, ReadPage(S)
      PROVE  /\ walk.stage = "read" /\ walk'.stage \in {"load", "count", "fill"}
             /\ walk'.stage = "fill" => kind = "partners"
             /\ walk'.page = walk.page /\ walk'.rows = S /\ walk'.stale = walk.stale
  BY <1>1, <1>2 DEF ReadPage, Kinds
<1>3. ASSUME LoadRows
      PROVE  /\ walk.stage = "load" /\ walk'.stage = "count"
             /\ walk'.page = walk.page /\ walk'.stale = walk.stale
             /\ walk'.rows = walk.rows \cap Listed
  BY <1>1, <1>3 DEF LoadRows
<1>4. ASSUME FillInvoices
      PROVE  /\ walk.stage = "fill" /\ walk'.stage = "answer"
             /\ walk'.page = walk.page /\ walk'.stale = walk.stale
             /\ walk'.rows = walk.rows
  BY <1>1, <1>4 DEF FillInvoices
<1>5. ASSUME NEW total \in Nat, CountRows(total)
      PROVE  /\ walk.stage = "count" /\ walk'.stage = "answer"
             /\ walk'.page = walk.page /\ walk'.stale = walk.stale
             /\ walk'.rows = walk.rows /\ walk'.total = total
  BY <1>1, <1>5 DEF CountRows
<1>6. ASSUME Answer
      PROVE  /\ walk.stage = "answer"
             /\ \/ /\ IsLast /\ walk'.stage = "done"
                   /\ walk'.page = walk.page /\ walk'.rows = walk.rows
                \/ /\ ~IsLast /\ walk'.stage = "read"
                   /\ walk'.page = walk.page + 1 /\ walk'.rows = {}
  <2>1. CASE IsLast
    BY <1>1, <1>6, <2>1 DEF Answer
  <2>2. CASE ~IsLast
    <3>1. walk' = [stage |-> "read", page |-> walk.page + 1, rows |-> {}, total |-> 0,
                   stale |-> FALSE]
      BY <1>6, <2>2 DEF Answer, FirstPage
    <3>. QED  BY <1>6, <2>2, <3>1 DEF Answer
  <2>. QED  BY <2>1, <2>2
<1>. QED  BY <1>2, <1>3, <1>4, <1>5, <1>6

\* The history only grows.
LEMMA EventsGrow ==
  ASSUME TypeOK, [Next]_vars
  PROVE  /\ since.events \subseteq since'.events /\ since'.start = since.start
         /\ \A x \in Rows, k \in Keys : Create(x, k) => "grown" \in since'.events
         /\ \A x \in Rows, k \in Keys : Move(x, k) => "shuffled" \in since'.events
         /\ \A x \in Rows : Remove(x) => "shrunk" \in since'.events
         /\ \A S \in SUBSET Listed : ReadPage(S) /\ Tied => "shuffled" \in since'.events
         /\ ~Answer => since'.repeated = since.repeated
<1>1. since \in History
  BY DEF TypeOK
<1>2. ASSUME NEW e, Note(e)
      PROVE  /\ e \in since'.events /\ since.events \subseteq since'.events
             /\ since'.start = since.start /\ since'.repeated = since.repeated
  BY <1>1, <1>2 DEF Note, History
<1>3. CASE Answer
  BY <1>1, <1>2, <1>3 DEF Answer, History, Create, Move, Remove, ReadPage
<1>4. CASE ~Answer
  BY <1>2, <1>4 DEF Next, vars, Create, Move, Remove, ReadPage, LoadRows, CountRows, FillInvoices
<1>. QED  BY <1>3, <1>4

\* How many rows a walk has gone past.
Reached ==
  IF walk.stage = "read" THEN Skip(walk.page) ELSE Skip(walk.page) + Limit

LEMMA ReachedIsNat ==
  ASSUME TypeOK
  PROVE  /\ walk.page \in Nat \ {0} /\ Skip(walk.page) \in Nat /\ Limit \in Nat
         /\ Reached \in Nat
BY SkipNext, LimitIsPositive DEF TypeOK, Reached

\* A request begins without rows; only partners are followed by their invoices.
FreshPage ==
  /\ walk.stage = "read" => walk.rows = {}
  /\ walk.stage = "fill" => kind = "partners"

LEMMA FreshStep ==
  ASSUME TypeOK, FreshPage, [Next]_vars
  PROVE  FreshPage'
<1>1. \A n \in 0 .. 2 * Cardinality(Rows) : n \in Nat
  BY PartsAreFinite
<1>2. ASSUME NEW x \in Rows, NEW k \in Keys, Create(x, k) \/ Move(x, k) PROVE FreshPage'
  BY <1>2 DEF Create, Move, FreshPage
<1>3. ASSUME NEW x \in Rows, Remove(x) PROVE FreshPage'
  BY <1>3 DEF Remove, FreshPage, TypeOK
<1>4. ASSUME NEW S \in SUBSET Listed, ReadPage(S) PROVE FreshPage'
  BY <1>4, WalkSteps DEF FreshPage, ReadPage
<1>5. CASE LoadRows \/ FillInvoices \/ Answer
  BY <1>5, WalkSteps DEF FreshPage, LoadRows, FillInvoices, Answer
<1>6. ASSUME NEW n \in Nat, CountRows(n) PROVE FreshPage'
  BY <1>6, WalkSteps DEF FreshPage, CountRows
<1>7. CASE UNCHANGED vars
  BY <1>7 DEF vars, FreshPage
<1>. QED  BY <1>1, <1>2, <1>3, <1>4, <1>5, <1>6, <1>7 DEF Next

-----------------------------------------------------------------------------
\* Strengthening of NothingMissed: a row of the list the client began with that it
\* has not been given has been pushed back behind everything the walk has gone past.
Pending == since.start \ (seen \cup walk.rows)

Waits(x) ==
  /\ walk.stage # "done"
  /\ Reached <= Ahead(x)
  /\ walk.stage # "read" => Cardinality(walk.rows) = Limit
  /\ walk.stage = "answer" /\ kind = "organizations" => Skip(walk.page) + Limit < walk.total

MissInv ==
  since.events \cap {"shrunk", "shuffled"} = {} =>
    /\ since.start \subseteq Listed /\ walk.rows \subseteq Listed
    /\ walk.stage = "done" => walk.rows \subseteq seen
    /\ \A x \in Pending : Waits(x)

LEMMA MissStep ==
  ASSUME TypeOK, FreshPage, MissInv, [Next]_vars
  PROVE  MissInv'
<1>. SUFFICES ASSUME since'.events \cap {"shrunk", "shuffled"} = {}
              PROVE  MissInv'
  BY DEF MissInv
<1>1. /\ since.start \subseteq Listed /\ walk.rows \subseteq Listed
      /\ walk.stage = "done" => walk.rows \subseteq seen
      /\ \A x \in Pending : Waits(x)
  BY EventsGrow DEF MissInv
<1>2. since'.start = since.start
  BY EventsGrow
<1>3. /\ walk.page \in Nat \ {0} /\ Skip(walk.page) \in Nat /\ Limit \in Nat /\ Reached \in Nat
      /\ Listed \in SUBSET Rows
  BY ReachedIsNat DEF Listed
<1>4. ASSUME NEW x \in Rows, NEW k \in Keys, Create(x, k)
      PROVE  MissInv'
  <2>1. Listed \subseteq Listed' /\ \A y \in Listed : Ahead(y) <= Ahead(y)'
    BY <1>4, AddedRow
  <2>2. UNCHANGED <<kind, walk, seen>>
    BY <1>4 DEF Create
  <2>3. Pending' = Pending /\ Reached' = Reached
    BY <1>2, <2>2 DEF Pending, Reached, Skip
  <2>4. ASSUME NEW y \in Pending' PROVE Waits(y)'
    <3>1. y \in Listed /\ Waits(y)
      BY <1>1, <2>3 DEF Pending
    <3>2. Ahead(y) \in Nat /\ Ahead(y)' \in Nat
      BY PartsAreFinite DEF Ahead, Preceding, Listed
    <3>3. Reached' <= Ahead(y)'
      BY <1>3, <2>1, <2>3, <3>1, <3>2 DEF Waits
    <3>. QED  BY <2>2, <3>1, <3>3 DEF Waits, Skip
  <2>. QED  BY <1>1, <1>2, <2>1, <2>2, <2>4 DEF MissInv
<1>5. ASSUME NEW S \in SUBSET Listed, ReadPage(S)
      PROVE  MissInv'
  <2>1. /\ walk.stage = "read" /\ walk'.stage \in {"load", "count", "fill"}
        /\ walk'.page = walk.page /\ walk'.rows = S /\ UNCHANGED <<kind, table, seen>>
    BY <1>5, WalkSteps DEF ReadPage
  <2>2. ~Tied /\ IsPage(S, walk.page)
    BY <1>5, EventsGrow DEF ReadPage
  <2>3. Listed' = Listed /\ \A y : Ahead(y)' = Ahead(y)
    BY <2>1, SameList
  <2>4. ASSUME NEW y \in Pending' PROVE Waits(y)'
    <3>1. y \in since.start /\ y \notin seen /\ y \notin S
      BY <1>2, <2>1 DEF Pending
    <3>2. y \in Listed /\ Skip(walk.page) <= Ahead(y) /\ Ahead(y) \in Nat
      BY <1>1, <2>1, <3>1, AheadIsNat DEF Pending, Waits, Reached, FreshPage
    <3>3. Skip(walk.page) + Limit <= Ahead(y) /\ Cardinality(S) = Limit
      <4>1. \/ Ahead(y) < Skip(walk.page)
            \/ Skip(walk.page) + Limit <= Ahead(y) /\ Cardinality(S) = Limit
        BY <1>3, <2>2, <3>1, <3>2, PageIsBetween
      <4>. QED  BY <1>3, <3>2, <4>1
    <3>4. Reached' = Skip(walk.page) + Limit
      BY <2>1 DEF Reached, Skip
    <3>. QED  BY <2>1, <2>3, <3>3, <3>4 DEF Waits
  <2>. QED  BY <1>1, <1>2, <2>1, <2>3, <2>4 DEF MissInv
<1>6. CASE LoadRows \/ FillInvoices
  <2>1. /\ walk.stage \in {"load", "fill"} /\ walk'.stage \in {"count", "answer"}
        /\ walk'.stage = "answer" => kind = "partners"
        /\ walk'.page = walk.page /\ walk'.rows = walk.rows
        /\ UNCHANGED <<kind, table, seen>>
    <3>1. walk.rows \cap Listed = walk.rows
      BY <1>1
    <3>. QED  BY <1>6, <3>1, WalkSteps DEF LoadRows, FillInvoices, FreshPage
  <2>2. Listed' = Listed /\ \A y : Ahead(y)' = Ahead(y)
    BY <2>1, SameList
  <2>3. Pending' = Pending /\ Reached' = Reached
    BY <1>2, <2>1 DEF Pending, Reached, Skip
  <2>4. ASSUME NEW y \in Pending' PROVE Waits(y)'
    BY <1>1, <2>1, <2>2, <2>3 DEF Waits
  <2>. QED  BY <1>1, <1>2, <2>1, <2>2, <2>4 DEF MissInv
<1>7. ASSUME NEW n \in Nat, CountRows(n)
      PROVE  MissInv'
  <2>1. /\ walk.stage = "count" /\ walk'.stage = "answer"
        /\ walk'.page = walk.page /\ walk'.rows = walk.rows /\ walk'.total = n
        /\ UNCHANGED <<kind, table, seen>>
    BY <1>7, WalkSteps DEF CountRows
  <2>2. Listed' = Listed /\ \A y : Ahead(y)' = Ahead(y)
    BY <2>1, SameList
  <2>3. Pending' = Pending /\ Reached' = Reached
    BY <1>2, <2>1 DEF Pending, Reached, Skip
  <2>4. ASSUME NEW y \in Pending' PROVE Waits(y)'
    <3>1. y \in Listed /\ Waits(y) /\ Ahead(y) \in Nat
      BY <1>1, <2>3, AheadIsNat DEF Pending
    <3>2. Skip(walk.page) + Limit <= Ahead(y) /\ Cardinality(walk.rows) = Limit
      BY <2>1, <3>1 DEF Waits, Reached
    <3>3. n = Cardinality(Listed)
      BY <1>7, <1>3, <3>2 DEF CountRows
    <3>4. Ahead(y) < Cardinality(Listed)
      <4>1. Preceding(y) \in SUBSET (Listed \ {y})
        <5>1. ~Before(y, y)
          BY <3>1, NotBeforeItself
        <5>. QED  BY <5>1 DEF Preceding
      <4>. QED  BY <1>3, <3>1, <4>1, PartsAreFinite DEF Ahead
    <3>5. Skip(walk.page) + Limit < n
      <4>1. n \in Nat
        OBVIOUS
      <4>. QED  BY <1>3, <3>1, <3>2, <3>3, <3>4, <4>1
    <3>. QED  BY <2>1, <2>2, <2>3, <3>1, <3>2, <3>5 DEF Waits, Skip
  <2>. QED  BY <1>1, <1>2, <2>1, <2>2, <2>4 DEF MissInv
<1>8. CASE Answer
  <2>1. /\ walk.stage = "answer" /\ UNCHANGED <<kind, table>>
        /\ seen' = seen \cup walk.rows
        /\ \/ IsLast /\ walk'.stage = "done" /\ walk'.page = walk.page /\ walk'.rows = walk.rows
           \/ ~IsLast /\ walk'.stage = "read" /\ walk'.page = walk.page + 1 /\ walk'.rows = {}
    BY <1>8, WalkSteps DEF Answer
  <2>2. Listed' = Listed /\ \A y : Ahead(y)' = Ahead(y)
    BY <2>1, SameList
  <2>3. Pending' = Pending
    BY <1>2, <2>1 DEF Pending
  <2>4. ASSUME NEW y \in Pending' PROVE Waits(y)'
    <3>1. /\ Reached = Skip(walk.page) + Limit /\ Reached <= Ahead(y)
          /\ Cardinality(walk.rows) = Limit
          /\ kind = "organizations" => Skip(walk.page) + Limit < walk.total
      BY <1>1, <2>1, <2>3 DEF Waits, Reached
    <3>2. ~IsLast
      <4>1. walk.page * Limit = Skip(walk.page) + Limit
        BY <1>3, SkipNext
      <4>2. walk.total \in Nat
        BY DEF TypeOK
      <4>. QED  BY <1>3, <3>1, <4>1, <4>2 DEF IsLast
    <3>3. walk'.stage = "read" /\ walk'.page = walk.page + 1
      BY <2>1, <3>2
    <3>4. Reached' = Skip(walk.page) + Limit
      <4>1. Skip(walk.page + 1) = Skip(walk.page) + Limit
        BY <1>3, SkipNext
      <4>. QED  BY <3>3, <4>1 DEF Reached, Skip
    <3>. QED  BY <2>2, <3>1, <3>3, <3>4 DEF Waits
  <2>. QED  BY <1>1, <1>2, <2>1, <2>2, <2>4 DEF MissInv
<1>9. CASE UNCHANGED vars
  <2>1. Listed' = Listed /\ \A y : Ahead(y)' = Ahead(y)
    BY <1>9, SameList DEF vars
  <2>2. Pending' = Pending /\ Reached' = Reached
    BY <1>9 DEF vars, Pending, Reached, Skip
  <2>. QED  BY <1>1, <1>9, <2>1, <2>2 DEF vars, MissInv, Waits, Skip
<1>10. /\ \A x \in Rows, k \in Keys : ~Move(x, k)
       /\ \A x \in Rows : ~Remove(x)
  BY EventsGrow
<1>11. \A n \in 0 .. 2 * Cardinality(Rows) : n \in Nat
  BY PartsAreFinite
<1>. QED  BY <1>4, <1>5, <1>6, <1>7, <1>8, <1>9, <1>10, <1>11 DEF Next

\* However many rows other clients add, a client that reads to the last page of a
\* list of any length has been given every row that was there when it began, as long
\* as none left or moved and no page was cut out of a list with ties.
THEOREM WalksMissNothing == Spec => []NothingMissed
<1>1. Init => TypeOK /\ FreshPage /\ MissInv
  <2>. SUFFICES ASSUME Init PROVE TypeOK /\ FreshPage /\ MissInv
    OBVIOUS
  <2>1. TypeOK /\ FreshPage
    BY FS_EmptySet, LimitIsPositive
       DEF Init, TypeOK, FirstPage, History, Stages, Listed, FreshPage
  <2>2. \A x \in Listed : Ahead(x) \in Nat
    BY AheadIsNat
  <2>3. Reached = 0
    BY LimitIsPositive DEF Init, FirstPage, Reached, Skip
  <2>. QED  BY <2>1, <2>2, <2>3 DEF Init, FirstPage, MissInv, Pending, Waits
<1>2. TypeOK /\ FreshPage /\ MissInv /\ [Next]_vars => (TypeOK /\ FreshPage /\ MissInv)'
  BY TypeStep, FreshStep, MissStep
<1>3. MissInv => NothingMissed
  BY DEF MissInv, NothingMissed, Pending, Waits
<1>. QED  BY <1>1, <1>2, <1>3, PTL DEF Spec

-----------------------------------------------------------------------------
\* Strengthening of NothingTwice: what the client has been given has moved up
\* before the place the walk goes on from.
TwiceInv ==
  since.events \cap {"grown", "shuffled"} = {} =>
    /\ ~since.repeated
    /\ walk.stage # "done" =>
         /\ seen \cap walk.rows = {}
         /\ \A x \in Listed \cap (seen \cup walk.rows) : Ahead(x) < Reached

LEMMA TwiceStep ==
  ASSUME TypeOK, FreshPage, TwiceInv, [Next]_vars
  PROVE  TwiceInv'
<1>. SUFFICES ASSUME since'.events \cap {"grown", "shuffled"} = {}
              PROVE  TwiceInv'
  BY DEF TwiceInv
<1>1. /\ ~since.repeated
      /\ walk.stage # "done" =>
           /\ seen \cap walk.rows = {}
           /\ \A x \in Listed \cap (seen \cup walk.rows) : Ahead(x) < Reached
  BY EventsGrow DEF TwiceInv
<1>2. ~Answer => ~since'.repeated
  BY <1>1, EventsGrow
<1>3. /\ walk.page \in Nat \ {0} /\ Skip(walk.page) \in Nat /\ Limit \in Nat /\ Reached \in Nat
      /\ \A x : Ahead(x) \in Nat
  BY ReachedIsNat, AheadIsNat
<1>4. ASSUME NEW x \in Rows, Remove(x)
      PROVE  TwiceInv'
  <2>1. Listed' \subseteq Listed /\ \A y \in Listed' : Ahead(y)' <= Ahead(y)
    BY <1>4, RemovedRow
  <2>2. /\ UNCHANGED <<kind, seen>> /\ walk'.stage = walk.stage
        /\ walk'.rows = walk.rows /\ walk'.page = walk.page
    BY <1>4 DEF Remove, TypeOK
  <2>3. Reached' = Reached /\ ~Answer
    BY <1>4, <2>2, WalkSteps DEF Reached, Skip
  <2>4. ASSUME NEW y \in Listed' \cap (seen \cup walk.rows), walk.stage # "done"
        PROVE  Ahead(y)' < Reached'
    <3>1. Ahead(y)' \in Nat
      BY PartsAreFinite DEF Ahead, Preceding, Listed
    <3>. QED  BY <1>1, <1>3, <2>1, <2>3, <2>4, <3>1
  <2>. QED  BY <1>1, <1>2, <2>2, <2>3, <2>4 DEF TwiceInv
<1>5. ASSUME NEW S \in SUBSET Listed, ReadPage(S)
      PROVE  TwiceInv'
  <2>1. /\ walk.stage = "read" /\ walk'.stage \in {"load", "count", "fill"}
        /\ walk'.page = walk.page /\ walk'.rows = S /\ UNCHANGED <<kind, table, seen>>
        /\ ~Answer
    BY <1>5, WalkSteps DEF ReadPage
  <2>2. ~Tied /\ IsPage(S, walk.page)
    BY <1>5, EventsGrow DEF ReadPage
  <2>3. Listed' = Listed /\ \A y : Ahead(y)' = Ahead(y)
    BY <2>1, SameList
  <2>4. Reached = Skip(walk.page) /\ Reached' = Skip(walk.page) + Limit
    BY <2>1 DEF Reached, Skip
  <2>5. \A y \in S : Skip(walk.page) <= Ahead(y) /\ Ahead(y) < Skip(walk.page) + Limit
    BY <1>3, <2>2, PageIsBetween
  <2>6. \A y \in Listed \cap seen : Ahead(y) < Skip(walk.page)
    BY <1>1, <2>1, <2>4
  <2>7. seen \cap S = {}
    BY <1>3, <2>5, <2>6
  <2>8. \A y \in Listed \cap (seen \cup S) : Ahead(y) < Skip(walk.page) + Limit
    BY <1>3, <2>5, <2>6
  <2>. QED  BY <1>2, <2>1, <2>3, <2>4, <2>7, <2>8 DEF TwiceInv
<1>6. ASSUME NEW n \in Nat, LoadRows \/ FillInvoices \/ CountRows(n)
      PROVE  TwiceInv'
  <2>1. /\ walk.stage \in {"load", "fill", "count"} /\ walk'.stage \in {"count", "answer"}
        /\ walk'.page = walk.page /\ walk'.rows \subseteq walk.rows
        /\ UNCHANGED <<kind, table, seen>> /\ ~Answer
    BY <1>6, WalkSteps DEF LoadRows, FillInvoices, CountRows
  <2>2. Listed' = Listed /\ \A y : Ahead(y)' = Ahead(y)
    BY <2>1, SameList
  <2>3. Reached' = Reached
    BY <2>1 DEF Reached, Skip
  <2>. QED  BY <1>1, <1>2, <2>1, <2>2, <2>3 DEF TwiceInv
<1>7. CASE Answer
  <2>1. /\ walk.stage = "answer" /\ UNCHANGED <<kind, table>>
        /\ seen' = seen \cup walk.rows
        /\ \/ walk'.stage = "done"
           \/ walk'.stage = "read" /\ walk'.page = walk.page + 1 /\ walk'.rows = {}
    BY <1>7, WalkSteps DEF Answer
  <2>2. Listed' = Listed /\ \A y : Ahead(y)' = Ahead(y)
    BY <2>1, SameList
  <2>3. ~since'.repeated
    BY <1>1, <1>7, <2>1 DEF Answer, TypeOK, History
  <2>4. CASE walk'.stage = "read"
    <3>1. Skip(walk.page + 1) = Skip(walk.page) + Limit
      BY <1>3, SkipNext
    <3>2. Reached' = Reached
      BY <2>1, <2>4, <3>1 DEF Reached, Skip
    <3>. QED  BY <1>1, <2>1, <2>2, <2>3, <2>4, <3>2 DEF TwiceInv
  <2>5. CASE walk'.stage = "done"
    BY <2>3, <2>5 DEF TwiceInv
  <2>. QED  BY <2>1, <2>4, <2>5
<1>8. CASE UNCHANGED vars
  <2>1. Listed' = Listed /\ \A y : Ahead(y)' = Ahead(y)
    BY <1>8, SameList DEF vars
  <2>2. Reached' = Reached
    BY <1>8 DEF vars, Reached, Skip
  <2>. QED  BY <1>1, <1>8, <2>1, <2>2 DEF vars, TwiceInv
<1>9. ASSUME NEW x \in Rows, NEW k \in Keys, Create(x, k) \/ Move(x, k)
      PROVE  FALSE
  BY <1>9, EventsGrow
<1>10. \A n \in 0 .. 2 * Cardinality(Rows) : n \in Nat
  BY PartsAreFinite
<1>. QED  BY <1>4, <1>5, <1>6, <1>7, <1>8, <1>9, <1>10 DEF Next

\* However many rows leave meanwhile, a client is given no row twice, as long as
\* none was added or moved and no page was cut out of a list with ties.
THEOREM WalksRepeatNothing == Spec => []NothingTwice
<1>1. Init => TypeOK /\ FreshPage /\ TwiceInv
  BY FS_EmptySet, LimitIsPositive
     DEF Init, TypeOK, FirstPage, History, Stages, Listed, FreshPage, TwiceInv
<1>2. TypeOK /\ FreshPage /\ TwiceInv /\ [Next]_vars => (TypeOK /\ FreshPage /\ TwiceInv)'
  BY TypeStep, FreshStep, TwiceStep
<1>3. TwiceInv => NothingTwice
  BY DEF TwiceInv, NothingTwice
<1>. QED  BY <1>1, <1>2, <1>3, PTL DEF Spec

-----------------------------------------------------------------------------
\* Strengthening of TotalCoversPage: until the count, the list is long enough to
\* have the page in it, unless one of its rows left.
CoverInv ==
  kind # "partners" /\ ~walk.stale /\ walk.rows # {} =>
    /\ walk.stage \in {"load", "count"} =>
         /\ walk.rows \subseteq Listed
         /\ Skip(walk.page) + Cardinality(walk.rows) <= Cardinality(Listed)
    /\ walk.stage = "answer" => Skip(walk.page) + Cardinality(walk.rows) <= walk.total

LEMMA CoverStep ==
  ASSUME TypeOK, FreshPage, CoverInv, [Next]_vars
  PROVE  CoverInv'
<1>1. /\ walk.page \in Nat \ {0} /\ Skip(walk.page) \in Nat /\ Limit \in Nat
      /\ Cardinality(Listed) \in Nat /\ Cardinality(Listed') \in Nat
      /\ Cardinality(walk.rows) \in Nat /\ walk.rows \in SUBSET Rows
  <2>1. Listed \in SUBSET Rows /\ Listed' \in SUBSET Rows /\ walk.rows \in SUBSET Rows
    BY DEF Listed, TypeOK
  <2>. QED  BY <2>1, ReachedIsNat, PartsAreFinite
<1>2. ASSUME Listed \subseteq Listed', UNCHANGED <<kind, walk>>
      PROVE  CoverInv'
  <2>1. Cardinality(Listed) <= Cardinality(Listed')
    <3>1. Listed' \in SUBSET Rows
      BY DEF Listed
    <3>. QED  BY <1>2, <3>1, PartsAreFinite
  <2>. QED  BY <1>1, <1>2, <2>1 DEF CoverInv, Skip
<1>3. ASSUME NEW x \in Rows, NEW k \in Keys, Create(x, k)
      PROVE  CoverInv'
  BY <1>2, <1>3, AddedRow DEF Create
<1>4. ASSUME NEW x \in Rows, NEW k \in Keys, Move(x, k)
      PROVE  CoverInv'
  <2>1. Listed \subseteq Listed'
    BY <1>4, KeysAreNumbers DEF Move, Listed, Absent, TypeOK
  <2>. QED  BY <1>2, <1>4, <2>1 DEF Move
<1>5. ASSUME NEW x \in Rows, Remove(x)
      PROVE  CoverInv'
  <2>1. /\ kind' = kind /\ walk'.stage = walk.stage /\ walk'.page = walk.page
        /\ walk'.rows = walk.rows /\ walk'.total = walk.total
        /\ walk'.stale = (walk.stage \in {"load", "count"} \/ walk.stale)
    BY <1>5 DEF Remove, TypeOK
  <2>. QED  BY <2>1 DEF CoverInv, Skip
<1>6. ASSUME NEW S \in SUBSET Listed, ReadPage(S)
      PROVE  CoverInv'
  <2>1. /\ walk'.stage \in {"load", "count", "fill"} /\ walk'.page = walk.page
        /\ walk'.rows = S /\ IsPage(S, walk.page) /\ Listed' = Listed
    BY <1>6, WalkSteps DEF ReadPage, Listed
  <2>2. PICK B \in SUBSET (Listed \ S) : IsCut(B, S, walk.page)
    BY <1>1, <2>1, PageIsCut
  <2>3. B \cup S \in SUBSET Listed /\ Listed \in SUBSET Rows
    BY DEF Listed
  <2>4. Cardinality(B \cup S) <= Cardinality(Listed)
    BY <2>3, PartsAreFinite
  <2>5. S # {} => Skip(walk.page) + Cardinality(S) <= Cardinality(Listed)
    BY <2>2, <2>4 DEF IsCut
  <2>. QED  BY <2>1, <2>5 DEF CoverInv, Skip
<1>7. CASE LoadRows
  <2>1. /\ walk.stage = "load" /\ walk'.stage = "count" /\ walk'.page = walk.page
        /\ walk'.stale = walk.stale /\ walk'.rows = walk.rows \cap Listed
        /\ Listed' = Listed /\ kind' = kind
    BY <1>7, WalkSteps DEF LoadRows, Listed
  <2>2. walk.rows \subseteq Listed => walk'.rows = walk.rows
    BY <2>1
  <2>. QED  BY <2>1, <2>2 DEF CoverInv, Skip
<1>8. ASSUME NEW n \in Nat, CountRows(n)
      PROVE  CoverInv'
  <2>1. /\ walk.stage = "count" /\ walk'.stage = "answer" /\ walk'.page = walk.page
        /\ walk'.stale = walk.stale /\ walk'.rows = walk.rows /\ walk'.total = n
        /\ kind' = kind
    BY <1>8, WalkSteps DEF CountRows
  <2>2. n = Cardinality(Listed) \/ n = Skip(walk.page) + Cardinality(walk.rows)
    BY <1>8 DEF CountRows
  <2>. QED  BY <1>1, <2>1, <2>2 DEF CoverInv, Skip
<1>9. CASE FillInvoices \/ Answer
  <2>1. /\ walk'.stage \in {"answer", "done", "read"} /\ kind' = kind
        /\ walk'.stage = "answer" => kind = "partners"
    BY <1>9, WalkSteps DEF FillInvoices, Answer, FreshPage
  <2>. QED  BY <2>1 DEF CoverInv
<1>10. CASE UNCHANGED vars
  BY <1>10 DEF vars, CoverInv, Skip, Listed
<1>11. \A n \in 0 .. 2 * Cardinality(Rows) : n \in Nat
  BY PartsAreFinite
<1>. QED  BY <1>3, <1>4, <1>5, <1>6, <1>7, <1>8, <1>9, <1>10, <1>11 DEF Next

\* The total an organizations or invoices page is sent with covers the page, although
\* the count is a query of its own, whatever is added or moved in between.
THEOREM TotalsCover == Spec => []TotalCoversPage
<1>1. Init => TypeOK /\ FreshPage /\ CoverInv
  BY FS_EmptySet, LimitIsPositive
     DEF Init, TypeOK, FirstPage, History, Stages, Listed, FreshPage, CoverInv
<1>2. TypeOK /\ FreshPage /\ CoverInv /\ [Next]_vars => (TypeOK /\ FreshPage /\ CoverInv)'
  BY TypeStep, FreshStep, CoverStep
<1>3. CoverInv => TotalCoversPage
  BY DEF CoverInv, TotalCoversPage
<1>. QED  BY <1>1, <1>2, <1>3, PTL DEF Spec
=============================================================================
