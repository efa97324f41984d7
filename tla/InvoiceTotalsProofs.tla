-------------------------- MODULE InvoiceTotalsProofs --------------------------
(***************************************************************************)
(* Theorems about InvoiceTotals, for every finite set of items and every   *)
(* quantity, rate and percent: whatever order the look-ups return in, the  *)
(* accumulators and the stored columns add up.                             *)
(***************************************************************************)
EXTENDS InvoiceTotals, FiniteSums

\* What is summed, as functions of the item.
LineOf   == [k \in Lines |-> LineTotal(k)]
AmountOf == [k \in Lines |-> tax[k].amount]
ExactOf  == [k \in Lines |-> LineTotal(k) * tax[k].percent]

Prepared == Lines \ Waiting

\* x and y are half a unit apart at most.
Near(x, y, unit) == 2 * (x - y) <= unit /\ 2 * (y - x) <= unit

-----------------------------------------------------------------------------
\* Rounding: the result is a multiple of the unit, half a unit away at most.
LEMMA NearestIsNear ==
  ASSUME NEW x \in Int, NEW unit \in Nat \ {0}, NEW y \in Nearest(x, unit)
  PROVE  \E n \in Int : y = n * unit /\ y \in Int /\ Near(y, x, unit)
<1>1. PICK n \in {x \div unit, x \div unit + 1} :
         y = n * unit /\ 2 * (n * unit - x) <= unit /\ 2 * (x - n * unit) <= unit
  BY DEF Nearest
<1>2. n \in Int
  BY <1>1
<1>. QED  BY <1>1, <1>2 DEF Near

LEMMA LineIsInt ==
  ASSUME TypeOK, NEW k \in Lines
  PROVE  LineTotal(k) \in Int
<1>1. items[k] \in ItemDto
  BY DEF TypeOK
<1>2. items[k].quantity \in Int /\ items[k].rate \in Int
  BY <1>1, AmountsAreIntegers DEF ItemDto
<1>. QED  BY <1>2 DEF LineTotal

LEMMA TaxIsNear ==
  ASSUME TypeOK, NEW k \in Lines, NEW percent \in Int, NEW t \in Taxes(k, percent)
  PROVE  t \in Int /\ Near(t * 10000, LineTotal(k) * percent, 1000000)
<1> DEFINE x == LineTotal(k) * percent
<1>1. x \in Int
  BY LineIsInt
<1>2. PICK y \in Nearest(x, 1000000) : t = y \div 10000
  BY DEF Taxes
<1> HIDE DEF x
<1>3. PICK n \in Int : y = n * 1000000 /\ y \in Int /\ Near(y, x, 1000000)
  BY <1>1, NearestIsNear
<1>4. t = n * 100 /\ t * 10000 = y
  BY <1>2, <1>3
<1>. QED  BY <1>3, <1>4 DEF x

-----------------------------------------------------------------------------
\* The declared shape is kept by every step.
LEMMA AccumulateType ==
  ASSUME TypeOK, NEW k \in Lines, NEW percent \in Percents, Accumulate(k, percent)
  PROVE  TypeOK'
<1>1. percent \in Int /\ LineTotal(k) \in Int
  BY AmountsAreIntegers, LineIsInt
<1>2. PICK t \in Taxes(k, percent) :
         /\ tax' = [tax EXCEPT ![k] = [percent |-> percent, amount |-> t]]
         /\ subtotal' = subtotal + LineTotal(k)
         /\ totalTax' = totalTax + t
  BY DEF Accumulate
<1>3. t \in Int
  BY <1>1, TaxIsNear
<1>4. [percent |-> percent, amount |-> t] \in Tax
  BY <1>3 DEF Tax
<1>. QED  BY <1>1, <1>2, <1>3, <1>4 DEF TypeOK, Accumulate

LEMMA StoreType ==
  ASSUME TypeOK, Store
  PROVE  stored' \in Columns
<1> USE DEF Paisa
<1>1. PICK s \in Nearest(subtotal, 100), t \in Nearest(subtotal + totalTax, 100),
           l \in {f \in [Lines -> UNION {Nearest(LineTotal(k) + tax[k].amount, 100) : k \in Lines}] :
                    \A k \in Lines : f[k] \in Nearest(LineTotal(k) + tax[k].amount, 100)} :
         stored' = [subtotal |-> s, totalTax |-> totalTax, total |-> t, lines |-> l]
  BY DEF Store
<1>2. s \in Int /\ t \in Int
  <2>1. subtotal \in Int /\ totalTax \in Int /\ subtotal + totalTax \in Int
    BY DEF TypeOK
  <2>. QED  BY <2>1, NearestIsNear
<1>3. ASSUME NEW k \in Lines PROVE l[k] \in Int
  <2>1. tax[k] \in Tax
    BY DEF Store, Waiting, TypeOK
  <2>2. LineTotal(k) + tax[k].amount \in Int
    BY <2>1, LineIsInt DEF Tax
  <2>. QED  BY <2>2, NearestIsNear
<1>4. l \in [Lines -> Int]
  BY <1>3
<1>. QED  BY <1>1, <1>2, <1>4 DEF Columns, TypeOK

LEMMA TypeStep ==
  ASSUME TypeOK, [Next]_vars
  PROVE  TypeOK'
<1>1. ASSUME NEW k \in Lines, PrepareItem(k) PROVE TypeOK'
  <2>1. items[k].gst \in Percents /\ Accumulate(k, items[k].gst)
    BY <1>1 DEF PrepareItem, TypeOK, ItemDto
  <2>. QED  BY <2>1, AccumulateType
<1>2. ASSUME NEW k \in Lines, PrepareProduct(k) PROVE TypeOK'
  <2>1. items[k].product \in Products
    BY <1>2 DEF PrepareProduct, TypeOK, ItemDto, Plain
  <2>2. catalogue[items[k].product] \in Percents /\ Accumulate(k, catalogue[items[k].product])
    BY <1>2, <2>1 DEF PrepareProduct, TypeOK
  <2>. QED  BY <2>2, AccumulateType
<1>3. ASSUME NEW k \in Lines, Reject(k) PROVE TypeOK'
  BY <1>3 DEF Reject, TypeOK
<1>4. ASSUME NEW p \in Products, NEW percent \in Percents, EditProduct(p, percent) PROVE TypeOK'
  BY <1>4 DEF EditProduct, TypeOK
<1>5. CASE Store
  BY <1>5, StoreType DEF Store, TypeOK
<1>6. CASE UNCHANGED vars
  BY <1>6 DEF vars, TypeOK
<1>. QED  BY <1>1, <1>2, <1>3, <1>4, <1>5, <1>6 DEF Next

LEMMA TypeStart ==
  ASSUME Init
  PROVE  TypeOK
BY DEF Init, TypeOK, Columns

\* Items, accumulators and columns keep their declared shape.
THEOREM TypeCorrect == Spec => []TypeOK
<1>1. Init => TypeOK
  BY TypeStart
<1>2. TypeOK /\ [Next]_vars => TypeOK'
  BY TypeStep
<1>. QED  BY <1>1, <1>2, PTL DEF Spec

-----------------------------------------------------------------------------
\* The sums of the properties, as sums of those functions.
LEMMA LinesAddUp ==
  ASSUME NEW S \in SUBSET Lines
  PROVE  MapThenSumSet(LineTotal, S) = Tally(LineOf, S)
<1> DEFINE f == LineOf
           Is(h) == h = [s \in SUBSET S |-> IF s = {} THEN 0
                       ELSE LET x == CHOOSE y \in s : TRUE IN LineTotal(x) + h[s \ {x}]]
           it == CHOOSE h : Is(h)
<1>0. IsFiniteSet(S)
  BY LinesAreFinite, FS_Subset
<1>1. MapThenSumSet(LineTotal, S) = it[S]
  BY Zenon DEF MapThenSumSet, MapThenFoldSet
<1>2. ASSUME NEW h PROVE Is(h) <=> IsFold(h, f, S)
  <2>1. \A s \in SUBSET S : s # {} => f[First(s)] = LineTotal(First(s))
    BY FirstIn DEF LineOf
  <2> HIDE DEF f
  <2>2. [s \in SUBSET S |-> IF s = {} THEN 0 ELSE f[First(s)] + h[Rest(s)]]
          = [s \in SUBSET S |-> IF s = {} THEN 0 ELSE LineTotal(First(s)) + h[Rest(s)]]
    BY <2>1
  <2>3. Is(h) <=> h = [s \in SUBSET S |-> IF s = {} THEN 0 ELSE LineTotal(First(s)) + h[Rest(s)]]
    BY DEF First, Rest
  <2>. QED  BY <2>2, <2>3 DEF IsFold
<1>3. \E h : Is(h)
  <2>1. \E h : IsFold(h, f, S)
    BY <1>0, FoldExists
  <2> HIDE DEF f, Is
  <2>. QED  BY <1>2, <2>1
<1>4. Is(it)
  <2> HIDE DEF Is
  <2>. QED  BY <1>3
<1>5. IsFold(it, f, S)
  <2> HIDE DEF Is, it, f
  <2>. QED  BY <1>2, <1>4
<1>6. it[S] = Tally(f, S)
  <2> HIDE DEF it, f
  <2>. QED  BY <1>0, <1>5, ChosenFold
<1>. QED  BY <1>1, <1>6

LEMMA AmountsOfTaxAddUp ==
  ASSUME NEW S \in SUBSET Lines
  PROVE  MapThenSumSet(LAMBDA k : tax[k].amount, S) = Tally(AmountOf, S)
<1> DEFINE f == AmountOf
           Is(h) == h = [s \in SUBSET S |-> IF s = {} THEN 0
                       ELSE LET x == CHOOSE y \in s : TRUE IN tax[x].amount + h[s \ {x}]]
           it == CHOOSE h : Is(h)
<1>0. IsFiniteSet(S)
  BY LinesAreFinite, FS_Subset
<1>1. MapThenSumSet(LAMBDA k : tax[k].amount, S) = it[S]
  BY Zenon DEF MapThenSumSet, MapThenFoldSet
<1>2. ASSUME NEW h PROVE Is(h) <=> IsFold(h, f, S)
  <2>1. \A s \in SUBSET S : s # {} => f[First(s)] = tax[First(s)].amount
    BY FirstIn DEF AmountOf
  <2> HIDE DEF f
  <2>2. [s \in SUBSET S |-> IF s = {} THEN 0 ELSE f[First(s)] + h[Rest(s)]]
          = [s \in SUBSET S |-> IF s = {} THEN 0 ELSE tax[First(s)].amount + h[Rest(s)]]
    BY <2>1
  <2>3. Is(h) <=> h = [s \in SUBSET S |-> IF s = {} THEN 0 ELSE tax[First(s)].amount + h[Rest(s)]]
    BY DEF First, Rest
  <2>. QED  BY <2>2, <2>3 DEF IsFold
<1>3. \E h : Is(h)
  <2>1. \E h : IsFold(h, f, S)
    BY <1>0, FoldExists
  <2> HIDE DEF f, Is
  <2>. QED  BY <1>2, <2>1
<1>4. Is(it)
  <2> HIDE DEF Is
  <2>. QED  BY <1>3
<1>5. IsFold(it, f, S)
  <2> HIDE DEF Is, it, f
  <2>. QED  BY <1>2, <1>4
<1>6. it[S] = Tally(f, S)
  <2> HIDE DEF it, f
  <2>. QED  BY <1>0, <1>5, ChosenFold
<1>. QED  BY <1>1, <1>6

LEMMA ExactTaxesAddUp ==
  ASSUME NEW S \in SUBSET Lines
  PROVE  MapThenSumSet(LAMBDA k : LineTotal(k) * tax[k].percent, S) = Tally(ExactOf, S)
<1> DEFINE e(x) == LineTotal(x) * tax[x].percent
           f == ExactOf
           Is(h) == h = [s \in SUBSET S |-> IF s = {} THEN 0
                       ELSE LET x == CHOOSE y \in s : TRUE
                            IN LineTotal(x) * tax[x].percent + h[s \ {x}]]
           it == CHOOSE h : Is(h)
<1>0. IsFiniteSet(S)
  BY LinesAreFinite, FS_Subset
<1>1. MapThenSumSet(LAMBDA k : LineTotal(k) * tax[k].percent, S) = it[S]
  BY Zenon DEF MapThenSumSet, MapThenFoldSet
<1>2. ASSUME NEW h PROVE Is(h) <=> IsFold(h, f, S)
  <2>1. \A s \in SUBSET S : s # {} => f[First(s)] = e(First(s))
    BY FirstIn DEF ExactOf
  <2>2. Is(h) <=> h = [s \in SUBSET S |-> IF s = {} THEN 0 ELSE e(First(s)) + h[Rest(s)]]
    BY DEF First, Rest
  <2> HIDE DEF f, e, Is
  <2>3. [s \in SUBSET S |-> IF s = {} THEN 0 ELSE f[First(s)] + h[Rest(s)]]
          = [s \in SUBSET S |-> IF s = {} THEN 0 ELSE e(First(s)) + h[Rest(s)]]
    BY <2>1
  <2>. QED  BY <2>2, <2>3 DEF IsFold
<1>3. \E h : Is(h)
  <2>1. \E h : IsFold(h, f, S)
    BY <1>0, FoldExists
  <2> HIDE DEF f, Is
  <2>. QED  BY <1>2, <2>1
<1>4. Is(it)
  <2> HIDE DEF Is
  <2>. QED  BY <1>3
<1>5. IsFold(it, f, S)
  <2> HIDE DEF Is, it, f
  <2>. QED  BY <1>2, <1>4
<1>6. it[S] = Tally(f, S)
  <2> HIDE DEF it, f
  <2>. QED  BY <1>0, <1>5, ChosenFold
<1>. QED  BY <1>1, <1>6

-----------------------------------------------------------------------------
\* The accumulators hold every prepared item once.
SumInv ==
  /\ subtotal = Tally(LineOf, Prepared)
  /\ totalTax = Tally(AmountOf, Prepared)

\* Each prepared item's tax is its exact tax to half a paisa.
RoundedInv ==
  \A k \in Prepared : Near(tax[k].amount * 10000, LineTotal(k) * tax[k].percent, 1000000)

\* What was stored are the accumulators and the items, rounded.
StoredInv ==
  outcome = "stored" =>
    /\ Waiting = {}
    /\ Near(stored.subtotal, subtotal, Paisa) /\ stored.totalTax = totalTax
    /\ Near(stored.total, subtotal + totalTax, Paisa)
    /\ \A k \in Lines : Near(stored.lines[k], LineTotal(k) + tax[k].amount, Paisa)

TotalsInv == TypeOK /\ SumInv /\ RoundedInv /\ StoredInv

LEMMA AccumulateSums ==
  ASSUME TotalsInv, NEW k \in Lines, NEW percent \in Percents, outcome = "running",
         k \in Waiting, Accumulate(k, percent)
  PROVE  SumInv' /\ RoundedInv' /\ StoredInv'
<1>1. percent \in Int /\ LineTotal(k) \in Int /\ TypeOK
  BY AmountsAreIntegers, LineIsInt DEF TotalsInv
<1>2. PICK t \in Taxes(k, percent) :
         /\ tax' = [tax EXCEPT ![k] = [percent |-> percent, amount |-> t]]
         /\ subtotal' = subtotal + LineTotal(k)
         /\ totalTax' = totalTax + t
  BY DEF Accumulate
<1>3. t \in Int /\ Near(t * 10000, LineTotal(k) * percent, 1000000)
  BY <1>1, TaxIsNear
<1>4. /\ tax'[k].amount = t /\ tax'[k].percent = percent /\ tax'[k] # NoValue
      /\ \A j \in Lines \ {k} : tax'[j] = tax[j]
  <2>1. [percent |-> percent, amount |-> t] \in Tax
    BY <1>3 DEF Tax
  <2>2. tax'[k] = [percent |-> percent, amount |-> t]
    BY <1>1, <1>2 DEF TypeOK
  <2>. QED  BY <1>1, <1>2, <2>1, <2>2, NoValueIsNoTax DEF TypeOK
<1>5. Prepared' = Prepared \cup {k} /\ k \notin Prepared /\ Prepared \in SUBSET Lines
  BY <1>4 DEF Prepared, Waiting
<1>6. LineOf' = LineOf /\ \A j \in Lines : LineTotal(j)' = LineTotal(j)
  BY DEF LineOf, LineTotal, Accumulate
<1>7. IsFiniteSet(Prepared)
  BY <1>5, LinesAreFinite, FS_Subset
<1>8. /\ \A j \in Prepared : LineOf[j] \in Int /\ AmountOf[j] \in Int
      /\ LineOf[k] = LineTotal(k)
  <2>1. ASSUME NEW j \in Prepared PROVE LineOf[j] \in Int /\ AmountOf[j] \in Int
    <3>1. j \in Lines /\ tax[j] \in Tax
      BY <1>1 DEF Prepared, Waiting, TypeOK
    <3>. QED  BY <1>1, <3>1, LineIsInt DEF LineOf, AmountOf, Tax
  <2>. QED  BY <2>1 DEF LineOf
<1>9. subtotal' = Tally(LineOf', Prepared')
  <2>1. Tally(LineOf, Prepared \cup {k}) = LineOf[k] + Tally(LineOf, Prepared)
    BY <1>1, <1>5, <1>7, <1>8, TallyAdd
  <2>2. Tally(LineOf', Prepared') = Tally(LineOf, Prepared \cup {k})
    BY <1>5, <1>6
  <2>3. subtotal \in Int
    BY <1>1 DEF TypeOK
  <2>. QED  BY <1>1, <1>2, <1>8, <2>1, <2>2, <2>3 DEF TotalsInv, SumInv
<1>10. totalTax' = Tally(AmountOf', Prepared')
  <2> DEFINE f == AmountOf'
  <2>1. f[k] = t /\ \A j \in Prepared : f[j] = AmountOf[j]
    BY <1>4, <1>5 DEF AmountOf
  <2>2. \A j \in Prepared : f[j] \in Int
    BY <1>8, <2>1
  <2> HIDE DEF f
  <2>3. Tally(f, Prepared \cup {k}) = f[k] + Tally(f, Prepared)
    BY <1>3, <1>5, <1>7, <2>1, <2>2, TallyAdd
  <2>4. Tally(f, Prepared) = Tally(AmountOf, Prepared)
    BY <1>7, <2>1, TallyCong
  <2>5. totalTax \in Int
    BY <1>1 DEF TypeOK
  <2>6. totalTax' = Tally(f, Prepared \cup {k})
    BY <1>2, <1>3, <2>1, <2>3, <2>4, <2>5 DEF TotalsInv, SumInv
  <2>. QED  BY <1>5, <2>6 DEF f
<1>11. RoundedInv'
  <2> SUFFICES ASSUME NEW j \in Prepared'
               PROVE  Near(tax[j].amount * 10000, LineTotal(j) * tax[j].percent, 1000000)'
    BY DEF RoundedInv
  <2>1. CASE j = k
    BY <1>3, <1>4, <1>6, <2>1 DEF Near
  <2>2. CASE j # k
    <3>1. j \in Prepared /\ j \in Lines
      BY <1>5, <2>2
    <3>2. Near(tax[j].amount * 10000, LineTotal(j) * tax[j].percent, 1000000)
      BY <3>1 DEF TotalsInv, RoundedInv
    <3>. QED  BY <1>4, <1>6, <2>2, <3>1, <3>2 DEF Near
  <2>. QED  BY <2>1, <2>2
<1>12. StoredInv'
  BY DEF StoredInv, Accumulate
<1>. QED  BY <1>9, <1>10, <1>11, <1>12 DEF SumInv

LEMMA StoreSums ==
  ASSUME TotalsInv, Store
  PROVE  StoredInv'
<1>1. TypeOK /\ Waiting = {}
  BY DEF TotalsInv, Store
<1>2. PICK s \in Nearest(subtotal, Paisa), t \in Nearest(subtotal + totalTax, Paisa),
           l \in {f \in [Lines -> UNION {Nearest(LineTotal(k) + tax[k].amount, Paisa) : k \in Lines}] :
                    \A k \in Lines : f[k] \in Nearest(LineTotal(k) + tax[k].amount, Paisa)} :
         stored' = [subtotal |-> s, totalTax |-> totalTax, total |-> t, lines |-> l]
  BY DEF Store
<1>3. Near(s, subtotal, Paisa) /\ Near(t, subtotal + totalTax, Paisa)
  <2>1. subtotal \in Int /\ subtotal + totalTax \in Int /\ Paisa \in Nat \ {0}
    BY <1>1 DEF TypeOK, Paisa
  <2>. QED  BY <2>1, NearestIsNear
<1>4. ASSUME NEW k \in Lines PROVE Near(l[k], LineTotal(k) + tax[k].amount, Paisa)
  <2>1. tax[k] \in Tax
    BY <1>1 DEF Waiting, TypeOK
  <2>2. LineTotal(k) + tax[k].amount \in Int /\ Paisa \in Nat \ {0}
    BY <1>1, <2>1, LineIsInt DEF Tax, Paisa
  <2>3. l[k] \in Nearest(LineTotal(k) + tax[k].amount, Paisa)
    BY <1>2
  <2>. QED  BY <2>2, <2>3, NearestIsNear
<1>5. /\ stored'.subtotal = s /\ stored'.totalTax = totalTax
      /\ stored'.total = t /\ stored'.lines = l
  BY <1>2
<1>. QED  BY <1>1, <1>3, <1>4, <1>5 DEF StoredInv, Store, Waiting, LineTotal, Near, Paisa

\* A step that touches neither the items nor their taxes.
LEMMA SumsKept ==
  ASSUME TotalsInv, UNCHANGED <<items, tax, subtotal, totalTax>>
  PROVE  SumInv' /\ RoundedInv'
<1>1. LineOf' = LineOf /\ AmountOf' = AmountOf /\ Prepared' = Prepared
  BY DEF LineOf, AmountOf, Prepared, LineTotal, Waiting
<1>2. RoundedInv'
  BY DEF TotalsInv, RoundedInv, Prepared, Waiting, LineTotal, Near
<1>. QED  BY <1>1, <1>2 DEF TotalsInv, SumInv

LEMMA TotalsStep ==
  ASSUME TotalsInv, [Next]_vars
  PROVE  TotalsInv'
<1>0. TypeOK'
  BY TypeStep DEF TotalsInv
<1>1. ASSUME NEW k \in Lines, PrepareItem(k) PROVE SumInv' /\ RoundedInv' /\ StoredInv'
  <2>1. /\ items[k].gst \in Percents /\ Accumulate(k, items[k].gst)
        /\ outcome = "running" /\ k \in Waiting
    BY <1>1 DEF PrepareItem, TotalsInv, TypeOK, ItemDto
  <2>. QED  BY <2>1, AccumulateSums
<1>2. ASSUME NEW k \in Lines, PrepareProduct(k) PROVE SumInv' /\ RoundedInv' /\ StoredInv'
  <2>1. items[k].product \in Products
    BY <1>2 DEF PrepareProduct, TotalsInv, TypeOK, ItemDto, Plain
  <2>2. /\ catalogue[items[k].product] \in Percents
        /\ Accumulate(k, catalogue[items[k].product])
        /\ outcome = "running" /\ k \in Waiting
    BY <1>2, <2>1 DEF PrepareProduct, TotalsInv, TypeOK
  <2>. QED  BY <2>2, AccumulateSums
<1>3. ASSUME NEW k \in Lines, Reject(k) PROVE SumInv' /\ RoundedInv' /\ StoredInv'
  <2>1. StoredInv'
    BY <1>3 DEF Reject, StoredInv
  <2>2. UNCHANGED <<items, tax, subtotal, totalTax>>
    BY <1>3 DEF Reject
  <2>. QED  BY <2>1, <2>2, SumsKept
<1>4. ASSUME NEW p \in Products, NEW percent \in Percents, EditProduct(p, percent)
      PROVE  SumInv' /\ RoundedInv' /\ StoredInv'
  <2>1. StoredInv'
    BY <1>4 DEF EditProduct, StoredInv
  <2>2. UNCHANGED <<items, tax, subtotal, totalTax>>
    BY <1>4 DEF EditProduct
  <2>. QED  BY <2>1, <2>2, SumsKept
<1>5. CASE Store
  <2>1. UNCHANGED <<items, tax, subtotal, totalTax>>
    BY <1>5 DEF Store
  <2>. QED  BY <1>0, <1>5, <2>1, SumsKept, StoreSums DEF TotalsInv
<1>6. CASE UNCHANGED vars
  <2>1. UNCHANGED <<items, tax, subtotal, totalTax>> /\ UNCHANGED <<outcome, stored>>
    BY <1>6 DEF vars
  <2>2. StoredInv'
    BY <2>1 DEF TotalsInv, StoredInv, Waiting, LineTotal, Near
  <2>. QED  BY <1>0, <2>1, <2>2, SumsKept DEF TotalsInv
<1>. QED  BY <1>0, <1>1, <1>2, <1>3, <1>4, <1>5, <1>6 DEF Next, TotalsInv

LEMMA TotalsStart ==
  ASSUME Init
  PROVE  TotalsInv
<1>1. Prepared = {}
  BY DEF Init, Prepared, Waiting
<1>2. SumInv
  BY <1>1, TallyEmpty DEF Init, SumInv
<1>. QED  BY <1>1, <1>2, TypeStart DEF Init, TotalsInv, RoundedInv, StoredInv

LEMMA TotalsAlways == Spec => []TotalsInv
<1>1. Init => TotalsInv
  BY TotalsStart
<1>2. TotalsInv /\ [Next]_vars => TotalsInv'
  BY TotalsStep
<1>. QED  BY <1>1, <1>2, PTL DEF Spec

\* In whatever order the look-ups of a request return, and whatever the
\* catalogue does meanwhile, subtotal and totalTax are the sums over the items
\* prepared so far, each counted once.
THEOREM AccumulatorsAreSums == Spec => []AccumulatorsAddUp
<1>1. TotalsInv => AccumulatorsAddUp
  <2>1. Lines \ Waiting \in SUBSET Lines
    OBVIOUS
  <2>2. /\ MapThenSumSet(LineTotal, Lines \ Waiting) = Tally(LineOf, Lines \ Waiting)
        /\ MapThenSumSet(LAMBDA k : tax[k].amount, Lines \ Waiting)
             = Tally(AmountOf, Lines \ Waiting)
    BY <2>1, LinesAddUp, AmountsOfTaxAddUp
  <2>. QED  BY <2>2 DEF TotalsInv, SumInv, Prepared, AccumulatorsAddUp
<1>. QED  BY <1>1, TotalsAlways, PTL

\* Rounding each item's tax to two decimals moves the invoice's tax by half a
\* paisa for each item at most.
THEOREM TaxIsNearExact == Spec => []TaxNearExact
<1>1. ASSUME TotalsInv PROVE TaxNearExact
  <2> DEFINE exact == MapThenSumSet(LAMBDA k : LineTotal(k) * tax[k].percent, Lines \ Waiting)
             scaled == [k \in Lines |-> tax[k].amount * 10000]
  <2>1. Prepared \in SUBSET Lines /\ IsFiniteSet(Prepared) /\ TypeOK
    BY <1>1, LinesAreFinite, FS_Subset DEF Prepared, TotalsInv
  <2>2. exact = Tally(ExactOf, Prepared)
    <3>1. Lines \ Waiting \in SUBSET Lines
      OBVIOUS
    <3>2. exact = Tally(ExactOf, Lines \ Waiting)
      BY <3>1, ExactTaxesAddUp
    <3>. QED  BY <3>2 DEF Prepared
  <2>3. ASSUME NEW k \in Prepared
        PROVE  /\ AmountOf[k] \in Int /\ scaled[k] = AmountOf[k] * 10000
               /\ scaled[k] \in Int /\ ExactOf[k] \in Int
               /\ Near(scaled[k], ExactOf[k], 1000000)
    <3>1. k \in Lines /\ tax[k] \in Tax /\ LineTotal(k) \in Int
      BY <2>1, LineIsInt DEF Prepared, Waiting, TypeOK
    <3>2. tax[k].amount \in Int /\ tax[k].percent \in Int
      BY <3>1, AmountsAreIntegers DEF Tax
    <3>3. LineTotal(k) * tax[k].percent \in Int
      BY <3>1, <3>2
    <3>. QED  BY <1>1, <3>1, <3>2, <3>3 DEF TotalsInv, RoundedInv, AmountOf, ExactOf
  <2> HIDE DEF exact, scaled
  <2>4. Tally(scaled, Prepared) = totalTax * 10000
    <3>1. Tally(scaled, Prepared) = Tally(AmountOf, Prepared) * 10000
      BY <2>1, <2>3, TallyScale
    <3>. QED  BY <1>1, <3>1 DEF TotalsInv, SumInv
  <2> DEFINE n == Cardinality(Prepared) * 1000000
             a == Tally(scaled, Prepared)
             b == Tally(ExactOf, Prepared)
  <2>5. 2 * (a - b) <= n /\ 2 * (b - a) <= n
    <3> DEFINE c == 1000000
    <3>1. /\ c \in Int
          /\ \A k \in Prepared : scaled[k] \in Int /\ ExactOf[k] \in Int
          /\ \A k \in Prepared : /\ 2 * (scaled[k] - ExactOf[k]) <= c
                                /\ 2 * (ExactOf[k] - scaled[k]) <= c
      BY <2>3 DEF Near
    <3> HIDE DEF c
    <3>2. 2 * (a - b) <= Cardinality(Prepared) * c /\ 2 * (b - a) <= Cardinality(Prepared) * c
      BY <2>1, <3>1, TallyNear
    <3>. QED  BY <3>2 DEF c
  <2>6. n <= Cardinality(Lines) * 1000000 /\ n \in Int /\ Cardinality(Lines) * 1000000 \in Int
    <3>1. /\ Cardinality(Prepared) <= Cardinality(Lines)
          /\ Cardinality(Prepared) \in Nat /\ Cardinality(Lines) \in Nat
      BY <2>1, LinesAreFinite, FS_Subset, FS_CardinalityType
    <3>. QED  BY <3>1
  <2>7. a \in Int /\ b \in Int
    BY <2>1, <2>3, TallyInt
  <2> HIDE DEF n, a, b
  <2>8. 2 * Distance(a, b) <= Cardinality(Lines) * 1000000
    BY <2>5, <2>6, <2>7 DEF Distance
  <2>9. a = totalTax * 10000 /\ b = exact
    BY <2>2, <2>4 DEF a, b
  <2>. QED  BY SMT, <2>8, <2>9 DEF TaxNearExact, exact, MapThenSumSet, MapThenFoldSet
<1>. QED  BY <1>1, TotalsAlways, PTL

\* What create and update store agrees with itself: totalAmount is subtotal and
\* tax to a paisa, and the items' own totals to half a paisa for each and one half
\* for its own rounding.
THEOREM ColumnsAddUp == Spec => []StoredAddsUp
<1>1. ASSUME TotalsInv PROVE StoredAddsUp
  <2> SUFFICES ASSUME outcome = "stored"
               PROVE  /\ Distance(stored.total, stored.subtotal + stored.totalTax) <= Paisa
                      /\ 2 * Distance(stored.total, MapThenSumSet(LAMBDA k : stored.lines[k], Lines))
                           <= (Cardinality(Lines) + 1) * Paisa
    BY DEF StoredAddsUp
  <2> DEFINE f == stored.lines
             g == [k \in Lines |-> LineTotal(k) + tax[k].amount]
             lines == MapThenSumSet(LAMBDA k : stored.lines[k], Lines)
             n == Cardinality(Lines)
  <2>1. TypeOK /\ Prepared = Lines /\ Waiting = {}
    BY <1>1 DEF TotalsInv, StoredInv, Prepared
  <2>2. /\ Near(stored.subtotal, subtotal, 100) /\ stored.totalTax = totalTax
        /\ Near(stored.total, subtotal + totalTax, 100)
        /\ \A k \in Lines : Near(f[k], LineTotal(k) + tax[k].amount, 100)
    BY <1>1 DEF TotalsInv, StoredInv, Paisa
  <2>3. /\ stored.subtotal \in Int /\ stored.total \in Int /\ stored.totalTax \in Int
        /\ subtotal \in Int /\ totalTax \in Int /\ f \in [Lines -> Int]
    BY <2>1 DEF TypeOK, Columns
  <2>4. Distance(stored.total, stored.subtotal + stored.totalTax) <= Paisa
    BY <2>2, <2>3 DEF Near, Distance, Paisa
  <2>5. ASSUME NEW k \in Lines
        PROVE  /\ LineOf[k] \in Int /\ AmountOf[k] \in Int /\ g[k] = LineOf[k] + AmountOf[k]
               /\ g[k] \in Int
    <3>1. tax[k] \in Tax /\ LineTotal(k) \in Int
      BY <2>1, LineIsInt DEF Waiting, TypeOK
    <3>. QED  BY <3>1 DEF LineOf, AmountOf, Tax
  <2>6. lines = Tally(f, Lines)
    BY LinesAreFinite, SumOfValues
  <2>7. \A k \in Lines : f[k] \in Int /\ 2 * (f[k] - g[k]) <= 100 /\ 2 * (g[k] - f[k]) <= 100
    BY <2>2, <2>3 DEF Near
  <2> HIDE DEF f, g, lines
  <2>8. Tally(g, Lines) = subtotal + totalTax
    <3>1. Tally(g, Lines) = Tally(LineOf, Lines) + Tally(AmountOf, Lines)
      BY <2>5, LinesAreFinite, TallyPlus
    <3>. QED  BY <1>1, <2>1, <3>1 DEF TotalsInv, SumInv
  <2>9. /\ 2 * (Tally(f, Lines) - Tally(g, Lines)) <= n * 100
        /\ 2 * (Tally(g, Lines) - Tally(f, Lines)) <= n * 100
    <3> DEFINE c == 100
    <3>1. /\ c \in Int /\ \A k \in Lines : f[k] \in Int /\ g[k] \in Int
          /\ \A k \in Lines : 2 * (f[k] - g[k]) <= c /\ 2 * (g[k] - f[k]) <= c
      BY <2>5, <2>7
    <3> HIDE DEF c
    <3>2. /\ 2 * (Tally(f, Lines) - Tally(g, Lines)) <= n * c
          /\ 2 * (Tally(g, Lines) - Tally(f, Lines)) <= n * c
      BY <3>1, LinesAreFinite, TallyNear
    <3>. QED  BY <3>2 DEF c
  <2>10. Tally(f, Lines) \in Int /\ n \in Nat
    BY <2>7, LinesAreFinite, TallyInt, FS_CardinalityType
  <2> HIDE DEF n
  <2>11. 2 * Distance(stored.total, lines) <= (n + 1) * Paisa
    BY <2>2, <2>3, <2>6, <2>8, <2>9, <2>10 DEF Near, Distance, Paisa
  <2>. QED  BY <2>4, <2>11 DEF n, lines
<1>. QED  BY <1>1, TotalsAlways, PTL
=============================================================================
