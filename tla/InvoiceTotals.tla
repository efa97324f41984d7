--------------------------- MODULE InvoiceTotals ---------------------------
(***************************************************************************)
(* prepareInvoiceItems and the rounding of what create and update store.   *)
(* The items are mapped to concurrent look-ups that add to two shared      *)
(* accumulators in whatever order they return; meanwhile the catalogue may *)
(* change.  Amounts are exact integers, 10000 to the rupee, so a paisa is  *)
(* 100; a tax is rounded by toFixed(2), stored amounts by the columns.     *)
(***************************************************************************)
EXTENDS Integers, FiniteSetsExt

CONSTANTS
  Lines,      \* the items of one request, by position
  Products,   \* the products a productId may name
  Quantities, Rates,   \* in hundredths
  Percents,   \* GST rates, in hundredths of a percent
  NoValue     \* no productId, no gstRatePercent, no such product

ASSUME AmountsAreIntegers ==
  Quantities \subseteq Int /\ Rates \subseteq Int /\ Percents \subseteq Int
ASSUME LinesAreFinite == IsFiniteSet(Lines)

VARIABLES
  items,      \* the items of the request
  catalogue,  \* gstRatePercent of each product of the organization
  tax,        \* the rate and the tax of each prepared item
  subtotal, totalTax,   \* the accumulators
  outcome,    \* "running", "rejected", "stored"
  stored      \* the columns written: totals of the invoice and of its items

vars == <<items, catalogue, tax, subtotal, totalTax, outcome, stored>>

Paisa == 100

ItemDto == [quantity : Quantities, rate : Rates,
            product : Products \cup {NoValue}, gst : Percents \cup {NoValue}]
Tax     == [percent : Percents, amount : Int]
Columns == [subtotal : Int, totalTax : Int, total : Int, lines : [Lines -> Int]]

ASSUME NoValueIsNoTax == NoValue \notin Tax

\* x to the nearest multiple of unit; the binary value of a half may lie on
\* either side of it.
Nearest(x, unit) ==
  {m * unit : m \in {n \in {x \div unit, x \div unit + 1} :
                       2 * (n * unit - x) <= unit /\ 2 * (x - n * unit) <= unit}}

LineTotal(k) == items[k].quantity * items[k].rate

\* Mutant: the tax is cut off, not rounded.
CutTaxes(k, percent) == {((LineTotal(k) * percent) \div 1000000) * Paisa}

\* lineTotal * percent / 100 to two decimals.
Taxes(k, percent) ==
  {t \div 10000 : t \in Nearest(LineTotal(k) * percent, 1000000)}

Plain   == {k \in Lines : items[k].product = NoValue}
Waiting == {k \in Lines : tax[k] = NoValue}

-----------------------------------------------------------------------------
Init ==
  /\ items \in [Lines -> ItemDto]
  /\ catalogue \in [Products -> Percents \cup {NoValue}]
  /\ tax = [k \in Lines |-> NoValue]
  /\ subtotal = 0 /\ totalTax = 0
  /\ outcome = "running"
  /\ stored = [subtotal |-> 0, totalTax |-> 0, total |-> 0, lines |-> [k \in Lines |-> 0]]

\* Mutant: the last item's amounts replace the sums.
Overwrite(k, percent) ==
  \E t \in Taxes(k, percent) :
    /\ tax' = [tax EXCEPT ![k] = [percent |-> percent, amount |-> t]]
    /\ subtotal' = LineTotal(k) /\ totalTax' = t
    /\ UNCHANGED <<items, catalogue, outcome, stored>>

\* Mutant: the item's own rate is kept, which a product's item may not have.
KeepItemRate(k, percent) ==
  \E t \in Taxes(k, percent) :
    /\ tax' = [tax EXCEPT ![k] = [percent |-> items[k].gst, amount |-> t]]
    /\ subtotal' = subtotal + LineTotal(k)
    /\ totalTax' = totalTax + t
    /\ UNCHANGED <<items, catalogue, outcome, stored>>

Accumulate(k, percent) ==
  \E t \in Taxes(k, percent) :
    /\ tax' = [tax EXCEPT ![k] = [percent |-> percent, amount |-> t]]
    /\ subtotal' = subtotal + LineTotal(k)
    /\ totalTax' = totalTax + t
    /\ UNCHANGED <<items, catalogue, outcome, stored>>

\* An item that names no product is done when the items are mapped, before any
\* look-up returns.
PrepareItem(k) ==
  /\ outcome = "running" /\ k \in Plain \cap Waiting
  /\ items[k].gst # NoValue
  /\ Accumulate(k, items[k].gst)

\* A look-up returns; the product's rate counts, not the item's.
PrepareProduct(k) ==
  /\ outcome = "running" /\ Plain \cap Waiting = {} /\ k \in Waiting
  /\ catalogue[items[k].product] # NoValue
  /\ Accumulate(k, catalogue[items[k].product])

\* Mutant: an unknown product is waited for.
RejectRateless(k) ==
  /\ outcome = "running" /\ k \in Waiting \cap Plain /\ items[k].gst = NoValue
  /\ outcome' = "rejected"
  /\ UNCHANGED <<items, catalogue, tax, subtotal, totalTax, stored>>

\* Promise.all fails with its first rejection: an item with neither product nor
\* rate, or a product the organization does not have.
Reject(k) ==
  /\ outcome = "running" /\ k \in Waiting
  /\ IF k \in Plain THEN items[k].gst = NoValue
     ELSE /\ catalogue[items[k].product] = NoValue
          /\ \A j \in Plain \cap Waiting : items[j].gst = NoValue
  /\ outcome' = "rejected"
  /\ UNCHANGED <<items, catalogue, tax, subtotal, totalTax, stored>>

\* updateProductService.
EditProduct(p, percent) ==
  /\ outcome = "running" /\ catalogue[p] # NoValue
  /\ catalogue' = [catalogue EXCEPT ![p] = percent]
  /\ UNCHANGED <<items, tax, subtotal, totalTax, outcome, stored>>

\* Mutant: the total is what the accumulators held before the tax came in.
StoreUntaxed ==
  /\ outcome = "running" /\ Waiting = {}
  /\ \E s \in Nearest(subtotal, Paisa) :
       stored' = [subtotal |-> s, totalTax |-> totalTax, total |-> s,
                  lines |-> [k \in Lines |-> LineTotal(k) + tax[k].amount]]
  /\ outcome' = "stored"
  /\ UNCHANGED <<items, catalogue, tax, subtotal, totalTax>>

\* The columns keep two decimals of subtotal, totalTax, their sum, and of each
\* item's lineTotal + taxAmount.
Store ==
  /\ outcome = "running" /\ Waiting = {}
  /\ \E s \in Nearest(subtotal, Paisa), t \in Nearest(subtotal + totalTax, Paisa),
        l \in {f \in [Lines -> UNION {Nearest(LineTotal(k) + tax[k].amount, Paisa) : k \in Lines}] :
                 \A k \in Lines : f[k] \in Nearest(LineTotal(k) + tax[k].amount, Paisa)} :
       stored' = [subtotal |-> s, totalTax |-> totalTax, total |-> t, lines |-> l]
  /\ outcome' = "stored"
  /\ UNCHANGED <<items, catalogue, tax, subtotal, totalTax>>

Next ==
  \/ \E k \in Lines : PrepareItem(k) \/ PrepareProduct(k) \/ Reject(k)
  \/ \E p \in Products, percent \in Percents : EditProduct(p, percent)
  \/ Store

Spec == Init /\ [][Next]_vars

\* The look-ups are answered and the save runs.
FairSpec == Spec /\ WF_vars(Store \/ \E k \in Lines : PrepareItem(k) \/ PrepareProduct(k) \/ Reject(k))

-----------------------------------------------------------------------------
\* Items, accumulators and columns have the declared shape.
TypeOK ==
  /\ items \in [Lines -> ItemDto]
  /\ catalogue \in [Products -> Percents \cup {NoValue}]
  /\ tax \in [Lines -> Tax \cup {NoValue}]
  /\ subtotal \in Int /\ totalTax \in Int
  /\ outcome \in {"running", "rejected", "stored"}
  /\ stored \in Columns

Distance(x, y) == IF x < y THEN y - x ELSE x - y

\* In whatever order the look-ups return, and whatever the catalogue does
\* meanwhile, the accumulators hold every prepared item once.
AccumulatorsAddUp ==
  /\ subtotal = MapThenSumSet(LineTotal, Lines \ Waiting)
  /\ totalTax = MapThenSumSet(LAMBDA k : tax[k].amount, Lines \ Waiting)

\* Rounding each item's tax moves the invoice's tax by half a paisa for each
\* item at most.
TaxNearExact ==
  2 * Distance(totalTax * 10000,
               MapThenSumSet(LAMBDA k : LineTotal(k) * tax[k].percent, Lines \ Waiting))
    <= Cardinality(Lines) * 1000000

\* What is stored agrees with itself: totalAmount is subtotal and tax to a paisa,
\* and the items' totals to half a paisa for each item and half for its own rounding:
\* no order of look-ups loses or doubles a line.
StoredAddsUp ==
  outcome = "stored" =>
    /\ Distance(stored.total, stored.subtotal + stored.totalTax) <= Paisa
    /\ 2 * Distance(stored.total, MapThenSumSet(LAMBDA k : stored.lines[k], Lines))
         <= (Cardinality(Lines) + 1) * Paisa

\* Promise.all settles: the items are stored or the request is rejected.
Settles == <>(outcome # "running")
=============================================================================
