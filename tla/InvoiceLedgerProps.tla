------------------------- MODULE InvoiceLedgerProps -------------------------
(***************************************************************************)
(* The properties of InvoiceLedger, grouped by the clients under which     *)
(* they are expected: any client, a client that waits for each answer, and *)
(* (for the runs that refute it) what the repository says of the code.     *)
(***************************************************************************)
EXTENDS InvoiceLedger

\* Every variable holds rows, entities and stages of the declared shape.
TypeOK ==
  /\ invoice \in [Invoices -> Row]
  /\ items \subseteq ItemRow
  /\ payments \subseteq PayRow
  /\ collected \in [Invoices -> Int]
  /\ heard \in [Invoices -> {"none", "create", "update", "send", "void"}]
  /\ worth \in [Invoices -> Int]
  /\ incidents \subseteq {"failure", "rejection", "correction"}
  /\ gone \subseteq Orgs
  /\ req \in [Requests -> Request \cup {Idle}]

-----------------------------------------------------------------------------
\* Clients that overlap.

\* Whatever overlaps and fails, through edits that lower the total and through
\* corrections: neither amountPaid nor a payment exceeds what the invoice was
\* worth at its best, by its totals or by what a correction declared.  The check
\* of createPayment holds for the total it read, and no save carries an amount
\* of one invoice into another.
ClaimsWithinWorth ==
  \A i \in Invoices :
    /\ invoice[i].paid <= worth[i]
    /\ \A p \in PaymentsOf(i) : p.amount <= worth[i]

Uncorrected == "correction" \notin incidents

\* Until a payment is corrected, amountPaid may miss payments (two handlers write
\* the same stale text) but never claims money that no payment row records.
PaidNeverOvercounts ==
  Uncorrected => \A i \in Invoices : invoice[i].paid <= collected[i]

\* The payments that createPayment counts: appended, their amount is a number
\* that rounds up by a paisa.
Counted(i) ==
  Cardinality({p \in PaymentsOf(i) : AddIsValid(p.amount) /\ RoundsUp(p.amount \div 100)})

\* Until a payment is corrected, amountPaid has a paisa at most of each payment
\* row that can count: whatever overlaps, no payment is counted twice, and a
\* retry under the same transaction id, having no row, is not counted.
PaymentsCountOnce ==
  Uncorrected => \A i \in Invoices : invoice[i].paid <= Counted(i)

\* Whatever was in flight when an organization was removed, and however it ends:
\* no invoice of it, no item and no payment is stored again.
RemovedBooksStayClosed ==
  \A i \in Invoices : Removed(i) =>
    ~Stored(i) /\ ItemsOf(i) = {} /\ PaymentsOf(i) = {}

-----------------------------------------------------------------------------
\* A client that waits for each answer.

Quiet == \A r \in Requests : req[r] = Idle

\* Between two requests, as long as no call failed and no payment was corrected,
\* amountPaid is exactly a paisa for each payment that counts, through payments
\* and retries refused, saves refused for text that is no number, edits, sends,
\* voids and the removal of the organization.
LedgerCountsPaise ==
  Quiet /\ "failure" \notin incidents /\ Uncorrected =>
    \A i \in Invoices : invoice[i].paid = Counted(i)

\* A status changes only from draft, or back to draft by a void, which a paid
\* invoice refuses.
StatusDiscipline ==
  [][\A i \in Invoices :
       Stored(i)' /\ invoice'[i].status # invoice[i].status =>
         \/ invoice[i].status \in {"absent", "draft"}
         \/ invoice[i].status # "paid" /\ invoice'[i].status = "draft"]_vars

\* Between two requests, as long as no call failed, the last lifecycle event
\* names the state a stored invoice is in: nothing is announced that did not
\* commit, nothing commits unannounced.
EventsTellTheStatus ==
  Quiet /\ "failure" \notin incidents => \A i \in Invoices : Stored(i) =>
    /\ heard[i] = "send" => invoice[i].status = "sent"
    /\ invoice[i].status = "sent" => heard[i] \in {"send", "update"}
    /\ heard[i] \in {"create", "void"} => invoice[i].status = "draft"

\* A correction that is carried out, and whose body names no other invoice,
\* repairs every drift an earlier failure or an appended text left: the sum it
\* writes is the sum of the rows at that moment.
CorrectionRepairsDrift ==
  [][\A r \in Requests :
       At(r, "flush") /\ req[r].op = "repay" /\ SumOf(req[r]) = req[r].inv /\ Flush(r) =>
         invoice'[req[r].inv].paid = Collected(req[r].inv)]_vars

\* However an update ends, the invoice is left with one list of items at most,
\* never with a mixture of two lists; and with one, as long as no call failed
\* and no update was rejected after it had deleted the old list.
OneItemList ==
  Quiet => \A i \in Invoices : Stored(i) =>
    Cardinality(ItemsOf(i)) \in (IF incidents \subseteq {"correction"} THEN {1} ELSE {0, 1})

\* The handlers implement the two accounts, failures included: every row they
\* write is what one call of the API makes of the row as it is at that moment.
Book == INSTANCE InvoiceBook WITH book <- invoice, cash <- collected
ImplementsBook == Book!Spec

-----------------------------------------------------------------------------
\* What the repository says, and the code does not keep.

\* payments.service.ts refuses a payment that exceeds the remaining amount, so
\* the payments stored for an invoice never exceed its total.
NeverOverCollected == \A i \in Invoices : collected[i] <= invoice[i].total

\* payments.service.ts updates amountPaid by each payment, so that between two
\* requests, as long as no call failed, it is the sum of the payment rows.
LedgerBalanced ==
  Quiet /\ "failure" \notin incidents =>
    \A i \in Invoices : invoice[i].paid = Collected(i)
=============================================================================
