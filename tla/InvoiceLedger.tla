---------------------------- MODULE InvoiceLedger ----------------------------
(***************************************************************************)
(* The invoice and payment handlers (InvoicesService, PaymentsService),    *)
(* the rows they share, and the removal of an organization, which takes    *)
(* those rows with it.  A handler is a request slot that alternates local  *)
(* computation with awaited repository calls; nothing locks a row and no   *)
(* call shares a transaction with another, so every await is a point where *)
(* the other slots may run.  One request slot models a client that waits   *)
(* for each answer, two model overlapping requests.                        *)
(***************************************************************************)
EXTENDS Integers, FiniteSets, FiniteSetsExt

CONSTANTS
  Invoices, Payments, Batches,  \* primary keys: invoices, payments, item lists
  Orgs, OrgOf,                  \* organizations; the one an invoice belongs to
  Txns,                         \* transaction ids of payments
  Requests,                     \* request slots
  Amounts,                      \* payment amounts a DTO may carry, in paise
  Totals,                       \* totals an item list may add up to, in paise
  Settable,                     \* values of UpdateInvoiceDto.status
  Ops,                          \* the operations the clients call
  OrphanedItems,                \* what save() does to item rows it has lost
  Failures                      \* may an awaited call fail, or the process die

Statuses == {"draft", "sent", "paid", "partially_paid", "cancelled", "overdue"}
Operations == {"create", "update", "send", "void", "pay", "repay", "remove"}

ASSUME AmountsAreIntegers == Amounts \subseteq Int
ASSUME TotalsAreIntegers == Totals \subseteq Int
ASSUME OrgOfIsFunction == OrgOf \in [Invoices -> Orgs]
ASSUME SettableAreStatuses == Settable \subseteq Statuses
ASSUME OpsAreOperations == Ops \subseteq Operations
ASSUME OrphanedItemsIsKnown == OrphanedItems \in {"delete", "nullify"}
ASSUME FailuresIsBoolean == Failures \in BOOLEAN

VARIABLES
  invoice,    \* the invoices table: invoice[i].status = "absent" if no row i
  items,      \* the invoice_items table, one row per saved item list
  payments,   \* the payments table
  collected,  \* history: the sum of the rows of payments, per invoice
  heard,      \* history: the last lifecycle event EventService emitted, per invoice
  worth,      \* history: the most an invoice was ever worth
  incidents,  \* history: failed calls, rejected edits, corrections so far
  gone,       \* the organizations that were removed
  req         \* the request in each slot

vars == <<invoice, items, payments, collected, heard, worth, incidents, gone, req>>

Columns == {"status", "total", "paid"}
Row     == [status : Statuses \cup {"absent"}, total : Int, paid : Int]
ItemRow == [id : Batches, inv : Invoices, sum : Int]
NoTxn   == "none"                   \* the column is nullable
Txn     == Txns \cup {NoTxn}
PayRow  == [id : Payments, inv : Invoices, amount : Int, txn : Txn]
Own     == "own"
\* CreatePaymentDto, and the body of a correction, which nothing validates:
\* about is its invoiceId, where it has one.
Dto     == [amount : Int, txn : Txn, about : Invoices \cup {Own}]

NoDto  == [amount |-> 0, txn |-> NoTxn, about |-> Own]
NoRow  == [status |-> "absent", total |-> 0, paid |-> 0]
Idle   == [pc |-> "idle"]
Stages == {"deleteItems", "saveItems", "insertPayment", "writePayment",
           "sumPayments", "save", "flush", "emit"}

\* A request past its first read.  row, items and pays are the entity the
\* handler holds (items only where it loads that relation; pays are the loaded
\* payments, or the one payment the request is about); valid is FALSE once
\* amountPaid holds text that is no number; diff, add and drop are the changes
\* for save() to write.
Request == [pc : Stages, op : Operations, inv : Invoices, row : Row,
            valid : BOOLEAN, items : SUBSET ItemRow, pays : SUBSET Payments,
            dto : Dto,
            diff : SUBSET Columns, add : SUBSET ItemRow, drop : SUBSET ItemRow]

LoadsRelations(q) == q.op \in {"update", "send", "void"}

Stored(i)     == invoice[i].status # "absent"
Removed(i)    == OrgOf[i] \in gone
ItemsOf(i)    == {x \in items : x.inv = i}
PaymentsOf(i) == {p \in payments : p.inv = i}
Collected(i)  == MapThenSumSet(LAMBDA p : p.amount, PaymentsOf(i))

Higher(a, b)  == IF a >= b THEN a ELSE b

(***************************************************************************)
(* Arithmetic on a decimal column, which pg reads as text: - and > make    *)
(* numbers of it, + does not.  totalPaid + dto.amount appends the digits   *)
(* of the amount to "p.pp".  The column rounds to two decimals, so a whole *)
(* amount adds the paisa that its leading digit rounds to (sums below ten  *)
(* million rupees), and a second "." or a "-" makes text the database      *)
(* refuses.  The reducer starts from 0 and gives "0a.aa" for one row, a    *)
(* number unless the row is negative, and such text again for two.         *)
(***************************************************************************)
RoundsUp(n) == \E d \in {1, 10, 100, 1000, 10000, 100000, 1000000} : n \div d \in 5 .. 9
\* Mutant: the amount replaces what was paid before.
AssignPaid(paid, amount) == amount
AddPaid(paid, amount) == IF RoundsUp(amount \div 100) THEN paid + 1 ELSE paid
AddIsValid(amount) == amount >= 0 /\ amount % 100 = 0
SumIsValid(rows)   == rows = {} \/ \E p \in rows : rows = {p} /\ p.amount >= 0

-----------------------------------------------------------------------------
Init ==
  /\ invoice = [i \in Invoices |-> NoRow]
  /\ items = {} /\ payments = {}
  /\ collected = [i \in Invoices |-> 0]
  /\ heard = [i \in Invoices |-> "none"]
  /\ worth = [i \in Invoices |-> 0]
  /\ incidents = {} /\ gone = {}
  /\ req = [r \in Requests |-> Idle]

Busy == {r \in Requests : req[r] # Idle}

\* An id no row and no entity in memory has (a generated uuid).
FreshBatch(b) ==
  /\ \A x \in items : x.id # b
  /\ \A r \in Busy : \A x \in req[r].items : x.id # b

\* create: one cascading insert (the entity has no key yet to select by), then
\* the event.  What it reads first no handler below changes.  The foreign key
\* refuses an organization that is gone.
Create(r, i, b, t) ==
  LET row  == [status |-> "draft", total |-> t, paid |-> 0]
      list == {[id |-> b, inv |-> i, sum |-> t]}
  IN /\ "create" \in Ops /\ req[r] = Idle /\ ~Stored(i) /\ ~Removed(i) /\ FreshBatch(b)
     /\ invoice' = [invoice EXCEPT ![i] = row]
     /\ items' = items \cup list
     /\ worth' = [worth EXCEPT ![i] = Higher(@, t)]
     /\ req' = [req EXCEPT ![r] =
          [pc |-> "emit", op |-> "create", inv |-> i, row |-> row, valid |-> TRUE,
           items |-> list, pays |-> {}, dto |-> NoDto, diff |-> {}, add |-> {}, drop |-> {}]]
     /\ UNCHANGED <<payments, collected, heard, incidents, gone>>

\* The first await of every other handler: read invoice i and, where the
\* handler asks for them, its items and payments; entity is the row as the
\* handler will save it, pays the payments it holds.
Begin(r, op, i, stage, entity, pays, dto) ==
  /\ op \in Ops /\ req[r] = Idle /\ Stored(i)
  /\ req' = [req EXCEPT ![r] =
       [pc |-> stage, op |-> op, inv |-> i, row |-> entity, valid |-> TRUE,
        items |-> IF op \in {"update", "send", "void"} THEN ItemsOf(i) ELSE {},
        pays |-> pays, dto |-> dto, diff |-> {}, add |-> {}, drop |-> {}]]
  /\ UNCHANGED <<invoice, items, payments, collected, heard, worth, incidents, gone>>

LoadedPayments(i) == {p.id : p \in PaymentsOf(i)}

\* Mutant: send saves the invoice as it was.
SendKeepsStatus(r, i) ==
  /\ invoice[i].status = "draft"
  /\ Begin(r, "send", i, "save", invoice[i], LoadedPayments(i), NoDto)

FindForSend(r, i) ==
  /\ invoice[i].status = "draft"
  /\ Begin(r, "send", i, "save", [invoice[i] EXCEPT !.status = "sent"], LoadedPayments(i), NoDto)

\* Mutant: void does not look at the status.
VoidAny(r, i) ==
  Begin(r, "void", i, "save", [invoice[i] EXCEPT !.status = "draft"], LoadedPayments(i), NoDto)

FindForVoid(r, i) ==
  /\ invoice[i].status # "paid"
  /\ Begin(r, "void", i, "save", [invoice[i] EXCEPT !.status = "draft"], LoadedPayments(i), NoDto)

\* update without items assigns what the DTO carries, a status included.
FindForUpdate(r, i, s) ==
  /\ invoice[i].status = "draft"
  /\ Begin(r, "update", i, "save", [invoice[i] EXCEPT !.status = s], LoadedPayments(i), NoDto)

\* update with items: the totals are computed and assigned later in the
\* handler, from data no other handler can see; the entity keeps its old items.
FindForItemsUpdate(r, i, s, t) ==
  /\ invoice[i].status = "draft"
  /\ Begin(r, "update", i, "deleteItems",
           [invoice[i] EXCEPT !.status = s, !.total = t], LoadedPayments(i), NoDto)

\* k is the uuid the new row will get; the finite set Payments bounds how many
\* payments a behaviour makes.
FreshPayment(k) ==
  /\ \A p \in payments : p.id # k
  /\ \A r \in Busy : req[r].op = "pay" => k \notin req[r].pays

\* Mutant: no check of the remaining amount.
UncheckedPayment(r, i, k, d) ==
  /\ FreshPayment(k)
  /\ Begin(r, "pay", i, "insertPayment", invoice[i], {k}, d)

\* Mutant: amountPaid is saved before, and without, the payment row.
PaidBeforeInsert(r, i, k, d) ==
  /\ d.amount <= invoice[i].total - invoice[i].paid
  /\ FreshPayment(k)
  /\ Begin(r, "pay", i, "save", [invoice[i] EXCEPT !.paid = AddPaid(@, d.amount)], {k}, d)

FindForPayment(r, i, k, d) ==
  /\ d.amount <= invoice[i].total - invoice[i].paid
  /\ FreshPayment(k)
  /\ Begin(r, "pay", i, "insertPayment", invoice[i], {k}, d)

FindPayment(r, p, d) ==
  Begin(r, "repay", p.inv, "writePayment", invoice[p.inv], {p.id}, d)

-----------------------------------------------------------------------------
\* The later awaits.
At(r, stage) == req[r].pc = stage
Answer(r)    == req' = [req EXCEPT ![r] = Idle]

\* Mutant: the old items stay.
SkipDelete(r) ==
  /\ At(r, "deleteItems")
  /\ req' = [req EXCEPT ![r].pc = "saveItems"]
  /\ UNCHANGED <<invoice, items, payments, collected, heard, worth, incidents, gone>>

DeleteItems(r) ==
  /\ At(r, "deleteItems")
  /\ items' = {x \in items : x.inv # req[r].inv}
  /\ req' = [req EXCEPT ![r].pc = "saveItems"]
  /\ UNCHANGED <<invoice, payments, collected, heard, worth, incidents, gone>>

\* prepareInvoiceItems throws: a product is gone, or a rate is missing; or the
\* invoice the new items refer to is.
RejectItems(r) ==
  /\ At(r, "saveItems")
  /\ Answer(r)
  /\ incidents' = incidents \cup {"rejection"}
  /\ UNCHANGED <<invoice, items, payments, collected, heard, worth, gone>>

\* The total the entity is then given is a number, which save() never finds equal
\* to the text of the column.
SaveItems(r, b) ==
  /\ At(r, "saveItems") /\ Stored(req[r].inv) /\ FreshBatch(b)
  /\ items' = items \cup {[id |-> b, inv |-> req[r].inv, sum |-> req[r].row.total]}
  /\ req' = [req EXCEPT ![r].pc = "save", ![r].diff = {"total"}]
  /\ UNCHANGED <<invoice, payments, collected, heard, worth, incidents, gone>>

\* The unique (organizationId, transactionId), which NULL does not take part in.
TxnTaken(r) ==
  \E p \in payments :
    /\ p.id \notin req[r].pays /\ OrgOf[p.inv] = OrgOf[req[r].inv]
    /\ p.txn = req[r].dto.txn /\ p.txn # NoTxn

\* A retry of a stored payment, or no invoice left to refer to.
RefuseInsert(r) ==
  /\ At(r, "insertPayment") /\ (~Stored(req[r].inv) \/ TxnTaken(r))
  /\ Answer(r)
  /\ UNCHANGED <<invoice, items, payments, collected, heard, worth, incidents, gone>>

StorePayment(r, k) ==
  /\ payments' = payments \cup {[id |-> k, inv |-> req[r].inv,
                                amount |-> req[r].dto.amount, txn |-> req[r].dto.txn]}
  /\ collected' = [collected EXCEPT ![req[r].inv] = @ + req[r].dto.amount]
  /\ UNCHANGED <<invoice, items, heard, worth, incidents, gone>>

\* The request goes on to save a new amountPaid: a number, if valid.  Its text
\* differs from the column's, whether or not the number does.
Paying(q, paid, valid) ==
  [q EXCEPT !.pc = "save", !.row.paid = paid, !.valid = valid, !.diff = {"paid"}]

CountPayment(r) ==
  LET amount == req[r].dto.amount IN
  req' = [req EXCEPT ![r] = Paying(@, AddPaid(@.row.paid, amount), AddIsValid(amount))]

\* Mutant: nothing ties a payment to the row of its invoice.
InsertUnreferenced(r, k) ==
  /\ At(r, "insertPayment") /\ k \in req[r].pays
  /\ ~TxnTaken(r)
  /\ StorePayment(r, k) /\ CountPayment(r)

\* Mutant: the amount is added twice.
InsertAddsTwice(r, k) ==
  LET amount == req[r].dto.amount IN
  /\ At(r, "insertPayment") /\ k \in req[r].pays
  /\ Stored(req[r].inv) /\ ~TxnTaken(r)
  /\ StorePayment(r, k)
  /\ req' = [req EXCEPT ![r] =
       Paying(@, AddPaid(AddPaid(@.row.paid, amount), amount), AddIsValid(amount))]

InsertPayment(r, k) ==
  /\ At(r, "insertPayment") /\ k \in req[r].pays
  /\ Stored(req[r].inv) /\ ~TxnTaken(r)
  /\ StorePayment(r, k) /\ CountPayment(r)

\* The row is gone, and save() would insert it again for a missing invoice; the
\* new transaction id is another payment's; or the body holds what a column, or
\* a reference, does not take.
RefuseWrite(r) ==
  /\ At(r, "writePayment")
  /\ Answer(r)
  /\ UNCHANGED <<invoice, items, payments, collected, heard, worth, incidents, gone>>

WritePayment(r, p) ==
  /\ At(r, "writePayment") /\ p.id \in req[r].pays /\ ~TxnTaken(r)
  /\ payments' = (payments \ {p}) \cup {[p EXCEPT !.amount = req[r].dto.amount, !.txn = req[r].dto.txn]}
  /\ collected' = [collected EXCEPT ![p.inv] = @ + req[r].dto.amount - p.amount]
  /\ worth' = [worth EXCEPT ![p.inv] = Higher(@, req[r].dto.amount)]
  /\ incidents' = incidents \cup {"correction"}
  /\ req' = [req EXCEPT ![r].pc = "sumPayments"]
  /\ UNCHANGED <<invoice, items, heard, gone>>

\* Mutant: a correction saves the invoice it loaded.
SumNothing(r) ==
  /\ At(r, "sumPayments")
  /\ req' = [req EXCEPT ![r].pc = "save"]
  /\ UNCHANGED <<invoice, items, payments, collected, heard, worth, incidents, gone>>

\* The reduction over the payment rows of payment.invoiceId, which the body may
\* have replaced, while payment.invoice is the invoice still; collected is the
\* sum where there is one.
SumOf(q) == IF q.dto.about = Own THEN q.inv ELSE q.dto.about

SumPayments(r) ==
  LET i == SumOf(req[r]) IN
  /\ At(r, "sumPayments")
  /\ req' = [req EXCEPT ![r] = Paying(@, collected[i], SumIsValid(PaymentsOf(i)))]
  /\ worth' = [worth EXCEPT ![req[r].inv] = Higher(@, worth[i])]
  /\ UNCHANGED <<invoice, items, payments, collected, heard, incidents, gone>>

(***************************************************************************)
(* invoiceRepository.save(entity) reads the row again, works out which     *)
(* columns and which rows of the loaded relations differ from the entity,  *)
(* and then writes those.  A payment row the entity does not hold would    *)
(* lose its invoice, which the NOT NULL column refuses; an item row it does*)
(* not hold is deleted, or refused the same way.  An entity without a row  *)
(* is inserted, which the foreign key to its organization refuses; a row   *)
(* that goes after the select is updated without effect.                   *)
(***************************************************************************)
Lost(r)    == ItemsOf(req[r].inv) \ req[r].items
Refused(r) ==
  \/ ~req[r].valid \/ ~Stored(req[r].inv)
  \/ /\ LoadsRelations(req[r])
     /\ \/ ~(LoadedPayments(req[r].inv) \subseteq req[r].pays)
        \/ OrphanedItems = "nullify" /\ Lost(r) # {}

RefuseSave(r) ==
  /\ At(r, "save") /\ Refused(r)
  /\ Answer(r)
  /\ UNCHANGED <<invoice, items, payments, collected, heard, worth, incidents, gone>>

LoadForSave(r) ==
  /\ At(r, "save") /\ ~Refused(r)
  /\ req' = [req EXCEPT ![r].pc = "flush",
       ![r].diff = @ \cup {c \in Columns : req[r].row[c] # invoice[req[r].inv][c]},
       ![r].add  = req[r].items \ items,
       ![r].drop = IF LoadsRelations(req[r]) THEN Lost(r) ELSE {}]
  /\ UNCHANGED <<invoice, items, payments, collected, heard, worth, incidents, gone>>

Pick(r, c) == IF c \in req[r].diff THEN req[r].row[c] ELSE invoice[req[r].inv][c]

\* The update finds no row; items of a missing invoice are refused.
FlushNothing(r) ==
  /\ At(r, "flush") /\ ~Stored(req[r].inv)
  /\ IF req[r].add = {} THEN req' = [req EXCEPT ![r].pc = "emit"] ELSE Answer(r)
  /\ UNCHANGED <<invoice, items, payments, collected, heard, worth, incidents, gone>>

Flush(r) ==
  /\ At(r, "flush") /\ Stored(req[r].inv)
  /\ invoice' = [invoice EXCEPT ![req[r].inv] =
       [status |-> Pick(r, "status"), total |-> Pick(r, "total"), paid |-> Pick(r, "paid")]]
  /\ items' = (items \ req[r].drop) \cup req[r].add
  /\ worth' = [worth EXCEPT ![req[r].inv] = Higher(@, Pick(r, "total"))]
  /\ req' = [req EXCEPT ![r].pc = "emit"]
  /\ UNCHANGED <<payments, collected, heard, incidents, gone>>

\* Mutant: a payment event goes out under a lifecycle name.
EmitAll(r) ==
  /\ At(r, "emit")
  /\ heard' = [heard EXCEPT ![req[r].inv] = req[r].op]
  /\ Answer(r)
  /\ UNCHANGED <<invoice, items, payments, collected, worth, incidents, gone>>

\* The event follows the commit; payment events are not lifecycle events.
Emit(r) ==
  /\ At(r, "emit")
  /\ heard' = IF req[r].op \in {"create", "update", "send", "void"}
              THEN [heard EXCEPT ![req[r].inv] = req[r].op] ELSE heard
  /\ Answer(r)
  /\ UNCHANGED <<invoice, items, payments, collected, worth, incidents, gone>>

\* A call fails or the process dies: the slot is lost, what it wrote stays.
Abort(r) ==
  /\ Failures /\ req[r] # Idle
  /\ Answer(r)
  /\ incidents' = incidents \cup {"failure"}
  /\ UNCHANGED <<invoice, items, payments, collected, heard, worth, gone>>

\* OrganizationsService.remove: one statement, and its cascades to invoices,
\* items and payments.  Nothing waits for the requests in flight.  Removing it
\* again finds no row, and a removal that a reference from elsewhere refuses
\* rolls back: neither changes anything.  It stays removed here: the update that
\* overlaps its removal and saves it back is in Registry.
RemoveOrg(r, o) ==
  /\ "remove" \in Ops /\ req[r] = Idle
  /\ gone' = gone \cup {o}
  /\ invoice' = [i \in Invoices |-> IF OrgOf[i] = o THEN NoRow ELSE invoice[i]]
  /\ collected' = [i \in Invoices |-> IF OrgOf[i] = o THEN 0 ELSE collected[i]]
  /\ items' = {x \in items : OrgOf[x.inv] # o}
  /\ payments' = {p \in payments : OrgOf[p.inv] # o}
  /\ UNCHANGED <<heard, worth, incidents, req>>

-----------------------------------------------------------------------------
Dtos   == [amount : Amounts, txn : Txn, about : {Own}]
Bodies == [amount : Amounts, txn : Txn, about : Invoices]

Call(r) ==
  \E i \in Invoices :
    \/ FindForSend(r, i)
    \/ FindForVoid(r, i)
    \/ \E s \in Settable : FindForUpdate(r, i, s)
    \/ \E s \in Settable, t \in Totals : FindForItemsUpdate(r, i, s, t)
    \/ \E k \in Payments, d \in Dtos : FindForPayment(r, i, k, d)
    \/ \E p \in PaymentsOf(i), d \in Bodies : FindPayment(r, p, d)

Step(r) ==
  \/ DeleteItems(r)
  \/ RejectItems(r)
  \/ \E b \in Batches : SaveItems(r, b)
  \/ \E k \in Payments : InsertPayment(r, k)
  \/ \E p \in payments : WritePayment(r, p)
  \/ RefuseInsert(r)
  \/ RefuseWrite(r)
  \/ SumPayments(r)
  \/ RefuseSave(r)
  \/ LoadForSave(r)
  \/ FlushNothing(r)
  \/ Flush(r)
  \/ Emit(r)

Next ==
  \/ \E r \in Requests, o \in Orgs : RemoveOrg(r, o)
  \/ \E r \in Requests, i \in Invoices, b \in Batches, t \in Totals : Create(r, i, b, t)
  \/ \E r \in Requests : Call(r) \/ Step(r) \/ Abort(r)

Spec == Init /\ [][Next]_vars
=============================================================================
