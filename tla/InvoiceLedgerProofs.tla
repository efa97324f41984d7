------------------------- MODULE InvoiceLedgerProofs -------------------------
(***************************************************************************)
(* Theorems about InvoiceLedger, in three parts: for every set of          *)
(* invoices, payments and overlapping requests and every choice of the     *)
(* amounts; what the invoices table says of the payments, for requests     *)
(* that overlap; and what a client that waits for each answer is promised. *)
(***************************************************************************)
EXTENDS InvoiceLedgerProps, FiniteSums

\* Appending to amountPaid gives a value of the column, once it is accepted.
LEMMA AddPaidType ==
  ASSUME NEW paid \in Int, NEW amount \in Int
  PROVE  AddPaid(paid, amount) \in Int
BY DEF AddPaid

\* The invariant that a step is typed by, with the step's parameters.
LEMMA BeginType ==
  ASSUME TypeOK, NEW r \in Requests, NEW op \in Operations, NEW i \in Invoices,
         NEW stage \in Stages, NEW entity \in Row, NEW pays \in SUBSET Payments,
         NEW dto \in Dto, Begin(r, op, i, stage, entity, pays, dto)
  PROVE  TypeOK'
<1>1. ItemsOf(i) \in SUBSET ItemRow
  BY DEF TypeOK, ItemsOf
<1>2. req' \in [Requests -> Request \cup {Idle}]
  BY <1>1 DEF TypeOK, Begin, Request
<1>. QED  BY <1>2 DEF TypeOK, Begin

LEMMA LoadedPaymentsType ==
  ASSUME TypeOK, NEW i \in Invoices
  PROVE  LoadedPayments(i) \in SUBSET Payments
BY DEF TypeOK, LoadedPayments, PaymentsOf, PayRow

LEMMA DtoType ==
  NoDto \in Dto /\ Dtos \cup Bodies \subseteq Dto
<1>1. NoDto \in Dto
  BY DEF NoDto, Dto, Txn
<1>2. ASSUME NEW d \in Dtos \cup Bodies PROVE d \in Dto
  BY AmountsAreIntegers DEF Dtos, Bodies, Dto
<1>. QED  BY <1>1, <1>2

LEMMA SumOfType ==
  ASSUME NEW q \in Request
  PROVE  SumOf(q) \in Invoices
BY DEF SumOf, Request, Dto

\* Every handler but create begins with a read.
LEMMA CallBegins ==
  ASSUME NEW r, Call(r)
  PROVE  \E op, i, stage, entity, pays : \E dto \in Dtos \cup Bodies \cup {NoDto} :
           Begin(r, op, i, stage, entity, pays, dto)
<1>1. PICK i \in Invoices :
        \/ FindForSend(r, i)
        \/ FindForVoid(r, i)
        \/ \E s \in Settable : FindForUpdate(r, i, s)
        \/ \E s \in Settable, t \in Totals : FindForItemsUpdate(r, i, s, t)
        \/ \E k \in Payments, d \in Dtos : FindForPayment(r, i, k, d)
        \/ \E p \in PaymentsOf(i), d \in Bodies : FindPayment(r, p, d)
  BY DEF Call
<1>2. ASSUME NEW op, NEW j, NEW stage, NEW entity, NEW pays,
             NEW dto \in Dtos \cup Bodies \cup {NoDto},
             Begin(r, op, j, stage, entity, pays, dto)
      PROVE  \E o, k, s, e, p : \E d \in Dtos \cup Bodies \cup {NoDto} :
               Begin(r, o, k, s, e, p, d)
  BY <1>2, Zenon
<1>3. CASE FindForSend(r, i)
  BY <1>2, <1>3 DEF FindForSend
<1>4. CASE FindForVoid(r, i)
  BY <1>2, <1>4 DEF FindForVoid
<1>5. CASE \E s \in Settable : FindForUpdate(r, i, s)
  BY <1>2, <1>5 DEF FindForUpdate
<1>6. CASE \E s \in Settable, t \in Totals : FindForItemsUpdate(r, i, s, t)
  BY <1>2, <1>6 DEF FindForItemsUpdate
<1>7. CASE \E k \in Payments, d \in Dtos : FindForPayment(r, i, k, d)
  BY <1>2, <1>7 DEF FindForPayment
<1>8. CASE \E p \in PaymentsOf(i), d \in Bodies : FindPayment(r, p, d)
  BY <1>2, <1>8 DEF FindPayment
<1>. QED  BY <1>1, <1>3, <1>4, <1>5, <1>6, <1>7, <1>8

LEMMA AtType ==
  ASSUME TypeOK, NEW r \in Requests, NEW stage \in Stages, At(r, stage)
  PROVE  req[r] \in Request
BY DEF TypeOK, At, Stages, Idle

\* A new amountPaid leaves the rest of the request, and the other slots, alone.
Pays(r, paid, valid) ==
  /\ req[r] \in Request /\ req' \in [Requests -> Request \cup {Idle}]
  /\ paid \in Int /\ valid \in BOOLEAN
  /\ req'[r] \in Request /\ \A s \in Requests \ {r} : req'[s] = req[s]
  /\ req'[r].row = [req[r].row EXCEPT !.paid = paid] /\ req'[r].valid = valid
  /\ req'[r].pc = "save" /\ req'[r].diff = {"paid"}
  /\ req'[r].op = req[r].op /\ req'[r].inv = req[r].inv /\ req'[r].dto = req[r].dto
  /\ req'[r].items = req[r].items /\ req'[r].pays = req[r].pays
  /\ req'[r].add = req[r].add /\ req'[r].drop = req[r].drop

LEMMA PayingType ==
  ASSUME TypeOK, NEW r \in Requests, req[r] \in Request,
         NEW paid \in Int, NEW valid \in BOOLEAN,
         req' = [req EXCEPT ![r] = Paying(req[r], paid, valid)]
  PROVE  Pays(r, paid, valid)
<1>. DEFINE q == Paying(req[r], paid, valid)
<1>1. /\ q \in Request /\ q.row = [req[r].row EXCEPT !.paid = paid] /\ q.valid = valid
      /\ q.pc = "save" /\ q.diff = {"paid"}
      /\ q.op = req[r].op /\ q.inv = req[r].inv /\ q.dto = req[r].dto
      /\ q.items = req[r].items /\ q.pays = req[r].pays
      /\ q.add = req[r].add /\ q.drop = req[r].drop
  BY DEF Paying, Request, Row, Stages, Columns
<1>. HIDE DEF q
<1>2. req' = [req EXCEPT ![r] = q] /\ req \in [Requests -> Request \cup {Idle}]
  BY DEF TypeOK, q
<1>3. req'[r] = q /\ \A s \in Requests \ {r} : req'[s] = req[s]
  BY <1>2
<1>4. req' \in [Requests -> Request \cup {Idle}]
  BY <1>1, <1>2
<1>. QED  BY <1>1, <1>3, <1>4 DEF Pays

LEMMA CountPays ==
  ASSUME TypeOK, NEW r \in Requests, At(r, "insertPayment"), CountPayment(r)
  PROVE  Pays(r, AddPaid(req[r].row.paid, req[r].dto.amount), AddIsValid(req[r].dto.amount))
<1>1. req[r] \in Request
  BY AtType DEF Stages
<1>2. /\ AddPaid(req[r].row.paid, req[r].dto.amount) \in Int
      /\ AddIsValid(req[r].dto.amount) \in BOOLEAN
  BY <1>1, AddPaidType DEF Request, Row, Dto, AddIsValid
<1>. QED  BY <1>1, <1>2, PayingType DEF CountPayment

LEMMA SumPays ==
  ASSUME TypeOK, NEW r \in Requests, SumPayments(r)
  PROVE  Pays(r, collected[SumOf(req[r])], SumIsValid(PaymentsOf(SumOf(req[r]))))
<1>1. req[r] \in Request
  BY AtType DEF SumPayments, Stages
<1>2. /\ collected[SumOf(req[r])] \in Int
      /\ SumIsValid(PaymentsOf(SumOf(req[r]))) \in BOOLEAN
  BY <1>1, SumOfType DEF TypeOK, SumIsValid
<1>. QED  BY <1>1, <1>2, PayingType DEF SumPayments

\* A handler that is called keeps every variable typed.
LEMMA CallType ==
  ASSUME TypeOK, NEW r \in Requests, Call(r)
  PROVE  TypeOK'
<1>1. PICK i \in Invoices :
        \/ FindForSend(r, i)
        \/ FindForVoid(r, i)
        \/ \E s \in Settable : FindForUpdate(r, i, s)
        \/ \E s \in Settable, t \in Totals : FindForItemsUpdate(r, i, s, t)
        \/ \E k \in Payments, d \in Dtos : FindForPayment(r, i, k, d)
        \/ \E p \in PaymentsOf(i), d \in Bodies : FindPayment(r, p, d)
  BY DEF Call
<1>2. invoice[i] \in Row /\ LoadedPayments(i) \in SUBSET Payments
  BY LoadedPaymentsType DEF TypeOK
<1>3. CASE FindForSend(r, i)
  BY <1>2, <1>3, BeginType, DtoType DEF FindForSend, Row, Statuses, Operations, Stages
<1>4. CASE FindForVoid(r, i)
  BY <1>2, <1>4, BeginType, DtoType DEF FindForVoid, Row, Statuses, Operations, Stages
<1>5. CASE \E s \in Settable : FindForUpdate(r, i, s)
  BY <1>2, <1>5, BeginType, DtoType, SettableAreStatuses
     DEF FindForUpdate, Row, Statuses, Operations, Stages
<1>6. CASE \E s \in Settable, t \in Totals : FindForItemsUpdate(r, i, s, t)
  <2>1. PICK s \in Settable, t \in Totals : FindForItemsUpdate(r, i, s, t)
    BY <1>6
  <2>2. s \in Statuses /\ t \in Int
    BY SettableAreStatuses, TotalsAreIntegers
  <2>3. [invoice[i] EXCEPT !.status = s, !.total = t] \in Row
    BY <1>2, <2>2 DEF Row
  <2>. QED  BY <1>2, <2>1, <2>3, BeginType, DtoType DEF FindForItemsUpdate, Operations, Stages
<1>7. CASE \E k \in Payments, d \in Dtos : FindForPayment(r, i, k, d)
  BY <1>2, <1>7, BeginType, DtoType
     DEF FindForPayment, Operations, Stages
<1>8. CASE \E p \in PaymentsOf(i), d \in Bodies : FindPayment(r, p, d)
  <2>1. PICK p \in PaymentsOf(i), d \in Bodies : FindPayment(r, p, d)
    BY <1>8
  <2>2. p.inv \in Invoices /\ invoice[p.inv] \in Row /\ {p.id} \in SUBSET Payments
    BY DEF PaymentsOf, PayRow, TypeOK
  <2>. QED  BY <2>1, <2>2, BeginType, DtoType DEF FindPayment, Operations, Stages
<1>. QED  BY <1>1, <1>3, <1>4, <1>5, <1>6, <1>7, <1>8

\* An await of a handler keeps every variable typed.
LEMMA StepType ==
  ASSUME TypeOK, NEW r \in Requests, Step(r)
  PROVE  TypeOK'
<1>. USE DEF TypeOK
<1>1. CASE DeleteItems(r)
  <2>1. req[r] \in Request
    BY <1>1, AtType DEF DeleteItems, Stages
  <2>2. req' \in [Requests -> Request \cup {Idle}]
    BY <1>1, <2>1 DEF DeleteItems, Request, Stages
  <2>. QED  BY <1>1, <2>2 DEF DeleteItems
<1>2. CASE RejectItems(r) \/ RefuseInsert(r) \/ RefuseWrite(r)
  BY <1>2 DEF RejectItems, RefuseInsert, RefuseWrite, Answer
<1>3. CASE \E b \in Batches : SaveItems(r, b)
  <2>1. req[r] \in Request
    BY <1>3, AtType DEF SaveItems, Stages
  <2>2. req' \in [Requests -> Request \cup {Idle}]
    <3>. DEFINE q == [req[r] EXCEPT !.pc = "save", !.diff = {"total"}]
    <3>1. q \in Request
      BY <2>1 DEF Request, Stages, Columns
    <3>2. req' = [req EXCEPT ![r] = q]
      BY <1>3, <2>1 DEF SaveItems, Request
    <3>. QED  BY <3>1, <3>2
  <2>3. items' \subseteq ItemRow
    BY <1>3, <2>1 DEF SaveItems, Request, ItemRow, Row
  <2>. QED  BY <1>3, <2>2, <2>3 DEF SaveItems
<1>4. CASE \E k \in Payments : InsertPayment(r, k)
  <2>1. req[r] \in Request
    BY <1>4, AtType DEF InsertPayment, Stages
  <2>4. req' \in [Requests -> Request \cup {Idle}]
    BY <1>4, CountPays DEF InsertPayment, Pays
  <2>5. payments' \subseteq PayRow
    BY <1>4, <2>1 DEF InsertPayment, StorePayment, Request, PayRow, Dto
  <2>6. collected' \in [Invoices -> Int]
    BY <1>4, <2>1 DEF InsertPayment, StorePayment, Request, Dto
  <2>. QED  BY <1>4, <2>4, <2>5, <2>6 DEF InsertPayment, StorePayment
<1>5. CASE \E p \in payments : WritePayment(r, p)
  <2>1. req[r] \in Request
    BY <1>5, AtType DEF WritePayment, Stages
  <2>2. req' \in [Requests -> Request \cup {Idle}]
    BY <1>5, <2>1 DEF WritePayment, Request, Stages
  <2>3. payments' \subseteq PayRow
    <3>1. PICK p \in payments : WritePayment(r, p)
      BY <1>5
    <3>2. p \in PayRow /\ req[r].dto \in Dto
      BY <2>1 DEF Request
    <3>3. [p EXCEPT !.amount = req[r].dto.amount, !.txn = req[r].dto.txn] \in PayRow
      BY <3>2 DEF PayRow, Dto
    <3>. QED  BY <3>1, <3>3 DEF WritePayment
  <2>4. collected' \in [Invoices -> Int]
    BY <1>5, <2>1 DEF WritePayment, Request, PayRow, Dto
  <2>5. worth' \in [Invoices -> Int]
    BY <1>5, <2>1 DEF WritePayment, Request, PayRow, Dto, Higher
  <2>. QED  BY <1>5, <2>2, <2>3, <2>4, <2>5 DEF WritePayment
<1>6. CASE SumPayments(r)
  <2>1. req[r] \in Request
    BY <1>6, AtType DEF SumPayments, Stages
  <2>2. req' \in [Requests -> Request \cup {Idle}]
    BY <1>6, SumPays DEF Pays
  <2>3. worth' \in [Invoices -> Int]
    BY <1>6, <2>1, SumOfType DEF SumPayments, Request, Higher
  <2>. QED  BY <1>6, <2>2, <2>3 DEF SumPayments
<1>7. CASE RefuseSave(r)
  BY <1>7 DEF RefuseSave, Answer
<1>8. CASE LoadForSave(r)
  <2>1. req[r] \in Request
    BY <1>8, AtType DEF LoadForSave, Stages
  <2>2. /\ req[r].diff \cup {c \in Columns : req[r].row[c] # invoice[req[r].inv][c]}
             \in SUBSET Columns
        /\ req[r].items \ items \in SUBSET ItemRow
        /\ (IF LoadsRelations(req[r]) THEN Lost(r) ELSE {}) \in SUBSET ItemRow
    BY <2>1 DEF Request, Lost, ItemsOf
  <2>3. req' \in [Requests -> Request \cup {Idle}]
    BY <1>8, <2>1, <2>2 DEF LoadForSave, Request, Stages
  <2>. QED  BY <1>8, <2>3 DEF LoadForSave
<1>9. CASE Flush(r)
  <2>1. req[r] \in Request
    BY <1>9, AtType DEF Flush, Stages
  <2>2. req' \in [Requests -> Request \cup {Idle}]
    BY <1>9, <2>1 DEF Flush, Request, Stages
  <2>3. [status |-> Pick(r, "status"), total |-> Pick(r, "total"), paid |-> Pick(r, "paid")] \in Row
    BY <2>1 DEF Request, Row, Pick
  <2>4. invoice' \in [Invoices -> Row]
    BY <1>9, <2>1, <2>3 DEF Flush, Request
  <2>5. items' \subseteq ItemRow
    BY <1>9, <2>1 DEF Flush, Request
  <2>6. worth' \in [Invoices -> Int]
    BY <1>9, <2>1, <2>3 DEF Flush, Request, Row, Higher
  <2>. QED  BY <1>9, <2>2, <2>4, <2>5, <2>6 DEF Flush
<1>10. CASE Emit(r)
  <2>1. req[r] \in Request
    BY <1>10, AtType DEF Emit, Stages
  <2>2. heard' \in [Invoices -> {"none", "create", "update", "send", "void"}]
    BY <1>10, <2>1 DEF Emit, Request, LoadsRelations
  <2>. QED  BY <1>10, <2>2 DEF Emit, Answer
<1>11. CASE FlushNothing(r)
  <2>1. req[r] \in Request
    BY <1>11, AtType DEF FlushNothing, Stages
  <2>2. req' \in [Requests -> Request \cup {Idle}]
    BY <1>11, <2>1 DEF FlushNothing, Answer, Request, Stages
  <2>. QED  BY <1>11, <2>2 DEF FlushNothing
<1>. QED
  BY <1>1, <1>2, <1>3, <1>4, <1>5, <1>6, <1>7, <1>8, <1>9, <1>10, <1>11 DEF Step

\* So does the removal of an organization.
LEMMA RemoveType ==
  ASSUME TypeOK, NEW r \in Requests, NEW o \in Orgs, RemoveOrg(r, o)
  PROVE  TypeOK'
<1>1. NoRow \in Row
  BY DEF NoRow, Row
<1>. QED  BY <1>1 DEF RemoveOrg, TypeOK

\* And the creation of an invoice, with the request it leaves behind.
LEMMA CreateType ==
  ASSUME TypeOK, NEW r \in Requests, NEW i \in Invoices, NEW b \in Batches,
         NEW t \in Totals, Create(r, i, b, t)
  PROVE  TypeOK'
<1>. DEFINE row  == [status |-> "draft", total |-> t, paid |-> 0]
            list == {[id |-> b, inv |-> i, sum |-> t]}
            q    == [pc |-> "emit", op |-> "create", inv |-> i, row |-> row, valid |-> TRUE,
                     items |-> list, pays |-> {}, dto |-> NoDto, diff |-> {}, add |-> {},
                     drop |-> {}]
<1>1. t \in Int
  BY TotalsAreIntegers
<1>2. row \in Row
  BY <1>1 DEF Row, Statuses
<1>3. list \subseteq ItemRow
  BY <1>1 DEF ItemRow
<1>4. NoDto \in Dto
  BY DtoType
<1>5. q \in Request
  BY <1>2, <1>3, <1>4 DEF Request, Stages, Operations
<1>6. worth' \in [Invoices -> Int]
  BY <1>1 DEF Create, TypeOK, Higher
<1>7. req' = [req EXCEPT ![r] = q] /\ invoice' = [invoice EXCEPT ![i] = row]
  BY DEF Create
<1>8. items' = items \cup list
  BY DEF Create
<1>9. UNCHANGED <<payments, collected, heard, incidents, gone>>
  BY DEF Create
<1>. HIDE DEF row, list, q, Create
<1>. QED  BY <1>2, <1>3, <1>5, <1>6, <1>7, <1>8, <1>9 DEF TypeOK

LEMMA NextType == TypeOK /\ [Next]_vars => TypeOK'
<1>. SUFFICES ASSUME TypeOK, [Next]_vars PROVE TypeOK'
  OBVIOUS
<1>1. ASSUME NEW r \in Requests, NEW i \in Invoices, NEW b \in Batches, NEW t \in Totals,
             Create(r, i, b, t)
      PROVE  TypeOK'
  BY <1>1, CreateType
<1>2. ASSUME NEW r \in Requests, Call(r) PROVE TypeOK'
  BY <1>2, CallType
<1>3. ASSUME NEW r \in Requests, Step(r) PROVE TypeOK'
  BY <1>3, StepType
<1>4. ASSUME NEW r \in Requests, Abort(r) PROVE TypeOK'
  BY <1>4 DEF Abort, Answer, TypeOK
<1>5. ASSUME NEW r \in Requests, NEW o \in Orgs, RemoveOrg(r, o) PROVE TypeOK'
  BY <1>5, RemoveType
<1>6. CASE UNCHANGED vars
  BY <1>6 DEF vars, TypeOK, Request, Row, ItemRow, PayRow
<1>. QED  BY <1>1, <1>2, <1>3, <1>4, <1>5, <1>6 DEF Next

\* Type correctness: rows, entities in memory and stages keep their shape in
\* every behaviour of the handlers.
THEOREM TypeCorrect == Spec => []TypeOK
<1>1. Init => TypeOK
  BY DEF Init, TypeOK, Row, NoRow
<1>. QED  BY <1>1, NextType, PTL DEF Spec

-----------------------------------------------------------------------------
\* Strengthening of RemovedBooksStayClosed: the invoice of a request in flight is
\* stored unless its organization was removed, so that no save can bring it
\* back, and the items it may write again are that invoice's.
OnRecord(q) ==
  /\ q.row.status # "absent"
  /\ Stored(q.inv) \/ Removed(q.inv)
  /\ \A x \in q.items \cup q.add : x.inv = q.inv

RecordsInv ==
  /\ TypeOK
  /\ RemovedBooksStayClosed
  /\ \A i \in Invoices : Stored(i) \/ invoice[i] = NoRow
  /\ \A r \in Busy : OnRecord(req[r])

LEMMA RecordsBegin ==
  ASSUME RecordsInv, TypeOK', NEW r \in Requests, NEW op \in Operations, NEW i \in Invoices,
         NEW stage \in Stages, NEW entity \in Row, entity.status # "absent",
         NEW pays, NEW dto, Begin(r, op, i, stage, entity, pays, dto)
  PROVE  RecordsInv'
<1>1. UNCHANGED <<invoice, items, payments, gone>>
  BY DEF Begin
<1>2. /\ RemovedBooksStayClosed'
      /\ \A j \in Invoices : Stored(j)' \/ invoice'[j] = NoRow
  BY <1>1 DEF RecordsInv, RemovedBooksStayClosed, Stored, Removed, ItemsOf, PaymentsOf
<1>3. ASSUME NEW s \in Requests, req'[s] # Idle PROVE OnRecord(req[s])'
  <2>1. CASE s = r
    <3>1. /\ req'[r].row = entity /\ req'[r].inv = i /\ req'[r].add = {}
          /\ req'[r].items \subseteq ItemsOf(i) /\ Stored(i)
      BY DEF RecordsInv, TypeOK, Begin
    <3>. QED  BY <1>1, <2>1, <3>1 DEF OnRecord, Stored, ItemsOf
  <2>2. CASE s # r
    <3>1. req'[s] = req[s] /\ OnRecord(req[s])
      BY <1>3, <2>2 DEF RecordsInv, TypeOK, Begin, Busy
    <3>. QED  BY <1>1, <3>1 DEF OnRecord, Stored, Removed
  <2>. QED  BY <2>1, <2>2
<1>. QED  BY <1>2, <1>3 DEF RecordsInv, Busy

LEMMA RecordsCall ==
  ASSUME RecordsInv, NEW r \in Requests, Call(r)
  PROVE  RecordsInv'
<1>1. TypeOK'
  BY CallType DEF RecordsInv
<1>2. PICK i \in Invoices :
        \/ FindForSend(r, i)
        \/ FindForVoid(r, i)
        \/ \E s \in Settable : FindForUpdate(r, i, s)
        \/ \E s \in Settable, t \in Totals : FindForItemsUpdate(r, i, s, t)
        \/ \E k \in Payments, d \in Dtos : FindForPayment(r, i, k, d)
        \/ \E p \in PaymentsOf(i), d \in Bodies : FindPayment(r, p, d)
  BY DEF Call
<1>3. \A j \in Invoices : invoice[j] \in Row
  BY DEF RecordsInv, TypeOK
<1>4. CASE FindForSend(r, i)
  BY <1>1, <1>3, <1>4, RecordsBegin DEF FindForSend, Row, Statuses, Operations, Stages
<1>5. CASE FindForVoid(r, i)
  BY <1>1, <1>3, <1>5, RecordsBegin DEF FindForVoid, Row, Statuses, Operations, Stages
<1>6. CASE \E s \in Settable : FindForUpdate(r, i, s)
  BY <1>1, <1>3, <1>6, RecordsBegin, SettableAreStatuses
     DEF FindForUpdate, Row, Statuses, Operations, Stages
<1>7. CASE \E s \in Settable, t \in Totals : FindForItemsUpdate(r, i, s, t)
  <2>1. PICK s \in Settable, t \in Totals : FindForItemsUpdate(r, i, s, t)
    BY <1>7
  <2>2. s \in Statuses /\ t \in Int /\ s # "absent"
    BY SettableAreStatuses, TotalsAreIntegers DEF Statuses
  <2>3. /\ [invoice[i] EXCEPT !.status = s, !.total = t] \in Row
        /\ [invoice[i] EXCEPT !.status = s, !.total = t].status # "absent"
    BY <1>3, <2>2 DEF Row
  <2>. QED
    BY <1>1, <2>1, <2>3, RecordsBegin DEF FindForItemsUpdate, Operations, Stages
<1>8. CASE \E k \in Payments, d \in Dtos : FindForPayment(r, i, k, d)
  <2>1. PICK k \in Payments, d \in Dtos : FindForPayment(r, i, k, d)
    BY <1>8
  <2>2. invoice[i].status # "absent"
    BY <2>1 DEF FindForPayment, Begin, Stored
  <2>. QED  BY <1>1, <1>3, <2>1, <2>2, RecordsBegin DEF FindForPayment, Operations, Stages
<1>9. CASE \E p \in PaymentsOf(i), d \in Bodies : FindPayment(r, p, d)
  <2>1. PICK p \in PaymentsOf(i), d \in Bodies : FindPayment(r, p, d)
    BY <1>9
  <2>2. p.inv \in Invoices /\ invoice[p.inv].status # "absent"
    BY <2>1 DEF FindPayment, Begin, Stored, PaymentsOf
  <2>. QED  BY <1>1, <1>3, <2>1, <2>2, RecordsBegin DEF FindPayment, Operations, Stages
<1>. QED  BY <1>2, <1>4, <1>5, <1>6, <1>7, <1>8, <1>9

\* A step of slot r keeps the records if the tables stay closed where they were
\* and no row comes or goes.
LEMMA RecordsSlot ==
  ASSUME RecordsInv, TypeOK', NEW r \in Requests, UNCHANGED gone,
         \A i \in Invoices : invoice'[i].status = "absent" <=> invoice[i].status = "absent",
         \A i \in Invoices : Stored(i)' \/ invoice'[i] = NoRow,
         \A x \in items' : ~Removed(x.inv), \A p \in payments' : ~Removed(p.inv),
         \A s \in Requests \ {r} : req'[s] = req[s],
         req'[r] # Idle => OnRecord(req'[r])
  PROVE  RecordsInv'
<1>1. RemovedBooksStayClosed'
  BY DEF RecordsInv, RemovedBooksStayClosed, Stored, Removed, ItemsOf, PaymentsOf
<1>2. ASSUME NEW s \in Requests, req'[s] # Idle PROVE OnRecord(req[s])'
  <2>1. OnRecord(req'[s]) /\ req'[s].inv \in Invoices
    BY <1>2 DEF RecordsInv, Busy, TypeOK, Request
  <2>. QED  BY <2>1 DEF OnRecord, Stored, Removed
<1>. QED  BY <1>1, <1>2 DEF RecordsInv, Busy

LEMMA RecordsStep ==
  ASSUME RecordsInv, NEW r \in Requests, Step(r) \/ Abort(r)
  PROVE  RecordsInv'
<1>1. TypeOK /\ TypeOK'
  BY StepType, NextType DEF RecordsInv, Next
<1>2. /\ \A x \in items : ~Removed(x.inv)
      /\ \A p \in payments : ~Removed(p.inv)
  BY DEF RecordsInv, RemovedBooksStayClosed, ItemsOf, PaymentsOf, TypeOK, ItemRow, PayRow
<1>3. req[r] # Idle => OnRecord(req[r])
  BY DEF RecordsInv, Busy
<1>4. \A i \in Invoices : Stored(i) => ~Removed(i)
  BY DEF RecordsInv, RemovedBooksStayClosed
<1>5. \A i \in Invoices : Stored(i) \/ invoice[i] = NoRow
  BY DEF RecordsInv
<1>6. CASE DeleteItems(r)
  <2>1. req[r] \in Request /\ OnRecord(req[r])
    BY <1>1, <1>3, <1>6, AtType DEF DeleteItems, Stages, At, Idle
  <2>2. OnRecord(req'[r]) /\ \A s \in Requests \ {r} : req'[s] = req[s]
    BY <1>1, <1>6, <2>1 DEF DeleteItems, OnRecord, TypeOK, Request
  <2>. QED  BY <1>1, <1>2, <1>5, <1>6, <2>2, RecordsSlot DEF DeleteItems, Stored
<1>7. CASE \/ RejectItems(r) \/ RefuseInsert(r) \/ RefuseWrite(r)
           \/ RefuseSave(r) \/ Emit(r) \/ Abort(r)
  <2>1. /\ UNCHANGED <<invoice, items, payments, gone>>
        /\ req' = [req EXCEPT ![r] = Idle]
    BY <1>7 DEF RejectItems, RefuseInsert, RefuseWrite, RefuseSave, Emit, Abort, Answer
  <2>. QED  BY <1>1, <1>2, <1>5, <2>1, RecordsSlot DEF TypeOK, Stored
<1>8. CASE \E b \in Batches : SaveItems(r, b)
  <2>1. req[r] \in Request /\ OnRecord(req[r])
    BY <1>1, <1>3, <1>8, AtType DEF SaveItems, Stages, At, Idle
  <2>2. OnRecord(req'[r]) /\ \A s \in Requests \ {r} : req'[s] = req[s]
    BY <1>1, <1>8, <2>1 DEF SaveItems, OnRecord, TypeOK, Request
  <2>3. ~Removed(req[r].inv)
    BY <1>4, <1>8, <2>1 DEF SaveItems, Request
  <2>4. \A x \in items' : ~Removed(x.inv)
    BY <1>2, <1>8, <2>3 DEF SaveItems
  <2>. QED  BY <1>1, <1>2, <1>5, <1>8, <2>2, <2>4, RecordsSlot DEF SaveItems, Stored
<1>9. CASE \E k \in Payments : InsertPayment(r, k)
  <2>1. req[r] \in Request /\ OnRecord(req[r])
    BY <1>1, <1>3, <1>9, AtType DEF InsertPayment, Stages, At, Idle
  <2>2. OnRecord(req'[r]) /\ \A s \in Requests \ {r} : req'[s] = req[s]
    <3>1. Pays(r, AddPaid(req[r].row.paid, req[r].dto.amount), AddIsValid(req[r].dto.amount))
      BY <1>1, <1>9, CountPays DEF InsertPayment
    <3>. QED  BY <2>1, <3>1 DEF Pays, OnRecord, Request, Row
  <2>3. ~Removed(req[r].inv)
    BY <1>4, <1>9, <2>1 DEF InsertPayment, Request
  <2>4. \A p \in payments' : ~Removed(p.inv)
    BY <1>2, <1>9, <2>3 DEF InsertPayment, StorePayment
  <2>. QED
    BY <1>1, <1>2, <1>5, <1>9, <2>2, <2>4, RecordsSlot DEF InsertPayment, StorePayment, Stored
<1>10. CASE \E p \in payments : WritePayment(r, p)
  <2>1. req[r] \in Request /\ OnRecord(req[r])
    BY <1>1, <1>3, <1>10, AtType DEF WritePayment, Stages, At, Idle
  <2>2. OnRecord(req'[r]) /\ \A s \in Requests \ {r} : req'[s] = req[s]
    BY <1>1, <1>10, <2>1 DEF WritePayment, OnRecord, TypeOK, Request
  <2>3. \A p \in payments' : ~Removed(p.inv)
    <3>1. PICK p \in payments : WritePayment(r, p)
      BY <1>10
    <3>2. [p EXCEPT !.amount = req[r].dto.amount, !.txn = req[r].dto.txn].inv = p.inv
      BY <1>1 DEF TypeOK, PayRow
    <3>. QED  BY <1>2, <3>1, <3>2 DEF WritePayment
  <2>. QED  BY <1>1, <1>2, <1>5, <1>10, <2>2, <2>3, RecordsSlot DEF WritePayment, Stored
<1>11. CASE SumPayments(r)
  <2>1. req[r] \in Request /\ OnRecord(req[r])
    BY <1>1, <1>3, <1>11, AtType DEF SumPayments, Stages, At, Idle
  <2>2. OnRecord(req'[r]) /\ \A s \in Requests \ {r} : req'[s] = req[s]
    <3>1. Pays(r, collected[SumOf(req[r])], SumIsValid(PaymentsOf(SumOf(req[r]))))
      BY <1>1, <1>11, SumPays
    <3>. QED  BY <2>1, <3>1 DEF Pays, OnRecord, Request, Row
  <2>. QED  BY <1>1, <1>2, <1>5, <1>11, <2>2, RecordsSlot DEF SumPayments, Stored
<1>12. CASE LoadForSave(r)
  <2>1. req[r] \in Request /\ OnRecord(req[r])
    <3>1. At(r, "save")
      BY <1>12 DEF LoadForSave
    <3>. QED  BY <1>1, <1>3, <3>1, AtType DEF Stages, At, Idle
  <2>2. OnRecord(req'[r]) /\ \A s \in Requests \ {r} : req'[s] = req[s]
    BY <1>1, <1>12, <2>1 DEF LoadForSave, OnRecord, TypeOK, Request
  <2>. QED  BY <1>1, <1>2, <1>5, <1>12, <2>2, RecordsSlot DEF LoadForSave, Stored
<1>13. CASE Flush(r)
  <2>1. req[r] \in Request /\ OnRecord(req[r]) /\ Stored(req[r].inv)
    BY <1>1, <1>3, <1>13, AtType DEF Flush, Stages, At, Idle
  <2>2. OnRecord(req'[r]) /\ \A s \in Requests \ {r} : req'[s] = req[s]
    <3>1. /\ req'[r].row = req[r].row /\ req'[r].inv = req[r].inv
          /\ req'[r].items = req[r].items /\ req'[r].add = req[r].add
      BY <1>1, <1>13, <2>1 DEF Flush, TypeOK, Request
    <3>. QED  BY <1>1, <1>13, <2>1, <3>1 DEF Flush, OnRecord, TypeOK
  <2>3. Pick(r, "status") # "absent"
    BY <2>1 DEF Pick, OnRecord, Stored
  <2>4. \A i \in Invoices :
          /\ invoice'[i].status = "absent" <=> invoice[i].status = "absent"
          /\ Stored(i)' \/ invoice'[i] = NoRow
    BY <1>1, <1>5, <1>13, <2>1, <2>3 DEF Flush, Stored, TypeOK, Request
  <2>5. \A x \in items' : ~Removed(x.inv)
    BY <1>2, <1>4, <1>13, <2>1 DEF Flush, OnRecord, Request
  <2>. QED  BY <1>1, <1>2, <1>13, <2>2, <2>4, <2>5, RecordsSlot DEF Flush
<1>14. CASE FlushNothing(r)
  <2>1. req[r] \in Request /\ OnRecord(req[r])
    BY <1>1, <1>3, <1>14, AtType DEF FlushNothing, Stages, At, Idle
  <2>2. /\ req'[r] # Idle => OnRecord(req'[r])
        /\ \A s \in Requests \ {r} : req'[s] = req[s]
    BY <1>1, <1>14, <2>1 DEF FlushNothing, Answer, OnRecord, TypeOK, Request
  <2>. QED  BY <1>1, <1>2, <1>5, <1>14, <2>2, RecordsSlot DEF FlushNothing, Stored
<1>. QED
  BY <1>6, <1>7, <1>8, <1>9, <1>10, <1>11, <1>12, <1>13, <1>14 DEF Step

\* Removing an organization closes its books, and no other.
LEMMA RecordsRemove ==
  ASSUME RecordsInv, NEW q \in Requests, NEW o \in Orgs, RemoveOrg(q, o)
  PROVE  RecordsInv'
<1>1. TypeOK'
  BY RemoveType DEF RecordsInv
<1>2. \A i \in Invoices : invoice'[i] = IF OrgOf[i] = o THEN NoRow ELSE invoice[i]
  BY DEF RemoveOrg
<1>3. RemovedBooksStayClosed'
  <2>. SUFFICES ASSUME NEW i \in Invoices, Removed(i)'
                PROVE  (~Stored(i) /\ ItemsOf(i) = {} /\ PaymentsOf(i) = {})'
    BY DEF RemovedBooksStayClosed
  <2>1. CASE OrgOf[i] = o
    BY <1>2, <2>1 DEF RemoveOrg, Stored, NoRow, ItemsOf, PaymentsOf
  <2>2. CASE OrgOf[i] # o
    <3>1. Removed(i)
      BY <2>2 DEF RemoveOrg, Removed
    <3>. QED
      BY <1>2, <2>2, <3>1
         DEF RecordsInv, RemovedBooksStayClosed, RemoveOrg, Stored, ItemsOf, PaymentsOf
  <2>. QED  BY <2>1, <2>2
<1>4. \A i \in Invoices : Stored(i)' \/ invoice'[i] = NoRow
  BY <1>2 DEF RecordsInv, Stored
<1>5. ASSUME NEW s \in Requests, req'[s] # Idle PROVE OnRecord(req[s])'
  <2>1. req'[s] = req[s] /\ OnRecord(req[s]) /\ req[s].inv \in Invoices
    BY <1>5 DEF RemoveOrg, RecordsInv, Busy, TypeOK, Request
  <2>2. Stored(req[s].inv)' \/ Removed(req[s].inv)'
    BY <1>2, <2>1 DEF RemoveOrg, OnRecord, Stored, Removed
  <2>. QED  BY <2>1, <2>2 DEF OnRecord
<1>. QED  BY <1>1, <1>3, <1>4, <1>5 DEF RecordsInv, Busy

LEMMA RecordsCreate ==
  ASSUME RecordsInv, NEW r \in Requests, NEW i \in Invoices, NEW b \in Batches,
         NEW t \in Totals, Create(r, i, b, t)
  PROVE  RecordsInv'
<1>1. TypeOK /\ TypeOK'
  BY CreateType DEF RecordsInv
<1>2. \A j \in Invoices :
        /\ j # i => invoice'[j] = invoice[j]
        /\ j = i => Stored(j)' /\ ~Removed(j)'
  BY <1>1 DEF Create, TypeOK, Stored, Removed
<1>3. RemovedBooksStayClosed'
  BY <1>2 DEF RecordsInv, RemovedBooksStayClosed, Create, Stored, Removed, ItemsOf, PaymentsOf
<1>4. \A j \in Invoices : Stored(j)' \/ invoice'[j] = NoRow
  BY <1>2 DEF RecordsInv, Stored
<1>5. ASSUME NEW s \in Requests, req'[s] # Idle PROVE OnRecord(req[s])'
  <2>1. CASE s = r
    <3>1. /\ req'[r].inv = i /\ req'[r].row.status = "draft"
          /\ \A x \in req'[r].items \cup req'[r].add : x.inv = i
      BY <1>1 DEF Create, TypeOK
    <3>. QED  BY <1>2, <2>1, <3>1 DEF OnRecord
  <2>2. CASE s # r
    <3>1. req'[s] = req[s] /\ OnRecord(req[s]) /\ req[s].inv \in Invoices
      BY <1>1, <1>5, <2>2 DEF Create, RecordsInv, Busy, TypeOK, Request
    <3>. QED  BY <1>2, <3>1 DEF Create, OnRecord, Stored, Removed
  <2>. QED  BY <2>1, <2>2
<1>. QED  BY <1>1, <1>3, <1>4, <1>5 DEF RecordsInv, Busy

LEMMA RecordsKept == Spec => []RecordsInv
<1>1. Init => RecordsInv
  <2>1. Init => TypeOK
    BY DEF Init, TypeOK, Row, NoRow
  <2>. QED  BY <2>1 DEF Init, RecordsInv, RemovedBooksStayClosed, Stored, Removed, Busy
<1>2. RecordsInv /\ [Next]_vars => RecordsInv'
  <2>. SUFFICES ASSUME RecordsInv, [Next]_vars PROVE RecordsInv'
    OBVIOUS
  <2>1. CASE UNCHANGED vars
    <3>1. TypeOK'
      BY <2>1, NextType DEF RecordsInv
    <3>. QED
      BY <2>1, <3>1 DEF vars, RecordsInv, RemovedBooksStayClosed, OnRecord, Stored,
                        Removed, ItemsOf, PaymentsOf, Busy
  <2>. QED
    BY <2>1, RecordsCall, RecordsStep, RecordsRemove, RecordsCreate DEF Next
<1>. QED  BY <1>1, <1>2, PTL DEF Spec

\* Whatever requests were in flight when an organization was removed, none of them
\* stores an invoice, an item or a payment of it again.
THEOREM ClosedForGood == Spec => []RemovedBooksStayClosed
<1>1. RecordsInv => RemovedBooksStayClosed
  BY DEF RecordsInv
<1>. QED  BY <1>1, RecordsKept, PTL

-----------------------------------------------------------------------------
\* The sum of a set of payment rows.
Money(S) == MapThenSumSet(LAMBDA p : p.amount, S)

LEMMA MoneyAddsUp ==
  ASSUME NEW S, IsFiniteSet(S), \A p \in S : p.amount \in Int
  PROVE  /\ Money(S) \in Int
         /\ S = {} => Money(S) = 0
         /\ \A z \in S : Money(S) = z.amount + Money(S \ {z})
BY AmountsAddUp, Zenon DEF Money

\* What a step of a slot may do to the slots, and to the payments table.
LEMMA StepKeeps ==
  ASSUME TypeOK, NEW r \in Requests, Step(r)
  PROVE  /\ req[r] \in Request
         /\ \A s \in Requests \ {r} : req'[s] = req[s]
         /\ req'[r] # Idle =>
              /\ req'[r].op = req[r].op /\ req'[r].inv = req[r].inv
              /\ req'[r].pays = req[r].pays /\ req'[r].dto = req[r].dto
              /\ req'[r].pc \in {"saveItems", "sumPayments", "save", "flush", "emit"}
         /\ UNCHANGED gone
         /\ \/ \E k \in Payments : InsertPayment(r, k)
            \/ \E p \in payments : WritePayment(r, p)
            \/ UNCHANGED <<payments, collected>>
<1>1. CASE \/ RejectItems(r) \/ RefuseInsert(r) \/ RefuseWrite(r)
           \/ RefuseSave(r) \/ Emit(r)
  <2>1. req' = [req EXCEPT ![r] = Idle] /\ UNCHANGED <<payments, collected, gone>>
    BY <1>1 DEF RejectItems, RefuseInsert, RefuseWrite, RefuseSave, Emit, Answer
  <2>2. req[r] \in Request
    <3>1. \E stage \in Stages : At(r, stage)
      BY <1>1 DEF RejectItems, RefuseInsert, RefuseWrite, RefuseSave, Emit, Stages
    <3>. QED  BY <3>1, AtType
  <2>. QED  BY <2>1, <2>2 DEF TypeOK
<1>2. CASE \/ DeleteItems(r) \/ SumPayments(r) \/ LoadForSave(r)
           \/ Flush(r) \/ \E b \in Batches : SaveItems(r, b)
  <2>1. req[r] \in Request
    <3>1. \E stage \in Stages : At(r, stage)
      BY <1>2 DEF DeleteItems, SumPayments, LoadForSave, Flush, SaveItems, Stages
    <3>. QED  BY <3>1, AtType
  <2>2. UNCHANGED <<payments, collected, gone>>
    BY <1>2 DEF DeleteItems, SumPayments, LoadForSave, Flush, SaveItems
  <2>3. CASE DeleteItems(r)
    BY <2>1, <2>2, <2>3 DEF DeleteItems, TypeOK, Request
  <2>4. CASE SumPayments(r)
    BY <2>1, <2>2, <2>4, SumPays DEF Pays
  <2>5. CASE LoadForSave(r)
    BY <2>1, <2>2, <2>5 DEF LoadForSave, TypeOK, Request
  <2>6. CASE Flush(r)
    BY <2>1, <2>2, <2>6 DEF Flush, TypeOK, Request
  <2>7. CASE \E b \in Batches : SaveItems(r, b)
    BY <2>1, <2>2, <2>7 DEF SaveItems, TypeOK, Request
  <2>. QED  BY <1>2, <2>3, <2>4, <2>5, <2>6, <2>7
<1>3. CASE \E k \in Payments : InsertPayment(r, k)
  <2>1. req[r] \in Request
    BY <1>3, AtType DEF InsertPayment, Stages
  <2>. QED
    BY <1>3, <2>1, CountPays DEF InsertPayment, StorePayment, Pays
<1>4. CASE \E p \in payments : WritePayment(r, p)
  <2>1. req[r] \in Request
    BY <1>4, AtType DEF WritePayment, Stages
  <2>2. req' = [req EXCEPT ![r].pc = "sumPayments"] /\ UNCHANGED gone
    BY <1>4 DEF WritePayment
  <2>. QED  BY <1>4, <2>1, <2>2 DEF TypeOK, Request
<1>5. CASE FlushNothing(r)
  <2>1. req[r] \in Request
    BY <1>5, AtType DEF FlushNothing, Stages
  <2>. QED  BY <1>5, <2>1 DEF FlushNothing, Answer, TypeOK, Request
<1>. QED  BY <1>1, <1>2, <1>3, <1>4, <1>5 DEF Step

-----------------------------------------------------------------------------
\* Keys.  The id of a payment still to be inserted is that of no row and of no
\* other payment on its way, so every insert is of a new row.
Unborn(r) ==
  /\ req[r].op = "pay"
  /\ \A k \in req[r].pays :
       /\ \A p \in payments : p.id # k
       /\ \A s \in Busy \ {r} : req[s].op = "pay" => k \notin req[s].pays

KeyInv ==
  /\ TypeOK
  /\ IsFiniteSet(payments)
  /\ \A p, q \in payments : p.id = q.id => p = q
  /\ \A r \in Requests : At(r, "insertPayment") => Unborn(r)

LEMMA KeySlot ==
  ASSUME KeyInv, TypeOK', NEW r \in Requests, UNCHANGED payments,
         \A s \in Requests \ {r} : req'[s] = req[s],
         req'[r] # Idle =>
           /\ req[r] # Idle /\ req'[r].op = req[r].op /\ req'[r].pays = req[r].pays
           /\ req'[r].pc # "insertPayment"
  PROVE  KeyInv'
<1>1. ASSUME NEW s \in Requests, At(s, "insertPayment")' PROVE Unborn(s)'
  <2>1. s # r /\ req'[s] = req[s] /\ Unborn(s)
    BY <1>1 DEF KeyInv, At, Idle
  <2>. QED  BY <2>1 DEF Unborn, Busy
<1>. QED  BY <1>1 DEF KeyInv

LEMMA KeyBegin ==
  ASSUME KeyInv, TypeOK', NEW r \in Requests, NEW op, NEW i, NEW stage, NEW entity,
         NEW pays, NEW dto, Begin(r, op, i, stage, entity, pays, dto),
         op = "pay" \/ stage = "insertPayment" =>
           op = "pay" /\ \A k \in pays : FreshPayment(k)
  PROVE  KeyInv'
<1>1. /\ UNCHANGED payments /\ req[r] = Idle
      /\ \A s \in Requests \ {r} : req'[s] = req[s]
      /\ req'[r].pc = stage /\ req'[r].op = op /\ req'[r].pays = pays
  BY DEF KeyInv, TypeOK, Begin
<1>2. ASSUME NEW s \in Requests, At(s, "insertPayment")' PROVE Unborn(s)'
  <2>1. CASE s = r
    BY <1>1, <1>2, <2>1 DEF At, Unborn, FreshPayment, Busy
  <2>2. CASE s # r
    <3>1. req'[s] = req[s] /\ Unborn(s) /\ s \in Busy
      BY <1>1, <1>2, <2>2 DEF KeyInv, At, Busy, Idle
    <3>2. op = "pay" => \A k \in pays : k \notin req[s].pays
      BY <3>1 DEF FreshPayment, Unborn
    <3>. QED  BY <1>1, <3>1, <3>2 DEF Unborn, Busy
  <2>. QED  BY <2>1, <2>2
<1>. QED  BY <1>1, <1>2 DEF KeyInv

LEMMA KeyCall ==
  ASSUME KeyInv, NEW r \in Requests, Call(r)
  PROVE  KeyInv'
<1>1. TypeOK'
  BY CallType DEF KeyInv
<1>. QED
  BY <1>1, KeyBegin
     DEF Call, FindForSend, FindForVoid, FindForUpdate, FindForItemsUpdate,
         FindForPayment, FindPayment

\* An insert adds one new row, with the invoice and the amount of the request.
Inserted(r, k) == [id |-> k, inv |-> req[r].inv,
                   amount |-> req[r].dto.amount, txn |-> req[r].dto.txn]

LEMMA KeyInsert ==
  ASSUME KeyInv, NEW r \in Requests, NEW k \in Payments, InsertPayment(r, k)
  PROVE  /\ KeyInv'
         /\ payments' = payments \cup {Inserted(r, k)}
         /\ Inserted(r, k) \notin payments
         /\ \A p \in payments : p.id \notin req[r].pays
<1>1. TypeOK'
  BY StepType DEF KeyInv, Step
<1>2. Unborn(r) /\ k \in req[r].pays /\ r \in Busy
  BY DEF KeyInv, InsertPayment, At, Busy, Idle
<1>3. payments' = payments \cup {Inserted(r, k)}
  BY DEF InsertPayment, StorePayment, Inserted
<1>4. \A p \in payments : p.id # k
  BY <1>2 DEF Unborn
<1>5. IsFiniteSet(payments')
  <2>. HIDE DEF Inserted
  <2>. QED  BY <1>3, FS_AddElement DEF KeyInv
<1>6. \A p, q \in payments' : p.id = q.id => p = q
  BY <1>3, <1>4 DEF KeyInv, Inserted
<1>7. /\ \A s \in Requests \ {r} : req'[s] = req[s]
      /\ req'[r].pc = "save" /\ req'[r].op = req[r].op /\ req'[r].pays = req[r].pays
  BY CountPays DEF KeyInv, InsertPayment, Pays
<1>8. ASSUME NEW s \in Requests, At(s, "insertPayment")' PROVE Unborn(s)'
  <2>1. s # r /\ req'[s] = req[s] /\ Unborn(s)
    BY <1>7, <1>8 DEF KeyInv, At
  <2>2. k \notin req[s].pays
    BY <1>2, <2>1 DEF Unborn
  <2>3. \A p \in payments' : p.id \notin req[s].pays
    BY <1>3, <2>1, <2>2 DEF Unborn, Inserted
  <2>. QED  BY <1>2, <1>7, <2>1, <2>3 DEF Unborn, Busy
<1>. QED  BY <1>1, <1>2, <1>3, <1>4, <1>5, <1>6, <1>8 DEF KeyInv, Unborn, Inserted

\* A correction replaces one row by a row of the same id and invoice.
Corrected(r, p) == [p EXCEPT !.amount = req[r].dto.amount, !.txn = req[r].dto.txn]

LEMMA KeyWrite ==
  ASSUME KeyInv, NEW r \in Requests, NEW p \in payments, WritePayment(r, p)
  PROVE  /\ KeyInv'
         /\ payments' = (payments \ {p}) \cup {Corrected(r, p)}
         /\ Corrected(r, p) \notin payments \ {p}
         /\ Corrected(r, p).inv = p.inv /\ Corrected(r, p).amount = req[r].dto.amount
<1>1. TypeOK'
  BY StepType DEF KeyInv, Step
<1>2. p \in PayRow /\ req[r] \in Request
  BY AtType DEF WritePayment, KeyInv, TypeOK, Stages
<1>3. payments' = (payments \ {p}) \cup {Corrected(r, p)}
  BY DEF WritePayment, Corrected
<1>4. /\ Corrected(r, p).id = p.id /\ Corrected(r, p).inv = p.inv
      /\ Corrected(r, p).amount = req[r].dto.amount
  BY <1>2 DEF Corrected, PayRow
<1>5. IsFiniteSet(payments')
  <2>1. IsFiniteSet(payments \ {p})
    BY FS_Subset DEF KeyInv
  <2>. HIDE DEF Corrected
  <2>. QED  BY <1>3, <2>1, FS_AddElement
<1>6. /\ \A a, b \in payments' : a.id = b.id => a = b
      /\ Corrected(r, p) \notin payments \ {p}
  <2>. HIDE DEF Corrected
  <2>. QED  BY <1>3, <1>4 DEF KeyInv
<1>7. /\ \A s \in Requests \ {r} : req'[s] = req[s]
      /\ req'[r].pc = "sumPayments" /\ req'[r].op = req[r].op /\ req'[r].pays = req[r].pays
  BY <1>2 DEF KeyInv, TypeOK, WritePayment, Request
<1>8. ASSUME NEW s \in Requests, At(s, "insertPayment")' PROVE Unborn(s)'
  <2>1. s # r /\ req'[s] = req[s] /\ Unborn(s)
    BY <1>7, <1>8 DEF KeyInv, At
  <2>2. \A a \in payments' : \E b \in payments : a.id = b.id
    <3>. HIDE DEF Corrected
    <3>. QED  BY <1>3, <1>4
  <2>. QED  BY <1>7, <2>1, <2>2 DEF Unborn, Busy, WritePayment, At, Idle
<1>. QED  BY <1>1, <1>3, <1>4, <1>5, <1>6, <1>8 DEF KeyInv

LEMMA KeyNext == KeyInv /\ [Next]_vars => KeyInv'
<1>. SUFFICES ASSUME KeyInv, [Next]_vars PROVE KeyInv'
  OBVIOUS
<1>1. TypeOK'
  BY NextType DEF KeyInv
<1>2. ASSUME NEW r \in Requests, Step(r) PROVE KeyInv'
  <2>1. CASE UNCHANGED payments
    <3>1. req[r] # Idle
      BY <1>2, StepKeeps DEF KeyInv, Request, Idle, Stages
    <3>. QED  BY <1>1, <1>2, <2>1, <3>1, StepKeeps, KeySlot DEF KeyInv
  <2>. QED  BY <1>2, <2>1, StepKeeps, KeyInsert, KeyWrite DEF KeyInv
<1>3. ASSUME NEW r \in Requests, Abort(r) PROVE KeyInv'
  BY <1>1, <1>3, KeySlot DEF Abort, Answer, KeyInv, TypeOK
<1>4. ASSUME NEW r \in Requests, NEW o \in Orgs, RemoveOrg(r, o) PROVE KeyInv'
  <2>1. payments' \subseteq payments /\ UNCHANGED req
    BY <1>4 DEF RemoveOrg
  <2>2. IsFiniteSet(payments')
    BY <2>1, FS_Subset DEF KeyInv
  <2>. QED  BY <1>1, <2>1, <2>2 DEF KeyInv, Unborn, At, Busy
<1>5. ASSUME NEW r \in Requests, NEW i \in Invoices, NEW b \in Batches, NEW t \in Totals,
             Create(r, i, b, t)
      PROVE  KeyInv'
  <2>1. /\ UNCHANGED payments /\ req'[r].op = "create" /\ req'[r].pc = "emit"
        /\ \A s \in Requests \ {r} : req'[s] = req[s]
    BY <1>5 DEF Create, KeyInv, TypeOK
  <2>2. ASSUME NEW s \in Requests, At(s, "insertPayment")' PROVE Unborn(s)'
    <3>1. s # r /\ req'[s] = req[s] /\ Unborn(s)
      BY <2>1, <2>2 DEF KeyInv, At
    <3>. QED  BY <2>1, <3>1 DEF Unborn, Busy
  <2>. QED  BY <1>1, <2>1, <2>2 DEF KeyInv
<1>6. CASE UNCHANGED vars
  BY <1>1, <1>6 DEF KeyInv, Unborn, At, Busy, vars
<1>. QED  BY <1>2, <1>3, <1>4, <1>5, <1>6, KeyCall DEF Next

LEMMA KeyInit == Init => KeyInv
<1>1. Init => TypeOK
  BY DEF Init, TypeOK, Row, NoRow
<1>2. IsFiniteSet({})
  BY FS_EmptySet
<1>. QED  BY <1>1, <1>2 DEF Init, KeyInv, At, Idle

-----------------------------------------------------------------------------
\* The history collected: whatever overlaps, it is the sum of the rows.
CashInv == KeyInv /\ \A i \in Invoices : collected[i] = Collected(i)

LEMMA CollectedIsMoney ==
  ASSUME NEW i
  PROVE  Collected(i) = Money(PaymentsOf(i)) /\ Collected(i)' = Money(PaymentsOf(i)')
<1>1. Collected(i) = Money(PaymentsOf(i))
  BY DEF Collected, Money
<1>2. Collected(i)' = Money(PaymentsOf(i)')
  BY Zenon DEF Collected, Money, MapThenSumSet, MapThenFoldSet
<1>. QED  BY <1>1, <1>2

LEMMA FinitePayments ==
  ASSUME KeyInv, NEW S \in SUBSET payments
  PROVE  IsFiniteSet(S) /\ \A p \in S : p.amount \in Int
BY FS_Subset DEF KeyInv, TypeOK, PayRow

LEMMA MoneyGrows ==
  ASSUME NEW S, IsFiniteSet(S), NEW new, new \notin S, new.amount \in Int,
         \A p \in S : p.amount \in Int
  PROVE  Money(S \cup {new}) = Money(S) + new.amount
<1>1. IsFiniteSet(S \cup {new})
  BY FS_AddElement
<1>2. Money(S \cup {new}) = new.amount + Money((S \cup {new}) \ {new})
  BY <1>1, MoneyAddsUp
<1>3. (S \cup {new}) \ {new} = S
  OBVIOUS
<1>4. Money((S \cup {new}) \ {new}) = Money(S)
  BY <1>3
<1>5. Money(S) \in Int
  BY MoneyAddsUp
<1>. QED  BY <1>2, <1>4, <1>5

LEMMA CashInsert ==
  ASSUME CashInv, NEW r \in Requests, NEW k \in Payments, InsertPayment(r, k),
         NEW i \in Invoices
  PROVE  collected'[i] = Money(PaymentsOf(i)')
<1>. DEFINE new == Inserted(r, k)
<1>1. /\ payments' = payments \cup {new} /\ new \notin payments
  BY KeyInsert DEF CashInv
<1>2. /\ req[r] \in Request /\ req[r].dto.amount \in Int
      /\ new.inv = req[r].inv /\ new.amount = req[r].dto.amount
  <2>1. req[r] \in Request
    BY AtType DEF InsertPayment, CashInv, KeyInv, Stages
  <2>. QED  BY <2>1 DEF Inserted, Request, Dto
<1>3. collected' = [collected EXCEPT ![req[r].inv] = @ + req[r].dto.amount]
  BY DEF InsertPayment, StorePayment
<1>. HIDE DEF new
<1>4. CASE i = req[r].inv
  <2>1. PaymentsOf(i)' = PaymentsOf(i) \cup {new}
    BY <1>1, <1>2, <1>4 DEF PaymentsOf
  <2>2. /\ new \notin PaymentsOf(i)
        /\ IsFiniteSet(PaymentsOf(i)) /\ \A p \in PaymentsOf(i) : p.amount \in Int
    BY <1>1, FinitePayments DEF PaymentsOf, CashInv
  <2>3. Money(PaymentsOf(i) \cup {new}) = Money(PaymentsOf(i)) + new.amount
    BY <1>2, <2>2, MoneyGrows
  <2>. QED  BY <1>2, <1>3, <1>4, <2>1, <2>3, CollectedIsMoney DEF CashInv, KeyInv, TypeOK
<1>5. CASE i # req[r].inv
  <2>1. PaymentsOf(i)' = PaymentsOf(i)
    BY <1>1, <1>2, <1>5 DEF PaymentsOf
  <2>. QED  BY <1>3, <1>5, <2>1, CollectedIsMoney DEF CashInv, KeyInv, TypeOK
<1>. QED  BY <1>4, <1>5

LEMMA CashWrite ==
  ASSUME CashInv, NEW r \in Requests, NEW p \in payments, WritePayment(r, p),
         NEW i \in Invoices
  PROVE  collected'[i] = Money(PaymentsOf(i)')
<1>. DEFINE new == Corrected(r, p)
<1>1. /\ payments' = (payments \ {p}) \cup {new} /\ new \notin payments \ {p}
      /\ new.inv = p.inv /\ new.amount = req[r].dto.amount
  BY KeyWrite DEF CashInv
<1>2. /\ p \in PayRow /\ req[r].dto.amount \in Int /\ p.amount \in Int
  <2>1. p \in PayRow /\ req[r] \in Request
    BY AtType DEF WritePayment, CashInv, KeyInv, TypeOK, Stages
  <2>. QED  BY <2>1 DEF PayRow, Request, Dto
<1>3. collected' = [collected EXCEPT ![p.inv] = @ + req[r].dto.amount - p.amount]
  BY DEF WritePayment
<1>. HIDE DEF new
<1>4. CASE i = p.inv
  <2>. DEFINE others == PaymentsOf(i) \ {p}
  <2>1. PaymentsOf(i)' = others \cup {new} /\ new \notin others /\ p \in PaymentsOf(i)
    BY <1>1, <1>4 DEF PaymentsOf
  <2>2. /\ IsFiniteSet(PaymentsOf(i)) /\ \A a \in PaymentsOf(i) : a.amount \in Int
        /\ IsFiniteSet(others) /\ \A a \in others : a.amount \in Int
    BY FinitePayments DEF PaymentsOf, CashInv
  <2>3. Money(PaymentsOf(i)) = p.amount + Money(others)
    BY <2>1, <2>2, MoneyAddsUp
  <2>4. Money(others) \in Int
    <3>. HIDE DEF others
    <3>. QED  BY <2>2, MoneyAddsUp
  <2>5. Money(others \cup {new}) = Money(others) + new.amount
    <3>. HIDE DEF others
    <3>. QED  BY <1>1, <1>2, <2>1, <2>2, MoneyGrows
  <2>6. collected'[i] = collected[i] + new.amount - p.amount
    BY <1>1, <1>3, <1>4 DEF CashInv, KeyInv, TypeOK
  <2>. HIDE DEF others
  <2>. QED  BY <1>1, <1>2, <2>1, <2>3, <2>4, <2>5, <2>6, CollectedIsMoney DEF CashInv
<1>5. CASE i # p.inv
  <2>1. PaymentsOf(i)' = PaymentsOf(i)
    BY <1>1, <1>5 DEF PaymentsOf
  <2>. QED  BY <1>2, <1>3, <1>5, <2>1, CollectedIsMoney DEF CashInv, KeyInv, TypeOK
<1>. QED  BY <1>4, <1>5

LEMMA CashNext == CashInv /\ [Next]_vars => CashInv'
<1>. SUFFICES ASSUME CashInv, [Next]_vars PROVE CashInv'
  OBVIOUS
<1>1. KeyInv'
  BY KeyNext DEF CashInv
<1>. SUFFICES ASSUME NEW i \in Invoices PROVE collected'[i] = Money(PaymentsOf(i)')
  BY <1>1, CollectedIsMoney DEF CashInv
<1>2. CASE UNCHANGED <<payments, collected>>
  <2>1. PaymentsOf(i)' = PaymentsOf(i)
    BY <1>2 DEF PaymentsOf
  <2>. QED  BY <1>2, <2>1, CollectedIsMoney DEF CashInv
<1>3. ASSUME NEW r \in Requests, Step(r)
      PROVE  collected'[i] = Money(PaymentsOf(i)')
  BY <1>2, <1>3, StepKeeps, CashInsert, CashWrite DEF CashInv, KeyInv
<1>4. ASSUME NEW r \in Requests, NEW o \in Orgs, RemoveOrg(r, o)
      PROVE  collected'[i] = Money(PaymentsOf(i)')
  <2>1. CASE OrgOf[i] = o
    <3>1. PaymentsOf(i)' = {} /\ collected'[i] = 0
      BY <1>4, <2>1 DEF RemoveOrg, PaymentsOf
    <3>2. Money({}) = 0
      BY MoneyAddsUp, FS_EmptySet
    <3>. QED  BY <3>1, <3>2
  <2>2. CASE OrgOf[i] # o
    <3>1. PaymentsOf(i)' = PaymentsOf(i) /\ collected'[i] = collected[i]
      BY <1>4, <2>2 DEF RemoveOrg, PaymentsOf
    <3>. QED  BY <3>1, CollectedIsMoney DEF CashInv
  <2>. QED  BY <2>1, <2>2
<1>5. ASSUME NEW r \in Requests, Call(r) \/ Abort(r)
      PROVE  UNCHANGED <<payments, collected>>
  BY <1>5 DEF Call, Abort, FindForSend, FindForVoid, FindForUpdate, FindForItemsUpdate,
              FindForPayment, FindPayment, Begin
<1>6. CASE \/ \E r \in Requests, j \in Invoices, b \in Batches, t \in Totals : Create(r, j, b, t)
           \/ UNCHANGED vars
  BY <1>2, <1>6 DEF Create, vars
<1>. QED  BY <1>2, <1>3, <1>4, <1>5, <1>6 DEF Next

\* The history collected, as the sum that the reducer of updatePayment computes.
CollectedIsTheSum == \A i \in Invoices : collected[i] = Collected(i)

LEMMA CashInit == Init => CashInv
<1>1. Init => \A i \in Invoices : PaymentsOf(i) = {} /\ collected[i] = 0
  BY DEF Init, PaymentsOf
<1>2. Money({}) = 0
  BY MoneyAddsUp, FS_EmptySet
<1>. QED  BY <1>1, <1>2, KeyInit, CollectedIsMoney DEF CashInv

LEMMA CashKept == Spec => []CashInv
BY CashInit, CashNext, PTL DEF Spec

\* The model's record of the money received is exact: in every behaviour it is the
\* sum of the payment rows.
THEOREM HistoryIsExact == Spec => []CollectedIsTheSum
<1>1. CashInv => CollectedIsTheSum
  BY DEF CashInv, CollectedIsTheSum
<1>. QED  BY <1>1, CashKept, PTL

-----------------------------------------------------------------------------
\* The payments that createPayment counts, and what it makes of one.
Counts(amount) == AddIsValid(amount) /\ RoundsUp(amount \div 100)
Counting(i)    == {p \in PaymentsOf(i) : Counts(p.amount)}

LEMMA AddPaidCounts ==
  ASSUME NEW paid \in Int, NEW amount \in Int, AddIsValid(amount)
  PROVE  AddPaid(paid, amount) = paid + (IF Counts(amount) THEN 1 ELSE 0)
BY DEF AddPaid, Counts

LEMMA CountedIsCounting ==
  ASSUME NEW i
  PROVE  Counted(i) = Cardinality(Counting(i)) /\ Counted(i)' = Cardinality(Counting(i)')
BY DEF Counted, Counting, Counts

LEMMA CountedType ==
  ASSUME KeyInv, NEW i
  PROVE  IsFiniteSet(Counting(i)) /\ Counted(i) \in Nat
<1>1. IsFiniteSet(Counting(i))
  BY FS_Subset DEF KeyInv, Counting, PaymentsOf
<1>. QED  BY <1>1, FS_CardinalityType, CountedIsCounting

\* An insert is of one new row, so it counts once at most.
LEMMA CountedInsert ==
  ASSUME KeyInv, NEW r \in Requests, NEW k \in Payments, InsertPayment(r, k), NEW i \in Invoices
  PROVE  Counted(i)' =
           Counted(i) + (IF i = req[r].inv /\ Counts(req[r].dto.amount) THEN 1 ELSE 0)
<1>. DEFINE new == Inserted(r, k)
<1>1. payments' = payments \cup {new} /\ new \notin payments
  BY KeyInsert
<1>2. new.inv = req[r].inv /\ new.amount = req[r].dto.amount
  BY DEF Inserted
<1>. HIDE DEF new
<1>3. CASE i = req[r].inv /\ Counts(req[r].dto.amount)
  <2>1. Counting(i)' = Counting(i) \cup {new} /\ new \notin Counting(i)
    BY <1>1, <1>2, <1>3 DEF Counting, PaymentsOf
  <2>2. Cardinality(Counting(i) \cup {new}) = Cardinality(Counting(i)) + 1
    BY <2>1, CountedType, FS_AddElement
  <2>. QED  BY <1>3, <2>1, <2>2, CountedIsCounting
<1>4. CASE ~(i = req[r].inv /\ Counts(req[r].dto.amount))
  <2>1. Counting(i)' = Counting(i)
    BY <1>1, <1>2, <1>4 DEF Counting, PaymentsOf
  <2>. QED  BY <1>4, <2>1, CountedIsCounting, CountedType
<1>. QED  BY <1>3, <1>4

LEMMA CountedKept ==
  ASSUME NEW i, PaymentsOf(i)' = PaymentsOf(i)
  PROVE  Counted(i)' = Counted(i)
<1>1. Counting(i)' = Counting(i)
  BY DEF Counting
<1>. QED  BY <1>1, CountedIsCounting

\* Strengthening of PaymentsCountOnce: until the first correction, the sum that a
\* handler in flight may still write counts payments that are stored.
Backed(q) ==
  /\ q.op = "repay" => q.pc = "writePayment"
  /\ q.pc # "sumPayments"
  /\ Stored(q.inv) /\ q.valid => q.row.paid <= Counted(q.inv)
  /\ q.pc \in {"insertPayment", "flush"} => q.valid

CountInv ==
  /\ KeyInv
  /\ PaymentsCountOnce
  /\ Uncorrected => \A r \in Busy : Backed(req[r])

\* The steps that leave invoices and payments alone.
LEMMA CountQuiet ==
  ASSUME CountInv, KeyInv', NEW r \in Requests, UNCHANGED <<invoice, payments>>,
         Uncorrected' => Uncorrected,
         \A s \in Requests \ {r} : req'[s] = req[s],
         Uncorrected /\ req'[r] # Idle => Backed(req'[r])
  PROVE  CountInv'
<1>1. \A i \in Invoices : Counted(i)' = Counted(i)
  BY CountedKept DEF PaymentsOf
<1>2. PaymentsCountOnce'
  BY <1>1 DEF CountInv, PaymentsCountOnce
<1>3. ASSUME Uncorrected, NEW s \in Requests, req'[s] # Idle PROVE Backed(req[s])'
  <2>1. Backed(req'[s]) /\ req'[s].inv \in Invoices
    BY <1>3 DEF CountInv, KeyInv, TypeOK, Busy, Request
  <2>. QED  BY <1>1, <2>1 DEF Backed, Stored
<1>. QED  BY <1>2, <1>3 DEF CountInv, Busy

LEMMA CountBegin ==
  ASSUME CountInv, KeyInv', NEW r \in Requests, NEW op,
         NEW i \in Invoices, NEW stage, NEW entity \in Row, entity.paid = invoice[i].paid,
         NEW pays, NEW dto, Begin(r, op, i, stage, entity, pays, dto),
         stage # "sumPayments", op = "repay" => stage = "writePayment"
  PROVE  CountInv'
<1>1. /\ UNCHANGED <<invoice, payments, incidents>>
      /\ \A s \in Requests \ {r} : req'[s] = req[s]
      /\ req'[r].row = entity /\ req'[r].inv = i /\ req'[r].op = op /\ req'[r].pc = stage
      /\ req'[r].valid = TRUE
  BY DEF Begin, CountInv, KeyInv, TypeOK
<1>2. Uncorrected => Backed(req'[r])
  BY <1>1 DEF Backed, CountInv, PaymentsCountOnce
<1>. QED  BY <1>1, <1>2, CountQuiet DEF Uncorrected

LEMMA CountCall ==
  ASSUME CountInv, NEW r \in Requests, Call(r)
  PROVE  CountInv'
<1>1. KeyInv'
  BY KeyCall DEF CountInv
<1>2. \A i \in Invoices : invoice[i] \in Row
  BY DEF CountInv, KeyInv, TypeOK
<1>3. PICK i \in Invoices :
        \/ FindForSend(r, i)
        \/ FindForVoid(r, i)
        \/ \E s \in Settable : FindForUpdate(r, i, s)
        \/ \E s \in Settable, t \in Totals : FindForItemsUpdate(r, i, s, t)
        \/ \E k \in Payments, d \in Dtos : FindForPayment(r, i, k, d)
        \/ \E p \in PaymentsOf(i), d \in Bodies : FindPayment(r, p, d)
  BY DEF Call
<1>4. CASE FindForSend(r, i)
  BY <1>1, <1>2, <1>4, CountBegin DEF FindForSend, Row, Statuses
<1>5. CASE FindForVoid(r, i)
  BY <1>1, <1>2, <1>5, CountBegin DEF FindForVoid, Row, Statuses
<1>6. CASE \E s \in Settable : FindForUpdate(r, i, s)
  BY <1>1, <1>2, <1>6, CountBegin, SettableAreStatuses DEF FindForUpdate, Row
<1>7. CASE \E s \in Settable, t \in Totals : FindForItemsUpdate(r, i, s, t)
  <2>1. PICK s \in Settable, t \in Totals : FindForItemsUpdate(r, i, s, t)
    BY <1>7
  <2>. DEFINE entity == [invoice[i] EXCEPT !.status = s, !.total = t]
  <2>2. entity \in Row /\ entity.paid = invoice[i].paid
    BY <1>2, SettableAreStatuses, TotalsAreIntegers DEF Row
  <2>3. Begin(r, "update", i, "deleteItems", entity, LoadedPayments(i), NoDto)
    BY <2>1 DEF FindForItemsUpdate
  <2>. HIDE DEF entity
  <2>. QED  BY <1>1, <2>2, <2>3, CountBegin
<1>8. CASE \E k \in Payments, d \in Dtos : FindForPayment(r, i, k, d)
  BY <1>1, <1>2, <1>8, CountBegin DEF FindForPayment
<1>9. CASE \E p \in PaymentsOf(i), d \in Bodies : FindPayment(r, p, d)
  <2>1. \A p \in PaymentsOf(i) : p.inv = i
    BY DEF PaymentsOf
  <2>. QED  BY <1>1, <1>2, <1>9, <2>1, CountBegin DEF FindPayment
<1>. QED  BY <1>3, <1>4, <1>5, <1>6, <1>7, <1>8, <1>9

LEMMA CountInsert ==
  ASSUME CountInv, NEW r \in Requests, NEW k \in Payments, InsertPayment(r, k)
  PROVE  CountInv'
<1>1. KeyInv' /\ UNCHANGED <<invoice, incidents>>
  BY KeyInsert DEF CountInv, InsertPayment, StorePayment
<1>2. Pays(r, AddPaid(req[r].row.paid, req[r].dto.amount), AddIsValid(req[r].dto.amount))
  BY CountPays DEF CountInv, KeyInv, InsertPayment
<1>3. \A i \in Invoices : Counted(i) \in Nat /\ Counted(i)' \in Nat /\ Counted(i) <= Counted(i)'
  BY <1>1, CountedInsert, CountedType DEF CountInv
<1>4. PaymentsCountOnce'
  <2>1. \A i \in Invoices : invoice[i].paid \in Int
    BY DEF CountInv, KeyInv, TypeOK, Row
  <2>. QED  BY <1>1, <1>3, <2>1 DEF CountInv, PaymentsCountOnce, Uncorrected
<1>5. ASSUME Uncorrected PROVE Backed(req[r])'
  <2>1. /\ req[r] \in Request /\ At(r, "insertPayment") /\ Stored(req[r].inv)
        /\ Backed(req[r])
    BY <1>2, <1>5 DEF Pays, CountInv, InsertPayment, At, Busy, Idle
  <2>2. PICK i \in Invoices, paid \in Int, amount \in Int :
          i = req[r].inv /\ paid = req[r].row.paid /\ amount = req[r].dto.amount
    BY <2>1 DEF Request, Row, Dto
  <2>3. paid <= Counted(i) /\ req[r].op # "repay"
    BY <2>1, <2>2 DEF Backed, At
  <2>4. Counted(i)' = Counted(i) + (IF Counts(amount) THEN 1 ELSE 0) /\ Counted(i) \in Nat
    BY <1>3, <2>2, CountedInsert DEF CountInv
  <2>5. AddIsValid(amount) => AddPaid(paid, amount) = paid + (IF Counts(amount) THEN 1 ELSE 0)
    BY AddPaidCounts
  <2>6. /\ req'[r].inv = i /\ req'[r].op = req[r].op /\ req'[r].pc = "save"
        /\ req'[r].row.paid = AddPaid(paid, amount) /\ req'[r].valid = AddIsValid(amount)
    BY <1>2, <2>2 DEF Pays, Request, Row
  <2>7. AddIsValid(amount) => AddPaid(paid, amount) <= Counted(i)'
    BY <2>3, <2>4, <2>5
  <2>. QED  BY <2>3, <2>6, <2>7 DEF Backed
<1>6. ASSUME Uncorrected, NEW s \in Requests \ {r}, req'[s] # Idle PROVE Backed(req[s])'
  <2>1. req'[s] = req[s] /\ req[s] \in Request /\ Backed(req[s])
    BY <1>2, <1>6 DEF Pays, CountInv, KeyInv, TypeOK, Busy
  <2>2. req[s].inv \in Invoices /\ req[s].row.paid \in Int
    BY <2>1 DEF Request, Row
  <2>. QED  BY <1>1, <1>3, <2>1, <2>2 DEF Backed, Stored
<1>. QED  BY <1>1, <1>4, <1>5, <1>6 DEF CountInv, Uncorrected, Busy

LEMMA CountStep ==
  ASSUME CountInv, NEW r \in Requests, Step(r) \/ Abort(r)
  PROVE  CountInv'
<1>1. TypeOK /\ KeyInv'
  BY KeyNext DEF CountInv, KeyInv, Next
<1>2. Uncorrected /\ req[r] # Idle => Backed(req[r])
  BY DEF CountInv, Busy
<1>3. CASE \/ RejectItems(r) \/ RefuseInsert(r) \/ RefuseWrite(r)
           \/ RefuseSave(r) \/ Emit(r) \/ Abort(r)
  <2>1. /\ UNCHANGED <<invoice, payments>> /\ req' = [req EXCEPT ![r] = Idle]
        /\ incidents \subseteq incidents'
    BY <1>3 DEF RejectItems, RefuseInsert, RefuseWrite, RefuseSave, Emit, Abort, Answer
  <2>. QED  BY <1>1, <2>1, CountQuiet DEF TypeOK, Uncorrected
<1>4. CASE \/ DeleteItems(r) \/ LoadForSave(r) \/ FlushNothing(r)
           \/ \E b \in Batches : SaveItems(r, b)
  <2>1. /\ UNCHANGED <<invoice, payments, incidents>>
        /\ req[r] # Idle /\ req[r] \in Request
        /\ \A s \in Requests \ {r} : req'[s] = req[s]
    <3>1. \E stage \in Stages : At(r, stage)
      BY <1>4 DEF DeleteItems, LoadForSave, FlushNothing, SaveItems, Stages
    <3>2. req[r] # Idle /\ req[r] \in Request
      BY <1>1, <3>1, AtType DEF At, Idle, Stages
    <3>. QED
      BY <1>1, <1>4, <3>2
         DEF DeleteItems, LoadForSave, FlushNothing, SaveItems, Answer, TypeOK
  <2>2. req'[r] # Idle =>
          /\ req'[r].row = req[r].row /\ req'[r].valid = req[r].valid
          /\ req'[r].op = req[r].op /\ req'[r].inv = req[r].inv
          /\ req'[r].pc \notin {"insertPayment", "sumPayments"}
          /\ req[r].pc # "writePayment"
          /\ req'[r].pc = "flush" => req[r].valid
    <3>1. CASE DeleteItems(r)
      BY <1>1, <2>1, <3>1 DEF DeleteItems, At, TypeOK, Request
    <3>2. CASE LoadForSave(r)
      <4>1. req[r].valid
        BY <3>2 DEF LoadForSave, Refused
      <4>. QED  BY <1>1, <2>1, <3>2, <4>1 DEF LoadForSave, At, TypeOK, Request
    <3>3. CASE FlushNothing(r)
      BY <1>1, <2>1, <3>3 DEF FlushNothing, Answer, At, TypeOK, Request
    <3>4. CASE \E b \in Batches : SaveItems(r, b)
      BY <1>1, <2>1, <3>4 DEF SaveItems, At, TypeOK, Request
    <3>. QED  BY <1>4, <3>1, <3>2, <3>3, <3>4
  <2>3. Uncorrected /\ req'[r] # Idle => Backed(req'[r])
    BY <1>2, <2>1, <2>2 DEF Backed
  <2>. QED  BY <1>1, <2>1, <2>3, CountQuiet DEF Uncorrected
<1>5. CASE \E k \in Payments : InsertPayment(r, k)
  BY <1>5, CountInsert
<1>6. CASE \E p \in payments : WritePayment(r, p)
  BY <1>1, <1>6 DEF WritePayment, CountInv, PaymentsCountOnce, Uncorrected
<1>7. CASE SumPayments(r)
  <2>1. ~Uncorrected /\ UNCHANGED incidents
    BY <1>2, <1>7 DEF SumPayments, Backed, At, Idle
  <2>. QED  BY <1>1, <2>1 DEF CountInv, PaymentsCountOnce, Uncorrected
<1>8. CASE Flush(r)
  <2>1. req[r] \in Request /\ req[r].pc = "flush" /\ Stored(req[r].inv) /\ req[r] # Idle
    BY <1>1, <1>8, AtType DEF Flush, At, Stages, Idle
  <2>2. /\ UNCHANGED <<payments, incidents>>
        /\ \A s \in Requests \ {r} : req'[s] = req[s]
        /\ req'[r].row = req[r].row /\ req'[r].inv = req[r].inv
        /\ req'[r].op = req[r].op /\ req'[r].pc = "emit"
    BY <1>1, <1>8, <2>1 DEF Flush, TypeOK, Request
  <2>3. \A i \in Invoices : Counted(i)' = Counted(i)
    BY <2>2, CountedKept DEF PaymentsOf
  <2>4. Uncorrected => Pick(r, "paid") <= Counted(req[r].inv)
    BY <1>2, <2>1 DEF Backed, Pick, CountInv, PaymentsCountOnce, Request
  <2>5. PaymentsCountOnce'
    BY <1>1, <1>8, <2>1, <2>2, <2>3, <2>4
       DEF CountInv, PaymentsCountOnce, Uncorrected, Flush, TypeOK, Request
  <2>6. \A i \in Invoices : Stored(i)' => Stored(i)
    BY <1>1, <1>8, <2>1 DEF Flush, Stored, TypeOK
  <2>7. ASSUME Uncorrected, NEW s \in Requests, req'[s] # Idle PROVE Backed(req[s])'
    <3>1. CASE s = r
      <4>1. /\ req[r].op # "repay" /\ req[r].inv \in Invoices
            /\ req[r].row.paid <= Counted(req[r].inv)
        BY <1>2, <2>1, <2>7 DEF Backed, Request
      <4>. QED  BY <2>2, <2>3, <3>1, <4>1 DEF Backed
    <3>2. CASE s # r
      <4>1. req'[s] = req[s] /\ Backed(req[s]) /\ req[s].inv \in Invoices
        BY <1>1, <2>2, <2>7, <3>2 DEF CountInv, TypeOK, Busy, Request
      <4>. QED  BY <2>3, <2>6, <4>1 DEF Backed
    <3>. QED  BY <3>1, <3>2
  <2>. QED  BY <1>1, <2>2, <2>5, <2>7 DEF CountInv, Uncorrected, Busy
<1>. QED  BY <1>3, <1>4, <1>5, <1>6, <1>7, <1>8 DEF Step

LEMMA CountCreate ==
  ASSUME RecordsInv, CountInv, NEW r \in Requests, NEW i \in Invoices, NEW b \in Batches,
         NEW t \in Totals, Create(r, i, b, t)
  PROVE  CountInv'
<1>1. TypeOK /\ KeyInv'
  BY KeyNext DEF CountInv, KeyInv, Next
<1>2. /\ UNCHANGED <<payments, incidents>> /\ ~Stored(i) /\ ~Removed(i)
      /\ invoice'[i].paid = 0 /\ \A j \in Invoices \ {i} : invoice'[j] = invoice[j]
      /\ req'[r].op = "create" /\ req'[r].pc = "emit"
      /\ req'[r].inv = i /\ req'[r].row.paid = 0
      /\ \A s \in Requests \ {r} : req'[s] = req[s]
  BY <1>1 DEF Create, TypeOK
<1>3. \A j \in Invoices : Counted(j)' = Counted(j) /\ 0 <= Counted(j)
  BY <1>2, CountedKept, CountedType DEF PaymentsOf, CountInv
<1>4. PaymentsCountOnce'
  BY <1>2, <1>3 DEF CountInv, PaymentsCountOnce, Uncorrected
<1>5. ASSUME Uncorrected, NEW s \in Requests, req'[s] # Idle PROVE Backed(req[s])'
  <2>1. CASE s = r
    BY <1>2, <1>3, <2>1 DEF Backed
  <2>2. CASE s # r
    <3>1. /\ req'[s] = req[s] /\ Backed(req[s]) /\ OnRecord(req[s])
          /\ req[s].inv \in Invoices
      BY <1>1, <1>2, <1>5, <2>2 DEF CountInv, RecordsInv, TypeOK, Busy, Request
    <3>2. req[s].inv # i
      BY <1>2, <3>1 DEF OnRecord
    <3>. QED  BY <1>2, <1>3, <3>1, <3>2 DEF Backed, Stored
  <2>. QED  BY <2>1, <2>2
<1>. QED  BY <1>1, <1>2, <1>4, <1>5 DEF CountInv, Uncorrected, Busy

LEMMA CountRemove ==
  ASSUME CountInv, NEW r \in Requests, NEW o \in Orgs, RemoveOrg(r, o)
  PROVE  CountInv'
<1>1. TypeOK /\ KeyInv'
  BY KeyNext DEF CountInv, KeyInv, Next
<1>2. UNCHANGED <<incidents, req>>
  BY DEF RemoveOrg
<1>3. \A i \in Invoices :
        \/ invoice'[i] = NoRow
        \/ invoice'[i] = invoice[i] /\ Counted(i)' = Counted(i)
  <2>. SUFFICES ASSUME NEW i \in Invoices, OrgOf[i] # o
                PROVE  invoice'[i] = invoice[i] /\ Counted(i)' = Counted(i)
    BY DEF RemoveOrg
  <2>1. PaymentsOf(i)' = PaymentsOf(i)
    BY DEF RemoveOrg, PaymentsOf
  <2>. QED  BY <2>1, CountedKept DEF RemoveOrg
<1>4. \A i \in Invoices : 0 <= Counted(i)'
  <2>1. \A i \in Invoices : IsFiniteSet(Counting(i)')
    BY <1>1, FS_Subset DEF KeyInv, Counting, PaymentsOf
  <2>. QED  BY <2>1, FS_CardinalityType, CountedIsCounting
<1>5. PaymentsCountOnce'
  BY <1>2, <1>3, <1>4 DEF CountInv, PaymentsCountOnce, Uncorrected, NoRow
<1>6. ASSUME Uncorrected, NEW s \in Requests, req'[s] # Idle PROVE Backed(req[s])'
  <2>1. req'[s] = req[s] /\ Backed(req[s]) /\ req[s].inv \in Invoices
    BY <1>1, <1>2, <1>6 DEF CountInv, TypeOK, Busy, Request
  <2>. QED  BY <1>3, <2>1 DEF Backed, Stored, NoRow
<1>. QED  BY <1>1, <1>2, <1>5, <1>6 DEF CountInv, Uncorrected, Busy

LEMMA CountKept == Spec => []CountInv
<1>1. Init => CountInv
  <2>. SUFFICES ASSUME Init PROVE CountInv
    OBVIOUS
  <2>1. KeyInv
    BY KeyInit
  <2>2. \A i \in Invoices : 0 <= Counted(i)
    BY <2>1, CountedType
  <2>. QED  BY <2>1, <2>2 DEF Init, CountInv, PaymentsCountOnce, Busy, NoRow
<1>2. RecordsInv /\ CountInv /\ [Next]_vars => CountInv'
  <2>. SUFFICES ASSUME RecordsInv, CountInv, [Next]_vars PROVE CountInv'
    OBVIOUS
  <2>1. CASE UNCHANGED vars
    <3>1. KeyInv'
      BY <2>1, KeyNext DEF CountInv
    <3>2. \A i \in Invoices : Counted(i)' = Counted(i)
      BY <2>1, CountedKept DEF vars, PaymentsOf
    <3>3. PaymentsCountOnce'
      BY <2>1, <3>2 DEF vars, CountInv, PaymentsCountOnce, Uncorrected
    <3>4. ASSUME Uncorrected, NEW s \in Requests, req'[s] # Idle PROVE Backed(req[s])'
      <4>1. req'[s] = req[s] /\ Backed(req[s]) /\ req[s].inv \in Invoices
        BY <2>1, <3>4 DEF vars, CountInv, KeyInv, TypeOK, Busy, Request
      <4>. QED  BY <2>1, <3>2, <4>1 DEF vars, Backed, Stored
    <3>. QED  BY <2>1, <3>1, <3>3, <3>4 DEF vars, CountInv, Uncorrected, Busy
  <2>. QED  BY <2>1, CountCreate, CountCall, CountStep, CountRemove DEF Next
<1>. QED  BY <1>1, <1>2, RecordsKept, PTL DEF Spec

\* Whatever overlaps and fails, for every choice of the amounts: until a payment
\* is corrected, amountPaid counts no payment twice, and none that is not stored.
THEOREM CountedOnce == Spec => []PaymentsCountOnce
<1>1. CountInv => PaymentsCountOnce
  BY DEF CountInv
<1>. QED  BY <1>1, CountKept, PTL

\* A payment that counts is of some money.
LEMMA CountsMoney ==
  ASSUME NEW amount \in Nat, Counts(amount)
  PROVE  1 <= amount
<1>1. amount = 0 => ~RoundsUp(amount \div 100)
  BY DEF RoundsUp
<1>. QED  BY <1>1 DEF Counts

\* Strengthening of PaidNeverOvercounts, for amounts that are not negative.
MoneyInv ==
  /\ KeyInv
  /\ Uncorrected => \A i \in Invoices : Counted(i) <= collected[i]
  /\ \A r \in Busy : req[r].dto.amount \in Nat

LEMMA MoneyNext ==
  ASSUME Amounts \subseteq Nat, MoneyInv, [Next]_vars
  PROVE  MoneyInv'
<1>1. KeyInv' /\ TypeOK /\ TypeOK'
  BY KeyNext DEF MoneyInv, KeyInv
<1>2. ASSUME UNCHANGED <<payments, collected>>, incidents \subseteq incidents'
      PROVE  Uncorrected' => \A i \in Invoices : Counted(i)' <= collected'[i]
  <2>1. \A i \in Invoices : Counted(i)' = Counted(i)
    BY <1>2, CountedKept DEF PaymentsOf
  <2>. QED  BY <1>2, <2>1 DEF MoneyInv, Uncorrected
<1>3. ASSUME NEW r \in Requests, Call(r) PROVE MoneyInv'
  <2>1. PICK op, i, stage, entity, pays :
          \E dto \in Dtos \cup Bodies \cup {NoDto} : Begin(r, op, i, stage, entity, pays, dto)
    BY <1>3, CallBegins
  <2>0. PICK dto \in Dtos \cup Bodies \cup {NoDto} : Begin(r, op, i, stage, entity, pays, dto)
    BY <2>1
  <2>2. dto.amount \in Amounts \/ dto.amount = 0
    BY DEF Dtos, Bodies, NoDto
  <2>3. dto.amount \in Nat
    <3>1. CASE dto.amount \in Amounts
      BY <3>1
    <3>2. CASE dto.amount = 0
      BY <3>2
    <3>. QED  BY <2>2, <3>1, <3>2
  <2>4. /\ UNCHANGED <<payments, collected, incidents>> /\ req'[r].dto = dto
        /\ \A s \in Requests \ {r} : req'[s] = req[s]
    BY <1>1, <2>0 DEF Begin, TypeOK
  <2>. QED  BY <1>1, <1>2, <2>3, <2>4 DEF MoneyInv, Busy
<1>4. ASSUME NEW r \in Requests, Step(r) PROVE MoneyInv'
  <2>1. \A s \in Requests : req'[s] # Idle => req[s] # Idle /\ req'[s].dto = req[s].dto
    BY <1>1, <1>4, StepKeeps DEF Request, Stages, Idle
  <2>2. incidents \subseteq incidents'
    BY <1>4 DEF Step, DeleteItems, RejectItems, SaveItems, InsertPayment, StorePayment,
                WritePayment, RefuseInsert, RefuseWrite, SumPayments, RefuseSave, LoadForSave,
                FlushNothing, Flush, Emit
  <2>3. ASSUME NEW k \in Payments, InsertPayment(r, k), Uncorrected, NEW i \in Invoices
        PROVE  Counted(i)' <= collected'[i]
    <3>1. req[r] \in Request /\ r \in Busy
      BY <1>1, <2>3, AtType DEF InsertPayment, At, Stages, Busy, Idle
    <3>2. PICK amount \in Nat : amount = req[r].dto.amount
      BY <3>1 DEF MoneyInv
    <3>3. collected' = [collected EXCEPT ![req[r].inv] = @ + amount]
      BY <2>3, <3>2 DEF InsertPayment, StorePayment
    <3>4. Counted(i)' = Counted(i) + (IF i = req[r].inv /\ Counts(amount) THEN 1 ELSE 0)
      BY <2>3, <3>2, CountedInsert DEF MoneyInv
    <3>5. Counts(amount) => 1 <= amount
      BY CountsMoney
    <3>6. Counted(i) \in Nat /\ Counted(i) <= collected[i] /\ collected[i] \in Int
      BY <1>1, <2>3, CountedType DEF MoneyInv, TypeOK
    <3>7. collected'[i] = collected[i] + (IF i = req[r].inv THEN amount ELSE 0)
      BY <1>1, <3>1, <3>3, <3>6 DEF TypeOK
    <3>. QED  BY <3>4, <3>5, <3>6, <3>7
  <2>4. ASSUME Uncorrected', NEW i \in Invoices PROVE Counted(i)' <= collected'[i]
    <3>1. Uncorrected
      BY <2>2, <2>4 DEF Uncorrected
    <3>2. ~ \E p \in payments : WritePayment(r, p)
      BY <2>4 DEF WritePayment, Uncorrected
    <3>. QED  BY <1>1, <1>2, <1>4, <2>2, <2>3, <2>4, <3>1, <3>2, StepKeeps
  <2>. QED  BY <1>1, <2>1, <2>4 DEF MoneyInv, Busy
<1>5. ASSUME NEW r \in Requests, NEW o \in Orgs, RemoveOrg(r, o) PROVE MoneyInv'
  <2>1. UNCHANGED <<incidents, req>>
    BY <1>5 DEF RemoveOrg
  <2>2. ASSUME Uncorrected, NEW i \in Invoices PROVE Counted(i)' <= collected'[i]
    <3>1. CASE OrgOf[i] # o
      <4>1. PaymentsOf(i)' = PaymentsOf(i) /\ collected'[i] = collected[i]
        BY <1>5, <3>1 DEF RemoveOrg, PaymentsOf
      <4>. QED  BY <2>2, <4>1, CountedKept DEF MoneyInv
    <3>2. CASE OrgOf[i] = o
      <4>1. Counting(i)' = {} /\ collected'[i] = 0
        BY <1>5, <3>2 DEF RemoveOrg, Counting, PaymentsOf
      <4>2. Cardinality({}) = 0
        BY FS_EmptySet
      <4>. QED  BY <4>1, <4>2, CountedIsCounting
    <3>. QED  BY <3>1, <3>2
  <2>. QED  BY <1>1, <2>1, <2>2 DEF MoneyInv, Uncorrected, Busy
<1>6. ASSUME NEW r \in Requests, NEW i \in Invoices, NEW b \in Batches, NEW t \in Totals,
             Create(r, i, b, t)
      PROVE  MoneyInv'
  <2>1. /\ UNCHANGED <<payments, collected, incidents>>
        /\ req'[r].dto = NoDto /\ \A s \in Requests \ {r} : req'[s] = req[s]
    BY <1>1, <1>6 DEF Create, TypeOK
  <2>. QED  BY <1>1, <1>2, <2>1 DEF MoneyInv, Busy, NoDto
<1>7. ASSUME NEW r \in Requests, Abort(r) PROVE MoneyInv'
  <2>1. /\ UNCHANGED <<payments, collected>> /\ incidents \subseteq incidents'
        /\ req'[r] = Idle /\ \A s \in Requests \ {r} : req'[s] = req[s]
    BY <1>1, <1>7 DEF Abort, Answer, TypeOK
  <2>. QED  BY <1>1, <1>2, <2>1 DEF MoneyInv, Busy
<1>8. CASE UNCHANGED vars
  BY <1>1, <1>2, <1>8 DEF vars, MoneyInv, Busy
<1>. QED  BY <1>3, <1>4, <1>5, <1>6, <1>7, <1>8 DEF Next

\* Under concurrency and failures alike, until the first correction, amountPaid
\* never claims more than the payment rows record, if no amount is negative.
THEOREM NeverOvercounts ==
  ASSUME Amounts \subseteq Nat
  PROVE  Spec => []PaidNeverOvercounts
<1>1. Init => MoneyInv
  <2>. SUFFICES ASSUME Init PROVE MoneyInv
    OBVIOUS
  <2>1. KeyInv
    BY KeyInit
  <2>2. \A i \in Invoices : Counting(i) = {}
    BY DEF Init, Counting, PaymentsOf
  <2>3. Cardinality({}) = 0
    BY FS_EmptySet
  <2>. QED  BY <2>1, <2>2, <2>3, CountedIsCounting DEF Init, MoneyInv, Busy
<1>2. MoneyInv /\ [Next]_vars => MoneyInv'
  BY MoneyNext
<1>3. MoneyInv /\ PaymentsCountOnce => PaidNeverOvercounts
  <2>. SUFFICES ASSUME MoneyInv, PaymentsCountOnce, Uncorrected, NEW i \in Invoices
                PROVE  invoice[i].paid <= collected[i]
    BY DEF PaidNeverOvercounts
  <2>1. invoice[i].paid \in Int /\ collected[i] \in Int /\ Counted(i) \in Nat
    BY CountedType DEF MoneyInv, KeyInv, TypeOK, Row
  <2>. QED  BY <2>1 DEF MoneyInv, PaymentsCountOnce
<1>. QED  BY <1>1, <1>2, <1>3, CountedOnce, PTL DEF Spec

-----------------------------------------------------------------------------
\* Strengthening of ClaimsWithinWorth: what every entity in memory may still write
\* is within the worth of its invoice, and a payment on its way is within what the
\* entity has left to pay.  It holds through corrections because the sum that
\* survives the column is of one row at most.
Fits(q) ==
  /\ q.valid => 0 <= q.row.paid /\ q.row.paid <= worth[q.inv]
  /\ q.pc = "flush" => q.valid
  /\ q.pc = "insertPayment" =>
       /\ q.valid /\ q.row.total <= worth[q.inv]
       /\ q.dto.amount <= q.row.total - q.row.paid

WorthInv ==
  /\ CashInv
  /\ \A i \in Invoices :
       /\ 0 <= invoice[i].paid /\ invoice[i].paid <= worth[i]
       /\ invoice[i].total <= worth[i]
  /\ \A p \in payments : p.amount <= worth[p.inv]
  /\ \A r \in Busy : Fits(req[r])

LEMMA WorthRises ==
  ASSUME TypeOK, NEW i \in Invoices, NEW a \in Int,
         worth' = [worth EXCEPT ![i] = Higher(worth[i], a)]
  PROVE  /\ \A h \in Invoices : worth[h] \in Int /\ worth'[h] \in Int /\ worth[h] <= worth'[h]
         /\ a <= worth'[i]
<1>1. worth \in [Invoices -> Int] /\ worth[i] \in Int
  BY DEF TypeOK
<1>2. worth'[i] = Higher(worth[i], a) /\ \A h \in Invoices \ {i} : worth'[h] = worth[h]
  BY <1>1
<1>3. Higher(worth[i], a) \in Int /\ worth[i] <= Higher(worth[i], a) /\ a <= Higher(worth[i], a)
  BY <1>1 DEF Higher
<1>. QED  BY <1>1, <1>2, <1>3

\* Worth only grows, so what fitted fits.
LEMMA StillFits ==
  ASSUME TypeOK, TypeOK', NEW q \in Request, Fits(q),
         \A i \in Invoices : worth[i] <= worth'[i]
  PROVE  Fits(q)'
<1>1. PICK i \in Invoices : i = q.inv
  BY DEF Request
<1>2. /\ worth[i] \in Int /\ worth'[i] \in Int /\ worth[i] <= worth'[i]
      /\ q.row.paid \in Int /\ q.row.total \in Int
  BY DEF TypeOK, Request, Row
<1>. QED  BY <1>1, <1>2 DEF Fits

LEMMA WorthSlot ==
  ASSUME WorthInv, TypeOK', CashInv', NEW r \in Requests,
         \A i \in Invoices : worth[i] <= worth'[i],
         \A i \in Invoices :
           \/ invoice'[i] = invoice[i] \/ invoice'[i] = NoRow
           \/ /\ 0 <= invoice'[i].paid /\ invoice'[i].paid <= worth'[i]
              /\ invoice'[i].total <= worth'[i],
         \A p \in payments' : p \in payments \/ p.amount <= worth'[p.inv],
         \A s \in Requests \ {r} : req'[s] = req[s],
         req'[r] # Idle => Fits(req[r])'
  PROVE  WorthInv'
<1>1. TypeOK
  BY DEF WorthInv, CashInv, KeyInv
<1>2. ASSUME NEW i \in Invoices
      PROVE  /\ 0 <= invoice'[i].paid /\ invoice'[i].paid <= worth'[i]
             /\ invoice'[i].total <= worth'[i]
  <2>1. /\ worth[i] \in Int /\ worth'[i] \in Int /\ worth[i] <= worth'[i]
        /\ invoice[i].paid \in Int /\ invoice[i].total \in Int
    BY <1>1 DEF TypeOK, Row
  <2>2. /\ 0 <= invoice[i].paid /\ invoice[i].paid <= worth[i]
        /\ invoice[i].total <= worth[i]
    BY DEF WorthInv
  <2>. QED  BY <2>1, <2>2 DEF NoRow
<1>3. ASSUME NEW p \in payments' PROVE p.amount <= worth'[p.inv]
  <2>. SUFFICES ASSUME p \in payments PROVE p.amount <= worth'[p.inv]
    OBVIOUS
  <2>1. p.inv \in Invoices /\ p.amount \in Int /\ p.amount <= worth[p.inv]
    BY <1>1 DEF WorthInv, TypeOK, PayRow
  <2>2. worth[p.inv] \in Int /\ worth'[p.inv] \in Int /\ worth[p.inv] <= worth'[p.inv]
    BY <1>1, <2>1 DEF TypeOK
  <2>. QED  BY <2>1, <2>2
<1>4. ASSUME NEW s \in Requests, req'[s] # Idle PROVE Fits(req[s])'
  <2>1. CASE s = r
    BY <1>4, <2>1
  <2>2. CASE s # r
    <3>1. req'[s] = req[s] /\ req[s] \in Request /\ Fits(req[s])
      BY <1>1, <1>4, <2>2 DEF WorthInv, TypeOK, Busy
    <3>2. PICK q \in Request : q = req[s] /\ q = req'[s]
      BY <3>1
    <3>3. Fits(q)'
      BY <1>1, <3>1, <3>2, StillFits
    <3>. QED  BY <3>2, <3>3 DEF Fits
  <2>. QED  BY <2>1, <2>2
<1>. QED  BY <1>2, <1>3, <1>4 DEF WorthInv, Busy

LEMMA WorthBegin ==
  ASSUME WorthInv, TypeOK', CashInv', NEW r \in Requests, NEW op,
         NEW i \in Invoices, NEW stage, NEW entity \in Row, entity.paid = invoice[i].paid,
         NEW pays, NEW dto, Begin(r, op, i, stage, entity, pays, dto), stage # "flush",
         stage = "insertPayment" =>
           entity = invoice[i] /\ dto.amount <= entity.total - entity.paid
  PROVE  WorthInv'
<1>1. TypeOK
  BY DEF WorthInv, CashInv, KeyInv
<1>2. /\ UNCHANGED <<invoice, payments, worth>>
      /\ \A s \in Requests \ {r} : req'[s] = req[s]
      /\ req'[r].row = entity /\ req'[r].inv = i /\ req'[r].dto = dto
      /\ req'[r].pc = stage /\ req'[r].valid = TRUE
  BY <1>1 DEF Begin, TypeOK
<1>3. /\ 0 <= entity.paid /\ entity.paid <= worth[i]
      /\ invoice[i].total <= worth[i]
  BY DEF WorthInv
<1>4. Fits(req[r])'
  BY <1>2, <1>3 DEF Fits
<1>5. \A j \in Invoices : worth[j] <= worth'[j]
  BY <1>1, <1>2 DEF TypeOK
<1>. QED  BY <1>2, <1>4, <1>5, WorthSlot

LEMMA WorthCall ==
  ASSUME WorthInv, NEW r \in Requests, Call(r)
  PROVE  WorthInv'
<1>1. TypeOK' /\ CashInv'
  BY CashNext, CallType DEF WorthInv, CashInv, KeyInv, Next
<1>2. \A i \in Invoices : invoice[i] \in Row
  BY DEF WorthInv, CashInv, KeyInv, TypeOK
<1>3. PICK i \in Invoices :
        \/ FindForSend(r, i)
        \/ FindForVoid(r, i)
        \/ \E s \in Settable : FindForUpdate(r, i, s)
        \/ \E s \in Settable, t \in Totals : FindForItemsUpdate(r, i, s, t)
        \/ \E k \in Payments, d \in Dtos : FindForPayment(r, i, k, d)
        \/ \E p \in PaymentsOf(i), d \in Bodies : FindPayment(r, p, d)
  BY DEF Call
<1>4. CASE FindForSend(r, i)
  BY <1>1, <1>2, <1>4, WorthBegin DEF FindForSend, Row, Statuses
<1>5. CASE FindForVoid(r, i)
  BY <1>1, <1>2, <1>5, WorthBegin DEF FindForVoid, Row, Statuses
<1>6. CASE \E s \in Settable : FindForUpdate(r, i, s)
  BY <1>1, <1>2, <1>6, WorthBegin, SettableAreStatuses DEF FindForUpdate, Row
<1>7. CASE \E s \in Settable, t \in Totals : FindForItemsUpdate(r, i, s, t)
  <2>1. PICK s \in Settable, t \in Totals : FindForItemsUpdate(r, i, s, t)
    BY <1>7
  <2>. DEFINE entity == [invoice[i] EXCEPT !.status = s, !.total = t]
  <2>2. entity \in Row /\ entity.paid = invoice[i].paid
    BY <1>2, SettableAreStatuses, TotalsAreIntegers DEF Row
  <2>3. Begin(r, "update", i, "deleteItems", entity, LoadedPayments(i), NoDto)
    BY <2>1 DEF FindForItemsUpdate
  <2>. HIDE DEF entity
  <2>. QED  BY <1>1, <2>2, <2>3, WorthBegin
<1>8. CASE \E k \in Payments, d \in Dtos : FindForPayment(r, i, k, d)
  BY <1>1, <1>2, <1>8, WorthBegin DEF FindForPayment
<1>9. CASE \E p \in PaymentsOf(i), d \in Bodies : FindPayment(r, p, d)
  <2>1. \A p \in PaymentsOf(i) : p.inv = i
    BY DEF PaymentsOf
  <2>. QED  BY <1>1, <1>2, <1>9, <2>1, WorthBegin DEF FindPayment
<1>. QED  BY <1>3, <1>4, <1>5, <1>6, <1>7, <1>8, <1>9

\* The sum that the column takes is of one row, or of none.
LEMMA SumFits ==
  ASSUME CashInv, NEW i \in Invoices, SumIsValid(PaymentsOf(i)),
         0 <= worth[i], \A p \in payments : p.amount <= worth[p.inv]
  PROVE  0 <= collected[i] /\ collected[i] <= worth[i]
<1>1. collected[i] = Money(PaymentsOf(i))
  BY CollectedIsMoney DEF CashInv
<1>2. CASE PaymentsOf(i) = {}
  <2>1. Money({}) = 0
    BY MoneyAddsUp, FS_EmptySet
  <2>. QED  BY <1>1, <1>2, <2>1
<1>3. CASE PaymentsOf(i) # {}
  <2>1. PICK p \in PaymentsOf(i) : PaymentsOf(i) = {p} /\ p.amount >= 0
    BY <1>3 DEF SumIsValid
  <2>2. p.inv = i /\ p.amount \in Int /\ p.amount <= worth[i]
    BY DEF PaymentsOf, CashInv, KeyInv, TypeOK, PayRow
  <2>3. Money({p}) = p.amount + Money({p} \ {p}) /\ Money({}) = 0
    BY <2>2, MoneyAddsUp, FS_Singleton, FS_EmptySet
  <2>4. {p} \ {p} = {}
    OBVIOUS
  <2>5. Money({p} \ {p}) = 0
    BY <2>3, <2>4
  <2>6. Money(PaymentsOf(i)) = Money({p})
    BY <2>1
  <2>. QED  BY <1>1, <2>1, <2>2, <2>3, <2>5, <2>6
<1>. QED  BY <1>2, <1>3

LEMMA WorthInsert ==
  ASSUME WorthInv, TypeOK', CashInv', NEW r \in Requests, NEW k \in Payments,
         InsertPayment(r, k)
  PROVE  WorthInv'
<1>1. TypeOK /\ KeyInv
  BY DEF WorthInv, CashInv, KeyInv
<1>2. Pays(r, AddPaid(req[r].row.paid, req[r].dto.amount), AddIsValid(req[r].dto.amount))
  BY <1>1, CountPays DEF InsertPayment
<1>3. UNCHANGED <<invoice, worth>> /\ payments' = payments \cup {Inserted(r, k)}
  BY <1>1, KeyInsert DEF InsertPayment, StorePayment
<1>4. r \in Busy /\ At(r, "insertPayment") /\ req[r] \in Request /\ Fits(req[r])
  BY <1>2 DEF InsertPayment, At, Busy, Idle, WorthInv, Pays
<1>5. PICK i \in Invoices, paid \in Int, amount \in Int, total \in Int, most \in Int :
        /\ i = req[r].inv /\ paid = req[r].row.paid /\ amount = req[r].dto.amount
        /\ total = req[r].row.total /\ most = worth[i]
  BY <1>1, <1>4 DEF Request, Row, Dto, TypeOK
<1>6. 0 <= paid /\ paid <= most /\ amount <= total - paid /\ total <= most
  BY <1>4, <1>5 DEF Fits, At
<1>7. AddIsValid(amount) => 0 <= AddPaid(paid, amount) /\ AddPaid(paid, amount) <= most
  <2>. SUFFICES ASSUME AddIsValid(amount)
                PROVE  0 <= AddPaid(paid, amount) /\ AddPaid(paid, amount) <= most
    OBVIOUS
  <2>1. AddPaid(paid, amount) = paid + (IF Counts(amount) THEN 1 ELSE 0)
    BY AddPaidCounts
  <2>2. Counts(amount) => 1 <= amount
    BY CountsMoney DEF AddIsValid
  <2>. QED  BY <1>6, <2>1, <2>2
<1>8. /\ req'[r].pc = "save" /\ req'[r].inv = i
      /\ req'[r].row.paid = AddPaid(paid, amount) /\ req'[r].valid = AddIsValid(amount)
  BY <1>2, <1>5 DEF Pays, Request, Row
<1>9. worth'[i] = most
  BY <1>3, <1>5
<1>10. Fits(req[r])'
  BY <1>7, <1>8, <1>9 DEF Fits
<1>11. Inserted(r, k).inv = i /\ Inserted(r, k).amount = amount
  BY <1>5 DEF Inserted
<1>12. \A p \in payments' : p \in payments \/ p.amount <= worth'[p.inv]
  <2>. HIDE DEF Inserted
  <2>. QED  BY <1>3, <1>6, <1>9, <1>11
<1>13. \A j \in Invoices : worth[j] <= worth'[j]
  BY <1>1, <1>3 DEF TypeOK
<1>. QED  BY <1>2, <1>3, <1>10, <1>12, <1>13, WorthSlot DEF Pays

LEMMA WorthSum ==
  ASSUME WorthInv, TypeOK', CashInv', NEW r \in Requests, SumPayments(r)
  PROVE  WorthInv'
<1>1. TypeOK /\ CashInv
  BY DEF WorthInv, CashInv, KeyInv
<1>2. PICK j \in Invoices : j = SumOf(req[r])
  BY <1>1, AtType, SumOfType DEF SumPayments, Stages
<1>3. Pays(r, collected[j], SumIsValid(PaymentsOf(j)))
  BY <1>1, <1>2, SumPays
<1>4. PICK i \in Invoices : i = req[r].inv
  BY <1>3 DEF Pays, Request
<1>5. /\ UNCHANGED <<invoice, payments>>
      /\ worth' = [worth EXCEPT ![i] = Higher(worth[i], worth[j])]
  BY <1>2, <1>4 DEF SumPayments
<1>6. \A h \in Invoices : worth[h] \in Int /\ worth'[h] \in Int /\ worth[h] <= worth'[h]
  <2>1. worth[j] \in Int
    BY <1>1 DEF TypeOK
  <2>. QED  BY <1>1, <1>5, <2>1, WorthRises
<1>7. worth[j] <= worth'[i]
  <2>1. worth[j] \in Int
    BY <1>1 DEF TypeOK
  <2>. QED  BY <1>1, <1>5, <2>1, WorthRises
<1>8. SumIsValid(PaymentsOf(j)) => 0 <= collected[j] /\ collected[j] <= worth'[i]
  <2>1. 0 <= worth[j] /\ collected[j] \in Int
    <3>1. /\ 0 <= invoice[j].paid /\ invoice[j].paid <= worth[j]
          /\ invoice[j].paid \in Int /\ worth[j] \in Int
      BY <1>1 DEF WorthInv, TypeOK, Row
    <3>. QED  BY <1>1, <3>1 DEF TypeOK
  <2>2. SumIsValid(PaymentsOf(j)) => 0 <= collected[j] /\ collected[j] <= worth[j]
    BY <1>1, <2>1, SumFits DEF WorthInv
  <2>. QED  BY <1>6, <1>7, <2>1, <2>2
<1>9. /\ req'[r].pc = "save" /\ req'[r].inv = i
      /\ req'[r].row.paid = collected[j] /\ req'[r].valid = SumIsValid(PaymentsOf(j))
  BY <1>3, <1>4 DEF Pays, Request, Row
<1>10. Fits(req[r])'
  BY <1>8, <1>9 DEF Fits
<1>. QED  BY <1>3, <1>5, <1>6, <1>10, WorthSlot DEF Pays

LEMMA WorthWrite ==
  ASSUME WorthInv, TypeOK', CashInv', NEW r \in Requests, NEW p \in payments,
         WritePayment(r, p)
  PROVE  WorthInv'
<1>1. TypeOK /\ KeyInv
  BY DEF WorthInv, CashInv, KeyInv
<1>2. /\ req[r] \in Request /\ p \in PayRow /\ Fits(req[r])
  BY <1>1, AtType DEF WritePayment, At, Stages, Idle, Busy, TypeOK, WorthInv
<1>3. /\ payments' = (payments \ {p}) \cup {Corrected(r, p)}
      /\ Corrected(r, p).inv = p.inv /\ Corrected(r, p).amount = req[r].dto.amount
  BY <1>1, KeyWrite
<1>4. PICK i \in Invoices, amount \in Int : i = p.inv /\ amount = req[r].dto.amount
  BY <1>2 DEF PayRow, Request, Dto
<1>5. worth' = [worth EXCEPT ![i] = Higher(worth[i], amount)] /\ UNCHANGED invoice
  BY <1>4 DEF WritePayment
<1>6. \A h \in Invoices : worth[h] \in Int /\ worth'[h] \in Int /\ worth[h] <= worth'[h]
  BY <1>1, <1>5, WorthRises
<1>7. amount <= worth'[i]
  BY <1>1, <1>5, WorthRises
<1>8. \A a \in payments' : a \in payments \/ a.amount <= worth'[a.inv]
  <2>. HIDE DEF Corrected
  <2>. QED  BY <1>3, <1>4, <1>7
<1>9. /\ req' = [req EXCEPT ![r].pc = "sumPayments"]
      /\ \A s \in Requests \ {r} : req'[s] = req[s]
  BY <1>1 DEF WritePayment, TypeOK
<1>10. PICK q \in Request : q = req[r]
  BY <1>2
<1>11. /\ req'[r].pc = "sumPayments" /\ req'[r].inv = q.inv
       /\ req'[r].row = q.row /\ req'[r].valid = q.valid
  BY <1>1, <1>9, <1>10 DEF TypeOK, Request
<1>12. Fits(q)'
  BY <1>1, <1>2, <1>6, <1>10, StillFits
<1>13. Fits(req[r])'
  BY <1>11, <1>12 DEF Fits
<1>. QED  BY <1>5, <1>6, <1>8, <1>9, <1>13, WorthSlot

LEMMA WorthFlush ==
  ASSUME WorthInv, TypeOK', CashInv', NEW r \in Requests, Flush(r)
  PROVE  WorthInv'
<1>1. TypeOK
  BY DEF WorthInv, CashInv, KeyInv
<1>2. req[r] \in Request /\ Fits(req[r]) /\ req[r].valid
  BY <1>1, AtType DEF Flush, At, Stages, Idle, Busy, WorthInv, Fits
<1>3. PICK i \in Invoices : i = req[r].inv
  BY <1>2 DEF Request
<1>4. PICK total \in Int, paid \in Int : total = Pick(r, "total") /\ paid = Pick(r, "paid")
  BY <1>1, <1>2 DEF Pick, TypeOK, Request, Row
<1>5. /\ invoice' = [invoice EXCEPT ![i] = [status |-> Pick(r, "status"), total |-> total, paid |-> paid]]
      /\ worth' = [worth EXCEPT ![i] = Higher(worth[i], total)]
      /\ UNCHANGED payments
  BY <1>3, <1>4 DEF Flush
<1>6. \A h \in Invoices : worth[h] \in Int /\ worth'[h] \in Int /\ worth[h] <= worth'[h]
  BY <1>1, <1>5, WorthRises
<1>7. total <= worth'[i]
  BY <1>1, <1>5, WorthRises
<1>8. 0 <= paid /\ paid <= worth[i]
  BY <1>2, <1>3, <1>4 DEF Pick, Fits, WorthInv
<1>9. 0 <= paid /\ paid <= worth'[i]
  BY <1>6, <1>8
<1>10. \A h \in Invoices :
         \/ invoice'[h] = invoice[h]
         \/ /\ 0 <= invoice'[h].paid /\ invoice'[h].paid <= worth'[h]
            /\ invoice'[h].total <= worth'[h]
  BY <1>1, <1>5, <1>7, <1>9 DEF TypeOK
<1>11. PICK q \in Request : q = req[r]
  BY <1>2
<1>12. /\ \A s \in Requests \ {r} : req'[s] = req[s]
       /\ req'[r].pc = "emit" /\ req'[r].inv = q.inv
       /\ req'[r].row = q.row /\ req'[r].valid = q.valid
  BY <1>1, <1>11 DEF Flush, TypeOK, Request
<1>13. Fits(q)'
  BY <1>1, <1>2, <1>6, <1>11, StillFits
<1>14. Fits(req[r])'
  BY <1>12, <1>13 DEF Fits
<1>. QED  BY <1>5, <1>6, <1>10, <1>12, <1>14, WorthSlot

LEMMA WorthStep ==
  ASSUME WorthInv, NEW r \in Requests, Step(r) \/ Abort(r)
  PROVE  WorthInv'
<1>1. TypeOK /\ TypeOK' /\ CashInv'
  BY CashNext, NextType DEF WorthInv, CashInv, KeyInv, Next
<1>2. UNCHANGED worth => \A i \in Invoices : worth[i] <= worth'[i]
  BY <1>1 DEF TypeOK
<1>3. CASE \/ RejectItems(r) \/ RefuseInsert(r) \/ RefuseWrite(r)
           \/ RefuseSave(r) \/ Emit(r) \/ Abort(r)
  <2>1. UNCHANGED <<invoice, payments, worth>> /\ req' = [req EXCEPT ![r] = Idle]
    BY <1>3 DEF RejectItems, RefuseInsert, RefuseWrite, RefuseSave, Emit, Abort, Answer
  <2>. QED  BY <1>1, <1>2, <2>1, WorthSlot DEF TypeOK
<1>4. CASE \/ DeleteItems(r) \/ LoadForSave(r) \/ FlushNothing(r)
           \/ \E b \in Batches : SaveItems(r, b)
  <2>1. UNCHANGED <<invoice, payments, worth>> /\ req[r] # Idle /\ req[r] \in Request
    <3>1. \E stage \in Stages : At(r, stage)
      BY <1>4 DEF DeleteItems, LoadForSave, FlushNothing, SaveItems, Stages
    <3>2. req[r] # Idle /\ req[r] \in Request
      BY <1>1, <3>1, AtType DEF At, Idle, Stages
    <3>. QED  BY <1>4, <3>2 DEF DeleteItems, LoadForSave, FlushNothing, SaveItems
  <2>2. \A s \in Requests \ {r} : req'[s] = req[s]
    BY <1>1, <1>4 DEF DeleteItems, LoadForSave, FlushNothing, SaveItems, Answer, TypeOK
  <2>3. req'[r] # Idle =>
          /\ req'[r].row = req[r].row /\ req'[r].valid = req[r].valid
          /\ req'[r].inv = req[r].inv /\ req'[r].pc # "insertPayment"
          /\ req'[r].pc = "flush" => req[r].valid
    <3>1. CASE DeleteItems(r)
      BY <1>1, <2>1, <3>1 DEF DeleteItems, TypeOK, Request
    <3>2. CASE LoadForSave(r)
      <4>1. req[r].valid
        BY <3>2 DEF LoadForSave, Refused
      <4>. QED  BY <1>1, <2>1, <3>2, <4>1 DEF LoadForSave, TypeOK, Request
    <3>3. CASE FlushNothing(r)
      BY <1>1, <2>1, <3>3 DEF FlushNothing, Answer, TypeOK, Request
    <3>4. CASE \E b \in Batches : SaveItems(r, b)
      BY <1>1, <2>1, <3>4 DEF SaveItems, TypeOK, Request
    <3>. QED  BY <1>4, <3>1, <3>2, <3>3, <3>4
  <2>4. Fits(req[r])
    BY <2>1 DEF WorthInv, Busy
  <2>5. req'[r] # Idle => Fits(req[r])'
    BY <2>1, <2>3, <2>4 DEF Fits
  <2>. QED  BY <1>1, <1>2, <2>1, <2>2, <2>5, WorthSlot
<1>5. CASE \E k \in Payments : InsertPayment(r, k)
  BY <1>1, <1>5, WorthInsert
<1>6. CASE \E p \in payments : WritePayment(r, p)
  BY <1>1, <1>6, WorthWrite
<1>7. CASE SumPayments(r)
  BY <1>1, <1>7, WorthSum
<1>8. CASE Flush(r)
  BY <1>1, <1>8, WorthFlush
<1>. QED  BY <1>3, <1>4, <1>5, <1>6, <1>7, <1>8 DEF Step

LEMMA WorthCreate ==
  ASSUME WorthInv, NEW r \in Requests, NEW i \in Invoices, NEW b \in Batches,
         NEW t \in Totals, Create(r, i, b, t)
  PROVE  WorthInv'
<1>1. TypeOK /\ TypeOK' /\ CashInv' /\ t \in Int
  BY CashNext, CreateType, TotalsAreIntegers DEF WorthInv, CashInv, KeyInv, Next
<1>2. /\ UNCHANGED payments /\ worth' = [worth EXCEPT ![i] = Higher(worth[i], t)]
      /\ invoice'[i].paid = 0 /\ invoice'[i].total = t
      /\ \A j \in Invoices \ {i} : invoice'[j] = invoice[j]
      /\ req'[r].pc = "emit" /\ req'[r].inv = i /\ req'[r].row.paid = 0
      /\ \A s \in Requests \ {r} : req'[s] = req[s]
  BY <1>1 DEF Create, TypeOK
<1>3. \A j \in Invoices : worth[j] \in Int /\ worth'[j] \in Int /\ worth[j] <= worth'[j]
  BY <1>1, <1>2, WorthRises
<1>4. t <= worth'[i] /\ 0 <= worth'[i]
  <2>1. 0 <= invoice[i].paid /\ invoice[i].paid <= worth[i] /\ invoice[i].paid \in Int
    BY <1>1 DEF WorthInv, TypeOK, Row
  <2>2. t <= worth'[i]
    BY <1>1, <1>2, WorthRises
  <2>. QED  BY <1>3, <2>1, <2>2
<1>5. Fits(req[r])'
  BY <1>2, <1>4 DEF Fits
<1>. QED  BY <1>1, <1>2, <1>3, <1>4, <1>5, WorthSlot

LEMMA WorthKept == Spec => []WorthInv
<1>1. Init => WorthInv
  <2>. SUFFICES ASSUME Init PROVE WorthInv
    OBVIOUS
  <2>1. CashInv
    BY CashInit
  <2>. QED  BY <2>1 DEF Init, WorthInv, Busy, NoRow
<1>2. WorthInv /\ [Next]_vars => WorthInv'
  <2>. SUFFICES ASSUME WorthInv, [Next]_vars PROVE WorthInv'
    OBVIOUS
  <2>0. TypeOK /\ TypeOK' /\ CashInv'
    BY CashNext, NextType DEF WorthInv, CashInv, KeyInv
  <2>1. ASSUME NEW r \in Requests, NEW o \in Orgs, RemoveOrg(r, o) PROVE WorthInv'
    <3>1. /\ UNCHANGED <<worth, req>> /\ payments' \subseteq payments
          /\ \A i \in Invoices : invoice'[i] = NoRow \/ invoice'[i] = invoice[i]
          /\ req[r] = Idle
      BY <2>1 DEF RemoveOrg
    <3>2. \A i \in Invoices : worth[i] <= worth'[i]
      BY <2>0, <3>1 DEF TypeOK
    <3>. QED  BY <2>0, <3>1, <3>2, WorthSlot
  <2>2. CASE UNCHANGED vars
    BY <2>0, <2>2 DEF vars, WorthInv, Busy, Fits
  <2>. QED  BY <2>1, <2>2, WorthCreate, WorthCall, WorthStep DEF Next
<1>. QED  BY <1>1, <1>2, PTL DEF Spec

\* Whatever overlaps and fails, for every choice of amounts and totals, negative
\* ones included, through edits and corrections: amountPaid and each payment stay
\* within the most their invoice was ever worth.
THEOREM ClaimsStayWithinWorth == Spec => []ClaimsWithinWorth
<1>1. WorthInv => ClaimsWithinWorth
  BY DEF WorthInv, ClaimsWithinWorth, PaymentsOf
<1>. QED  BY <1>1, WorthKept, PTL

-----------------------------------------------------------------------------
(***************************************************************************)
(* What the invoice and payment API promises a client that waits for each  *)
(* answer before it sends the next request (one request slot), for every   *)
(* set of invoices and payments and whatever fails between two awaits.     *)
(* What carries every proof is that the entity a handler holds is still    *)
(* the row it read, changed by what the handler does, when save() compares *)
(* and writes it.                                                          *)
(***************************************************************************)

\* The client waits: there is one slot.
OneSlot == \A q, r \in Requests : q = r

\* What each handler is about to do to the row as it is now.
SendPlan(q) ==
  /\ q.op = "send" /\ q.pc \in {"save", "flush"}
  /\ invoice[q.inv].status = "draft"
  /\ q.row = [invoice[q.inv] EXCEPT !.status = "sent"]

VoidPlan(q) ==
  /\ q.op = "void" /\ q.pc \in {"save", "flush"}
  /\ invoice[q.inv].status # "paid"
  /\ q.row = [invoice[q.inv] EXCEPT !.status = "draft"]

EditPlan(q) ==
  /\ q.op = "update" /\ q.pc \in {"deleteItems", "saveItems", "save", "flush"}
  /\ invoice[q.inv].status = "draft"
  /\ q.row.status \in Settable /\ q.row.total \in Totals \cup {invoice[q.inv].total}
  /\ q.row.paid = invoice[q.inv].paid

PayPlan(q) ==
  /\ q.op = "pay" /\ q.dto.amount \in Amounts
  /\ q.dto.amount <= invoice[q.inv].total - invoice[q.inv].paid
  /\ \/ q.pc = "insertPayment" /\ q.row = invoice[q.inv]
     \/ /\ q.pc \in {"save", "flush"} /\ q.valid = AddIsValid(q.dto.amount)
        /\ q.row = [invoice[q.inv] EXCEPT !.paid = AddPaid(@, q.dto.amount)]

CorrectPlan(q) ==
  /\ q.op = "repay" /\ q.dto.amount \in Amounts
  /\ \/ q.pc \in {"writePayment", "sumPayments"} /\ q.row = invoice[q.inv]
     \/ /\ q.pc \in {"save", "flush"}
        /\ q.row = [invoice[q.inv] EXCEPT !.paid = collected[SumOf(q)]]
  /\ q.pc = "writePayment" => \A p \in payments : p.id \in q.pays => p.inv = q.inv

Planned(q) == SendPlan(q) \/ VoidPlan(q) \/ EditPlan(q) \/ PayPlan(q) \/ CorrectPlan(q)

InStep(q) ==
  /\ Stored(q.inv)
  /\ q.pc # "emit" => Planned(q)
  /\ q.pc = "flush" => \A c \in Columns \ q.diff : q.row[c] = invoice[q.inv][c]

InStepInv ==
  /\ KeyInv
  /\ \A p \in payments : p.amount \in Amounts /\ Stored(p.inv)
  /\ \A r \in Busy : InStep(req[r])

\* The call of a handler, and what its entity is then.
LEMMA Began ==
  ASSUME TypeOK, NEW r \in Requests, NEW op, NEW i, NEW stage, NEW entity, NEW pays, NEW dto,
         Begin(r, op, i, stage, entity, pays, dto)
  PROVE  /\ UNCHANGED <<invoice, items, payments, collected, heard, incidents, gone>>
         /\ Stored(i) /\ req[r] = Idle /\ op \in Ops
         /\ req'[r].pc = stage /\ req'[r].op = op /\ req'[r].inv = i
         /\ req'[r].row = entity /\ req'[r].pays = pays /\ req'[r].dto = dto
         /\ req'[r].valid = TRUE
         /\ req'[r].items = IF op \in {"update", "send", "void"} THEN ItemsOf(i) ELSE {}
BY DEF TypeOK, Begin

LEMMA PlanCall ==
  ASSUME KeyInv, NEW r \in Requests, Call(r)
  PROVE  /\ UNCHANGED <<invoice, items, payments, collected, heard, incidents, gone>>
         /\ req[r] = Idle /\ req'[r].inv \in Invoices /\ Stored(req'[r].inv)
         /\ req'[r].pc \notin {"saveItems", "flush", "emit"} /\ req'[r].valid = TRUE
         /\ LoadsRelations(req'[r]) \/ req'[r].pc \in {"insertPayment", "writePayment"}
         /\ Planned(req[r])'
         /\ req'[r].items = IF LoadsRelations(req'[r]) THEN ItemsOf(req'[r].inv) ELSE {}
<1>1. PICK i \in Invoices :
        \/ FindForSend(r, i)
        \/ FindForVoid(r, i)
        \/ \E s \in Settable : FindForUpdate(r, i, s)
        \/ \E s \in Settable, t \in Totals : FindForItemsUpdate(r, i, s, t)
        \/ \E k \in Payments, d \in Dtos : FindForPayment(r, i, k, d)
        \/ \E p \in PaymentsOf(i), d \in Bodies : FindPayment(r, p, d)
  BY DEF Call
<1>2. TypeOK /\ invoice[i] \in Row
  BY DEF KeyInv, TypeOK
<1>3. CASE FindForSend(r, i)
  <2>. DEFINE entity == [invoice[i] EXCEPT !.status = "sent"]
  <2>1. Begin(r, "send", i, "save", entity, LoadedPayments(i), NoDto)
    BY <1>3 DEF FindForSend
  <2>2. entity = [invoice[i] EXCEPT !.status = "sent"]
    OBVIOUS
  <2>. HIDE DEF entity
  <2>3. /\ UNCHANGED <<invoice, items, payments, collected, heard, incidents, gone>>
        /\ Stored(i) /\ req[r] = Idle
        /\ req'[r].pc = "save" /\ req'[r].op = "send" /\ req'[r].inv = i
        /\ req'[r].row = entity /\ req'[r].valid = TRUE /\ req'[r].items = ItemsOf(i)
    BY <1>2, <2>1, Began
  <2>4. SendPlan(req[r])'
    BY <1>3, <2>2, <2>3 DEF FindForSend, SendPlan
  <2>. QED  BY <2>3, <2>4 DEF Planned, LoadsRelations
<1>4. CASE FindForVoid(r, i)
  <2>. DEFINE entity == [invoice[i] EXCEPT !.status = "draft"]
  <2>1. Begin(r, "void", i, "save", entity, LoadedPayments(i), NoDto)
    BY <1>4 DEF FindForVoid
  <2>2. entity = [invoice[i] EXCEPT !.status = "draft"]
    OBVIOUS
  <2>. HIDE DEF entity
  <2>3. /\ UNCHANGED <<invoice, items, payments, collected, heard, incidents, gone>>
        /\ Stored(i) /\ req[r] = Idle
        /\ req'[r].pc = "save" /\ req'[r].op = "void" /\ req'[r].inv = i
        /\ req'[r].row = entity /\ req'[r].valid = TRUE /\ req'[r].items = ItemsOf(i)
    BY <1>2, <2>1, Began
  <2>4. VoidPlan(req[r])'
    BY <1>4, <2>2, <2>3 DEF FindForVoid, VoidPlan
  <2>. QED  BY <2>3, <2>4 DEF Planned, LoadsRelations
<1>5. CASE \E s \in Settable : FindForUpdate(r, i, s)
  <2>1. PICK s \in Settable : FindForUpdate(r, i, s)
    BY <1>5
  <2>. DEFINE entity == [invoice[i] EXCEPT !.status = s]
  <2>2. entity.status = s /\ entity.total = invoice[i].total /\ entity.paid = invoice[i].paid
    BY <1>2 DEF Row
  <2>3. Begin(r, "update", i, "save", entity, LoadedPayments(i), NoDto)
    BY <2>1 DEF FindForUpdate
  <2>. HIDE DEF entity
  <2>4. /\ UNCHANGED <<invoice, items, payments, collected, heard, incidents, gone>>
        /\ Stored(i) /\ req[r] = Idle
        /\ req'[r].pc = "save" /\ req'[r].op = "update" /\ req'[r].inv = i
        /\ req'[r].row = entity /\ req'[r].valid = TRUE /\ req'[r].items = ItemsOf(i)
    BY <1>2, <2>3, Began
  <2>5. EditPlan(req[r])'
    BY <2>1, <2>2, <2>4 DEF FindForUpdate, EditPlan
  <2>. QED  BY <2>4, <2>5 DEF Planned, LoadsRelations
<1>6. CASE \E s \in Settable, t \in Totals : FindForItemsUpdate(r, i, s, t)
  <2>1. PICK s \in Settable, t \in Totals : FindForItemsUpdate(r, i, s, t)
    BY <1>6
  <2>. DEFINE entity == [invoice[i] EXCEPT !.status = s, !.total = t]
  <2>2. entity.status = s /\ entity.total = t /\ entity.paid = invoice[i].paid
    BY <1>2 DEF Row
  <2>3. Begin(r, "update", i, "deleteItems", entity, LoadedPayments(i), NoDto)
    BY <2>1 DEF FindForItemsUpdate
  <2>. HIDE DEF entity
  <2>4. /\ UNCHANGED <<invoice, items, payments, collected, heard, incidents, gone>>
        /\ Stored(i) /\ req[r] = Idle
        /\ req'[r].pc = "deleteItems" /\ req'[r].op = "update" /\ req'[r].inv = i
        /\ req'[r].row = entity /\ req'[r].valid = TRUE /\ req'[r].items = ItemsOf(i)
    BY <1>2, <2>3, Began
  <2>5. EditPlan(req[r])'
    BY <2>1, <2>2, <2>4 DEF FindForItemsUpdate, EditPlan
  <2>. QED  BY <2>4, <2>5 DEF Planned, LoadsRelations
<1>7. CASE \E k \in Payments, d \in Dtos : FindForPayment(r, i, k, d)
  <2>1. PICK k \in Payments, d \in Dtos : FindForPayment(r, i, k, d)
    BY <1>7
  <2>2. d.amount \in Amounts /\ d.amount <= invoice[i].total - invoice[i].paid
    BY <2>1 DEF Dtos, FindForPayment
  <2>3. /\ UNCHANGED <<invoice, items, payments, collected, heard, incidents, gone>>
        /\ Stored(i) /\ req[r] = Idle
        /\ req'[r].pc = "insertPayment" /\ req'[r].op = "pay" /\ req'[r].inv = i
        /\ req'[r].row = invoice[i] /\ req'[r].dto = d
        /\ req'[r].valid = TRUE /\ req'[r].items = {}
    BY <1>2, <2>1, Began DEF FindForPayment
  <2>4. PayPlan(req[r])'
    BY <2>2, <2>3 DEF PayPlan
  <2>. QED  BY <2>3, <2>4 DEF Planned, LoadsRelations
<1>8. CASE \E p \in PaymentsOf(i), d \in Bodies : FindPayment(r, p, d)
  <2>1. PICK p \in PaymentsOf(i), d \in Bodies : FindPayment(r, p, d)
    BY <1>8
  <2>2. d.amount \in Amounts /\ p \in payments /\ p.inv = i
    BY DEF Bodies, PaymentsOf
  <2>3. /\ UNCHANGED <<invoice, items, payments, collected, heard, incidents, gone>>
        /\ Stored(i) /\ req[r] = Idle
        /\ req'[r].pc = "writePayment" /\ req'[r].op = "repay" /\ req'[r].inv = i
        /\ req'[r].row = invoice[i] /\ req'[r].dto = d /\ req'[r].pays = {p.id}
        /\ req'[r].valid = TRUE /\ req'[r].items = {}
    <3>1. Begin(r, "repay", i, "writePayment", invoice[i], {p.id}, d)
      BY <2>1, <2>2 DEF FindPayment
    <3>. QED  BY <1>2, <3>1, Began
  <2>4. \A b \in payments : b.id \in {p.id} => b.inv = i
    BY <2>2 DEF KeyInv
  <2>5. CorrectPlan(req[r])'
    BY <2>2, <2>3, <2>4 DEF CorrectPlan
  <2>. QED  BY <2>3, <2>5 DEF Planned, LoadsRelations
<1>. QED  BY <1>1, <1>3, <1>4, <1>5, <1>6, <1>7, <1>8

\* The request a step finds.
LEMMA PlanAt ==
  ASSUME InStepInv, NEW r \in Requests, Step(r)
  PROVE  TypeOK /\ r \in Busy /\ req[r] \in Request /\ req[r].inv \in Invoices /\ InStep(req[r])
<1>1. TypeOK /\ req[r] \in Request
  BY StepKeeps DEF InStepInv, KeyInv
<1>2. r \in Busy
  BY <1>1 DEF Busy, Request, Idle, Stages
<1>. QED  BY <1>1, <1>2 DEF InStepInv, Request

\* save() writes the entity: every column it does not write has its value already.
LEMMA FlushWrites ==
  ASSUME InStepInv, NEW r \in Requests, Flush(r)
  PROVE  /\ Planned(req[r]) /\ req[r].pc = "flush" /\ req[r].row \in Row
         /\ invoice' = [invoice EXCEPT ![req[r].inv] = req[r].row]
         /\ req[r].row.status # "absent"
<1>1. /\ TypeOK /\ req[r] \in Request /\ req[r].inv \in Invoices /\ InStep(req[r])
      /\ req[r].pc = "flush" /\ req[r].row \in Row
  BY PlanAt DEF Step, Flush, At, Request
<1>2. Planned(req[r])
  BY <1>1 DEF InStep
<1>3. /\ Pick(r, "status") = req[r].row.status
      /\ Pick(r, "total") = req[r].row.total
      /\ Pick(r, "paid") = req[r].row.paid
  BY <1>1 DEF InStep, Pick, Columns
<1>4. [status |-> Pick(r, "status"), total |-> Pick(r, "total"), paid |-> Pick(r, "paid")]
        = req[r].row
  BY <1>1, <1>3 DEF Row
<1>5. invoice' = [invoice EXCEPT ![req[r].inv] = req[r].row]
  BY <1>4 DEF Flush
<1>6. req[r].row.status # "absent"
  <2>1. invoice[req[r].inv] \in Row /\ invoice[req[r].inv].status # "absent"
    BY <1>1 DEF TypeOK, InStep, Stored
  <2>. QED
    BY <1>2, <2>1, SettableAreStatuses
       DEF Planned, SendPlan, VoidPlan, EditPlan, PayPlan, CorrectPlan, Row, Statuses
<1>. QED  BY <1>1, <1>2, <1>5, <1>6

LEMMA PlanStep ==
  ASSUME InStepInv, OneSlot, NEW r \in Requests, Step(r)
  PROVE  req'[r] # Idle => InStep(req[r])'
<1>1. /\ TypeOK /\ r \in Busy /\ req[r] \in Request /\ req[r].inv \in Invoices
      /\ InStep(req[r]) /\ invoice[req[r].inv] \in Row
  BY PlanAt DEF TypeOK
<1>2. CASE \/ RejectItems(r) \/ RefuseInsert(r) \/ RefuseWrite(r)
           \/ RefuseSave(r) \/ Emit(r)
  BY <1>1, <1>2 DEF RejectItems, RefuseInsert, RefuseWrite, RefuseSave, Emit, Answer, TypeOK
<1>3. CASE DeleteItems(r)
  <2>1. /\ req[r].pc = "deleteItems" /\ req'[r].pc = "saveItems"
        /\ req'[r].op = req[r].op /\ req'[r].inv = req[r].inv
        /\ req'[r].row = req[r].row /\ req'[r].valid = req[r].valid /\ UNCHANGED invoice
    BY <1>1, <1>3 DEF DeleteItems, At, TypeOK, Request
  <2>2. EditPlan(req[r])
    BY <1>1, <2>1 DEF InStep, Planned, SendPlan, VoidPlan, PayPlan, CorrectPlan
  <2>3. EditPlan(req[r])'
    BY <2>1, <2>2 DEF EditPlan
  <2>. QED  BY <1>1, <2>1, <2>3 DEF InStep, Planned, Stored
<1>4. CASE \E b \in Batches : SaveItems(r, b)
  <2>1. /\ req[r].pc = "saveItems" /\ req'[r].pc = "save"
        /\ req'[r].op = req[r].op /\ req'[r].inv = req[r].inv
        /\ req'[r].row = req[r].row /\ req'[r].valid = req[r].valid /\ UNCHANGED invoice
    BY <1>1, <1>4 DEF SaveItems, At, TypeOK, Request
  <2>2. EditPlan(req[r])
    BY <1>1, <2>1 DEF InStep, Planned, SendPlan, VoidPlan, PayPlan, CorrectPlan
  <2>3. EditPlan(req[r])'
    BY <2>1, <2>2 DEF EditPlan
  <2>. QED  BY <1>1, <2>1, <2>3 DEF InStep, Planned, Stored
<1>5. CASE \E k \in Payments : InsertPayment(r, k)
  <2>1. /\ req[r].pc = "insertPayment" /\ req'[r].pc = "save"
        /\ req'[r].op = req[r].op /\ req'[r].inv = req[r].inv /\ req'[r].dto = req[r].dto
        /\ req'[r].row =
             [req[r].row EXCEPT !.paid = AddPaid(req[r].row.paid, req[r].dto.amount)]
        /\ req'[r].valid = AddIsValid(req[r].dto.amount) /\ UNCHANGED invoice
    BY <1>1, <1>5, CountPays DEF InsertPayment, StorePayment, Pays, At
  <2>2. PayPlan(req[r]) /\ req[r].row = invoice[req[r].inv]
    BY <1>1, <2>1 DEF InStep, Planned, SendPlan, VoidPlan, EditPlan, PayPlan, CorrectPlan
  <2>3. PayPlan(req[r])'
    BY <2>1, <2>2 DEF PayPlan
  <2>. QED  BY <1>1, <2>1, <2>3 DEF InStep, Planned, Stored
<1>6. CASE \E p \in payments : WritePayment(r, p)
  <2>1. /\ req[r].pc = "writePayment" /\ req'[r].pc = "sumPayments"
        /\ req'[r].op = req[r].op /\ req'[r].inv = req[r].inv /\ req'[r].dto = req[r].dto
        /\ req'[r].row = req[r].row /\ req'[r].valid = req[r].valid /\ UNCHANGED invoice
    <3>1. /\ req[r].pc = "writePayment" /\ UNCHANGED invoice
          /\ req' = [req EXCEPT ![r].pc = "sumPayments"]
      BY <1>6 DEF WritePayment, At
    <3>. QED  BY <1>1, <3>1 DEF TypeOK, Request
  <2>2. CorrectPlan(req[r]) /\ req[r].row = invoice[req[r].inv]
    BY <1>1, <2>1 DEF InStep, Planned, SendPlan, VoidPlan, EditPlan, PayPlan, CorrectPlan
  <2>3. CorrectPlan(req[r])'
    BY <2>1, <2>2 DEF CorrectPlan
  <2>. QED  BY <1>1, <2>1, <2>3 DEF InStep, Planned, Stored
<1>7. CASE SumPayments(r)
  <2>1. /\ req[r].pc = "sumPayments" /\ req'[r].pc = "save"
        /\ req'[r].op = req[r].op /\ req'[r].inv = req[r].inv /\ req'[r].dto = req[r].dto
        /\ req'[r].row = [req[r].row EXCEPT !.paid = collected[SumOf(req[r])]]
        /\ UNCHANGED <<invoice, collected>>
    BY <1>1, <1>7, SumPays DEF SumPayments, Pays, At
  <2>2. CorrectPlan(req[r]) /\ req[r].row = invoice[req[r].inv]
    BY <1>1, <2>1 DEF InStep, Planned, SendPlan, VoidPlan, EditPlan, PayPlan, CorrectPlan
  <2>3. CorrectPlan(req[r])'
    BY <2>1, <2>2 DEF CorrectPlan, SumOf
  <2>. QED  BY <1>1, <2>1, <2>3 DEF InStep, Planned, Stored
<1>8. CASE LoadForSave(r)
  <2>1. /\ req[r].pc = "save" /\ req'[r].pc = "flush"
        /\ req'[r].op = req[r].op /\ req'[r].inv = req[r].inv /\ req'[r].dto = req[r].dto
        /\ req'[r].row = req[r].row /\ req'[r].valid = req[r].valid
        /\ req'[r].diff =
             req[r].diff \cup {c \in Columns : req[r].row[c] # invoice[req[r].inv][c]}
        /\ UNCHANGED <<invoice, collected>>
    BY <1>1, <1>8 DEF LoadForSave, At, TypeOK, Request
  <2>2. Planned(req[r])
    BY <1>1, <2>1 DEF InStep
  <2>3. Planned(req[r])'
    <3>1. CASE SendPlan(req[r])
      BY <2>1, <3>1 DEF SendPlan, Planned
    <3>2. CASE VoidPlan(req[r])
      BY <2>1, <3>2 DEF VoidPlan, Planned
    <3>3. CASE EditPlan(req[r])
      BY <2>1, <3>3 DEF EditPlan, Planned
    <3>4. CASE PayPlan(req[r])
      BY <2>1, <3>4 DEF PayPlan, Planned
    <3>5. CASE CorrectPlan(req[r])
      BY <2>1, <3>5 DEF CorrectPlan, SumOf, Planned
    <3>. QED  BY <2>2, <3>1, <3>2, <3>3, <3>4, <3>5 DEF Planned
  <2>. QED  BY <1>1, <2>1, <2>3 DEF InStep, Stored
<1>9. CASE Flush(r)
  <2>1. /\ invoice' = [invoice EXCEPT ![req[r].inv] = req[r].row]
        /\ req[r].row.status # "absent"
    BY <1>9, FlushWrites
  <2>2. req'[r].pc = "emit" /\ req'[r].inv = req[r].inv
    BY <1>1, <1>9 DEF Flush, TypeOK, Request
  <2>. QED  BY <1>1, <2>1, <2>2 DEF InStep, Stored, TypeOK
<1>10. CASE FlushNothing(r)
  BY <1>1, <1>10 DEF FlushNothing, InStep
<1>. QED
  BY <1>2, <1>3, <1>4, <1>5, <1>6, <1>7, <1>8, <1>9, <1>10 DEF Step

\* The rows of payments: each belongs to a stored invoice and has an amount that
\* some request carried.
PaidRows == \A p \in payments : p.amount \in Amounts /\ Stored(p.inv)

LEMMA PaidRowsStep ==
  ASSUME InStepInv, NEW r \in Requests, Step(r)
  PROVE  PaidRows'
<1>1. /\ TypeOK /\ r \in Busy /\ req[r] \in Request /\ req[r].inv \in Invoices
      /\ InStep(req[r]) /\ KeyInv
  BY PlanAt DEF InStepInv
<1>2. PaidRows
  BY DEF InStepInv, PaidRows
<1>3. CASE Flush(r)
  <2>1. /\ invoice' = [invoice EXCEPT ![req[r].inv] = req[r].row]
        /\ req[r].row.status # "absent" /\ UNCHANGED payments
    BY <1>3, FlushWrites DEF Flush
  <2>. QED  BY <1>1, <1>2, <2>1 DEF PaidRows, Stored, TypeOK, PayRow
<1>4. CASE \E k \in Payments : InsertPayment(r, k)
  <2>1. PICK k \in Payments : InsertPayment(r, k)
    BY <1>4
  <2>2. payments' = payments \cup {Inserted(r, k)} /\ UNCHANGED invoice
    BY <1>1, <2>1, KeyInsert DEF InsertPayment, StorePayment
  <2>3. req[r].dto.amount \in Amounts /\ Stored(req[r].inv) /\ req[r].pc = "insertPayment"
    BY <1>1, <2>1
       DEF InsertPayment, At, InStep, Planned, SendPlan, VoidPlan, EditPlan, PayPlan, CorrectPlan
  <2>4. Inserted(r, k).amount = req[r].dto.amount /\ Inserted(r, k).inv = req[r].inv
    BY DEF Inserted
  <2>. QED  BY <1>2, <2>2, <2>3, <2>4 DEF PaidRows, Stored
<1>5. CASE \E p \in payments : WritePayment(r, p)
  <2>1. PICK p \in payments : WritePayment(r, p)
    BY <1>5
  <2>2. /\ payments' = (payments \ {p}) \cup {Corrected(r, p)} /\ UNCHANGED invoice
        /\ Corrected(r, p).inv = p.inv /\ Corrected(r, p).amount = req[r].dto.amount
        /\ req[r].pc = "writePayment"
    BY <1>1, <2>1, KeyWrite DEF WritePayment, At
  <2>3. req[r].dto.amount \in Amounts
    BY <1>1, <2>2 DEF InStep, Planned, SendPlan, VoidPlan, EditPlan, PayPlan, CorrectPlan
  <2>. QED  BY <1>2, <2>2, <2>3 DEF PaidRows, Stored
<1>6. CASE \/ RejectItems(r) \/ RefuseInsert(r) \/ RefuseWrite(r) \/ RefuseSave(r)
           \/ Emit(r) \/ DeleteItems(r) \/ SumPayments(r) \/ LoadForSave(r)
           \/ FlushNothing(r) \/ \E b \in Batches : SaveItems(r, b)
  <2>1. UNCHANGED <<invoice, payments>>
    BY <1>6 DEF RejectItems, RefuseInsert, RefuseWrite, RefuseSave, Emit, DeleteItems,
                SumPayments, LoadForSave, FlushNothing, SaveItems
  <2>. QED  BY <1>2, <2>1 DEF PaidRows, Stored
<1>. QED  BY <1>3, <1>4, <1>5, <1>6 DEF Step

\* The entity stays in step with its row: nothing that runs while the client waits
\* touches either, except the handler itself.
LEMMA InStepNext == OneSlot /\ InStepInv /\ [Next]_vars => InStepInv'
<1>. SUFFICES ASSUME OneSlot, InStepInv, [Next]_vars PROVE InStepInv'
  OBVIOUS
<1>1. KeyInv' /\ TypeOK
  BY KeyNext DEF InStepInv, KeyInv
<1>2. ASSUME NEW r \in Requests, Call(r) PROVE InStepInv'
  <2>1. /\ UNCHANGED <<invoice, payments>> /\ Stored(req'[r].inv)
        /\ req'[r].pc \notin {"flush", "emit"} /\ req'[r].valid = TRUE
        /\ Planned(req[r])'
    BY <1>2, PlanCall DEF InStepInv
  <2>2. InStep(req[r])'
    BY <2>1 DEF InStep, Stored
  <2>. QED  BY <1>1, <2>1, <2>2 DEF InStepInv, Busy, OneSlot, Stored
<1>3. ASSUME NEW r \in Requests, Step(r) PROVE InStepInv'
  BY <1>1, <1>3, PlanStep, PaidRowsStep DEF InStepInv, Busy, OneSlot, PaidRows
<1>4. ASSUME NEW r \in Requests, Abort(r) PROVE InStepInv'
  BY <1>1, <1>4 DEF Abort, Answer, InStepInv, Busy, OneSlot, Stored, KeyInv, TypeOK
<1>5. ASSUME NEW r \in Requests, NEW o \in Orgs, RemoveOrg(r, o) PROVE InStepInv'
  <2>1. Busy' = {}
    BY <1>5 DEF RemoveOrg, Busy, OneSlot
  <2>2. \A p \in payments' : p \in payments /\ Stored(p.inv)' /\ p.amount \in Amounts
    BY <1>1, <1>5 DEF RemoveOrg, InStepInv, Stored, TypeOK, PayRow
  <2>. QED  BY <1>1, <2>1, <2>2 DEF InStepInv
<1>6. ASSUME NEW r \in Requests, NEW i \in Invoices, NEW b \in Batches, NEW t \in Totals,
             Create(r, i, b, t)
      PROVE  InStepInv'
  <2>1. /\ UNCHANGED payments /\ ~Stored(i) /\ Stored(i)'
        /\ \A j \in Invoices : j # i => invoice'[j] = invoice[j]
        /\ req'[r].pc = "emit" /\ req'[r].inv = i
    BY <1>1, <1>6 DEF Create, TypeOK, Stored
  <2>2. InStep(req[r])'
    BY <2>1 DEF InStep, Stored
  <2>3. \A p \in payments' : p.amount \in Amounts /\ Stored(p.inv)'
    BY <1>1, <2>1 DEF InStepInv, Stored, TypeOK, PayRow
  <2>. QED  BY <1>1, <2>2, <2>3 DEF InStepInv, Busy, OneSlot
<1>7. CASE UNCHANGED vars
  <2>1. ASSUME NEW r \in Requests, req'[r] # Idle PROVE InStep(req[r])'
    <3>1. InStep(req[r])
      BY <1>7, <2>1 DEF vars, InStepInv, Busy
    <3>. QED
      BY <1>7, <3>1
         DEF vars, InStep, Planned, SendPlan, VoidPlan, EditPlan, PayPlan, CorrectPlan, SumOf,
             Stored
  <2>2. PaidRows'
    BY <1>7 DEF vars, InStepInv, PaidRows, Stored
  <2>. QED  BY <1>1, <2>1, <2>2 DEF InStepInv, Busy, PaidRows
<1>. QED  BY <1>2, <1>3, <1>4, <1>5, <1>6, <1>7 DEF Next

LEMMA InStepKept == ASSUME OneSlot PROVE Spec => []InStepInv
<1>1. Init => InStepInv
  BY KeyInit DEF Init, InStepInv, Busy
<1>. QED  BY <1>1, InStepNext, PTL DEF Spec

-----------------------------------------------------------------------------
\* Only the write of save() changes the invoices table.
LEMMA OnlyFlushWrites ==
  ASSUME NEW r \in Requests, Step(r) \/ Call(r) \/ Abort(r)
  PROVE  Flush(r) \/ UNCHANGED invoice
<1>1. Call(r) \/ Abort(r) => UNCHANGED invoice
  BY DEF Call, Abort, FindForSend, FindForVoid, FindForUpdate, FindForItemsUpdate,
         FindForPayment, FindPayment, Begin
<1>2. Step(r) => Flush(r) \/ UNCHANGED invoice
  BY DEF Step, RejectItems, RefuseInsert, RefuseWrite, RefuseSave, Emit, DeleteItems,
         SumPayments, LoadForSave, FlushNothing, SaveItems, InsertPayment, StorePayment,
         WritePayment
<1>. QED  BY <1>1, <1>2

\* A client that waits sees the status change only from draft, or back to draft by
\* a void, which a paid invoice refuses.
THEOREM StatusesFollowTheRules ==
  ASSUME OneSlot
  PROVE  Spec => StatusDiscipline
<1>. DEFINE Rule ==
       \A i \in Invoices :
         Stored(i)' /\ invoice'[i].status # invoice[i].status =>
           \/ invoice[i].status \in {"absent", "draft"}
           \/ invoice[i].status # "paid" /\ invoice'[i].status = "draft"
<1>1. InStepInv /\ [Next]_vars => [Rule]_vars
  <2>. SUFFICES ASSUME InStepInv, [Next]_vars PROVE [Rule]_vars
    OBVIOUS
  <2>1. TypeOK
    BY DEF InStepInv, KeyInv
  <2>2. CASE UNCHANGED invoice
    BY <2>2
  <2>3. ASSUME NEW r \in Requests, Flush(r) PROVE Rule
    <3>1. /\ Planned(req[r]) /\ req[r].row \in Row /\ req[r].inv \in Invoices
          /\ invoice' = [invoice EXCEPT ![req[r].inv] = req[r].row]
      BY <2>3, FlushWrites, PlanAt DEF Step
    <3>2. \/ req[r].row.status = invoice[req[r].inv].status
          \/ invoice[req[r].inv].status = "draft"
          \/ invoice[req[r].inv].status # "paid" /\ req[r].row.status = "draft"
      BY <2>1, <3>1
         DEF Planned, SendPlan, VoidPlan, EditPlan, PayPlan, CorrectPlan, TypeOK, Row
    <3>. QED  BY <2>1, <3>1, <3>2 DEF TypeOK
  <2>4. ASSUME NEW r \in Requests, NEW o \in Orgs, RemoveOrg(r, o) PROVE Rule
    BY <2>1, <2>4 DEF RemoveOrg, Stored, NoRow, TypeOK
  <2>5. ASSUME NEW r \in Requests, NEW i \in Invoices, NEW b \in Batches, NEW t \in Totals,
               Create(r, i, b, t)
        PROVE  Rule
    BY <2>1, <2>5 DEF Create, Stored, TypeOK
  <2>6. CASE UNCHANGED vars
    BY <2>6
  <2>. QED  BY <2>2, <2>3, <2>4, <2>5, <2>6, OnlyFlushWrites DEF Next
<1>. QED  BY <1>1, InStepKept, PTL DEF Spec, StatusDiscipline

\* A correction that is carried out, and whose body names no other invoice, leaves
\* amountPaid equal to the sum of the rows, whatever an earlier failure, or an
\* amount that was appended, left there.
THEOREM CorrectionsRepair ==
  ASSUME OneSlot
  PROVE  Spec => CorrectionRepairsDrift
<1>. DEFINE Repairs ==
       \A r \in Requests :
         At(r, "flush") /\ req[r].op = "repay" /\ SumOf(req[r]) = req[r].inv /\ Flush(r) =>
           invoice'[req[r].inv].paid = Collected(req[r].inv)
<1>1. InStepInv /\ CashInv => Repairs
  <2>. SUFFICES ASSUME InStepInv, CashInv, NEW r \in Requests, req[r].op = "repay",
                       SumOf(req[r]) = req[r].inv, Flush(r)
                PROVE  invoice'[req[r].inv].paid = Collected(req[r].inv)
    OBVIOUS
  <2>1. /\ Planned(req[r]) /\ req[r].row \in Row /\ req[r].inv \in Invoices
        /\ req[r].pc = "flush"
        /\ invoice' = [invoice EXCEPT ![req[r].inv] = req[r].row]
    BY FlushWrites, PlanAt DEF Step
  <2>2. invoice \in [Invoices -> Row]
    BY DEF InStepInv, KeyInv, TypeOK
  <2>3. req[r].row.paid = collected[req[r].inv]
    BY <2>1, <2>2 DEF Planned, SendPlan, VoidPlan, EditPlan, PayPlan, CorrectPlan, Row
  <2>. QED  BY <2>1, <2>2, <2>3 DEF CashInv
<1>. QED  BY <1>1, InStepKept, CashKept, PTL DEF CorrectionRepairsDrift

-----------------------------------------------------------------------------
\* The refinement: which step of the two accounts each step of a handler is.
LEMMA CountsFromFive ==
  ASSUME NEW a \in Int, a >= 0, RoundsUp(a \div 100)
  PROVE  a >= 500
BY DEF RoundsUp

LEMMA BookFlush ==
  ASSUME InStepInv, WorthInv, NEW r \in Requests, Flush(r)
  PROVE  Book!Next \/ UNCHANGED <<invoice, collected>>
<1>. DEFINE i == req[r].inv
<1>1. /\ TypeOK /\ Planned(req[r]) /\ req[r].pc = "flush" /\ req[r].row \in Row
      /\ i \in Invoices /\ InStep(req[r]) /\ req[r] \in Request /\ r \in Busy
      /\ invoice' = [invoice EXCEPT ![i] = req[r].row] /\ UNCHANGED collected
  BY FlushWrites, PlanAt DEF Step, Flush
<1>2. invoice[i] \in Row /\ invoice[i].status # "absent" /\ invoice[i] # Book!NoRow
  BY <1>1 DEF TypeOK, InStep, Stored, Book!NoRow
<1>8. req[r].valid /\ req[r].row.paid >= 0
  BY <1>1 DEF WorthInv, Fits, Row
<1>. HIDE DEF i
<1>3. CASE SendPlan(req[r])
  <2>1. Book!Send(i)
    BY <1>1, <1>2, <1>3 DEF i, SendPlan, Book!Send, TypeOK
  <2>. QED  BY <1>1, <2>1 DEF Book!Next
<1>4. CASE VoidPlan(req[r])
  <2>1. Book!Void(i)
    BY <1>1, <1>2, <1>4 DEF i, VoidPlan, Book!Void, TypeOK
  <2>. QED  BY <1>1, <2>1 DEF Book!Next
<1>5. CASE EditPlan(req[r])
  <2>. DEFINE s == req[r].row.status
              t == req[r].row.total
  <2>1. /\ s \in Settable /\ t \in Totals \cup {invoice[i].total}
        /\ req[r].row = [invoice[i] EXCEPT !.status = s, !.total = t]
    BY <1>1, <1>2, <1>5 DEF i, EditPlan, Row
  <2>2. invoice[i].status = "draft"
    BY <1>5 DEF i, EditPlan
  <2>. HIDE DEF s, t
  <2>3. Book!Edit(i, s, t)
    BY <1>1, <1>2, <2>1, <2>2 DEF Book!Edit, TypeOK, Row
  <2>. QED  BY <1>1, <2>1, <2>3 DEF Book!Next
<1>6. CASE PayPlan(req[r])
  <2>. DEFINE a == req[r].dto.amount
  <2>1. /\ a \in Amounts /\ a <= invoice[i].total - invoice[i].paid
        /\ req[r].row = [invoice[i] EXCEPT !.paid = AddPaid(@, a)]
        /\ AddIsValid(a)
    BY <1>1, <1>6, <1>8 DEF i, PayPlan
  <2>. HIDE DEF a
  <2>2. CASE RoundsUp(a \div 100)
    <3>1. a \in Int /\ a >= 500
      BY <2>1, <2>2, AmountsAreIntegers, CountsFromFive DEF AddIsValid
    <3>2. req[r].row = [invoice[i] EXCEPT !.paid = @ + 1]
      BY <2>1, <2>2 DEF AddPaid
    <3>3. Book!Count(i, a)
      BY <1>1, <1>2, <2>1, <3>1, <3>2 DEF Book!Count, Book!Room, TypeOK, Row
    <3>. QED  BY <1>1, <2>1, <3>3 DEF Book!Next
  <2>3. CASE ~RoundsUp(a \div 100)
    <3>1. req[r].row = [invoice[i] EXCEPT !.paid = @]
      BY <2>1, <2>3 DEF AddPaid
    <3>2. req[r].row = invoice[i]
      BY <1>2, <3>1 DEF Row
    <3>. QED  BY <1>1, <3>2 DEF TypeOK
  <2>. QED  BY <2>2, <2>3
<1>7. CASE CorrectPlan(req[r])
  <2>1. PICK j \in Invoices : j = SumOf(req[r])
    BY <1>1, SumOfType
  <2>2. req[r].row = [invoice[i] EXCEPT !.paid = collected[j]]
    BY <1>1, <1>7, <2>1 DEF i, CorrectPlan
  <2>3. collected[j] >= 0
    BY <1>1, <1>2, <1>8, <2>2 DEF TypeOK, Row
  <2>4. Book!Settle(i, j)
    BY <1>1, <1>2, <2>2, <2>3 DEF Book!Settle, TypeOK, Row
  <2>. QED  BY <1>1, <2>1, <2>4 DEF Book!Next
<1>. QED  BY <1>1, <1>3, <1>4, <1>5, <1>6, <1>7 DEF Planned

LEMMA BookStep ==
  ASSUME InStepInv, WorthInv, NEW r \in Requests, Step(r)
  PROVE  Book!Next \/ UNCHANGED <<invoice, collected>>
<1>1. /\ TypeOK /\ req[r] \in Request /\ req[r].inv \in Invoices /\ InStep(req[r]) /\ KeyInv
      /\ invoice[req[r].inv] # Book!NoRow
  BY PlanAt DEF InStepInv, InStep, Stored, Book!NoRow
<1>2. CASE \E k \in Payments : InsertPayment(r, k)
  <2>. DEFINE i == req[r].inv
              a == req[r].dto.amount
  <2>1. /\ collected' = [collected EXCEPT ![i] = @ + a] /\ UNCHANGED invoice
        /\ req[r].pc = "insertPayment"
    BY <1>2 DEF InsertPayment, StorePayment, At
  <2>2. a \in Amounts /\ a <= invoice[i].total - invoice[i].paid
    BY <1>1, <2>1 DEF InStep, Planned, SendPlan, VoidPlan, EditPlan, PayPlan, CorrectPlan
  <2>. HIDE DEF i, a
  <2>3. Book!Receive(i, a)
    BY <1>1, <2>1, <2>2 DEF i, Book!Receive, Book!Room
  <2>. QED  BY <1>1, <2>2, <2>3 DEF i, Book!Next
<1>3. CASE \E p \in payments : WritePayment(r, p)
  <2>1. PICK p \in payments : WritePayment(r, p)
    BY <1>3
  <2>. DEFINE new == req[r].dto.amount
              old == p.amount
              i == p.inv
  <2>2. /\ collected' = [collected EXCEPT ![i] = @ + new - old] /\ UNCHANGED invoice
        /\ req[r].pc = "writePayment"
    BY <2>1 DEF WritePayment, At
  <2>3. /\ new \in Amounts /\ old \in Amounts
        /\ i \in Invoices /\ invoice[i] # Book!NoRow
    BY <1>1, <2>2
       DEF InStepInv, InStep, Planned, SendPlan, VoidPlan, EditPlan, PayPlan, CorrectPlan,
           TypeOK, PayRow, Stored, Book!NoRow
  <2>. HIDE DEF i, new, old
  <2>4. Book!Amend(i, old, new)
    BY <2>2, <2>3 DEF Book!Amend
  <2>. QED  BY <2>3, <2>4 DEF Book!Next
<1>4. CASE ~(\E k \in Payments : InsertPayment(r, k)) /\ ~(\E p \in payments : WritePayment(r, p))
  <2>1. UNCHANGED collected
    BY <1>1, <1>4, StepKeeps
  <2>2. Flush(r) \/ UNCHANGED invoice
    BY OnlyFlushWrites
  <2>. QED  BY <2>1, <2>2, BookFlush
<1>. QED  BY <1>2, <1>3, <1>4

\* The handlers implement the two accounts: with a client that waits, every row they
\* write is what one call of the API makes of the row at that moment, through
\* failures, corrections and the removal of organizations.
THEOREM HandlersImplementTheBook ==
  ASSUME OneSlot
  PROVE  Spec => ImplementsBook
<1>1. Init => Book!Init
  BY DEF Init, Book!Init, NoRow, Book!NoRow
<1>2. InStepInv /\ WorthInv /\ RecordsInv /\ [Next]_vars => [Book!Next]_(Book!vars)
  <2>. SUFFICES ASSUME InStepInv, WorthInv, RecordsInv, [Next]_vars
                PROVE  Book!Next \/ UNCHANGED <<invoice, collected>>
    BY DEF Book!vars
  <2>1. ASSUME NEW r \in Requests, Step(r)
        PROVE  Book!Next \/ UNCHANGED <<invoice, collected>>
    BY <2>1, BookStep
  <2>2. ASSUME NEW r \in Requests, Call(r) \/ Abort(r) PROVE UNCHANGED <<invoice, collected>>
    BY <2>2 DEF Call, Abort, FindForSend, FindForVoid, FindForUpdate, FindForItemsUpdate,
                FindForPayment, FindPayment, Begin
  <2>3. ASSUME NEW r \in Requests, NEW o \in Orgs, RemoveOrg(r, o) PROVE Book!Next
    <3>1. Book!Close(o)
      BY <2>3 DEF RemoveOrg, Book!Close, NoRow, Book!NoRow
    <3>. QED  BY <3>1 DEF Book!Next
  <2>4. ASSUME NEW r \in Requests, NEW i \in Invoices, NEW b \in Batches, NEW t \in Totals,
               Create(r, i, b, t)
        PROVE  Book!Next
    <3>1. Book!Issue(i, t)
      BY <2>4 DEF Create, RecordsInv, Book!Issue, NoRow, Book!NoRow
    <3>. QED  BY <3>1 DEF Book!Next
  <2>5. CASE UNCHANGED vars
    BY <2>5 DEF vars
  <2>. QED  BY <2>1, <2>2, <2>3, <2>4, <2>5 DEF Next
<1>. QED
  BY <1>1, <1>2, InStepKept, WorthKept, RecordsKept, PTL DEF Spec, ImplementsBook, Book!Spec

-----------------------------------------------------------------------------
\* Strengthening of LedgerCountsPaise: amountPaid is behind the payments only while
\* the handler that inserted one has yet to write the number it holds.
Owing(q) == q.op = "pay" /\ q.pc \in {"save", "flush"} /\ q.valid

Undisturbed == "failure" \notin incidents /\ Uncorrected

BalancedInv ==
  Undisturbed =>
    \A i \in Invoices :
      /\ \A r \in Busy : req[r].inv = i /\ Owing(req[r]) => req[r].row.paid = Counted(i)
      /\ (\A r \in Busy : req[r].inv = i => ~Owing(req[r])) => invoice[i].paid = Counted(i)

\* A step of the only slot that leaves every account alone, and keeps what is owed.
LEMMA BalancedQuiet ==
  ASSUME OneSlot, BalancedInv, NEW r \in Requests, UNCHANGED <<invoice, payments>>,
         Undisturbed' => Undisturbed,
         r \in Busy /\ Owing(req[r]) => req'[r] # Idle /\ Owing(req'[r]),
         req'[r] # Idle /\ Owing(req'[r]) =>
           /\ r \in Busy /\ Owing(req[r]) /\ req'[r].inv = req[r].inv
           /\ req'[r].row.paid = req[r].row.paid
  PROVE  BalancedInv'
<1>. SUFFICES ASSUME Undisturbed', NEW i \in Invoices
              PROVE  /\ \A s \in Busy' : req'[s].inv = i /\ Owing(req'[s]) =>
                          req'[s].row.paid = Counted(i)'
                     /\ (\A s \in Busy' : req'[s].inv = i => ~Owing(req'[s])) =>
                          invoice[i].paid = Counted(i)'
  BY DEF BalancedInv, Owing
<1>1. Counted(i)' = Counted(i)
  BY CountedKept DEF PaymentsOf
<1>2. \A s \in Requests : s = r
  BY DEF OneSlot
<1>3. r \in Busy' <=> req'[r] # Idle
  BY DEF Busy
<1>4. /\ r \in Busy /\ req[r].inv = i /\ Owing(req[r]) => req[r].row.paid = Counted(i)
      /\ (r \in Busy /\ req[r].inv = i => ~Owing(req[r])) => invoice[i].paid = Counted(i)
  BY <1>2 DEF BalancedInv, Busy
<1>. QED  BY <1>1, <1>2, <1>3, <1>4 DEF Busy

\* A new payment that counts is owed to its invoice; one that appends text that is
\* no number does not count.
LEMMA BalancedInsert ==
  ASSUME OneSlot, InStepInv, BalancedInv,
         NEW r \in Requests, NEW k \in Payments, InsertPayment(r, k)
  PROVE  BalancedInv'
<1>1. /\ TypeOK /\ r \in Busy /\ InStep(req[r]) /\ KeyInv
  BY PlanAt DEF InStepInv, Step
<1>2. /\ Pays(r, AddPaid(req[r].row.paid, req[r].dto.amount), AddIsValid(req[r].dto.amount))
      /\ UNCHANGED <<invoice, incidents>> /\ req[r].pc = "insertPayment"
  BY <1>1, CountPays DEF InsertPayment, StorePayment, At
<1>3. PICK i \in Invoices, a \in Int : i = req[r].inv /\ a = req[r].dto.amount
  BY <1>2 DEF Pays, Request, Dto
<1>4. req[r].row = invoice[i] /\ req[r].op = "pay"
  BY <1>1, <1>2, <1>3
     DEF InStep, Planned, SendPlan, VoidPlan, EditPlan, PayPlan, CorrectPlan
<1>5. /\ req'[r].inv = i /\ req'[r].op = "pay" /\ req'[r].pc = "save"
      /\ req'[r].row.paid = AddPaid(invoice[i].paid, a) /\ req'[r].valid = AddIsValid(a)
  BY <1>2, <1>3, <1>4 DEF Pays, Request, Row
<1>. SUFFICES ASSUME Undisturbed, NEW j \in Invoices
              PROVE  /\ \A s \in Busy' : req'[s].inv = j /\ Owing(req'[s]) =>
                          req'[s].row.paid = Counted(j)'
                     /\ (\A s \in Busy' : req'[s].inv = j => ~Owing(req'[s])) =>
                          invoice[j].paid = Counted(j)'
  BY <1>2 DEF BalancedInv, Owing, Undisturbed, Uncorrected
<1>6. Counted(j)' = Counted(j) + (IF j = i /\ Counts(a) THEN 1 ELSE 0) /\ Counted(j) \in Nat
  BY <1>1, <1>3, CountedInsert, CountedType
<1>7. \A s \in Requests : s = r
  BY DEF OneSlot
<1>8. invoice[j].paid = Counted(j) /\ invoice[j].paid \in Int
  BY <1>1, <1>2, <1>7 DEF BalancedInv, Busy, Owing, TypeOK, Row
<1>9. r \in Busy'
  BY <1>5 DEF Busy, Idle
<1>10. Owing(req'[r]) <=> AddIsValid(a)
  BY <1>5 DEF Owing
<1>11. CASE AddIsValid(a)
  <2>1. AddPaid(invoice[j].paid, a) = invoice[j].paid + (IF Counts(a) THEN 1 ELSE 0)
    BY <1>8, <1>11, AddPaidCounts
  <2>. QED  BY <1>5, <1>6, <1>7, <1>8, <1>9, <1>10, <1>11, <2>1 DEF Busy
<1>12. CASE ~AddIsValid(a)
  BY <1>6, <1>7, <1>8, <1>10, <1>12 DEF Busy, Counts
<1>. QED  BY <1>11, <1>12

LEMMA BalancedFlush ==
  ASSUME OneSlot, InStepInv, WorthInv, CountInv, BalancedInv, NEW r \in Requests, Flush(r)
  PROVE  BalancedInv'
<1>1. /\ TypeOK /\ r \in Busy /\ req[r] \in Request /\ InStep(req[r])
      /\ req[r].pc = "flush" /\ Planned(req[r])
  BY PlanAt, FlushWrites DEF Step
<1>2. PICK i \in Invoices : i = req[r].inv
  BY <1>1 DEF Request
<1>3. /\ invoice' = [invoice EXCEPT ![i] = req[r].row]
      /\ UNCHANGED <<payments, incidents>> /\ req'[r].pc = "emit"
  BY <1>1, <1>2, FlushWrites DEF Flush, TypeOK, Request
<1>. SUFFICES ASSUME Undisturbed, NEW j \in Invoices
              PROVE  /\ \A s \in Busy' : req'[s].inv = j /\ Owing(req'[s]) =>
                          req'[s].row.paid = Counted(j)'
                     /\ (\A s \in Busy' : req'[s].inv = j => ~Owing(req'[s])) =>
                          invoice'[j].paid = Counted(j)'
  BY <1>3 DEF BalancedInv, Owing, Undisturbed, Uncorrected
<1>4. Counted(j)' = Counted(j)
  BY <1>3, CountedKept DEF PaymentsOf
<1>5. \A s \in Requests : s = r
  BY DEF OneSlot
<1>6. ~Owing(req'[r])
  BY <1>3 DEF Owing
<1>7. req[r].valid /\ req[r].op # "repay"
  BY <1>1 DEF WorthInv, Fits, CountInv, Backed, Undisturbed
<1>8. CASE j = i
  <2>1. CASE req[r].op = "pay"
    BY <1>1, <1>2, <1>3, <1>4, <1>5, <1>6, <1>7, <1>8, <2>1
       DEF BalancedInv, Owing, Busy, TypeOK
  <2>2. CASE req[r].op # "pay"
    <3>1. req[r].row.paid = invoice[i].paid
      <4>1. invoice[i] \in Row
        BY <1>1 DEF TypeOK
      <4>2. SendPlan(req[r]) \/ VoidPlan(req[r]) \/ EditPlan(req[r])
        BY <1>1, <1>7, <2>2 DEF Planned, PayPlan, CorrectPlan
      <4>3. CASE SendPlan(req[r])
        BY <1>2, <4>1, <4>3 DEF SendPlan, Row
      <4>4. CASE VoidPlan(req[r])
        BY <1>2, <4>1, <4>4 DEF VoidPlan, Row
      <4>5. CASE EditPlan(req[r])
        BY <1>2, <4>5 DEF EditPlan
      <4>. QED  BY <4>2, <4>3, <4>4, <4>5
    <3>2. invoice[i].paid = Counted(i)
      BY <1>5, <2>2 DEF BalancedInv, Owing, Busy
    <3>. QED  BY <1>1, <1>3, <1>4, <1>5, <1>6, <1>8, <3>1, <3>2 DEF TypeOK, Busy
  <2>. QED  BY <2>1, <2>2
<1>9. CASE j # i
  <2>1. invoice[j].paid = Counted(j)
    BY <1>2, <1>5, <1>9 DEF BalancedInv, Busy
  <2>. QED  BY <1>1, <1>3, <1>4, <1>5, <1>6, <1>9, <2>1 DEF TypeOK, Busy
<1>. QED  BY <1>8, <1>9

LEMMA BalancedStep ==
  ASSUME OneSlot, InStepInv, WorthInv, CountInv, BalancedInv, NEW r \in Requests, Step(r)
  PROVE  BalancedInv'
<1>1. /\ TypeOK /\ r \in Busy /\ req[r] \in Request /\ req[r].inv \in Invoices
      /\ InStep(req[r])
  BY PlanAt
<1>2. CASE \/ RejectItems(r) \/ RefuseInsert(r) \/ RefuseWrite(r)
           \/ RefuseSave(r) \/ Emit(r)
  <2>1. /\ UNCHANGED <<invoice, payments>> /\ incidents \subseteq incidents'
        /\ req'[r] = Idle
    BY <1>1, <1>2
       DEF RejectItems, RefuseInsert, RefuseWrite, RefuseSave, Emit, Answer, TypeOK
  <2>2. ~Owing(req[r])
    <3>1. CASE RefuseSave(r)
      <4>1. ~req[r].valid \/ LoadsRelations(req[r])
        BY <1>1, <3>1 DEF RefuseSave, Refused, InStep
      <4>. QED  BY <4>1 DEF Owing, LoadsRelations
    <3>2. CASE RejectItems(r) \/ RefuseInsert(r) \/ RefuseWrite(r) \/ Emit(r)
      BY <3>2 DEF RejectItems, RefuseInsert, RefuseWrite, Emit, At, Owing
    <3>. QED  BY <1>2, <3>1, <3>2
  <2>. QED  BY <2>1, <2>2, BalancedQuiet DEF Undisturbed, Uncorrected
<1>3. CASE DeleteItems(r) \/ \E b \in Batches : SaveItems(r, b)
  <2>1. /\ UNCHANGED <<invoice, payments, incidents>>
        /\ req[r].pc \in {"deleteItems", "saveItems"}
        /\ req'[r].op = req[r].op
    BY <1>1, <1>3 DEF DeleteItems, SaveItems, At, TypeOK, Request
  <2>2. req[r].op = "update"
    BY <1>1, <2>1 DEF InStep, Planned, SendPlan, VoidPlan, EditPlan, PayPlan, CorrectPlan
  <2>3. ~Owing(req[r]) /\ ~Owing(req'[r])
    BY <2>1, <2>2 DEF Owing
  <2>. QED  BY <2>1, <2>3, BalancedQuiet DEF Undisturbed, Uncorrected
<1>4. CASE SumPayments(r)
  <2>1. ~Uncorrected /\ UNCHANGED incidents
    BY <1>1, <1>4 DEF SumPayments, At, CountInv, Backed
  <2>. QED  BY <2>1 DEF BalancedInv, Undisturbed, Uncorrected
<1>5. CASE LoadForSave(r)
  <2>1. /\ UNCHANGED <<invoice, payments, incidents>>
        /\ req[r].pc = "save" /\ req'[r].pc = "flush" /\ req'[r].valid = req[r].valid
        /\ req'[r].op = req[r].op /\ req'[r].inv = req[r].inv /\ req'[r].row = req[r].row
    BY <1>1, <1>5 DEF LoadForSave, At, TypeOK, Request
  <2>2. /\ Owing(req'[r]) <=> Owing(req[r])
        /\ req'[r] # Idle
    BY <2>1 DEF Owing, Idle
  <2>. QED  BY <1>1, <2>1, <2>2, BalancedQuiet DEF Undisturbed, Uncorrected
<1>6. CASE FlushNothing(r)
  BY <1>1, <1>6 DEF FlushNothing, InStep
<1>7. CASE \E p \in payments : WritePayment(r, p)
  <2>1. ~Uncorrected'
    BY <1>7 DEF WritePayment, Uncorrected
  <2>. QED  BY <2>1 DEF BalancedInv, Undisturbed
<1>. QED
  BY <1>2, <1>3, <1>4, <1>5, <1>6, <1>7, BalancedInsert, BalancedFlush DEF Step

\* An invoice that is created has no payments yet.
LEMMA BalancedCreate ==
  ASSUME OneSlot, TypeOK, RecordsInv, BalancedInv,
         NEW r \in Requests, NEW i \in Invoices, NEW b \in Batches, NEW t \in Totals,
         Create(r, i, b, t)
  PROVE  BalancedInv'
<1>1. /\ UNCHANGED <<payments, incidents>> /\ ~Stored(i) /\ ~Removed(i) /\ req[r] = Idle
      /\ \A j \in Invoices : j # i => invoice'[j] = invoice[j]
      /\ invoice'[i].paid = 0 /\ req'[r].pc = "emit"
  BY DEF Create, TypeOK
<1>. SUFFICES ASSUME Undisturbed, NEW j \in Invoices
              PROVE  /\ \A s \in Busy' : req'[s].inv = j /\ Owing(req'[s]) =>
                          req'[s].row.paid = Counted(j)'
                     /\ (\A s \in Busy' : req'[s].inv = j => ~Owing(req'[s])) =>
                          invoice'[j].paid = Counted(j)'
  BY <1>1 DEF BalancedInv, Owing, Undisturbed, Uncorrected
<1>2. Counted(j)' = Counted(j)
  BY <1>1, CountedKept DEF PaymentsOf
<1>3. \A s \in Requests : s = r
  BY DEF OneSlot
<1>4. invoice[j].paid = Counted(j)
  BY <1>1, <1>3 DEF BalancedInv, Busy
<1>5. invoice[i].paid = 0
  BY <1>1 DEF RecordsInv, NoRow
<1>6. ~Owing(req'[r])
  BY <1>1 DEF Owing
<1>. QED  BY <1>1, <1>2, <1>3, <1>4, <1>5, <1>6 DEF Busy

\* Removing an organization empties its accounts.
LEMMA BalancedRemove ==
  ASSUME OneSlot, TypeOK, BalancedInv, NEW r \in Requests, NEW o \in Orgs, RemoveOrg(r, o)
  PROVE  BalancedInv'
<1>1. UNCHANGED <<incidents, req>> /\ \A s \in Requests : req[s] = Idle
  BY DEF RemoveOrg, OneSlot
<1>. SUFFICES ASSUME Undisturbed, NEW j \in Invoices PROVE invoice'[j].paid = Counted(j)'
  BY <1>1 DEF BalancedInv, Busy, Undisturbed, Uncorrected
<1>2. invoice[j].paid = Counted(j)
  BY <1>1 DEF BalancedInv, Busy
<1>3. CASE OrgOf[j] = o
  <2>1. invoice'[j].paid = 0
    BY <1>3 DEF RemoveOrg, NoRow
  <2>2. Counting(j)' = {}
    BY <1>3 DEF RemoveOrg, Counting, PaymentsOf
  <2>. QED  BY <2>1, <2>2, CountedIsCounting, FS_EmptySet
<1>4. CASE OrgOf[j] # o
  <2>1. invoice'[j] = invoice[j] /\ PaymentsOf(j)' = PaymentsOf(j)
    BY <1>4 DEF RemoveOrg, PaymentsOf
  <2>. QED  BY <1>2, <2>1, CountedKept
<1>. QED  BY <1>3, <1>4

\* Between two requests amountPaid is exactly a paisa for each payment that counts,
\* as long as no call failed and nothing was corrected: through refused payments,
\* saves the database refuses, edits and removals.
THEOREM BooksCountPaise ==
  ASSUME OneSlot
  PROVE  Spec => []LedgerCountsPaise
<1>1. Init => BalancedInv
  <2>. SUFFICES ASSUME Init PROVE BalancedInv
    OBVIOUS
  <2>1. \A i \in Invoices : Counting(i) = {}
    BY DEF Init, Counting, PaymentsOf
  <2>2. \A i \in Invoices : Counted(i) = 0
    BY <2>1, CountedIsCounting, FS_EmptySet
  <2>. QED  BY <2>2 DEF Init, BalancedInv, NoRow, Busy
<1>2. InStepInv /\ RecordsInv /\ WorthInv /\ CountInv /\ BalancedInv /\ [Next]_vars
        => BalancedInv'
  <2>. SUFFICES ASSUME InStepInv, RecordsInv, WorthInv, CountInv, BalancedInv, [Next]_vars
                PROVE  BalancedInv'
    OBVIOUS
  <2>0. KeyInv /\ TypeOK
    BY DEF InStepInv, KeyInv
  <2>1. ASSUME NEW r \in Requests, Step(r) PROVE BalancedInv'
    BY <2>1, BalancedStep
  <2>2. ASSUME NEW r \in Requests, Call(r) PROVE BalancedInv'
    <3>1. /\ UNCHANGED <<invoice, payments, incidents>> /\ req[r] = Idle
          /\ LoadsRelations(req'[r]) \/ req'[r].pc \in {"insertPayment", "writePayment"}
      BY <2>0, <2>2, PlanCall
    <3>2. ~Owing(req'[r]) /\ r \notin Busy
      BY <3>1 DEF Owing, LoadsRelations, Busy
    <3>. QED  BY <3>1, <3>2, BalancedQuiet DEF Undisturbed, Uncorrected
  <2>3. ASSUME NEW r \in Requests, Abort(r) PROVE BalancedInv'
    BY <2>3 DEF Abort, BalancedInv, Undisturbed
  <2>4. ASSUME NEW r \in Requests, NEW o \in Orgs, RemoveOrg(r, o) PROVE BalancedInv'
    BY <2>0, <2>4, BalancedRemove
  <2>5. ASSUME NEW r \in Requests, NEW i \in Invoices, NEW b \in Batches, NEW t \in Totals,
               Create(r, i, b, t)
        PROVE  BalancedInv'
    BY <2>0, <2>5, BalancedCreate
  <2>6. CASE UNCHANGED vars
    <3>1. \A i \in Invoices : Counted(i)' = Counted(i)
      BY <2>6, CountedKept DEF vars, PaymentsOf
    <3>. QED
      BY <2>6, <3>1 DEF vars, BalancedInv, Busy, Owing, Undisturbed, Uncorrected
  <2>. QED  BY <2>1, <2>2, <2>3, <2>4, <2>5, <2>6 DEF Next
<1>3. BalancedInv => LedgerCountsPaise
  BY DEF BalancedInv, LedgerCountsPaise, Quiet, Busy, Undisturbed
<1>. QED
  BY <1>1, <1>2, <1>3, InStepKept, RecordsKept, WorthKept, CountKept, PTL DEF Spec

-----------------------------------------------------------------------------
\* Strengthening of EventsTellTheStatus: the last event is behind the status only
\* while the handler that wrote it has its event still to emit.
Tells(i) == Stored(i) =>
  /\ heard[i] # "none"
  /\ heard[i] = "send" => invoice[i].status = "sent"
  /\ heard[i] \in {"create", "void"} => invoice[i].status = "draft"

Lifecycle == {"create", "update", "send", "void"}
Announcing(q) == q.pc = "emit" /\ q.op \in Lifecycle

EventsInv ==
  "failure" \notin incidents =>
    /\ \A i \in Invoices : Tells(i) \/ \E r \in Busy : req[r].inv = i /\ Announcing(req[r])
    /\ \A r \in Busy : req[r].pc = "emit" =>
         /\ req[r].op = "send" => invoice[req[r].inv].status = "sent"
         /\ req[r].op \in {"create", "void"} => invoice[req[r].inv].status = "draft"

\* A step of the only slot that neither emits nor is left with something to emit.
LEMMA EventsQuiet ==
  ASSUME OneSlot, EventsInv, NEW r \in Requests, UNCHANGED <<invoice, heard>>,
         incidents \subseteq incidents',
         ~Announcing(req[r]), req'[r].pc # "emit"
  PROVE  EventsInv'
<1>. SUFFICES ASSUME "failure" \notin incidents' PROVE EventsInv'
  BY DEF EventsInv
<1>1. \A i \in Invoices : Tells(i)
  BY DEF EventsInv, OneSlot, Busy
<1>2. \A i \in Invoices : Tells(i)'
  BY <1>1 DEF Tells, Stored
<1>3. \A s \in Requests : req'[s].pc # "emit"
  BY DEF OneSlot
<1>. QED  BY <1>2, <1>3 DEF EventsInv, Busy

LEMMA EventsStep ==
  ASSUME OneSlot, InStepInv, EventsInv, NEW r \in Requests, Step(r)
  PROVE  EventsInv'
<1>1. /\ TypeOK /\ r \in Busy /\ req[r] \in Request /\ req[r].inv \in Invoices
      /\ InStep(req[r]) /\ KeyInv
  BY PlanAt DEF InStepInv
<1>2. \A s \in Busy : s = r
  BY DEF OneSlot, Busy
<1>3. CASE \/ RejectItems(r) \/ RefuseInsert(r) \/ RefuseWrite(r) \/ RefuseSave(r)
  <2>1. /\ UNCHANGED <<invoice, heard>> /\ incidents \subseteq incidents'
        /\ req'[r] = Idle /\ req[r].pc # "emit"
    BY <1>1, <1>3
       DEF RejectItems, RefuseInsert, RefuseWrite, RefuseSave, Answer, At, TypeOK
  <2>. QED  BY <2>1, EventsQuiet DEF Announcing, Idle
<1>4. CASE \/ DeleteItems(r) \/ SumPayments(r) \/ LoadForSave(r)
           \/ \E b \in Batches : SaveItems(r, b)
  <2>1. /\ UNCHANGED <<invoice, heard, incidents>> /\ req[r].pc # "emit"
        /\ req'[r].pc # "emit"
    <3>1. CASE DeleteItems(r)
      BY <1>1, <3>1 DEF DeleteItems, At, TypeOK, Request
    <3>2. CASE SumPayments(r)
      BY <1>1, <3>2, SumPays DEF SumPayments, At, Pays
    <3>3. CASE LoadForSave(r)
      BY <1>1, <3>3 DEF LoadForSave, At, TypeOK, Request
    <3>4. CASE \E b \in Batches : SaveItems(r, b)
      BY <1>1, <3>4 DEF SaveItems, At, TypeOK, Request
    <3>. QED  BY <1>4, <3>1, <3>2, <3>3, <3>4
  <2>. QED  BY <2>1, EventsQuiet DEF Announcing
<1>5. CASE \E k \in Payments : InsertPayment(r, k)
  <2>1. /\ UNCHANGED <<invoice, heard, incidents>> /\ req[r].pc = "insertPayment"
        /\ req'[r].pc = "save"
    BY <1>1, <1>5, CountPays DEF InsertPayment, StorePayment, Pays, At
  <2>. QED  BY <2>1, EventsQuiet DEF Announcing
<1>6. CASE \E p \in payments : WritePayment(r, p)
  <2>1. /\ UNCHANGED <<invoice, heard>> /\ req[r].pc = "writePayment"
        /\ incidents \subseteq incidents' /\ req' = [req EXCEPT ![r].pc = "sumPayments"]
    BY <1>6 DEF WritePayment, At
  <2>2. req'[r].pc = "sumPayments"
    BY <1>1, <2>1 DEF TypeOK, Request
  <2>. QED  BY <2>1, <2>2, EventsQuiet DEF Announcing
<1>7. CASE FlushNothing(r)
  BY <1>1, <1>7 DEF FlushNothing, InStep
<1>8. CASE Flush(r)
  <2>. DEFINE i == req[r].inv
  <2>1. /\ invoice' = [invoice EXCEPT ![i] = req[r].row] /\ UNCHANGED <<heard, incidents>>
        /\ req'[r].pc = "emit" /\ req'[r].op = req[r].op /\ req'[r].inv = i
        /\ req[r].pc = "flush" /\ Planned(req[r])
    BY <1>1, <1>8, FlushWrites DEF Flush, TypeOK, Request
  <2>. SUFFICES ASSUME "failure" \notin incidents PROVE EventsInv'
    BY <2>1 DEF EventsInv
  <2>2. \A j \in Invoices : Tells(j)
    BY <1>2, <2>1 DEF EventsInv, Announcing
  <2>3. invoice \in [Invoices -> Row] /\ invoice[i] \in Row
    BY <1>1 DEF TypeOK
  <2>4. /\ req[r].op = "send" => req[r].row.status = "sent"
        /\ req[r].op = "void" => req[r].row.status = "draft"
        /\ req[r].op \notin Lifecycle => req[r].row.status = invoice[i].status
        /\ req[r].op # "create"
    BY <2>1, <2>3
       DEF Planned, SendPlan, VoidPlan, EditPlan, PayPlan, CorrectPlan, Lifecycle, Row
  <2>5. \A j \in Invoices : j # i \/ req[r].op \notin Lifecycle => Tells(j)'
    BY <1>1, <2>1, <2>2, <2>3, <2>4 DEF Tells, Stored
  <2>6. /\ req'[r].op = "send" => invoice'[req'[r].inv].status = "sent"
        /\ req'[r].op \in {"create", "void"} => invoice'[req'[r].inv].status = "draft"
    BY <1>1, <2>1, <2>3, <2>4
  <2>7. req[r].op \in Lifecycle => Announcing(req[r])' /\ req'[r] # Idle
    BY <2>1 DEF Announcing, Idle
  <2>. QED  BY <2>1, <2>5, <2>6, <2>7 DEF EventsInv, Busy, OneSlot
<1>9. CASE Emit(r)
  <2>. DEFINE i == req[r].inv
  <2>1. /\ UNCHANGED <<invoice, incidents>> /\ req'[r] = Idle /\ req[r].pc = "emit"
        /\ heard' = IF req[r].op \in Lifecycle THEN [heard EXCEPT ![i] = req[r].op] ELSE heard
    BY <1>1, <1>9 DEF Emit, Answer, At, TypeOK, Lifecycle
  <2>. SUFFICES ASSUME "failure" \notin incidents PROVE EventsInv'
    BY <2>1 DEF EventsInv
  <2>2. \A j \in Invoices : Tells(j) \/ (j = i /\ req[r].op \in Lifecycle)
    BY <1>2 DEF EventsInv, Announcing
  <2>3. /\ req[r].op = "send" => invoice[i].status = "sent"
        /\ req[r].op \in {"create", "void"} => invoice[i].status = "draft"
    BY <1>1, <2>1 DEF EventsInv
  <2>4. \A j \in Invoices : Tells(j)'
    BY <1>1, <2>1, <2>2, <2>3 DEF Tells, Stored, Lifecycle, TypeOK
  <2>. QED  BY <2>1, <2>4 DEF EventsInv, Busy, OneSlot, Idle
<1>. QED
  BY <1>3, <1>4, <1>5, <1>6, <1>7, <1>8, <1>9 DEF Step

\* Between two requests, as long as no call failed, the last lifecycle event of a
\* stored invoice names the state it is in.
THEOREM EventsAreTrue ==
  ASSUME OneSlot
  PROVE  Spec => []EventsTellTheStatus
<1>1. Init => EventsInv
  BY DEF Init, EventsInv, Tells, Stored, NoRow, Busy
<1>2. InStepInv /\ EventsInv /\ [Next]_vars => EventsInv'
  <2>. SUFFICES ASSUME InStepInv, EventsInv, [Next]_vars PROVE EventsInv'
    OBVIOUS
  <2>0. KeyInv /\ TypeOK
    BY DEF InStepInv, KeyInv
  <2>1. ASSUME NEW r \in Requests, Step(r) PROVE EventsInv'
    BY <2>1, EventsStep
  <2>2. ASSUME NEW r \in Requests, Call(r) PROVE EventsInv'
    <3>1. /\ UNCHANGED <<invoice, heard, incidents>> /\ req[r] = Idle
          /\ req'[r].pc # "emit"
      BY <2>0, <2>2, PlanCall
    <3>2. ~Announcing(req[r])
      BY <3>1 DEF Announcing, Idle
    <3>. QED  BY <3>1, <3>2, EventsQuiet
  <2>3. ASSUME NEW r \in Requests, Abort(r) PROVE EventsInv'
    BY <2>3 DEF Abort, EventsInv
  <2>4. ASSUME NEW r \in Requests, NEW o \in Orgs, RemoveOrg(r, o) PROVE EventsInv'
    <3>1. Busy = {} /\ UNCHANGED <<req, incidents, heard>>
      BY <2>4 DEF RemoveOrg, Busy, OneSlot
    <3>2. \A i \in Invoices : invoice'[i] = NoRow \/ invoice'[i] = invoice[i]
      BY <2>4 DEF RemoveOrg
    <3>. QED  BY <3>1, <3>2 DEF EventsInv, Busy, Tells, Stored, NoRow
  <2>5. ASSUME NEW r \in Requests, NEW i \in Invoices, NEW b \in Batches, NEW t \in Totals,
               Create(r, i, b, t)
        PROVE  EventsInv'
    <3>1. /\ UNCHANGED <<heard, incidents>> /\ req[r] = Idle
          /\ \A j \in Invoices : j # i => invoice'[j] = invoice[j]
          /\ invoice'[i].status = "draft"
          /\ req'[r].pc = "emit" /\ req'[r].op = "create" /\ req'[r].inv = i
      BY <2>0, <2>5 DEF Create, TypeOK
    <3>2. "failure" \notin incidents => \A j \in Invoices : Tells(j)
      BY <3>1 DEF EventsInv, OneSlot, Busy
    <3>3. \A j \in Invoices : j # i /\ Tells(j) => Tells(j)'
      BY <3>1 DEF Tells, Stored
    <3>4. Announcing(req[r])' /\ req'[r] # Idle
      BY <3>1 DEF Announcing, Lifecycle, Idle
    <3>. QED  BY <3>1, <3>2, <3>3, <3>4 DEF EventsInv, Busy, OneSlot
  <2>6. CASE UNCHANGED vars
    BY <2>6 DEF vars, EventsInv, Busy, Tells, Stored, Announcing
  <2>. QED  BY <2>1, <2>2, <2>3, <2>4, <2>5, <2>6 DEF Next
<1>3. TypeOK /\ EventsInv => EventsTellTheStatus
  BY DEF EventsInv, EventsTellTheStatus, Quiet, Busy, Tells, TypeOK
<1>. QED  BY <1>1, <1>2, <1>3, InStepKept, TypeCorrect, PTL DEF Spec

-----------------------------------------------------------------------------
\* Strengthening of OneItemList: only an update between its two writes leaves an
\* invoice without its list, and every handler that holds a list to save writes back
\* that one list, whatever became of the rows meanwhile.
Itemized(i) == \E x \in items : x.inv = i

OnlyCorrected == incidents \subseteq {"correction"}

Listed(q) ==
  /\ \A x, y \in q.items : x = y
  /\ \A x \in q.items : x.inv = q.inv
  /\ OnlyCorrected /\ LoadsRelations(q) => q.items # {}
  /\ ~LoadsRelations(q) => q.items = {}
  /\ q.pc = "saveItems" => ~Itemized(q.inv)
  /\ q.pc = "flush" =>
       /\ q.add = q.items \ items
       /\ q.drop = IF LoadsRelations(q) THEN ItemsOf(q.inv) \ q.items ELSE {}

Unlisted(i) == \E r \in Busy : req[r].inv = i /\ req[r].pc = "saveItems"

ItemsInv ==
  /\ \A x \in items : Stored(x.inv)
  /\ \A x, y \in items : x.inv = y.inv => x = y
  /\ OnlyCorrected => \A i \in Invoices : Stored(i) => Itemized(i) \/ Unlisted(i)
  /\ \A r \in Busy : req[r].pc # "emit" => Listed(req[r])

\* A step of the only slot that touches no items and leaves the handler idle, or
\* with the list it held.
LEMMA ItemsQuiet ==
  ASSUME OneSlot, ItemsInv, NEW r \in Requests, UNCHANGED <<invoice, items>>,
         OnlyCorrected' => OnlyCorrected, r \in Busy, req[r].pc # "saveItems",
         req'[r] # Idle =>
           /\ req[r].pc # "emit" /\ req'[r].op = req[r].op /\ req'[r].inv = req[r].inv
           /\ req'[r].items = req[r].items
           /\ req'[r].pc \notin {"saveItems", "flush"}
  PROVE  ItemsInv'
<1>1. ~\E s \in Busy : req[s].pc = "saveItems"
  BY DEF OneSlot, Busy
<1>2. OnlyCorrected => \A i \in Invoices : Stored(i) => Itemized(i)
  BY <1>1 DEF ItemsInv, Unlisted
<1>3. OnlyCorrected' => \A i \in Invoices : Stored(i)' => Itemized(i)'
  BY <1>2 DEF Stored, Itemized
<1>4. ASSUME NEW s \in Requests, req'[s] # Idle PROVE Listed(req[s])'
  <2>1. s = r /\ Listed(req[r])
    BY <1>4 DEF OneSlot, ItemsInv
  <2>. QED  BY <1>4, <2>1 DEF Listed, LoadsRelations
<1>5. \A x \in items' : Stored(x.inv)'
  BY DEF ItemsInv, Stored
<1>6. \A x, y \in items' : x.inv = y.inv => x = y
  BY DEF ItemsInv
<1>. QED  BY <1>3, <1>4, <1>5, <1>6 DEF ItemsInv, Busy

LEMMA ItemsStep ==
  ASSUME OneSlot, InStepInv, ItemsInv, NEW r \in Requests, Step(r)
  PROVE  ItemsInv'
<1>1. /\ TypeOK /\ r \in Busy /\ req[r] \in Request /\ req[r].inv \in Invoices
      /\ InStep(req[r]) /\ (req[r].pc # "emit" => Listed(req[r]))
  BY PlanAt DEF ItemsInv
<1>i. PICK i \in Invoices : i = req[r].inv
  BY <1>1
<1>2. \A s \in Requests : s = r
  BY DEF OneSlot
<1>l. /\ \A x \in items : x.inv \in Invoices /\ Stored(x.inv)
      /\ \A x, y \in items : x.inv = y.inv => x = y
  BY <1>1 DEF ItemsInv, TypeOK, ItemRow
<1>m. OnlyCorrected => \A j \in Invoices :
        Stored(j) => Itemized(j) \/ (j = i /\ req[r].pc = "saveItems")
  BY <1>2, <1>i DEF ItemsInv, Unlisted, Busy
<1>3. CASE RefuseInsert(r) \/ RefuseWrite(r) \/ RefuseSave(r) \/ Emit(r)
  <2>1. /\ UNCHANGED <<invoice, items, incidents>> /\ req'[r] = Idle /\ req[r].pc # "saveItems"
    BY <1>1, <1>3 DEF RefuseInsert, RefuseWrite, RefuseSave, Emit, Answer, At, TypeOK
  <2>. QED  BY <1>1, <2>1, ItemsQuiet DEF OnlyCorrected
<1>4. CASE SumPayments(r)
  <2>1. /\ UNCHANGED <<invoice, items, incidents>> /\ req[r].pc = "sumPayments"
        /\ req'[r].op = req[r].op /\ req'[r].inv = req[r].inv /\ req'[r].items = req[r].items
        /\ req'[r].pc = "save"
    BY <1>1, <1>4, SumPays DEF SumPayments, At, Pays
  <2>. QED  BY <1>1, <2>1, ItemsQuiet DEF OnlyCorrected
<1>5. CASE \E k \in Payments : InsertPayment(r, k)
  <2>1. /\ UNCHANGED <<invoice, items, incidents>> /\ req[r].pc = "insertPayment"
        /\ req'[r].op = req[r].op /\ req'[r].inv = req[r].inv /\ req'[r].items = req[r].items
        /\ req'[r].pc = "save"
    BY <1>1, <1>5, CountPays DEF InsertPayment, StorePayment, Pays, At
  <2>. QED  BY <1>1, <2>1, ItemsQuiet DEF OnlyCorrected
<1>6. CASE \E p \in payments : WritePayment(r, p)
  <2>1. /\ UNCHANGED <<invoice, items>> /\ req[r].pc = "writePayment"
        /\ incidents \subseteq incidents' /\ req' = [req EXCEPT ![r].pc = "sumPayments"]
    BY <1>6 DEF WritePayment, At
  <2>2. /\ req'[r].op = req[r].op /\ req'[r].inv = req[r].inv /\ req'[r].items = req[r].items
        /\ req'[r].pc = "sumPayments"
    BY <1>1, <2>1 DEF TypeOK, Request
  <2>. QED  BY <1>1, <2>1, <2>2, ItemsQuiet DEF OnlyCorrected
<1>7. CASE FlushNothing(r)
  BY <1>1, <1>7 DEF FlushNothing, InStep
<1>8. CASE RejectItems(r)
  <2>1. /\ UNCHANGED <<invoice, items>> /\ req'[r] = Idle /\ ~OnlyCorrected'
    BY <1>1, <1>8 DEF RejectItems, Answer, TypeOK, OnlyCorrected
  <2>2. Busy' = {}
    BY <1>2, <2>1 DEF Busy
  <2>. QED  BY <2>1, <2>2 DEF ItemsInv, Stored
<1>9. CASE DeleteItems(r)
  <2>1. /\ UNCHANGED <<invoice, incidents>> /\ items' = {x \in items : x.inv # i}
        /\ req'[r].op = req[r].op /\ req'[r].inv = i /\ req'[r].items = req[r].items
        /\ req[r].pc = "deleteItems" /\ req'[r].pc = "saveItems"
    BY <1>1, <1>9, <1>i DEF DeleteItems, At, TypeOK, Request
  <2>2. \A x : x \in items' <=> x \in items /\ x.inv # i
    BY <2>1
  <2>3. ~Itemized(i)' /\ \A j : j # i => (Itemized(j)' <=> Itemized(j))
    BY <2>2 DEF Itemized
  <2>4. Listed(req[r])'
    BY <1>1, <1>i, <2>1, <2>3 DEF Listed, LoadsRelations, OnlyCorrected
  <2>5. Unlisted(i)'
    BY <2>1 DEF Unlisted, Busy, Idle
  <2>6. \A x \in items' : Stored(x.inv)'
    BY <1>l, <2>1, <2>2 DEF Stored
  <2>7. \A x, y \in items' : x.inv = y.inv => x = y
    BY <1>l, <2>2
  <2>8. ASSUME OnlyCorrected', NEW j \in Invoices, Stored(j)'
        PROVE  Itemized(j)' \/ Unlisted(j)'
    <3>1. CASE j = i
      BY <2>5, <3>1
    <3>2. CASE j # i
      <4>1. Itemized(j)
        BY <1>m, <2>1, <2>8, <3>2 DEF Stored, OnlyCorrected
      <4>. QED  BY <2>3, <3>2, <4>1
    <3>. QED  BY <3>1, <3>2
  <2>. QED  BY <1>2, <2>4, <2>6, <2>7, <2>8 DEF ItemsInv, Busy
<1>10. CASE \E b \in Batches : SaveItems(r, b)
  <2>1. PICK b \in Batches : SaveItems(r, b)
    BY <1>10
  <2>. DEFINE new == [id |-> b, inv |-> i, sum |-> req[r].row.total]
  <2>2. /\ UNCHANGED <<invoice, incidents>> /\ items' = items \cup {new} /\ Stored(i)
        /\ req'[r].op = req[r].op /\ req'[r].inv = i /\ req'[r].items = req[r].items
        /\ req'[r].pc = "save" /\ req[r].pc = "saveItems"
    BY <1>1, <1>i, <2>1 DEF SaveItems, At, TypeOK, Request
  <2>3. new.inv = i
    OBVIOUS
  <2>. HIDE DEF new
  <2>4. \A x \in items : x.inv # i
    BY <1>1, <1>i, <2>2 DEF Listed, Itemized
  <2>5. Listed(req[r])'
    BY <1>1, <1>i, <2>2 DEF Listed, LoadsRelations, OnlyCorrected
  <2>6. \A x \in items' : Stored(x.inv)'
    BY <1>l, <2>2, <2>3 DEF Stored
  <2>7. \A x, y \in items' : x.inv = y.inv => x = y
    BY <1>l, <2>2, <2>3, <2>4
  <2>8. ASSUME OnlyCorrected', NEW j \in Invoices, Stored(j)'
        PROVE  Itemized(j)'
    <3>1. CASE j = i
      BY <2>2, <2>3, <3>1 DEF Itemized
    <3>2. CASE j # i
      <4>1. Itemized(j)
        BY <1>m, <2>2, <2>8, <3>2 DEF Stored, OnlyCorrected
      <4>. QED  BY <2>2, <4>1 DEF Itemized
    <3>. QED  BY <3>1, <3>2
  <2>. QED  BY <1>2, <2>5, <2>6, <2>7, <2>8 DEF ItemsInv, Busy
<1>11. CASE LoadForSave(r)
  <2>1. /\ UNCHANGED <<invoice, items, incidents>> /\ req[r].pc = "save"
        /\ req'[r].op = req[r].op /\ req'[r].inv = req[r].inv /\ req'[r].items = req[r].items
        /\ req'[r].pc = "flush"
        /\ req'[r].add = req[r].items \ items
        /\ req'[r].drop = IF LoadsRelations(req[r]) THEN Lost(r) ELSE {}
    BY <1>1, <1>11 DEF LoadForSave, At, TypeOK, Request
  <2>2. Listed(req[r])'
    BY <1>1, <2>1 DEF Listed, LoadsRelations, Lost, ItemsOf, OnlyCorrected
  <2>3. OnlyCorrected' => \A j \in Invoices : Stored(j)' => Itemized(j)'
    BY <1>m, <2>1 DEF Stored, Itemized, OnlyCorrected
  <2>4. \A x \in items' : Stored(x.inv)'
    BY <1>l, <2>1 DEF Stored
  <2>5. \A x, y \in items' : x.inv = y.inv => x = y
    BY <1>l, <2>1
  <2>. QED  BY <1>2, <2>2, <2>3, <2>4, <2>5 DEF ItemsInv, Busy
<1>12. CASE Flush(r)
  <2>1. /\ invoice' = [invoice EXCEPT ![i] = req[r].row] /\ UNCHANGED incidents
        /\ req[r].row.status # "absent" /\ Stored(i)
        /\ items' = (items \ req[r].drop) \cup req[r].add
        /\ req'[r].op = req[r].op /\ req'[r].inv = i /\ req'[r].items = req[r].items
        /\ req'[r].pc = "emit" /\ req[r].pc = "flush"
    BY <1>1, <1>12, <1>i, FlushWrites DEF Flush, TypeOK, Request
  <2>2. /\ req[r].add = req[r].items \ items
        /\ req[r].drop = IF LoadsRelations(req[r]) THEN ItemsOf(i) \ req[r].items ELSE {}
        /\ \A x, y \in req[r].items : x = y
        /\ \A x \in req[r].items : x.inv = i
        /\ OnlyCorrected /\ LoadsRelations(req[r]) => req[r].items # {}
        /\ ~LoadsRelations(req[r]) => req[r].items = {}
    BY <1>1, <1>i, <2>1 DEF Listed
  <2>3. \A j \in Invoices : Stored(j) => Stored(j)'
    BY <1>1, <2>1 DEF Stored, TypeOK
  <2>m. \A j \in Invoices : Stored(j)' => Stored(j)
    BY <1>1, <2>1 DEF Stored, TypeOK
  <2>4. req'[r].pc = "emit"
    BY <2>1
  <2>5. \A x : x \in items' <=>
          IF x.inv = i /\ LoadsRelations(req[r]) THEN x \in req[r].items ELSE x \in items
    <3>1. CASE LoadsRelations(req[r])
      <4>1. \A x : x \in items' <=> (x \in items /\ ~(x \in items /\ x.inv = i /\ x \notin req[r].items))
                                     \/ (x \in req[r].items /\ x \notin items)
        BY <2>1, <2>2, <3>1 DEF ItemsOf
      <4>. QED  BY <2>2, <3>1, <4>1
    <3>2. CASE ~LoadsRelations(req[r])
      <4>1. items' = items
        BY <2>1, <2>2, <3>2
      <4>. QED  BY <3>2, <4>1
    <3>. QED  BY <3>1, <3>2
  <2>6. \A x \in items' : Stored(x.inv)'
    <3>1. \A x \in items' : x.inv \in Invoices /\ Stored(x.inv)
      BY <1>l, <2>1, <2>5
    <3>. QED  BY <2>3, <3>1 DEF Stored
  <2>7. \A x, y \in items' : x.inv = y.inv => x = y
    BY <1>l, <2>2, <2>5
  <2>8. ASSUME OnlyCorrected', NEW j \in Invoices, Stored(j)'
        PROVE  Itemized(j)'
    <3>1. Itemized(j) /\ OnlyCorrected
      BY <1>m, <2>1, <2>m, <2>8 DEF OnlyCorrected
    <3>2. CASE j = i /\ LoadsRelations(req[r])
      <4>1. PICK x \in req[r].items : x.inv = i
        BY <2>2, <3>1, <3>2
      <4>. QED  BY <2>5, <3>2, <4>1 DEF Itemized
    <3>3. CASE ~(j = i /\ LoadsRelations(req[r]))
      BY <2>5, <3>1, <3>3 DEF Itemized
    <3>. QED  BY <3>2, <3>3
  <2>. QED  BY <1>2, <2>4, <2>6, <2>7, <2>8 DEF ItemsInv, Busy
<1>. QED
  BY <1>3, <1>4, <1>5, <1>6, <1>7, <1>8, <1>9, <1>10, <1>11, <1>12 DEF Step

\* An invoice that is created brings a list of its own.
LEMMA ItemsCreate ==
  ASSUME OneSlot, InStepInv, ItemsInv, NEW r \in Requests,
         NEW i \in Invoices, NEW b \in Batches, NEW t \in Totals, Create(r, i, b, t)
  PROVE  ItemsInv'
<1>. DEFINE new == [id |-> b, inv |-> i, sum |-> t]
<1>1. /\ UNCHANGED incidents /\ items' = items \cup {new} /\ ~Stored(i) /\ Stored(i)'
      /\ \A j \in Invoices : j # i => invoice'[j] = invoice[j]
      /\ req[r] = Idle /\ req'[r].pc = "emit"
  BY DEF Create, InStepInv, KeyInv, TypeOK, Stored
<1>2. new.inv = i
  OBVIOUS
<1>. HIDE DEF new
<1>3. \A x \in items : x.inv \in Invoices /\ Stored(x.inv) /\ x.inv # i
  BY <1>1 DEF InStepInv, KeyInv, TypeOK, ItemRow, ItemsInv
<1>4. \A x \in items' : Stored(x.inv)'
  BY <1>1, <1>2, <1>3 DEF Stored
<1>5. \A x, y \in items' : x.inv = y.inv => x = y
  BY <1>1, <1>2, <1>3 DEF ItemsInv
<1>6. OnlyCorrected' => \A j \in Invoices : Stored(j)' => Itemized(j)'
  <2>1. Itemized(i)'
    BY <1>1, <1>2 DEF Itemized
  <2>2. OnlyCorrected => \A j \in Invoices : Stored(j) => Itemized(j)
    BY <1>1 DEF ItemsInv, Unlisted, Busy, OneSlot
  <2>. QED  BY <1>1, <2>1, <2>2 DEF Itemized, Stored, OnlyCorrected
<1>. QED  BY <1>1, <1>4, <1>5, <1>6 DEF ItemsInv, Busy, OneSlot

\* The call of a handler takes the one list there is.
LEMMA ItemsCall ==
  ASSUME OneSlot, InStepInv, ItemsInv, NEW r \in Requests, Call(r)
  PROVE  ItemsInv'
<1>1. /\ UNCHANGED <<invoice, items, incidents>>
      /\ req[r] = Idle /\ req'[r].inv \in Invoices /\ Stored(req'[r].inv)
      /\ req'[r].pc \notin {"saveItems", "flush"}
      /\ req'[r].items = IF LoadsRelations(req'[r]) THEN ItemsOf(req'[r].inv) ELSE {}
  BY PlanCall DEF InStepInv
<1>2. Busy = {}
  BY <1>1 DEF Busy, OneSlot
<1>3. PICK i \in Invoices : i = req'[r].inv /\ Stored(i)
  BY <1>1
<1>4. \A x : x \in ItemsOf(i) <=> x \in items /\ x.inv = i
  BY DEF ItemsOf
<1>5. OnlyCorrected => \A j \in Invoices : Stored(j) => Itemized(j)
  BY <1>2 DEF ItemsInv, Unlisted
<1>6. /\ \A x, y \in ItemsOf(i) : x = y
      /\ \A x \in ItemsOf(i) : x.inv = i
      /\ OnlyCorrected => ItemsOf(i) # {}
  BY <1>3, <1>4, <1>5 DEF ItemsInv, Itemized
<1>7. Listed(req[r])'
  BY <1>1, <1>3, <1>6 DEF Listed, LoadsRelations, OnlyCorrected
<1>8. \A x \in items' : Stored(x.inv)'
  BY <1>1 DEF ItemsInv, Stored
<1>9. \A x, y \in items' : x.inv = y.inv => x = y
  BY <1>1 DEF ItemsInv
<1>10. OnlyCorrected' => \A j \in Invoices : Stored(j)' => Itemized(j)'
  BY <1>1, <1>5 DEF Stored, Itemized, OnlyCorrected
<1>. QED  BY <1>7, <1>8, <1>9, <1>10 DEF ItemsInv, Busy, OneSlot

\* However an update ends (rejected after it deleted the old list, failed between
\* any two awaits, saved over rows it had just replaced), the invoice is left with
\* one list of items at most, and with one where nothing went wrong; for every
\* OrphanedItems the driver may be configured with.
THEOREM OneListPerInvoice ==
  ASSUME OneSlot
  PROVE  Spec => []OneItemList
<1>1. Init => ItemsInv
  BY DEF Init, ItemsInv, Stored, NoRow, Busy
<1>2. InStepInv /\ ItemsInv /\ [Next]_vars => ItemsInv'
  <2>. SUFFICES ASSUME InStepInv, ItemsInv, [Next]_vars PROVE ItemsInv'
    OBVIOUS
  <2>0. TypeOK
    BY DEF InStepInv, KeyInv
  <2>1. ASSUME NEW r \in Requests, Step(r) PROVE ItemsInv'
    BY <2>1, ItemsStep
  <2>2. ASSUME NEW r \in Requests, Call(r) PROVE ItemsInv'
    BY <2>2, ItemsCall
  <2>3. ASSUME NEW r \in Requests, Abort(r) PROVE ItemsInv'
    <3>1. UNCHANGED <<invoice, items>> /\ req'[r] = Idle /\ ~OnlyCorrected'
      BY <2>0, <2>3 DEF Abort, Answer, TypeOK, OnlyCorrected
    <3>2. Busy' = {}
      BY <3>1 DEF Busy, OneSlot
    <3>. QED  BY <3>1, <3>2 DEF ItemsInv, Stored
  <2>4. ASSUME NEW r \in Requests, NEW o \in Orgs, RemoveOrg(r, o) PROVE ItemsInv'
    <3>1. Busy = {} /\ UNCHANGED <<req, incidents>>
      BY <2>4 DEF RemoveOrg, Busy, OneSlot
    <3>2. \A x \in items' : x \in items /\ OrgOf[x.inv] # o /\ x.inv \in Invoices
      BY <2>0, <2>4 DEF RemoveOrg, TypeOK, ItemRow
    <3>3. \A x \in items' : Stored(x.inv)'
      BY <2>4, <3>2 DEF RemoveOrg, ItemsInv, Stored
    <3>4. \A x, y \in items' : x.inv = y.inv => x = y
      BY <3>2 DEF ItemsInv
    <3>5. ASSUME OnlyCorrected', NEW j \in Invoices, Stored(j)' PROVE Itemized(j)'
      <4>1. Stored(j) /\ OrgOf[j] # o
        BY <2>4, <3>5 DEF RemoveOrg, Stored, NoRow
      <4>2. PICK x \in items : x.inv = j
        BY <3>1, <3>5, <4>1 DEF ItemsInv, Unlisted, Itemized, OnlyCorrected
      <4>. QED  BY <2>4, <4>1, <4>2 DEF RemoveOrg, Itemized
    <3>. QED  BY <3>1, <3>3, <3>4, <3>5 DEF ItemsInv, Busy
  <2>5. ASSUME NEW r \in Requests, NEW i \in Invoices, NEW b \in Batches, NEW t \in Totals,
               Create(r, i, b, t)
        PROVE  ItemsInv'
    BY <2>5, ItemsCreate
  <2>6. CASE UNCHANGED vars
    <3>1. ASSUME NEW r \in Requests, req'[r] # Idle, req'[r].pc # "emit"
          PROVE  Listed(req[r])'
      <4>1. req'[r] = req[r] /\ Listed(req[r]) /\ UNCHANGED <<items, incidents>>
        BY <2>6, <3>1 DEF vars, ItemsInv, Busy
      <4>. QED
        BY <4>1 DEF Listed, LoadsRelations, Itemized, ItemsOf, OnlyCorrected
    <3>2. \A j \in Invoices : Itemized(j) \/ Unlisted(j) => Itemized(j)' \/ Unlisted(j)'
      BY <2>6 DEF vars, Itemized, Unlisted, Busy
    <3>. QED  BY <2>6, <3>1, <3>2 DEF vars, ItemsInv, Busy, Stored, OnlyCorrected
  <2>. QED  BY <2>1, <2>2, <2>3, <2>4, <2>5, <2>6 DEF Next
<1>3. ItemsInv => OneItemList
  <2>. SUFFICES ASSUME ItemsInv, Quiet, NEW i \in Invoices, Stored(i)
                PROVE  Cardinality(ItemsOf(i)) \in (IF OnlyCorrected THEN {1} ELSE {0, 1})
    BY DEF OneItemList, OnlyCorrected
  <2>1. CASE Itemized(i)
    <3>1. PICK x \in items : x.inv = i
      BY <2>1 DEF Itemized
    <3>2. ItemsOf(i) = {x}
      BY <3>1 DEF ItemsInv, ItemsOf
    <3>. QED  BY <3>2, FS_Singleton
  <2>2. CASE ~Itemized(i)
    <3>1. ItemsOf(i) = {}
      BY <2>2 DEF Itemized, ItemsOf
    <3>2. ~OnlyCorrected
      BY <2>2 DEF ItemsInv, Quiet, Unlisted, Busy
    <3>. QED  BY <3>1, <3>2, FS_EmptySet
  <2>. QED  BY <2>1, <2>2
<1>. QED  BY <1>1, <1>2, <1>3, InStepKept, PTL DEF Spec
=============================================================================
