----------------------------- MODULE Compliance -----------------------------
(***************************************************************************)
(* ComplianceService: e-way bills and GSTR filings.  Each awaited call is  *)
(* a step; what follows the last one (the event, the conversion to a       *)
(* response) happens in the same step as it.                               *)
(***************************************************************************)

CONSTANTS
  Orgs,       \* organizations that exist at first
  Invoices,   \* their invoices
  Bills,      \* primary keys of e-way bills
  Numbers,    \* e-way bill numbers
  Periods,    \* organization, type and period of a filing
  OrgOf,      \* the organization of an invoice or a period
  Requests,   \* request slots
  Vehicles,   \* may bills carry vehicle details
  Failures    \* may an awaited call fail, or the process die

ASSUME OrgOfIsFunction == OrgOf \in [Invoices \cup Periods -> Orgs]
ASSUME VehiclesIsBoolean == Vehicles \in BOOLEAN
ASSUME FailuresIsBoolean == Failures \in BOOLEAN

VARIABLES
  bills,     \* the eway_bills table
  filings,   \* the gstr_filings table
  gone,      \* organizations that were removed
  req,       \* the request in each slot
  answer,    \* history: the status the last step answered with, or "none"
  overlapped \* history: have requests overlapped

vars == <<bills, filings, gone, req, answer, overlapped>>

Statuses == {"pending", "filed", "error"}

\* vehicle: does vehicleDetails hold a transporterDocDate.
BillRow == [id : Bills, inv : Invoices, number : Numbers, vehicle : BOOLEAN]
Filing  == [key : Periods, status : Statuses, filedAt : BOOLEAN]

\* The body of an update is not validated: its status may be no status at all.
Body    == [key : Periods, status : Statuses \cup {"other"}, filedAt : BOOLEAN]

\* The columns of a bill an update may write.
BillColumns == {"inv", "number", "vehicle"}

Idle == [pc |-> "idle"]
Handler ==
       [pc : {"checkNumber", "insertBill"}, bill : BillRow]
  \cup [pc : {"saveBill", "flushBill"}, bill : BillRow, diff : SUBSET BillColumns]
  \cup [pc : {"insertFiling"}, filing : Body]
  \cup [pc : {"saveFiling", "flushFiling"}, filing : Body, diff : SUBSET {"status", "filedAt"}]

Init ==
  /\ bills = {} /\ filings = {} /\ gone = {}
  /\ req = [r \in Requests |-> Idle]
  /\ answer = "none"
  /\ overlapped = FALSE

\* A step of the handler in slot r.
NoteOverlap(r) == overlapped' = (overlapped \/ \E q \in Requests \ {r} : req[q] # Idle)

At(r, stage)   == req[r].pc = stage
Goto(r, state) ==
  /\ req' = [req EXCEPT ![r] = state] /\ NoteOverlap(r) /\ answer' = "none"
  /\ UNCHANGED gone
Answer(r, a)   ==
  /\ req' = [req EXCEPT ![r] = Idle] /\ NoteOverlap(r) /\ answer' = a
  /\ UNCHANGED gone

\* The cascade of a removed organization takes its invoices, bills and filings.
Stands(x) == OrgOf[x] \notin gone

HasBill(r) == req[r].pc \in {"checkNumber", "insertBill", "saveBill", "flushBill"}

FreshBill(b) ==
  /\ \A x \in bills : x.id # b
  /\ \A r \in Requests : HasBill(r) => req[r].bill.id # b

\* Mutant: the date is converted whether or not there is one.
RespondWithDate(r, status, vehicle) == Answer(r, "500")

\* toEwayBillResponseDto calls toISOString on the date; the DTO and the jsonb
\* column both hold it as text, which has no such method: the handler throws.
Respond(r, status, vehicle) == Answer(r, IF vehicle THEN "500" ELSE status)

-----------------------------------------------------------------------------
\* createEwayBill: the invoice is there, the number is looked up next.
CreateBill(r, b, i, n, v) ==
  /\ req[r] = Idle /\ FreshBill(b) /\ Stands(i)
  /\ Goto(r, [pc |-> "checkNumber", bill |-> [id |-> b, inv |-> i, number |-> n, vehicle |-> v]])
  /\ UNCHANGED <<bills, filings>>

CheckNumber(r) ==
  /\ At(r, "checkNumber")
  /\ IF \E x \in bills : x.number = req[r].bill.number
     THEN Answer(r, "400") ELSE Goto(r, [req[r] EXCEPT !.pc = "insertBill"])
  /\ UNCHANGED <<bills, filings>>

\* Mutant: the invoice is not referenced.
BillIsTaken(b) == \E x \in bills : x.id = b.id \/ x.number = b.number \/ x.inv = b.inv

\* The unique columns of eway_bills and its reference to the invoice.
BillIsRefused(b) ==
  ~Stands(b.inv) \/ \E x \in bills : x.id = b.id \/ x.number = b.number \/ x.inv = b.inv

InsertBill(r) ==
  /\ At(r, "insertBill")
  /\ IF BillIsRefused(req[r].bill)
     THEN bills' = bills /\ Answer(r, "500")
     ELSE bills' = bills \cup {req[r].bill} /\ Respond(r, "201", req[r].bill.vehicle)
  /\ UNCHANGED filings

\* updateEwayBill reads a bill and assigns what the body carries.  The body is not
\* validated: it may take the vehicle details back, an ewbId in it is the bill that
\* save() looks for, and an invoice is the one referenced from then on (a mere
\* invoiceId loses to the invoice that was read with the bill).
FindBill(r, b, i, n, v) ==
  /\ req[r] = Idle /\ bills # {}
  /\ FreshBill(b) \/ \E x \in bills : x.id = b
  /\ Goto(r, [pc |-> "saveBill", diff |-> {},
              bill |-> [id |-> b, inv |-> i, number |-> n, vehicle |-> v]])
  /\ UNCHANGED <<bills, filings>>

StoredBill(r) == {x \in bills : x.id = req[r].bill.id}

\* save() reads the row again and works out the columns that differ; without a row
\* it inserts ...
LoadBill(r) ==
  /\ At(r, "saveBill")
  /\ Goto(r, IF StoredBill(r) = {} THEN [pc |-> "insertBill", bill |-> req[r].bill]
             ELSE [req[r] EXCEPT !.pc = "flushBill",
                     !.diff = {c \in BillColumns : \E x \in StoredBill(r) : req[r].bill[c] # x[c]}])
  /\ UNCHANGED <<bills, filings>>

\* ... and writes those, to no row if it is gone by now.  The number or the invoice
\* of another bill is refused, and so is an invoice that is gone.
FlushBill(r) ==
  LET others == bills \ StoredBill(r)
      new == {[x EXCEPT !.inv = IF "inv" \in req[r].diff THEN req[r].bill.inv ELSE @,
                        !.number = IF "number" \in req[r].diff THEN req[r].bill.number ELSE @,
                        !.vehicle = IF "vehicle" \in req[r].diff THEN req[r].bill.vehicle ELSE @]
                : x \in StoredBill(r)}
  IN  /\ At(r, "flushBill")
      /\ IF \E y \in new : ~Stands(y.inv) \/ \E x \in others : x.number = y.number \/ x.inv = y.inv
         THEN bills' = bills /\ Answer(r, "500")
         ELSE bills' = others \cup new /\ Respond(r, "200", req[r].bill.vehicle)
      /\ UNCHANGED filings

\* getEwayBillByInvoice.
ListBills(r, i) ==
  /\ req[r] = Idle /\ Stands(i)
  /\ Respond(r, "200", \E b \in bills : b.inv = i /\ b.vehicle)
  /\ UNCHANGED <<bills, filings>>

-----------------------------------------------------------------------------
\* generateGstr.
FindFiling(r, k) ==
  /\ req[r] = Idle
  /\ IF \E f \in filings : f.key = k
     THEN Answer(r, "400")
     ELSE Goto(r, [pc |-> "insertFiling",
                   filing |-> [key |-> k, status |-> "pending", filedAt |-> FALSE]])
  /\ UNCHANGED <<bills, filings>>

\* Mutant: the column takes any text.
AnyStatus(s) == FALSE

\* The enum type of the status column.
StatusIsRefused(s) == s \notin Statuses

\* Mutant: several rows of one key.
FilingOfNobody(f) == StatusIsRefused(f.status) \/ ~Stands(f.key)

\* The columns of gstr_filings: status, organization, unique (organizationId, type, period).
FilingIsRefused(f) ==
  StatusIsRefused(f.status) \/ ~Stands(f.key) \/ \E g \in filings : g.key = f.key

InsertFiling(r) ==
  /\ At(r, "insertFiling")
  /\ IF FilingIsRefused(req[r].filing)
     THEN filings' = filings /\ Answer(r, "500")
     ELSE filings' = filings \cup {req[r].filing} /\ Answer(r, "201")
  /\ UNCHANGED bills

\* Mutant: a body without filedAt clears it.
AssignFiledAt(r, s, dated) ==
  /\ req[r] = Idle
  /\ \E f \in filings :
       Goto(r, [pc |-> "saveFiling", diff |-> {}, filing |-> [f EXCEPT !.status = s, !.filedAt = dated]])
  /\ UNCHANGED <<bills, filings>>

\* updateGstrFiling: the status always, filedAt only when the body has one.
FindForFiling(r, s, dated) ==
  /\ req[r] = Idle
  /\ \E f \in filings :
       Goto(r, [pc |-> "saveFiling", diff |-> {},
                filing |-> [f EXCEPT !.status = s, !.filedAt = @ \/ dated]])
  /\ UNCHANGED <<bills, filings>>

StoredFiling(r) == {f \in filings : f.key = req[r].filing.key}

LoadFiling(r) ==
  /\ At(r, "saveFiling")
  /\ Goto(r, IF StoredFiling(r) = {} THEN [pc |-> "insertFiling", filing |-> req[r].filing]
             ELSE [req[r] EXCEPT !.pc = "flushFiling",
                     !.diff = {c \in {"status", "filedAt"} :
                                 \E f \in StoredFiling(r) : req[r].filing[c] # f[c]}])
  /\ UNCHANGED <<bills, filings>>

FlushFiling(r) ==
  LET new == {[f EXCEPT !.status = IF "status" \in req[r].diff THEN req[r].filing.status ELSE @,
                        !.filedAt = IF "filedAt" \in req[r].diff THEN req[r].filing.filedAt ELSE @]
                : f \in StoredFiling(r)}
  IN  /\ At(r, "flushFiling")
      /\ IF \E f \in new : StatusIsRefused(f.status)
         THEN filings' = filings /\ Answer(r, "500")
         ELSE filings' = (filings \ StoredFiling(r)) \cup new /\ Answer(r, "200")
      /\ UNCHANGED bills

-----------------------------------------------------------------------------
\* OrganizationsService.remove, as far as it reaches these tables; an update of
\* the organization that saves it back is in Registry.  A removal the database
\* refuses rolls back and changes nothing.
RemoveOrg(r, o) ==
  /\ req[r] = Idle /\ o \notin gone
  /\ gone' = gone \cup {o}
  /\ bills' = {b \in bills : OrgOf[b.inv] # o}
  /\ filings' = {f \in filings : OrgOf[f.key] # o}
  /\ answer' = "200" /\ NoteOverlap(r)
  /\ UNCHANGED req

\* What is written holds a value its column does not take (no timestamp, too long a
\* text, null): the statement is refused and nothing is stored.
RefuseValue(r) ==
  /\ req[r].pc \in {"insertBill", "flushBill", "insertFiling", "flushFiling"}
  /\ Answer(r, "500")
  /\ UNCHANGED <<bills, filings>>

\* A call fails or the process dies.
Abort(r) ==
  /\ Failures /\ req[r] # Idle
  /\ Answer(r, "none")
  /\ UNCHANGED <<bills, filings>>

Next == \E r \in Requests :
  \/ \E b \in Bills, i \in Invoices, n \in Numbers, v \in {FALSE, Vehicles} : CreateBill(r, b, i, n, v)
  \/ CheckNumber(r) \/ InsertBill(r)
  \/ \E b \in Bills, i \in Invoices, n \in Numbers, v \in {FALSE, Vehicles} : FindBill(r, b, i, n, v)
  \/ LoadBill(r) \/ FlushBill(r)
  \/ \E i \in Invoices : ListBills(r, i)
  \/ \E k \in Periods : FindFiling(r, k)
  \/ InsertFiling(r)
  \/ \E s \in Statuses \cup {"other"}, dated \in BOOLEAN : FindForFiling(r, s, dated)
  \/ LoadFiling(r) \/ FlushFiling(r)
  \/ \E o \in Orgs : RemoveOrg(r, o)
  \/ RefuseValue(r) \/ Abort(r)

Spec == Init /\ [][Next]_vars

-----------------------------------------------------------------------------
\* Rows, handlers and answers have the declared shape.
TypeOK ==
  /\ bills \subseteq BillRow /\ filings \subseteq Filing /\ gone \subseteq Orgs
  /\ req \in [Requests -> {Idle} \cup Handler]
  /\ answer \in {"none", "200", "201", "400", "500"}
  /\ overlapped \in BOOLEAN

\* Whatever overlaps: an invoice has one e-way bill, a number is one bill's,
\* although createEwayBill looks before it inserts and updateEwayBill not at all;
\* and no bill outlives its invoice, although handlers keep on with either.
BillsAreConsistent ==
  /\ \A x, y \in bills : x.id = y.id \/ x.number = y.number \/ x.inv = y.inv => x = y
  /\ \A x \in bills : Stands(x.inv)

\* Whatever overlaps: one filing for each organization, type and period, which
\* generateGstr looks for before it inserts; and none of a removed organization,
\* which it does not look for.
FilingsAreConsistent ==
  /\ \A f, g \in filings : f.key = g.key => f = g
  /\ \A f \in filings : Stands(f.key)

\* While requests do not overlap, whatever fails: once a filing has its filedAt,
\* no later update of its status takes it away.
FiledDateKept ==
  [][~overlapped' =>
       \A f \in filings : f.filedAt /\ OrgOf[f.key] \notin gone' =>
         \E g \in filings' : g.key = f.key /\ g.filedAt]_vars

\* compliance.controller.ts answers a stored bill with 201 'E-Way Bill created'.
\* While requests do not overlap, only the date of vehicle details keeps the code
\* from it: a creation or an update of a bill without them never stores its row
\* and answers with an error.
StoredBillIsAnswered ==
  [][~overlapped' /\ answer' \in {"400", "500"} => \A b \in bills' \ bills : b.vehicle]_vars
=============================================================================
