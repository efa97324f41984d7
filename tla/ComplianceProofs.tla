-------------------------- MODULE ComplianceProofs --------------------------
(***************************************************************************)
(* Theorems about Compliance, for every set of invoices, periods and       *)
(* organizations and any number of overlapping requests.                   *)
(***************************************************************************)
EXTENDS Compliance, TLAPS

-----------------------------------------------------------------------------
\* What a handler holds at each stage.
BillStages   == {"checkNumber", "insertBill", "saveBill", "flushBill"}
FilingStages == {"insertFiling", "saveFiling", "flushFiling"}

LEMMA HeldBill ==
  ASSUME TypeOK, NEW r \in Requests, req[r].pc \in BillStages
  PROVE  /\ req[r].bill \in BillRow
         /\ req[r].pc \in {"checkNumber", "insertBill"} =>
              req[r] \in [pc : {"checkNumber", "insertBill"}, bill : BillRow]
         /\ req[r].pc \in {"saveBill", "flushBill"} =>
              req[r] \in [pc : {"saveBill", "flushBill"}, bill : BillRow,
                          diff : SUBSET BillColumns]
BY DEF TypeOK, Handler, Idle, BillStages

LEMMA HeldFiling ==
  ASSUME TypeOK, NEW r \in Requests, req[r].pc \in FilingStages
  PROVE  /\ req[r].filing \in Body
         /\ req[r].pc = "insertFiling" => req[r] \in [pc : {"insertFiling"}, filing : Body]
         /\ req[r].pc \in {"saveFiling", "flushFiling"} =>
              req[r] \in [pc : {"saveFiling", "flushFiling"}, filing : Body,
                          diff : SUBSET {"status", "filedAt"}]
BY DEF TypeOK, Handler, Idle, FilingStages

\* A handler that goes on, or ends, leaves everything but the tables typed.
LEMMA GotoType ==
  ASSUME TypeOK, NEW r \in Requests, NEW state \in Handler, Goto(r, state)
  PROVE  /\ req' \in [Requests -> {Idle} \cup Handler]
         /\ answer' \in {"none", "200", "201", "400", "500"}
         /\ overlapped' \in BOOLEAN /\ gone' \subseteq Orgs
BY DEF TypeOK, Goto, NoteOverlap

LEMMA AnswerType ==
  ASSUME TypeOK, NEW r \in Requests,
         NEW a \in {"none", "200", "201", "400", "500"}, Answer(r, a)
  PROVE  /\ req' \in [Requests -> {Idle} \cup Handler]
         /\ answer' \in {"none", "200", "201", "400", "500"}
         /\ overlapped' \in BOOLEAN /\ gone' \subseteq Orgs
BY DEF TypeOK, Answer, NoteOverlap

LEMMA RespondType ==
  ASSUME TypeOK, NEW r \in Requests, NEW a \in {"200", "201"}, NEW v, Respond(r, a, v)
  PROVE  /\ req' \in [Requests -> {Idle} \cup Handler]
         /\ answer' \in {"none", "200", "201", "400", "500"}
         /\ overlapped' \in BOOLEAN /\ gone' \subseteq Orgs
BY AnswerType DEF Respond

-----------------------------------------------------------------------------
\* The columns save() writes: those that differ, into the row that is stored.
NewBills(r) ==
  {[x EXCEPT !.inv = IF "inv" \in req[r].diff THEN req[r].bill.inv ELSE @,
             !.number = IF "number" \in req[r].diff THEN req[r].bill.number ELSE @,
             !.vehicle = IF "vehicle" \in req[r].diff THEN req[r].bill.vehicle ELSE @]
     : x \in StoredBill(r)}

NewFilings(r) ==
  {[f EXCEPT !.status = IF "status" \in req[r].diff THEN req[r].filing.status ELSE @,
             !.filedAt = IF "filedAt" \in req[r].diff THEN req[r].filing.filedAt ELSE @]
     : f \in StoredFiling(r)}

\* A bill that is written keeps its key.
LEMMA WrittenBill ==
  ASSUME TypeOK, NEW r \in Requests, At(r, "flushBill"), NEW y \in NewBills(r)
  PROVE  y \in BillRow /\ \E x \in StoredBill(r) : y.id = x.id
<1>1. req[r].bill \in BillRow
  BY HeldBill DEF At, BillStages
<1>2. PICK x \in StoredBill(r) :
        y = [x EXCEPT !.inv = IF "inv" \in req[r].diff THEN req[r].bill.inv ELSE @,
                      !.number = IF "number" \in req[r].diff THEN req[r].bill.number ELSE @,
                      !.vehicle = IF "vehicle" \in req[r].diff THEN req[r].bill.vehicle ELSE @]
  BY DEF NewBills
<1>3. x \in BillRow
  BY DEF StoredBill, TypeOK
<1>. QED  BY <1>1, <1>2, <1>3 DEF BillRow

\* A filing that is written keeps its key; its date goes only with the entity's.
LEMMA WrittenFiling ==
  ASSUME TypeOK, NEW r \in Requests, At(r, "flushFiling"), NEW f \in StoredFiling(r)
  PROVE  \E g \in NewFilings(r) :
           /\ g \in [key : Periods, status : Statuses \cup {"other"}, filedAt : BOOLEAN]
           /\ g.key = f.key
           /\ f.filedAt /\ req[r].filing.filedAt => g.filedAt
<1>1. req[r].filing \in Body
  BY HeldFiling DEF At, FilingStages
<1>2. f \in Filing
  BY DEF StoredFiling, TypeOK
<1> DEFINE g == [f EXCEPT !.status = IF "status" \in req[r].diff THEN req[r].filing.status ELSE @,
                          !.filedAt = IF "filedAt" \in req[r].diff THEN req[r].filing.filedAt ELSE @]
<1>3. g \in NewFilings(r)
  BY DEF NewFilings
<1>4. g \in [key : Periods, status : Statuses \cup {"other"}, filedAt : BOOLEAN] /\ g.key = f.key
  BY <1>1, <1>2 DEF Body, Filing
<1>5. f.filedAt /\ req[r].filing.filedAt => g.filedAt
  BY <1>2 DEF Filing
<1>. QED  BY <1>3, <1>4, <1>5

LEMMA WrittenFilings ==
  ASSUME TypeOK, NEW r \in Requests, At(r, "flushFiling"), NEW g \in NewFilings(r)
  PROVE  /\ g \in [key : Periods, status : Statuses \cup {"other"}, filedAt : BOOLEAN]
         /\ g.key = req[r].filing.key
<1>1. req[r].filing \in Body
  BY HeldFiling DEF At, FilingStages
<1>2. PICK f \in StoredFiling(r) :
        g = [f EXCEPT !.status = IF "status" \in req[r].diff THEN req[r].filing.status ELSE @,
                      !.filedAt = IF "filedAt" \in req[r].diff THEN req[r].filing.filedAt ELSE @]
  BY DEF NewFilings
<1>3. f \in Filing /\ f.key = req[r].filing.key
  BY DEF StoredFiling, TypeOK
<1>. QED  BY <1>1, <1>2, <1>3 DEF Body, Filing

-----------------------------------------------------------------------------
LEMMA TypeStep ==
  ASSUME TypeOK, [Next]_vars
  PROVE  TypeOK'
<1>1. CASE UNCHANGED vars
  BY <1>1 DEF TypeOK, vars
<1>2. CASE Next
  <2> SUFFICES ASSUME NEW r \in Requests,
        \/ \E b \in Bills, i \in Invoices, n \in Numbers, v \in {FALSE, Vehicles} :
             CreateBill(r, b, i, n, v)
        \/ CheckNumber(r) \/ InsertBill(r)
        \/ \E b \in Bills, i \in Invoices, n \in Numbers, v \in {FALSE, Vehicles} :
             FindBill(r, b, i, n, v)
        \/ LoadBill(r) \/ FlushBill(r)
        \/ \E i \in Invoices : ListBills(r, i)
        \/ \E k \in Periods : FindFiling(r, k)
        \/ InsertFiling(r)
        \/ \E s \in Statuses \cup {"other"}, dated \in BOOLEAN : FindForFiling(r, s, dated)
        \/ LoadFiling(r) \/ FlushFiling(r)
        \/ \E o \in Orgs : RemoveOrg(r, o)
        \/ RefuseValue(r) \/ Abort(r)
      PROVE TypeOK'
    BY <1>2 DEF Next
  <2>1. ASSUME NEW b \in Bills, NEW i \in Invoices, NEW n \in Numbers,
               NEW v \in {FALSE, Vehicles}, CreateBill(r, b, i, n, v)
        PROVE  TypeOK'
    <3> DEFINE h == [pc |-> "checkNumber",
                     bill |-> [id |-> b, inv |-> i, number |-> n, vehicle |-> v]]
    <3>1. h \in Handler
      BY VehiclesIsBoolean DEF Handler, BillRow
    <3>2. Goto(r, h) /\ UNCHANGED <<bills, filings>>
      BY <2>1 DEF CreateBill
    <3> HIDE DEF h
    <3>. QED  BY <3>1, <3>2, GotoType DEF TypeOK
  <2>2. CASE CheckNumber(r)
    <3>1. At(r, "checkNumber") /\ req[r].pc \in BillStages /\ UNCHANGED <<bills, filings>>
      BY <2>2 DEF CheckNumber, At, BillStages
    <3>2. [req[r] EXCEPT !.pc = "insertBill"] \in Handler
      BY <3>1, HeldBill DEF At, Handler
    <3>3. Answer(r, "400") \/ Goto(r, [req[r] EXCEPT !.pc = "insertBill"])
      BY <2>2 DEF CheckNumber
    <3>. QED  BY <3>1, <3>2, <3>3, GotoType, AnswerType DEF TypeOK
  <2>3. CASE InsertBill(r)
    <3>1. req[r].bill \in BillRow
      BY <2>3, HeldBill DEF InsertBill, At, BillStages
    <3>2. bills' \subseteq BillRow /\ UNCHANGED filings
      BY <2>3, <3>1 DEF InsertBill, TypeOK
    <3>3. Answer(r, "500") \/ Respond(r, "201", req[r].bill.vehicle)
      BY <2>3 DEF InsertBill
    <3>. QED  BY <3>2, <3>3, AnswerType, RespondType DEF TypeOK
  <2>4. ASSUME NEW b \in Bills, NEW i \in Invoices, NEW n \in Numbers,
               NEW v \in {FALSE, Vehicles}, FindBill(r, b, i, n, v)
        PROVE  TypeOK'
    <3> DEFINE h == [pc |-> "saveBill", diff |-> {},
                     bill |-> [id |-> b, inv |-> i, number |-> n, vehicle |-> v]]
    <3>1. h \in Handler
      BY VehiclesIsBoolean DEF Handler, BillRow
    <3>2. Goto(r, h) /\ UNCHANGED <<bills, filings>>
      BY <2>4 DEF FindBill
    <3> HIDE DEF h
    <3>. QED  BY <3>1, <3>2, GotoType DEF TypeOK
  <2>5. CASE LoadBill(r)
    <3> DEFINE ins == [pc |-> "insertBill", bill |-> req[r].bill]
               cols == {c \in BillColumns : \E x \in StoredBill(r) : req[r].bill[c] # x[c]}
               upd == [req[r] EXCEPT !.pc = "flushBill", !.diff = cols]
    <3>1. /\ req[r].bill \in BillRow
          /\ req[r] \in [pc : {"saveBill", "flushBill"}, bill : BillRow,
                         diff : SUBSET BillColumns]
      BY <2>5, HeldBill DEF LoadBill, At, BillStages
    <3>2. ins \in Handler
      BY <3>1 DEF Handler
    <3>3. upd \in Handler
      <4> cols \in SUBSET BillColumns
        OBVIOUS
      <4> HIDE DEF cols
      <4>. QED  BY <3>1 DEF Handler
    <3>4. (Goto(r, ins) \/ Goto(r, upd)) /\ UNCHANGED <<bills, filings>>
      BY <2>5 DEF LoadBill
    <3> HIDE DEF ins, upd
    <3>. QED  BY <3>2, <3>3, <3>4, GotoType DEF TypeOK
  <2>6. CASE FlushBill(r)
    <3>1. At(r, "flushBill") /\ UNCHANGED filings
      BY <2>6 DEF FlushBill
    <3>2. bills' = bills \/ bills' = (bills \ StoredBill(r)) \cup NewBills(r)
      BY <2>6 DEF FlushBill, NewBills
    <3>3. bills' \subseteq BillRow
      BY <3>1, <3>2, WrittenBill DEF TypeOK
    <3>4. Answer(r, "500") \/ Respond(r, "200", req[r].bill.vehicle)
      BY <2>6 DEF FlushBill
    <3>. QED  BY <3>1, <3>3, <3>4, AnswerType, RespondType DEF TypeOK
  <2>7. ASSUME NEW i \in Invoices, ListBills(r, i)
        PROVE  TypeOK'
    BY <2>7, RespondType DEF ListBills, TypeOK
  <2>8. ASSUME NEW k \in Periods, FindFiling(r, k)
        PROVE  TypeOK'
    <3> DEFINE h == [pc |-> "insertFiling",
                     filing |-> [key |-> k, status |-> "pending", filedAt |-> FALSE]]
    <3>1. h \in Handler
      BY DEF Handler, Body, Statuses
    <3>2. (Answer(r, "400") \/ Goto(r, h)) /\ UNCHANGED <<bills, filings>>
      BY <2>8 DEF FindFiling
    <3> HIDE DEF h
    <3>. QED  BY <3>1, <3>2, GotoType, AnswerType DEF TypeOK
  <2>9. CASE InsertFiling(r)
    <3>1. req[r].filing \in Body
      BY <2>9, HeldFiling DEF InsertFiling, At, FilingStages
    <3>2. filings' \subseteq Filing /\ UNCHANGED bills
      BY <2>9, <3>1 DEF InsertFiling, FilingIsRefused, StatusIsRefused, TypeOK, Body, Filing
    <3>3. Answer(r, "500") \/ Answer(r, "201")
      BY <2>9 DEF InsertFiling
    <3>. QED  BY <3>2, <3>3, AnswerType DEF TypeOK
  <2>10. ASSUME NEW s \in Statuses \cup {"other"}, NEW dated \in BOOLEAN, FindForFiling(r, s, dated)
         PROVE  TypeOK'
    <3>1. PICK f \in filings : Goto(r, [pc |-> "saveFiling", diff |-> {},
                          filing |-> [f EXCEPT !.status = s, !.filedAt = @ \/ dated]])
      BY <2>10 DEF FindForFiling
    <3> DEFINE h == [pc |-> "saveFiling", diff |-> {},
                     filing |-> [f EXCEPT !.status = s, !.filedAt = @ \/ dated]]
    <3>2. [f EXCEPT !.status = s, !.filedAt = @ \/ dated] \in Body
      BY DEF TypeOK, Filing, Body
    <3>3. h \in Handler
      BY <3>2 DEF Handler
    <3>4. Goto(r, h) /\ UNCHANGED <<bills, filings>>
      BY <2>10, <3>1 DEF FindForFiling
    <3> HIDE DEF h
    <3>. QED  BY <3>3, <3>4, GotoType DEF TypeOK
  <2>11. CASE LoadFiling(r)
    <3> DEFINE ins == [pc |-> "insertFiling", filing |-> req[r].filing]
               cols == {c \in {"status", "filedAt"} : \E f \in StoredFiling(r) : req[r].filing[c] # f[c]}
               upd == [req[r] EXCEPT !.pc = "flushFiling", !.diff = cols]
    <3>1. /\ req[r].filing \in Body
          /\ req[r] \in [pc : {"saveFiling", "flushFiling"}, filing : Body,
                         diff : SUBSET {"status", "filedAt"}]
      BY <2>11, HeldFiling DEF LoadFiling, At, FilingStages
    <3>2. ins \in Handler
      BY <3>1 DEF Handler
    <3>3. upd \in Handler
      <4> cols \in SUBSET {"status", "filedAt"}
        OBVIOUS
      <4> HIDE DEF cols
      <4>. QED  BY <3>1 DEF Handler
    <3>4. (Goto(r, ins) \/ Goto(r, upd)) /\ UNCHANGED <<bills, filings>>
      BY <2>11 DEF LoadFiling
    <3> HIDE DEF ins, upd
    <3>. QED  BY <3>2, <3>3, <3>4, GotoType DEF TypeOK
  <2>12. CASE FlushFiling(r)
    <3>1. At(r, "flushFiling") /\ UNCHANGED bills
      BY <2>12 DEF FlushFiling
    <3>2. \/ filings' = filings
          \/ /\ filings' = (filings \ StoredFiling(r)) \cup NewFilings(r)
             /\ \A g \in NewFilings(r) : ~StatusIsRefused(g.status)
      BY <2>12 DEF FlushFiling, NewFilings
    <3>3. filings' \subseteq Filing
      BY <3>1, <3>2, WrittenFilings DEF TypeOK, StatusIsRefused, Filing
    <3>4. Answer(r, "500") \/ Answer(r, "200")
      BY <2>12 DEF FlushFiling
    <3>. QED  BY <3>1, <3>3, <3>4, AnswerType DEF TypeOK
  <2>13. ASSUME NEW o \in Orgs, RemoveOrg(r, o)
         PROVE  TypeOK'
    BY <2>13 DEF RemoveOrg, NoteOverlap, TypeOK
  <2>14. CASE Abort(r)
    BY <2>14, AnswerType DEF Abort, TypeOK
  <2>15. CASE RefuseValue(r)
    BY <2>15, AnswerType DEF RefuseValue, TypeOK
  <2>. QED  BY <2>1, <2>2, <2>3, <2>4, <2>5, <2>6, <2>7, <2>8, <2>9, <2>10, <2>11, <2>12,
               <2>13, <2>14, <2>15
<1>. QED  BY <1>1, <1>2

\* Every reachable state has the declared shape, for every value of the constants.
THEOREM TypeCorrect == Spec => []TypeOK
<1>1. Init => TypeOK
  BY DEF Init, TypeOK
<1>2. TypeOK /\ [Next]_vars => TypeOK'
  BY TypeStep
<1>. QED  BY <1>1, <1>2, PTL DEF Spec

-----------------------------------------------------------------------------
\* Every step of a handler leaves gone alone; only RemoveOrg changes it.
LEMMA RespondKeeps ==
  ASSUME NEW r, NEW a, NEW v, Respond(r, a, v)
  PROVE  UNCHANGED gone
BY DEF Respond, Answer

\* The steps that touch neither table nor the organizations.
Reading(r) ==
  \/ \E b \in Bills, i \in Invoices, n \in Numbers, v \in {FALSE, Vehicles} : CreateBill(r, b, i, n, v)
  \/ CheckNumber(r)
  \/ \E b \in Bills, i \in Invoices, n \in Numbers, v \in {FALSE, Vehicles} : FindBill(r, b, i, n, v)
  \/ LoadBill(r)
  \/ \E i \in Invoices : ListBills(r, i)
  \/ \E k \in Periods : FindFiling(r, k)
  \/ \E s \in Statuses \cup {"other"}, dated \in BOOLEAN : FindForFiling(r, s, dated)
  \/ LoadFiling(r)
  \/ RefuseValue(r) \/ Abort(r)

LEMMA ReadingKeeps ==
  ASSUME NEW r, Reading(r)
  PROVE  UNCHANGED <<bills, filings, gone>>
BY RespondKeeps DEF Reading, CreateBill, CheckNumber, FindBill, LoadBill, ListBills, FindFiling,
   FindForFiling, LoadFiling, RefuseValue, Abort, Goto, Answer

LEMMA NextCases ==
  ASSUME [Next]_vars
  PROVE  \/ UNCHANGED vars
         \/ \E r \in Requests :
              \/ Reading(r) \/ InsertBill(r) \/ FlushBill(r) \/ InsertFiling(r) \/ FlushFiling(r)
              \/ \E o \in Orgs : RemoveOrg(r, o)
BY DEF Next, Reading

\* What the constraints of eway_bills refuse keeps the bills consistent: the
\* insert is checked against every row, the update rewrites one row, keeps its key
\* and takes no other row's number or invoice, nor one that is gone.
LEMMA BillStep ==
  ASSUME TypeOK, BillsAreConsistent, [Next]_vars
  PROVE  BillsAreConsistent'
<1>1. CASE UNCHANGED <<bills, gone>>
  BY <1>1 DEF BillsAreConsistent, Stands
<1>2. ASSUME NEW r \in Requests, InsertBill(r)
      PROVE  BillsAreConsistent'
  <2>1. UNCHANGED gone
    BY <1>2, RespondKeeps DEF InsertBill, Answer
  <2>2. bills' = bills \/ (~BillIsRefused(req[r].bill) /\ bills' = bills \cup {req[r].bill})
    BY <1>2 DEF InsertBill
  <2>. QED  BY <2>1, <2>2 DEF BillsAreConsistent, BillIsRefused, Stands
<1>3. ASSUME NEW r \in Requests, FlushBill(r)
      PROVE  BillsAreConsistent'
  <2>1. UNCHANGED gone
    BY <1>3, RespondKeeps DEF FlushBill, Answer
  <2>2. \/ bills' = bills
        \/ /\ bills' = (bills \ StoredBill(r)) \cup NewBills(r)
           /\ \A y \in NewBills(r) :
                /\ Stands(y.inv)
                /\ \A x \in bills \ StoredBill(r) : x.number # y.number /\ x.inv # y.inv
    BY <1>3 DEF FlushBill, NewBills
  <2>3. CASE bills' = bills
    BY <2>1, <2>3 DEF BillsAreConsistent, Stands
  <2>4. CASE /\ bills' = (bills \ StoredBill(r)) \cup NewBills(r)
             /\ \A y \in NewBills(r) :
                  /\ Stands(y.inv)
                  /\ \A x \in bills \ StoredBill(r) : x.number # y.number /\ x.inv # y.inv
    <3>1. \A x, y \in StoredBill(r) : x = y
      BY DEF StoredBill, BillsAreConsistent
    <3>2. \A x, y \in NewBills(r) : x = y
      BY <3>1 DEF NewBills
    <3>3. \A y \in NewBills(r) : \E x \in StoredBill(r) : y.id = x.id
      BY <1>3, WrittenBill DEF FlushBill
    <3>4. \A x \in bills \ StoredBill(r), y \in NewBills(r) :
            x.id # y.id /\ x.inv # y.inv /\ x.number # y.number
      BY <3>3, <2>4 DEF StoredBill
    <3>5. \A x \in bills' : Stands(x.inv)
      BY <2>4 DEF BillsAreConsistent
    <3>6. \A x, y \in bills' : x.id = y.id \/ x.number = y.number \/ x.inv = y.inv => x = y
      BY <2>4, <3>2, <3>4 DEF BillsAreConsistent
    <3>. QED  BY <2>1, <3>5, <3>6 DEF BillsAreConsistent, Stands
  <2>. QED  BY <2>2, <2>3, <2>4
<1>4. ASSUME NEW r \in Requests, NEW o \in Orgs, RemoveOrg(r, o)
      PROVE  BillsAreConsistent'
  BY <1>4 DEF RemoveOrg, BillsAreConsistent, Stands
<1>5. ASSUME NEW r \in Requests, InsertFiling(r) \/ FlushFiling(r)
      PROVE  UNCHANGED <<bills, gone>>
  BY <1>5 DEF InsertFiling, FlushFiling, Answer
<1>. QED  BY <1>1, <1>2, <1>3, <1>4, <1>5, NextCases, ReadingKeeps DEF vars

\* Whatever overlaps and fails, an invoice has one bill, a number is one bill's and
\* no bill outlives its invoice's organization: createEwayBill's look at the numbers
\* is not what keeps it so, the constraints are.
THEOREM BillsStayConsistent == Spec => []BillsAreConsistent
<1>1. Init => TypeOK /\ BillsAreConsistent
  BY DEF Init, TypeOK, BillsAreConsistent
<1>2. TypeOK /\ BillsAreConsistent /\ [Next]_vars => (TypeOK /\ BillsAreConsistent)'
  BY TypeStep, BillStep
<1>. QED  BY <1>1, <1>2, PTL DEF Spec

-----------------------------------------------------------------------------
\* The same of gstr_filings: an update that comes late finds no row or its own.
LEMMA FilingStep ==
  ASSUME TypeOK, FilingsAreConsistent, [Next]_vars
  PROVE  FilingsAreConsistent'
<1>1. CASE UNCHANGED <<filings, gone>>
  BY <1>1 DEF FilingsAreConsistent, Stands
<1>2. ASSUME NEW r \in Requests, InsertFiling(r)
      PROVE  FilingsAreConsistent'
  BY <1>2 DEF InsertFiling, Answer, FilingIsRefused, FilingsAreConsistent, Stands
<1>3. ASSUME NEW r \in Requests, FlushFiling(r)
      PROVE  FilingsAreConsistent'
  <2>1. UNCHANGED gone
    BY <1>3 DEF FlushFiling, Answer
  <2>2. filings' = filings \/ filings' = (filings \ StoredFiling(r)) \cup NewFilings(r)
    BY <1>3 DEF FlushFiling, NewFilings
  <2>3. \A f, g \in StoredFiling(r) : f = g
    BY DEF StoredFiling, FilingsAreConsistent
  <2>4. \A f, g \in NewFilings(r) : f = g
    BY <2>3 DEF NewFilings
  <2>5. \A g \in NewFilings(r) : g.key = req[r].filing.key
    BY <1>3, WrittenFilings DEF FlushFiling
  <2>6. \A g \in NewFilings(r) : Stands(g.key)
    BY <2>5 DEF NewFilings, StoredFiling, FilingsAreConsistent
  <2>7. \A f \in filings' : Stands(f.key)
    BY <2>2, <2>6 DEF FilingsAreConsistent
  <2>8. \A f, g \in filings' : f.key = g.key => f = g
    BY <2>2, <2>4, <2>5 DEF FilingsAreConsistent, StoredFiling
  <2>. QED  BY <2>1, <2>7, <2>8 DEF FilingsAreConsistent, Stands
<1>4. ASSUME NEW r \in Requests, NEW o \in Orgs, RemoveOrg(r, o)
      PROVE  FilingsAreConsistent'
  BY <1>4 DEF RemoveOrg, FilingsAreConsistent, Stands
<1>5. ASSUME NEW r \in Requests, InsertBill(r) \/ FlushBill(r)
      PROVE  UNCHANGED <<filings, gone>>
  BY <1>5, RespondKeeps DEF InsertBill, FlushBill, Answer
<1>. QED  BY <1>1, <1>2, <1>3, <1>4, <1>5, NextCases, ReadingKeeps DEF vars

\* Whatever overlaps and fails, an organization has one filing of a type for a
\* period, and none once it is removed.
THEOREM FilingsStayConsistent == Spec => []FilingsAreConsistent
<1>1. Init => TypeOK /\ FilingsAreConsistent
  BY DEF Init, TypeOK, FilingsAreConsistent
<1>2. TypeOK /\ FilingsAreConsistent /\ [Next]_vars => (TypeOK /\ FilingsAreConsistent)'
  BY TypeStep, FilingStep
<1>. QED  BY <1>1, <1>2, PTL DEF Spec

-----------------------------------------------------------------------------
\* The row of a filing that is being updated has no date the handler has not read:
\* what keeps a date while requests do not overlap.
DateIsHeld ==
  ~overlapped =>
    \A r \in Requests : req[r].pc \in {"saveFiling", "flushFiling"} =>
      \A f \in filings : f.key = req[r].filing.key /\ f.filedAt => req[r].filing.filedAt

\* A step that does not overlap finds the other slots empty and leaves them so.
LEMMA AloneInStep ==
  ASSUME NEW r \in Requests, NoteOverlap(r), ~overlapped'
  PROVE  ~overlapped /\ \A q \in Requests \ {r} : req[q] = Idle
BY DEF NoteOverlap

LEMMA DateHeldStep ==
  ASSUME TypeOK, FilingsAreConsistent, DateIsHeld, [Next]_vars
  PROVE  DateIsHeld'
<1>1. CASE UNCHANGED vars
  BY <1>1 DEF DateIsHeld, vars
<1>2. SUFFICES ASSUME ~overlapped', NEW r \in Requests, Next,
                      \/ Reading(r) \/ InsertBill(r) \/ FlushBill(r)
                      \/ InsertFiling(r) \/ FlushFiling(r)
                      \/ \E o \in Orgs : RemoveOrg(r, o)
               PROVE  DateIsHeld'
  BY <1>1, NextCases DEF DateIsHeld, vars
<1>3. /\ NoteOverlap(r)
      /\ \A q \in Requests \ {r} : req'[q] = req[q]
  BY <1>2 DEF Reading, CreateBill, CheckNumber, InsertBill, FindBill, LoadBill, FlushBill, ListBills,
     FindFiling, InsertFiling, FindForFiling, LoadFiling, FlushFiling, RemoveOrg, RefuseValue,
     Abort, Goto, Answer, Respond, TypeOK
<1>4. ~overlapped /\ \A q \in Requests \ {r} : req'[q] = Idle
  BY <1>2, <1>3, AloneInStep
<1>5. SUFFICES ASSUME req'[r].pc \in {"saveFiling", "flushFiling"}, NEW f \in filings',
                      f.key = req'[r].filing.key, f.filedAt
               PROVE  req'[r].filing.filedAt
  BY <1>4 DEF DateIsHeld, Idle
<1>6. \/ \E s \in Statuses \cup {"other"}, dated \in BOOLEAN : FindForFiling(r, s, dated)
      \/ LoadFiling(r)
  <2>1. ASSUME NEW h, Goto(r, h)
        PROVE  h.pc \in {"saveFiling", "flushFiling"}
    BY <1>5, <2>1 DEF Goto, TypeOK
  <2>2. ASSUME NEW a, Answer(r, a)
        PROVE  FALSE
    BY <1>5, <2>2 DEF Answer, TypeOK, Idle
  <2>3. ASSUME NEW a, NEW v, Respond(r, a, v)
        PROVE  FALSE
    BY <2>2, <2>3 DEF Respond
  <2>4. ~\E o \in Orgs : RemoveOrg(r, o)
    BY <1>5 DEF RemoveOrg, Idle
  <2>5. /\ ~InsertBill(r) /\ ~FlushBill(r) /\ ~InsertFiling(r) /\ ~FlushFiling(r)
        /\ ~RefuseValue(r) /\ ~Abort(r)
    BY <2>2, <2>3 DEF InsertBill, FlushBill, InsertFiling, FlushFiling, RefuseValue, Abort
  <2>6. /\ \A b \in Bills, i \in Invoices, n \in Numbers, v \in {FALSE, Vehicles} :
              ~CreateBill(r, b, i, n, v)
        /\ \A b \in Bills, i \in Invoices, n \in Numbers, v \in {FALSE, Vehicles} :
              ~FindBill(r, b, i, n, v)
        /\ \A i \in Invoices : ~ListBills(r, i)
        /\ \A k \in Periods : ~FindFiling(r, k)
    <3>1. ASSUME NEW b \in Bills, NEW i \in Invoices, NEW n \in Numbers,
                 NEW v \in {FALSE, Vehicles}, CreateBill(r, b, i, n, v)
          PROVE  FALSE
      <4>1. Goto(r, [pc |-> "checkNumber",
                     bill |-> [id |-> b, inv |-> i, number |-> n, vehicle |-> v]])
        BY <3>1 DEF CreateBill
      <4>. QED  BY <4>1, <2>1
    <3>2. ASSUME NEW b \in Bills, NEW i \in Invoices, NEW n \in Numbers,
                 NEW v \in {FALSE, Vehicles}, FindBill(r, b, i, n, v)
          PROVE  FALSE
      <4> DEFINE x == [id |-> b, inv |-> i, number |-> n, vehicle |-> v]
      <4>1. Goto(r, [pc |-> "saveBill", diff |-> {}, bill |-> x])
        BY <3>2 DEF FindBill
      <4> HIDE DEF x
      <4>. QED  BY <4>1, <2>1
    <3>3. ASSUME NEW k \in Periods, FindFiling(r, k)
          PROVE  FALSE
      BY <3>3, <2>1, <2>2 DEF FindFiling
    <3>4. \A i \in Invoices : ~ListBills(r, i)
      BY <2>3 DEF ListBills
    <3>. QED  BY <3>1, <3>2, <3>3, <3>4
  <2>7. ~CheckNumber(r)
    <3> SUFFICES ASSUME CheckNumber(r) PROVE FALSE
      OBVIOUS
    <3>1. At(r, "checkNumber") /\ Goto(r, [req[r] EXCEPT !.pc = "insertBill"])
      BY <2>2 DEF CheckNumber
    <3>2. [req[r] EXCEPT !.pc = "insertBill"].pc = "insertBill"
      BY <3>1, HeldBill DEF At, BillStages
    <3>. QED  BY <2>1, <3>1, <3>2
  <2>8. ~LoadBill(r)
    <3> SUFFICES ASSUME LoadBill(r) PROVE FALSE
      OBVIOUS
    <3> DEFINE cols == {c \in BillColumns : \E x \in StoredBill(r) : req[r].bill[c] # x[c]}
    <3>1. /\ At(r, "saveBill")
          /\ \/ Goto(r, [pc |-> "insertBill", bill |-> req[r].bill])
             \/ Goto(r, [req[r] EXCEPT !.pc = "flushBill", !.diff = cols])
      BY DEF LoadBill
    <3> HIDE DEF cols
    <3>2. [req[r] EXCEPT !.pc = "flushBill", !.diff = cols].pc = "flushBill"
      BY <3>1, HeldBill DEF At, BillStages
    <3>. QED  BY <2>1, <3>1, <3>2
  <2>. QED  BY <1>2, <2>4, <2>5, <2>6, <2>7, <2>8 DEF Reading
<1>7. CASE LoadFiling(r)
  <2>1. UNCHANGED filings /\ At(r, "saveFiling")
    BY <1>7 DEF LoadFiling
  <2>2. req'[r].filing = req[r].filing
    BY <1>7, <2>1, HeldFiling DEF LoadFiling, Goto, TypeOK, At, FilingStages
  <2>. QED  BY <1>4, <1>5, <2>1, <2>2 DEF DateIsHeld, At
<1>8. ASSUME NEW s \in Statuses \cup {"other"}, NEW dated \in BOOLEAN, FindForFiling(r, s, dated)
      PROVE  req'[r].filing.filedAt
  <2>1. PICK g \in filings : Goto(r, [pc |-> "saveFiling", diff |-> {},
                                filing |-> [g EXCEPT !.status = s, !.filedAt = @ \/ dated]])
    BY <1>8 DEF FindForFiling
  <2>2. g \in Filing /\ f \in filings
    BY <1>5, <1>8 DEF FindForFiling, TypeOK
  <2>3. req'[r].filing = [g EXCEPT !.status = s, !.filedAt = @ \/ dated]
    BY <2>1 DEF Goto, TypeOK
  <2>4. req'[r].filing.key = g.key /\ (g.filedAt => req'[r].filing.filedAt)
    BY <2>2, <2>3 DEF Filing
  <2>. QED  BY <1>5, <2>2, <2>4 DEF FilingsAreConsistent
<1>. QED  BY <1>6, <1>7, <1>8

DatesKept ==
  ~overlapped' =>
    \A f \in filings : f.filedAt /\ OrgOf[f.key] \notin gone' =>
      \E g \in filings' : g.key = f.key /\ g.filedAt

LEMMA DateKeptStep ==
  ASSUME TypeOK, DateIsHeld, [Next]_vars
  PROVE  DatesKept
<1>1. CASE UNCHANGED filings
  BY <1>1 DEF DatesKept
<1>2. ASSUME NEW r \in Requests, InsertFiling(r)
      PROVE  DatesKept
  BY <1>2 DEF InsertFiling, DatesKept
<1>3. ASSUME NEW r \in Requests, FlushFiling(r), ~overlapped'
      PROVE  DatesKept
  <2>1. ~overlapped /\ At(r, "flushFiling")
    BY <1>3 DEF FlushFiling, Answer, NoteOverlap
  <2>2. filings' = filings \/ filings' = (filings \ StoredFiling(r)) \cup NewFilings(r)
    BY <1>3 DEF FlushFiling, NewFilings
  <2>3. \A f \in StoredFiling(r) : f.filedAt => req[r].filing.filedAt
    BY <2>1 DEF DateIsHeld, At, StoredFiling
  <2>4. \A f \in StoredFiling(r) : f.filedAt => \E g \in NewFilings(r) : g.key = f.key /\ g.filedAt
    BY <2>1, <2>3, WrittenFiling
  <2>. QED  BY <2>2, <2>4 DEF DatesKept
<1>4. ASSUME NEW r \in Requests, NEW o \in Orgs, RemoveOrg(r, o)
      PROVE  DatesKept
  BY <1>4 DEF RemoveOrg, DatesKept
<1>5. ASSUME NEW r \in Requests, InsertBill(r) \/ FlushBill(r)
      PROVE  UNCHANGED filings
  BY <1>5 DEF InsertBill, FlushBill
<1>. QED  BY <1>1, <1>2, <1>3, <1>4, <1>5, NextCases, ReadingKeeps DEF vars, DatesKept

\* While requests do not overlap, whatever fails in between: no later update takes
\* the filedAt of a filing away, because the entity save() compares with the row
\* was read from that row.
THEOREM DatesStay == Spec => FiledDateKept
<1>1. Init => TypeOK /\ FilingsAreConsistent /\ DateIsHeld
  BY DEF Init, TypeOK, FilingsAreConsistent, DateIsHeld
<1>2. TypeOK /\ FilingsAreConsistent /\ DateIsHeld /\ [Next]_vars
        => (TypeOK /\ FilingsAreConsistent /\ DateIsHeld)'
  BY TypeStep, FilingStep, DateHeldStep
<1>3. TypeOK /\ DateIsHeld /\ [Next]_vars => [DatesKept]_vars
  BY DateKeptStep
<1>. QED  BY <1>1, <1>2, <1>3, PTL DEF Spec, FiledDateKept, DatesKept

-----------------------------------------------------------------------------
\* A bill save() is about to write: the vehicle details of its row are those of
\* the entity, or among the columns that differ.  So the answer, which looks at the
\* entity, tells what becomes of the row.
BillIsHeld ==
  ~overlapped =>
    \A r \in Requests : req[r].pc = "flushBill" =>
      \A x \in bills : x.id = req[r].bill.id =>
        x.vehicle = req[r].bill.vehicle \/ "vehicle" \in req[r].diff

\* save() comes to write a bill from its select alone.
LEMMA OnlyLoadBill ==
  ASSUME TypeOK, NEW r \in Requests, req'[r].pc = "flushBill",
         \/ Reading(r) \/ InsertBill(r) \/ FlushBill(r)
         \/ InsertFiling(r) \/ FlushFiling(r)
         \/ \E o \in Orgs : RemoveOrg(r, o)
  PROVE  LoadBill(r)
<1>1. ASSUME NEW h, Goto(r, h)
      PROVE  h.pc = "flushBill"
  BY <1>1 DEF Goto, TypeOK
<1>2. ASSUME NEW a, Answer(r, a)
      PROVE  FALSE
  BY <1>2 DEF Answer, TypeOK, Idle
<1>3. ASSUME NEW a, NEW v, Respond(r, a, v)
      PROVE  FALSE
  BY <1>2, <1>3 DEF Respond
<1>4. ~\E o \in Orgs : RemoveOrg(r, o)
  BY DEF RemoveOrg, Idle
<1>5. /\ ~InsertBill(r) /\ ~FlushBill(r) /\ ~InsertFiling(r) /\ ~FlushFiling(r)
      /\ ~RefuseValue(r) /\ ~Abort(r)
  BY <1>2, <1>3 DEF InsertBill, FlushBill, InsertFiling, FlushFiling, RefuseValue, Abort
<1>6. ASSUME NEW b \in Bills, NEW i \in Invoices, NEW n \in Numbers,
             NEW v \in {FALSE, Vehicles}, CreateBill(r, b, i, n, v)
      PROVE  FALSE
  <2>1. Goto(r, [pc |-> "checkNumber",
                 bill |-> [id |-> b, inv |-> i, number |-> n, vehicle |-> v]])
    BY <1>6 DEF CreateBill
  <2>. QED  BY <2>1, <1>1
<1>7. ASSUME NEW b \in Bills, NEW i \in Invoices, NEW n \in Numbers,
             NEW v \in {FALSE, Vehicles}, FindBill(r, b, i, n, v)
      PROVE  FALSE
  <2> DEFINE x == [id |-> b, inv |-> i, number |-> n, vehicle |-> v]
  <2>1. Goto(r, [pc |-> "saveBill", diff |-> {}, bill |-> x])
    BY <1>7 DEF FindBill
  <2> HIDE DEF x
  <2>. QED  BY <2>1, <1>1
<1>8. ASSUME NEW k \in Periods, FindFiling(r, k)
      PROVE  FALSE
  BY <1>8, <1>1, <1>2 DEF FindFiling
<1>9. \A i \in Invoices : ~ListBills(r, i)
  BY <1>3 DEF ListBills
<1>10. ASSUME NEW s \in Statuses \cup {"other"}, NEW dated \in BOOLEAN, FindForFiling(r, s, dated)
       PROVE  FALSE
  <2>1. PICK g \in filings : Goto(r, [pc |-> "saveFiling", diff |-> {},
                                filing |-> [g EXCEPT !.status = s, !.filedAt = @ \/ dated]])
    BY <1>10 DEF FindForFiling
  <2>. QED  BY <2>1, <1>1
<1>11. ~CheckNumber(r)
  <2> SUFFICES ASSUME CheckNumber(r) PROVE FALSE
    OBVIOUS
  <2>1. At(r, "checkNumber") /\ Goto(r, [req[r] EXCEPT !.pc = "insertBill"])
    BY <1>2 DEF CheckNumber
  <2>2. [req[r] EXCEPT !.pc = "insertBill"].pc = "insertBill"
    BY <2>1, HeldBill DEF At, BillStages
  <2>. QED  BY <1>1, <2>1, <2>2
<1>12. ~LoadFiling(r)
  <2> SUFFICES ASSUME LoadFiling(r) PROVE FALSE
    OBVIOUS
  <2> DEFINE cols == {c \in {"status", "filedAt"} : \E f \in StoredFiling(r) : req[r].filing[c] # f[c]}
  <2>1. /\ At(r, "saveFiling")
        /\ \/ Goto(r, [pc |-> "insertFiling", filing |-> req[r].filing])
           \/ Goto(r, [req[r] EXCEPT !.pc = "flushFiling", !.diff = cols])
    BY DEF LoadFiling
  <2> HIDE DEF cols
  <2>2. [req[r] EXCEPT !.pc = "flushFiling", !.diff = cols].pc = "flushFiling"
    BY <2>1, HeldFiling DEF At, FilingStages
  <2>3. ~Goto(r, [req[r] EXCEPT !.pc = "flushFiling", !.diff = cols])
    BY <1>1, <2>2
  <2>4. ~Goto(r, [pc |-> "insertFiling", filing |-> req[r].filing])
    BY <1>1
  <2>. QED  BY <2>1, <2>3, <2>4
<1>. QED
  BY <1>4, <1>5, <1>6, <1>7, <1>8, <1>9, <1>10, <1>11, <1>12 DEF Reading

LEMMA BillHeldStep ==
  ASSUME TypeOK, BillIsHeld, [Next]_vars
  PROVE  BillIsHeld'
<1>1. CASE UNCHANGED vars
  BY <1>1 DEF BillIsHeld, vars
<1>2. SUFFICES ASSUME ~overlapped', NEW r \in Requests,
                      \/ Reading(r) \/ InsertBill(r) \/ FlushBill(r)
                      \/ InsertFiling(r) \/ FlushFiling(r)
                      \/ \E o \in Orgs : RemoveOrg(r, o)
               PROVE  BillIsHeld'
  BY <1>1, NextCases DEF BillIsHeld, vars
<1>3. /\ NoteOverlap(r)
      /\ \A q \in Requests \ {r} : req'[q] = req[q]
  BY <1>2 DEF Reading, CreateBill, CheckNumber, InsertBill, FindBill, LoadBill, FlushBill, ListBills,
     FindFiling, InsertFiling, FindForFiling, LoadFiling, FlushFiling, RemoveOrg, RefuseValue,
     Abort, Goto, Answer, Respond, TypeOK
<1>4. \A q \in Requests \ {r} : req'[q] = Idle
  BY <1>2, <1>3, AloneInStep
<1>5. SUFFICES ASSUME req'[r].pc = "flushBill", NEW x \in bills', x.id = req'[r].bill.id
               PROVE  x.vehicle = req'[r].bill.vehicle \/ "vehicle" \in req'[r].diff
  BY <1>4 DEF BillIsHeld, Idle
<1>6. LoadBill(r)
  BY <1>2, <1>5, OnlyLoadBill
<1>. DEFINE cols == {c \in BillColumns : \E y \in StoredBill(r) : req[r].bill[c] # y[c]}
<1>7. At(r, "saveBill") /\ bills' = bills
  BY <1>6 DEF LoadBill
<1>8. \/ Goto(r, [pc |-> "insertBill", bill |-> req[r].bill])
      \/ Goto(r, [req[r] EXCEPT !.pc = "flushBill", !.diff = cols])
  BY <1>6 DEF LoadBill
<1>9. "vehicle" \in cols <=> \E y \in StoredBill(r) : req[r].bill.vehicle # y.vehicle
  BY DEF BillColumns
<1>. HIDE DEF cols
<1>10. req'[r] = [req[r] EXCEPT !.pc = "flushBill", !.diff = cols]
  BY <1>5, <1>8 DEF Goto, TypeOK
<1>11. req'[r].bill = req[r].bill /\ req'[r].diff = cols
  BY <1>7, <1>10, HeldBill DEF At, BillStages
<1>12. x \in StoredBill(r)
  BY <1>5, <1>7, <1>11 DEF StoredBill
<1>. QED  BY <1>9, <1>11, <1>12

OnlyVehiclesFail ==
  ~overlapped' /\ answer' \in {"400", "500"} => \A b \in bills' \ bills : b.vehicle

LEMMA OnlyVehiclesFailStep ==
  ASSUME TypeOK, BillIsHeld, [Next]_vars
  PROVE  OnlyVehiclesFail
<1>1. CASE bills' \subseteq bills
  BY <1>1 DEF OnlyVehiclesFail
<1>2. ASSUME NEW r \in Requests, InsertBill(r)
      PROVE  OnlyVehiclesFail
  <2>1. CASE bills' = bills
    BY <1>1, <2>1
  <2>2. CASE bills' = bills \cup {req[r].bill} /\ Respond(r, "201", req[r].bill.vehicle)
    BY <2>2 DEF OnlyVehiclesFail, Respond, Answer
  <2>. QED  BY <1>2, <2>1, <2>2 DEF InsertBill
<1>3. ASSUME NEW r \in Requests, FlushBill(r)
      PROVE  OnlyVehiclesFail
  <2>1. CASE bills' = bills
    BY <1>1, <2>1
  <2>2. CASE /\ bills' = (bills \ StoredBill(r)) \cup NewBills(r)
             /\ Respond(r, "200", req[r].bill.vehicle)
    <3>1. SUFFICES ASSUME ~overlapped', req[r].bill.vehicle, NEW b \in NewBills(r)
                   PROVE  b.vehicle
      BY <2>2 DEF OnlyVehiclesFail, Respond, Answer
    <3>2. At(r, "flushBill") /\ ~overlapped
      BY <1>3, <2>2, <3>1 DEF FlushBill, Respond, Answer, NoteOverlap
    <3>3. PICK x \in StoredBill(r) :
            b = [x EXCEPT !.inv = IF "inv" \in req[r].diff THEN req[r].bill.inv ELSE @,
                   !.number = IF "number" \in req[r].diff THEN req[r].bill.number ELSE @,
                   !.vehicle = IF "vehicle" \in req[r].diff THEN req[r].bill.vehicle ELSE @]
      BY DEF NewBills
    <3>4. x \in BillRow /\ x \in bills /\ x.id = req[r].bill.id
      BY DEF StoredBill, TypeOK
    <3>5. x.vehicle = req[r].bill.vehicle \/ "vehicle" \in req[r].diff
      BY <3>2, <3>4 DEF BillIsHeld, At
    <3>6. b.vehicle = IF "vehicle" \in req[r].diff THEN req[r].bill.vehicle ELSE x.vehicle
      BY <3>3, <3>4 DEF BillRow
    <3>. QED  BY <3>1, <3>5, <3>6
  <2>. QED  BY <1>3, <2>1, <2>2 DEF FlushBill, NewBills
<1>4. ASSUME NEW r \in Requests, NEW o \in Orgs, RemoveOrg(r, o)
      PROVE  bills' \subseteq bills
  BY <1>4 DEF RemoveOrg
<1>5. ASSUME NEW r \in Requests, InsertFiling(r) \/ FlushFiling(r)
      PROVE  UNCHANGED bills
  BY <1>5 DEF InsertFiling, FlushFiling
<1>. QED  BY <1>1, <1>2, <1>3, <1>4, <1>5, NextCases, ReadingKeeps DEF vars

\* While requests do not overlap, whatever fails in between: a creation or an update
\* that stores a bill without vehicle details is not answered with an error, since
\* the entity the answer is made of and the row agree on those details.
THEOREM StoredIsAnswered == Spec => StoredBillIsAnswered
<1>1. Init => TypeOK /\ BillIsHeld
  BY DEF Init, TypeOK, BillIsHeld
<1>2. TypeOK /\ BillIsHeld /\ [Next]_vars => (TypeOK /\ BillIsHeld)'
  BY TypeStep, BillHeldStep
<1>3. TypeOK /\ BillIsHeld /\ [Next]_vars => [OnlyVehiclesFail]_vars
  BY OnlyVehiclesFailStep
<1>. QED  BY <1>1, <1>2, <1>3, PTL DEF Spec, StoredBillIsAnswered, OnlyVehiclesFail
=============================================================================
