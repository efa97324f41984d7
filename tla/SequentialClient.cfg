CONSTANTS
  Invoices = {i1, i2}
  Orgs = {o1}
  OrgOf <- OneOrg
  Payments = {p1, p2}
  Batches = {b1, b2, b3}
  Txns = {}
  Requests = {r1}
  Amounts = {5050, 60000}
  Totals = {100000}
  Settable = {"draft", "paid"}
  Ops <- AllOps
  OrphanedItems = "nullify"
  Failures = TRUE
SPECIFICATION Spec
INVARIANTS TypeOK LedgerCountsPaise EventsTellTheStatus OneItemList
PROPERTIES StatusDiscipline ImplementsBook CorrectionRepairsDrift
SYMMETRY Symmetry
