CONSTANTS
  Invoices = {i1}
  Orgs = {o1}
  OrgOf <- OneOrg
  Payments = {p1, p2}
  Batches = {b1, b2}
  Txns = {x1}
  Requests = {r1, r2}
  Amounts = {60000}
  Totals = {30000, 100000}
  Settable = {"draft"}
  Ops <- RaceOps
  OrphanedItems = "delete"
  Failures = TRUE
SPECIFICATION Spec
INVARIANTS  PaidNeverOvercounts PaymentsCountOnce RemovedBooksStayClosed
SYMMETRY Symmetry
VIEW View
