CONSTANTS
  Invoices = {i1}
  Orgs = {o1}
  OrgOf <- OneOrg
  Txns = {x1}
  Payments = {p1, p2}
  Batches = {b1, b2}
  Requests = {r1}
  Amounts = {5000, 60000}
  Totals = {100000}
  Settable = {"draft"}
  Ops <- PayOps
  OrphanedItems = "nullify"
  Failures = FALSE
SPECIFICATION Spec
INVARIANT LedgerBalanced
