CONSTANTS
  Invoices = {i1}
  Orgs = {o1}
  OrgOf <- OneOrg
  Txns = {x1}
  Payments = {p1, p2}
  Batches = {b1}
  Requests = {r1, r2}
  Amounts = {5000, 60000}
  Totals = {60000}
  Settable = {"draft"}
  Ops <- PayOps
  OrphanedItems = "delete"
  Failures = FALSE
SPECIFICATION Spec
INVARIANT NeverOverCollected
