CONSTANTS
  Orgs = {o1, o2}
  OrgOf <- TwoOrgs
  Invoices = {i1, i2}
  Bills = {b1, b2}
  Numbers = {n1, n2}
  Periods = {k1}
  Requests = {r1, r2}
  Vehicles = TRUE
  Failures = TRUE
SPECIFICATION Spec
INVARIANTS TypeOK BillsAreConsistent FilingsAreConsistent
PROPERTIES FiledDateKept StoredBillIsAnswered
SYMMETRY Symmetry
