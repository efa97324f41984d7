CONSTANTS
  Orgs = {o1, o2}
  Products = {p1, p2}
  Partners = {b1, b2}
  Names = {n1, n2}
  TaxNumbers = {g1, g2}
  Requests = {r1, r2}
  PartnerOrg = "optional"
  Ops <- AllOps
  Failures = TRUE
SPECIFICATION Spec
INVARIANTS TypeOK CatalogIsConsistent RemovedStaysGone
PROPERTY CreatedGstinIsFree
SYMMETRY Symmetry
