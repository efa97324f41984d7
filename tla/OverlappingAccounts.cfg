CONSTANTS
  Emails = {e1, e2}
  Users = {u1, u2}
  Orgs = {o1, o2}
  TaxIds = {x1, x2}
  Hashes = {h1, h2, h3, h4}
  Requests = {r1, r2}
  Removals = TRUE
  Failures = TRUE
SPECIFICATION Spec
CHECK_DEADLOCK FALSE
INVARIANTS TypeOK SpentTokensAreDead UsersHaveTheirOrg EmailIsUnique TokenWorksOnceAlone NoOrphanOrgs
SYMMETRY Symmetry
