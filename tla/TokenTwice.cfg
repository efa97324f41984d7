CONSTANTS
  Emails = {e1}
  Users = {u1}
  Orgs = {o1}
  TaxIds = {x1}
  Hashes = {h1, h2, h3}
  Requests = {r1, r2}
  Removals = FALSE
  Failures = FALSE
SPECIFICATION Spec
CHECK_DEADLOCK FALSE
INVARIANT TokenWorksOnce
