---------------------------- MODULE MCCompliance ----------------------------
EXTENDS Compliance, TLC

\* One invoice of one organization, everything else of the other.
Abroad == CHOOSE i \in Invoices : TRUE
Other  == CHOOSE o \in Orgs : TRUE
TwoOrgs ==
  [x \in Invoices \cup Periods |-> IF x = Abroad THEN Other ELSE CHOOSE o \in Orgs : o # Other]

Symmetry == Permutations(Bills) \cup Permutations(Numbers) \cup Permutations(Periods)
              \cup Permutations(Requests)
=============================================================================
