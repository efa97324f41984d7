----------------------------- MODULE MCAccounts -----------------------------
EXTENDS Accounts, TLC

Symmetry == Permutations(Emails) \cup Permutations(Users) \cup Permutations(Orgs)
              \cup Permutations(TaxIds) \cup Permutations(Hashes) \cup Permutations(Requests)
=============================================================================
