------------------------------ MODULE MCRegistry ------------------------------
EXTENDS Registry, TLC

AllOps == Operations

Symmetry == Permutations(Orgs) \cup Permutations(Products) \cup Permutations(Partners)
              \cup Permutations(Names) \cup Permutations(TaxNumbers) \cup Permutations(Requests)
===============================================================================
