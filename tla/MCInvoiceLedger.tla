--------------------------- MODULE MCInvoiceLedger ---------------------------
(***************************************************************************)
(* Constants for model checking InvoiceLedger.                             *)
(***************************************************************************)
EXTENDS InvoiceLedgerProps, TLC

AllOps  == Operations
RaceOps == Operations \ {"send", "void"}
PayOps  == {"create", "send", "void", "pay"}

\* All invoices belong to one organization.
OneOrg == [i \in Invoices |-> CHOOSE o \in Orgs : TRUE]

\* What a handler that is about to save, or has saved, holds and no later step reads.
Rest(q) ==
  CASE q.pc \in {"save", "flush"} -> [q EXCEPT !.dto = NoDto]
    [] q.pc = "emit" -> [pc |-> "emit", op |-> q.op, items |-> q.items, pays |-> q.pays]
    [] OTHER -> q

View == <<invoice, items, payments, collected, worth, Uncorrected, gone,
          [r \in Requests |-> Rest(req[r])]>>

\* The rows of one table, and the request slots, are interchangeable.
Symmetry == Permutations(Invoices) \cup Permutations(Payments) \cup Permutations(Txns)
              \cup Permutations(Batches) \cup Permutations(Requests)
=============================================================================
