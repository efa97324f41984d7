----------------------------- MODULE InvoiceBook -----------------------------
(***************************************************************************)
(* What the invoice and payment API does for a client that waits for its   *)
(* answers: two accounts per invoice, the money received and the book.     *)
(* Every call that changes the book does so in one step, from the accounts *)
(* as they are at that step.  A payment that is counted adds one paisa to  *)
(* the book, the rounding of an appended text; only a correction brings    *)
(* what was received into the book.                                        *)
(***************************************************************************)
EXTENDS Integers

CONSTANTS Invoices, Orgs, OrgOf, Amounts, Totals, Settable

VARIABLES
  book,   \* the row of each invoice
  cash    \* the sum of the payments received for it

vars == <<book, cash>>

NoRow == [status |-> "absent", total |-> 0, paid |-> 0]

Init ==
  /\ book = [i \in Invoices |-> NoRow]
  /\ cash = [i \in Invoices |-> 0]

Room(i) == book[i].total - book[i].paid

Issue(i, t) ==
  /\ book[i] = NoRow
  /\ book' = [book EXCEPT ![i] = [status |-> "draft", total |-> t, paid |-> 0]]
  /\ UNCHANGED cash

Edit(i, s, t) ==
  /\ book[i].status = "draft"
  /\ book' = [book EXCEPT ![i].status = s, ![i].total = t]
  /\ UNCHANGED cash

Send(i) ==
  /\ book[i].status = "draft"
  /\ book' = [book EXCEPT ![i].status = "sent"]
  /\ UNCHANGED cash

Void(i) ==
  /\ book[i].status \notin {"absent", "paid"}
  /\ book' = [book EXCEPT ![i].status = "draft"]
  /\ UNCHANGED cash

\* A payment within the remaining amount is received, then counted.
Receive(i, a) ==
  /\ book[i] # NoRow /\ a <= Room(i)
  /\ cash' = [cash EXCEPT ![i] = @ + a]
  /\ UNCHANGED book

Count(i, a) ==
  /\ book[i] # NoRow /\ 500 <= a /\ a <= Room(i)
  /\ book' = [book EXCEPT ![i].paid = @ + 1]
  /\ UNCHANGED cash

\* A payment of amount old is corrected to amount new, then the book settled;
\* by the money of another invoice, if the body says so.
Amend(i, old, new) ==
  /\ book[i] # NoRow
  /\ cash' = [cash EXCEPT ![i] = @ + new - old]
  /\ UNCHANGED book

Settle(i, j) ==
  /\ book[i] # NoRow /\ cash[j] >= 0
  /\ book' = [book EXCEPT ![i].paid = cash[j]]
  /\ UNCHANGED cash

\* The books of an organization are closed.
Close(o) ==
  /\ book' = [i \in Invoices |-> IF OrgOf[i] = o THEN NoRow ELSE book[i]]
  /\ cash' = [i \in Invoices |-> IF OrgOf[i] = o THEN 0 ELSE cash[i]]

Next ==
  \/ \E o \in Orgs : Close(o)
  \/ \E i \in Invoices :
       \/ \E t \in Totals : Issue(i, t)
       \/ \E s \in Settable, t \in Totals \cup {book[i].total} : Edit(i, s, t)
       \/ Send(i) \/ Void(i)
       \/ \E j \in Invoices : Settle(i, j)
       \/ \E a \in Amounts : Receive(i, a) \/ Count(i, a)
       \/ \E old, new \in Amounts : Amend(i, old, new)

Spec == Init /\ [][Next]_vars
=============================================================================
