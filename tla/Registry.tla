------------------------------ MODULE Registry ------------------------------
(***************************************************************************)
(* The master data: OrganizationsService, ProductsServicesService and      *)
(* BusinessPartnersService, as far as names and tax numbers go.  Each      *)
(* awaited call is a step.                                                 *)
(***************************************************************************)
CONSTANTS
  Orgs, Products, Partners,  \* primary keys
  Names,                     \* names of products
  TaxNumbers,                \* GSTINs; a PAN is handled in the same way
  Requests,                  \* request slots
  PartnerOrg,                \* business_partners.organizationId: "required" or "optional"
  Ops,                       \* the operations the clients call
  Failures                   \* may an awaited call fail, or the process die

Operations == {"createOrg", "updateOrg", "removeOrg", "createProduct", "updateProduct",
               "createPartner", "updatePartner", "removePartner"}

ASSUME PartnerOrgIsKnown == PartnerOrg \in {"required", "optional"}
ASSUME OpsAreOperations == Ops \subseteq Operations
ASSUME FailuresIsBoolean == Failures \in BOOLEAN
ASSUME KeysAreDistinct == Orgs \cap Partners = {}   \* generated uuids

VARIABLES
  orgs,       \* the organizations table
  products,   \* the products_services table
  partners,   \* the business_partners table
  req,        \* the request in each slot
  removed,    \* history: the keys whose removal was answered with success
  overlapped  \* history: have requests overlapped

vars == <<orgs, products, partners, req, removed, overlapped>>

OrgRow     == [id : Orgs, gstin : TaxNumbers]
ProductRow == [id : Products, org : Orgs, name : Names]
PartnerRow == [id : Partners, gstin : TaxNumbers]

Idle    == [pc |-> "idle"]
Handler == [pc : {"saveOrg"}, row : OrgRow]
      \cup [pc : {"insertProduct", "saveProduct"}, row : ProductRow]
      \cup [pc : {"insertPartner", "savePartner", "deletePartner"}, row : PartnerRow]

Init ==
  /\ orgs = {} /\ products = {} /\ partners = {}
  /\ req = [r \in Requests |-> Idle]
  /\ removed = {} /\ overlapped = FALSE

\* A step of the handler in slot r.
NoteOverlap(r) == overlapped' = (overlapped \/ \E q \in Requests \ {r} : req[q] # Idle)

At(r, stage)        == req[r].pc = stage
Goto(r, stage, row) ==
  req' = [req EXCEPT ![r] = [pc |-> stage, row |-> row]] /\ NoteOverlap(r)
Answer(r)           == req' = [req EXCEPT ![r] = Idle] /\ NoteOverlap(r)

Begins(r, op) == op \in Ops /\ req[r] = Idle
Held(stages)  == {req[r].row.id : r \in {q \in Requests : req[q].pc \in stages}}
Fresh(id, table, stages) == id \notin {x.id : x \in table} \cup Held(stages) \cup removed

\* save() of a row that was read: it is inserted again if it is gone by now.
Saved(table, row) == {x \in table : x.id # row.id} \cup {row}

-----------------------------------------------------------------------------
\* Organizations.  Nothing is looked up; the unique columns decide.
OrgIsRefused(o) == \E x \in orgs : x.id # o.id /\ x.gstin = o.gstin

StoreOrg(r, o) ==
  IF OrgIsRefused(o)
  THEN orgs' = orgs /\ Answer(r)
  ELSE orgs' = Saved(orgs, o) /\ Answer(r)

CreateOrg(r, o, g) ==
  /\ Begins(r, "createOrg") /\ Fresh(o, orgs, {"saveOrg"})
  /\ StoreOrg(r, [id |-> o, gstin |-> g])
  /\ UNCHANGED <<products, partners, removed>>

FindOrg(r, g) ==
  /\ Begins(r, "updateOrg")
  /\ \E o \in orgs : Goto(r, "saveOrg", [o EXCEPT !.gstin = g])
  /\ UNCHANGED <<orgs, products, partners, removed>>

SaveOrg(r) ==
  /\ At(r, "saveOrg")
  /\ StoreOrg(r, req[r].row)
  /\ UNCHANGED <<products, partners, removed>>

\* Mutant: the answer does not wait for the delete.
RemoveOrgLater(r, o) ==
  /\ Begins(r, "removeOrg")
  /\ \E x \in orgs : x.id = o
  /\ removed' = removed \cup {o}
  /\ Answer(r)
  /\ UNCHANGED <<orgs, products, partners>>

\* delete by key; the products go with their organization.
RemoveOrg(r, o) ==
  /\ Begins(r, "removeOrg")
  /\ \E x \in orgs : x.id = o
  /\ orgs' = {x \in orgs : x.id # o}
  /\ products' = {p \in products : p.org # o}
  /\ removed' = removed \cup {o}
  /\ Answer(r)
  /\ UNCHANGED partners

\* What references a user of the organization without ON DELETE keeps that user, and
\* so the organization: the database refuses the delete.
KeepOrg(r, o) ==
  /\ Begins(r, "removeOrg")
  /\ \E x \in orgs : x.id = o
  /\ Answer(r)
  /\ UNCHANGED <<orgs, products, partners, removed>>

-----------------------------------------------------------------------------
\* Products: the name is looked up within the organization, on creation only.
FindName(r, p, o, n) ==
  /\ Begins(r, "createProduct") /\ Fresh(p, products, {"insertProduct", "saveProduct"})
  /\ IF \E x \in products : x.org = o /\ x.name = n
     THEN Answer(r)
     ELSE Goto(r, "insertProduct", [id |-> p, org |-> o, name |-> n])
  /\ UNCHANGED <<orgs, products, partners, removed>>

\* Mutant: the table does not know the name is unique.
NoSuchOrg(row) == \A o \in orgs : o.id # row.org

\* The foreign key and the unique (organizationId, name).
ProductIsRefused(row) ==
  \/ \A o \in orgs : o.id # row.org
  \/ \E x \in products : x.id # row.id /\ x.org = row.org /\ x.name = row.name

StoreProduct(r) ==
  /\ IF ProductIsRefused(req[r].row)
     THEN products' = products /\ Answer(r)
     ELSE products' = Saved(products, req[r].row) /\ Answer(r)
  /\ UNCHANGED <<orgs, partners, removed>>

InsertProduct(r) == At(r, "insertProduct") /\ StoreProduct(r)

FindProduct(r, n) ==
  /\ Begins(r, "updateProduct")
  /\ \E p \in products : Goto(r, "saveProduct", [p EXCEPT !.name = n])
  /\ UNCHANGED <<orgs, products, partners, removed>>

SaveProduct(r) == At(r, "saveProduct") /\ StoreProduct(r)

-----------------------------------------------------------------------------
\* Mutant: the GSTIN is not looked up.
FindAnyGstin(r, p, g) ==
  /\ Begins(r, "createPartner")
  /\ Fresh(p, partners, {"insertPartner", "savePartner", "deletePartner"})
  /\ Goto(r, "insertPartner", [id |-> p, gstin |-> g])
  /\ UNCHANGED <<orgs, products, partners, removed>>

\* Partners: the tax number is looked up over all organizations, on creation
\* only, and no unique column backs the look-up.
FindGstin(r, p, g) ==
  /\ Begins(r, "createPartner")
  /\ Fresh(p, partners, {"insertPartner", "savePartner", "deletePartner"})
  /\ IF \E x \in partners : x.gstin = g
     THEN Answer(r)
     ELSE Goto(r, "insertPartner", [id |-> p, gstin |-> g])
  /\ UNCHANGED <<orgs, products, partners, removed>>

\* create(dto) leaves organizationId out.  Where the column takes that, the rows
\* have no organization and (organizationId, name) never clashes.
InsertPartner(r) ==
  /\ At(r, "insertPartner")
  /\ IF PartnerOrg = "required"
     THEN partners' = partners /\ Answer(r)
     ELSE partners' = Saved(partners, req[r].row) /\ Answer(r)
  /\ UNCHANGED <<orgs, products, removed>>

\* Mutant: what the request leaves out replaces what was stored.
ReplacePartner(r, g) ==
  /\ Begins(r, "updatePartner")
  /\ \E p \in partners : Goto(r, "savePartner", [id |-> p.id])
  /\ UNCHANGED <<orgs, products, partners, removed>>

FindPartner(r, g) ==
  /\ Begins(r, "updatePartner")
  /\ \E p \in partners : Goto(r, "savePartner", [p EXCEPT !.gstin = g])
  /\ UNCHANGED <<orgs, products, partners, removed>>

FindDoomedPartner(r) ==
  /\ Begins(r, "removePartner")
  /\ \E p \in partners : Goto(r, "deletePartner", p)
  /\ UNCHANGED <<orgs, products, partners, removed>>

SavePartner(r) ==
  /\ At(r, "savePartner")
  /\ partners' = Saved(partners, req[r].row)
  /\ Answer(r)
  /\ UNCHANGED <<orgs, products, removed>>

\* The invoices of a partner keep it: their foreign key refuses the delete.
RefuseDelete(r) ==
  /\ At(r, "deletePartner")
  /\ Answer(r)
  /\ UNCHANGED <<orgs, products, partners, removed>>

DeletePartner(r) ==
  /\ At(r, "deletePartner")
  /\ partners' = {p \in partners : p.id # req[r].row.id}
  /\ removed' = removed \cup {req[r].row.id}
  /\ Answer(r)
  /\ UNCHANGED <<orgs, products>>

\* A call fails or the process dies.
Abort(r) ==
  /\ Failures /\ req[r] # Idle
  /\ Answer(r)
  /\ UNCHANGED <<orgs, products, partners, removed>>

Next == \E r \in Requests :
  \/ \E o \in Orgs, g \in TaxNumbers : CreateOrg(r, o, g)
  \/ \E g \in TaxNumbers : FindOrg(r, g)
  \/ SaveOrg(r)
  \/ \E o \in Orgs : RemoveOrg(r, o) \/ KeepOrg(r, o)
  \/ \E p \in Products, o \in Orgs, n \in Names : FindName(r, p, o, n)
  \/ InsertProduct(r)
  \/ \E n \in Names : FindProduct(r, n)
  \/ SaveProduct(r)
  \/ \E p \in Partners, g \in TaxNumbers : FindGstin(r, p, g)
  \/ InsertPartner(r)
  \/ \E g \in TaxNumbers : FindPartner(r, g)
  \/ SavePartner(r)
  \/ FindDoomedPartner(r)
  \/ RefuseDelete(r) \/ DeletePartner(r)
  \/ Abort(r)

Spec == Init /\ [][Next]_vars

-----------------------------------------------------------------------------
\* Rows and handlers have the declared shape.
TypeOK ==
  /\ orgs \subseteq OrgRow /\ products \subseteq ProductRow /\ partners \subseteq PartnerRow
  /\ req \in [Requests -> {Idle} \cup Handler]
  /\ removed \subseteq Orgs \cup Partners /\ overlapped \in BOOLEAN

\* Whatever overlaps: a product has its organization, also when that is removed
\* between the look-up and the insert, and no namesake there.
CatalogIsConsistent ==
  /\ \A p \in products : \E o \in orgs : o.id = p.org
  /\ \A p, q \in products : p.org = q.org /\ p.name = q.name => p = q

\* While requests do not overlap, whatever fails: what was removed with success
\* does not come back.
RemovedStaysGone ==
  ~overlapped => removed \cap {x.id : x \in orgs \cup partners} = {}

\* business-partners.service.ts: 'GSTIN already exists'.  While requests do not
\* overlap, no partner is created with a tax number another partner has, whether
\* by its creation or by an update, which looks nothing up.
CreatedGstinIsFree ==
  [][\A r \in Requests :
       InsertPartner(r) /\ ~overlapped' => \A p \in partners : p.gstin # req[r].row.gstin]_vars
=============================================================================
