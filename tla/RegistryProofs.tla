--------------------------- MODULE RegistryProofs ---------------------------
(***************************************************************************)
(* Theorems about Registry, for every set of rows, names and tax numbers   *)
(* and any number of overlapping requests.                                 *)
(***************************************************************************)
EXTENDS Registry, TLAPS

OrgStages     == {"saveOrg"}
ProductStages == {"insertProduct", "saveProduct"}
PartnerStages == {"insertPartner", "savePartner", "deletePartner"}

\* What a handler holds at each stage.
LEMMA HeldRow ==
  ASSUME TypeOK, NEW r \in Requests
  PROVE  /\ req[r].pc \in OrgStages => req[r].row \in OrgRow
         /\ req[r].pc \in ProductStages => req[r].row \in ProductRow
         /\ req[r].pc \in PartnerStages => req[r].row \in PartnerRow
BY DEF TypeOK, Handler, Idle, OrgStages, ProductStages, PartnerStages

\* A handler that goes on, or is answered, leaves the other slots as they are.
LEMMA GotoType ==
  ASSUME TypeOK, NEW r \in Requests, NEW stage, NEW row,
         [pc |-> stage, row |-> row] \in Handler, Goto(r, stage, row)
  PROVE  /\ req' \in [Requests -> {Idle} \cup Handler] /\ overlapped' \in BOOLEAN
         /\ req'[r].pc = stage /\ req'[r].row = row
         /\ \A q \in Requests \ {r} : req'[q] = req[q]
<1> DEFINE h == [pc |-> stage, row |-> row]
<1>1. req' = [req EXCEPT ![r] = h] /\ h \in Handler /\ h.pc = stage /\ h.row = row
  BY DEF Goto
<1> HIDE DEF h
<1>. QED  BY <1>1 DEF TypeOK, Goto, NoteOverlap

LEMMA AnswerType ==
  ASSUME TypeOK, NEW r \in Requests, Answer(r)
  PROVE  /\ req' \in [Requests -> {Idle} \cup Handler] /\ overlapped' \in BOOLEAN
         /\ req'[r] = Idle /\ \A q \in Requests \ {r} : req'[q] = req[q]
BY DEF TypeOK, Answer, NoteOverlap

LEMMA SavedType ==
  ASSUME NEW R, NEW table \in SUBSET R, NEW row \in R
  PROVE  Saved(table, row) \in SUBSET R
BY DEF Saved

\* Every step, by the table it is about.
OrgSteps(r) ==
  \/ \E o \in Orgs, g \in TaxNumbers : CreateOrg(r, o, g)
  \/ \E g \in TaxNumbers : FindOrg(r, g)
  \/ SaveOrg(r)
  \/ \E o \in Orgs : RemoveOrg(r, o) \/ KeepOrg(r, o)

ProductSteps(r) ==
  \/ \E p \in Products, o \in Orgs, n \in Names : FindName(r, p, o, n)
  \/ InsertProduct(r)
  \/ \E n \in Names : FindProduct(r, n)
  \/ SaveProduct(r)

PartnerSteps(r) ==
  \/ \E p \in Partners, g \in TaxNumbers : FindGstin(r, p, g)
  \/ InsertPartner(r)
  \/ \E g \in TaxNumbers : FindPartner(r, g)
  \/ SavePartner(r)
  \/ FindDoomedPartner(r)
  \/ RefuseDelete(r) \/ DeletePartner(r)

LEMMA NextCases ==
  ASSUME Next
  PROVE  \E r \in Requests : OrgSteps(r) \/ ProductSteps(r) \/ PartnerSteps(r) \/ Abort(r)
BY DEF Next, OrgSteps, ProductSteps, PartnerSteps

-----------------------------------------------------------------------------
LEMMA OrgType ==
  ASSUME TypeOK, NEW r \in Requests, OrgSteps(r)
  PROVE  TypeOK'
<1>1. ASSUME NEW o \in Orgs, NEW g \in TaxNumbers, CreateOrg(r, o, g) PROVE TypeOK'
  <2> DEFINE row == [id |-> o, gstin |-> g]
  <2>1. row \in OrgRow
    BY DEF OrgRow
  <2>2. Answer(r) /\ (orgs' = orgs \/ orgs' = Saved(orgs, row))
    BY <1>1 DEF CreateOrg, StoreOrg
  <2> HIDE DEF row
  <2>. QED  BY <1>1, <2>1, <2>2, AnswerType DEF CreateOrg, TypeOK, Saved
<1>2. ASSUME NEW g \in TaxNumbers, FindOrg(r, g) PROVE TypeOK'
  <2>1. PICK o \in orgs : Goto(r, "saveOrg", [o EXCEPT !.gstin = g])
    BY <1>2 DEF FindOrg
  <2> DEFINE row == [o EXCEPT !.gstin = g]
  <2>2. row \in OrgRow /\ Goto(r, "saveOrg", row)
    BY <2>1 DEF TypeOK, OrgRow
  <2> HIDE DEF row
  <2>3. [pc |-> "saveOrg", row |-> row] \in Handler
    BY <2>2 DEF Handler
  <2>. QED  BY <1>2, <2>2, <2>3, GotoType DEF FindOrg, TypeOK
<1>3. ASSUME SaveOrg(r) PROVE TypeOK'
  <2>1. Answer(r) /\ (orgs' = orgs \/ orgs' = Saved(orgs, req[r].row)) /\ req[r].row \in OrgRow
    BY <1>3, HeldRow DEF SaveOrg, StoreOrg, At, OrgStages
  <2>. QED  BY <1>3, <2>1, AnswerType DEF SaveOrg, TypeOK, Saved
<1>4. ASSUME NEW o \in Orgs, RemoveOrg(r, o) PROVE TypeOK'
  BY <1>4, AnswerType DEF RemoveOrg, TypeOK
<1>5. ASSUME NEW o \in Orgs, KeepOrg(r, o) PROVE TypeOK'
  BY <1>5, AnswerType DEF KeepOrg, TypeOK
<1>. QED  BY <1>1, <1>2, <1>3, <1>4, <1>5 DEF OrgSteps

LEMMA ProductType ==
  ASSUME TypeOK, NEW r \in Requests, ProductSteps(r)
  PROVE  TypeOK'
<1>1. ASSUME NEW p \in Products, NEW o \in Orgs, NEW n \in Names, FindName(r, p, o, n)
      PROVE  TypeOK'
  <2> DEFINE row == [id |-> p, org |-> o, name |-> n]
  <2>1. row \in ProductRow
    BY DEF ProductRow
  <2>2. Answer(r) \/ Goto(r, "insertProduct", row)
    BY <1>1 DEF FindName
  <2> HIDE DEF row
  <2>3. [pc |-> "insertProduct", row |-> row] \in Handler
    BY <2>1 DEF Handler
  <2>4. req' \in [Requests -> {Idle} \cup Handler] /\ overlapped' \in BOOLEAN
    BY <2>2, <2>3, AnswerType, GotoType
  <2>. QED  BY <1>1, <2>4 DEF FindName, TypeOK
<1>2. ASSUME InsertProduct(r) \/ SaveProduct(r) PROVE TypeOK'
  <2>1. /\ Answer(r) /\ req[r].row \in ProductRow
        /\ products' = products \/ products' = Saved(products, req[r].row)
        /\ UNCHANGED <<orgs, partners, removed>>
    BY <1>2, HeldRow DEF InsertProduct, SaveProduct, StoreProduct, At, ProductStages
  <2>. QED  BY <2>1, AnswerType DEF TypeOK, Saved
<1>3. ASSUME NEW n \in Names, FindProduct(r, n) PROVE TypeOK'
  <2>1. PICK p \in products : Goto(r, "saveProduct", [p EXCEPT !.name = n])
    BY <1>3 DEF FindProduct
  <2> DEFINE row == [p EXCEPT !.name = n]
  <2>2. row \in ProductRow /\ Goto(r, "saveProduct", row)
    BY <2>1 DEF TypeOK, ProductRow
  <2> HIDE DEF row
  <2>3. [pc |-> "saveProduct", row |-> row] \in Handler
    BY <2>2 DEF Handler
  <2>. QED  BY <1>3, <2>2, <2>3, GotoType DEF FindProduct, TypeOK
<1>. QED  BY <1>1, <1>2, <1>3 DEF ProductSteps

LEMMA PartnerType ==
  ASSUME TypeOK, NEW r \in Requests, PartnerSteps(r)
  PROVE  TypeOK'
<1>1. ASSUME NEW p \in Partners, NEW g \in TaxNumbers, FindGstin(r, p, g) PROVE TypeOK'
  <2> DEFINE row == [id |-> p, gstin |-> g]
  <2>1. row \in PartnerRow
    BY DEF PartnerRow
  <2>2. Answer(r) \/ Goto(r, "insertPartner", row)
    BY <1>1 DEF FindGstin
  <2> HIDE DEF row
  <2>3. [pc |-> "insertPartner", row |-> row] \in Handler
    BY <2>1 DEF Handler
  <2>4. req' \in [Requests -> {Idle} \cup Handler] /\ overlapped' \in BOOLEAN
    BY <2>2, <2>3, AnswerType, GotoType
  <2>. QED  BY <1>1, <2>4 DEF FindGstin, TypeOK
<1>2. ASSUME InsertPartner(r) \/ SavePartner(r) PROVE TypeOK'
  <2>1. /\ Answer(r) /\ req[r].row \in PartnerRow
        /\ partners' = partners \/ partners' = Saved(partners, req[r].row)
        /\ UNCHANGED <<orgs, products, removed>>
    BY <1>2, HeldRow DEF InsertPartner, SavePartner, At, PartnerStages
  <2>. QED  BY <2>1, AnswerType DEF TypeOK, Saved
<1>3. ASSUME NEW g \in TaxNumbers, FindPartner(r, g) PROVE TypeOK'
  <2>1. PICK p \in partners : Goto(r, "savePartner", [p EXCEPT !.gstin = g])
    BY <1>3 DEF FindPartner
  <2> DEFINE row == [p EXCEPT !.gstin = g]
  <2>2. row \in PartnerRow /\ Goto(r, "savePartner", row)
    BY <2>1 DEF TypeOK, PartnerRow
  <2> HIDE DEF row
  <2>3. [pc |-> "savePartner", row |-> row] \in Handler
    BY <2>2 DEF Handler
  <2>. QED  BY <1>3, <2>2, <2>3, GotoType DEF FindPartner, TypeOK
<1>4. ASSUME FindDoomedPartner(r) PROVE TypeOK'
  <2>1. PICK p \in partners : Goto(r, "deletePartner", p)
    BY <1>4 DEF FindDoomedPartner
  <2>2. [pc |-> "deletePartner", row |-> p] \in Handler
    BY DEF TypeOK, Handler
  <2>. QED  BY <1>4, <2>1, <2>2, GotoType DEF FindDoomedPartner, TypeOK
<1>5. ASSUME RefuseDelete(r) PROVE TypeOK'
  BY <1>5, AnswerType DEF RefuseDelete, TypeOK
<1>6. ASSUME DeletePartner(r) PROVE TypeOK'
  <2>1. req[r].row.id \in Partners /\ Answer(r)
    BY <1>6, HeldRow DEF DeletePartner, At, PartnerStages, PartnerRow
  <2>. QED  BY <1>6, <2>1, AnswerType DEF DeletePartner, TypeOK
<1>. QED  BY <1>1, <1>2, <1>3, <1>4, <1>5, <1>6 DEF PartnerSteps

LEMMA TypeStep ==
  ASSUME TypeOK, [Next]_vars
  PROVE  TypeOK'
<1>1. CASE UNCHANGED vars
  BY <1>1 DEF TypeOK, vars
<1>2. ASSUME NEW r \in Requests, Abort(r) PROVE TypeOK'
  BY <1>2, AnswerType DEF Abort, TypeOK
<1>. QED  BY <1>1, <1>2, NextCases, OrgType, ProductType, PartnerType

\* Rows and handlers keep their shape, whatever overlaps or fails.
THEOREM TypeCorrect == Spec => []TypeOK
<1>1. Init => TypeOK
  BY DEF Init, TypeOK
<1>2. TypeOK /\ [Next]_vars => TypeOK'
  BY TypeStep
<1>. QED  BY <1>1, <1>2, PTL DEF Spec

-----------------------------------------------------------------------------
LEMMA CatalogStep ==
  ASSUME TypeOK, CatalogIsConsistent, [Next]_vars
  PROVE  CatalogIsConsistent'
<1>1. CASE UNCHANGED <<orgs, products>>
  BY <1>1 DEF CatalogIsConsistent
<1>2. ASSUME NEW r \in Requests, NEW row, orgs' = orgs \/ orgs' = Saved(orgs, row),
             UNCHANGED products
      PROVE  CatalogIsConsistent'
  BY <1>2 DEF CatalogIsConsistent, Saved
<1>3. ASSUME NEW r \in Requests, NEW o \in Orgs, RemoveOrg(r, o) PROVE CatalogIsConsistent'
  BY <1>3 DEF RemoveOrg, CatalogIsConsistent
<1>4. ASSUME NEW r \in Requests, StoreProduct(r) PROVE CatalogIsConsistent'
  BY <1>4 DEF StoreProduct, ProductIsRefused, Saved, CatalogIsConsistent
<1>5. ASSUME NEW r \in Requests, OrgSteps(r) PROVE CatalogIsConsistent'
  BY <1>1, <1>2, <1>3, <1>5 DEF OrgSteps, CreateOrg, FindOrg, SaveOrg, StoreOrg, KeepOrg
<1>6. ASSUME NEW r \in Requests, ProductSteps(r) PROVE CatalogIsConsistent'
  BY <1>1, <1>4, <1>6 DEF ProductSteps, FindName, InsertProduct, FindProduct, SaveProduct
<1>7. ASSUME NEW r \in Requests, PartnerSteps(r) \/ Abort(r) PROVE CatalogIsConsistent'
  BY <1>1, <1>7 DEF PartnerSteps, FindGstin, InsertPartner, FindPartner, SavePartner,
     FindDoomedPartner, RefuseDelete, DeletePartner, Abort
<1>. QED  BY <1>1, <1>5, <1>6, <1>7, NextCases DEF vars

\* Whatever overlaps: no product without its organization, no namesakes in one.
THEOREM CatalogStaysConsistent == Spec => []CatalogIsConsistent
<1>1. Init => CatalogIsConsistent
  BY DEF Init, CatalogIsConsistent
<1>2. TypeOK /\ CatalogIsConsistent /\ [Next]_vars => CatalogIsConsistent'
  BY CatalogStep
<1>. QED  BY <1>1, <1>2, TypeCorrect, PTL DEF Spec

-----------------------------------------------------------------------------
(***************************************************************************)
(* While requests do not overlap, what a handler read still holds: the row *)
(* it will save was not removed meanwhile, and the tax number it looked up *)
(* is still free.                                                          *)
(***************************************************************************)
Kept(id) == id \notin removed
Writes   == OrgStages \cup PartnerStages

LooksUpTrue(r) ==
  /\ req[r].pc \in Writes => Kept(req[r].row.id)
  /\ At(r, "insertPartner") => \A p \in partners : p.gstin # req[r].row.gstin

AloneInv ==
  ~overlapped => /\ \A r \in Requests : LooksUpTrue(r)
                 /\ \A x \in orgs \cup partners : Kept(x.id)

\* A step that notes no overlap is taken while the other slots are idle; all
\* there is to show then is the slot's own look-up.
LEMMA AloneSlot ==
  ASSUME TypeOK, NEW r \in Requests, NoteOverlap(r), ~overlapped',
         \A q \in Requests \ {r} : req'[q] = req[q],
         LooksUpTrue(r)'
  PROVE  ~overlapped /\ \A q \in Requests : LooksUpTrue(q)'
<1>1. ~overlapped /\ \A q \in Requests \ {r} : req[q] = Idle
  BY DEF NoteOverlap
<1>2. ASSUME NEW q \in Requests \ {r} PROVE LooksUpTrue(q)'
  <2>1. req'[q].pc = "idle"
    BY <1>1 DEF Idle
  <2>. QED  BY <2>1 DEF LooksUpTrue, At, Writes, OrgStages, PartnerStages
<1>. QED  BY <1>1, <1>2

LEMMA IdleIsTrue ==
  ASSUME NEW r, req'[r] = Idle
  PROVE  LooksUpTrue(r)'
BY DEF LooksUpTrue, At, Idle, Writes, OrgStages, PartnerStages

LEMMA AnsweredAlone ==
  ASSUME TypeOK, NEW r \in Requests, Answer(r), ~overlapped'
  PROVE  ~overlapped /\ \A q \in Requests : LooksUpTrue(q)'
BY AnswerType, IdleIsTrue, AloneSlot DEF Answer

LEMMA SavedKept ==
  ASSUME NEW table, NEW row, Kept(row.id), \A x \in table : Kept(x.id)
  PROVE  \A x \in Saved(table, row) : Kept(x.id)
BY DEF Saved

LEMMA OrgAlone ==
  ASSUME TypeOK, AloneInv, NEW r \in Requests, OrgSteps(r), ~overlapped'
  PROVE  /\ \A q \in Requests : LooksUpTrue(q)'
         /\ \A x \in orgs' \cup partners' : Kept(x.id)'
<1>1. ASSUME NEW row, Answer(r), orgs' = orgs \/ orgs' = Saved(orgs, row),
             ~overlapped => Kept(row.id), UNCHANGED <<partners, removed>>
      PROVE  /\ \A q \in Requests : LooksUpTrue(q)'
             /\ \A x \in orgs' \cup partners' : Kept(x.id)'
  <2>1. ~overlapped /\ \A q \in Requests : LooksUpTrue(q)'
    BY <1>1, AnsweredAlone
  <2>2. \A x \in orgs' \cup partners : Kept(x.id)
    BY <1>1, <2>1, SavedKept DEF AloneInv
  <2>. QED  BY <1>1, <2>1, <2>2 DEF Kept
<1>2. ASSUME NEW o \in Orgs, NEW g \in TaxNumbers, CreateOrg(r, o, g)
      PROVE  /\ \A q \in Requests : LooksUpTrue(q)'
             /\ \A x \in orgs' \cup partners' : Kept(x.id)'
  <2> DEFINE row == [id |-> o, gstin |-> g]
  <2>1. /\ Answer(r) /\ (orgs' = orgs \/ orgs' = Saved(orgs, row)) /\ Kept(row.id)
        /\ UNCHANGED <<partners, removed>>
    BY <1>2 DEF CreateOrg, StoreOrg, Fresh, Kept
  <2> HIDE DEF row
  <2>. QED  BY <1>1, <2>1
<1>3. ASSUME NEW g \in TaxNumbers, FindOrg(r, g)
      PROVE  /\ \A q \in Requests : LooksUpTrue(q)'
             /\ \A x \in orgs' \cup partners' : Kept(x.id)'
  <2>1. PICK o \in orgs : Goto(r, "saveOrg", [o EXCEPT !.gstin = g])
    BY <1>3 DEF FindOrg
  <2> DEFINE row == [o EXCEPT !.gstin = g]
  <2>2. row \in OrgRow /\ row.id = o.id /\ Goto(r, "saveOrg", row)
    BY <2>1 DEF TypeOK, OrgRow
  <2> HIDE DEF row
  <2>3. [pc |-> "saveOrg", row |-> row] \in Handler
    BY <2>2 DEF Handler
  <2>4. /\ req'[r].pc = "saveOrg" /\ req'[r].row = row /\ NoteOverlap(r)
        /\ \A q \in Requests \ {r} : req'[q] = req[q]
        /\ UNCHANGED <<orgs, partners, removed>>
    BY <1>3, <2>2, <2>3, GotoType DEF Goto, FindOrg
  <2>5. ~overlapped
    BY <2>4 DEF NoteOverlap
  <2>6. LooksUpTrue(r)'
    BY <2>2, <2>4, <2>5 DEF AloneInv, LooksUpTrue, At, Kept
  <2>. QED  BY <2>4, <2>5, <2>6, AloneSlot DEF AloneInv, Kept
<1>4. ASSUME SaveOrg(r)
      PROVE  /\ \A q \in Requests : LooksUpTrue(q)'
             /\ \A x \in orgs' \cup partners' : Kept(x.id)'
  <2>1. /\ Answer(r) /\ (orgs' = orgs \/ orgs' = Saved(orgs, req[r].row))
        /\ UNCHANGED <<partners, removed>> /\ req[r].pc \in Writes
    BY <1>4 DEF SaveOrg, StoreOrg, At, Writes, OrgStages
  <2>2. ~overlapped => Kept(req[r].row.id)
    BY <2>1 DEF AloneInv, LooksUpTrue
  <2>. QED  BY <1>1, <2>1, <2>2
<1>5. ASSUME NEW o \in Orgs, RemoveOrg(r, o)
      PROVE  /\ \A q \in Requests : LooksUpTrue(q)'
             /\ \A x \in orgs' \cup partners' : Kept(x.id)'
  <2>1. ~overlapped /\ \A q \in Requests : LooksUpTrue(q)'
    BY <1>5, AnsweredAlone DEF RemoveOrg
  <2>2. \A p \in partners : p.id # o
    BY KeysAreDistinct DEF TypeOK, PartnerRow
  <2>. QED  BY <1>5, <2>1, <2>2 DEF RemoveOrg, AloneInv, Kept
<1>6. ASSUME NEW o \in Orgs, KeepOrg(r, o)
      PROVE  /\ \A q \in Requests : LooksUpTrue(q)'
             /\ \A x \in orgs' \cup partners' : Kept(x.id)'
  BY <1>6, AnsweredAlone DEF KeepOrg, AloneInv, Kept
<1>. QED  BY <1>2, <1>3, <1>4, <1>5, <1>6 DEF OrgSteps

LEMMA ProductAlone ==
  ASSUME TypeOK, AloneInv, NEW r \in Requests, ProductSteps(r), ~overlapped'
  PROVE  /\ \A q \in Requests : LooksUpTrue(q)'
         /\ \A x \in orgs' \cup partners' : Kept(x.id)'
<1>1. UNCHANGED <<orgs, partners, removed>> /\ NoteOverlap(r)
  BY DEF ProductSteps, FindName, InsertProduct, FindProduct, SaveProduct, StoreProduct,
         Answer, Goto
<1>2. req'[r] = Idle \/ req'[r].pc \in ProductStages
  BY DEF TypeOK, ProductSteps, FindName, InsertProduct, FindProduct, SaveProduct,
         StoreProduct, Answer, Goto, ProductStages
<1>3. \A q \in Requests \ {r} : req'[q] = req[q]
  BY DEF TypeOK, ProductSteps, FindName, InsertProduct, FindProduct, SaveProduct,
         StoreProduct, Answer, Goto
<1>4. LooksUpTrue(r)'
  BY <1>2 DEF LooksUpTrue, At, Idle, Writes, OrgStages, PartnerStages, ProductStages
<1>. QED  BY <1>1, <1>3, <1>4, AloneSlot DEF AloneInv, Kept

LEMMA PartnerAlone ==
  ASSUME TypeOK, AloneInv, NEW r \in Requests, PartnerSteps(r), ~overlapped'
  PROVE  /\ \A q \in Requests : LooksUpTrue(q)'
         /\ \A x \in orgs' \cup partners' : Kept(x.id)'
<1>1. ASSUME Answer(r), UNCHANGED <<orgs, partners, removed>>
      PROVE  /\ \A q \in Requests : LooksUpTrue(q)'
             /\ \A x \in orgs' \cup partners' : Kept(x.id)'
  BY <1>1, AnsweredAlone DEF AloneInv, Kept
<1>2. ASSUME NEW stage \in PartnerStages, NEW row \in PartnerRow, Goto(r, stage, row),
             UNCHANGED <<orgs, partners, removed>>, ~overlapped => Kept(row.id),
             stage = "insertPartner" => \A x \in partners : x.gstin # row.gstin
      PROVE  /\ \A q \in Requests : LooksUpTrue(q)'
             /\ \A x \in orgs' \cup partners' : Kept(x.id)'
  <2>1. [pc |-> stage, row |-> row] \in Handler
    BY DEF Handler, PartnerStages
  <2>2. /\ req'[r].pc = stage /\ req'[r].row = row /\ NoteOverlap(r)
        /\ \A q \in Requests \ {r} : req'[q] = req[q]
    BY <1>2, <2>1, GotoType DEF Goto
  <2>3. ~overlapped
    BY <2>2 DEF NoteOverlap
  <2>4. LooksUpTrue(r)'
    BY <1>2, <2>2, <2>3 DEF LooksUpTrue, At, Kept
  <2>. QED  BY <1>2, <2>2, <2>3, <2>4, AloneSlot DEF AloneInv, Kept
<1>3. ASSUME NEW p \in Partners, NEW g \in TaxNumbers, FindGstin(r, p, g)
      PROVE  /\ \A q \in Requests : LooksUpTrue(q)'
             /\ \A x \in orgs' \cup partners' : Kept(x.id)'
  <2> DEFINE row == [id |-> p, gstin |-> g]
  <2>1. row \in PartnerRow /\ row.gstin = g /\ Kept(row.id)
    BY <1>3 DEF FindGstin, PartnerRow, Fresh, Kept
  <2>2. /\ UNCHANGED <<orgs, partners, removed>>
        /\ \/ Answer(r)
           \/ Goto(r, "insertPartner", row) /\ \A x \in partners : x.gstin # g
    BY <1>3 DEF FindGstin
  <2> HIDE DEF row
  <2>. QED  BY <1>1, <1>2, <2>1, <2>2 DEF PartnerStages
<1>4. ASSUME InsertPartner(r) \/ SavePartner(r)
      PROVE  /\ \A q \in Requests : LooksUpTrue(q)'
             /\ \A x \in orgs' \cup partners' : Kept(x.id)'
  <2>1. /\ Answer(r) /\ (partners' = partners \/ partners' = Saved(partners, req[r].row))
        /\ UNCHANGED <<orgs, removed>> /\ req[r].pc \in Writes
    BY <1>4 DEF InsertPartner, SavePartner, At, Writes, PartnerStages
  <2>2. ~overlapped /\ \A q \in Requests : LooksUpTrue(q)'
    BY <2>1, AnsweredAlone
  <2>3. Kept(req[r].row.id)
    BY <2>1, <2>2 DEF AloneInv, LooksUpTrue
  <2>4. \A x \in orgs \cup partners' : Kept(x.id)
    BY <2>1, <2>2, <2>3, SavedKept DEF AloneInv
  <2>. QED  BY <2>1, <2>2, <2>4 DEF Kept
<1>5. ASSUME NEW g \in TaxNumbers, FindPartner(r, g)
      PROVE  /\ \A q \in Requests : LooksUpTrue(q)'
             /\ \A x \in orgs' \cup partners' : Kept(x.id)'
  <2>1. PICK p \in partners : Goto(r, "savePartner", [p EXCEPT !.gstin = g])
    BY <1>5 DEF FindPartner
  <2> DEFINE row == [p EXCEPT !.gstin = g]
  <2>2. row \in PartnerRow /\ row.id = p.id /\ Goto(r, "savePartner", row)
    BY <2>1 DEF TypeOK, PartnerRow
  <2> HIDE DEF row
  <2>3. ~overlapped => Kept(row.id)
    BY <2>2 DEF AloneInv
  <2>4. UNCHANGED <<orgs, partners, removed>> /\ "savePartner" \in PartnerStages
    BY <1>5 DEF FindPartner, PartnerStages
  <2>. QED  BY <1>2, <2>2, <2>3, <2>4
<1>6. ASSUME FindDoomedPartner(r)
      PROVE  /\ \A q \in Requests : LooksUpTrue(q)'
             /\ \A x \in orgs' \cup partners' : Kept(x.id)'
  <2>1. PICK p \in partners : Goto(r, "deletePartner", p)
    BY <1>6 DEF FindDoomedPartner
  <2>2. p \in PartnerRow /\ (~overlapped => Kept(p.id))
    BY DEF TypeOK, AloneInv
  <2>3. UNCHANGED <<orgs, partners, removed>> /\ "deletePartner" \in PartnerStages
    BY <1>6 DEF FindDoomedPartner, PartnerStages
  <2>. QED  BY <1>2, <2>1, <2>2, <2>3
<1>7. ASSUME RefuseDelete(r)
      PROVE  /\ \A q \in Requests : LooksUpTrue(q)'
             /\ \A x \in orgs' \cup partners' : Kept(x.id)'
  BY <1>1, <1>7 DEF RefuseDelete
<1>8. ASSUME DeletePartner(r)
      PROVE  /\ \A q \in Requests : LooksUpTrue(q)'
             /\ \A x \in orgs' \cup partners' : Kept(x.id)'
  <2>1. ~overlapped /\ \A q \in Requests : LooksUpTrue(q)'
    BY <1>8, AnsweredAlone DEF DeletePartner
  <2>2. req[r].row.id \in Partners
    BY <1>8, HeldRow DEF DeletePartner, At, PartnerStages, PartnerRow
  <2>3. \A o \in orgs : o.id # req[r].row.id
    BY <2>2, KeysAreDistinct DEF TypeOK, OrgRow
  <2>. QED  BY <1>8, <2>1, <2>3 DEF DeletePartner, AloneInv, Kept
<1>. QED  BY <1>3, <1>4, <1>5, <1>6, <1>7, <1>8 DEF PartnerSteps

LEMMA AloneStep ==
  ASSUME TypeOK, AloneInv, [Next]_vars
  PROVE  AloneInv'
<1>1. CASE UNCHANGED vars
  BY <1>1 DEF AloneInv, LooksUpTrue, Kept, At, vars
<1>2. CASE Next
  <2> SUFFICES ASSUME ~overlapped'
               PROVE  /\ \A q \in Requests : LooksUpTrue(q)'
                      /\ \A x \in orgs' \cup partners' : Kept(x.id)'
    BY DEF AloneInv
  <2>1. ASSUME NEW r \in Requests, Abort(r)
        PROVE  /\ \A q \in Requests : LooksUpTrue(q)'
               /\ \A x \in orgs' \cup partners' : Kept(x.id)'
    BY <2>1, AnsweredAlone DEF Abort, AloneInv, Kept
  <2>. QED  BY <1>2, <2>1, NextCases, OrgAlone, ProductAlone, PartnerAlone
<1>. QED  BY <1>1, <1>2

LEMMA AloneHolds == Spec => []AloneInv
<1>1. Init => AloneInv
  BY DEF Init, AloneInv, LooksUpTrue, At, Idle, Writes, OrgStages, PartnerStages
<1>2. TypeOK /\ AloneInv /\ [Next]_vars => AloneInv'
  BY AloneStep
<1>. QED  BY <1>1, <1>2, TypeCorrect, PTL DEF Spec

\* For a client that waits for its answers, a removed organization or partner is
\* not stored again by a save that read it before.
THEOREM RemovalsLast == Spec => []RemovedStaysGone
<1>1. AloneInv => RemovedStaysGone
  BY DEF AloneInv, Kept, RemovedStaysGone
<1>. QED  BY <1>1, AloneHolds, PTL

\* For the same client, the tax number a new partner gets is nobody's.
THEOREM GstinsAreChecked == Spec => CreatedGstinIsFree
<1>1. TypeOK /\ AloneInv /\ [Next]_vars =>
        [\A r \in Requests : InsertPartner(r) /\ ~overlapped' =>
           \A p \in partners : p.gstin # req[r].row.gstin]_vars
  <2> SUFFICES ASSUME TypeOK, AloneInv, NEW r \in Requests, InsertPartner(r), ~overlapped'
               PROVE  \A p \in partners : p.gstin # req[r].row.gstin
    OBVIOUS
  <2>1. ~overlapped /\ At(r, "insertPartner")
    BY DEF InsertPartner, Answer, NoteOverlap
  <2>. QED  BY <2>1 DEF AloneInv, LooksUpTrue
<1>. QED  BY <1>1, TypeCorrect, AloneHolds, PTL DEF Spec, CreatedGstinIsFree
=============================================================================
