------------------------- MODULE ProductCatalogProofs -------------------------
(***************************************************************************)
(* Theorems about the catalog, for any numbers of handlers, names,         *)
(* categories and faults.                                                  *)
(***************************************************************************)
EXTENDS ProductCatalog, TLAPS

CatSteps == {"idle", "seller", "insert", "read", "write", "report", "verdict"}
Slot == [step : CatSteps, verdict : BOOLEAN, seen : Details, sent : Payload]

-----------------------------------------------------------------------------
(* Payloads and the rows they make.                                        *)

\* What a valid payload makes of a consistent row is a consistent row.
LEMMA EditedConsistent ==
  ASSUME NEW row \in Details, NEW sent \in Payload, Consistent(row), Valid(row, sent)
  PROVE  Edited(row, sent) \in Details /\ Consistent(Edited(row, sent))
<1>1. Pick(sent.name, row.name) \in Names
  BY DEF Pick, Details, Payload
<1>2. African(row, sent) \in {"yes", "no"}
  BY DEF African, Pick, Details, Payload
<1>3. Category(row, sent) \in Categories \cup {"null"}
  BY DEF Category, Pick, Details, Payload
<1>4. African(row, sent) = "yes" => Category(row, sent) # "null"
  BY DEF Valid
<1> QED
  BY <1>1, <1>2, <1>3, <1>4 DEF Edited, Details, Consistent

LEMMA UnlistedConsistent ==
  ASSUME NEW n \in Names
  PROVE  Unlisted(n) \in Details /\ Consistent(Unlisted(n))
BY DEF Unlisted, Details, Consistent

LEMMA IdleInSlot ==
  /\ Idle \in Slot
  /\ Consistent(Idle.seen)
  /\ \A step \in CatSteps, sent \in Payload : [Idle EXCEPT !.step = step, !.sent = sent] \in Slot
  /\ \A step \in CatSteps, v \in BOOLEAN : [Idle EXCEPT !.step = step, !.verdict = v] \in Slot
<1>1. Unlisted(CHOOSE n \in Names : TRUE) \in Details /\ Consistent(Unlisted(CHOOSE n \in Names : TRUE))
  BY ConstantsAssumption, UnlistedConsistent
<1>2. Idle \in Slot
  BY <1>1 DEF Idle, Slot, CatSteps, Payload
<1> QED
  BY <1>1, <1>2 DEF Idle, Slot, CatSteps

-----------------------------------------------------------------------------
(* The inductive invariant.                                                *)

\* What a handler has read and checked so far.
HandlersInv ==
  \A r \in Requests :
    /\ At(r, "insert") => /\ approved
                          /\ req[r].sent.name \in Names
                          /\ Valid(Unlisted(req[r].sent.name), req[r].sent)
    /\ At(r, "seller") => req[r].sent.name \in Names
    /\ At(r, "write") => Consistent(req[r].seen) /\ Valid(req[r].seen, req[r].sent)
    /\ At(r, "verdict") => req[r].verdict \in reports

CatalogInv ==
  /\ TypeOK /\ CategoryMatches /\ VerdictBacked /\ ListedOnceApproved /\ HandlersInv
  /\ seller = "VERIFIED" => approved

LEMMA InitCatalog == Init => CatalogInv
<1> SUFFICES ASSUME Init PROVE CatalogInv
  OBVIOUS
<1>1. req \in [Requests -> Slot] /\ Idle.seen \in Details
  BY IdleInSlot DEF Init, Slot
<1>2. TypeOK
  <2>1. product \in [listed : BOOLEAN, details : Details, verification_status : ProductStatuses,
                     authenticity_status : {"UNVERIFIED", "VERIFIED", "REJECTED"}]
    BY <1>1 DEF Init, ProductStatuses
  <2>2. faults \in 0..MaxFaults
    BY ConstantsAssumption DEF Init
  <2>3. req \in [Requests -> [step : CatSteps, verdict : BOOLEAN, seen : Details, sent : Payload]]
    BY <1>1 DEF Slot
  <2> QED
    BY <2>1, <2>2, <2>3 DEF Init, TypeOK, CatSteps
<1> QED
  BY <1>2, IdleInSlot
  DEF Init, CatalogInv, CategoryMatches, VerdictBacked, ListedOnceApproved, HandlersInv, At, Idle

\* A handler that ends, and one that goes on, leave a slot of the right type.
LEMMA SlotsStay ==
  ASSUME TypeOK, NEW r \in Requests, NEW rec \in Slot, req' = [req EXCEPT ![r] = rec]
  PROVE  req' \in [Requests -> Slot]
BY DEF TypeOK, Slot, CatSteps

LEMMA GotoStays ==
  ASSUME TypeOK, NEW r \in Requests, NEW step \in CatSteps, Goto(r, step)
  PROVE  req' \in [Requests -> Slot]
BY DEF TypeOK, Slot, CatSteps, Goto

LEMMA NextCatalog == CatalogInv /\ [Next]_vars => CatalogInv'
<1> SUFFICES ASSUME CatalogInv, [Next]_vars PROVE CatalogInv'
  OBVIOUS
<1> USE DEF At
<1>0. /\ TypeOK /\ CategoryMatches /\ VerdictBacked /\ ListedOnceApproved /\ HandlersInv
      /\ req \in [Requests -> Slot] /\ (seller = "VERIFIED" => approved)
  BY DEF CatalogInv, TypeOK, Slot, CatSteps
<1>1. CASE UNCHANGED vars
  BY <1>0, <1>1 DEF vars, CatalogInv, TypeOK, CategoryMatches, VerdictBacked, ListedOnceApproved,
     HandlersInv
<1>2. CASE \/ get_seller_profile \/ submit_seller_verification
           \/ \E status \in SellerStatuses : update_admin_seller_verification(status)
  BY <1>0, <1>2 DEF get_seller_profile, submit_seller_verification, SellerStatuses,
     update_admin_seller_verification, CatalogInv, TypeOK, CategoryMatches, VerdictBacked,
     ListedOnceApproved, HandlersInv
<1>3. ASSUME NEW status \in ProductStatuses, verify_product(status) PROVE CatalogInv'
  <2>1. TypeOK'
    BY <1>0, <1>3 DEF verify_product, TypeOK, ProductStatuses
  <2>2. CategoryMatches' /\ VerdictBacked' /\ ListedOnceApproved'
    BY <1>0, <1>3 DEF verify_product, TypeOK, CategoryMatches, VerdictBacked, ListedOnceApproved
  <2> QED
    BY <1>0, <1>3, <2>1, <2>2 DEF verify_product, CatalogInv, HandlersInv
<1>4. ASSUME NEW r \in Requests, StartCreate(r) PROVE CatalogInv'
  <2>1. PICK sent \in Payload : sent.name # "unsent"
                /\ req' = [req EXCEPT ![r] = [Idle EXCEPT !.step = "seller", !.sent = sent]]
    BY <1>4 DEF StartCreate, Begin
  <2>2. req' \in [Requests -> Slot]
    BY <1>0, <2>1, IdleInSlot, SlotsStay DEF CatSteps
  <2>3. sent.name \in Names
    BY <2>1 DEF Payload
  <2>4. HandlersInv'
    BY <1>0, <1>4, <2>1, <2>3 DEF StartCreate, HandlersInv, Idle
  <2>5. UNCHANGED <<seller, approved, product, reports, vouched, faults>>
    BY <1>4 DEF StartCreate
  <2> QED
    BY <1>0, <2>2, <2>4, <2>5
    DEF CatalogInv, TypeOK, Slot, CatSteps, CategoryMatches, VerdictBacked, ListedOnceApproved
<1>5. ASSUME NEW r \in Requests, CheckSeller(r) PROVE CatalogInv'
  <2>1. req' \in [Requests -> Slot]
    BY <1>0, <1>5, IdleInSlot, SlotsStay, GotoStays DEF CheckSeller, End, CatSteps
  <2>2. ASSUME End(r) PROVE HandlersInv'
    BY <1>0, <1>5, <2>2 DEF CheckSeller, End, HandlersInv, Idle
  <2>3. ASSUME ~End(r) PROVE HandlersInv'
    <3>1. Goto(r, "insert") /\ approved /\ Valid(Unlisted(req[r].sent.name), req[r].sent)
      BY <1>0, <1>5, <2>3 DEF CheckSeller, MayList
    <3>2. req[r].sent.name \in Names
      BY <1>0, <1>5 DEF CheckSeller, HandlersInv
    <3>3. /\ req'[r].step = "insert" /\ req'[r].sent = req[r].sent
          /\ \A s \in Requests \ {r} : req'[s] = req[s]
      BY <1>0, <3>1 DEF Goto, Slot
    <3> QED
      BY <1>0, <1>5, <3>1, <3>2, <3>3 DEF CheckSeller, HandlersInv
  <2>4. HandlersInv'
    BY <2>2, <2>3
  <2> QED
    BY <1>0, <1>5, <2>1, <2>4
    DEF CheckSeller, CatalogInv, TypeOK, Slot, CatSteps, CategoryMatches, VerdictBacked, ListedOnceApproved
<1>6. ASSUME NEW r \in Requests, InsertProduct(r) PROVE CatalogInv'
  <2>1. req' \in [Requests -> Slot] /\ req[r].sent \in Payload
    BY <1>0, <1>6, IdleInSlot, SlotsStay DEF InsertProduct, End, Slot
  <2>2. HandlersInv'
    BY <1>0, <1>6 DEF InsertProduct, End, HandlersInv, Idle
  <2>3. /\ approved /\ req[r].sent.name \in Names
        /\ Valid(Unlisted(req[r].sent.name), req[r].sent)
    BY <1>0, <1>6 DEF InsertProduct, HandlersInv
  <2>4. LET row == Edited(Unlisted(req[r].sent.name), req[r].sent)
        IN  row \in Details /\ Consistent(row)
    BY <2>1, <2>3, UnlistedConsistent, EditedConsistent
  <2>5. product'.details \in Details /\ Consistent(product'.details)
    BY <1>0, <1>6, <2>4 DEF InsertProduct, CategoryMatches, TypeOK
  <2>6. /\ product' \in [listed : BOOLEAN, details : Details, verification_status : ProductStatuses,
                         authenticity_status : {"UNVERIFIED", "VERIFIED", "REJECTED"}]
        /\ product'.authenticity_status = product.authenticity_status
    BY <1>0, <1>6, <2>4 DEF InsertProduct, TypeOK
  <2> QED
    BY <1>0, <1>6, <2>1, <2>2, <2>3, <2>5, <2>6
    DEF InsertProduct, CatalogInv, TypeOK, Slot, CatSteps, CategoryMatches, VerdictBacked, ListedOnceApproved
<1>7. ASSUME NEW r \in Requests, StartUpdate(r) PROVE CatalogInv'
  <2>1. PICK sent \in Payload : req' = [req EXCEPT ![r] = [Idle EXCEPT !.step = "read", !.sent = sent]]
    BY <1>7 DEF StartUpdate, Begin
  <2>2. req' \in [Requests -> Slot]
    BY <1>0, <2>1, IdleInSlot, SlotsStay DEF CatSteps
  <2>3. HandlersInv'
    BY <1>0, <1>7, <2>1 DEF StartUpdate, HandlersInv, Idle
  <2>5. UNCHANGED <<seller, approved, product, reports, vouched, faults>>
    BY <1>7 DEF StartUpdate
  <2> QED
    BY <1>0, <2>2, <2>3, <2>5
    DEF CatalogInv, TypeOK, Slot, CatSteps, CategoryMatches, VerdictBacked, ListedOnceApproved
<1>8. ASSUME NEW r \in Requests, ReadProduct(r) PROVE CatalogInv'
  <2>1. product.details \in Details
    BY <1>0 DEF TypeOK
  <2>2. [req[r] EXCEPT !.step = "write", !.seen = product.details] \in Slot
    BY <1>0, <2>1 DEF Slot, CatSteps
  <2>3. req' \in [Requests -> Slot]
    <3>1. \/ req' = [req EXCEPT ![r] = Idle]
          \/ req' = [req EXCEPT ![r] = [req[r] EXCEPT !.step = "write", !.seen = product.details]]
      BY <1>0, <1>8 DEF ReadProduct, End
    <3> QED
      BY <1>0, <2>2, <3>1, IdleInSlot, SlotsStay
  <2>4. HandlersInv'
    BY <1>0, <1>8 DEF ReadProduct, End, HandlersInv, Idle, CategoryMatches, Slot
  <2> QED
    BY <1>0, <1>8, <2>3, <2>4
    DEF ReadProduct, CatalogInv, TypeOK, Slot, CatSteps, CategoryMatches, VerdictBacked, ListedOnceApproved
<1>9. ASSUME NEW r \in Requests, WriteProduct(r) PROVE CatalogInv'
  <2>1. req' \in [Requests -> Slot] /\ req[r].sent \in Payload /\ req[r].seen \in Details
    BY <1>0, <1>9, IdleInSlot, SlotsStay DEF WriteProduct, End, Slot
  <2>2. HandlersInv'
    BY <1>0, <1>9 DEF WriteProduct, End, HandlersInv, Idle
  <2>3. AllColumns(req[r]) \in Details /\ Consistent(AllColumns(req[r]))
    BY <1>0, <1>9, <2>1, EditedConsistent DEF WriteProduct, HandlersInv, AllColumns
  <2> QED
    BY <1>0, <1>9, <2>1, <2>2, <2>3
    DEF WriteProduct, CatalogInv, TypeOK, Slot, CatSteps, CategoryMatches, VerdictBacked, ListedOnceApproved
<1>10. ASSUME NEW r \in Requests, StartInspection(r) PROVE CatalogInv'
  <2>1. PICK v \in BOOLEAN : req' = [req EXCEPT ![r] = [Idle EXCEPT !.step = "report", !.verdict = v]]
    BY <1>10 DEF StartInspection, Begin, InspectionSteps
  <2>2. req' \in [Requests -> Slot]
    BY <1>0, <2>1, IdleInSlot, SlotsStay DEF CatSteps
  <2>3. HandlersInv'
    BY <1>0, <1>10, <2>1 DEF StartInspection, HandlersInv, Idle
  <2>5. UNCHANGED <<seller, approved, product, reports, vouched, faults>>
    BY <1>10 DEF StartInspection
  <2> QED
    BY <1>0, <2>2, <2>3, <2>5
    DEF CatalogInv, TypeOK, Slot, CatSteps, CategoryMatches, VerdictBacked, ListedOnceApproved
<1>11. ASSUME NEW r \in Requests, InsertReport(r) PROVE CatalogInv'
  <2>1. Goto(r, "verdict")
    BY <1>11 DEF InsertReport, Onward, InspectionSteps
  <2>2. req' \in [Requests -> Slot] /\ req[r].verdict \in BOOLEAN
    BY <1>0, <2>1, GotoStays DEF CatSteps, Slot
  <2>3. HandlersInv'
    BY <1>0, <1>11, <2>1 DEF InsertReport, Goto, HandlersInv, Slot
  <2> QED
    BY <1>0, <1>11, <2>2, <2>3
    DEF InsertReport, CatalogInv, TypeOK, Slot, CatSteps, CategoryMatches, VerdictBacked, ListedOnceApproved
<1>12. ASSUME NEW r \in Requests, UpdateVerdict(r) PROVE CatalogInv'
  <2>1. End(r)
    BY <1>12 DEF UpdateVerdict, Onward, InspectionSteps
  <2>2. req' \in [Requests -> Slot] /\ req[r].verdict \in BOOLEAN /\ req[r].verdict \in reports
    BY <1>0, <1>12, <2>1, IdleInSlot, SlotsStay DEF End, Slot, HandlersInv, UpdateVerdict
  <2>3. HandlersInv'
    BY <1>0, <1>12, <2>1 DEF UpdateVerdict, End, HandlersInv, Idle
  <2>4. VerdictBacked'
    BY <1>0, <1>12, <2>2 DEF UpdateVerdict, VerdictBacked, TypeOK
  <2> QED
    BY <1>0, <1>12, <2>2, <2>3, <2>4
    DEF UpdateVerdict, CatalogInv, TypeOK, Slot, CatSteps, ProductStatuses, CategoryMatches, ListedOnceApproved
<1>13. ASSUME NEW r \in Requests, Abort(r) PROVE CatalogInv'
  <2>1. req' \in [Requests -> Slot]
    BY <1>0, <1>13, IdleInSlot, SlotsStay DEF Abort, End
  <2>2. HandlersInv'
    BY <1>0, <1>13 DEF Abort, End, HandlersInv, Idle
  <2>3. faults' \in 0..MaxFaults
    BY <1>0, <1>13, ConstantsAssumption DEF Abort, TypeOK
  <2> QED
    BY <1>0, <1>13, <2>1, <2>2, <2>3
    DEF Abort, CatalogInv, TypeOK, Slot, CatSteps, CategoryMatches, VerdictBacked, ListedOnceApproved
<1> QED
  BY <1>1, <1>2, <1>3, <1>4, <1>5, <1>6, <1>7, <1>8, <1>9, <1>10, <1>11, <1>12, <1>13
  DEF Next, Handler

-----------------------------------------------------------------------------
\* Every variable keeps its type.
THEOREM TypeCorrect == Spec => []TypeOK
BY InitCatalog, NextCatalog, PTL DEF Spec, CatalogInv

\* However edits overlap, a product has a category exactly when it is African-made.
THEOREM CategoryCorrect == Spec => []CategoryMatches
BY InitCatalog, NextCatalog, PTL DEF Spec, CatalogInv

\* Every verdict buyers see is backed by a report or an agent's decision.
THEOREM VerdictCorrect == Spec => []VerdictBacked
BY InitCatalog, NextCatalog, PTL DEF Spec, CatalogInv

\* No product is ever listed by a seller no admin has verified.
THEOREM ListingCorrect == Spec => []ListedOnceApproved
BY InitCatalog, NextCatalog, PTL DEF Spec, CatalogInv
=============================================================================
