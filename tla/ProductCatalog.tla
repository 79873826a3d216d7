---------------------------- MODULE ProductCatalog ----------------------------
(***************************************************************************)
(* One seller and one product of the catalog: the seller's verification    *)
(* (seller/handlers.rs, admin/handlers.rs), listing and editing the        *)
(* product (products/handlers.rs) and the verdicts on it (verify_product,  *)
(* inspections/handlers.rs).  No handler runs in a transaction: listing    *)
(* and editing read a row in one statement and write in another, and an    *)
(* inspection writes two tables one after the other.                       *)
(***************************************************************************)
EXTENDS Naturals, Sequences

CONSTANTS
  Requests,    \* slots for handlers in flight
  Names,       \* values of the columns that are edited by themselves, as one
  Categories,  \* values of african_made_category
  MaxFaults    \* bound: handlers that stop half way

ASSUME ConstantsAssumption ==
  /\ Names # {}
  /\ "unsent" \notin Names \cup Categories /\ "null" \notin Categories
  /\ MaxFaults \in Nat

VARIABLES
  seller,    \* seller_profiles.verification_status, or "absent"
  approved,  \* ghost: an admin has set it to VERIFIED before
  product,   \* the row of products; not listed: not inserted yet
  reports,   \* the values of authenticity_verified in inspection_reports
  vouched,   \* ghost: an agent has set verification_status to VERIFIED
  req,       \* req[r]: the handler in slot r
  faults

vars == <<seller, approved, product, reports, vouched, req, faults>>

SellerStatuses  == {"VERIFIED", "REJECTED", "UNDER_REVIEW", "PENDING"}
ProductStatuses == {"VERIFIED", "REJECTED", "PENDING"}

\* The columns an edit may write; is_african_made as "yes" or "no".
Details == [name : Names, african : {"yes", "no"}, category : Categories \cup {"null"}]

\* A payload: every field may be left out.
Payload == [name : Names \cup {"unsent"}, african : {"yes", "no", "unsent"},
            category : Categories \cup {"unsent"}]

Unlisted(name) == [name |-> name, african |-> "no", category |-> "null"]

Idle == [step |-> "idle", verdict |-> FALSE, seen |-> Unlisted(CHOOSE n \in Names : TRUE),
         sent |-> [name |-> "unsent", african |-> "unsent", category |-> "unsent"]]

At(r, step)   == req[r].step = step
Goto(r, step) == req' = [req EXCEPT ![r].step = step]
End(r)        == req' = [req EXCEPT ![r] = Idle]
Begin(r, rec) == At(r, "idle") /\ req' = [req EXCEPT ![r] = rec]

Init ==
  /\ seller = "absent" /\ approved = FALSE
  /\ product = [listed |-> FALSE, details |-> Idle.seen,
                verification_status |-> "PENDING", authenticity_status |-> "UNVERIFIED"]
  /\ reports = {} /\ vouched = FALSE
  /\ req = [r \in Requests |-> Idle] /\ faults = 0

-----------------------------------------------------------------------------
(* The seller's verification: statements of one UPDATE or upsert each.     *)

get_seller_profile ==
  /\ seller' = IF seller = "absent" THEN "PENDING" ELSE seller
  /\ UNCHANGED <<approved, product, reports, vouched, req, faults>>

submit_seller_verification ==
  /\ seller' = "UNDER_REVIEW"
  /\ UNCHANGED <<approved, product, reports, vouched, req, faults>>

update_admin_seller_verification(status) ==
  /\ seller # "absent"
  /\ seller' = status /\ approved' = (approved \/ status = "VERIFIED")
  /\ UNCHANGED <<product, reports, vouched, req, faults>>

-----------------------------------------------------------------------------
(* Listing and editing.                                                    *)

Pick(sent, old) == IF sent = "unsent" THEN old ELSE sent

African(row, sent)  == Pick(sent.african, row.african)
Category(row, sent) == Pick(sent.category, row.category)

\* An African product needs a category, another one must not be given one.
Valid(row, sent) ==
  IF African(row, sent) = "yes" THEN Category(row, sent) # "null" ELSE sent.category = "unsent"

Edited(row, sent) ==
  [name |-> Pick(sent.name, row.name), african |-> African(row, sent),
   category |-> IF African(row, sent) = "yes" THEN Category(row, sent) ELSE "null"]

\* Mutant: whoever is not turned down may list.
NotRejected(status) == status # "REJECTED"

MayList(status) == status = "VERIFIED"

\* The name is required of a new product.
StartCreate(r) ==
  \E sent \in {p \in Payload : p.name # "unsent"} :
    /\ ~product.listed
    /\ Begin(r, [Idle EXCEPT !.step = "seller", !.sent = sent])
    /\ UNCHANGED <<seller, approved, product, reports, vouched, faults>>

CheckSeller(r) ==
  /\ At(r, "seller")
  /\ IF MayList(seller) /\ Valid(Unlisted(req[r].sent.name), req[r].sent)
       THEN Goto(r, "insert") ELSE End(r)
  /\ UNCHANGED <<seller, approved, product, reports, vouched, faults>>

\* A second request would insert another product, which is not followed here.
InsertProduct(r) ==
  /\ At(r, "insert")
  /\ product' = IF product.listed THEN product
                ELSE [product EXCEPT !.listed = TRUE,
                        !.details = Edited(Unlisted(req[r].sent.name), req[r].sent)]
  /\ End(r)
  /\ UNCHANGED <<seller, approved, reports, vouched, faults>>

StartUpdate(r) ==
  \E sent \in Payload :
    /\ product.listed
    /\ Begin(r, [Idle EXCEPT !.step = "read", !.sent = sent])
    /\ UNCHANGED <<seller, approved, product, reports, vouched, faults>>

ReadProduct(r) ==
  /\ At(r, "read")
  /\ IF Valid(product.details, req[r].sent)
       THEN req' = [req EXCEPT ![r].step = "write", ![r].seen = product.details] ELSE End(r)
  /\ UNCHANGED <<seller, approved, product, reports, vouched, faults>>

\* Mutant: only what the client sent, or what follows from it, is written.
SentColumns(q) ==
  [name |-> Pick(q.sent.name, product.details.name),
   african |-> Pick(q.sent.african, product.details.african),
   category |-> IF q.sent.african = "no" THEN "null"
                                         ELSE Pick(q.sent.category, product.details.category)]

\* Every editable column is written, those not sent with the value that was read.
AllColumns(q) == Edited(q.seen, q.sent)

WriteProduct(r) ==
  /\ At(r, "write")
  /\ product' = [product EXCEPT !.details = AllColumns(req[r])]
  /\ End(r)
  /\ UNCHANGED <<seller, approved, reports, vouched, faults>>

-----------------------------------------------------------------------------
(* Verdicts on the product.                                                *)

verify_product(status) ==
  /\ product.listed
  /\ product' = [product EXCEPT !.verification_status = status,
                   !.authenticity_status = IF status = "VERIFIED" THEN "VERIFIED" ELSE @]
  /\ vouched' = (vouched \/ status = "VERIFIED")
  /\ UNCHANGED <<seller, approved, reports, req, faults>>

\* Mutant: the product is updated before the report is there.
VerdictFirst == <<"verdict", "report">>

\* The statements of an inspection.
InspectionSteps == <<"report", "verdict">>

StartInspection(r) ==
  \E verdict \in BOOLEAN :
    /\ product.listed
    /\ Begin(r, [Idle EXCEPT !.step = InspectionSteps[1], !.verdict = verdict])
    /\ UNCHANGED <<seller, approved, product, reports, vouched, faults>>

Onward(r) == IF At(r, InspectionSteps[1]) THEN Goto(r, InspectionSteps[2]) ELSE End(r)

InsertReport(r) ==
  /\ At(r, "report")
  /\ reports' = reports \cup {req[r].verdict}
  /\ Onward(r)
  /\ UNCHANGED <<seller, approved, product, vouched, faults>>

\* An inspected product counts as verified, whatever the verdict.
UpdateVerdict(r) ==
  /\ At(r, "verdict")
  /\ product' = [product EXCEPT !.verification_status = "VERIFIED",
                   !.authenticity_status = IF req[r].verdict THEN "VERIFIED" ELSE "REJECTED"]
  /\ Onward(r)
  /\ UNCHANGED <<seller, approved, reports, vouched, faults>>

-----------------------------------------------------------------------------
\* A statement fails, or the connection or the process is gone.
Abort(r) ==
  /\ ~At(r, "idle") /\ faults < MaxFaults
  /\ faults' = faults + 1
  /\ End(r)
  /\ UNCHANGED <<seller, approved, product, reports, vouched>>

Handler(r) ==
  \/ StartCreate(r) \/ CheckSeller(r) \/ InsertProduct(r)
  \/ StartUpdate(r) \/ ReadProduct(r) \/ WriteProduct(r)
  \/ StartInspection(r) \/ InsertReport(r) \/ UpdateVerdict(r)

Next ==
  \/ get_seller_profile \/ submit_seller_verification
  \/ \E status \in SellerStatuses : update_admin_seller_verification(status)
  \/ \E status \in ProductStatuses : verify_product(status)
  \/ \E r \in Requests : Handler(r) \/ Abort(r)

Spec == Init /\ [][Next]_vars

-----------------------------------------------------------------------------
TypeOK ==
  /\ seller \in SellerStatuses \cup {"absent"}
  /\ approved \in BOOLEAN /\ vouched \in BOOLEAN
  /\ product \in [listed : BOOLEAN, details : Details, verification_status : ProductStatuses,
                  authenticity_status : {"UNVERIFIED", "VERIFIED", "REJECTED"}]
  /\ reports \subseteq BOOLEAN
  /\ req \in [Requests -> [step : {"idle", "seller", "insert", "read", "write", "report", "verdict"},
                           verdict : BOOLEAN, seen : Details, sent : Payload]]
  /\ faults \in 0..MaxFaults

Consistent(row) == row.african = "yes" <=> row.category # "null"

\* A product is in the African-made catalog exactly when it has a category there,
\* although each edit is validated against a row that other edits have changed by
\* the time it writes.
CategoryMatches == Consistent(product.details)

\* An authenticity verdict buyers see is backed by a report that says so or by an
\* agent's decision, also when inspections overlap and stop half way.
VerdictBacked ==
  /\ product.authenticity_status = "REJECTED" => FALSE \in reports
  /\ product.authenticity_status = "VERIFIED" => TRUE \in reports \/ vouched

\* A product on offer was listed by a seller whom an admin had verified before.
ListedOnceApproved == product.listed => approved

\* create_product_handler, "Sellers must be VERIFIED by an administrator before
\* listing products": a seller who lists a product is verified at that moment.
\* Not kept: the status is read before the INSERT, which does not look at it.
ListedByVerified ==
  [][~product.listed /\ product'.listed => seller = "VERIFIED"]_vars

\* update_product_handler, "partially update editable product fields": a field of
\* a listed product changes only to what an edit in flight was sent for it.
\* Not kept: fields that were not sent are written back as read.
EditsArePartial ==
  [][product.listed /\ product'.details.name # product.details.name =>
       \E r \in Requests : At(r, "write") /\ req[r].sent.name = product'.details.name]_vars
=============================================================================
