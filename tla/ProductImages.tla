---------------------------- MODULE ProductImages ----------------------------
(***************************************************************************)
(* The images of one product: upload, delete and reorder of                *)
(* products/handlers.rs over two stores, the table product_images and the  *)
(* object bucket of services/storage.rs.  No transaction spans the two; a  *)
(* handler that is stopped, or misled by an answer that got lost, leaves   *)
(* one of them ahead of the other.  A reorder is a database transaction    *)
(* whose UPDATEs lock the rows one after the other.                        *)
(***************************************************************************)
EXTENDS Integers, Sequences, FiniteSets

CONSTANTS
  Images,                  \* ids; an id is also the storage key of its object
  Requests,                \* slots for handlers in flight
  MAX_IMAGES_PER_PRODUCT,
  MaxFaults                \* bound: handlers cut short, answers lost

ASSUME ConstantsAssumption ==
  /\ IsFiniteSet(Images) /\ IsFiniteSet(Requests)
  /\ MAX_IMAGES_PER_PRODUCT \in Nat \ {0} /\ MaxFaults \in Nat

VARIABLES
  sort_order, \* product_images.sort_order of an image, or Absent
  objects,    \* the images whose object is in the bucket
  cut,        \* ghost: images a handler left half done, or was misled about
  req,        \* req[r]: the handler in slot r
  faults

vars == <<sort_order, objects, cut, req, faults>>

\* Not a place.
Absent == -1
Rows   == {i \in Images : sort_order[i] # Absent}

UploadSteps  == {"count", "put", "insert", "cleanup"}
DeleteSteps  == {"find", "drop", "unlist"}
ReorderSteps == {"list", "update", "commit"}
Steps == {"idle"} \cup UploadSteps \cup DeleteSteps \cup ReorderSteps

\* about: the image of an upload or delete; order: the payload of a reorder, of
\* which the first `done' have been updated; count: what COUNT(*) said.
Idle == [step |-> "idle", about |-> {}, count |-> 0, order |-> <<>>, done |-> 0]

At(r, step)   == req[r].step = step
Goto(r, step) == req' = [req EXCEPT ![r].step = step]
End(r)        == req' = [req EXCEPT ![r] = Idle]
Begin(r, rec) == At(r, "idle") /\ req' = [req EXCEPT ![r] = rec]

Fault == faults < MaxFaults /\ faults' = faults + 1

Mentioned(r) == req[r].about \cup {req[r].order[k] : k \in DOMAIN req[r].order}

\* Upload takes a new id; ids nobody can know any more may serve again.
Fresh(i) == i \notin Rows \cup objects \cup cut \cup UNION {Mentioned(r) : r \in Requests}

\* The lists of all images, none twice, a client may send after looking at them.
Orders(S) ==
  {s \in [1..Cardinality(S) -> S] : \A j, k \in DOMAIN s : s[j] = s[k] => j = k}

Init ==
  /\ sort_order = [i \in Images |-> Absent]
  /\ objects = {} /\ cut = {} /\ faults = 0
  /\ req = [r \in Requests |-> Idle]

-----------------------------------------------------------------------------
(* upload_product_image_handler                                            *)

StartUpload(r) ==
  \E i \in Images :
    /\ Fresh(i)
    /\ Begin(r, [Idle EXCEPT !.step = "count", !.about = {i}])
    /\ UNCHANGED <<sort_order, objects, cut, faults>>

\* Mutant: one image too many passes.
OverLimit(n) == n > MAX_IMAGES_PER_PRODUCT

AtLimit(n) == n >= MAX_IMAGES_PER_PRODUCT

CountImages(r) ==
  /\ At(r, "count")
  /\ IF AtLimit(Cardinality(Rows))
       THEN End(r)
       ELSE req' = [req EXCEPT ![r].step = "put", ![r].count = Cardinality(Rows)]
  /\ UNCHANGED <<sort_order, objects, cut, faults>>

\* Mutant: start over for as long as the bucket refuses.
RetryUpload(rec) == [rec EXCEPT !.step = "count"]

\* A refusal is passed on to the client.
AfterFailedUpload(rec) == Idle

\* The bucket stores the object, or refuses it, or stores it and the answer is lost.
UploadObject(r) ==
  /\ At(r, "put")
  /\ \/ objects' = objects \cup req[r].about /\ Goto(r, "insert") /\ UNCHANGED <<cut, faults>>
     \/ req' = [req EXCEPT ![r] = AfterFailedUpload(@)] /\ UNCHANGED <<objects, cut, faults>>
     \/ /\ Fault /\ End(r)
        /\ objects' = objects \cup req[r].about /\ cut' = cut \cup req[r].about
  /\ UNCHANGED sort_order

ListAt(i, n) == [sort_order EXCEPT ![i] = n]

\* Mutant: the failure of the INSERT returns at once.
NoCleanup == "idle"

AfterFailedInsert == "cleanup"

InsertImage(r) ==
  /\ At(r, "insert")
  /\ \E i \in req[r].about :
       \/ sort_order' = ListAt(i, req[r].count) /\ End(r) /\ UNCHANGED <<cut, faults>>
       \/ Goto(r, AfterFailedInsert) /\ UNCHANGED <<sort_order, cut, faults>>
       \/ /\ Fault /\ Goto(r, AfterFailedInsert)
          /\ sort_order' = ListAt(i, req[r].count) /\ cut' = cut \cup {i}
  /\ UNCHANGED objects

\* The deletion that makes good a failed INSERT; its own failure is only logged.
CleanupObject(r) ==
  /\ At(r, "cleanup")
  /\ \/ objects' = objects \ req[r].about /\ UNCHANGED <<cut, faults>>
     \/ Fault /\ cut' = cut \cup req[r].about /\ UNCHANGED objects
  /\ End(r)
  /\ UNCHANGED sort_order

-----------------------------------------------------------------------------
(* delete_product_image_handler: the object first, then the row.           *)

StartDelete(r) ==
  \E i \in Rows :
    /\ Begin(r, [Idle EXCEPT !.step = "find", !.about = {i}])
    /\ UNCHANGED <<sort_order, objects, cut, faults>>

FindImage(r) ==
  /\ At(r, "find")
  /\ IF req[r].about \subseteq Rows THEN Goto(r, "drop") ELSE End(r)
  /\ UNCHANGED <<sort_order, objects, cut, faults>>

\* Mutant: a refusal is logged and no more, as that of the cleanup is.
LogRefusal(rec) == [rec EXCEPT !.step = "unlist"]

AfterRefusedDelete(rec) == Idle

\* An object that is not there counts as deleted (404).
DeleteObject(r) ==
  /\ At(r, "drop")
  /\ \/ objects' = objects \ req[r].about /\ Goto(r, "unlist") /\ UNCHANGED <<cut, faults>>
     \/ req' = [req EXCEPT ![r] = AfterRefusedDelete(@)] /\ UNCHANGED <<objects, cut, faults>>
     \/ /\ Fault /\ End(r)
        /\ objects' = objects \ req[r].about /\ cut' = cut \cup req[r].about
  /\ UNCHANGED sort_order

-----------------------------------------------------------------------------
(* reorder_product_images_handler: validated against the images it reads,  *)
(* then one UPDATE for each image in the order of the payload, each of     *)
(* which waits for the row to be free and keeps it until the commit.       *)

StartReorder(r) ==
  \E s \in Orders(Rows) :
    /\ Begin(r, [Idle EXCEPT !.step = "list", !.order = s])
    /\ UNCHANGED <<sort_order, objects, cut, faults>>

ListImages(r) ==
  /\ At(r, "list")
  /\ IF Len(req[r].order) = Cardinality(Rows) /\ Mentioned(r) \subseteq Rows
       THEN Goto(r, "update") ELSE End(r)
  /\ UNCHANGED <<sort_order, objects, cut, faults>>

\* The rows a transaction keeps locked.  An UPDATE that finds no row locks none.
Locks(r) == {req[r].order[k] : k \in 1..req[r].done} \cap Rows
Free(i, r) == \A s \in Requests \ {r} : i \notin Locks(s)

NextImage(r) == req[r].order[req[r].done + 1]

\* Mutant: there is no transaction, every UPDATE is seen at once.
SeenAtOnce(r) == [sort_order EXCEPT ![NextImage(r)] = IF @ = Absent THEN Absent ELSE req[r].done]

\* Others see nothing of an UPDATE before the commit.
SeenByOthers(r) == sort_order

UpdateImage(r) ==
  /\ At(r, "update")
  /\ IF req[r].done = Len(req[r].order)
       THEN Goto(r, "commit") /\ UNCHANGED sort_order
       ELSE /\ Free(NextImage(r), r)
            /\ sort_order' = SeenByOthers(r)
            /\ req' = [req EXCEPT ![r].done = @ + 1]
  /\ UNCHANGED <<objects, cut, faults>>

Position(r, i) == CHOOSE k \in DOMAIN req[r].order : req[r].order[k] = i

CommitReorder(r) ==
  /\ At(r, "commit")
  /\ sort_order' = [i \in Images |-> IF i \in Locks(r) THEN Position(r, i) - 1
                                                       ELSE sort_order[i]]
  /\ End(r)
  /\ UNCHANGED <<objects, cut, faults>>

\* The row of a deleted image goes, as soon as no transaction has it.
DeleteRow(r) ==
  /\ At(r, "unlist")
  /\ \E i \in req[r].about : Free(i, r) /\ sort_order' = ListAt(i, Absent)
  /\ End(r)
  /\ UNCHANGED <<objects, cut, faults>>

\* The database ends a transaction that waits in a circle.
WaitsFor(r, s) == At(r, "update") /\ req[r].done < Len(req[r].order) /\ NextImage(r) \in Locks(s)
InCircle(r) ==
  \E S \in SUBSET Requests :
    r \in S /\ \A s \in S : \E t \in S \ {s} : WaitsFor(s, t) /\ \E u \in S \ {s} : WaitsFor(u, s)

DeadlockVictim(r) ==
  /\ InCircle(r)
  /\ End(r)
  /\ UNCHANGED <<sort_order, objects, cut, faults>>

-----------------------------------------------------------------------------
\* A connection or the process is gone, or a statement fails.  A request to the
\* bucket may have been served; an open transaction is rolled back.
Abort(r) ==
  /\ ~At(r, "idle") /\ Fault /\ End(r)
  /\ cut' = IF req[r].step \in {"count", "find"} THEN cut ELSE cut \cup req[r].about
  /\ \/ UNCHANGED objects
     \/ At(r, "put") /\ objects' = objects \cup req[r].about
     \/ req[r].step \in {"drop", "cleanup"} /\ objects' = objects \ req[r].about
  /\ UNCHANGED sort_order

Start(r) == StartUpload(r) \/ StartDelete(r) \/ StartReorder(r)

Handler(r) ==
  \/ CountImages(r) \/ UploadObject(r) \/ InsertImage(r) \/ CleanupObject(r)
  \/ FindImage(r) \/ DeleteObject(r) \/ DeleteRow(r)
  \/ ListImages(r) \/ UpdateImage(r) \/ CommitReorder(r) \/ DeadlockVictim(r)

Next == \E r \in Requests : Start(r) \/ Handler(r) \/ Abort(r)

Spec == Init /\ [][Next]_vars

\* The runtime keeps polling the handlers; the database grants the lock of a row
\* to those who wait for it in the order they came, so that nobody waits for ever
\* while the lock keeps changing hands.
FairSpec ==
  /\ Spec
  /\ \A r \in Requests :
       WF_vars(Handler(r)) /\ SF_vars(UpdateImage(r)) /\ SF_vars(DeleteRow(r))

-----------------------------------------------------------------------------
TypeOK ==
  /\ sort_order \in [Images -> Nat \cup {Absent}]
  /\ objects \subseteq Images /\ cut \subseteq Images
  /\ req \in [Requests -> [step : Steps, about : SUBSET Images, count : Nat,
                           order : Seq(Images), done : Nat]]
  /\ faults \in 0..MaxFaults

\* An upload between the bucket and the table, a deletion between the two.
Uploading(i) == \E r \in Requests : i \in req[r].about /\ req[r].step \in {"insert", "cleanup"}
Deleting(i)  == \E r \in Requests : i \in req[r].about /\ At(r, "unlist")

\* The bucket and the table agree on every image no handler is busy with, was
\* stopped on, or was misled about: no object is paid for that no row names, and
\* no listed image is broken, whichever uploads, deletions and failures overlap.
StoresAgree ==
  \A i \in Images \ cut :
    /\ i \in objects => i \in Rows \/ Uploading(i)
    /\ i \in Rows => i \in objects \/ Deleting(i)

\* The limit is exceeded by overlapping uploads only, and by no more than those
\* that were admitted on the same count: one less than there are handlers in flight.
LimitButForRacers ==
  Cardinality(Rows) <= MAX_IMAGES_PER_PRODUCT - 1 + Cardinality(Requests)

\* "atomically in a database transaction": images that stay listed change their
\* places only all together, into the order of one client's list, although
\* reorders, uploads and deletions interleave.
ReorderIsWhole ==
  [][(\E i \in Rows : sort_order'[i] # sort_order[i] /\ sort_order'[i] # Absent) =>
       \E r \in Requests :
         /\ At(r, "commit")
         /\ \A j, k \in DOMAIN req[r].order :
              j < k /\ {req[r].order[j], req[r].order[k]} \subseteq Rows'
                => sort_order'[req[r].order[j]] < sort_order'[req[r].order[k]]]_vars

\* "Delete object from R2 storage first": a row goes only when nothing is left in
\* the bucket for it to name, whatever was stopped, refused or misled before, so
\* that a deletion that did not get through can always be asked for again.
ObjectGoesFirst ==
  [][\A i \in Rows \ Rows' : i \notin objects']_vars

\* "Maximum number of images allowed per product".  Not kept: uploads that count
\* before one of them inserts pass the limit together; LimitButForRacers is what is.
WithinLimit == Cardinality(Rows) <= MAX_IMAGES_PER_PRODUCT

\* Every handler ends, in particular reorders that wait for each other's rows.
RequestsEnd == \A r \in Requests : ~At(r, "idle") ~> At(r, "idle")
=============================================================================
