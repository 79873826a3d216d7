------------------------- MODULE ProductImagesProofs -------------------------
(***************************************************************************)
(* Theorems about the images of a product, for any numbers of images,      *)
(* concurrent handlers and faults.                                         *)
(***************************************************************************)
EXTENDS ProductImages, FiniteSetTheorems, TLAPS

Slot == [step : Steps, about : SUBSET Images, count : Nat, order : Seq(Images), done : Nat]

-----------------------------------------------------------------------------
(* Types.                                                                  *)

\* What every handler may leave in its slot.
LEMMA SlotType ==
  ASSUME TypeOK, NEW r \in Requests
  PROVE  /\ Idle \in Slot
         /\ \A step \in Steps : [req[r] EXCEPT !.step = step] \in Slot
         /\ \A n \in Nat : [req[r] EXCEPT !.step = "put", !.count = n] \in Slot
         /\ [req[r] EXCEPT !.done = @ + 1] \in Slot
         /\ \A i \in Images, step \in Steps : [Idle EXCEPT !.step = step, !.about = {i}] \in Slot
         /\ \A s \in Seq(Images), step \in Steps :
              [Idle EXCEPT !.step = step, !.order = s] \in Slot
<1>1. req[r] \in Slot
  BY DEF TypeOK, Slot
<1>2. Idle \in Slot
  BY DEF Idle, Slot, Steps
<1>3. \A step \in Steps : [req[r] EXCEPT !.step = step] \in Slot
  BY <1>1 DEF Slot
<1>4. \A n \in Nat : [req[r] EXCEPT !.step = "put", !.count = n] \in Slot
  <2>1. "put" \in Steps
    BY DEF Steps, UploadSteps
  <2> QED
    BY <1>1, <2>1 DEF Slot
<1>5. [req[r] EXCEPT !.done = @ + 1] \in Slot
  BY <1>1 DEF Slot
<1>6. \A i \in Images, step \in Steps : [Idle EXCEPT !.step = step, !.about = {i}] \in Slot
  BY <1>2 DEF Slot
<1>7. \A s \in Seq(Images), step \in Steps : [Idle EXCEPT !.step = step, !.order = s] \in Slot
  BY <1>2 DEF Slot
<1> QED
  BY <1>2, <1>3, <1>4, <1>5, <1>6, <1>7

LEMMA RowsFinite ==
  ASSUME NEW S \in SUBSET Images
  PROVE  IsFiniteSet(S) /\ Cardinality(S) \in Nat
BY ConstantsAssumption, FS_Subset, FS_CardinalityType

LEMMA OrderType ==
  ASSUME NEW S \in SUBSET Images, NEW s \in Orders(S)
  PROVE  s \in Seq(Images) /\ Len(s) = Cardinality(S) /\ DOMAIN s = 1..Cardinality(S)
<1>1. Cardinality(S) \in Nat
  BY RowsFinite
<1>2. s \in [1..Cardinality(S) -> Images]
  BY DEF Orders
<1> QED
  BY <1>1, <1>2

LEMMA PutInSlot ==
  ASSUME TypeOK, NEW r \in Requests, NEW rec \in Slot, req' = [req EXCEPT ![r] = rec]
  PROVE  req' \in [Requests -> Slot]
BY DEF TypeOK, Slot

LEMMA StepInSlot ==
  ASSUME TypeOK, NEW r \in Requests, NEW step \in Steps, Goto(r, step)
  PROVE  req' \in [Requests -> Slot]
BY SlotType DEF TypeOK, Slot, Goto

LEMMA EndInSlot ==
  ASSUME TypeOK, NEW r \in Requests, End(r)
  PROVE  req' \in [Requests -> Slot]
BY SlotType, PutInSlot DEF End

LEMMA FaultType == ASSUME TypeOK, Fault PROVE faults' \in 0..MaxFaults
BY ConstantsAssumption DEF TypeOK, Fault

LEMMA ListAtType ==
  ASSUME TypeOK, NEW i \in Images, NEW n \in Nat \cup {Absent}
  PROVE  ListAt(i, n) \in [Images -> Nat \cup {Absent}]
BY DEF TypeOK, ListAt

-----------------------------------------------------------------------------
(* A reorder has updated as many images as it has come through of its list,*)
(* which names no image twice.                                             *)

OrderInv ==
  \A r \in Requests :
    /\ req[r].done <= Len(req[r].order)
    /\ At(r, "commit") => req[r].done = Len(req[r].order)
    /\ \A j, k \in DOMAIN req[r].order : req[r].order[j] = req[r].order[k] => j = k

TypeInv == TypeOK /\ OrderInv

\* In a list that names no image twice every image has one position.
LEMMA PositionOf ==
  ASSUME TypeInv, NEW r \in Requests, NEW k \in DOMAIN req[r].order
  PROVE  Position(r, req[r].order[k]) = k
BY DEF Position, TypeInv, OrderInv

LEMMA LockedPosition ==
  ASSUME TypeInv, NEW r \in Requests, NEW i \in Locks(r)
  PROVE  Position(r, i) - 1 \in Nat
<1>1. req[r].order \in Seq(Images) /\ req[r].done \in Nat /\ req[r].done <= Len(req[r].order)
  BY DEF TypeInv, TypeOK, OrderInv
<1>2. PICK k \in 1..req[r].done : i = req[r].order[k]
  BY DEF Locks
<1>3. k \in DOMAIN req[r].order /\ k \in Nat \ {0}
  BY <1>1, <1>2
<1> QED
  BY <1>2, <1>3, PositionOf

LEMMA InitType == Init => TypeInv
<1> SUFFICES ASSUME Init PROVE TypeInv
  OBVIOUS
<1>1. Idle \in Slot
  BY DEF Idle, Slot, Steps
<1>2. TypeOK
  BY <1>1, ConstantsAssumption DEF Init, TypeOK, Slot
<1>3. OrderInv
  BY DEF Init, OrderInv, Idle, At
<1> QED
  BY <1>2, <1>3 DEF TypeInv

LEMMA NextTypeOK == TypeInv /\ [Next]_vars => TypeOK'
<1> SUFFICES ASSUME TypeInv, [Next]_vars PROVE TypeOK'
  OBVIOUS
<1> USE DEF TypeInv
<1>0. Cardinality(Rows) \in Nat
  BY RowsFinite DEF Rows
<1>1. CASE UNCHANGED vars
  BY <1>1 DEF vars, TypeOK
<1>2. ASSUME NEW r \in Requests, StartUpload(r) PROVE TypeOK'
  <2>1. PICK i \in Images : Begin(r, [Idle EXCEPT !.step = "count", !.about = {i}])
    BY <1>2 DEF StartUpload
  <2>2. req' \in [Requests -> Slot]
    BY <2>1, SlotType, PutInSlot DEF Begin, Steps, UploadSteps
  <2> QED
    BY <1>2, <2>2 DEF StartUpload, TypeOK, Slot
<1>3. ASSUME NEW r \in Requests, StartDelete(r) PROVE TypeOK'
  <2>1. PICK i \in Images : Begin(r, [Idle EXCEPT !.step = "find", !.about = {i}])
    BY <1>3 DEF StartDelete, Rows
  <2>2. req' \in [Requests -> Slot]
    BY <2>1, SlotType, PutInSlot DEF Begin, Steps, DeleteSteps
  <2> QED
    BY <1>3, <2>2 DEF StartDelete, TypeOK, Slot
<1>4. ASSUME NEW r \in Requests, StartReorder(r) PROVE TypeOK'
  <2>1. PICK s \in Orders(Rows) : Begin(r, [Idle EXCEPT !.step = "list", !.order = s])
    BY <1>4 DEF StartReorder
  <2>2. s \in Seq(Images)
    BY OrderType DEF Rows
  <2>3. req' \in [Requests -> Slot]
    BY <2>1, <2>2, SlotType, PutInSlot DEF Begin, Steps, ReorderSteps
  <2> QED
    BY <1>4, <2>3 DEF StartReorder, TypeOK, Slot
<1>5. ASSUME NEW r \in Requests, CountImages(r) PROVE TypeOK'
  <2>1. ASSUME AtLimit(Cardinality(Rows)) PROVE req' \in [Requests -> Slot]
    BY <1>5, <2>1, EndInSlot DEF CountImages
  <2>2. ASSUME ~AtLimit(Cardinality(Rows)) PROVE req' \in [Requests -> Slot]
    <3>1. req' = [req EXCEPT ![r] = [req[r] EXCEPT !.step = "put", !.count = Cardinality(Rows)]]
      BY <1>5, <2>2 DEF CountImages, TypeOK
    <3>2. [req[r] EXCEPT !.step = "put", !.count = Cardinality(Rows)] \in Slot
      BY <1>0, SlotType
    <3> QED
      BY <3>1, <3>2, PutInSlot
  <2>3. req' \in [Requests -> Slot]
    BY <2>1, <2>2
  <2> QED
    BY <1>5, <2>3 DEF CountImages, TypeOK, Slot
<1>6. ASSUME NEW r \in Requests, UploadObject(r) PROVE TypeOK'
  <2>1. req' \in [Requests -> Slot]
    BY <1>6, SlotType, PutInSlot, StepInSlot, EndInSlot
    DEF UploadObject, AfterFailedUpload, Steps, UploadSteps
  <2>2. faults' \in 0..MaxFaults
    BY <1>6, FaultType DEF UploadObject, TypeOK
  <2> QED
    BY <1>6, <2>1, <2>2 DEF UploadObject, TypeOK, Slot
<1>7. ASSUME NEW r \in Requests, InsertImage(r) PROVE TypeOK'
  <2>1. req' \in [Requests -> Slot]
    BY <1>7, StepInSlot, EndInSlot DEF InsertImage, AfterFailedInsert, Steps, UploadSteps
  <2>2. faults' \in 0..MaxFaults
    BY <1>7, FaultType DEF InsertImage, TypeOK
  <2>3. req[r].about \subseteq Images /\ req[r].count \in Nat
    BY DEF TypeOK
  <2>4. sort_order' \in [Images -> Nat \cup {Absent}] /\ cut' \subseteq Images
    BY <1>7, <2>3, ListAtType DEF InsertImage, TypeOK
  <2> QED
    BY <1>7, <2>1, <2>2, <2>4 DEF InsertImage, TypeOK, Slot
<1>8. ASSUME NEW r \in Requests, CleanupObject(r) PROVE TypeOK'
  <2>1. req' \in [Requests -> Slot]
    BY <1>8, EndInSlot DEF CleanupObject
  <2>2. faults' \in 0..MaxFaults
    BY <1>8, FaultType DEF CleanupObject, TypeOK
  <2> QED
    BY <1>8, <2>1, <2>2 DEF CleanupObject, TypeOK, Slot
<1>9. ASSUME NEW r \in Requests, FindImage(r) PROVE TypeOK'
  <2>1. req' \in [Requests -> Slot]
    BY <1>9, StepInSlot, EndInSlot DEF FindImage, Steps, DeleteSteps
  <2> QED
    BY <1>9, <2>1 DEF FindImage, TypeOK, Slot
<1>10. ASSUME NEW r \in Requests, DeleteObject(r) PROVE TypeOK'
  <2>1. req' \in [Requests -> Slot]
    BY <1>10, SlotType, PutInSlot, StepInSlot, EndInSlot
    DEF DeleteObject, AfterRefusedDelete, Steps, DeleteSteps
  <2>2. faults' \in 0..MaxFaults
    BY <1>10, FaultType DEF DeleteObject, TypeOK
  <2> QED
    BY <1>10, <2>1, <2>2 DEF DeleteObject, TypeOK, Slot
<1>11. ASSUME NEW r \in Requests, DeleteRow(r) PROVE TypeOK'
  <2>1. req' \in [Requests -> Slot]
    BY <1>11, EndInSlot DEF DeleteRow
  <2>2. PICK i \in req[r].about : sort_order' = ListAt(i, Absent)
    BY <1>11 DEF DeleteRow
  <2>3. i \in Images
    BY <2>2 DEF TypeOK
  <2>4. sort_order' \in [Images -> Nat \cup {Absent}]
    BY <2>2, <2>3, ListAtType
  <2> QED
    BY <1>11, <2>1, <2>4 DEF DeleteRow, TypeOK, Slot
<1>12. ASSUME NEW r \in Requests, ListImages(r) PROVE TypeOK'
  <2>1. req' \in [Requests -> Slot]
    BY <1>12, StepInSlot, EndInSlot DEF ListImages, Steps, ReorderSteps
  <2> QED
    BY <1>12, <2>1 DEF ListImages, TypeOK, Slot
<1>13. ASSUME NEW r \in Requests, UpdateImage(r) PROVE TypeOK'
  <2>1. CASE req[r].done = Len(req[r].order)
    <3>1. req' \in [Requests -> Slot]
      BY <1>13, <2>1, StepInSlot DEF UpdateImage, Steps, ReorderSteps
    <3> QED
      BY <1>13, <2>1, <3>1 DEF UpdateImage, TypeOK, Slot
  <2>2. CASE req[r].done # Len(req[r].order)
    <3>1. req' = [req EXCEPT ![r] = [req[r] EXCEPT !.done = @ + 1]]
      BY <1>13, <2>2 DEF UpdateImage, TypeOK
    <3>2. req' \in [Requests -> Slot]
      BY <3>1, SlotType, PutInSlot
    <3> QED
      BY <1>13, <2>2, <3>2 DEF UpdateImage, SeenByOthers, TypeOK, Slot
  <2> QED
    BY <2>1, <2>2
<1>14. ASSUME NEW r \in Requests, CommitReorder(r) PROVE TypeOK'
  <2>1. req' \in [Requests -> Slot]
    BY <1>14, EndInSlot DEF CommitReorder
  <2>2. \A i \in Images : (IF i \in Locks(r) THEN Position(r, i) - 1 ELSE sort_order[i])
                            \in Nat \cup {Absent}
    BY LockedPosition DEF TypeOK
  <2>3. sort_order' \in [Images -> Nat \cup {Absent}]
    BY <1>14, <2>2 DEF CommitReorder
  <2> QED
    BY <1>14, <2>1, <2>3 DEF CommitReorder, TypeOK, Slot
<1>15. ASSUME NEW r \in Requests, DeadlockVictim(r) PROVE TypeOK'
  <2>1. req' \in [Requests -> Slot]
    BY <1>15, EndInSlot DEF DeadlockVictim
  <2> QED
    BY <1>15, <2>1 DEF DeadlockVictim, TypeOK, Slot
<1>16. ASSUME NEW r \in Requests, Abort(r) PROVE TypeOK'
  <2>1. req' \in [Requests -> Slot] /\ faults' \in 0..MaxFaults
    BY <1>16, EndInSlot, FaultType DEF Abort
  <2>2. req[r].about \subseteq Images
    BY DEF TypeOK
  <2> QED
    BY <1>16, <2>1, <2>2 DEF Abort, TypeOK, Slot
<1> QED
  BY <1>1, <1>2, <1>3, <1>4, <1>5, <1>6, <1>7, <1>8, <1>9, <1>10, <1>11, <1>12, <1>13,
     <1>14, <1>15, <1>16 DEF Next, Start, Handler

\* Every step keeps the lists, and what has been done of them.
LEMMA NextOrder == TypeInv /\ [Next]_vars => OrderInv'
<1> SUFFICES ASSUME TypeInv, [Next]_vars, NEW q \in Requests
             PROVE  /\ req'[q].done <= Len(req'[q].order)
                    /\ req'[q].step = "commit" => req'[q].done = Len(req'[q].order)
                    /\ \A j, k \in DOMAIN req'[q].order :
                         req'[q].order[j] = req'[q].order[k] => j = k
  BY DEF OrderInv, At
<1> USE DEF TypeInv
<1>0. /\ req \in [Requests -> Slot]
      /\ req[q].done <= Len(req[q].order) /\ req[q].done \in Nat
      /\ req[q].order \in Seq(Images)
      /\ req[q].step = "commit" => req[q].done = Len(req[q].order)
      /\ \A j, k \in DOMAIN req[q].order : req[q].order[j] = req[q].order[k] => j = k
  BY DEF TypeOK, Slot, OrderInv, At
<1>1. CASE req'[q] = req[q]
  BY <1>0, <1>1
<1>2. CASE req'[q] = Idle
  BY <1>2 DEF Idle
<1>3. CASE \E step \in Steps \ {"commit"} : req'[q] = [req[q] EXCEPT !.step = step]
  BY <1>0, <1>3 DEF Slot
<1>4. CASE \E n : req'[q] = [req[q] EXCEPT !.step = "put", !.count = n]
  BY <1>0, <1>4 DEF Slot
<1>5. CASE \E i \in Images, step \in {"count", "find"} :
             req'[q] = [Idle EXCEPT !.step = step, !.about = {i}]
  BY <1>5 DEF Idle
<1>6. CASE \E s \in Orders(Rows) : req'[q] = [Idle EXCEPT !.step = "list", !.order = s]
  <2>1. PICK s \in Orders(Rows) : req'[q] = [Idle EXCEPT !.step = "list", !.order = s]
    BY <1>6
  <2>2. s \in Seq(Images) /\ \A j, k \in DOMAIN s : s[j] = s[k] => j = k
    BY OrderType DEF Orders, Rows
  <2>3. req'[q].done = 0 /\ req'[q].order = s /\ req'[q].step = "list"
    BY <2>1 DEF Idle
  <2> QED
    BY <2>2, <2>3
<1>7. CASE UpdateImage(q)
  <2>1. CASE req[q].done = Len(req[q].order)
    <3>1. req'[q] = [req[q] EXCEPT !.step = "commit"]
      BY <1>0, <1>7, <2>1 DEF UpdateImage, Goto
    <3> QED
      BY <1>0, <2>1, <3>1 DEF Slot
  <2>2. CASE req[q].done # Len(req[q].order)
    <3>1. req'[q] = [req[q] EXCEPT !.done = @ + 1] /\ req[q].step = "update"
      BY <1>0, <1>7, <2>2 DEF UpdateImage, At
    <3>2. /\ req'[q].done = req[q].done + 1 /\ req'[q].order = req[q].order
          /\ req'[q].step = "update"
      BY <1>0, <3>1 DEF Slot
    <3> QED
      BY <1>0, <2>2, <3>2
  <2> QED
    BY <2>1, <2>2
<1>8. CASE UNCHANGED vars
  BY <1>1, <1>8 DEF vars
<1>9. ASSUME NEW r \in Requests, Start(r) \/ Handler(r) \/ Abort(r), r # q
      PROVE  req'[q] = req[q]
  BY <1>0, <1>9 DEF Start, Handler, Abort, StartUpload, StartDelete, StartReorder, Begin,
     CountImages, UploadObject, InsertImage, CleanupObject, FindImage, DeleteObject,
     DeleteRow, ListImages, UpdateImage, CommitReorder, DeadlockVictim, Goto, End
<1>10. CASE StartUpload(q) \/ StartDelete(q)
  <2>1. \E i \in Images, step \in {"count", "find"} :
          req'[q] = [Idle EXCEPT !.step = step, !.about = {i}]
    BY <1>0, <1>10 DEF StartUpload, StartDelete, Begin, Rows
  <2> QED
    BY <1>5, <2>1
<1>11. CASE StartReorder(q)
  <2>1. \E s \in Orders(Rows) : req'[q] = [Idle EXCEPT !.step = "list", !.order = s]
    BY <1>0, <1>11 DEF StartReorder, Begin
  <2> QED
    BY <1>6, <2>1
<1>12. CASE CountImages(q)
  <2>1. CASE AtLimit(Cardinality(Rows))
    BY <1>0, <1>2, <1>12, <2>1 DEF CountImages, End
  <2>2. CASE ~AtLimit(Cardinality(Rows))
    <3>1. req'[q] = [req[q] EXCEPT !.step = "put", !.count = Cardinality(Rows)]
      BY <1>0, <1>12, <2>2 DEF CountImages
    <3> QED
      BY <1>4, <3>1
  <2> QED
    BY <2>1, <2>2
<1>13. ASSUME \/ End(q)
              \/ \E step \in Steps \ {"commit"} : Goto(q, step)
       PROVE  \/ req'[q] = Idle
              \/ \E step \in Steps \ {"commit"} : req'[q] = [req[q] EXCEPT !.step = step]
  BY <1>0, <1>13 DEF End, Goto
<1>14. CASE \/ UploadObject(q) \/ InsertImage(q) \/ CleanupObject(q) \/ FindImage(q)
            \/ DeleteObject(q) \/ DeleteRow(q) \/ ListImages(q) \/ CommitReorder(q)
            \/ DeadlockVictim(q) \/ Abort(q)
  <2>1. \/ End(q)
        \/ \E step \in Steps \ {"commit"} : Goto(q, step)
    BY <1>14 DEF UploadObject, InsertImage, CleanupObject, FindImage, DeleteObject, DeleteRow,
       ListImages, CommitReorder, DeadlockVictim, Abort, AfterFailedUpload, AfterFailedInsert,
       AfterRefusedDelete,
       Steps, UploadSteps, DeleteSteps, ReorderSteps, End
  <2> QED
    BY <1>2, <1>3, <1>13, <2>1
<1>15. CASE \E r \in Requests : r # q /\ (Start(r) \/ Handler(r) \/ Abort(r))
  BY <1>1, <1>9, <1>15
<1> QED
  BY <1>7, <1>8, <1>10, <1>11, <1>12, <1>14, <1>15 DEF Next, Start, Handler

\* Every variable keeps its type, for any images, handlers and faults.
THEOREM TypeCorrect == Spec => []TypeOK
<1>1. TypeInv /\ [Next]_vars => TypeInv'
  BY NextTypeOK, NextOrder DEF TypeInv
<1>2. TypeInv => TypeOK
  BY DEF TypeInv
<1> QED
  BY InitType, <1>1, <1>2, PTL DEF Spec

LEMMA TypeInvariant == Spec => []TypeInv
<1>1. TypeInv /\ [Next]_vars => TypeInv'
  BY NextTypeOK, NextOrder DEF TypeInv
<1> QED
  BY InitType, <1>1, PTL DEF Spec

-----------------------------------------------------------------------------
(* The two stores.                                                         *)

\* A slot is about one image.
OneImage == \A r \in Requests : \A i, j \in req[r].about : i = j

Busy(r, i, steps) == i \in req[r].about /\ req[r].step \in steps

\* What holds of an image no handler has left half done: an upload has it for
\* itself, since nobody else can know the id, and the image is in the stores where
\* the steps of the handlers about it imply.
ImageOK(i) ==
  /\ \A r \in Requests : Busy(r, i, UploadSteps) =>
       i \notin Rows /\ \A s \in Requests \ {r} : i \notin req[s].about
  /\ \A r \in Requests : Busy(r, i, {"insert", "cleanup"}) => i \in objects
  /\ \A r \in Requests : Busy(r, i, {"unlist"}) => i \notin objects
  /\ i \in objects => i \in Rows \/ \E r \in Requests : Busy(r, i, {"insert", "cleanup"})
  /\ i \in Rows => i \in objects \/ \E r \in Requests : Busy(r, i, {"unlist"})

StoresInv == TypeInv /\ OneImage /\ \A i \in Images \ cut : ImageOK(i)

\* The handler in slot r ends, or goes to one of some steps with its image.
Others(r) == \A s \in Requests \ {r} : req'[s] = req[s]
Ended(r)  == Others(r) /\ req'[r].about = {} /\ req'[r].step = "idle"
Moved(r, steps) == Others(r) /\ req'[r].about = req[r].about /\ req'[r].step \in steps

LEMMA GotoMoves ==
  ASSUME TypeOK, NEW r \in Requests, NEW step, Goto(r, step)
  PROVE  Moved(r, {step})
<1>1. req \in [Requests -> Slot]
  BY DEF TypeOK, Slot
<1> QED
  BY <1>1 DEF Goto, Moved, Others, Slot

LEMMA EndMoves == ASSUME TypeOK, NEW r \in Requests, End(r) PROVE Ended(r)
BY DEF TypeOK, End, Ended, Others, Idle

LEMMA UpdateMoves ==
  ASSUME TypeOK, NEW r \in Requests, UpdateImage(r)
  PROVE  Moved(r, {"update", "commit"}) /\ req[r].step = "update"
<1>1. req \in [Requests -> Slot]
  BY DEF TypeOK, Slot
<1>2. CASE req[r].done = Len(req[r].order)
  BY <1>2, GotoMoves DEF UpdateImage, Moved, At
<1>3. CASE req[r].done # Len(req[r].order)
  BY <1>1, <1>3 DEF UpdateImage, Moved, Others, Slot, At
<1> QED
  BY <1>2, <1>3

LEMMA CountMoves ==
  ASSUME TypeOK, NEW r \in Requests, CountImages(r)
  PROVE  Ended(r) \/ Moved(r, {"put"})
<1>1. req \in [Requests -> Slot]
  BY DEF TypeOK, Slot
<1>2. CASE AtLimit(Cardinality(Rows))
  BY <1>2, EndMoves DEF CountImages
<1>3. CASE ~AtLimit(Cardinality(Rows))
  BY <1>1, <1>3 DEF CountImages, Moved, Others, Slot
<1> QED
  BY <1>2, <1>3

LEMMA InitStores == Init => StoresInv
BY InitType DEF Init, StoresInv, OneImage, ImageOK, Busy, Rows, Idle

LEMMA NextOneImage == StoresInv /\ [Next]_vars => OneImage'
<1> SUFFICES ASSUME StoresInv, [Next]_vars PROVE OneImage'
  OBVIOUS
<1>0. TypeOK /\ OneImage /\ req \in [Requests -> Slot]
  BY DEF StoresInv, TypeInv, TypeOK, Slot
<1>1. CASE UNCHANGED vars
  BY <1>0, <1>1 DEF vars, OneImage
<1>2. ASSUME NEW r \in Requests, Start(r) PROVE OneImage'
  <2>1. Others(r) /\ \A i, j \in req'[r].about : i = j
    <3>1. CASE StartUpload(r)
      <4>1. PICK k \in Images : Begin(r, [Idle EXCEPT !.step = "count", !.about = {k}])
        BY <3>1 DEF StartUpload
      <4> QED
        BY <1>0, <4>1 DEF Begin, Idle, Others
    <3>2. CASE StartDelete(r)
      <4>1. PICK k \in Rows : Begin(r, [Idle EXCEPT !.step = "find", !.about = {k}])
        BY <3>2 DEF StartDelete
      <4> QED
        BY <1>0, <4>1 DEF Begin, Idle, Others
    <3>3. CASE StartReorder(r)
      <4>1. PICK o \in Orders(Rows) : Begin(r, [Idle EXCEPT !.step = "list", !.order = o])
        BY <3>3 DEF StartReorder
      <4> QED
        BY <1>0, <4>1 DEF Begin, Idle, Others
    <3> QED
      BY <1>2, <3>1, <3>2, <3>3 DEF Start
  <2> QED
    BY <1>0, <2>1 DEF OneImage, Others
<1>3. ASSUME NEW r \in Requests, Handler(r) \/ Abort(r) PROVE OneImage'
  <2>1. Ended(r) \/ \E steps : Moved(r, steps)
    BY <1>0, <1>3, EndMoves, GotoMoves, CountMoves, UpdateMoves
    DEF Handler, Abort, UploadObject, InsertImage, CleanupObject, FindImage, DeleteObject,
        DeleteRow, ListImages, CommitReorder, DeadlockVictim, AfterFailedUpload, AfterRefusedDelete,
        End
  <2> QED
    BY <1>0, <2>1 DEF OneImage, Ended, Moved, Others
<1> QED
  BY <1>1, <1>2, <1>3 DEF Next

\* One image, one action at a time.
LEMMA NextImageOK ==
  ASSUME StoresInv, [Next]_vars, NEW i \in Images \ cut' PROVE ImageOK(i)'
<1>0. /\ TypeOK /\ OneImage /\ (i \notin cut => ImageOK(i))
      /\ req \in [Requests -> Slot] /\ sort_order \in [Images -> Nat \cup {Absent}]
  BY DEF StoresInv, TypeInv, TypeOK, Slot
<1>1. CASE UNCHANGED vars
  BY <1>0, <1>1 DEF vars, ImageOK, Busy, Rows
<1> USE DEF OneImage, ImageOK, Busy, At, Slot, UploadSteps
<1>2. ASSUME NEW r \in Requests, StartUpload(r) PROVE ImageOK(i)'
  BY <1>0, <1>2 DEF StartUpload, Begin, Fresh, Mentioned, Idle, Rows
<1>3. ASSUME NEW r \in Requests, StartDelete(r) PROVE ImageOK(i)'
  BY <1>0, <1>3 DEF StartDelete, Begin, Idle, Rows
<1>4. ASSUME NEW r \in Requests, StartReorder(r) PROVE ImageOK(i)'
  BY <1>0, <1>4 DEF StartReorder, Begin, Idle, Rows
<1>5. ASSUME NEW r \in Requests, CountImages(r) PROVE ImageOK(i)'
  <2>1. Ended(r) \/ Moved(r, {"put"})
    BY <1>0, <1>5, CountMoves DEF CountImages
  <2> QED
    BY <1>0, <1>5, <2>1 DEF CountImages, Ended, Moved, Others, Rows
<1>6. ASSUME NEW r \in Requests, UploadObject(r) PROVE ImageOK(i)'
  <2>1. CASE objects' = objects \cup req[r].about /\ Goto(r, "insert") /\ cut' = cut
    <3>1. Moved(r, {"insert"})
      BY <1>0, <2>1, GotoMoves
    <3>2. sort_order' = sort_order /\ req[r].step = "put" /\ req'[r].step = "insert"
      BY <1>6, <3>1 DEF UploadObject, Moved
    <3>3. CASE i \in req[r].about
      <4>1. i \in req'[r].about /\ \A s \in Requests \ {r} : i \notin req'[s].about
        BY <1>0, <2>1, <3>1, <3>2, <3>3 DEF Moved, Others
      <4>2. i \in objects' /\ i \notin Rows'
        BY <1>0, <2>1, <3>2, <3>3 DEF Rows
      <4> QED
        BY <3>2, <4>1, <4>2
    <3>4. CASE i \notin req[r].about
      BY <1>0, <2>1, <3>1, <3>2, <3>4 DEF Moved, Others, Rows
    <3> QED
      BY <3>3, <3>4
  <2>2. CASE End(r) /\ objects' = objects /\ cut' = cut
    <3>1. Ended(r)
      BY <1>0, <2>2, EndMoves
    <3> QED
      BY <1>0, <1>6, <2>2, <3>1 DEF UploadObject, Ended, Others, Rows
  <2>3. CASE End(r) /\ objects' = objects \cup req[r].about /\ cut' = cut \cup req[r].about
    <3>1. Ended(r) /\ i \notin req[r].about
      BY <1>0, <2>3, EndMoves
    <3> QED
      BY <1>0, <1>6, <2>3, <3>1 DEF UploadObject, Ended, Others, Rows
  <2> QED
    BY <1>6, <2>1, <2>2, <2>3 DEF UploadObject, AfterFailedUpload, End
<1>7. ASSUME NEW r \in Requests, InsertImage(r) PROVE ImageOK(i)'
  <2>1. PICK j \in req[r].about :
          \/ sort_order' = ListAt(j, req[r].count) /\ End(r) /\ cut' = cut
          \/ Goto(r, "cleanup") /\ sort_order' = sort_order /\ cut' = cut
          \/ /\ Goto(r, "cleanup")
             /\ sort_order' = ListAt(j, req[r].count) /\ cut' = cut \cup {j}
    BY <1>7 DEF InsertImage, AfterFailedInsert
  <2>2. /\ objects' = objects /\ req[r].step = "insert" /\ \A k \in req[r].about : k = j
        /\ req[r].count \in Nat /\ j \in Images
    BY <1>0, <1>7, <2>1 DEF InsertImage
  <2>3. \/ sort_order' = sort_order
        \/ \A k \in Images \ {j} : k \in Rows' <=> k \in Rows
    BY <1>0, <2>1, <2>2 DEF ListAt, Rows
  <2>4. CASE sort_order' = ListAt(j, req[r].count) /\ End(r) /\ cut' = cut
    <3>1. Ended(r)
      BY <1>0, <2>4, EndMoves
    <3>2. j \in Rows'
      BY <1>0, <2>2, <2>4 DEF ListAt, Rows, Absent
    <3>3. CASE i = j
      <4>0. i \in req[r].about /\ i \notin cut /\ req[r].step \in UploadSteps
        BY <2>1, <2>2, <2>4, <3>3
      <4>1. \A s \in Requests : i \notin req'[s].about
        <5>1. \A s \in Requests \ {r} : i \notin req[s].about
          BY <1>0, <4>0
        <5> QED
          BY <3>1, <5>1 DEF Ended, Others
      <4>2. i \in objects'
        BY <1>0, <2>1, <2>2, <2>4, <3>3
      <4> QED
        BY <3>2, <3>3, <4>1, <4>2
    <3>4. CASE i # j
      <4>1. (i \in Rows' <=> i \in Rows) /\ i \notin req[r].about
        BY <2>2, <2>3, <3>4 DEF Rows
      <4>2. i \notin cut /\ i \notin req'[r].about /\ objects' = objects
        BY <2>2, <2>4, <3>1 DEF Ended
      <4>3. \A s \in Requests :
              /\ Busy(s, i, UploadSteps)' <=> Busy(s, i, UploadSteps)
              /\ Busy(s, i, {"insert", "cleanup"})' <=> Busy(s, i, {"insert", "cleanup"})
              /\ Busy(s, i, {"unlist"})' <=> Busy(s, i, {"unlist"})
        BY <3>1, <4>1, <4>2 DEF Ended, Others
      <4>4. \A s \in Requests : i \in req'[s].about <=> i \in req[s].about
        BY <3>1, <4>1, <4>2 DEF Ended, Others
      <4> QED
        BY <1>0, <4>1, <4>2, <4>3, <4>4
    <3> QED
      BY <3>3, <3>4
  <2>5. CASE Goto(r, "cleanup") /\ sort_order' = sort_order /\ cut' = cut
    <3>1. Moved(r, {"cleanup"})
      BY <1>0, <2>5, GotoMoves
    <3> QED
      BY <1>0, <2>2, <2>5, <3>1 DEF Moved, Others, Rows
  <2>6. CASE Goto(r, "cleanup") /\ sort_order' = ListAt(j, req[r].count) /\ cut' = cut \cup {j}
    <3>1. Moved(r, {"cleanup"}) /\ i # j /\ i \notin req[r].about
      BY <1>0, <2>2, <2>6, GotoMoves
    <3>2. i \in Rows' <=> i \in Rows
      BY <2>3, <3>1 DEF Rows
    <3> QED
      BY <1>0, <2>2, <2>6, <3>1, <3>2 DEF Moved, Others
  <2> QED
    BY <2>1, <2>4, <2>5, <2>6
<1>8. ASSUME NEW r \in Requests, CleanupObject(r) PROVE ImageOK(i)'
  BY <1>0, <1>8 DEF CleanupObject, End, Idle, Rows
<1>9. ASSUME NEW r \in Requests, FindImage(r) PROVE ImageOK(i)'
  <2>1. Ended(r) \/ Moved(r, {"drop"})
    BY <1>0, <1>9, EndMoves, GotoMoves DEF FindImage
  <2> QED
    BY <1>0, <1>9, <2>1 DEF FindImage, Ended, Moved, Others, Rows
<1>10. ASSUME NEW r \in Requests, DeleteObject(r) PROVE ImageOK(i)'
  <2>1. sort_order' = sort_order /\ req[r].step = "drop"
    BY <1>10 DEF DeleteObject
  <2>2. CASE objects' = objects \ req[r].about /\ Goto(r, "unlist") /\ cut' = cut
    <3>1. Moved(r, {"unlist"})
      BY <1>0, <2>2, GotoMoves
    <3> QED
      BY <1>0, <2>1, <2>2, <3>1 DEF Moved, Others, Rows
  <2>3. CASE End(r) /\ objects' = objects /\ cut' = cut
    <3>1. Ended(r)
      BY <1>0, <2>3, EndMoves
    <3> QED
      BY <1>0, <2>1, <2>3, <3>1 DEF Ended, Others, Rows
  <2>4. CASE End(r) /\ objects' = objects \ req[r].about /\ cut' = cut \cup req[r].about
    <3>1. Ended(r) /\ i \notin req[r].about
      BY <1>0, <2>4, EndMoves
    <3> QED
      BY <1>0, <2>1, <2>4, <3>1 DEF Ended, Others, Rows
  <2> QED
    BY <1>10, <2>2, <2>3, <2>4 DEF DeleteObject, AfterRefusedDelete, End
<1>11. ASSUME NEW r \in Requests, DeleteRow(r) PROVE ImageOK(i)'
  BY <1>0, <1>11 DEF DeleteRow, ListAt, Absent, End, Idle, Rows
<1>12. ASSUME NEW r \in Requests, ListImages(r) PROVE ImageOK(i)'
  <2>1. Ended(r) \/ Moved(r, {"update"})
    BY <1>0, <1>12, EndMoves, GotoMoves DEF ListImages
  <2> QED
    BY <1>0, <1>12, <2>1 DEF ListImages, Ended, Moved, Others, Rows
<1>13. ASSUME NEW r \in Requests, UpdateImage(r) PROVE ImageOK(i)'
  <2>1. Moved(r, {"update", "commit"})
    BY <1>0, <1>13, UpdateMoves DEF UpdateImage
  <2> QED
    BY <1>0, <1>13, <2>1 DEF UpdateImage, SeenByOthers, Ended, Moved, Others, Rows
<1>14. ASSUME NEW r \in Requests, CommitReorder(r) PROVE ImageOK(i)'
  <2>1. Rows' = Rows
    BY <1>0, <1>14, LockedPosition DEF CommitReorder, Rows, Locks, Absent, StoresInv
  <2> QED
    BY <1>0, <1>14, <2>1 DEF CommitReorder, End, Idle
<1>15. ASSUME NEW r \in Requests, DeadlockVictim(r) PROVE ImageOK(i)'
  <2>1. At(r, "update")
    BY <1>15 DEF DeadlockVictim, InCircle, WaitsFor
  <2> QED
    BY <1>0, <1>15, <2>1 DEF DeadlockVictim, End, Idle, Rows
<1>16. ASSUME NEW r \in Requests, Abort(r) PROVE ImageOK(i)'
  BY <1>0, <1>16 DEF Abort, End, Idle, Rows
<1> QED
  BY <1>1, <1>2, <1>3, <1>4, <1>5, <1>6, <1>7, <1>8, <1>9, <1>10, <1>11, <1>12, <1>13, <1>14,
     <1>15, <1>16 DEF Next, Start, Handler

\* The bucket and the table agree on every image that no handler is busy with or
\* has left half done, for any images, handlers and faults.
THEOREM StoresCorrect == Spec => []StoresAgree
<1>1. StoresInv /\ TypeInv' /\ [Next]_vars => StoresInv'
  BY NextOneImage, NextImageOK DEF StoresInv
<1>2. StoresInv => StoresAgree
  BY DEF StoresInv, ImageOK, Busy, StoresAgree, Uploading, Deleting, At
<1> QED
  BY InitStores, TypeInvariant, <1>1, <1>2, PTL DEF Spec

-----------------------------------------------------------------------------
(* The limit.                                                              *)

\* The uploads that have passed the count and may still add a row.
Admitted == {r \in Requests : req[r].step \in {"put", "insert"}}

LimitInv ==
  Cardinality(Rows) + Cardinality(Admitted) <= MAX_IMAGES_PER_PRODUCT - 1 + Cardinality(Requests)

LEMMA Sizes ==
  /\ \A S \in SUBSET Images : IsFiniteSet(S) /\ Cardinality(S) \in Nat
  /\ \A S \in SUBSET Requests :
       IsFiniteSet(S) /\ Cardinality(S) \in Nat /\ Cardinality(S) <= Cardinality(Requests)
  /\ Cardinality(Requests) \in Nat /\ MAX_IMAGES_PER_PRODUCT \in Nat \ {0}
<1>1. \A S \in SUBSET Images : IsFiniteSet(S) /\ Cardinality(S) \in Nat
  BY RowsFinite
<1>2. \A S \in SUBSET Requests :
        IsFiniteSet(S) /\ Cardinality(S) \in Nat /\ Cardinality(S) <= Cardinality(Requests)
  BY ConstantsAssumption, FS_Subset, FS_CardinalityType
<1> QED
  BY <1>1, <1>2, ConstantsAssumption, FS_CardinalityType

\* A step that adds no row and admits no upload.
LEMMA NoMore ==
  ASSUME LimitInv, Rows' \subseteq Rows, Admitted' \subseteq Admitted
  PROVE  LimitInv'
<1>1. Cardinality(Rows') <= Cardinality(Rows)
  BY Sizes, FS_Subset DEF Rows
<1>2. Cardinality(Admitted') <= Cardinality(Admitted)
  BY Sizes, FS_Subset DEF Admitted
<1>3. /\ Cardinality(Rows) \in Nat /\ Cardinality(Rows') \in Nat
      /\ Cardinality(Admitted) \in Nat /\ Cardinality(Admitted') \in Nat
  BY Sizes DEF Rows, Admitted
<1> QED
  BY <1>1, <1>2, <1>3, Sizes DEF LimitInv

LEMMA InitLimit == Init => LimitInv
<1> SUFFICES ASSUME Init PROVE LimitInv
  OBVIOUS
<1>1. Rows = {} /\ Admitted = {}
  BY DEF Init, Rows, Admitted, Idle
<1> QED
  BY <1>1, Sizes, FS_EmptySet DEF LimitInv

LEMMA NextLimit == TypeInv /\ LimitInv /\ [Next]_vars => LimitInv'
<1> SUFFICES ASSUME TypeInv, LimitInv, [Next]_vars PROVE LimitInv'
  OBVIOUS
<1>0. TypeOK /\ req \in [Requests -> Slot]
  BY DEF TypeInv, TypeOK, Slot
<1>1. CASE UNCHANGED vars
  BY <1>1, NoMore DEF vars, Rows, Admitted
<1>2. ASSUME NEW r \in Requests, Start(r) PROVE LimitInv'
  <2>1. sort_order' = sort_order
    BY <1>2 DEF Start, StartUpload, StartDelete, StartReorder
  <2>2. Others(r) /\ req'[r].step \in {"count", "find", "list"}
    BY <1>0, <1>2 DEF Start, StartUpload, StartDelete, StartReorder, Begin, Idle, Others
  <2> QED
    BY <2>1, <2>2, NoMore DEF Rows, Admitted, Others
<1>3. ASSUME NEW r \in Requests, CountImages(r) PROVE LimitInv'
  <2>1. CASE Ended(r)
    BY <1>3, <2>1, NoMore DEF CountImages, Rows, Admitted, Ended, Others
  <2>2. CASE Moved(r, {"put"})
    <3>1. ~AtLimit(Cardinality(Rows))
      BY <1>0, <1>3, <2>2 DEF CountImages, End, Idle, Moved
    <3>2. Rows' = Rows /\ Admitted' \in SUBSET Requests
      BY <1>3 DEF CountImages, Rows, Admitted
    <3>3. Cardinality(Rows) <= MAX_IMAGES_PER_PRODUCT - 1 /\ Cardinality(Rows) \in Nat
      BY <3>1, Sizes DEF AtLimit, Rows
    <3>4. Cardinality(Admitted') \in Nat /\ Cardinality(Admitted') <= Cardinality(Requests)
      BY <3>2, Sizes
    <3> QED
      BY <3>2, <3>3, <3>4, Sizes DEF LimitInv
  <2> QED
    BY <1>0, <1>3, <2>1, <2>2, CountMoves
<1>4. ASSUME NEW r \in Requests, InsertImage(r) PROVE LimitInv'
  <2>1. PICK i \in Images : sort_order' \in {sort_order, ListAt(i, req[r].count)}
    BY <1>0, <1>4 DEF InsertImage, Slot
  <2>2. Rows' \subseteq Rows \cup {i}
    BY <1>0, <2>1 DEF Rows, ListAt, TypeOK
  <2>3. Ended(r) \/ Moved(r, {"cleanup"})
    BY <1>0, <1>4, EndMoves, GotoMoves DEF InsertImage, AfterFailedInsert
  <2>4. r \in Admitted /\ Admitted' = Admitted \ {r}
    BY <1>4, <2>3 DEF InsertImage, At, Admitted, Ended, Moved, Others
  <2>5. Cardinality(Admitted') = Cardinality(Admitted) - 1
    <3>1. IsFiniteSet(Admitted)
      BY Sizes DEF Admitted
    <3> QED
      BY <2>4, <3>1, FS_RemoveElement
  <2>6. /\ IsFiniteSet(Rows \cup {i})
        /\ Cardinality(Rows \cup {i}) <= Cardinality(Rows) + 1
        /\ Cardinality(Rows \cup {i}) \in Nat
    BY <2>1, Sizes, FS_AddElement DEF Rows
  <2>7. Cardinality(Rows') <= Cardinality(Rows \cup {i})
    BY <2>2, <2>6, FS_Subset
  <2>8. /\ Cardinality(Rows) \in Nat /\ Cardinality(Rows') \in Nat
        /\ Cardinality(Admitted) \in Nat
    BY Sizes DEF Rows, Admitted
  <2> QED
    BY <2>5, <2>6, <2>7, <2>8, Sizes DEF LimitInv
<1>5. ASSUME NEW r \in Requests, UploadObject(r) PROVE LimitInv'
  <2>1. Ended(r) \/ Moved(r, {"insert"})
    BY <1>0, <1>5, EndMoves, GotoMoves DEF UploadObject, AfterFailedUpload, End
  <2>2. r \in Admitted /\ sort_order' = sort_order
    BY <1>5 DEF UploadObject, At, Admitted
  <2> QED
    BY <2>1, <2>2, NoMore DEF Rows, Admitted, Ended, Moved, Others
<1>6. ASSUME NEW r \in Requests,
             \/ CleanupObject(r) \/ FindImage(r) \/ DeleteObject(r) \/ ListImages(r)
             \/ UpdateImage(r) \/ DeadlockVictim(r) \/ Abort(r)
      PROVE  LimitInv'
  <2>1. Ended(r) \/ Moved(r, {"drop", "unlist", "update", "commit"})
    BY <1>0, <1>6, EndMoves, GotoMoves, UpdateMoves
    DEF CleanupObject, FindImage, DeleteObject, AfterRefusedDelete, End, ListImages,
        DeadlockVictim, Abort, Moved
  <2>2. sort_order' = sort_order
    BY <1>6 DEF CleanupObject, FindImage, DeleteObject, ListImages, UpdateImage, SeenByOthers,
       DeadlockVictim, Abort
  <2> QED
    BY <2>1, <2>2, NoMore DEF Rows, Admitted, Ended, Moved, Others
<1>7. ASSUME NEW r \in Requests, DeleteRow(r) \/ CommitReorder(r) PROVE LimitInv'
  <2>1. Ended(r)
    BY <1>0, <1>7, EndMoves DEF DeleteRow, CommitReorder
  <2>2. Rows' \subseteq Rows
    BY <1>0, <1>7 DEF DeleteRow, CommitReorder, ListAt, Rows, Locks, TypeOK, Slot
  <2> QED
    BY <2>1, <2>2, NoMore DEF Admitted, Ended, Others
<1> QED
  BY <1>1, <1>2, <1>3, <1>4, <1>5, <1>6, <1>7 DEF Next, Handler

\* The limit is exceeded by overlapping uploads only, whatever the limit and the
\* number of handlers, deletions and faults.
THEOREM LimitCorrect == Spec => []LimitButForRacers
<1>1. LimitInv => LimitButForRacers
  BY Sizes DEF LimitInv, LimitButForRacers, Rows, Admitted
<1> QED
  BY InitLimit, NextLimit, TypeInvariant, <1>1, PTL DEF Spec

-----------------------------------------------------------------------------
(* Reordering.                                                             *)

\* Until its row is inserted nobody but its upload knows an image, half done or not.
Exclusive ==
  \A r \in Requests : \A i \in req[r].about :
    req[r].step \in {"count", "put", "insert"} =>
      i \notin Rows /\ \A s \in Requests \ {r} : i \notin req[s].about

LEMMA InitExclusive == Init => Exclusive
BY DEF Init, Exclusive, Idle

\* A handler that goes on towards its INSERT, or does not, and adds no row.
LEMMA StaysExclusive ==
  ASSUME Exclusive, NEW r \in Requests, Rows' \subseteq Rows,
         \/ Ended(r)
         \/ Moved(r, {"drop", "unlist", "cleanup", "update", "commit"})
         \/ req[r].step \in {"count", "put"} /\ Moved(r, {"put", "insert"})
  PROVE  Exclusive'
BY DEF Exclusive, Ended, Moved, Others

LEMMA NextExclusive == TypeInv /\ Exclusive /\ [Next]_vars => Exclusive'
<1> SUFFICES ASSUME TypeInv, Exclusive, [Next]_vars PROVE Exclusive'
  OBVIOUS
<1>0. TypeOK /\ req \in [Requests -> Slot]
  BY DEF TypeInv, TypeOK, Slot
<1>1. CASE UNCHANGED vars
  BY <1>1 DEF vars, Rows, Exclusive
<1>2. ASSUME NEW r \in Requests, StartUpload(r) PROVE Exclusive'
  BY <1>0, <1>2 DEF StartUpload, Begin, Fresh, Mentioned, Idle, Rows, Exclusive
<1>3. ASSUME NEW r \in Requests, StartDelete(r) \/ StartReorder(r) PROVE Exclusive'
  <2>1. Rows' = Rows /\ Others(r) /\ req'[r].step \in {"find", "list"}
    BY <1>0, <1>3 DEF StartDelete, StartReorder, Begin, Idle, Rows, Others
  <2>2. req'[r].about \subseteq Rows
    <3>1. ASSUME NEW i \in Rows, Begin(r, [Idle EXCEPT !.step = "find", !.about = {i}])
          PROVE  req'[r].about = {i}
      BY <1>0, <3>1 DEF Begin, Idle
    <3>2. ASSUME NEW s \in Orders(Rows), Begin(r, [Idle EXCEPT !.step = "list", !.order = s])
          PROVE  req'[r].about = {}
      BY <1>0, <3>2 DEF Begin, Idle
    <3> QED
      BY <1>3, <3>1, <3>2 DEF StartDelete, StartReorder
  <2> QED
    BY <2>1, <2>2 DEF Exclusive, Others
<1>4. ASSUME NEW r \in Requests, CountImages(r) PROVE Exclusive'
  <2>1. Rows' = Rows /\ req[r].step = "count"
    BY <1>4 DEF CountImages, Rows, At
  <2>2. Ended(r) \/ Moved(r, {"put", "insert"})
    BY <1>0, <1>4, CountMoves DEF Moved
  <2> QED
    BY <2>1, <2>2, StaysExclusive
<1>5. ASSUME NEW r \in Requests, UploadObject(r) PROVE Exclusive'
  <2>1. Rows' = Rows /\ req[r].step = "put"
    BY <1>5 DEF UploadObject, Rows, At
  <2>2. Ended(r) \/ Moved(r, {"put", "insert"})
    BY <1>0, <1>5, EndMoves, GotoMoves DEF UploadObject, AfterFailedUpload, End, Moved
  <2> QED
    BY <2>1, <2>2, StaysExclusive
<1>6. ASSUME NEW r \in Requests, InsertImage(r) PROVE Exclusive'
  <2>1. PICK i \in req[r].about : sort_order' \in {sort_order, ListAt(i, req[r].count)}
    BY <1>6 DEF InsertImage
  <2>2. Rows' \subseteq Rows \cup {i} /\ req[r].step = "insert"
    BY <1>0, <1>6, <2>1 DEF Rows, ListAt, TypeOK, InsertImage, At
  <2>3. Ended(r) \/ Moved(r, {"cleanup"})
    BY <1>0, <1>6, EndMoves, GotoMoves DEF InsertImage, AfterFailedInsert
  <2>4. \A s \in Requests \ {r} : i \notin req[s].about
    BY <2>1, <2>2 DEF Exclusive
  <2> QED
    BY <2>2, <2>3, <2>4 DEF Exclusive, Ended, Moved, Others
<1>7. ASSUME NEW r \in Requests,
             \/ CleanupObject(r) \/ FindImage(r) \/ DeleteObject(r) \/ ListImages(r)
             \/ UpdateImage(r) \/ DeadlockVictim(r) \/ Abort(r)
      PROVE  Exclusive'
  <2>1. Ended(r) \/ Moved(r, {"drop", "unlist", "cleanup", "update", "commit"})
    BY <1>0, <1>7, EndMoves, GotoMoves, UpdateMoves
    DEF CleanupObject, FindImage, DeleteObject, AfterRefusedDelete, End, ListImages,
        DeadlockVictim, Abort, Moved
  <2>2. Rows' = Rows
    BY <1>7 DEF CleanupObject, FindImage, DeleteObject, ListImages, UpdateImage, SeenByOthers,
       DeadlockVictim, Abort, Rows
  <2> QED
    BY <2>1, <2>2, StaysExclusive
<1>8. ASSUME NEW r \in Requests, DeleteRow(r) \/ CommitReorder(r) PROVE Exclusive'
  <2>1. Ended(r)
    BY <1>0, <1>8, EndMoves DEF DeleteRow, CommitReorder
  <2>2. Rows' \subseteq Rows
    BY <1>0, <1>8 DEF DeleteRow, CommitReorder, ListAt, Rows, Locks, TypeOK, Slot
  <2> QED
    BY <2>1, <2>2, StaysExclusive
<1> QED
  BY <1>1, <1>2, <1>3, <1>4, <1>5, <1>6, <1>7, <1>8 DEF Next, Start, Handler

\* The commit of a reorder shows its images in the order of its list.
LEMMA CommitInOrder ==
  ASSUME TypeInv, NEW r \in Requests, CommitReorder(r),
         NEW j \in DOMAIN req[r].order, NEW k \in DOMAIN req[r].order, j < k,
         {req[r].order[j], req[r].order[k]} \subseteq Rows'
  PROVE  sort_order'[req[r].order[j]] < sort_order'[req[r].order[k]]
<1>1. /\ req[r].order \in Seq(Images) /\ req[r].done = Len(req[r].order)
      /\ sort_order \in [Images -> Nat \cup {Absent}]
  BY DEF CommitReorder, TypeInv, TypeOK, OrderInv
<1>2. DOMAIN req[r].order = 1..req[r].done /\ j \in Nat /\ k \in Nat
  BY <1>1
<1>3. Rows' \subseteq Rows
  BY <1>1 DEF CommitReorder, Rows, Locks
<1>4. req[r].order[j] \in Locks(r) /\ req[r].order[k] \in Locks(r)
  BY <1>2, <1>3 DEF Locks
<1>5. /\ sort_order'[req[r].order[j]] = Position(r, req[r].order[j]) - 1
      /\ sort_order'[req[r].order[k]] = Position(r, req[r].order[k]) - 1
  BY <1>4 DEF CommitReorder, Locks, Rows
<1>6. Position(r, req[r].order[j]) = j /\ Position(r, req[r].order[k]) = k
  BY PositionOf
<1> QED
  BY <1>2, <1>5, <1>6

\* Images that stay listed change places only all together and into the order one
\* client asked for, for any interleaving of reorders, uploads and deletions.
THEOREM ReorderCorrect == Spec => ReorderIsWhole
<1> DEFINE Step ==
      (\E i \in Rows : sort_order'[i] # sort_order[i] /\ sort_order'[i] # Absent) =>
        \E r \in Requests :
          /\ At(r, "commit")
          /\ \A j, k \in DOMAIN req[r].order :
               j < k /\ {req[r].order[j], req[r].order[k]} \subseteq Rows'
                 => sort_order'[req[r].order[j]] < sort_order'[req[r].order[k]]
<1>1. ASSUME TypeInv, Exclusive, [Next]_vars PROVE [Step]_vars
  <2>0. TypeOK
    BY <1>1 DEF TypeInv
  <2>1. ASSUME NEW r \in Requests, CommitReorder(r) PROVE Step
    <3>1. At(r, "commit")
      BY <2>1 DEF CommitReorder
    <3> QED
      BY <1>1, <2>1, <3>1, CommitInOrder
  <2>2. ASSUME NEW r \in Requests, InsertImage(r) PROVE Step
    <3>1. PICK i \in req[r].about : sort_order' \in {sort_order, ListAt(i, req[r].count)}
      BY <2>2 DEF InsertImage
    <3>2. i \notin Rows
      BY <1>1, <2>2, <3>1 DEF Exclusive, InsertImage, At
    <3>3. \A x \in Rows : sort_order'[x] = sort_order[x]
      BY <2>0, <3>1, <3>2 DEF ListAt, Rows, TypeOK
    <3> QED
      BY <3>3
  <2>3. ASSUME NEW r \in Requests, DeleteRow(r) PROVE Step
    BY <2>0, <2>3 DEF DeleteRow, ListAt, Rows, TypeOK
  <2>4. ASSUME sort_order' = sort_order PROVE Step
    BY <2>4
  <2>5. ASSUME NEW r \in Requests,
               \/ Start(r) \/ Abort(r) \/ CountImages(r) \/ UploadObject(r)
               \/ CleanupObject(r) \/ FindImage(r) \/ DeleteObject(r) \/ ListImages(r)
               \/ UpdateImage(r) \/ DeadlockVictim(r)
        PROVE  sort_order' = sort_order
    BY <2>5 DEF Start, StartUpload, StartDelete, StartReorder, Abort, CountImages, UploadObject,
       CleanupObject, FindImage, DeleteObject, ListImages, UpdateImage, SeenByOthers,
       DeadlockVictim
  <2> QED
    BY <1>1, <2>1, <2>2, <2>3, <2>4, <2>5 DEF Next, Handler
<1> QED
  BY TypeInvariant, InitExclusive, NextExclusive, <1>1, PTL DEF Spec, ReorderIsWhole

-----------------------------------------------------------------------------
(* Deleting.                                                               *)

\* Between the two stores a deletion has no object any more, although other
\* handlers may be about the same image.
ObjectsGone == \A r \in Requests : At(r, "unlist") => req[r].about \cap objects = {}

LEMMA InitGone == Init => ObjectsGone
BY DEF Init, ObjectsGone, Idle, At

\* Only an upload puts an object into the bucket, and it is alone with its image.
LEMMA NextGone == TypeInv /\ Exclusive /\ ObjectsGone /\ [Next]_vars => ObjectsGone'
<1> SUFFICES ASSUME TypeInv, Exclusive, ObjectsGone, [Next]_vars PROVE ObjectsGone'
  OBVIOUS
<1>0. TypeOK /\ req \in [Requests -> Slot]
  BY DEF TypeInv, TypeOK, Slot
<1>1. CASE UNCHANGED vars
  BY <1>1 DEF vars, ObjectsGone, At
<1>2. ASSUME NEW r \in Requests, Start(r) PROVE ObjectsGone'
  <2>1. objects' = objects /\ Others(r) /\ req'[r].step \in {"count", "find", "list"}
    BY <1>0, <1>2 DEF Start, StartUpload, StartDelete, StartReorder, Begin, Idle, Others
  <2> QED
    BY <2>1 DEF ObjectsGone, Others, At
<1>3. ASSUME NEW r \in Requests, DeleteObject(r) PROVE ObjectsGone'
  <2>1. objects' \subseteq objects
    BY <1>3 DEF DeleteObject
  <2>2. End(r) \/ (Goto(r, "unlist") /\ objects' = objects \ req[r].about)
    BY <1>3 DEF DeleteObject, AfterRefusedDelete, End
  <2>3. Ended(r) \/ (Moved(r, {"unlist"}) /\ objects' = objects \ req[r].about)
    BY <1>0, <2>2, EndMoves, GotoMoves
  <2> QED
    BY <2>1, <2>3 DEF ObjectsGone, Ended, Moved, Others, At
<1>4. ASSUME NEW r \in Requests, req[r].step = "put", Ended(r) \/ Moved(r, {"insert"}),
             objects' \subseteq objects \cup req[r].about
      PROVE  ObjectsGone'
  <2>1. \A s \in Requests \ {r} : req[s].about \cap req[r].about = {}
    BY <1>4 DEF Exclusive
  <2> QED
    BY <1>4, <2>1 DEF ObjectsGone, Ended, Moved, Others, At
<1>5. ASSUME NEW r \in Requests, UploadObject(r) PROVE ObjectsGone'
  <2>1. Ended(r) \/ Moved(r, {"insert"})
    BY <1>0, <1>5, EndMoves, GotoMoves DEF UploadObject, AfterFailedUpload, End
  <2> QED
    BY <1>4, <1>5, <2>1 DEF UploadObject, At
<1>6. ASSUME NEW r \in Requests, Abort(r) PROVE ObjectsGone'
  <2>1. Ended(r)
    BY <1>0, <1>6, EndMoves DEF Abort
  <2>2. CASE At(r, "put")
    BY <1>4, <1>6, <2>1, <2>2 DEF Abort, At
  <2>3. CASE ~At(r, "put")
    <3>1. objects' \subseteq objects
      BY <1>6, <2>3 DEF Abort
    <3> QED
      BY <2>1, <3>1 DEF ObjectsGone, Ended, Others, At
  <2> QED
    BY <2>2, <2>3
<1>7. ASSUME NEW r \in Requests,
             \/ CountImages(r) \/ InsertImage(r) \/ CleanupObject(r) \/ FindImage(r)
             \/ DeleteRow(r) \/ ListImages(r) \/ UpdateImage(r) \/ CommitReorder(r)
             \/ DeadlockVictim(r)
      PROVE  ObjectsGone'
  <2>1. objects' \subseteq objects
    BY <1>7 DEF CountImages, InsertImage, CleanupObject, FindImage, DeleteRow, ListImages,
       UpdateImage, CommitReorder, DeadlockVictim
  <2>2. Ended(r) \/ Moved(r, {"put", "cleanup", "drop", "update", "commit"})
    BY <1>0, <1>7, CountMoves, UpdateMoves, EndMoves, GotoMoves
    DEF InsertImage, AfterFailedInsert, CleanupObject, FindImage, DeleteRow, ListImages,
        CommitReorder, DeadlockVictim, Moved
  <2> QED
    BY <2>1, <2>2 DEF ObjectsGone, Ended, Moved, Others, At
<1> QED
  BY <1>1, <1>2, <1>3, <1>5, <1>6, <1>7 DEF Next, Handler

\* No deletion leaves an object that no row names, however many handlers are about
\* the image and whichever of them failed: the row goes last.
THEOREM ObjectFirst == Spec => ObjectGoesFirst
<1>1. ASSUME TypeInv, ObjectsGone, [Next]_vars, NEW i \in Rows \ Rows' PROVE i \notin objects'
  <2>0. TypeOK
    BY <1>1 DEF TypeInv
  <2>1. i \in Images /\ sort_order[i] # Absent /\ sort_order'[i] = Absent
    BY <1>1 DEF Rows
  <2>2. ASSUME NEW r \in Requests, DeleteRow(r) PROVE i \notin objects'
    <3>1. i \in req[r].about
      BY <2>0, <2>1, <2>2 DEF DeleteRow, ListAt, TypeOK
    <3> QED
      BY <1>1, <2>2, <3>1 DEF DeleteRow, ObjectsGone
  <2>3. ASSUME NEW r \in Requests, CommitReorder(r) PROVE FALSE
    <3>1. CASE i \in Locks(r)
      <4>1. Position(r, i) - 1 \in Nat /\ sort_order'[i] = Position(r, i) - 1
        BY <1>1, <2>1, <2>3, <3>1, LockedPosition DEF CommitReorder
      <4> QED
        BY <2>1, <4>1 DEF Absent
    <3>2. CASE i \notin Locks(r)
      BY <2>1, <2>3, <3>2 DEF CommitReorder
    <3> QED
      BY <3>1, <3>2
  <2>4. ASSUME NEW r \in Requests, InsertImage(r) PROVE FALSE
    <3>1. PICK j \in req[r].about : sort_order' \in {sort_order, ListAt(j, req[r].count)}
      BY <2>4 DEF InsertImage
    <3>2. req[r].count \in Nat /\ sort_order \in [Images -> Nat \cup {Absent}]
      BY <2>0 DEF TypeOK
    <3> QED
      BY <2>1, <3>1, <3>2 DEF ListAt, Absent
  <2>5. ASSUME NEW r \in Requests,
               \/ Start(r) \/ Abort(r) \/ CountImages(r) \/ UploadObject(r)
               \/ CleanupObject(r) \/ FindImage(r) \/ DeleteObject(r) \/ ListImages(r)
               \/ UpdateImage(r) \/ DeadlockVictim(r)
        PROVE  FALSE
    BY <2>1, <2>5 DEF Start, StartUpload, StartDelete, StartReorder, Abort, CountImages,
       UploadObject, CleanupObject, FindImage, DeleteObject, ListImages, UpdateImage,
       SeenByOthers, DeadlockVictim
  <2>6. CASE UNCHANGED vars
    BY <2>1, <2>6 DEF vars
  <2> QED
    BY <1>1, <2>2, <2>3, <2>4, <2>5, <2>6 DEF Next, Handler
<1>2. ASSUME TypeInv, ObjectsGone, [Next]_vars
      PROVE  [\A i \in Rows \ Rows' : i \notin objects']_vars
  BY <1>1, <1>2
<1> QED
  BY TypeInvariant, InitExclusive, NextExclusive, InitGone, NextGone, <1>2, PTL
  DEF Spec, ObjectGoesFirst
=============================================================================
