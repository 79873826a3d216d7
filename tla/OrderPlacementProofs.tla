------------------------- MODULE OrderPlacementProofs -------------------------
(***************************************************************************)
(* Theorems about placing orders, for any number of buyers, any stock and  *)
(* any number of failures: types, what "placed" means, and the conservation *)
(* of stock, which counts the units in the hands of the requests.          *)
(***************************************************************************)
EXTENDS OrderHandover, FiniteSetTheorems, TLAPS

\* What carries a handler to the answer "placed": its row exists and is not
\* failed while it waits for the escrow, and the escrow exists once it goes on.
OnTheWay ==
  \A b \in Buyers :
    LET q == req[b] IN
    /\ q.step # "done" => q.answer = "none"
    /\ q.step \in {"create", "wait", "created", "log"}
         => orders[b].status \in {"PENDING", "CONFIRMED"}
    /\ q.step \in {"created", "log"} => b \in escrows
    /\ q.step = "wait" /\ q.tx = "success" => b \in escrows

PlacedInv == TypeOK /\ OnTheWay /\ PlacedIsReal

LEMMA InitPlaced == Init => PlacedInv
<1> SUFFICES ASSUME Init PROVE PlacedInv
  OBVIOUS
<1>1. TypeOK
  BY ConstantsAssumption DEF Init, TypeOK, Absent, Order
<1>2. OnTheWay /\ PlacedIsReal
  BY DEF Init, OnTheWay, PlacedIsReal
<1>3. QED
  BY <1>1, <1>2 DEF PlacedInv

-----------------------------------------------------------------------------
LEMMA SlotType ==
  ASSUME TypeOK, NEW b \in Buyers,
         \/ \E step \in Steps : Goto(b, step)
         \/ \E a \in Answers : Answer(b, a)
         \/ \E step \in Steps, tx \in {"none", "pending", "success", "failed"} :
              req' = [req EXCEPT ![b].step = step, ![b].tx = tx]
  PROVE  req' \in [Buyers -> Request]
<1> DEFINE TxStates == {"none", "pending", "success", "failed"}
<1>1. req[b] \in Request
  BY DEF TypeOK
<1>2. ASSUME NEW step \in Steps PROVE [req[b] EXCEPT !.step = step] \in Request
  BY <1>1 DEF Request
<1>3. ASSUME NEW a \in Answers
      PROVE  [req[b] EXCEPT !.step = "done", !.answer = a] \in Request
  BY <1>1 DEF Request, Steps
<1>4. ASSUME NEW step \in Steps, NEW tx \in TxStates
      PROVE  [req[b] EXCEPT !.step = step, !.tx = tx] \in Request
  BY <1>1 DEF Request
<1>5. ASSUME NEW q \in Request, req' = [req EXCEPT ![b] = q]
      PROVE  req' \in [Buyers -> Request]
  BY <1>5 DEF TypeOK
<1>6. ASSUME NEW step \in Steps, Goto(b, step) PROVE req' \in [Buyers -> Request]
  BY <1>2, <1>5, <1>6 DEF Goto
<1>7. ASSUME NEW a \in Answers, Answer(b, a) PROVE req' \in [Buyers -> Request]
  <2>1. req' = [req EXCEPT ![b] = [req[b] EXCEPT !.step = "done", !.answer = a]]
    BY <1>7 DEF Answer, TypeOK
  <2>2. QED
    BY <1>3, <1>5, <2>1
<1>8. ASSUME NEW step \in Steps, NEW tx \in TxStates,
             req' = [req EXCEPT ![b].step = step, ![b].tx = tx]
      PROVE  req' \in [Buyers -> Request]
  <2>1. req' = [req EXCEPT ![b] = [req[b] EXCEPT !.step = step, !.tx = tx]]
    BY <1>8 DEF TypeOK
  <2>2. QED
    BY <1>4, <1>5, <2>1
<1>9. QED
  BY <1>6, <1>7, <1>8

LEMMA HandlerType ==
  ASSUME TypeOK, NEW b \in Buyers, Handler(b)
  PROVE  TypeOK'
<1> USE ConstantsAssumption
<1>0. req[b].quantity \in Nat /\ orders[b] \in Order
  BY DEF TypeOK, Request
<1>1. req' \in [Buyers -> Request]
  <2>1. CASE SubmitCreate(b)
    BY <2>1, SlotType DEF SubmitCreate, Steps
  <2>2. CASE PollCreate(b)
    BY <2>2, SlotType DEF PollCreate, AfterPoll, Steps
  <2>3. CASE RestoreStock(b)
    BY <2>3, SlotType DEF RestoreStock, Answers
  <2>4. CASE ~SubmitCreate(b) /\ ~PollCreate(b) /\ ~RestoreStock(b)
    <3>1. (\E step \in Steps : Goto(b, step)) \/ (\E a \in Answers : Answer(b, a))
      BY <2>4 DEF Handler, ReadProduct, DeductStock, AllocateEscrowId, InsertOrder,
                  UpdateCreated, LogCreated, MarkFailed, NoteFailure, Steps, Answers
    <3>2. QED
      BY <3>1, SlotType
  <2>5. QED
    BY <2>1, <2>2, <2>3, <2>4
<1>2. stock' \in Nat /\ supply' \in Int
  BY <1>0 DEF TypeOK, Handler, ReadProduct, DeductStock, Enough, AllocateEscrowId, InsertOrder,
              SubmitCreate, PollCreate, UpdateCreated, LogCreated, MarkFailed, NoteFailure,
              RestoreStock, UnitsBack
<1>3. orders' \in [Buyers -> Order]
  <2>1. UNCHANGED orders \/ \E row \in Order : orders' = [orders EXCEPT ![b] = row]
    <3>1. CASE InsertOrder(b)
      <4>1. [orders[b] EXCEPT !.status = "PENDING"] \in Order
        BY <1>0 DEF Order
      <4>2. QED
        BY <3>1, <4>1 DEF InsertOrder
    <3>2. CASE UpdateCreated(b)
      <4>1. [orders[b] EXCEPT !.escrow_state = "CREATED"] \in Order
        BY <1>0 DEF Order
      <4>2. QED
        BY <3>2, <4>1 DEF UpdateCreated
    <3>3. CASE MarkFailed(b)
      <4>1. [orders[b] EXCEPT !.status = "FAILED", !.escrow_state = "FAILED"] \in Order
        BY <1>0 DEF Order
      <4>2. QED
        BY <3>3, <4>1 DEF MarkFailed
    <3>4. CASE ~InsertOrder(b) /\ ~UpdateCreated(b) /\ ~MarkFailed(b)
      BY <3>4 DEF Handler, ReadProduct, DeductStock, AllocateEscrowId, SubmitCreate, PollCreate,
                  LogCreated, NoteFailure, RestoreStock
    <3>5. QED
      BY <3>1, <3>2, <3>3, <3>4
  <2>2. QED
    BY <2>1 DEF TypeOK
<1>4. /\ history' \in [Buyers -> SUBSET {"ORDER_CREATED", "ORDER_FAILED"}]
      /\ escrows' \subseteq Buyers /\ late' \subseteq Buyers
  BY DEF TypeOK, Handler, ReadProduct, DeductStock, AllocateEscrowId, InsertOrder,
         SubmitCreate, PollCreate, UpdateCreated, LogCreated, MarkFailed, NoteFailure, RestoreStock
<1>5. /\ product' \in [verified : BOOLEAN, archived : BOOLEAN]
      /\ faults' \in 0..MaxFaults /\ lapses' \in 0..MaxLapses
  BY DEF TypeOK, Handler, ReadProduct, DeductStock, AllocateEscrowId, InsertOrder,
         SubmitCreate, PollCreate, UpdateCreated, LogCreated, MarkFailed, NoteFailure,
         RestoreStock, Lapse
<1>6. QED
  BY <1>1, <1>2, <1>3, <1>4, <1>5 DEF TypeOK

LEMMA NextType == TypeOK /\ [Next]_vars => TypeOK'
<1> SUFFICES ASSUME TypeOK, [Next]_vars PROVE TypeOK'
  OBVIOUS
<1> USE ConstantsAssumption DEF TypeOK
<1>1. ASSUME NEW b \in Buyers, LandCreate(b) \/ LandLate(b) PROVE TypeOK'
  <2>1. CASE LandCreate(b)
    <3>1. [req[b] EXCEPT !.tx = "success"] \in Request
          /\ [req[b] EXCEPT !.tx = "failed"] \in Request
      BY DEF Request
    <3>2. req' \in [Buyers -> Request]
      BY <2>1, <3>1 DEF LandCreate
    <3>3. QED
      BY <2>1, <3>2 DEF LandCreate
  <2>2. CASE LandLate(b)
    BY <2>2 DEF LandLate
  <2>3. QED
    BY <1>1, <2>1, <2>2
<1>2. ASSUME NEW b \in Buyers, Abort(b) PROVE TypeOK'
  <2>1. req' \in [Buyers -> Request]
    BY <1>2, SlotType DEF Abort, Answers
  <2>2. QED
    BY <1>2, <2>1 DEF Abort
<1>3. ASSUME NEW b \in Buyers, FundOrder(b) PROVE TypeOK'
  BY <1>3 DEF FundOrder, Order
<1>4. ASSUME NEW n \in StockLevels, update_stock(n) PROVE TypeOK'
  BY <1>4 DEF update_stock
<1>5. ASSUME NEW flag \in BOOLEAN, archive(flag) \/ verify(flag) PROVE TypeOK'
  BY <1>5 DEF archive, verify
<1>6. CASE UNCHANGED vars
  BY <1>6 DEF vars
<1>7. QED
  BY HandlerType, <1>1, <1>2, <1>3, <1>4, <1>5, <1>6 DEF Next

-----------------------------------------------------------------------------
\* A step of b's own handler.
LEMMA HandlerPlaces ==
  ASSUME PlacedInv, NEW b \in Buyers, Handler(b)
  PROVE  OnTheWay' /\ PlacedIsReal'
<1> USE DEF PlacedInv, TypeOK, Request, OnTheWay, PlacedIsReal, At, Goto, Answer
<1>1. CASE ReadProduct(b)
  BY <1>1 DEF ReadProduct
<1>2. CASE DeductStock(b) \/ AllocateEscrowId(b)
  BY <1>2 DEF DeductStock, AllocateEscrowId
<1>3. CASE InsertOrder(b)
  <2>1. /\ req'[b].step \in {"create", "give_back"} /\ req'[b].answer = req[b].answer
        /\ \A d \in Buyers \ {b} : req'[d] = req[d] /\ orders'[d] = orders[d]
        /\ UNCHANGED <<escrows, history>>
    BY <1>3 DEF InsertOrder
  <2>2. req'[b].step = "create" => orders'[b].status = "PENDING"
    BY <1>3 DEF InsertOrder, Order
  <2>3. req[b].answer = "none"
    BY <1>3 DEF InsertOrder
  <2>4. QED
    BY <2>1, <2>2, <2>3
<1>4. CASE SubmitCreate(b)
  <2>1. /\ req'[b].step \in {"wait", "mark"} /\ req'[b].answer = req[b].answer
        /\ req'[b].step = "wait" => req'[b].tx = "pending"
        /\ \A d \in Buyers \ {b} : req'[d] = req[d]
    BY <1>4 DEF SubmitCreate
  <2>2. QED
    BY <1>4, <2>1 DEF SubmitCreate
<1>5. CASE PollCreate(b)
  BY <1>5 DEF PollCreate, AfterPoll
<1>6. CASE UpdateCreated(b)
  BY <1>6 DEF UpdateCreated, Order
<1>7. CASE LogCreated(b)
  BY <1>7 DEF LogCreated
<1>8. CASE MarkFailed(b)
  BY <1>8 DEF MarkFailed, Order
<1>9. CASE NoteFailure(b)
  BY <1>9 DEF NoteFailure
<1>10. CASE RestoreStock(b)
  BY <1>10 DEF RestoreStock
<1>11. QED
  BY <1>1, <1>2, <1>3, <1>4, <1>5, <1>6, <1>7, <1>8, <1>9, <1>10 DEF Handler

LEMMA NextPlaced == PlacedInv /\ [Next]_vars => PlacedInv'
<1> SUFFICES ASSUME PlacedInv, [Next]_vars PROVE OnTheWay' /\ PlacedIsReal'
  BY NextType DEF PlacedInv
<1> USE DEF PlacedInv, TypeOK, Request, OnTheWay, PlacedIsReal, At, Answer
<1>1. ASSUME NEW b \in Buyers, LandCreate(b) \/ LandLate(b)
      PROVE  OnTheWay' /\ PlacedIsReal'
  BY <1>1 DEF LandCreate, LandLate
<1>2. ASSUME NEW b \in Buyers, Abort(b) PROVE OnTheWay' /\ PlacedIsReal'
  BY <1>2 DEF Abort
<1>3. ASSUME NEW b \in Buyers, FundOrder(b) PROVE OnTheWay' /\ PlacedIsReal'
  BY <1>3 DEF FundOrder, Order
<1>4. ASSUME NEW n \in StockLevels, update_stock(n) PROVE OnTheWay' /\ PlacedIsReal'
  BY <1>4 DEF update_stock
<1>5. ASSUME NEW flag \in BOOLEAN, archive(flag) \/ verify(flag)
      PROVE  OnTheWay' /\ PlacedIsReal'
  BY <1>5 DEF archive, verify
<1>6. CASE UNCHANGED vars
  BY <1>6 DEF vars
<1>7. QED
  BY HandlerPlaces, <1>1, <1>2, <1>3, <1>4, <1>5, <1>6 DEF Next

\* Every variable keeps its type; in particular the stock is never negative.
THEOREM TypeCorrect == Spec => []TypeOK
<1>1. Init => TypeOK
  BY InitPlaced DEF PlacedInv
<1>2. QED
  BY <1>1, NextType, PTL DEF Spec

\* An order reported as placed has an escrow on the contract and an entry in the
\* audit trail, and was not marked failed.
THEOREM PlacedCorrect == Spec => []PlacedIsReal
<1>1. PlacedInv => PlacedIsReal
  BY DEF PlacedInv
<1>2. QED
  BY <1>1, InitPlaced, NextPlaced, PTL DEF Spec

-----------------------------------------------------------------------------
(* Conservation of the units.                                              *)

\* A request has no order before its row is inserted.
Unplaced ==
  \A b \in Buyers :
    req[b].step \in {"read", "deduct", "nextval", "insert"} => ~Exists(b)

\* The requests whose units are missing, with the finiteness that counting needs.
Missing(lost) ==
  /\ \A b \in lost : LetGo(b)
  /\ IsFiniteSet(lost) /\ Cardinality(lost) <= faults + lapses
  /\ IsFiniteSet(Units(Holders \cup lost))
  /\ stock + Cardinality(Units(Holders \cup lost)) = supply

Accounted == \E lost \in SUBSET Buyers : Missing(lost)

StockInv == PlacedInv /\ Unplaced /\ Accounted

LEMMA UnitsSize ==
  ASSUME TypeOK, NEW b \in Buyers
  PROVE  /\ req[b].quantity \in Nat
         /\ IsFiniteSet(Units({b})) /\ Cardinality(Units({b})) = req[b].quantity
<1> DEFINE q == req[b].quantity
<1>0. Units({b}) = {b} \X (1..q)
  BY Zenon DEF Units
<1>1. q \in Nat \ {0}
  BY ConstantsAssumption DEF TypeOK, Request
<1> HIDE DEF q
<1>2. 1 \in Int /\ q \in Int /\ ~(1 > q) /\ q - 1 + 1 = q
  BY <1>1
<1>3. IsFiniteSet(1..q) /\ Cardinality(1..q) = q
  BY <1>2, FS_Interval, Zenon
<1>4. IsFiniteSet({b}) /\ Cardinality({b}) = 1
  BY FS_Singleton
<1>5. IsFiniteSet({b} \X (1..q)) /\ Cardinality({b} \X (1..q)) = 1 * q
  BY <1>3, <1>4, FS_Product, Zenon
<1>6. q \in Nat /\ 1 * q = q
  BY <1>1
<1>7. IsFiniteSet(Units({b})) /\ Cardinality(Units({b})) = q
  BY <1>0, <1>5, <1>6, Zenon
<1>8. QED
  BY <1>6, <1>7 DEF q

\* The units of one more request, and of one less.
LEMMA UnitsMore ==
  ASSUME TypeOK, NEW S \in SUBSET Buyers, NEW b \in Buyers \ S, IsFiniteSet(Units(S))
  PROVE  /\ IsFiniteSet(Units(S \cup {b}))
         /\ Cardinality(Units(S \cup {b})) = Cardinality(Units(S)) + req[b].quantity
<1>1. Units(S \cup {b}) = Units(S) \cup Units({b}) /\ Units(S) \cap Units({b}) = {}
  BY DEF Units
<1>2. /\ req[b].quantity \in Nat
      /\ IsFiniteSet(Units({b})) /\ Cardinality(Units({b})) = req[b].quantity
  BY UnitsSize
<1>3. Cardinality(Units(S)) \in Nat /\ Cardinality({}) = 0
  BY FS_CardinalityType, FS_EmptySet
<1>4. /\ IsFiniteSet(Units(S) \cup Units({b}))
      /\ Cardinality(Units(S) \cup Units({b}))
           = Cardinality(Units(S)) + Cardinality(Units({b})) - Cardinality(Units(S) \cap Units({b}))
  BY <1>2, FS_Union
<1>5. Cardinality(Units(S) \cap Units({b})) = 0
  BY <1>1, <1>3
<1>6. Cardinality(Units(S) \cup Units({b})) = Cardinality(Units(S)) + req[b].quantity
  BY <1>2, <1>3, <1>4, <1>5
<1>7. QED
  BY <1>1, <1>4, <1>6, Zenon

LEMMA UnitsLess ==
  ASSUME TypeOK, NEW S \in SUBSET Buyers, NEW b \in S, IsFiniteSet(Units(S))
  PROVE  /\ IsFiniteSet(Units(S \ {b}))
         /\ Cardinality(Units(S \ {b})) = Cardinality(Units(S)) - req[b].quantity
<1> DEFINE T == S \ {b}
<1>1. T \in SUBSET Buyers /\ b \in Buyers \ T /\ T \cup {b} = S
  OBVIOUS
<1>2. Units(T) \subseteq Units(S)
  BY DEF Units
<1>3. IsFiniteSet(Units(T))
  BY <1>2, FS_Subset
<1>4. Cardinality(Units(T)) \in Nat
  BY <1>3, FS_CardinalityType
<1>5. req[b].quantity \in Nat
  BY <1>1, UnitsSize
<1> HIDE DEF T
<1>6. Cardinality(Units(T \cup {b})) = Cardinality(Units(T)) + req[b].quantity
  BY <1>1, <1>3, UnitsMore
<1>7. Cardinality(Units(S)) = Cardinality(Units(T)) + req[b].quantity
  BY <1>1, <1>6, Zenon
<1>8. Cardinality(Units(T)) = Cardinality(Units(S)) - req[b].quantity
  BY <1>4, <1>5, <1>7
<1>9. QED
  BY <1>3, <1>8 DEF T

SameQuantities == \A b \in Buyers : req'[b].quantity = req[b].quantity

LEMMA UnitsStay ==
  ASSUME SameQuantities, NEW S \in SUBSET Buyers
  PROVE  Units(S)' = Units(S)
BY DEF SameQuantities, Units

LEMMA QuantitiesStay ==
  ASSUME TypeOK, [Next]_vars
  PROVE  SameQuantities
<1> USE DEF TypeOK, Request, SameQuantities, Goto, Answer
<1>1. ASSUME NEW b \in Buyers, Handler(b) PROVE SameQuantities
  <2>1. CASE ReadProduct(b) \/ DeductStock(b)
    BY <2>1 DEF ReadProduct, DeductStock
  <2>2. CASE AllocateEscrowId(b) \/ InsertOrder(b)
    BY <2>2 DEF AllocateEscrowId, InsertOrder
  <2>3. CASE SubmitCreate(b) \/ PollCreate(b)
    BY <2>3 DEF SubmitCreate, PollCreate
  <2>4. CASE UpdateCreated(b) \/ LogCreated(b)
    BY <2>4 DEF UpdateCreated, LogCreated
  <2>5. CASE MarkFailed(b) \/ NoteFailure(b) \/ RestoreStock(b)
    BY <2>5 DEF MarkFailed, NoteFailure, RestoreStock
  <2>6. QED
    BY <1>1, <2>1, <2>2, <2>3, <2>4, <2>5 DEF Handler
<1>2. ASSUME NEW b \in Buyers, LandCreate(b) \/ Abort(b) PROVE SameQuantities
  BY <1>2 DEF LandCreate, Abort
<1>3. CASE UNCHANGED req
  BY <1>3
<1>4. QED
  BY <1>1, <1>2, <1>3 DEF Next, LandLate, FundOrder, update_stock, archive, verify, vars

LEMMA NextUnplaced == TypeOK /\ Unplaced /\ [Next]_vars => Unplaced'
<1> SUFFICES ASSUME TypeOK, Unplaced, [Next]_vars PROVE Unplaced'
  OBVIOUS
<1> USE DEF TypeOK, Request, Unplaced, Exists, At, Goto, Answer
<1>1. ASSUME NEW b \in Buyers, Handler(b) PROVE Unplaced'
  <2>1. CASE ReadProduct(b) \/ DeductStock(b) \/ AllocateEscrowId(b)
    BY <2>1 DEF ReadProduct, DeductStock, AllocateEscrowId
  <2>2. CASE InsertOrder(b)
    BY <2>2 DEF InsertOrder, Order
  <2>3. CASE SubmitCreate(b) \/ LogCreated(b) \/ NoteFailure(b) \/ RestoreStock(b)
    BY <2>3 DEF SubmitCreate, LogCreated, NoteFailure, RestoreStock
  <2>4. CASE PollCreate(b)
    BY <2>4 DEF PollCreate, AfterPoll
  <2>5. CASE UpdateCreated(b)
    BY <2>5 DEF UpdateCreated
  <2>6. CASE MarkFailed(b)
    BY <2>6 DEF MarkFailed
  <2>7. QED
    BY <1>1, <2>1, <2>2, <2>3, <2>4, <2>5, <2>6 DEF Handler
<1>2. ASSUME NEW b \in Buyers, LandCreate(b) \/ LandLate(b) \/ Abort(b) \/ FundOrder(b)
      PROVE  Unplaced'
  BY <1>2 DEF LandCreate, LandLate, Abort, FundOrder
<1>3. CASE UNCHANGED <<orders, req>>
  BY <1>3
<1>4. QED
  BY <1>1, <1>2, <1>3 DEF Next, update_stock, archive, verify, vars

\* A request that is over and has no units never has any again.
LEMMA LetGoStays ==
  ASSUME TypeOK, [Next]_vars, NEW b \in Buyers, LetGo(b)
  PROVE  LetGo(b)'
<1> USE DEF TypeOK, Request, LetGo, Holds, Exists, At, Goto, Answer
<1>1. ASSUME NEW d \in Buyers, Handler(d) PROVE LetGo(b)'
  <2>1. b # d
    BY <1>1 DEF Handler, ReadProduct, DeductStock, AllocateEscrowId, InsertOrder, SubmitCreate,
                PollCreate, UpdateCreated, LogCreated, MarkFailed, NoteFailure, RestoreStock
  <2>2. req'[b] = req[b]
    BY <1>1, <2>1
       DEF Handler, ReadProduct, DeductStock, AllocateEscrowId, InsertOrder, SubmitCreate,
           PollCreate, UpdateCreated, LogCreated, MarkFailed, NoteFailure, RestoreStock
  <2>3. orders'[b] = orders[b]
    BY <1>1, <2>1
       DEF Handler, ReadProduct, DeductStock, AllocateEscrowId, InsertOrder, SubmitCreate,
           PollCreate, UpdateCreated, LogCreated, MarkFailed, NoteFailure, RestoreStock
  <2>4. QED
    BY <2>2, <2>3
<1>2. ASSUME NEW d \in Buyers, LandCreate(d) \/ LandLate(d) \/ Abort(d) PROVE LetGo(b)'
  BY <1>2 DEF LandCreate, LandLate, Abort
<1>3. ASSUME NEW d \in Buyers, FundOrder(d) PROVE LetGo(b)'
  BY <1>3 DEF FundOrder
<1>4. CASE UNCHANGED <<orders, req>>
  BY <1>4
<1>5. QED
  BY <1>1, <1>2, <1>3, <1>4 DEF Next, update_stock, archive, verify, vars

\* The steps that move no unit.
LEMMA QuietHandler ==
  ASSUME StockInv, NEW b \in Buyers, Handler(b), ~DeductStock(b), ~RestoreStock(b)
  PROVE  /\ \A d \in Buyers : Holds(d)' <=> Holds(d)
         /\ UNCHANGED <<stock, supply, faults>> /\ lapses' >= lapses
<1> USE DEF StockInv, PlacedInv, TypeOK, Request, Unplaced, Exists, At, Goto, Answer, Holds, Steps
<1>0. lapses \in Nat
  BY ConstantsAssumption
<1>1. CASE ReadProduct(b) \/ AllocateEscrowId(b)
  BY <1>0, <1>1 DEF ReadProduct, AllocateEscrowId
<1>2. CASE InsertOrder(b)
  <2>1. req'[b].step \in {"create", "give_back"} /\ Holds(b)
    BY <1>2 DEF InsertOrder
  <2>2. \A d \in Buyers \ {b} : req'[d] = req[d] /\ orders'[d] = orders[d]
    BY <1>2 DEF InsertOrder
  <2>3. QED
    BY <1>0, <1>2, <2>1, <2>2 DEF InsertOrder
<1>3. CASE SubmitCreate(b)
  BY <1>0, <1>3 DEF SubmitCreate
<1>4. CASE PollCreate(b)
  BY <1>0, <1>4 DEF PollCreate, AfterPoll
<1>5. CASE UpdateCreated(b)
  BY <1>0, <1>5 DEF UpdateCreated
<1>6. CASE LogCreated(b)
  BY <1>0, <1>6 DEF LogCreated, OnTheWay
<1>7. CASE MarkFailed(b)
  BY <1>0, <1>7 DEF MarkFailed, Lapse
<1>8. CASE NoteFailure(b)
  BY <1>0, <1>8 DEF NoteFailure, Lapse
<1>9. QED
  BY <1>1, <1>2, <1>3, <1>4, <1>5, <1>6, <1>7, <1>8 DEF Handler

LEMMA QuietOthers ==
  ASSUME StockInv, NEW b \in Buyers, LandCreate(b) \/ LandLate(b) \/ FundOrder(b)
  PROVE  /\ \A d \in Buyers : Holds(d)' <=> Holds(d)
         /\ UNCHANGED <<stock, supply, faults, lapses>>
BY DEF StockInv, PlacedInv, TypeOK, Request, Exists, At, Holds, Steps,
   LandCreate, LandLate, FundOrder

\* What is missing after a step: the same, or the units of one request more.
LEMMA NextStock == StockInv /\ [Next]_vars => StockInv'
<1> SUFFICES ASSUME StockInv, [Next]_vars PROVE Accounted'
  BY NextPlaced, NextUnplaced DEF StockInv, PlacedInv
<1>1. /\ TypeOK /\ SameQuantities
      /\ stock \in Nat /\ supply \in Int /\ faults \in Nat /\ lapses \in Nat
  BY QuantitiesStay, ConstantsAssumption DEF StockInv, PlacedInv, TypeOK
<1>2. PICK lost \in SUBSET Buyers : Missing(lost)
  BY DEF StockInv, Accounted
<1>3. PICK X \in SUBSET Buyers : X = Holders \cup lost
  BY DEF Holders
<1>4. /\ IsFiniteSet(Units(X)) /\ Cardinality(Units(X)) \in Nat
      /\ stock + Cardinality(Units(X)) = supply
      /\ IsFiniteSet(lost) /\ Cardinality(lost) \in Nat /\ Cardinality(lost) <= faults + lapses
  BY <1>2, <1>3, FS_CardinalityType DEF Missing
<1>5. \A b \in lost : b \in Buyers /\ LetGo(b) /\ LetGo(b)'
  BY <1>1, <1>2, LetGoStays DEF Missing
<1>6. ASSUME NEW more \in SUBSET Buyers, NEW Y \in SUBSET Buyers, Y = Holders' \cup more,
             \A b \in more : LetGo(b)',
             IsFiniteSet(more), Cardinality(more) <= faults' + lapses',
             IsFiniteSet(Units(Y)), stock' + Cardinality(Units(Y)) = supply'
      PROVE  Accounted'
  <2>1. Units(Y)' = Units(Y)
    BY <1>1, UnitsStay
  <2>2. Units(Holders \cup more)' = Units(Y)'
    BY <1>6 DEF Units
  <2>3. Missing(more)'
    BY <1>6, <2>1, <2>2 DEF Missing
  <2>4. QED
    BY <2>3 DEF Accounted
<1>7. ASSUME \A d \in Buyers : Holds(d)' <=> Holds(d),
             stock' \in Nat, supply' = supply + stock' - stock,
             UNCHANGED faults, lapses' \in Nat, lapses' >= lapses
      PROVE  Accounted'
  <2>1. X = Holders' \cup lost
    BY <1>3, <1>7 DEF Holders
  <2>2. stock' + Cardinality(Units(X)) = supply' /\ Cardinality(lost) <= faults' + lapses'
    BY <1>1, <1>4, <1>7
  <2>3. QED
    BY <1>4, <1>5, <1>6, <2>1, <2>2
<1>8. ASSUME NEW b \in Buyers, Holds(b), ~Holds(b)', At(b, "done")',
             \A d \in Buyers \ {b} : Holds(d)' <=> Holds(d),
             UNCHANGED <<stock, supply>>, faults' + lapses' = faults + lapses + 1
      PROVE  Accounted'
  <2>1. b \notin lost /\ X = Holders' \cup (lost \cup {b})
    BY <1>3, <1>5, <1>8 DEF Holders, LetGo
  <2>2. IsFiniteSet(lost \cup {b}) /\ Cardinality(lost \cup {b}) = Cardinality(lost) + 1
    BY <1>4, <2>1, FS_AddElement
  <2>3. Cardinality(lost \cup {b}) <= faults' + lapses'
    BY <1>1, <1>4, <1>8, <2>2
  <2>4. \A d \in lost \cup {b} : LetGo(d)'
    BY <1>5, <1>8 DEF LetGo
  <2>5. QED
    BY <1>4, <1>6, <1>8, <2>1, <2>2, <2>3, <2>4
<1>9. ASSUME NEW b \in Buyers, DeductStock(b) PROVE Accounted'
  <2>1. /\ ~Holds(b) /\ ~Exists(b) /\ ~At(b, "done")
        /\ UNCHANGED <<supply, orders, faults, lapses>>
    BY <1>9 DEF DeductStock, At, Holds, StockInv, Unplaced
  <2>2. CASE Enough(req[b].quantity)
    <3>1. Holds(b)' /\ \A d \in Buyers \ {b} : Holds(d)' <=> Holds(d)
      BY <1>1, <1>9, <2>2 DEF DeductStock, Goto, TypeOK, Request, Holds, At, Exists, Steps
    <3>2. b \in Buyers \ X /\ X \cup {b} = Holders' \cup lost
      BY <1>3, <1>5, <2>1, <3>1 DEF Holders, LetGo
    <3>3. /\ IsFiniteSet(Units(X \cup {b}))
          /\ Cardinality(Units(X \cup {b})) = Cardinality(Units(X)) + req[b].quantity
      BY <1>1, <1>4, <3>2, UnitsMore
    <3>4. stock' = stock - req[b].quantity /\ req[b].quantity \in Nat
      BY <1>1, <1>9, <2>2, UnitsSize DEF DeductStock
    <3>5. stock' + Cardinality(Units(X \cup {b})) = supply'
      BY <1>1, <1>4, <2>1, <3>3, <3>4
    <3>6. QED
      BY <1>4, <1>5, <1>6, <2>1, <3>2, <3>3, <3>5
  <2>3. CASE ~Enough(req[b].quantity)
    <3>1. \A d \in Buyers : Holds(d)' <=> Holds(d)
      BY <1>1, <1>9, <2>1, <2>3 DEF DeductStock, Answer, TypeOK, Request, Holds, At, Exists
    <3>2. UNCHANGED <<stock, supply, faults, lapses>>
      BY <1>9, <2>1, <2>3 DEF DeductStock
    <3>3. QED
      BY <1>1, <1>7, <3>1, <3>2
  <2>4. QED
    BY <2>2, <2>3
<1>10. ASSUME NEW b \in Buyers, RestoreStock(b) PROVE Accounted'
  <2>1. Holds(b) /\ ~At(b, "done") /\ UNCHANGED <<supply, orders, faults>>
    BY <1>10 DEF RestoreStock, At, Holds, Steps
  <2>2. ~Holds(b)' /\ At(b, "done")' /\ \A d \in Buyers \ {b} : Holds(d)' <=> Holds(d)
    BY <1>1, <1>10 DEF RestoreStock, Answer, TypeOK, Request, Holds, At, Exists, Steps
  <2>3. CASE stock' = stock + UnitsBack(b) /\ UNCHANGED lapses
    <3>1. b \in X /\ X \ {b} = Holders' \cup lost
      BY <1>3, <1>5, <2>1, <2>2 DEF Holders, LetGo
    <3>2. /\ IsFiniteSet(Units(X \ {b}))
          /\ Cardinality(Units(X \ {b})) = Cardinality(Units(X)) - req[b].quantity
      BY <1>1, <1>4, <3>1, UnitsLess
    <3>3. stock' = stock + req[b].quantity /\ req[b].quantity \in Nat
      BY <1>1, <2>3, UnitsSize DEF UnitsBack
    <3>4. stock' + Cardinality(Units(X \ {b})) = supply' /\ Cardinality(lost) <= faults' + lapses'
      BY <1>1, <1>4, <2>1, <2>3, <3>2, <3>3
    <3>5. QED
      BY <1>4, <1>5, <1>6, <3>1, <3>2, <3>4
  <2>4. CASE Lapse /\ UNCHANGED stock
    BY <1>1, <1>8, <2>1, <2>2, <2>4 DEF Lapse
  <2>5. QED
    BY <1>10, <2>3, <2>4 DEF RestoreStock
<1>11. ASSUME NEW b \in Buyers, Abort(b) PROVE Accounted'
  <2>1. faults' = faults + 1 /\ UNCHANGED <<stock, supply, orders, lapses>>
    BY <1>11 DEF Abort
  <2>2. At(b, "done")' /\ \A d \in Buyers \ {b} : Holds(d)' <=> Holds(d)
    BY <1>1, <1>11 DEF Abort, Answer, TypeOK, Request, Holds, At, Exists
  <2>3. Holds(b)' => Holds(b)
    BY <1>1, <1>11 DEF Abort, Answer, TypeOK, Request, Holds, At, Exists, Steps, StockInv, Unplaced
  <2>4. CASE Holds(b) /\ ~Holds(b)'
    BY <1>1, <1>8, <2>1, <2>2, <2>4
  <2>5. CASE Holds(b)' <=> Holds(b)
    <3>1. X = Holders' \cup lost
      BY <1>3, <2>2, <2>5 DEF Holders
    <3>2. Cardinality(lost) <= faults' + lapses' /\ stock' + Cardinality(Units(X)) = supply'
      BY <1>1, <1>4, <2>1
    <3>3. QED
      BY <1>4, <1>5, <1>6, <3>1, <3>2
  <2>6. QED
    BY <2>3, <2>4, <2>5
<1>12. ASSUME NEW b \in Buyers, Handler(b) PROVE Accounted'
  <2>1. CASE ~DeductStock(b) /\ ~RestoreStock(b)
    <3>1. lapses' \in Nat
      BY NextPlaced, ConstantsAssumption DEF StockInv, PlacedInv, TypeOK
    <3>2. QED
      BY <1>1, <1>7, <1>12, <2>1, <3>1, QuietHandler
  <2>2. QED
    BY <1>9, <1>10, <2>1
<1>13. ASSUME NEW b \in Buyers, LandCreate(b) \/ LandLate(b) \/ FundOrder(b) PROVE Accounted'
  BY <1>1, <1>7, <1>13, QuietOthers
<1>14. ASSUME NEW n \in Nat, stock' = n, supply' = supply + n - stock,
              UNCHANGED <<orders, req, faults, lapses>>
       PROVE  Accounted'
  <2>1. \A d \in Buyers : Holds(d)' <=> Holds(d)
    BY <1>14 DEF Holds, At, Exists
  <2>2. QED
    BY <1>1, <1>7, <1>14, <2>1
<1>15. ASSUME NEW n \in StockLevels, update_stock(n) PROVE Accounted'
  BY <1>14, <1>15, ConstantsAssumption DEF update_stock
<1>16. ASSUME \/ \E flag \in BOOLEAN : archive(flag) \/ verify(flag)
              \/ UNCHANGED vars
       PROVE  Accounted'
  <2>1. UNCHANGED <<stock, supply, orders, req, faults, lapses>>
    BY <1>16 DEF archive, verify, vars
  <2>2. supply' = supply + stock - stock
    BY <1>1, <2>1
  <2>3. QED
    BY <1>1, <1>14, <2>1, <2>2
<1>17. QED
  BY <1>11, <1>12, <1>13, <1>15, <1>16 DEF Next

LEMMA InitStock == Init => StockInv
<1> SUFFICES ASSUME Init PROVE StockInv
  OBVIOUS
<1>1. \A b \in Buyers : req[b].step = "read" /\ ~Exists(b)
  BY DEF Init, Exists, Absent
<1>2. Units(Holders \cup {}) = {}
  BY <1>1 DEF Units, Holders, Holds, At, Steps
<1>3. IsFiniteSet({}) /\ Cardinality({}) = 0
  BY FS_EmptySet
<1>4. Missing({})
  <2>1. IsFiniteSet(Units(Holders \cup {})) /\ Cardinality(Units(Holders \cup {})) = 0
    BY <1>2, <1>3, Zenon
  <2>2. /\ stock \in Nat /\ supply = stock
        /\ Cardinality({}) <= faults + lapses
    BY <1>3, ConstantsAssumption DEF Init
  <2>3. stock + Cardinality(Units(Holders \cup {})) = supply
    BY <2>1, <2>2
  <2>4. QED
    BY <1>3, <2>1, <2>2, <2>3, Zenon DEF Missing
<1>5. Unplaced
  BY <1>1 DEF Unplaced
<1>6. QED
  BY <1>4, <1>5, InitPlaced DEF StockInv, Accounted

\* Every unit is on the shelf, off it on the account of an order or a handler, or one of
\* a request whose handler was cut short or could not give its units back; for any
\* buyers, any quantities and any corrections by the seller.
THEOREM StockCorrect == Spec => []StockConserved
<1>1. StockInv => StockConserved
  BY DEF StockInv, Accounted, Missing, StockConserved
<1>2. QED
  BY <1>1, InitStock, NextStock, PTL DEF Spec

-----------------------------------------------------------------------------
(* The hand-over to the later handlers.                                    *)

\* An order without a row is one nobody else has heard of.
Rowless ==
  \A b \in Buyers :
    ~Exists(b) => orders[b] = Absent /\ b \notin escrows \cup late /\ history[b] = {}

\* The row of an order while its money is not protected.
Shapes(b) ==
  orders[b].payment_status = "PENDING" =>
    \/ orders[b].status = "PENDING" /\ orders[b].escrow_state \in {"NONE", "CREATED"}
    \/ orders[b].status = "FAILED" /\ orders[b].escrow_state = "FAILED"
    \/ orders[b] = Absent

\* The creation of an escrow is sent once: it is under way with the handler that
\* waits for it, or without, or it has ended; and then the escrow exists, or never will.
SentOnce(b) ==
  /\ req[b].step \in {"create", "wait", "created", "log", "mark", "note"} => Exists(b)
  /\ req[b].step = "create" \/ (req[b].step = "wait" /\ req[b].tx = "pending")
       => b \notin escrows
  /\ req[b].step \in {"create", "wait", "created", "log"} => b \notin late
  /\ b \in late => b \notin escrows
  /\ orders[b].escrow_state = "CREATED" => b \in escrows

HandInv ==
  /\ PlacedInv /\ Unplaced /\ Rowless
  /\ \A b \in Buyers : Shapes(b) /\ SentOnce(b)
  /\ \A b \in Buyers : req[b].answer = "refused" => ~Exists(b)

\* A step that touches the request and the order of one buyer only.
LEMMA Elsewhere ==
  ASSUME HandInv, NEW b \in Buyers, NEW d \in Buyers \ {b},
         orders'[d] = orders[d], history'[d] = history[d], req'[d] = req[d],
         d \in escrows' <=> d \in escrows, d \in late' <=> d \in late
  PROVE  /\ (~Exists(d) => orders[d] = Absent /\ d \notin escrows \cup late /\ history[d] = {})'
         /\ Shapes(d)' /\ SentOnce(d)' /\ (req[d].answer = "refused" => ~Exists(d))'
BY DEF HandInv, Rowless, Shapes, SentOnce, Exists

LEMMA HandlerHands ==
  ASSUME HandInv, NEW b \in Buyers, Handler(b)
  PROVE  Rowless' /\ \A d \in Buyers : Shapes(d)' /\ SentOnce(d)' /\ (req[d].answer = "refused" => ~Exists(d))'
<1>1. \A d \in Buyers \ {b} :
         /\ orders'[d] = orders[d] /\ history'[d] = history[d] /\ req'[d] = req[d]
         /\ d \in escrows' <=> d \in escrows
         /\ d \in late' <=> d \in late
  BY DEF HandInv, PlacedInv, TypeOK, Handler, ReadProduct, DeductStock, AllocateEscrowId, InsertOrder,
         SubmitCreate, PollCreate, UpdateCreated, LogCreated, MarkFailed, NoteFailure,
         RestoreStock, Goto, Answer
<1> DEFINE Good == /\ (~Exists(b) => orders[b] = Absent /\ b \notin escrows \cup late /\ history[b] = {})'
                   /\ Shapes(b)' /\ SentOnce(b)' /\ (req[b].answer = "refused" => ~Exists(b))'
<1>2. SUFFICES Good
  BY <1>1, Elsewhere DEF Rowless
<1> USE DEF HandInv, PlacedInv, TypeOK, Order, Request, Rowless, Shapes, SentOnce, Exists, At, Goto, Answer
<1>3. CASE ReadProduct(b)
  BY <1>3 DEF ReadProduct, Unplaced, OnTheWay
<1>4. CASE DeductStock(b)
  BY <1>4 DEF DeductStock, Unplaced, OnTheWay
<1>5. CASE AllocateEscrowId(b)
  BY <1>5 DEF AllocateEscrowId, OnTheWay
<1>6. CASE InsertOrder(b)
  <2>1. CASE Goto(b, "give_back") /\ UNCHANGED orders
    <3>1. /\ req'[b].step = "give_back" /\ req'[b].answer = req[b].answer
          /\ UNCHANGED <<orders, history, escrows, late>>
      BY <1>6, <2>1 DEF InsertOrder
    <3>2. b \notin late \/ b \notin escrows
      OBVIOUS
    <3> QED
      BY <3>1, <3>2
  <2>2. CASE orders' = [orders EXCEPT ![b].status = "PENDING"] /\ Goto(b, "create")
    <3>1. orders[b] = Absent /\ b \notin escrows \cup late /\ req[b].answer = "none"
      BY <1>6 DEF InsertOrder, Unplaced, OnTheWay
    <3>2. /\ orders'[b].status = "PENDING" /\ orders'[b].payment_status = "PENDING"
          /\ orders'[b].escrow_state = "NONE"
      BY <2>2, <3>1 DEF Absent
    <3>3. /\ req'[b].step = "create" /\ req'[b].answer = "none"
          /\ UNCHANGED <<escrows, late>>
      BY <1>6, <2>2, <3>1 DEF InsertOrder
    <3> QED
      BY <3>1, <3>2, <3>3
  <2> QED
    BY <1>6, <2>1, <2>2 DEF InsertOrder
<1>7. CASE SubmitCreate(b)
  BY <1>7 DEF SubmitCreate, OnTheWay
<1>8. CASE PollCreate(b)
  BY <1>8 DEF PollCreate, AfterPoll, OnTheWay
<1>9. CASE UpdateCreated(b)
  <2>1. /\ Exists(b) /\ b \in escrows /\ b \notin late /\ req[b].answer = "none"
        /\ orders[b].status \in {"PENDING", "CONFIRMED"}
    BY <1>9 DEF UpdateCreated, OnTheWay
  <2>2. /\ orders'[b].status = orders[b].status
        /\ orders'[b].payment_status = orders[b].payment_status
        /\ orders'[b].escrow_state = "CREATED"
    BY <1>9 DEF UpdateCreated
  <2>3. /\ req'[b].step = "log" /\ req'[b].answer = req[b].answer
        /\ UNCHANGED <<history, escrows, late>>
    BY <1>9 DEF UpdateCreated
  <2>4. orders[b].payment_status = "PENDING" => orders[b].status = "PENDING"
    <3>1. ~(orders[b] = Absent)
      BY <2>1 DEF Absent
    <3>2. Shapes(b)
      OBVIOUS
    <3> QED
      BY <2>1, <3>1, <3>2
  <2>5. Shapes(b)'
    BY <2>2, <2>4
  <2> QED
    BY <2>1, <2>2, <2>3, <2>5
<1>10. CASE LogCreated(b)
  BY <1>10 DEF LogCreated, OnTheWay
<1>11. CASE MarkFailed(b)
  BY <1>11 DEF MarkFailed, OnTheWay
<1>12. CASE NoteFailure(b)
  BY <1>12 DEF NoteFailure, OnTheWay
<1>13. CASE RestoreStock(b)
  BY <1>13 DEF RestoreStock, OnTheWay
<1> QED
  BY <1>3, <1>4, <1>5, <1>6, <1>7, <1>8, <1>9, <1>10, <1>11, <1>12, <1>13 DEF Handler

LEMMA NextHands == HandInv /\ [Next]_vars => HandInv'
<1> DEFINE Good == Rowless' /\ \A d \in Buyers : Shapes(d)' /\ SentOnce(d)' /\ (req[d].answer = "refused" => ~Exists(d))'
<1> SUFFICES ASSUME HandInv, [Next]_vars PROVE Good
  BY NextPlaced, NextUnplaced DEF HandInv, PlacedInv
<1> USE DEF HandInv, PlacedInv, TypeOK, Order, Request, Rowless, Shapes, SentOnce, Exists, At, Goto, Answer
<1>1. ASSUME NEW b \in Buyers, LandCreate(b) PROVE Good
  <2>1. /\ Exists(b) /\ b \notin late
        /\ req'[b].step = "wait" /\ req'[b].tx # "pending" /\ req'[b].answer = req[b].answer
        /\ UNCHANGED <<orders, history, late>> /\ escrows \subseteq escrows'
    BY <1>1 DEF LandCreate
  <2>2. \A d \in Buyers \ {b} : req'[d] = req[d] /\ (d \in escrows' <=> d \in escrows)
    BY <1>1 DEF LandCreate
  <2>3. Rowless'
    BY <2>1, <2>2
  <2>4. ASSUME NEW d \in Buyers
        PROVE  Shapes(d)' /\ SentOnce(d)' /\ (req'[d].answer = "refused" => ~Exists(d)')
    <3>1. CASE d = b
      BY <2>1, <3>1
    <3>2. CASE d # b
      BY <2>1, <2>2, <3>2, Elsewhere
    <3> QED
      BY <3>1, <3>2
  <2> QED
    BY <2>3, <2>4
<1>2. ASSUME NEW b \in Buyers, LandLate(b) PROVE Good
  BY <1>2 DEF LandLate
<1>3. ASSUME NEW b \in Buyers, Abort(b) PROVE Good
  BY <1>3 DEF Abort, Unplaced, OnTheWay
<1>4. ASSUME NEW b \in Buyers, FundOrder(b) PROVE Good
  BY <1>4 DEF FundOrder
<1>5. CASE UNCHANGED <<orders, history, escrows, late, req>>
  BY <1>5
<1> QED
  BY HandlerHands, <1>1, <1>2, <1>3, <1>4, <1>5 DEF Next, update_stock, archive, verify, vars

LEMMA InitHands == Init => HandInv
<1> SUFFICES ASSUME Init PROVE HandInv
  OBVIOUS
<1>1. PlacedInv
  BY InitPlaced
<1>2. \A b \in Buyers : orders[b] = Absent /\ req[b].step = "read" /\ req[b].answer = "none"
  BY DEF Init
<1> QED
  BY <1>1, <1>2 DEF Init, HandInv, Unplaced, Rowless, Shapes, SentOnce, Exists, Absent

\* OrderEscrow starts where OrderPlacement ends: any orders that have been answered
\* for and not funded are in one of its initial states.
THEOREM OrdersHandedOver == Spec => []HandedOver
<1>1. HandInv => HandedOver
  <2> SUFFICES ASSUME HandInv, NEW D \in SUBSET Buyers, D # {}, \A b \in D : Handed(b)
               PROVE  Life(D)!Init
    BY DEF HandedOver
  <2>1. ASSUME NEW b \in D
        PROVE  /\ \E e \in {"NONE", "CREATED", "FAILED"} : RowOf(b) = Life(D)!NewOrder(e)
               /\ RowOf(b).escrow_state = "CREATED" => b \in escrows
               /\ b \in late => b \notin escrows
    <3>1. b \in Buyers /\ orders[b] \in Order /\ orders[b].payment_status = "PENDING"
          /\ orders[b].status # "ABSENT"
      BY DEF Handed, Exists, HandInv, PlacedInv, TypeOK
    <3>2. \/ orders[b].status = "PENDING" /\ orders[b].escrow_state \in {"NONE", "CREATED"}
          \/ orders[b].status = "FAILED" /\ orders[b].escrow_state = "FAILED"
      BY <3>1 DEF HandInv, Shapes, Absent
    <3>3. RowOf(b) = Life(D)!NewOrder(orders[b].escrow_state)
      BY <3>1, <3>2 DEF RowOf, Life!NewOrder
    <3>4. orders[b].escrow_state \in {"NONE", "CREATED", "FAILED"}
      BY <3>2
    <3>5. /\ RowOf(b).escrow_state = "CREATED" => b \in escrows
          /\ b \in late => b \notin escrows
      BY <3>1 DEF HandInv, SentOnce, RowOf
    <3> QED
      BY <3>3, <3>4, <3>5
  <2> QED
    BY <2>1 DEF Life!Init
<1>2. QED
  BY <1>1, InitHands, NextHands, PTL DEF Spec

\* A buyer whose order was refused has no order and no escrow, and gets none.
THEOREM RefusedLeavesNothing == Spec => []RefusedIsNothing
<1>1. HandInv => RefusedIsNothing
  BY DEF HandInv, Rowless, RefusedIsNothing
<1>2. QED
  BY <1>1, InitHands, NextHands, PTL DEF Spec

\* The paid orders that were not reported failed, and the shelf, never exceed what the
\* seller put up: each of those orders still has its units.
THEOREM OversoldByFailedOnly == Spec => []OnlyFailedOversell
<1>1. StockInv /\ HandInv => OnlyFailedOversell
  <2> SUFFICES ASSUME StockInv, HandInv PROVE OnlyFailedOversell
    OBVIOUS
  <2> DEFINE S == {b \in Buyers : Sold(b) /\ ~ReportedFailed(b)}
  <2>1. S \subseteq Holders
    <3> SUFFICES ASSUME NEW b \in Buyers, Sold(b), ~ReportedFailed(b) PROVE Holds(b)
      BY DEF Holders
    <3>1. Exists(b)
      BY DEF Sold, HandInv, Rowless, Absent
    <3>2. req[b].step \in Steps
      BY DEF HandInv, PlacedInv, TypeOK, Request
    <3>3. QED
      BY <3>1, <3>2 DEF ReportedFailed, Holds, At, HandInv, Unplaced
  <2>2. PICK lost \in SUBSET Buyers : Missing(lost)
    BY DEF StockInv, Accounted
  <2>3. Units(S) \subseteq Units(Holders \cup lost)
    BY <2>1 DEF Units
  <2> HIDE DEF S
  <2>4. /\ IsFiniteSet(Units(Holders \cup lost))
        /\ stock + Cardinality(Units(Holders \cup lost)) = supply
    BY <2>2 DEF Missing
  <2>5. /\ IsFiniteSet(Units(S))
        /\ Cardinality(Units(S)) <= Cardinality(Units(Holders \cup lost))
    BY <2>3, <2>4, FS_Subset
  <2>6. /\ Cardinality(Units(S)) \in Nat /\ Cardinality(Units(Holders \cup lost)) \in Nat
        /\ stock \in Nat
    BY <2>4, <2>5, FS_CardinalityType DEF StockInv, PlacedInv, TypeOK
  <2>7. stock >= 0 /\ stock + Cardinality(Units(S)) <= supply
    BY <2>4, <2>5, <2>6
  <2>8. QED
    BY <2>7 DEF S, OnlyFailedOversell
<1>2. QED
  BY <1>1, InitStock, NextStock, InitHands, NextHands, PTL DEF Spec
=============================================================================
