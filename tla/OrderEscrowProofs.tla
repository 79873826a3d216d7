-------------------------- MODULE OrderEscrowProofs --------------------------
(***************************************************************************)
(* Theorems about OrderEscrow, for any set of orders, any number of        *)
(* handlers in flight and any number of interruptions.                     *)
(***************************************************************************)
EXTENDS OrderEscrow, TLAPS

-----------------------------------------------------------------------------
(* Type correctness.                                                       *)

LEMMA IdleType == Idle \in Request
<1>1. (CHOOSE o \in Orders : TRUE) \in Orders
  BY ConstantsAssumption
<1>2. QED
  BY <1>1 DEF Idle, Request, Ops, ChainOps, Fns, ResolveFns, Steps, TxStates,
              ValidStatuses, AllVerdicts, DeliveryStatuses

LEMMA NewOrderType ==
  ASSUME NEW e \in Placements
  PROVE  NewOrder(e) \in Order
BY ConstantsAssumption DEF NewOrder, Order, Statuses, PaymentStatuses,
   DeliveryStatuses, EscrowStates, TxColumns

LEMMA InitType == Init => TypeOK
<1> SUFFICES ASSUME Init PROVE TypeOK
  OBVIOUS
<1>1. orders \in [Orders -> Order]
  BY NewOrderType DEF Init
<1>2. calls \in [Orders -> SUBSET Fns]
  BY DEF Init, Fns
<1>3. late \subseteq Orders \X Fns
  BY DEF Init, Fns
<1>4. req \in [Requests -> Request]
  BY IdleType DEF Init
<1>5. QED
  BY <1>1, <1>2, <1>3, <1>4, ConstantsAssumption DEF Init, TypeOK

\* What the start of a handler does to the request slots.
LEMMA StartType ==
  ASSUME TypeOK, NEW r \in Requests, NEW o \in Orders, Start(r, o)
  PROVE  TypeOK'
<1>1. ASSUME NEW op \in Ops, NEW step \in Steps, Begin(r, o, op, step)
      PROVE  req' \in [Requests -> Request]
  BY <1>1, IdleType DEF TypeOK, Begin, Request
<1>2. req' \in [Requests -> Request]
  <2> USE DEF Ops, ChainOps, Fns, ResolveFns, Steps
  <2>1. CASE StartFund(r, o) \/ StartConfirmDelivery(r, o) \/ StartRefund(r, o)
             \/ StartDispute(r, o)
    BY <2>1, <1>1 DEF StartFund, StartConfirmDelivery, StartRefund, StartDispute
  <2>2. CASE StartResolve(r, o)
    BY <2>2, <1>1 DEF StartResolve
  <2>3. CASE StartUpdateStatus(r, o)
    <3>1. PICK s \in ValidStatuses :
            req' = [req EXCEPT ![r] =
                      [Idle EXCEPT !.order = o, !.step = "write", !.asked = s,
                                   !.seen = orders[o].delivery_status]]
      BY <2>3, ConstantsAssumption DEF StartUpdateStatus
    <3>2. orders[o].delivery_status \in DeliveryStatuses
      BY DEF TypeOK, Order
    <3>3. [Idle EXCEPT !.order = o, !.step = "write", !.asked = s,
                       !.seen = orders[o].delivery_status] \in Request
      BY <3>2, IdleType DEF Request
    <3>4. QED
      BY <3>1, <3>3 DEF TypeOK
  <2>4. CASE StartPickupInspection(r, o)
    <3>1. PICK v \in AllVerdicts :
            req' = [req EXCEPT ![r] =
                      [Idle EXCEPT !.op = "pickup_inspection", !.order = o,
                                   !.step = "insert", !.verdict = v]]
      BY <2>4, ConstantsAssumption DEF StartPickupInspection
    <3>2. [Idle EXCEPT !.op = "pickup_inspection", !.order = o,
                       !.step = "insert", !.verdict = v] \in Request
      BY IdleType DEF Request
    <3>3. QED
      BY <3>1, <3>2 DEF TypeOK
  <2>5. QED
    BY <2>1, <2>2, <2>3, <2>4 DEF Start
<1>3. UNCHANGED <<orders, history, credits, calls, late, faults>>
  BY DEF Start, StartFund, StartConfirmDelivery, StartRefund, StartDispute,
         StartResolve, StartUpdateStatus, StartPickupInspection
<1>4. QED
  BY <1>2, <1>3 DEF TypeOK

\* Moving on or ending keeps every slot a request.
LEMMA GotoType ==
  ASSUME TypeOK, NEW r \in Requests,
         (\E step \in Steps : Goto(r, step)) \/ End(r)
  PROVE  req' \in [Requests -> Request]
<1>1. CASE \E step \in Steps : Goto(r, step)
  BY <1>1 DEF Goto, TypeOK, Request
<1>2. CASE End(r)
  BY <1>2, IdleType DEF End, TypeOK
<1>3. QED
  BY <1>1, <1>2

\* Every UPDATE writes a row of the table.
LEMMA RowType ==
  ASSUME TypeOK, NEW r \in Requests, Write(r)
  PROVE  orders' \in [Orders -> Order]
<1>1. Row(r) \in Order /\ req[r] \in Request /\ req[r].order \in Orders
  BY DEF TypeOK, Row, Request
<1>2. ASSUME NEW row \in Order, Update(r, row)
      PROVE  orders' \in [Orders -> Order]
  BY <1>1, <1>2 DEF TypeOK, Update
<1>3. ASSUME NEW status \in Statuses, NEW pay \in {"RELEASED", "REFUNDED"},
             NEW column \in TxColumns
      PROVE  Settled(Row(r), status, pay, column) \in Order
  BY <1>1 DEF Settled, Order, PaymentStatuses, EscrowStates
<1> USE DEF Statuses, ValidStatuses, TxColumns
<1>4. CASE WriteFund(r)
  <2>1. [Row(r) EXCEPT !.status = "CONFIRMED", !.payment_status = "PROTECTED",
           !.escrow_state = "FUNDED",
           !.tx_hashes = @ \cup {"funding_tx_hash"}] \in Order
    BY <1>1 DEF Order, PaymentStatuses, EscrowStates
  <2>2. QED
    BY <1>4, <2>1, <1>2 DEF WriteFund, TypeOK
<1>5. CASE WriteConfirmDelivery(r)
  BY <1>5, <1>2, <1>3 DEF WriteConfirmDelivery, TypeOK
<1>6. CASE WriteRefund(r)
  BY <1>6, <1>2, <1>3 DEF WriteRefund
<1>7. CASE WriteResolve(r)
  BY <1>7, <1>2, <1>3 DEF WriteResolve
<1>8. CASE WriteDispute(r)
  <2>1. [Row(r) EXCEPT !.status = "DISPUTED", !.escrow_state = "DISPUTED"] \in Order
    BY <1>1 DEF Order, EscrowStates
  <2>2. QED
    BY <1>8, <2>1, <1>2 DEF WriteDispute
<1>9. CASE WriteUpdateStatus(r)
  <2>1. req[r].asked \in Statuses
    BY <1>1 DEF Request
  <2>2. DeliveryFor(req[r].asked, req[r].seen) \in DeliveryStatuses
    BY <1>1 DEF Request, DeliveryFor, DeliveryStatuses
  <2>3. [Row(r) EXCEPT !.status = req[r].asked,
           !.delivery_status = DeliveryFor(req[r].asked, req[r].seen)] \in Order
    BY <1>1, <2>1, <2>2 DEF Order
  <2>4. QED
    BY <1>9, <2>3, <1>2 DEF WriteUpdateStatus
<1>10. CASE WritePickupInspection(r)
  <2>1. [Row(r) EXCEPT !.status = "READY_FOR_PICKUP",
           !.delivery_status = "PICKUP_READY"] \in Order
    BY <1>1 DEF Order, DeliveryStatuses
  <2>2. QED
    BY <1>10, <2>1, <1>2 DEF WritePickupInspection
<1>11. QED
  BY <1>4, <1>5, <1>6, <1>7, <1>8, <1>9, <1>10 DEF Write

\* Every step of a handler, of the ledger or of a client keeps the types.
LEMMA NextType == TypeOK /\ OnContract /\ [Next]_vars => TypeOK'
<1> SUFFICES ASSUME TypeOK, OnContract, [Next]_vars PROVE TypeOK'
  OBVIOUS
<1>1. ASSUME NEW r \in Requests, NEW o \in Orders, Start(r, o)
      PROVE  TypeOK'
  BY <1>1, StartType
<1>2. ASSUME NEW r \in Requests, Write(r)
      PROVE  TypeOK'
  <2>1. orders' \in [Orders -> Order]
    BY <1>2, RowType
  <2>2. (\E step \in Steps : Goto(r, step)) \/ End(r)
    BY <1>2 DEF Write, WriteFund, WriteConfirmDelivery, WriteRefund, WriteDispute,
         WriteResolve, WriteUpdateStatus, WritePickupInspection, Steps
  <2>3. req' \in [Requests -> Request]
    BY <2>2, GotoType
  <2>4. UNCHANGED <<history, credits, calls, late, faults>>
    BY <1>2 DEF Write, WriteFund, WriteConfirmDelivery, WriteRefund, WriteDispute,
         WriteResolve, WriteUpdateStatus, WritePickupInspection
  <2>5. QED
    BY <2>1, <2>3, <2>4 DEF TypeOK
<1>3. ASSUME NEW r \in Requests, Submit(r) \/ VerifyHash(r) \/ Reject(r) \/ Poll(r)
      PROVE  TypeOK'
  <2>1. req' \in [Requests -> Request]
    <3>1. CASE Submit(r)
      <4>1. [req[r] EXCEPT !.step = "wait", !.tx = "pending"] \in Request
        BY DEF TypeOK, Request, Steps, TxStates
      <4>2. req' = [req EXCEPT ![r] = [req[r] EXCEPT !.step = "wait", !.tx = "pending"]]
        BY <3>1 DEF Submit, TypeOK
      <4>3. QED
        BY <4>1, <4>2 DEF TypeOK
    <3>2. CASE VerifyHash(r) \/ Reject(r) \/ Poll(r)
      BY <3>2, GotoType DEF VerifyHash, Reject, Poll, AfterPoll, Steps
    <3>3. QED
      BY <1>3, <3>1, <3>2
  <2>2. UNCHANGED <<orders, history, credits, calls, late, faults>>
    BY <1>3 DEF Submit, VerifyHash, Reject, Poll
  <2>3. QED
    BY <2>1, <2>2 DEF TypeOK
<1>4. ASSUME NEW r \in Requests, Log(r) \/ InsertInspection(r)
      PROVE  TypeOK'
  <2>1. req' \in [Requests -> Request]
    BY <1>4, GotoType DEF Log, InsertInspection, Steps
  <2>2. EventOf(req[r]) \in Events
    <3>1. /\ req[r].asked \in ValidStatuses
          /\ req[r].op \in {"fund_escrow", "release_escrow", "refund_escrow",
                "dispute_escrow", "resolve_release", "resolve_refund",
                "pickup_inspection", "update_status"}
      BY DEF TypeOK, Request, Ops, ChainOps, Fns, ResolveFns
    <3>2. QED
      BY <3>1 DEF EventOf, Events, ValidStatuses
  <2>3. history' \in [Orders -> SUBSET Events]
    BY <1>4, <2>2 DEF Log, InsertInspection, record_order_status_history, TypeOK, Events
  <2>4. UNCHANGED <<orders, credits, calls, late, faults>>
    BY <1>4 DEF Log, InsertInspection
  <2>5. QED
    BY <2>1, <2>3, <2>4 DEF TypeOK
<1>5. ASSUME NEW r \in Requests, Credit(r)
      PROVE  TypeOK'
  <2>1. req' \in [Requests -> Request]
    BY <1>5, GotoType DEF Credit
  <2>2. credits' \in [Orders -> 0..MaxCredits]
    <3>1. /\ req[r].order \in Orders /\ credits[req[r].order] \in 0..MaxCredits
          /\ credits[req[r].order] < MaxCredits
      BY <1>5 DEF Credit, TypeOK, Request
    <3>2. credits[req[r].order] + 1 \in 0..MaxCredits
      BY <3>1, ConstantsAssumption
    <3>3. credits' = [credits EXCEPT ![req[r].order] = credits[req[r].order] + 1]
      BY <1>5 DEF Credit
    <3>4. QED
      BY <3>2, <3>3 DEF TypeOK
  <2>3. QED
    BY <1>5, <2>1, <2>2 DEF Credit, TypeOK
<1>6. ASSUME NEW r \in Requests, Land(r)
      PROVE  TypeOK'
  <2>1. req[r].op \in Fns /\ req[r].order \in Orders
    BY <1>6 DEF Land, At, OnContract, ChainOps, TypeOK, Request
  <2>2. calls' \in [Orders -> SUBSET Fns]
    BY <1>6, <2>1 DEF Land, TypeOK
  <2>3. req' \in [Requests -> Request]
    <3>1. \A t \in TxStates : [req[r] EXCEPT !.tx = t] \in Request
      BY DEF TypeOK, Request
    <3>2. \E t \in TxStates : req' = [req EXCEPT ![r] = [req[r] EXCEPT !.tx = t]]
      BY <1>6 DEF Land, TypeOK, TxStates
    <3>3. QED
      BY <3>1, <3>2 DEF TypeOK
  <2>4. QED
    BY <1>6, <2>2, <2>3 DEF Land, TypeOK
<1>7. ASSUME NEW r \in Requests, Abort(r)
      PROVE  TypeOK'
  <2>1. req' \in [Requests -> Request]
    BY <1>7, GotoType DEF Abort
  <2>2. late' \subseteq Orders \X Fns
    BY <1>7 DEF Abort, OnContract, ChainOps, TypeOK, Request
  <2>3. faults' \in 0..MaxFaults
    BY <1>7, ConstantsAssumption DEF Abort, TypeOK
  <2>4. QED
    BY <1>7, <2>1, <2>2, <2>3 DEF Abort, TypeOK
<1>8. ASSUME NEW o \in Orders, NEW fn \in Fns, LandLate(o, fn) \/ WalletSubmit(o, fn)
      PROVE  TypeOK'
  BY <1>8 DEF LandLate, WalletSubmit, TypeOK
<1>9. CASE UNCHANGED vars
  BY <1>9 DEF vars, TypeOK
<1>10. QED
  BY <1>1, <1>2, <1>3, <1>4, <1>5, <1>6, <1>7, <1>8, <1>9 DEF Next, Progress

\* Only the handlers that act on the contract reach the steps that do.
LEMMA InitOnContract == Init => OnContract
BY DEF Init, OnContract, Idle

LEMMA NextOnContract == TypeOK /\ OnContract /\ [Next]_vars => OnContract'
<1> SUFFICES ASSUME TypeOK, OnContract, [Next]_vars PROVE OnContract'
  OBVIOUS
<1> USE DEF OnContract
<1>1. ASSUME NEW r \in Requests, NEW o \in Orders, Start(r, o)
      PROVE  OnContract'
  <2>1. CASE \E op \in ChainOps : Begin(r, o, op, "call")
    BY <2>1 DEF Begin, Idle, TypeOK, Request
  <2>2. CASE StartUpdateStatus(r, o) \/ StartPickupInspection(r, o)
    <3>1. /\ req'[r].step \in {"write", "insert"} /\ req'[r].tx = "none"
          /\ req'[r].step = "insert" => req'[r].op = "pickup_inspection"
      <4>1. CASE StartUpdateStatus(r, o)
        BY <4>1 DEF StartUpdateStatus, Idle, TypeOK
      <4>2. CASE StartPickupInspection(r, o)
        BY <4>2 DEF StartPickupInspection, Idle, TypeOK
      <4>3. QED
        BY <2>2, <4>1, <4>2
    <3>2. \A p \in Requests \ {r} : req'[p] = req[p]
      BY <2>2 DEF StartUpdateStatus, StartPickupInspection, TypeOK
    <3>3. QED
      BY <3>1, <3>2
  <2>3. CASE StartFund(r, o) \/ StartConfirmDelivery(r, o) \/ StartRefund(r, o)
             \/ StartDispute(r, o) \/ StartResolve(r, o)
    BY <2>1, <2>3 DEF StartFund, StartConfirmDelivery, StartRefund, StartDispute,
       StartResolve, ChainOps, Fns, ResolveFns
  <2>4. QED
    BY <1>1, <2>2, <2>3 DEF Start
<1>2. ASSUME NEW r \in Requests, (\E step \in {"write", "log", "credit"} : Goto(r, step)) \/ End(r)
      PROVE  OnContract'
  BY <1>2 DEF Goto, End, Idle, TypeOK, Request
<1>3. ASSUME NEW r \in Requests, Progress(r) \/ Abort(r), ~Submit(r)
      PROVE  OnContract'
  BY <1>3, <1>2 DEF Progress, Write, WriteFund, WriteConfirmDelivery, WriteRefund,
     WriteDispute, WriteResolve, WriteUpdateStatus, WritePickupInspection,
     VerifyHash, Reject, Poll, AfterPoll, Log, InsertInspection, Credit, Abort
<1>4. ASSUME NEW r \in Requests, Submit(r) \/ Land(r)
      PROVE  OnContract'
  BY <1>4 DEF Submit, Land, At, TypeOK, Request
<1>5. ASSUME UNCHANGED req
      PROVE  OnContract'
  BY <1>5
<1>6. QED
  BY <1>1, <1>3, <1>4, <1>5 DEF Next, LandLate, WalletSubmit, vars, Progress

\* Every variable keeps its type, and only contract handlers hold transactions,
\* in every reachable state.
THEOREM TypeCorrect == Spec => [](TypeOK /\ OnContract)
<1>1. Init => TypeOK /\ OnContract
  BY InitType, InitOnContract
<1>2. TypeOK /\ OnContract /\ [Next]_vars => (TypeOK /\ OnContract)'
  BY NextType, NextOnContract
<1>3. QED
  BY <1>1, <1>2, PTL DEF Spec

-----------------------------------------------------------------------------
(* What a client shows.                                                    *)

\* Every call the backend builds names its escrow first.
LEMMA EscrowIsFirst ==
  ASSUME NEW fn, NEW escrow
  PROVE  FirstU64(Args(fn, escrow)) = {escrow}
<1> DEFINE args == Args(fn, escrow)
<1>1. 1 \in DOMAIN args /\ args[1] = Arg("U64", escrow) /\ DOMAIN args \subseteq Nat \ {0}
  BY DEF Args
<1>2. args[1].type = "U64" /\ args[1].val = escrow
  BY <1>1 DEF Arg
<1>3. ASSUME NEW j \in DOMAIN args, \A k \in 1..j - 1 : args[k].type # "U64"
      PROVE  j = 1
  <2> HIDE DEF args
  <2>1. ASSUME j # 1 PROVE FALSE
    BY <1>1, <1>2, <1>3, <2>1
  <2>2. QED
    BY <2>1
<1>4. {j \in DOMAIN args : args[j].type = "U64" /\ \A k \in 1..j - 1 : args[k].type # "U64"} = {1}
  <2> HIDE DEF args
  <2> QED
    BY <1>1, <1>2, <1>3
<1>5. QED
  BY <1>2, <1>4 DEF FirstU64

LEMMA CallParses ==
  ASSUME NEW contract, NEW fn, NEW escrow
  PROVE  LET semantics == parse_xdr_semantics(Call(contract, fn, escrow)) IN
         /\ semantics.contract_id = {contract}
         /\ semantics.function = {FunctionOf(fn)}
         /\ semantics.escrow_id = {escrow}
<1>1. FirstU64(Args(fn, escrow)) = {escrow}
  BY EscrowIsFirst
<1>2. QED
  BY <1>1 DEF parse_xdr_semantics, Call

\* Verifying a shown transaction (service.rs, verify_transaction_semantics)
\* accepts exactly the calls of the expected function that succeeded on the
\* escrow of the order, whatever else is on the ledger.
THEOREM ShownIsCall ==
  ASSUME TypeOK, NEW op \in Fns, NEW o \in Orders
  PROVE  (\E envelope \in OnLedger :
            verify_transaction_semantics(envelope, FunctionOf(op), o))
         <=> (\E fn \in calls[o] : FunctionOf(fn) = FunctionOf(op))
<1>1. ASSUME NEW fn \in calls[o], FunctionOf(fn) = FunctionOf(op)
      PROVE  \E envelope \in OnLedger :
               verify_transaction_semantics(envelope, FunctionOf(op), o)
  <2>1. <<o, fn>> \in {q \in Orders \X Fns : q[2] \in calls[q[1]]}
    BY DEF TypeOK
  <2>2. Call("ours", fn, o) \in OnLedger
    BY <2>1 DEF OnLedger
  <2>3. verify_transaction_semantics(Call("ours", fn, o), FunctionOf(op), o)
    BY <1>1, CallParses DEF verify_transaction_semantics
  <2>4. QED
    BY <2>2, <2>3
<1>2. ASSUME NEW envelope \in OnLedger,
             verify_transaction_semantics(envelope, FunctionOf(op), o)
      PROVE  \E fn \in calls[o] : FunctionOf(fn) = FunctionOf(op)
  <2>1. CASE envelope = {}
    BY <1>2, <2>1 DEF verify_transaction_semantics, parse_xdr_semantics
  <2>2. CASE envelope # {}
    <3>1. PICK contract \in {"ours", "another"}, fn \in Fns, e \in Orders \cup OtherEscrows :
            /\ envelope = Call(contract, fn, e)
            /\ contract = "ours" /\ e \in Orders => fn \in calls[e]
      BY <2>2, ConstantsAssumption DEF OnLedger
    <3>2. contract = "ours" /\ FunctionOf(fn) = FunctionOf(op) /\ e = o
      BY <1>2, <3>1, CallParses DEF verify_transaction_semantics
    <3>3. QED
      BY <3>1, <3>2
  <2>3. QED
    BY <2>1, <2>2
<1>3. QED
  BY <1>1, <1>2

\* A call other than a resolution is verified by a call of its own only.
LEMMA ShownIsOwn ==
  ASSUME TypeOK, SafeHashes, NEW r \in Requests, VerifyHash(r)
  PROVE  /\ req[r].op \in ConfirmedHash \ ResolveFns
         /\ req[r].op \in calls[req[r].order] /\ req[r].order \in Orders
<1>1. req[r].op \in ConfirmedHash \ ResolveFns /\ req[r].op \in Fns /\ req[r].order \in Orders
  BY ConstantsAssumption DEF VerifyHash, SafeHashes, TypeOK, Request, ChainOps
<1>2. \E envelope \in OnLedger :
        verify_transaction_semantics(envelope, FunctionOf(req[r].op), req[r].order)
  BY <1>1 DEF VerifyHash, SafeHashes
<1>3. PICK fn \in calls[req[r].order] : FunctionOf(fn) = FunctionOf(req[r].op)
  BY <1>1, <1>2, ShownIsCall
<1>4. fn = req[r].op
  BY <1>1, <1>3 DEF FunctionOf, Fns, ResolveFns
<1>5. QED
  BY <1>1, <1>3, <1>4

-----------------------------------------------------------------------------
(* The payment reported never runs ahead of the escrow.                    *)

\* An escrow that has paid out accepts nothing more.
LEMMA SettledRefuses ==
  ASSUME NEW c \in SUBSET Fns, NEW fn \in Fns, Accepts(fn, c)
  PROVE  EscrowState(c) \notin {"RELEASED", "REFUNDED"}
BY RefundUnfundedAssumption DEF Accepts, AcceptedIn, Fns, ResolveFns

\* A payout that is accepted decides the winner.
LEMMA PayoutDecides ==
  ASSUME NEW c \in SUBSET Fns, NEW fn \in Fns, Accepts(fn, c)
  PROVE  /\ c \cap ReleaseFns = {} /\ c \cap RefundFns = {}
         /\ fn \in ReleaseFns => EscrowState(c \cup {fn}) = "RELEASED"
         /\ fn \in RefundFns => EscrowState(c \cup {fn}) = "REFUNDED"
         /\ fn \in RefundFns => fn \notin ReleaseFns
<1>1. c \cap ReleaseFns = {} /\ c \cap RefundFns = {}
  BY SettledRefuses DEF EscrowState
<1>2. fn \in RefundFns => fn \notin ReleaseFns
  BY DEF ReleaseFns, RefundFns
<1>3. fn \in ReleaseFns => EscrowState(c \cup {fn}) = "RELEASED"
  BY DEF EscrowState
<1>4. fn \in RefundFns => EscrowState(c \cup {fn}) = "REFUNDED"
  BY <1>1, <1>2 DEF EscrowState
<1>5. QED
  BY <1>1, <1>2, <1>3, <1>4

LEMMA InitPayment == Init => PaymentInv
<1> SUFFICES ASSUME Init PROVE PaymentInv
  OBVIOUS
<1>1. TypeOK /\ OnContract
  BY InitType, InitOnContract
<1>2. OneWinner
  BY DEF Init, OneWinner, ReleaseFns, RefundFns
<1>3. WritesBacked
  BY DEF Init, WritesBacked, Idle
<1>4. PaymentAgrees
  <2>1. \A o \in Orders : orders[o].payment_status = "PENDING"
    BY DEF Init, NewOrder
  <2>2. QED
    BY <2>1 DEF PaymentAgrees
<1>5. QED
  BY <1>1, <1>2, <1>3, <1>4 DEF PaymentInv

\* A call landing on an escrow, with or without a handler waiting for it.
LEMMA CallLands ==
  ASSUME PaymentInv, NEW o \in Orders, NEW fn \in Fns, Accepts(fn, calls[o]),
         calls' = [calls EXCEPT ![o] = @ \cup {fn}], UNCHANGED orders
  PROVE  /\ OneWinner' /\ PaymentAgrees'
         /\ \A p \in Orders : calls[p] \subseteq calls'[p]
         /\ \A p \in Orders : EscrowState(calls[p]) \in {"RELEASED", "REFUNDED"}
                               => calls'[p] = calls[p]
         /\ calls'[o] = calls[o] \cup {fn}
<1> USE DEF PaymentInv
<1>1. calls[o] \in SUBSET Fns
  BY DEF TypeOK
<1>2. calls'[o] = calls[o] \cup {fn} /\ \A p \in Orders \ {o} : calls'[p] = calls[p]
  BY DEF TypeOK
<1>3. OneWinner'
  <2>1. calls[o] \cap ReleaseFns = {} /\ calls[o] \cap RefundFns = {}
    BY <1>1, PayoutDecides
  <2>2. fn \in RefundFns => fn \notin ReleaseFns
    BY <1>1, PayoutDecides
  <2>3. calls'[o] \cap RefundFns # {} => calls'[o] \cap ReleaseFns = {}
    BY <1>2, <2>1, <2>2
  <2>4. QED
    BY <1>2, <2>3 DEF OneWinner
<1>4. EscrowState(calls[o]) \notin {"RELEASED", "REFUNDED"}
  BY <1>1, SettledRefuses
<1>5. PaymentAgrees'
  BY <1>2, <1>4 DEF PaymentAgrees
<1>6. QED
  BY <1>2, <1>3, <1>4, <1>5

\* A slot that moves on within its handler stays backed if it was.
LEMMA SlotMoves ==
  ASSUME PaymentInv, NEW r \in Requests, UNCHANGED calls,
         \/ End(r)
         \/ \E step \in Steps :
              /\ Goto(r, step)
              /\ step = "write" => At(r, "write") \/ req[r].tx = "success"
                                   \/ req[r].op \notin ChainOps
  PROVE  WritesBacked'
<1> USE DEF PaymentInv, WritesBacked
<1>1. CASE End(r)
  <2>1. req'[r].step = "idle" /\ req'[r].tx = "none"
    BY <1>1 DEF End, Idle, TypeOK
  <2>2. \A p \in Requests \ {r} : req'[p] = req[p]
    BY <1>1 DEF End, TypeOK
  <2>3. QED
    BY <2>1, <2>2
<1>2. ASSUME NEW step \in Steps, Goto(r, step),
             step = "write" => At(r, "write") \/ req[r].tx = "success"
                               \/ req[r].op \notin ChainOps
      PROVE  WritesBacked'
  <2>1. /\ req'[r].op = req[r].op /\ req'[r].order = req[r].order
        /\ req'[r].tx = req[r].tx /\ req'[r].step = step
    BY <1>2 DEF Goto, TypeOK, Request
  <2>2. \A p \in Requests \ {r} : req'[p] = req[p]
    BY <1>2 DEF Goto, TypeOK
  <2>3. CASE req[r].op \in ChainOps
    BY <1>2, <2>1, <2>2, <2>3 DEF At
  <2>4. CASE req[r].op \notin ChainOps
    BY <2>1, <2>2, <2>4 DEF ChainOps, Fns, ResolveFns, ReleaseFns, RefundFns
  <2>5. QED
    BY <2>3, <2>4
<1>3. QED
  BY <1>1, <1>2

\* The UPDATE of a backed handler reports what the escrow did.
LEMMA WriteAgrees ==
  ASSUME PaymentInv, NEW r \in Requests, Write(r)
  PROVE  PaymentAgrees'
<1> DEFINE o == req[r].order
<1>1. o \in Orders /\ UNCHANGED calls
  BY DEF PaymentInv, TypeOK, Request, Write, WriteFund, WriteConfirmDelivery,
     WriteRefund, WriteDispute, WriteResolve, WriteUpdateStatus, WritePickupInspection
<1>2. orders[o] \in Order
  BY <1>1 DEF PaymentInv, TypeOK
<1>3. ASSUME NEW row, Update(r, row),
             \/ row.payment_status = orders[o].payment_status
             \/ /\ row.payment_status = "PROTECTED"
                /\ "fund_escrow" \in calls[o]
             \/ /\ row.payment_status \in {"RELEASED", "REFUNDED"}
                /\ EscrowState(calls[o]) = row.payment_status
      PROVE  PaymentAgrees'
  <2>1. orders'[o] = row /\ \A p \in Orders \ {o} : orders'[p] = orders[p]
    BY <1>1, <1>3 DEF Update, PaymentInv, TypeOK
  <2>2. QED
    BY <2>1, <1>1, <1>3 DEF PaymentInv, PaymentAgrees
<1>4. ASSUME \A p \in Orders : orders'[p].payment_status = orders[p].payment_status
      PROVE  PaymentAgrees'
  BY <1>1, <1>4 DEF PaymentInv, PaymentAgrees
<1>5. At(r, "write") =>
        /\ req[r].op = "fund_escrow" => "fund_escrow" \in calls[o]
        /\ req[r].op \in ReleaseFns => EscrowState(calls[o]) = "RELEASED"
        /\ req[r].op \in RefundFns => EscrowState(calls[o]) = "REFUNDED"
  BY DEF At, PaymentInv, WritesBacked
<1>6. \A status, pay, column :
        Settled(Row(r), status, pay, column).payment_status = pay
  BY <1>2 DEF Settled, Row, Order
<1>7. CASE WriteFund(r)
  BY <1>7, <1>2, <1>3, <1>4, <1>5 DEF WriteFund, Row, Order
<1>8. CASE WriteConfirmDelivery(r)
  BY <1>8, <1>3, <1>4, <1>5, <1>6 DEF WriteConfirmDelivery, ReleaseFns
<1>9. CASE WriteRefund(r)
  BY <1>9, <1>3, <1>5, <1>6 DEF WriteRefund, RefundFns
<1>10. CASE WriteResolve(r)
  BY <1>10, <1>3, <1>5, <1>6 DEF WriteResolve, ReleaseFns, RefundFns, ResolveFns
<1>11. CASE WriteDispute(r) \/ WriteUpdateStatus(r) \/ WritePickupInspection(r)
  <2>1. \A p \in Orders \ {o} : orders'[p] = orders[p]
    BY <1>11 DEF WriteDispute, WriteUpdateStatus, WritePickupInspection, Update,
       PaymentInv, TypeOK
  <2>2. orders'[o].payment_status = orders[o].payment_status
    <3>1. CASE WriteDispute(r)
      BY <3>1, <1>1, <1>2 DEF WriteDispute, Update, Row, Order, PaymentInv, TypeOK
    <3>2. CASE WriteUpdateStatus(r)
      BY <3>2, <1>1, <1>2 DEF WriteUpdateStatus, Update, Row, Order, PaymentInv, TypeOK
    <3>3. CASE WritePickupInspection(r)
      BY <3>3, <1>1, <1>2 DEF WritePickupInspection, Update, Row, Order, PaymentInv, TypeOK
    <3>4. QED
      BY <1>11, <3>1, <3>2, <3>3
  <2>3. QED
    BY <2>1, <2>2, <1>4
<1>12. QED
  BY <1>7, <1>8, <1>9, <1>10, <1>11 DEF Write

\* A handler that starts holds no transaction and, if it may settle, writes later.
LEMMA StartBacked ==
  ASSUME PaymentInv, NEW r \in Requests, NEW o \in Orders, Start(r, o)
  PROVE  WritesBacked' /\ UNCHANGED <<orders, calls>>
<1>1. UNCHANGED <<orders, calls>> /\ \A p \in Requests \ {r} : req'[p] = req[p]
  BY DEF Start, StartFund, StartConfirmDelivery, StartRefund, StartDispute,
     StartResolve, StartUpdateStatus, StartPickupInspection, Begin, PaymentInv, TypeOK
<1>2. /\ req'[r].tx = "none"
      /\ req'[r].step = "write" => req'[r].op = "update_status"
  <2>1. CASE \E op \in Ops : Begin(r, o, op, "call")
    BY <2>1 DEF Begin, Idle, PaymentInv, TypeOK
  <2>2. CASE StartUpdateStatus(r, o)
    BY <2>2 DEF StartUpdateStatus, Idle, PaymentInv, TypeOK
  <2>3. CASE StartPickupInspection(r, o)
    BY <2>3 DEF StartPickupInspection, Idle, PaymentInv, TypeOK
  <2>4. QED
    BY <2>1, <2>2, <2>3 DEF Start, StartFund, StartConfirmDelivery, StartRefund,
       StartDispute, StartResolve, Ops, ChainOps, Fns, ResolveFns
<1>3. QED
  BY <1>1, <1>2 DEF PaymentInv, WritesBacked, ReleaseFns, RefundFns

\* What a verified hash shows is enough to settle the row.
LEMMA HashBacked ==
  ASSUME SafeHashes, PaymentInv, NEW r \in Requests, VerifyHash(r)
  PROVE  WritesBacked'
<1> DEFINE o == req[r].order
<1>1. /\ req[r].op \in ConfirmedHash /\ req[r].op \notin ResolveFns
      /\ req[r].op \in calls[o] /\ o \in Orders
  BY ShownIsOwn DEF PaymentInv
<1>2. /\ req'[r].op = req[r].op /\ req'[r].order = o /\ UNCHANGED calls
      /\ \A p \in Requests \ {r} : req'[p] = req[p]
  BY DEF VerifyHash, Goto, PaymentInv, TypeOK, Request
<1>3. req[r].op \in ReleaseFns => EscrowState(calls[o]) = "RELEASED"
  BY <1>1 DEF EscrowState
<1>4. req[r].op \in RefundFns => EscrowState(calls[o]) = "REFUNDED"
  BY <1>1 DEF EscrowState, PaymentInv, OneWinner
<1>5. QED
  BY <1>1, <1>2, <1>3, <1>4 DEF PaymentInv, WritesBacked

\* A transaction that lands backs the handler that waits for it, and takes
\* nothing from the others.
LEMMA LandBacked ==
  ASSUME PaymentInv, NEW r \in Requests, Land(r)
  PROVE  OneWinner' /\ PaymentAgrees' /\ WritesBacked'
<1> DEFINE o == req[r].order
           fn == req[r].op
<1>1. o \in Orders /\ fn \in Fns /\ calls[o] \in SUBSET Fns /\ At(r, "wait")
  BY DEF Land, At, PaymentInv, OnContract, ChainOps, TypeOK, Request
<1>2. CASE Accepts(fn, calls[o])
  <2>1. calls' = [calls EXCEPT ![o] = @ \cup {fn}] /\ UNCHANGED orders
    BY <1>2 DEF Land
  <2>2. /\ req'[r].op = fn /\ req'[r].order = o
        /\ \A p \in Requests \ {r} : req'[p] = req[p]
    BY <1>2 DEF Land, PaymentInv, TypeOK, Request
  <2>3. /\ fn \in ReleaseFns => EscrowState(calls'[o]) = "RELEASED"
        /\ fn \in RefundFns => EscrowState(calls'[o]) = "REFUNDED"
        /\ fn \in calls'[o]
    <3>1. calls'[o] = calls[o] \cup {fn}
      BY <1>1, <1>2, <2>1, CallLands
    <3>2. QED
      BY <3>1, <1>1, <1>2, PayoutDecides
  <2>4. WritesBacked'
    <3>1. SUFFICES ASSUME NEW p \in Requests,
                          req'[p].step = "write" \/ req'[p].tx = "success"
                   PROVE  /\ req'[p].op = "fund_escrow" => "fund_escrow" \in calls'[req'[p].order]
                          /\ req'[p].op \in ReleaseFns => EscrowState(calls'[req'[p].order]) = "RELEASED"
                          /\ req'[p].op \in RefundFns => EscrowState(calls'[req'[p].order]) = "REFUNDED"
      BY DEF WritesBacked
    <3>2. CASE p = r
      BY <3>2, <2>2, <2>3
    <3>3. CASE p # r
      <4>1. req'[p] = req[p] /\ req[p].order \in Orders
        BY <3>3, <2>2 DEF PaymentInv, TypeOK, Request
      <4>2. calls[req[p].order] \subseteq calls'[req[p].order]
        BY <4>1, <1>1, <1>2, <2>1, CallLands
      <4>3. EscrowState(calls[req[p].order]) \in {"RELEASED", "REFUNDED"}
              => calls'[req[p].order] = calls[req[p].order]
        BY <4>1, <1>1, <1>2, <2>1, CallLands
      <4>4. QED
        BY <3>1, <4>1, <4>2, <4>3 DEF PaymentInv, WritesBacked
    <3>4. QED
      BY <3>2, <3>3
  <2>5. QED
    BY <1>1, <1>2, <2>1, <2>4, CallLands
<1>3. CASE ~Accepts(fn, calls[o])
  <2>1. /\ req'[r].op = fn /\ req'[r].step = "wait" /\ req'[r].tx = "failed"
        /\ \A p \in Requests \ {r} : req'[p] = req[p]
        /\ UNCHANGED <<orders, calls>>
    BY <1>3, <1>1 DEF Land, At, PaymentInv, TypeOK, Request
  <2>2. QED
    BY <2>1 DEF PaymentInv, OneWinner, PaymentAgrees, WritesBacked
<1>4. QED
  BY <1>2, <1>3

LEMMA NextPayment == SafeHashes /\ PaymentInv /\ [Next]_vars => PaymentInv'
<1> SUFFICES ASSUME SafeHashes, PaymentInv, [Next]_vars PROVE PaymentInv'
  OBVIOUS
<1>1. TypeOK' /\ OnContract'
  BY NextType, NextOnContract DEF PaymentInv
<1>2. ASSUME UNCHANGED <<orders, calls>> PROVE OneWinner' /\ PaymentAgrees'
  BY <1>2 DEF PaymentInv, OneWinner, PaymentAgrees
<1>3. ASSUME NEW r \in Requests, NEW o \in Orders, Start(r, o)
      PROVE  PaymentInv'
  BY <1>1, <1>2, <1>3, StartBacked DEF PaymentInv
<1>4. ASSUME NEW r \in Requests, Write(r)
      PROVE  PaymentInv'
  <2>1. (\E step \in {"log"} : Goto(r, step)) \/ End(r)
    BY <1>4 DEF Write, WriteFund, WriteConfirmDelivery, WriteRefund, WriteDispute,
       WriteResolve, WriteUpdateStatus, WritePickupInspection
  <2>2. UNCHANGED calls
    BY <1>4 DEF Write, WriteFund, WriteConfirmDelivery, WriteRefund, WriteDispute,
       WriteResolve, WriteUpdateStatus, WritePickupInspection
  <2>3. WritesBacked'
    BY <2>1, <2>2, SlotMoves DEF Steps
  <2>4. OneWinner'
    BY <2>2 DEF PaymentInv, OneWinner
  <2>5. QED
    BY <1>1, <1>4, <2>3, <2>4, WriteAgrees DEF PaymentInv
<1>5. ASSUME NEW r \in Requests, VerifyHash(r)
      PROVE  PaymentInv'
  BY <1>1, <1>2, <1>5, HashBacked DEF PaymentInv, VerifyHash
<1>6. ASSUME NEW r \in Requests, Land(r)
      PROVE  PaymentInv'
  BY <1>1, <1>6, LandBacked DEF PaymentInv
<1>7. ASSUME NEW r \in Requests, Submit(r)
      PROVE  PaymentInv'
  <2>1. /\ req'[r].step = "wait" /\ req'[r].tx = "pending"
        /\ \A p \in Requests \ {r} : req'[p] = req[p]
        /\ UNCHANGED <<orders, calls>>
    BY <1>7 DEF Submit, PaymentInv, TypeOK, Request
  <2>2. WritesBacked'
    BY <2>1 DEF PaymentInv, WritesBacked
  <2>3. QED
    BY <1>1, <1>2, <2>1, <2>2 DEF PaymentInv
<1>8. ASSUME NEW r \in Requests,
             Reject(r) \/ Poll(r) \/ Log(r) \/ InsertInspection(r) \/ Credit(r) \/ Abort(r)
      PROVE  PaymentInv'
  <2>1. UNCHANGED <<orders, calls>>
    BY <1>8 DEF Reject, Poll, Log, InsertInspection, Credit, Abort
  <2>2. CASE End(r) \/ Goto(r, "credit")
    BY <1>1, <1>2, <2>1, <2>2, SlotMoves DEF PaymentInv, Steps
  <2>3. CASE Poll(r) /\ Goto(r, "write")
    <3>1. req[r].tx = "success" \/ End(r)
      BY <2>3 DEF Poll, AfterPoll
    <3>2. QED
      BY <1>1, <1>2, <2>1, <2>3, <3>1, SlotMoves DEF PaymentInv, Steps
  <2>4. CASE InsertInspection(r) /\ Goto(r, "write")
    <3>1. req[r].op \notin ChainOps
      BY <2>4 DEF InsertInspection, At, PaymentInv, OnContract, ChainOps, Fns, ResolveFns
    <3>2. QED
      BY <1>1, <1>2, <2>1, <2>4, <3>1, SlotMoves DEF PaymentInv, Steps
  <2>5. QED
    BY <1>8, <2>2, <2>3, <2>4
       DEF Reject, Poll, AfterPoll, Log, InsertInspection, Credit, Abort
<1>9. ASSUME NEW o \in Orders, NEW fn \in Fns, LandLate(o, fn)
      PROVE  PaymentInv'
  <2>1. CASE UNCHANGED calls
    BY <2>1, <1>9, <1>1, <1>2 DEF LandLate, PaymentInv, WritesBacked
  <2>2. CASE Accepts(fn, calls[o]) /\ calls' = [calls EXCEPT ![o] = @ \cup {fn}]
    <3>1. UNCHANGED <<orders, req>>
      BY <1>9 DEF LandLate
    <3>2. WritesBacked'
      <4>1. \A p \in Requests : req[p].order \in Orders
        BY DEF PaymentInv, TypeOK, Request
      <4>2. QED
        BY <2>2, <3>1, <4>1, CallLands DEF PaymentInv, WritesBacked
    <3>3. QED
      BY <1>1, <2>2, <3>1, <3>2, CallLands DEF PaymentInv
  <2>3. QED
    BY <1>9, <2>1, <2>2 DEF LandLate
<1>10. CASE UNCHANGED <<orders, calls, req>>
  BY <1>1, <1>2, <1>10 DEF PaymentInv, WritesBacked
<1>11. QED
  BY <1>3, <1>4, <1>5, <1>6, <1>7, <1>8, <1>9, <1>10 DEF Next, Progress, WalletSubmit, vars

\* Whatever the orders, handlers, interruptions and late transactions, the
\* payment a row reports is one the escrow made, as long as a resolution is not
\* taken from a client's hash and only handlers that check the status meet
\* unconfirmed ones.
THEOREM PaymentCorrect == ASSUME SafeHashes PROVE Spec => []PaymentAgrees
<1>1. Init => PaymentInv
  BY InitPayment
<1>2. PaymentInv /\ [Next]_vars => PaymentInv'
  BY SafeHashes, NextPayment
<1>3. PaymentInv => PaymentAgrees
  BY DEF PaymentInv
<1>4. QED
  BY <1>1, <1>2, <1>3, PTL DEF Spec

-----------------------------------------------------------------------------
(* How a step moves a handler, all that the other invariants need of it.   *)

KnowsDispute(row) == row.status = "DISPUTED" \/ row.escrow_state = "DISPUTED"

Starts(q) ==
  /\ q.tx = "none"
  /\ \/ q.step = "call"
     \/ q.step = "write" /\ q.op = "update_status"
     \/ q.step = "insert" /\ q.op = "pickup_inspection"
  /\ q.op \in AfterFunding => KnowsFunding(orders[q.order])
  /\ q.op \in ResolveFns => KnowsDispute(orders[q.order])

Ends(q) == q.tx = "none" /\ q.step = "idle" /\ q.op = "update_status"

Lands(q) == Accepts(q.op, calls[q.order]) /\ q.op \in calls'[q.order]

Books(q) ==
  /\ q.op = "release_escrow" => orders[q.order].payment_status = "PROTECTED"
  /\ q.op \in ReleaseFns => orders'[q.order].payment_status = "RELEASED"

Follows(q, n) ==
  /\ n.op = q.op /\ n.order = q.order
  /\ \/ n.step = "wait" /\ n.tx \in {"pending", "failed"}
     \/ n.step = "wait" /\ n.tx = "success" /\ Lands(q)
     \/ n.step = "write" /\ n.tx = q.tx /\ q.op \in ConfirmedHash \ ResolveFns
         /\ q.op \in calls[q.order]
     \/ n.step = "write" /\ n.tx = q.tx
         /\ ((q.step = "wait" /\ q.tx = "success") \/ q.op \notin ChainOps)
     \/ n.step = "log" /\ n.tx = q.tx /\ q.step = "write" /\ Books(q)
     \/ n.step = "credit" /\ n.tx = q.tx /\ q.step = "log" /\ q.op \in ReleaseFns

SlotMove(r) ==
  req'[r] = req[r] \/ Starts(req'[r]) \/ Ends(req'[r]) \/ Follows(req[r], req'[r])

OneMoves == \A p, s \in Requests : req'[p] # req[p] /\ req'[s] # req[s] => p = s

LEMMA Moves ==
  ASSUME TypeOK, NEW r \in Requests, NEW step \in Steps, Goto(r, step)
  PROVE  /\ OneMoves /\ req'[r].step = step
         /\ \A p \in Requests \ {r} : req'[p] = req[p]
         /\ req'[r].op = req[r].op /\ req'[r].order = req[r].order /\ req'[r].tx = req[r].tx
BY DEF Goto, TypeOK, Request, OneMoves

LEMMA Stops ==
  ASSUME TypeOK, NEW r \in Requests, End(r)
  PROVE  /\ OneMoves /\ Ends(req'[r])
         /\ \A p \in Requests \ {r} : req'[p] = req[p]
BY DEF End, Ends, Idle, TypeOK, OneMoves

LEMMA StartMoves ==
  ASSUME TypeOK, NEW r \in Requests, NEW o \in Orders, Start(r, o)
  PROVE  /\ OneMoves /\ Starts(req'[r])
         /\ \A p \in Requests \ {r} : req'[p] = req[p]
<1>1. ASSUME NEW op, Begin(r, o, op, "call"), op \in AfterFunding => KnowsFunding(orders[o]),
             op \in ResolveFns => KnowsDispute(orders[o])
      PROVE  Starts(req'[r]) /\ OneMoves /\ \A p \in Requests \ {r} : req'[p] = req[p]
  BY <1>1 DEF Begin, Idle, Starts, TypeOK, OneMoves
<1> USE DEF AfterFunding, ReleaseFns, ResolveFns
<1>2. CASE StartFund(r, o) \/ StartRefund(r, o)
  BY <1>2, <1>1 DEF StartFund, StartRefund
<1>3. CASE StartConfirmDelivery(r, o)
  BY <1>3, <1>1 DEF StartConfirmDelivery, MayConfirm, KnowsFunding
<1>4. CASE StartDispute(r, o)
  BY <1>4, <1>1 DEF StartDispute, MayDispute, KnowsFunding
<1>5. CASE StartResolve(r, o)
  BY <1>5, <1>1 DEF StartResolve, MayResolve, KnowsFunding, KnowsDispute
<1>6. CASE StartUpdateStatus(r, o)
  <2>1. /\ req'[r].tx = "none" /\ req'[r].step = "write" /\ req'[r].op = "update_status"
    BY <1>6 DEF StartUpdateStatus, Idle, TypeOK
  <2>2. \A p \in Requests \ {r} : req'[p] = req[p]
    BY <1>6 DEF StartUpdateStatus, TypeOK
  <2>3. QED
    BY <2>1, <2>2 DEF Starts, OneMoves
<1>7. CASE StartPickupInspection(r, o)
  <2>1. /\ req'[r].tx = "none" /\ req'[r].step = "insert" /\ req'[r].op = "pickup_inspection"
    BY <1>7 DEF StartPickupInspection, Idle, TypeOK
  <2>2. \A p \in Requests \ {r} : req'[p] = req[p]
    BY <1>7 DEF StartPickupInspection, TypeOK
  <2>3. QED
    BY <2>1, <2>2 DEF Starts, OneMoves
<1>8. QED
  BY <1>2, <1>3, <1>4, <1>5, <1>6, <1>7 DEF Start

\* The UPDATE of a release finds the payment protected, or was backed alone.
LEMMA WriteBooks ==
  ASSUME TypeOK, NEW r \in Requests, Write(r), ~End(r)
  PROVE  At(r, "write") /\ Goto(r, "log") /\ Books(req[r])
<1>1. At(r, "write") /\ Goto(r, "log")
  BY DEF Write, WriteFund, WriteConfirmDelivery, WriteRefund, WriteDispute,
     WriteResolve, WriteUpdateStatus, WritePickupInspection
<1>2. req[r].order \in Orders /\ Row(r) \in Order
  BY DEF TypeOK, Request, Row
<1>3. \A row : Update(r, row) => orders'[req[r].order] = row
  BY <1>2 DEF Update, TypeOK
<1>4. \A status, pay, column :
        Settled(Row(r), status, pay, column).payment_status = pay
  BY <1>2 DEF Settled, Order
<1>5. CASE req[r].op = "release_escrow"
  <2>1. WriteConfirmDelivery(r)
    BY <1>5 DEF Write, WriteFund, WriteConfirmDelivery, WriteRefund, WriteDispute,
       WriteResolve, WriteUpdateStatus, WritePickupInspection, ResolveFns
  <2>2. ConfirmMatches(Row(r))
    BY <2>1 DEF WriteConfirmDelivery
  <2>3. orders'[req[r].order] = Settled(Row(r), "COMPLETED", "RELEASED", "release_tx_hash")
    BY <2>1, <2>2, <1>3 DEF WriteConfirmDelivery
  <2>4. QED
    BY <1>1, <2>2, <2>3, <1>4 DEF Books, ConfirmMatches, Row
<1>6. CASE req[r].op = "resolve_release"
  <2>1. WriteResolve(r)
    BY <1>6 DEF Write, WriteFund, WriteConfirmDelivery, WriteRefund, WriteDispute,
       WriteResolve, WriteUpdateStatus, WritePickupInspection, ResolveFns
  <2>2. orders'[req[r].order] = Settled(Row(r), "COMPLETED", "RELEASED", "release_tx_hash")
    BY <1>6, <2>1, <1>3 DEF WriteResolve
  <2>3. QED
    BY <1>1, <1>6, <2>2, <1>4 DEF Books
<1>7. QED
  BY <1>1, <1>5, <1>6 DEF Books, ReleaseFns

\* Every handler moves so, whatever hashes clients show, but for the one that
\* goes on from a hash.
LEMMA SlotStepsButHash ==
  ASSUME TypeOK, OnContract, [Next]_vars
  PROVE  \/ OneMoves /\ \A r \in Requests : SlotMove(r)
         \/ \E r \in Requests : VerifyHash(r)
<1> USE DEF SlotMove
<1>1. TypeOK /\ OnContract
  OBVIOUS
<1>2. ASSUME NEW r \in Requests, NEW o \in Orders, Start(r, o)
      PROVE  OneMoves /\ \A p \in Requests : SlotMove(p)
  BY <1>2, StartMoves
<1>3. ASSUME NEW r \in Requests, End(r)
      PROVE  OneMoves /\ \A p \in Requests : SlotMove(p)
  BY <1>1, <1>3, Stops
<1>4. ASSUME NEW r \in Requests, NEW step \in Steps, Goto(r, step),
             \/ step = "write" /\ req[r].op \in ConfirmedHash \ ResolveFns
                 /\ req[r].op \in calls[req[r].order]
             \/ step = "write"
                 /\ ((At(r, "wait") /\ req[r].tx = "success") \/ req[r].op \notin ChainOps)
             \/ step = "log" /\ At(r, "write") /\ Books(req[r])
             \/ step = "credit" /\ At(r, "log") /\ req[r].op \in ReleaseFns
      PROVE  OneMoves /\ \A p \in Requests : SlotMove(p)
  <2>1. Follows(req[r], req'[r])
    BY <1>1, <1>4, Moves DEF Follows, At
  <2>2. QED
    BY <1>1, <1>4, <2>1, Moves
<1>5. ASSUME NEW r \in Requests, Write(r)
      PROVE  OneMoves /\ \A p \in Requests : SlotMove(p)
  BY <1>3, <1>4, <1>5, WriteBooks DEF Steps
<1>6. ASSUME NEW r \in Requests, Submit(r) \/ Land(r)
      PROVE  OneMoves /\ \A p \in Requests : SlotMove(p)
  <2>1. /\ OneMoves /\ \A p \in Requests \ {r} : req'[p] = req[p]
        /\ req'[r].op = req[r].op /\ req'[r].order = req[r].order /\ req'[r].step = "wait"
        /\ \/ req'[r].tx \in {"pending", "failed"}
           \/ /\ req'[r].tx = "success" /\ Accepts(req[r].op, calls[req[r].order])
              /\ calls' = [calls EXCEPT ![req[r].order] = @ \cup {req[r].op}]
    BY <1>1, <1>6 DEF Submit, Land, At, TypeOK, Request, OneMoves
  <2>2. req[r].order \in Orders
    BY <1>1 DEF TypeOK, Request
  <2>3. Follows(req[r], req'[r])
    BY <1>1, <2>1, <2>2 DEF Follows, Lands, TypeOK
  <2>4. QED
    BY <2>1, <2>3
<1>7. ASSUME NEW r \in Requests, Reject(r) \/ Poll(r) \/ Log(r) \/ InsertInspection(r)
                                 \/ Credit(r) \/ Abort(r)
      PROVE  OneMoves /\ \A p \in Requests : SlotMove(p)
  <2>1. CASE Poll(r)
    BY <2>1, <1>3, <1>4 DEF Poll, AfterPoll, Steps
  <2>2. CASE Log(r)
    BY <2>2, <1>3, <1>4 DEF Log, CreditedOps, Steps
  <2>3. CASE InsertInspection(r)
    <3>1. req[r].op \notin ChainOps
      BY <2>3, <1>1 DEF InsertInspection, At, OnContract, ChainOps, Fns, ResolveFns
    <3>2. QED
      BY <2>3, <3>1, <1>3, <1>4 DEF InsertInspection, Steps
  <2>4. QED
    BY <1>7, <1>3, <2>1, <2>2, <2>3 DEF Reject, Credit, Abort
<1>8. CASE UNCHANGED req
  BY <1>8 DEF OneMoves
<1>9. QED
  BY <1>2, <1>5, <1>6, <1>7, <1>8 DEF Next, Progress, LandLate, WalletSubmit, vars

LEMMA SlotSteps ==
  ASSUME SafeHashes, PaymentInv, [Next]_vars
  PROVE  OneMoves /\ \A r \in Requests : SlotMove(r)
<1>1. TypeOK /\ OnContract
  BY DEF PaymentInv
<1>2. ASSUME NEW r \in Requests, VerifyHash(r)
      PROVE  OneMoves /\ \A p \in Requests : SlotMove(p)
  <2>1. /\ req[r].op \in ConfirmedHash \ ResolveFns
        /\ req[r].op \in calls[req[r].order] /\ Goto(r, "write")
    BY <1>1, <1>2, ShownIsOwn DEF VerifyHash
  <2>2. Follows(req[r], req'[r])
    BY <1>1, <2>1, Moves DEF Follows, Steps
  <2>3. QED
    BY <1>1, <2>1, <2>2, Moves DEF SlotMove, Steps
<1>3. QED
  BY <1>1, <1>2, SlotStepsButHash

\* What succeeded on an escrow stays, and nothing is added that it refuses.
LEMMA CallsStep ==
  ASSUME TypeOK, OnContract, [Next]_vars, NEW o \in Orders
  PROVE  \/ calls'[o] = calls[o]
         \/ \E fn \in Fns : Accepts(fn, calls[o]) /\ calls'[o] = calls[o] \cup {fn}
<1>1. ASSUME NEW p \in Orders, NEW fn \in Fns, Accepts(fn, calls[p]),
             calls' = [calls EXCEPT ![p] = @ \cup {fn}]
      PROVE  \/ calls'[o] = calls[o]
             \/ \E f \in Fns : Accepts(f, calls[o]) /\ calls'[o] = calls[o] \cup {f}
  <2>1. CASE p = o
    BY <1>1, <2>1 DEF TypeOK
  <2>2. CASE p # o
    BY <1>1, <2>2 DEF TypeOK
  <2>3. QED
    BY <2>1, <2>2
<1>2. CASE UNCHANGED calls
  BY <1>2
<1>3. ASSUME NEW r \in Requests, Land(r), ~UNCHANGED calls
      PROVE  \/ calls'[o] = calls[o]
             \/ \E fn \in Fns : Accepts(fn, calls[o]) /\ calls'[o] = calls[o] \cup {fn}
  <2>1. req[r].order \in Orders /\ req[r].op \in Fns
    BY <1>3 DEF Land, At, OnContract, ChainOps, TypeOK, Request
  <2>2. QED
    BY <1>1, <1>3, <2>1 DEF Land
<1>4. ASSUME NEW p \in Orders, NEW fn \in Fns, LandLate(p, fn), ~UNCHANGED calls
      PROVE  \/ calls'[o] = calls[o]
             \/ \E f \in Fns : Accepts(f, calls[o]) /\ calls'[o] = calls[o] \cup {f}
  BY <1>1, <1>4 DEF LandLate
<1>5. QED
  BY <1>2, <1>3, <1>4 DEF Next, Start, StartFund, StartConfirmDelivery, StartRefund,
     StartDispute, StartResolve, StartUpdateStatus, StartPickupInspection, Progress,
     Submit, VerifyHash, Reject, Poll, Write, WriteFund, WriteConfirmDelivery,
     WriteRefund, WriteDispute, WriteResolve, WriteUpdateStatus, WritePickupInspection,
     Log, InsertInspection, Credit, Abort, WalletSubmit, vars

LEMMA CallsGrow ==
  ASSUME TypeOK, OnContract, [Next]_vars
  PROVE  \A o \in Orders : calls[o] \subseteq calls'[o]
BY CallsStep

LEMMA NextDone ==
  ASSUME SafeHashes, PaymentInv, DoneOnChain, [Next]_vars
  PROVE  DoneOnChain'
<1> SUFFICES ASSUME NEW r \in Requests,
                    \/ req'[r].step \in {"write", "log", "credit"} /\ req'[r].op \in ChainOps
                    \/ req'[r].tx = "success"
             PROVE  req'[r].op \in calls'[req'[r].order]
  BY DEF DoneOnChain
<1>1. SlotMove(r) /\ \A o \in Orders : calls[o] \subseteq calls'[o]
  BY SlotSteps, CallsGrow DEF PaymentInv
<1>2. req[r].order \in Orders
  BY DEF PaymentInv, TypeOK, Request
<1>3. ASSUME req[r].op \in calls[req[r].order], req'[r].op = req[r].op,
             req'[r].order = req[r].order
      PROVE  req'[r].op \in calls'[req'[r].order]
  BY <1>1, <1>2, <1>3
<1>4. CASE req'[r] = req[r]
  BY <1>3, <1>4 DEF DoneOnChain
<1>5. CASE Starts(req'[r]) \/ Ends(req'[r])
  BY <1>5 DEF Starts, Ends, ChainOps, Fns, ResolveFns
<1>6. CASE Follows(req[r], req'[r])
  <2>1. CASE req'[r].step = "wait"
    BY <1>6, <2>1 DEF Follows, Lands
  <2>2. CASE req'[r].step # "wait" /\ req[r].op \notin calls[req[r].order]
    BY <1>6, <2>2 DEF Follows, DoneOnChain, ReleaseFns, ChainOps, Fns, ResolveFns
  <2>3. QED
    BY <1>3, <1>6, <2>1, <2>2 DEF Follows
<1>7. QED
  BY <1>1, <1>4, <1>5, <1>6 DEF SlotMove

LEMMA NextOneRelease ==
  ASSUME PaymentInv, OneRelease, [Next]_vars
  PROVE  OneRelease'
<1> SUFFICES ASSUME NEW o \in Orders PROVE ~(ReleaseFns \subseteq calls'[o])
  BY DEF OneRelease
<1>1. CASE calls'[o] = calls[o]
  BY <1>1 DEF OneRelease
<1>2. ASSUME NEW fn \in Fns, Accepts(fn, calls[o]), calls'[o] = calls[o] \cup {fn}
      PROVE  ~(ReleaseFns \subseteq calls'[o])
  <2>1. calls[o] \cap ReleaseFns = {}
    BY <1>2, PayoutDecides DEF PaymentInv, TypeOK
  <2>2. QED
    BY <1>2, <2>1 DEF ReleaseFns
<1>3. QED
  BY <1>1, <1>2, CallsStep DEF PaymentInv

\* What an UPDATE does to the row of an order.
RowMove(r, o) ==
  LET row == orders[o] n == orders'[o] op == req[r].op IN
  /\ At(r, "write") /\ req[r].order = o
  /\ \/ /\ op = "fund_escrow" /\ row.payment_status = "PENDING"
        /\ n.status = "CONFIRMED" /\ n.payment_status = "PROTECTED"
        /\ n.escrow_state = "FUNDED" /\ n.tx_hashes = row.tx_hashes \cup {"funding_tx_hash"}
     \/ /\ op \in ReleaseFns
        /\ op = "release_escrow" => row.payment_status = "PROTECTED"
        /\ n.status = "COMPLETED" /\ n.payment_status = "RELEASED"
        /\ n.escrow_state = "RELEASED" /\ n.tx_hashes = row.tx_hashes \cup {"release_tx_hash"}
     \/ /\ op \in RefundFns
        /\ n.status = "CANCELLED" /\ n.payment_status = "REFUNDED"
        /\ n.escrow_state = "REFUNDED" /\ n.tx_hashes = row.tx_hashes \cup {"refund_tx_hash"}
     \/ /\ op = "dispute_escrow" /\ n.status = "DISPUTED" /\ n.escrow_state = "DISPUTED"
        /\ n.payment_status = row.payment_status /\ n.tx_hashes = row.tx_hashes
     \/ /\ op \notin ChainOps /\ n.status \in ValidStatuses
        /\ n.payment_status = row.payment_status /\ n.escrow_state = row.escrow_state
        /\ n.tx_hashes = row.tx_hashes

LEMMA WriteMoves ==
  ASSUME TypeOK, NEW r \in Requests, Write(r), NEW o \in Orders, orders'[o] # orders[o]
  PROVE  RowMove(r, o)
<1>1. req[r].order \in Orders /\ At(r, "write")
  BY DEF TypeOK, Request, Write, WriteFund, WriteConfirmDelivery, WriteRefund,
     WriteDispute, WriteResolve, WriteUpdateStatus, WritePickupInspection
<1>2. ASSUME NEW row, Update(r, row) PROVE req[r].order = o /\ orders'[o] = row
  BY <1>1, <1>2 DEF Update, TypeOK
<1>3. ASSUME req[r].order = o PROVE Row(r) = orders[o] /\ orders[o] \in Order
  BY <1>3 DEF Row, TypeOK
<1>4. ASSUME NEW status, NEW pay, NEW column, Update(r, Settled(Row(r), status, pay, column))
      PROVE  /\ req[r].order = o /\ orders'[o].status = status
             /\ orders'[o].payment_status = pay /\ orders'[o].escrow_state = pay
             /\ orders'[o].tx_hashes = orders[o].tx_hashes \cup {column}
  <2>1. req[r].order = o /\ orders'[o] = Settled(Row(r), status, pay, column)
    BY <1>2, <1>4
  <2>2. Row(r) = orders[o] /\ orders[o] \in Order
    BY <1>3, <2>1
  <2>3. QED
    BY <2>1, <2>2 DEF Settled, Order
<1> USE DEF ReleaseFns, RefundFns, ResolveFns
<1>5. CASE WriteFund(r)
  <2>1. /\ FundMatches(Row(r)) /\ req[r].op = "fund_escrow"
        /\ Update(r, [Row(r) EXCEPT !.status = "CONFIRMED",
                         !.payment_status = "PROTECTED", !.escrow_state = "FUNDED",
                         !.tx_hashes = @ \cup {"funding_tx_hash"}])
    BY <1>5 DEF WriteFund
  <2>2. /\ req[r].order = o
        /\ orders'[o] = [Row(r) EXCEPT !.status = "CONFIRMED",
                           !.payment_status = "PROTECTED", !.escrow_state = "FUNDED",
                           !.tx_hashes = @ \cup {"funding_tx_hash"}]
    BY <1>2, <2>1
  <2>3. Row(r) = orders[o] /\ orders[o] \in Order
    BY <1>3, <2>2
  <2>4. QED
    BY <1>1, <2>1, <2>2, <2>3 DEF RowMove, FundMatches, Order
<1>6. CASE WriteConfirmDelivery(r)
  <2>1. /\ ConfirmMatches(Row(r)) /\ req[r].op = "release_escrow"
        /\ Update(r, Settled(Row(r), "COMPLETED", "RELEASED", "release_tx_hash"))
    BY <1>6 DEF WriteConfirmDelivery
  <2>2. QED
    BY <1>1, <1>3, <1>4, <2>1 DEF RowMove, ConfirmMatches
<1>7. CASE WriteRefund(r)
  BY <1>1, <1>4, <1>7 DEF WriteRefund, RowMove
<1>8. CASE WriteResolve(r)
  <2>1. CASE req[r].op = "resolve_release"
    BY <1>1, <1>4, <1>8, <2>1 DEF WriteResolve, RowMove
  <2>2. CASE req[r].op = "resolve_refund"
    BY <1>1, <1>4, <1>8, <2>2 DEF WriteResolve, RowMove
  <2>3. QED
    BY <1>8, <2>1, <2>2 DEF WriteResolve
<1>9. CASE WriteDispute(r)
  <2>1. /\ req[r].op = "dispute_escrow"
        /\ Update(r, [Row(r) EXCEPT !.status = "DISPUTED", !.escrow_state = "DISPUTED"])
    BY <1>9 DEF WriteDispute
  <2>2. /\ req[r].order = o
        /\ orders'[o] = [Row(r) EXCEPT !.status = "DISPUTED", !.escrow_state = "DISPUTED"]
    BY <1>2, <2>1
  <2>3. Row(r) = orders[o] /\ orders[o] \in Order
    BY <1>3, <2>2
  <2>4. QED
    BY <1>1, <2>1, <2>2, <2>3 DEF RowMove, Order
<1>10. CASE WriteUpdateStatus(r)
  <2>1. /\ req[r].asked \in ValidStatuses /\ req[r].op = "update_status"
        /\ Update(r, [Row(r) EXCEPT !.status = req[r].asked,
                         !.delivery_status = DeliveryFor(req[r].asked, req[r].seen)])
    BY <1>10 DEF WriteUpdateStatus, TypeOK, Request
  <2>2. /\ req[r].order = o
        /\ orders'[o] = [Row(r) EXCEPT !.status = req[r].asked,
                           !.delivery_status = DeliveryFor(req[r].asked, req[r].seen)]
    BY <1>2, <2>1
  <2>3. Row(r) = orders[o] /\ orders[o] \in Order
    BY <1>3, <2>2
  <2>4. QED
    BY <1>1, <2>1, <2>2, <2>3 DEF RowMove, Order, ChainOps, Fns
<1>11. CASE WritePickupInspection(r)
  <2>1. /\ req[r].op = "pickup_inspection"
        /\ Update(r, [Row(r) EXCEPT !.status = "READY_FOR_PICKUP",
                                    !.delivery_status = "PICKUP_READY"])
    BY <1>11 DEF WritePickupInspection
  <2>2. /\ req[r].order = o
        /\ orders'[o] = [Row(r) EXCEPT !.status = "READY_FOR_PICKUP",
                                      !.delivery_status = "PICKUP_READY"]
    BY <1>2, <2>1
  <2>3. Row(r) = orders[o] /\ orders[o] \in Order
    BY <1>3, <2>2
  <2>4. QED
    BY <1>1, <2>1, <2>2, <2>3 DEF RowMove, Order, ChainOps, Fns, ValidStatuses
<1>12. QED
  BY <1>5, <1>6, <1>7, <1>8, <1>9, <1>10, <1>11 DEF Write

LEMMA RowWrites ==
  ASSUME TypeOK, [Next]_vars, NEW o \in Orders, orders'[o] # orders[o]
  PROVE  \E r \in Requests : RowMove(r, o) /\ Write(r)
<1>1. ASSUME NEW r \in Requests, Write(r) PROVE RowMove(r, o)
  BY <1>1, WriteMoves
<1>2. QED
  BY <1>1 DEF Next, Start, StartFund, StartConfirmDelivery, StartRefund,
     StartDispute, StartResolve, StartUpdateStatus, StartPickupInspection, Progress,
     Submit, VerifyHash, Reject, Poll, Land, Log, InsertInspection, Credit, Abort,
     LandLate, WalletSubmit, vars

LEMMA RowSteps ==
  ASSUME TypeOK, [Next]_vars, NEW o \in Orders, orders'[o] # orders[o]
  PROVE  \E r \in Requests : RowMove(r, o) /\ UNCHANGED <<calls, credits, history, late>>
BY RowWrites DEF Write, WriteFund, WriteConfirmDelivery, WriteRefund,
   WriteDispute, WriteResolve, WriteUpdateStatus, WritePickupInspection

-----------------------------------------------------------------------------
(* The row, the audit trail and the credits against the escrow.            *)

\* What the columns say stays true as the escrow moves on.
LEMMA ReachedStays ==
  ASSUME NEW c \in SUBSET Fns, NEW fn \in Fns, NEW e \in EscrowStates,
         Accepts(fn, c), Reached(e, EscrowState(c))
  PROVE  Reached(e, EscrowState(c \cup {fn}))
<1>1. EscrowState(c) \notin {"RELEASED", "REFUNDED"}
  BY SettledRefuses
<1>2. CASE e = "FUNDED"
  <2>1. "fund_escrow" \in c \/ "dispute_escrow" \in c
    BY <1>1, <1>2 DEF Reached, EscrowState
  <2>2. QED
    BY <1>2, <2>1 DEF Reached, EscrowState
<1>3. CASE e = "DISPUTED"
  <2>1. "dispute_escrow" \in c
    BY <1>1, <1>3 DEF Reached, EscrowState
  <2>2. QED
    BY <1>3, <2>1 DEF Reached, EscrowState
<1>4. QED
  BY <1>1, <1>2, <1>3 DEF Reached, EscrowStates

LEMMA NextEscrowState ==
  ASSUME PaymentInv, DoneOnChain, EscrowStateAgrees, [Next]_vars
  PROVE  EscrowStateAgrees'
<1> SUFFICES ASSUME NEW o \in Orders
             PROVE  Reached(orders'[o].escrow_state, EscrowState(calls'[o]))
  BY DEF EscrowStateAgrees
<1>1. calls[o] \in SUBSET Fns /\ orders[o].escrow_state \in EscrowStates
  BY DEF PaymentInv, TypeOK, Order
<1>2. Reached(orders[o].escrow_state, EscrowState(calls'[o]))
  BY <1>1, CallsStep, ReachedStays DEF EscrowStateAgrees, PaymentInv
<1>3. CASE orders'[o] = orders[o]
  BY <1>2, <1>3
<1>4. CASE orders'[o] # orders[o]
  <2>1. PICK r \in Requests : RowMove(r, o) /\ UNCHANGED calls
    BY <1>4, RowSteps DEF PaymentInv
  <2>2. CASE req[r].op = "fund_escrow"
    <3>1. "fund_escrow" \in calls[o] /\ orders'[o].escrow_state = "FUNDED"
      BY <2>1, <2>2 DEF RowMove, At, DoneOnChain, ReleaseFns, RefundFns, ChainOps, Fns, ResolveFns
    <3>2. QED
      BY <2>1, <3>1 DEF Reached, EscrowState
  <2>3. CASE req[r].op = "dispute_escrow"
    <3>1. "dispute_escrow" \in calls[o] /\ orders'[o].escrow_state = "DISPUTED"
      BY <2>1, <2>3 DEF RowMove, At, DoneOnChain, ReleaseFns, RefundFns, ChainOps, Fns, ResolveFns
    <3>2. QED
      BY <2>1, <3>1 DEF Reached, EscrowState
  <2>4. CASE req[r].op \in ReleaseFns
    <3>1. EscrowState(calls[o]) = "RELEASED" /\ orders'[o].escrow_state = "RELEASED"
      BY <2>1, <2>4 DEF RowMove, At, PaymentInv, WritesBacked, ReleaseFns, RefundFns, ChainOps, Fns, ResolveFns
    <3>2. QED
      BY <2>1, <3>1 DEF Reached
  <2>5. CASE req[r].op \in RefundFns
    <3>1. EscrowState(calls[o]) = "REFUNDED" /\ orders'[o].escrow_state = "REFUNDED"
      BY <2>1, <2>5 DEF RowMove, At, PaymentInv, WritesBacked, ReleaseFns, RefundFns, ChainOps, Fns, ResolveFns
    <3>2. QED
      BY <2>1, <3>1 DEF Reached
  <2>6. CASE req[r].op \notin ChainOps
    BY <1>2, <2>1, <2>6 DEF RowMove, ReleaseFns, RefundFns, ChainOps, Fns, ResolveFns
  <2>7. QED
    BY <2>1, <2>2, <2>3, <2>4, <2>5, <2>6 DEF RowMove
<1>5. QED
  BY <1>3, <1>4

\* A row that knows of the funding, and whatever was decided on such a row.
LEMMA NextColumns ==
  ASSUME SafeHashes, PaymentInv, ColumnsAgree, [Next]_vars
  PROVE  ColumnsAgree'
<1>1. PaymentInv'
  BY NextPayment
<1>2. ASSUME NEW o \in Orders, "funding_tx_hash" \in orders[o].tx_hashes
      PROVE  "funding_tx_hash" \in orders'[o].tx_hashes
  <2>1. CASE orders'[o] # orders[o]
    <3>1. PICK r \in Requests : RowMove(r, o)
      BY <2>1, RowSteps DEF PaymentInv
    <3>2. QED
      BY <1>2, <3>1 DEF RowMove
  <2>2. QED
    BY <1>2, <2>1
<1>3. ASSUME NEW r \in Requests, req'[r].op \in AfterFunding
      PROVE  "funding_tx_hash" \in orders'[req'[r].order].tx_hashes
  <2>1. SlotMove(r)
    BY SlotSteps
  <2>2. req'[r].order \in Orders
    BY <1>1 DEF PaymentInv, TypeOK, Request
  <2>3. "funding_tx_hash" \in orders[req'[r].order].tx_hashes
    <3>1. CASE req'[r] = req[r] \/ Follows(req[r], req'[r])
      BY <1>3, <3>1 DEF Follows, ColumnsAgree, Row
    <3>2. CASE Starts(req'[r])
      BY <1>3, <2>2, <3>2 DEF Starts, ColumnsAgree
    <3>3. CASE Ends(req'[r])
      BY <1>3, <3>3 DEF Ends, AfterFunding, ReleaseFns, ResolveFns
    <3>4. QED
      BY <2>1, <3>1, <3>2, <3>3 DEF SlotMove
  <2>4. QED
    BY <1>2, <2>2, <2>3
<1>4. ASSUME NEW o \in Orders
      PROVE  LET columns == orders'[o].tx_hashes pay == orders'[o].payment_status IN
             /\ "release_tx_hash" \in columns <=> pay = "RELEASED"
             /\ "refund_tx_hash" \in columns => pay = "REFUNDED"
             /\ "funding_tx_hash" \in columns => pay # "PENDING"
             /\ KnowsFunding(orders'[o]) => "funding_tx_hash" \in columns
  <2>1. CASE orders'[o] = orders[o]
    BY <2>1 DEF ColumnsAgree
  <2>2. CASE orders'[o] # orders[o]
    <3>1. PICK r \in Requests : RowMove(r, o) /\ UNCHANGED calls
      BY <2>2, RowSteps DEF PaymentInv
    <3>2. /\ "release_tx_hash" \in orders[o].tx_hashes <=> orders[o].payment_status = "RELEASED"
          /\ "refund_tx_hash" \in orders[o].tx_hashes => orders[o].payment_status = "REFUNDED"
          /\ "funding_tx_hash" \in orders[o].tx_hashes => orders[o].payment_status # "PENDING"
          /\ KnowsFunding(orders[o]) => "funding_tx_hash" \in orders[o].tx_hashes
          /\ req[r].op \in AfterFunding => "funding_tx_hash" \in orders[o].tx_hashes
      BY <3>1 DEF ColumnsAgree, Row, RowMove
    <3>3. /\ req[r].op \in ReleaseFns => EscrowState(calls[o]) = "RELEASED"
          /\ req[r].op \in RefundFns => EscrowState(calls[o]) = "REFUNDED"
          /\ orders[o].payment_status \in {"RELEASED", "REFUNDED"}
               => EscrowState(calls[o]) = orders[o].payment_status
      BY <3>1 DEF RowMove, At, PaymentInv, WritesBacked, PaymentAgrees
    <3>4. CASE req[r].op = "fund_escrow"
      BY <3>1, <3>2, <3>4 DEF RowMove, KnowsFunding, ReleaseFns, RefundFns, ChainOps, Fns, ResolveFns
    <3>5. CASE req[r].op \in ReleaseFns
      BY <3>1, <3>2, <3>3, <3>5 DEF RowMove, KnowsFunding, AfterFunding, ReleaseFns, RefundFns, ChainOps, Fns, ResolveFns
    <3>6. CASE req[r].op \in RefundFns
      BY <3>1, <3>2, <3>3, <3>6 DEF RowMove, KnowsFunding, ReleaseFns, RefundFns, ChainOps, Fns, ResolveFns
    <3>7. CASE req[r].op = "dispute_escrow"
      BY <3>1, <3>2, <3>7 DEF RowMove, KnowsFunding, AfterFunding, ReleaseFns, RefundFns, ChainOps, Fns, ResolveFns
    <3>8. CASE req[r].op \notin ChainOps
      BY <3>1, <3>2, <3>8 DEF RowMove, KnowsFunding, ReleaseFns, RefundFns, ChainOps, Fns, ResolveFns, ValidStatuses
    <3>9. QED
      BY <3>1, <3>4, <3>5, <3>6, <3>7, <3>8 DEF RowMove
  <2>3. QED
    BY <2>1, <2>2
<1>5. QED
  BY <1>3, <1>4 DEF ColumnsAgree, Row

LEMMA AuditStep ==
  ASSUME TypeOK, [Next]_vars, NEW o \in Orders, NEW event, event \in history'[o],
         event \notin history[o]
  PROVE  \/ event = "PRODUCT_INSPECTED"
         \/ \E r \in Requests : /\ At(r, "log") /\ req[r].order = o /\ UNCHANGED calls
                                /\ event = EventOf(req[r])
<1>1. \A r \in Requests : req[r].order \in Orders
  BY DEF TypeOK, Request
<1>2. ASSUME NEW r \in Requests, Log(r)
      PROVE  At(r, "log") /\ req[r].order = o /\ UNCHANGED calls /\ event = EventOf(req[r])
  BY <1>1, <1>2 DEF Log, record_order_status_history, TypeOK
<1>3. ASSUME NEW r \in Requests, InsertInspection(r)
      PROVE  event = "PRODUCT_INSPECTED"
  BY <1>1, <1>3 DEF InsertInspection, record_order_status_history, TypeOK
<1>4. QED
  BY <1>2, <1>3 DEF Next, Start, StartFund, StartConfirmDelivery, StartRefund,
     StartDispute, StartResolve, StartUpdateStatus, StartPickupInspection, Progress,
     Submit, VerifyHash, Reject, Poll, Write, WriteFund, WriteConfirmDelivery,
     WriteRefund, WriteDispute, WriteResolve, WriteUpdateStatus, WritePickupInspection,
     Land, Credit, Abort, LandLate, WalletSubmit, vars

\* What is recorded is what the handler did, and that has happened.
LEMMA NextAudit ==
  ASSUME PaymentInv, DoneOnChain, AuditAgrees, [Next]_vars
  PROVE  AuditAgrees'
<1>1. ASSUME NEW o \in Orders, NEW event, NEW fn \in ChainOps, event # "PRODUCT_INSPECTED",
             event \notin ValidStatuses,
             event \in history[o] => fn \in calls[o],
             \A q \in Request : EventOf(q) = event => q.op = fn,
             event \in history'[o]
      PROVE  fn \in calls'[o]
  <2>1. calls[o] \subseteq calls'[o]
    BY CallsGrow DEF PaymentInv
  <2>2. CASE event \in history[o]
    BY <1>1, <2>1, <2>2
  <2>3. CASE event \notin history[o]
    <3>1. PICK r \in Requests : /\ At(r, "log") /\ req[r].order = o /\ UNCHANGED calls
                                 /\ event = EventOf(req[r])
      BY <1>1, <2>3, AuditStep DEF PaymentInv
    <3>2. req[r] \in Request
      BY DEF PaymentInv, TypeOK
    <3>3. req[r].op = fn
      BY <1>1, <3>1, <3>2
    <3>4. QED
      BY <1>1, <3>1, <3>3 DEF At, DoneOnChain
  <2>4. QED
    BY <2>2, <2>3
<1>2. \A q \in Request :
        /\ q.op = "update_status" => EventOf(q) \in ValidStatuses
        /\ EventOf(q) = "PAYMENT_PROTECTED" => q.op = "fund_escrow"
        /\ EventOf(q) = "ORDER_REFUNDED" => q.op = "refund_escrow"
        /\ EventOf(q) = "ORDER_DISPUTED" => q.op = "dispute_escrow"
        /\ EventOf(q) = "DISPUTE_RESOLVED_RELEASED" => q.op = "resolve_release"
        /\ EventOf(q) = "DISPUTE_RESOLVED_REFUNDED" => q.op = "resolve_refund"
  <2>1. \A q \in Request :
          /\ q.op \in {"fund_escrow", "release_escrow", "refund_escrow", "dispute_escrow",
                "resolve_release", "resolve_refund", "pickup_inspection", "update_status"}
          /\ q.asked \in ValidStatuses
    BY DEF Request, Ops, ChainOps, Fns, ResolveFns
  <2>2. QED
    BY <2>1 DEF EventOf, ValidStatuses
<1>3. QED
  BY <1>1, <1>2 DEF AuditAgrees, ValidStatuses, ChainOps, Fns, ResolveFns

LEMMA CreditStep ==
  ASSUME TypeOK, [Next]_vars, NEW o \in Orders, credits'[o] # credits[o]
  PROVE  \E r \in Requests :
           /\ At(r, "credit") /\ req[r].order = o /\ Ends(req'[r])
           /\ credits'[o] = credits[o] + 1 /\ UNCHANGED <<orders, calls>>
<1>1. ASSUME NEW r \in Requests, Credit(r)
      PROVE  /\ At(r, "credit") /\ req[r].order = o /\ Ends(req'[r])
             /\ credits'[o] = credits[o] + 1 /\ UNCHANGED <<orders, calls>>
  BY <1>1, Stops DEF Credit, TypeOK, Request
<1>2. QED
  BY <1>1 DEF Next, Start, StartFund, StartConfirmDelivery, StartRefund,
     StartDispute, StartResolve, StartUpdateStatus, StartPickupInspection, Progress,
     Submit, VerifyHash, Reject, Poll, Write, WriteFund, WriteConfirmDelivery,
     WriteRefund, WriteDispute, WriteResolve, WriteUpdateStatus, WritePickupInspection,
     Land, Log, InsertInspection, Abort, LandLate, WalletSubmit, vars

\* A handler gets on its way to credit an order only when no other is, and the
\* order has not been credited.
LEMMA BecomesSettling ==
  ASSUME SafeHashes, PaymentInv, DoneOnChain, OneRelease, CreditInv, [Next]_vars,
         NEW r \in Requests, Settling(r)'
  PROVE  \/ Settling(r) /\ req'[r].order = req[r].order
         \/ /\ req'[r] # req[r] /\ credits[req'[r].order] = 0
            /\ \A s \in Requests : Settling(s) => req[s].order # req'[r].order
<1> DEFINE o == req[r].order
<1>1. SlotMove(r) /\ o \in Orders
  BY SlotSteps DEF PaymentInv, TypeOK, Request
<1>2. CASE req'[r] = req[r]
  BY <1>2 DEF Settling, Crediting
<1>3. CASE Starts(req'[r]) \/ Ends(req'[r])
  BY <1>3 DEF Starts, Ends, Settling, Crediting, ReleaseFns
<1>4. \A s \in Requests : Settling(s) => req[s].op \in ReleaseFns \cap calls[req[s].order]
  BY DEF Settling, Crediting, DoneOnChain, ReleaseFns, ChainOps, Fns, ResolveFns
<1>5. CASE Follows(req[r], req'[r]) /\ ~Settling(r)
  <2>1. req'[r].op = req[r].op /\ req'[r].order = o
    BY <1>5 DEF Follows
  <2>2. CASE req'[r].step = "wait"
    <3>1. req[r].op = "resolve_release" /\ Accepts(req[r].op, calls[o]) /\ req'[r] # req[r]
      BY <1>5, <2>1, <2>2 DEF Follows, Lands, Settling, Crediting
    <3>2. calls[o] \cap ReleaseFns = {} /\ EscrowState(calls[o]) \notin {"RELEASED", "REFUNDED"}
      BY <1>1, <3>1, PayoutDecides, SettledRefuses DEF PaymentInv, TypeOK, Fns, ResolveFns
    <3>3. credits[o] = 0
      BY <1>1, <3>2 DEF CreditInv, PaymentInv, PaymentAgrees
    <3>4. QED
      BY <1>4, <2>1, <3>1, <3>2, <3>3
  <2>3. CASE req'[r].step = "log"
    <3>1. req[r].op = "release_escrow" /\ At(r, "write") /\ req'[r] # req[r]
          /\ orders[o].payment_status = "PROTECTED"
      BY <1>5, <2>1, <2>3 DEF Follows, Books, Settling, Crediting, ReleaseFns, At
    <3>2. "release_escrow" \in calls[o]
      BY <3>1 DEF At, DoneOnChain, ChainOps, Fns, ResolveFns
    <3>3. credits[o] = 0
      BY <1>1, <3>1 DEF CreditInv
    <3>4. ASSUME NEW s \in Requests, Settling(s), req[s].order = o PROVE FALSE
      <4>1. req[s].op = "release_escrow"
        BY <1>1, <1>4, <3>2, <3>4 DEF OneRelease, ReleaseFns
      <4>2. Crediting(s)
        BY <3>4, <4>1 DEF Settling
      <4>3. QED
        BY <3>1, <3>4, <4>2 DEF CreditInv, Row
    <3>5. QED
      BY <2>1, <3>1, <3>3, <3>4
  <2>4. CASE req'[r].step \notin {"wait", "log"}
    BY <1>5, <2>1, <2>4 DEF Follows, Settling, Crediting, ReleaseFns, ResolveFns, ChainOps, Fns
  <2>5. QED
    BY <2>2, <2>3, <2>4
<1>6. CASE Follows(req[r], req'[r]) /\ Settling(r)
  BY <1>6 DEF Follows
<1>7. QED
  BY <1>1, <1>2, <1>3, <1>5, <1>6 DEF SlotMove

LEMMA ReleasedStays ==
  ASSUME PaymentInv, PaymentInv', [Next]_vars, NEW o \in Orders,
         orders[o].payment_status = "RELEASED"
  PROVE  orders'[o].payment_status = "RELEASED"
<1>1. CASE orders'[o] # orders[o]
  <2>1. PICK r \in Requests : RowMove(r, o) /\ UNCHANGED calls
    BY <1>1, RowSteps DEF PaymentInv
  <2>2. EscrowState(calls[o]) = "RELEASED"
    BY DEF PaymentInv, PaymentAgrees
  <2>3. req[r].op \in RefundFns => EscrowState(calls[o]) = "REFUNDED"
    BY <2>1 DEF RowMove, At, PaymentInv, WritesBacked
  <2>4. QED
    BY <2>1, <2>2, <2>3 DEF RowMove
<1>2. QED
  BY <1>1

LEMMA NextCredit ==
  ASSUME SafeHashes, PaymentInv, DoneOnChain, OneRelease, CreditInv, [Next]_vars
  PROVE  CreditInv'
<1>1. PaymentInv'
  BY NextPayment
<1>2. OneMoves /\ \A r \in Requests : SlotMove(r) /\ req[r].order \in Orders /\ req'[r].order \in Orders
  BY <1>1, SlotSteps DEF PaymentInv, TypeOK, Request
<1>3. ASSUME NEW r \in Requests
      PROVE  /\ req'[r].step = "credit" => req'[r].op \in ReleaseFns
             /\ Crediting(r)' => orders'[req'[r].order].payment_status = "RELEASED"
  <2>1. CASE req'[r] = req[r]
    BY <1>1, <1>2, <2>1, ReleasedStays DEF CreditInv, Crediting, Row
  <2>2. CASE Starts(req'[r]) \/ Ends(req'[r])
    BY <2>2 DEF Starts, Ends, Crediting
  <2>3. CASE Follows(req[r], req'[r])
    <3>1. CASE req'[r].step = "credit"
      <4>1. Crediting(r) /\ req'[r].order = req[r].order /\ req'[r].op \in ReleaseFns
        BY <2>3, <3>1 DEF Follows, Crediting
      <4>2. orders[req[r].order].payment_status = "RELEASED"
        BY <4>1 DEF CreditInv, Row
      <4>3. QED
        BY <1>1, <1>2, <4>1, <4>2, ReleasedStays
    <3>2. CASE req'[r].step = "log"
      BY <2>3, <3>2 DEF Follows, Books, Crediting
    <3>3. QED
      BY <3>1, <3>2 DEF Crediting
  <2>4. QED
    BY <1>2, <2>1, <2>2, <2>3 DEF SlotMove
<1>4. ASSUME NEW r \in Requests, Settling(r)'
      PROVE  credits'[req'[r].order] = 0
  <2> DEFINE o == req'[r].order
  <2>1. credits[o] = 0
    BY <1>4, BecomesSettling DEF CreditInv
  <2>2. CASE credits'[o] # credits[o]
    <3>1. PICK s \in Requests : At(s, "credit") /\ req[s].order = o /\ Ends(req'[s])
      BY <1>2, <2>2, CreditStep DEF PaymentInv
    <3>2. Settling(s) /\ req'[s] # req[s]
      BY <3>1 DEF Settling, Crediting, CreditInv, At, Ends
    <3>3. r # s
      BY <1>4, <3>1 DEF Ends, Settling, Crediting, ReleaseFns
    <3>4. req'[r] = req[r]
      BY <1>2, <3>2, <3>3 DEF OneMoves
    <3>5. Settling(r) /\ req[r].order = o
      BY <1>4, <3>4 DEF Settling, Crediting
    <3>6. QED
      BY <3>1, <3>2, <3>3, <3>5 DEF CreditInv
  <2>3. QED
    BY <2>1, <2>2
<1>5. ASSUME NEW r \in Requests, NEW s \in Requests, Settling(r)', Settling(s)',
             req'[r].order = req'[s].order, r # s
      PROVE  FALSE
  <2>1. CASE Settling(r) /\ req'[r].order = req[r].order
    <3>1. \/ Settling(s) /\ req'[s].order = req[s].order
          \/ \A p \in Requests : Settling(p) => req[p].order # req'[s].order
      BY <1>5, BecomesSettling
    <3>2. QED
      BY <1>5, <2>1, <3>1 DEF CreditInv
  <2>2. CASE Settling(s) /\ req'[s].order = req[s].order
    <3>1. \/ Settling(r) /\ req'[r].order = req[r].order
          \/ \A p \in Requests : Settling(p) => req[p].order # req'[r].order
      BY <1>5, BecomesSettling
    <3>2. QED
      BY <1>5, <2>2, <3>1 DEF CreditInv
  <2>3. CASE req'[r] # req[r] /\ req'[s] # req[s]
    BY <1>2, <1>5, <2>3 DEF OneMoves
  <2>4. QED
    BY <1>5, <2>1, <2>2, <2>3, BecomesSettling
<1>6. ASSUME NEW o \in Orders, credits'[o] # 0
      PROVE  credits'[o] = 1 /\ orders'[o].payment_status = "RELEASED"
  <2>1. CASE credits'[o] = credits[o]
    BY <1>1, <1>6, <2>1, ReleasedStays DEF CreditInv
  <2>2. CASE credits'[o] # credits[o]
    <3>1. PICK s \in Requests : /\ At(s, "credit") /\ req[s].order = o
                                 /\ credits'[o] = credits[o] + 1 /\ UNCHANGED orders
      BY <2>2, CreditStep DEF PaymentInv
    <3>2. Crediting(s) /\ Settling(s)
      BY <3>1 DEF CreditInv, Crediting, Settling, At
    <3>3. credits[o] = 0 /\ orders[o].payment_status = "RELEASED"
      BY <3>1, <3>2 DEF CreditInv, Row
    <3>4. QED
      BY <3>1, <3>3
  <2>3. QED
    BY <2>1, <2>2
<1>7. QED
  BY <1>3, <1>4, <1>5, <1>6 DEF CreditInv, Row

\* All of it, as one invariant.
OrderInv ==
  /\ PaymentInv /\ DoneOnChain /\ OneRelease /\ ColumnsAgree /\ CreditInv
  /\ EscrowStateAgrees /\ AuditAgrees

LEMMA InitOrder == Init => OrderInv
<1> SUFFICES ASSUME Init PROVE OrderInv
  OBVIOUS
<1>1. PaymentInv
  BY InitPayment
<1>2. \A r \in Requests : req[r].op = "update_status" /\ req[r].step = "idle" /\ req[r].tx = "none"
  BY DEF Init, Idle
<1>3. ASSUME NEW o \in Orders
      PROVE  /\ orders[o].status \in {"PENDING", "FAILED"}
             /\ orders[o].escrow_state \in {"CREATED", "FAILED", "NONE"}
             /\ orders[o].payment_status = "PENDING" /\ orders[o].tx_hashes = {}
             /\ history[o] = {} /\ credits[o] = 0 /\ calls[o] \cap ReleaseFns = {}
  BY ConstantsAssumption DEF Init, NewOrder, ReleaseFns
<1>4. DoneOnChain
  BY <1>2 DEF DoneOnChain
<1>5. OneRelease
  BY <1>3 DEF OneRelease, ReleaseFns
<1>6. ColumnsAgree
  BY <1>2, <1>3 DEF ColumnsAgree, KnowsFunding, AfterFunding, ReleaseFns, ResolveFns
<1>7. CreditInv
  BY <1>2, <1>3 DEF CreditInv, Crediting, Settling, ReleaseFns
<1>8. EscrowStateAgrees
  BY <1>3 DEF EscrowStateAgrees, Reached
<1>9. AuditAgrees
  BY <1>3 DEF AuditAgrees
<1>10. QED
  BY <1>1, <1>4, <1>5, <1>6, <1>7, <1>8, <1>9 DEF OrderInv

LEMMA NextOrder == SafeHashes /\ OrderInv /\ [Next]_vars => OrderInv'
BY NextPayment, NextDone, NextOneRelease, NextColumns, NextCredit, NextEscrowState, NextAudit
   DEF OrderInv

LEMMA OrderInvariant == ASSUME SafeHashes PROVE Spec => []OrderInv
<1>1. OrderInv /\ [Next]_vars => OrderInv'
  BY NextOrder
<1>2. QED
  BY <1>1, InitOrder, PTL DEF Spec

\* What the row says of the escrow is a state the escrow is in or has left, for any
\* number of orders and of concurrent, interrupted handlers; here and below as far as
\* SafeHashes goes: resolutions are signed by the backend, and unconfirmed hashes
\* meet only handlers that check them.
THEOREM EscrowStateCorrect == ASSUME SafeHashes PROVE Spec => []EscrowStateAgrees
<1>1. OrderInv => EscrowStateAgrees
  BY DEF OrderInv
<1>2. QED
  BY <1>1, OrderInvariant, PTL

\* Whatever the audit trail records has happened on chain, under SafeHashes.
THEOREM AuditCorrect == ASSUME SafeHashes PROVE Spec => []AuditAgrees
<1>1. OrderInv => AuditAgrees
  BY DEF OrderInv
<1>2. QED
  BY <1>1, OrderInvariant, PTL

\* No order is both released and refunded, in the whole of its life, nor released
\* before its funding was seen, under SafeHashes.
THEOREM SettlementCorrect == ASSUME SafeHashes PROVE Spec => []OneSettlement
<1>1. OrderInv => OneSettlement
  BY DEF OrderInv, ColumnsAgree, KnowsFunding, OneSettlement
<1>2. QED
  BY <1>1, OrderInvariant, PTL

\* The seller is credited at most once, and only for a release the row reports, by
\* handlers that sign their resolutions: of several confirmations, by hash or not, and
\* resolutions that meet, one alone goes on to the credit.  SafeHashes is what keeps two
\* resolutions from being shown one transaction, with which the code credits twice.
THEOREM CreditCorrect == ASSUME SafeHashes PROVE Spec => []CreditedAtMostOnce
<1>1. OrderInv => CreditedAtMostOnce
  BY DEF OrderInv, CreditInv, ColumnsAgree, CreditedAtMostOnce
<1>2. QED
  BY <1>1, OrderInvariant, PTL

-----------------------------------------------------------------------------
(* The refinement: a step of the handlers is one of EscrowPayment, or none. *)

Place(o) == MoneyAt(EscrowState(calls[o]))

\* A step touches the row, the escrow or the credits of one order, one at a time.
StepOn(o) ==
  /\ \A p \in Orders \ {o} :
       orders'[p] = orders[p] /\ calls'[p] = calls[p] /\ credits'[p] = credits[p]
  /\ \/ orders'[o] = orders[o] /\ calls'[o] = calls[o]
     \/ orders'[o] = orders[o] /\ credits'[o] = credits[o]
     \/ calls'[o] = calls[o] /\ credits'[o] = credits[o]

LEMMA StepKinds ==
  ASSUME TypeOK, OnContract, [Next]_vars
  PROVE  \E o \in Orders : StepOn(o)
<1>1. ASSUME UNCHANGED <<orders, calls, credits>> PROVE \E o \in Orders : StepOn(o)
  BY <1>1, ConstantsAssumption DEF StepOn
<1>2. \A r \in Requests : req[r].order \in Orders
  BY DEF TypeOK, Request
<1>3. ASSUME NEW r \in Requests, Write(r) PROVE StepOn(req[r].order)
  <2>1. UNCHANGED <<calls, credits>>
    BY <1>3 DEF Write, WriteFund, WriteConfirmDelivery, WriteRefund, WriteDispute,
       WriteResolve, WriteUpdateStatus, WritePickupInspection
  <2>2. ASSUME NEW row, Update(r, row)
        PROVE  \A p \in Orders \ {req[r].order} : orders'[p] = orders[p]
    BY <2>2 DEF Update, TypeOK
  <2>3. UNCHANGED orders \/ \E row : Update(r, row)
    BY <1>3 DEF Write, WriteFund, WriteConfirmDelivery, WriteRefund, WriteDispute,
       WriteResolve, WriteUpdateStatus, WritePickupInspection
  <2>4. QED
    BY <2>1, <2>2, <2>3 DEF StepOn
<1>4. ASSUME NEW r \in Requests, Credit(r) PROVE StepOn(req[r].order)
  BY <1>4 DEF Credit, StepOn, TypeOK
<1>5. ASSUME NEW r \in Requests, Land(r) PROVE StepOn(req[r].order)
  BY <1>5 DEF Land, StepOn, TypeOK
<1>6. ASSUME NEW o \in Orders, NEW fn \in Fns, LandLate(o, fn) PROVE StepOn(o)
  BY <1>6 DEF LandLate, StepOn, TypeOK
<1>7. QED
  BY <1>1, <1>2, <1>3, <1>4, <1>5, <1>6
     DEF Next, Start, StartFund, StartConfirmDelivery, StartRefund,
     StartDispute, StartResolve, StartUpdateStatus, StartPickupInspection, Progress,
     Submit, VerifyHash, Reject, Poll, Log, InsertInspection, Abort, WalletSubmit, vars

\* A call that lands moves the money where it may go, or leaves it where it is.
LEMMA MoneyGoes ==
  ASSUME NEW c \in SUBSET Fns, NEW fn \in Fns, Accepts(fn, c)
  PROVE  LET from == MoneyAt(EscrowState(c)) to == MoneyAt(EscrowState(c \cup {fn})) IN
         to = from \/ to \in Abstract!Goes(from)
<1>1. EscrowState(c) \notin {"RELEASED", "REFUNDED"}
  BY SettledRefuses
<1>2. c \cap ReleaseFns = {} /\ c \cap RefundFns = {}
  BY PayoutDecides
<1>3. EscrowState(c) \in {"DISPUTED", "FUNDED", "CREATED", "NONE"}
  BY <1>2 DEF EscrowState
<1>4. CASE fn \in ReleaseFns
  <2>1. EscrowState(c \cup {fn}) = "RELEASED"
    BY <1>4, PayoutDecides
  <2>2. EscrowState(c) \in {"FUNDED", "DISPUTED"}
    BY <1>4 DEF Accepts, AcceptedIn, ReleaseFns, ResolveFns
  <2>3. QED
    BY <2>1, <2>2 DEF MoneyAt, Abstract!Goes
<1>5. CASE fn \in RefundFns
  <2>1. EscrowState(c \cup {fn}) = "REFUNDED"
    BY <1>5, PayoutDecides
  <2>2. QED
    BY <1>3, <2>1 DEF MoneyAt, Abstract!Goes
<1>6. CASE fn = "fund_escrow"
  <2>1. EscrowState(c) = "CREATED"
    BY <1>6 DEF Accepts, AcceptedIn, ResolveFns
  <2>2. EscrowState(c \cup {fn}) = "FUNDED"
    BY <1>2, <1>6, <2>1 DEF EscrowState, ReleaseFns, RefundFns
  <2>3. QED
    BY <2>1, <2>2 DEF MoneyAt, Abstract!Goes
<1>7. CASE fn = "dispute_escrow"
  <2>1. EscrowState(c) = "FUNDED"
    BY <1>7 DEF Accepts, AcceptedIn, ResolveFns
  <2>2. EscrowState(c \cup {fn}) = "DISPUTED"
    BY <1>2, <1>7 DEF EscrowState, ReleaseFns, RefundFns
  <2>3. QED
    BY <2>1, <2>2 DEF MoneyAt
<1>8. CASE fn = "create_escrow"
  <2>1. EscrowState(c) = "NONE"
    BY <1>8 DEF Accepts, AcceptedIn, ResolveFns
  <2>2. EscrowState(c \cup {fn}) = "CREATED"
    BY <1>2, <1>8, <2>1 DEF EscrowState, ReleaseFns, RefundFns
  <2>3. QED
    BY <2>1, <2>2 DEF MoneyAt
<1>9. QED
  BY <1>4, <1>5, <1>6, <1>7, <1>8 DEF Fns, ReleaseFns, RefundFns, ResolveFns

\* A report that changes is true of the money and follows the last one.
LEMMA ReportsTrue ==
  ASSUME OrderInv, [Next]_vars, NEW o \in Orders,
         orders'[o].payment_status # orders[o].payment_status
  PROVE  orders'[o].payment_status
           \in Abstract!TrueOf(Place(o)) \cap Abstract!MayFollow(orders[o].payment_status)
<1> DEFINE pay == orders[o].payment_status
           new == orders'[o].payment_status
<1>1. PICK r \in Requests : RowMove(r, o)
  BY RowSteps DEF OrderInv, PaymentInv
<1>2. /\ pay \in PaymentStatuses
      /\ pay \in {"RELEASED", "REFUNDED"} => EscrowState(calls[o]) = pay
  BY DEF OrderInv, PaymentInv, TypeOK, Order, PaymentAgrees
<1>3. req[r].order = o /\ req[r].step = "write"
  BY <1>1 DEF RowMove, At
<1>4. CASE new = "PROTECTED"
  <2>1. pay = "PENDING" /\ req[r].op = "fund_escrow"
    BY <1>1, <1>4 DEF RowMove
  <2>2. "fund_escrow" \in calls[o]
    BY <1>3, <2>1 DEF OrderInv, PaymentInv, WritesBacked
  <2>3. EscrowState(calls[o]) \in {"RELEASED", "REFUNDED", "DISPUTED", "FUNDED"}
    BY <2>2 DEF EscrowState
  <2>4. QED
    BY <1>4, <2>1, <2>3 DEF Place, MoneyAt, Abstract!TrueOf, Abstract!MayFollow
<1>5. CASE new = "RELEASED"
  <2>1. req[r].op \in ReleaseFns
    BY <1>1, <1>5 DEF RowMove
  <2>2. EscrowState(calls[o]) = "RELEASED"
    BY <1>3, <2>1 DEF OrderInv, PaymentInv, WritesBacked
  <2>3. pay # "PENDING"
    <3>1. CASE req[r].op = "release_escrow"
      BY <1>1, <3>1 DEF RowMove, RefundFns, ChainOps, Fns, ResolveFns
    <3>2. CASE req[r].op = "resolve_release"
      BY <1>3, <3>2 DEF OrderInv, ColumnsAgree, AfterFunding, ReleaseFns, Row
    <3>3. QED
      BY <2>1, <3>1, <3>2 DEF ReleaseFns
  <2>4. pay = "PROTECTED"
    BY <1>2, <1>5, <2>2, <2>3 DEF PaymentStatuses
  <2>5. QED
    BY <1>5, <2>2, <2>4 DEF Place, MoneyAt, Abstract!TrueOf, Abstract!MayFollow
<1>6. CASE new = "REFUNDED"
  <2>1. req[r].op \in RefundFns
    BY <1>1, <1>6 DEF RowMove
  <2>2. EscrowState(calls[o]) = "REFUNDED"
    BY <1>3, <2>1 DEF OrderInv, PaymentInv, WritesBacked
  <2>3. pay \in {"PENDING", "PROTECTED"}
    BY <1>2, <1>6, <2>2 DEF PaymentStatuses
  <2>4. QED
    BY <1>6, <2>2, <2>3 DEF Place, MoneyAt, Abstract!TrueOf, Abstract!MayFollow
<1>7. QED
  BY <1>1, <1>4, <1>5, <1>6 DEF RowMove

LEMMA InitRefines == Init => Abstract!PayInit
<1> SUFFICES ASSUME Init PROVE Abstract!PayInit
  OBVIOUS
<1>1. ASSUME NEW o \in Orders
      PROVE  orders[o].payment_status = "PENDING" /\ Place(o) = "unpaid"
  BY DEF Init, NewOrder, Place, MoneyAt, EscrowState, ReleaseFns, RefundFns
<1>2. QED
  BY <1>1 DEF Init, Abstract!PayInit, Place

LEMMA NextRefines ==
  ASSUME OrderInv, OrderInv', [Next]_vars
  PROVE  [Abstract!PayNext]_(Abstract!payVars)
<1> DEFINE money   == [o \in Orders |-> MoneyAt(EscrowState(calls[o]))]
           payment == [o \in Orders |-> orders[o].payment_status]
<1>1. credits \in [Orders -> Nat] /\ credits' \in [Orders -> Nat]
  BY ConstantsAssumption DEF OrderInv, PaymentInv, TypeOK
<1>2. PICK o \in Orders : StepOn(o)
  BY StepKinds DEF OrderInv, PaymentInv
<1>3. /\ \A p \in Orders \ {o} : money'[p] = money[p] /\ payment'[p] = payment[p]
                                   /\ credits'[p] = credits[p]
      /\ orders'[o] = orders[o] => payment'[o] = payment[o]
      /\ calls'[o] = calls[o] => money'[o] = money[o]
  BY <1>2 DEF StepOn
<1>4. CASE money'[o] # money[o]
  <2>1. payment' = payment /\ credits' = credits
    BY <1>1, <1>2, <1>3, <1>4 DEF StepOn
  <2>2. PICK fn \in Fns : Accepts(fn, calls[o]) /\ calls'[o] = calls[o] \cup {fn}
    BY <1>3, <1>4, CallsStep DEF OrderInv, PaymentInv
  <2>3. money'[o] \in Abstract!Goes(money[o])
    BY <1>4, <2>2, MoneyGoes DEF OrderInv, PaymentInv, TypeOK
  <2>4. money' = [money EXCEPT ![o] = money'[o]]
    BY <1>3
  <2>5. Abstract!Move(o)
    BY <2>1, <2>3, <2>4 DEF Abstract!Move
  <2>6. QED
    BY <2>5 DEF Abstract!PayNext
<1>5. CASE payment'[o] # payment[o]
  <2>1. money' = money /\ credits' = credits
    BY <1>1, <1>2, <1>3, <1>5 DEF StepOn
  <2>2. payment'[o] \in Abstract!TrueOf(money[o]) \cap Abstract!MayFollow(payment[o])
    BY <1>5, ReportsTrue DEF Place
  <2>3. payment' = [payment EXCEPT ![o] = payment'[o]]
    BY <1>3
  <2>4. Abstract!Report(o)
    BY <2>1, <2>2, <2>3 DEF Abstract!Report
  <2>5. QED
    BY <2>4 DEF Abstract!PayNext
<1>6. CASE credits'[o] # credits[o]
  <2>1. money' = money /\ payment' = payment
    BY <1>2, <1>3, <1>6 DEF StepOn
  <2>2. credits[o] = 0 /\ credits'[o] = 1 /\ payment[o] = "RELEASED"
    <3>1. PICK r \in Requests : /\ At(r, "credit") /\ req[r].order = o
                                 /\ credits'[o] = credits[o] + 1
      BY <1>6, CreditStep DEF OrderInv, PaymentInv
    <3>2. Crediting(r) /\ Settling(r)
      BY <3>1 DEF OrderInv, CreditInv, Crediting, Settling, At
    <3>3. QED
      BY <3>1, <3>2 DEF OrderInv, CreditInv, Row
  <2>3. credits' = [credits EXCEPT ![o] = 1]
    BY <1>1, <1>3, <2>2
  <2>4. Abstract!CreditSeller(o)
    BY <2>1, <2>2, <2>3 DEF Abstract!CreditSeller
  <2>5. QED
    BY <2>4 DEF Abstract!PayNext
<1>7. CASE money'[o] = money[o] /\ payment'[o] = payment[o] /\ credits'[o] = credits[o]
  <2>1. money' = money /\ payment' = payment /\ credits' = credits
    BY <1>1, <1>3, <1>7
  <2>2. QED
    BY <2>1 DEF Abstract!payVars
<1>8. QED
  BY <1>4, <1>5, <1>6, <1>7

\* For any orders, handlers and interruptions, the life of an order is a behaviour
\* of EscrowPayment, as far as SafeHashes goes.
THEOREM Refinement == ASSUME SafeHashes PROVE Spec => ImplementsEscrowPayment
<1>1. OrderInv /\ OrderInv' /\ [Next]_vars => [Abstract!PayNext]_(Abstract!payVars)
  BY NextRefines
<1>2. QED
  BY <1>1, InitRefines, OrderInvariant, PTL DEF Spec, ImplementsEscrowPayment, Abstract!PaySpec

\* No payment is ever reported to go back, or out of a settlement, under SafeHashes.
THEOREM PaymentForward == ASSUME SafeHashes PROVE Spec => PaymentMovesForward
<1>1. OrderInv /\ [Next]_vars =>
        [\A o \in Orders :
           orders'[o].payment_status \in ForwardFrom(orders[o].payment_status)]_vars
  <2> SUFFICES ASSUME OrderInv, [Next]_vars, NEW o \in Orders
               PROVE  orders'[o].payment_status \in ForwardFrom(orders[o].payment_status)
    OBVIOUS
  <2>1. orders[o].payment_status \in PaymentStatuses
    BY DEF OrderInv, PaymentInv, TypeOK, Order
  <2>2. CASE orders'[o].payment_status = orders[o].payment_status
    BY <2>1, <2>2 DEF ForwardFrom, PaymentStatuses
  <2>3. CASE orders'[o].payment_status # orders[o].payment_status
    BY <2>1, <2>3, ReportsTrue DEF ForwardFrom, PaymentStatuses, Abstract!MayFollow
  <2>4. QED
    BY <2>2, <2>3
<1>2. QED
  BY <1>1, OrderInvariant, PTL DEF Spec, PaymentMovesForward
-----------------------------------------------------------------------------
(* The parcel: status and delivery_status.                                 *)

LEMMA NextDelivery ==
  ASSUME TypeOK, DeliveryAgrees, [Next]_vars
  PROVE  DeliveryAgrees'
<1> SUFFICES ASSUME NEW o \in Orders
             PROVE  LET s == orders'[o].status d == orders'[o].delivery_status IN
                    /\ s = "READY_FOR_PICKUP" => d = "PICKUP_READY"
                    /\ s = "OUT_FOR_DELIVERY" => d = "IN_TRANSIT"
                    /\ s = "DELIVERED" => d = "DELIVERED"
  BY DEF DeliveryAgrees
<1>1. CASE orders'[o] = orders[o]
  BY <1>1 DEF DeliveryAgrees
<1>2. ASSUME NEW r \in Requests, RowMove(r, o), req[r].op \in ChainOps
      PROVE  orders'[o].status \in {"CONFIRMED", "COMPLETED", "CANCELLED", "DISPUTED"}
  BY <1>2 DEF RowMove
<1>3. ASSUME NEW r \in Requests, WriteUpdateStatus(r) \/ WritePickupInspection(r),
             orders'[o] # orders[o]
      PROVE  \/ orders'[o].status = "READY_FOR_PICKUP" /\ orders'[o].delivery_status = "PICKUP_READY"
             \/ orders'[o].delivery_status = DeliveryFor(orders'[o].status, req[r].seen)
  <2>1. ASSUME NEW row, Update(r, row) PROVE orders'[o] = row /\ Row(r) \in Order
    BY <1>3, <2>1 DEF Update, TypeOK, Row, Request
  <2>2. CASE WriteUpdateStatus(r)
    <3>1. orders'[o] = [Row(r) EXCEPT !.status = req[r].asked,
                          !.delivery_status = DeliveryFor(req[r].asked, req[r].seen)]
          /\ Row(r) \in Order
      BY <2>1, <2>2 DEF WriteUpdateStatus
    <3>2. QED
      BY <3>1 DEF Order
  <2>3. CASE WritePickupInspection(r)
    <3>1. orders'[o] = [Row(r) EXCEPT !.status = "READY_FOR_PICKUP",
                                     !.delivery_status = "PICKUP_READY"]
          /\ Row(r) \in Order
      BY <2>1, <2>3 DEF WritePickupInspection
    <3>2. QED
      BY <3>1 DEF Order
  <2>4. QED
    BY <1>3, <2>2, <2>3
<1>4. CASE orders'[o] # orders[o]
  <2>1. PICK r \in Requests : RowMove(r, o) /\ Write(r)
    BY <1>4, RowWrites
  <2>2. CASE req[r].op \in ChainOps
    BY <1>2, <2>1, <2>2
  <2>3. CASE req[r].op \notin ChainOps
    <3>1. WriteUpdateStatus(r) \/ WritePickupInspection(r)
      BY <2>1, <2>3 DEF Write, WriteFund, WriteConfirmDelivery, WriteRefund,
         WriteDispute, WriteResolve, ChainOps, Fns, ResolveFns
    <3>2. QED
      BY <1>3, <1>4, <3>1 DEF DeliveryFor
  <2>4. QED
    BY <2>2, <2>3
<1>5. QED
  BY <1>1, <1>4

\* The two status columns tell the same story, whatever the delivery status a
\* handler writes back was read from.
THEOREM DeliveryCorrect == Spec => []DeliveryAgrees
<1>1. Init => DeliveryAgrees
  <2> SUFFICES ASSUME Init PROVE DeliveryAgrees
    OBVIOUS
  <2>1. \A o \in Orders : orders[o].status \in {"PENDING", "FAILED"}
    BY DEF Init, NewOrder
  <2>2. QED
    BY <2>1 DEF DeliveryAgrees
<1>2. TypeOK /\ DeliveryAgrees /\ [Next]_vars => DeliveryAgrees'
  BY NextDelivery
<1>3. QED
  BY <1>1, <1>2, TypeCorrect, PTL DEF Spec
-----------------------------------------------------------------------------
(* A settlement is final: no late UPDATE writes an older state over it.    *)

\* The backend's own dispute, accepted on chain and not yet booked.
Disputing(r) == req[r].op = "dispute_escrow" /\ req[r].step \in {"wait", "write"}
                  /\ req[r].tx = "success"

\* The row, a handler or a transaction on its way knows that o was disputed.
AfterDispute(o) ==
  \/ KnowsDispute(orders[o])
  \/ \E r \in Requests : req[r].op \in ResolveFns /\ req[r].order = o
  \/ \E fn \in ResolveFns : <<o, fn>> \in late

\* A resolution starts only once a dispute is booked, so that an escrow cannot
\* settle between a dispute on chain and its UPDATE.
DisputeInv ==
  /\ \A o \in Orders : AfterDispute(o) =>
       "dispute_escrow" \in calls[o] /\ \A r \in Requests : Disputing(r) => req[r].order # o
  /\ \A r \in Requests :
       /\ Disputing(r) => EscrowState(calls[req[r].order]) = "DISPUTED"
       /\ req[r].op = "dispute_escrow" /\ req[r].step = "write" => req[r].tx = "success"
  /\ \A r, s \in Requests :
       Disputing(r) /\ Disputing(s) /\ req[r].order = req[s].order => r = s

SettledRows ==
  \A o \in Orders :
    orders[o].escrow_state \in {"RELEASED", "REFUNDED"}
      => orders[o].payment_status = orders[o].escrow_state

\* What a step adds to the transactions nobody waits for.
LEMMA LateStep ==
  ASSUME SafeHashes, PaymentInv, [Next]_vars,
         NEW o \in Orders, NEW fn \in ResolveFns, <<o, fn>> \in late'
  PROVE  \/ <<o, fn>> \in late
         \/ \E r \in Requests : req[r].op = fn /\ req[r].order = o
<1>1. ASSUME NEW r \in Requests, Abort(r), <<o, fn>> \notin late
      PROVE  req[r].op = fn /\ req[r].order = o
  BY <1>1 DEF Abort
<1>2. ASSUME NEW p \in Orders, NEW f \in Fns, WalletSubmit(p, f), <<o, fn>> \notin late
      PROVE  FALSE
  BY <1>2 DEF WalletSubmit, SafeHashes, ResolveFns, InsistOnSuccess
<1>3. ASSUME NEW p \in Orders, NEW f \in Fns, LandLate(p, f)
      PROVE  <<o, fn>> \in late
  BY <1>3 DEF LandLate
<1>4. QED
  BY <1>1, <1>2, <1>3 DEF Next, Start, StartFund, StartConfirmDelivery, StartRefund,
     StartDispute, StartResolve, StartUpdateStatus, StartPickupInspection, Progress,
     Submit, VerifyHash, Reject, Poll, Land, Write, WriteFund, WriteConfirmDelivery,
     WriteRefund, WriteDispute, WriteResolve, WriteUpdateStatus, WritePickupInspection,
     Log, InsertInspection, Credit, vars

\* A call that lands was sent by a handler for the order, or had been before.
LEMMA CallSource ==
  ASSUME PaymentInv, [Next]_vars, NEW o \in Orders, calls'[o] # calls[o]
  PROVE  \E fn \in Fns :
           /\ Accepts(fn, calls[o]) /\ calls'[o] = calls[o] \cup {fn}
           /\ \/ \E r \in Requests : req[r].op = fn /\ req[r].order = o
              \/ <<o, fn>> \in late
<1>1. TypeOK /\ OnContract
  BY DEF PaymentInv
<1>2. ASSUME NEW r \in Requests, Land(r)
      PROVE  /\ req[r].op \in Fns /\ req[r].order = o
             /\ Accepts(req[r].op, calls[o]) /\ calls'[o] = calls[o] \cup {req[r].op}
  <2>1. req[r].op \in Fns
    BY <1>1, <1>2 DEF Land, At, OnContract, ChainOps
  <2>2. QED
    BY <1>1, <1>2, <2>1 DEF Land, TypeOK, Request
<1>3. ASSUME NEW p \in Orders, NEW fn \in Fns, LandLate(p, fn)
      PROVE  /\ <<o, fn>> \in late
             /\ Accepts(fn, calls[o]) /\ calls'[o] = calls[o] \cup {fn}
  BY <1>1, <1>3 DEF LandLate, TypeOK
<1>4. QED
  BY <1>2, <1>3 DEF Next, Start, StartFund, StartConfirmDelivery, StartRefund,
     StartDispute, StartResolve, StartUpdateStatus, StartPickupInspection, Progress,
     Submit, VerifyHash, Reject, Poll, Write, WriteFund, WriteConfirmDelivery,
     WriteRefund, WriteDispute, WriteResolve, WriteUpdateStatus, WritePickupInspection,
     Log, InsertInspection, Credit, Abort, WalletSubmit, vars

NoDisputeHash == "dispute_escrow" \notin ConfirmedHash

\* A dispute is accepted on an escrow that was funded and not yet disputed.
LEMMA DisputeAccepted ==
  ASSUME NEW c \in SUBSET Fns, Accepts("dispute_escrow", c)
  PROVE  /\ "dispute_escrow" \notin c
         /\ EscrowState(c \cup {"dispute_escrow"}) = "DISPUTED"
<1>1. EscrowState(c) = "FUNDED"
  BY DEF Accepts, AcceptedIn, ResolveFns
<1>2. c \cap ReleaseFns = {} /\ c \cap RefundFns = {} /\ "dispute_escrow" \notin c
  BY <1>1 DEF EscrowState
<1>3. QED
  BY <1>2 DEF EscrowState, ReleaseFns, RefundFns

\* A dispute to be booked has been on its way, or has just been accepted.
LEMMA BecomesDisputing ==
  ASSUME NoDisputeHash, NEW r \in Requests, SlotMove(r), Disputing(r)'
  PROVE  /\ req'[r].order = req[r].order
         /\ \/ Disputing(r)
            \/ req'[r] # req[r] /\ Accepts("dispute_escrow", calls[req[r].order])
                /\ "dispute_escrow" \in calls'[req[r].order]
<1>1. req'[r].op = "dispute_escrow" /\ req'[r].step \in {"wait", "write"} /\ req'[r].tx = "success"
  BY DEF Disputing
<1>2. req'[r] = req[r] \/ Follows(req[r], req'[r])
  BY <1>1 DEF SlotMove, Starts, Ends
<1>3. CASE Follows(req[r], req'[r]) /\ req'[r] # req[r]
  BY <1>1, <1>3 DEF Follows, Lands, Disputing, NoDisputeHash, ChainOps, Fns, ResolveFns
<1>4. QED
  BY <1>1, <1>2, <1>3 DEF Disputing

\* What knows of a dispute learnt it from the handler that booked it.
LEMMA BecomesAfterDispute ==
  ASSUME SafeHashes, PaymentInv, DisputeInv, [Next]_vars, NEW o \in Orders, AfterDispute(o)'
  PROVE  \/ AfterDispute(o)
         \/ \E r \in Requests : Disputing(r) /\ req[r].order = o /\ ~Disputing(r)'
<1>1. CASE KnowsDispute(orders'[o])
  <2>1. CASE orders'[o] = orders[o]
    BY <1>1, <2>1 DEF AfterDispute
  <2>2. CASE orders'[o] # orders[o]
    <3>1. PICK r \in Requests : RowMove(r, o) /\ Write(r)
      BY <2>2, RowWrites DEF PaymentInv
    <3>2. CASE req[r].op = "dispute_escrow"
      <4>1. Disputing(r) /\ req[r].order = o
        BY <3>1, <3>2 DEF RowMove, DisputeInv, Disputing, At
      <4>2. req'[r].step = "log"
        BY <3>1, <3>2 DEF Write, WriteFund, WriteConfirmDelivery, WriteRefund,
           WriteDispute, WriteResolve, WriteUpdateStatus, WritePickupInspection,
           ResolveFns, Goto, PaymentInv, TypeOK, Request
      <4>3. QED
        BY <4>1, <4>2 DEF Disputing
    <3>3. CASE req[r].op # "dispute_escrow"
      BY <1>1, <3>1, <3>3 DEF RowMove, KnowsDispute, AfterDispute, ValidStatuses
    <3>4. QED
      BY <3>2, <3>3
  <2>3. QED
    BY <2>1, <2>2
<1>2. ASSUME NEW r \in Requests, req'[r].op \in ResolveFns, req'[r].order = o
      PROVE  AfterDispute(o)
  <2>1. SlotMove(r)
    BY SlotSteps
  <2>2. QED
    BY <1>2, <2>1 DEF SlotMove, Starts, Ends, Follows, AfterDispute, ResolveFns
<1>3. ASSUME NEW fn \in ResolveFns, <<o, fn>> \in late'
      PROVE  AfterDispute(o)
  BY <1>3, LateStep DEF AfterDispute
<1>4. QED
  BY <1>1, <1>2, <1>3 DEF AfterDispute

LEMMA NextDispute ==
  ASSUME SafeHashes, NoDisputeHash, PaymentInv, DoneOnChain, DisputeInv, [Next]_vars
  PROVE  DisputeInv'
<1>1. \A r \in Requests : SlotMove(r)
  BY SlotSteps
<1>2. \A o \in Orders : calls[o] \in SUBSET Fns /\ calls[o] \subseteq calls'[o]
  BY CallsGrow DEF PaymentInv, TypeOK
<1>3. \A r \in Requests : req[r].order \in Orders
  BY DEF PaymentInv, TypeOK, Request
<1>4. ASSUME NEW r \in Requests, Disputing(r)
      PROVE  "dispute_escrow" \in calls[req[r].order]
  BY <1>4 DEF Disputing, DoneOnChain
<1>5. ASSUME NEW r \in Requests, Disputing(r)'
      PROVE  /\ req'[r].order = req[r].order
             /\ \/ Disputing(r)
                \/ req'[r] # req[r] /\ "dispute_escrow" \notin calls[req[r].order]
  <2>1. /\ req'[r].order = req[r].order
        /\ \/ Disputing(r)
           \/ req'[r] # req[r] /\ Accepts("dispute_escrow", calls[req[r].order])
    BY <1>1, <1>5, BecomesDisputing
  <2>2. QED
    BY <1>2, <1>3, <2>1, DisputeAccepted
<1>6. ASSUME NEW o \in Orders, AfterDispute(o)'
      PROVE  /\ "dispute_escrow" \in calls'[o]
             /\ \A r \in Requests : Disputing(r)' => req'[r].order # o
  <2>1. CASE AfterDispute(o)
    <3>1. "dispute_escrow" \in calls[o] /\ \A r \in Requests : Disputing(r) => req[r].order # o
      BY <2>1 DEF DisputeInv
    <3>2. QED
      BY <1>2, <1>5, <3>1
  <2>2. ASSUME NEW r \in Requests, Disputing(r), req[r].order = o, ~Disputing(r)'
        PROVE  /\ "dispute_escrow" \in calls'[o]
               /\ \A s \in Requests : Disputing(s)' => req'[s].order # o
    <3>1. "dispute_escrow" \in calls[o]
      BY <1>4, <2>2
    <3>2. ASSUME NEW s \in Requests, Disputing(s)', req'[s].order = o
          PROVE  FALSE
      <4>1. req[s].order = o /\ Disputing(s)
        BY <1>5, <3>1, <3>2
      <4>2. r = s
        BY <2>2, <4>1 DEF DisputeInv
      <4>3. QED
        BY <2>2, <3>2, <4>2
    <3>3. QED
      BY <1>2, <3>1, <3>2
  <2>3. QED
    BY <1>6, <2>1, <2>2, BecomesAfterDispute
<1>7. ASSUME NEW r \in Requests, Disputing(r)'
      PROVE  EscrowState(calls'[req'[r].order]) = "DISPUTED"
  <2> DEFINE o == req[r].order
  <2>1. o \in Orders /\ req'[r].order = o
    BY <1>3, <1>5, <1>7
  <2>2. CASE Disputing(r)
    <3>1. EscrowState(calls[o]) = "DISPUTED" /\ ~AfterDispute(o)
      BY <2>1, <2>2 DEF DisputeInv
    <3>2. ASSUME calls'[o] # calls[o]
          PROVE  FALSE
      <4>1. PICK fn \in Fns :
              /\ Accepts(fn, calls[o])
              /\ (\E s \in Requests : req[s].op = fn /\ req[s].order = o) \/ <<o, fn>> \in late
        BY <2>1, <3>2, CallSource
      <4>2. fn \in ResolveFns
        BY <3>1, <4>1 DEF Accepts, AcceptedIn, Fns
      <4>3. QED
        BY <3>1, <4>1, <4>2 DEF AfterDispute
    <3>3. QED
      BY <2>1, <3>1, <3>2
  <2>3. CASE ~Disputing(r)
    <3>1. Accepts("dispute_escrow", calls[o]) /\ "dispute_escrow" \in calls'[o]
      BY <1>1, <1>7, <2>3, BecomesDisputing
    <3>2. /\ "dispute_escrow" \notin calls[o]
          /\ EscrowState(calls[o] \cup {"dispute_escrow"}) = "DISPUTED"
      BY <1>2, <2>1, <3>1, DisputeAccepted
    <3>3. PICK fn \in Fns : calls'[o] = calls[o] \cup {fn}
      BY <2>1, <3>1, <3>2, CallSource
    <3>4. fn = "dispute_escrow"
      BY <3>1, <3>2, <3>3
    <3>5. QED
      BY <2>1, <3>2, <3>3, <3>4
  <2>4. QED
    BY <2>2, <2>3
<1>8. ASSUME NEW r \in Requests, req'[r].op = "dispute_escrow", req'[r].step = "write"
      PROVE  req'[r].tx = "success"
  BY <1>1, <1>8 DEF SlotMove, Starts, Ends, Follows, DisputeInv, NoDisputeHash,
     ChainOps, Fns, ResolveFns
<1>9. ASSUME NEW r \in Requests, NEW s \in Requests, Disputing(r)', Disputing(s)',
             req'[r].order = req'[s].order
      PROVE  r = s
  <2>1. OneMoves
    BY SlotSteps
  <2>2. CASE Disputing(r)
    <3>1. Disputing(s)
      BY <1>4, <1>5, <1>9, <2>2
    <3>2. QED
      BY <1>5, <1>9, <2>2, <3>1 DEF DisputeInv
  <2>3. CASE ~Disputing(r)
    <3>1. ~Disputing(s)
      BY <1>4, <1>5, <1>9, <2>3
    <3>2. QED
      BY <1>5, <1>9, <2>1, <2>3, <3>1 DEF OneMoves
  <2>4. QED
    BY <2>2, <2>3
<1>10. QED
  BY <1>6, <1>7, <1>8, <1>9 DEF DisputeInv

LEMMA NextSettledRows ==
  ASSUME PaymentInv, SettledRows, [Next]_vars
  PROVE  SettledRows'
<1> SUFFICES ASSUME NEW o \in Orders, orders'[o] # orders[o],
                    orders'[o].escrow_state \in {"RELEASED", "REFUNDED"}
             PROVE  orders'[o].payment_status = orders'[o].escrow_state
  BY DEF SettledRows
<1>1. PICK r \in Requests : RowMove(r, o)
  BY RowSteps DEF PaymentInv
<1>2. QED
  BY <1>1 DEF RowMove, SettledRows

FinalInv == OrderInv /\ DisputeInv /\ SettledRows

LEMMA InitFinal == Init => FinalInv
<1> SUFFICES ASSUME Init PROVE FinalInv
  OBVIOUS
<1>1. \A r \in Requests : req[r].op = "update_status" /\ req[r].step = "idle" /\ req[r].tx = "none"
  BY DEF Init, Idle
<1>2. ASSUME NEW o \in Orders
      PROVE  /\ orders[o].status \in {"PENDING", "FAILED"}
             /\ orders[o].escrow_state \in {"CREATED", "FAILED", "NONE"}
  BY ConstantsAssumption DEF Init, NewOrder
<1>3. \A o \in Orders, fn \in ResolveFns : <<o, fn>> \notin late
  BY DEF Init, ResolveFns
<1>4. DisputeInv
  BY <1>1, <1>2, <1>3 DEF DisputeInv, AfterDispute, Disputing, KnowsDispute, ResolveFns
<1>5. SettledRows
  BY <1>2 DEF SettledRows
<1>6. QED
  BY <1>4, <1>5, InitOrder DEF FinalInv

\* No UPDATE of a settled row gives it another escrow state.
LEMMA SettledStays ==
  ASSUME FinalInv, [Next]_vars, NEW o \in Orders,
         orders[o].escrow_state \in {"RELEASED", "REFUNDED"}
  PROVE  orders'[o].escrow_state = orders[o].escrow_state
<1>1. CASE orders'[o] = orders[o]
  BY <1>1
<1>2. CASE orders'[o] # orders[o]
  <2>1. PICK r \in Requests : RowMove(r, o)
    BY <1>2, RowSteps DEF FinalInv, OrderInv, PaymentInv
  <2>2. req[r].order = o /\ req[r].step = "write"
    BY <2>1 DEF RowMove, At
  <2>3. /\ EscrowState(calls[o]) = orders[o].escrow_state
        /\ orders[o].payment_status = orders[o].escrow_state
    BY DEF FinalInv, OrderInv, EscrowStateAgrees, Reached, SettledRows
  <2>4. CASE req[r].op = "fund_escrow"
    BY <2>1, <2>3, <2>4 DEF RowMove, ReleaseFns, RefundFns, ChainOps, Fns
  <2>5. CASE req[r].op \in ReleaseFns \cup RefundFns
    <3>1. /\ req[r].op \in ReleaseFns => EscrowState(calls[o]) = "RELEASED"
          /\ req[r].op \in RefundFns => EscrowState(calls[o]) = "REFUNDED"
      BY <2>2 DEF FinalInv, OrderInv, PaymentInv, WritesBacked
    <3>2. QED
      BY <2>1, <2>3, <2>5, <3>1 DEF RowMove, ReleaseFns, RefundFns, ChainOps, Fns, ResolveFns
  <2>6. CASE req[r].op = "dispute_escrow"
    <3>1. Disputing(r)
      BY <2>2, <2>6 DEF FinalInv, DisputeInv, Disputing
    <3>2. EscrowState(calls[o]) = "DISPUTED"
      BY <2>2, <3>1 DEF FinalInv, DisputeInv
    <3>3. QED
      BY <2>3, <3>2
  <2>7. CASE req[r].op \notin ChainOps
    BY <2>1, <2>7 DEF RowMove, ReleaseFns, RefundFns, ChainOps, Fns, ResolveFns
  <2>8. QED
    BY <2>4, <2>5, <2>6, <2>7 DEF ReleaseFns, RefundFns, ChainOps, Fns, ResolveFns
<1>3. QED
  BY <1>1, <1>2

\* A settled order is never reopened, as long as disputes and, by SafeHashes, resolutions
\* are signed by the backend: a dispute is then booked before anybody can resolve it, and
\* only once.
THEOREM SettledForGood ==
  ASSUME SafeHashes, NoDisputeHash PROVE Spec => SettledStaysSettled
<1>1. FinalInv /\ [Next]_vars => FinalInv'
  BY NextOrder, NextDispute, NextSettledRows DEF FinalInv, OrderInv
<1>2. FinalInv /\ [Next]_vars =>
        [\A o \in Orders :
           orders[o].escrow_state \in {"RELEASED", "REFUNDED"}
             => orders'[o].escrow_state = orders[o].escrow_state]_vars
  BY SettledStays
<1>3. QED
  BY <1>1, <1>2, InitFinal, PTL DEF Spec, SettledStaysSettled

-----------------------------------------------------------------------------
(* Whatever hashes clients show.                                           *)

\* A handler that is past its contract call, and what a verified hash tells of it.
PastCall(q) ==
  q.tx = "success" \/ (q.step \in {"write", "log", "credit"} /\ q.op \in ChainOps)

Verified(q) == \E fn \in calls[q.order] : FunctionOf(fn) = FunctionOf(q.op)

\* The operations for which a client is believed without a transaction.
Unchecked == UnconfirmedHash \ InsistOnSuccess

HashInv ==
  /\ TypeOK /\ OnContract
  /\ \A r \in Requests :
       /\ PastCall(req[r]) /\ req[r].op \notin Unchecked => Verified(req[r])
       /\ req[r].step = "credit" => req[r].op \in ReleaseFns

\* Only the two resolutions are taken for each other.
LEMMA VerifiedCall ==
  ASSUME TypeOK, NEW q \in Request, Verified(q), q.op \in Fns
  PROVE  /\ q.op \notin ResolveFns => q.op \in calls[q.order]
         /\ q.op \in ResolveFns => calls[q.order] \cap ResolveFns # {}
<1>1. PICK fn \in calls[q.order] : FunctionOf(fn) = FunctionOf(q.op)
  BY DEF Verified
<1>2. fn \in Fns
  BY <1>1 DEF TypeOK, Request
<1>3. QED
  BY <1>1, <1>2 DEF FunctionOf, Fns, ResolveFns

LEMMA HashGoes ==
  ASSUME TypeOK, NEW r \in Requests, VerifyHash(r)
  PROVE  /\ Verified(req[r]) \/ req[r].op \in Unchecked
         /\ req'[r].op = req[r].op /\ req'[r].order = req[r].order
         /\ req'[r].step = "write" /\ UNCHANGED calls
         /\ \A p \in Requests \ {r} : req'[p] = req[p]
<1>1. req[r].order \in Orders /\ Goto(r, "write") /\ UNCHANGED calls
  BY DEF TypeOK, Request, VerifyHash
<1>2. ASSUME req[r].op \in ConfirmedHash,
             \E envelope \in OnLedger :
               verify_transaction_semantics(envelope, FunctionOf(req[r].op), req[r].order)
      PROVE  Verified(req[r])
  <2>1. req[r].op \in Fns
    BY <1>2, ConstantsAssumption DEF ChainOps
  <2>2. QED
    BY <1>1, <1>2, <2>1, ShownIsCall DEF Verified
<1>3. Verified(req[r]) \/ req[r].op \in Unchecked
  BY <1>2 DEF VerifyHash, Unchecked
<1>4. QED
  BY <1>1, <1>3, Moves DEF Steps

LEMMA NextHash == HashInv /\ [Next]_vars => HashInv'
<1> SUFFICES ASSUME HashInv, [Next]_vars PROVE HashInv'
  OBVIOUS
<1>1. TypeOK /\ OnContract /\ TypeOK' /\ OnContract'
  BY NextType, NextOnContract DEF HashInv
<1>2. \A o \in Orders : calls[o] \subseteq calls'[o]
  BY <1>1, CallsGrow
<1>3. \A r \in Requests : req[r].order \in Orders /\ req[r] \in Request
  BY <1>1 DEF TypeOK, Request
<1>4. ASSUME NEW r \in Requests, Verified(req[r]), req'[r].op = req[r].op,
             req'[r].order = req[r].order
      PROVE  Verified(req[r])'
  BY <1>2, <1>3, <1>4 DEF Verified
<1> DEFINE Good(r) ==
      /\ PastCall(req'[r]) /\ req'[r].op \notin Unchecked => Verified(req[r])'
      /\ req'[r].step = "credit" => req'[r].op \in ReleaseFns
<1>5. ASSUME NEW r \in Requests, req'[r] = req[r] PROVE Good(r)
  BY <1>4, <1>5 DEF HashInv
<1>6. ASSUME NEW r \in Requests, Starts(req'[r]) \/ Ends(req'[r]) PROVE Good(r)
  BY <1>6 DEF Starts, Ends, PastCall, ChainOps, Fns, ResolveFns
<1>7. ASSUME NEW r \in Requests, Follows(req[r], req'[r]) PROVE Good(r)
  <2>1. req'[r].op = req[r].op /\ req'[r].order = req[r].order
    BY <1>7 DEF Follows
  <2>2. CASE req'[r].step = "wait"
    <3>1. req'[r].tx = "success" => req'[r].op \in calls'[req'[r].order]
      BY <1>7, <2>2 DEF Follows, Lands
    <3>2. QED
      BY <2>2, <3>1 DEF PastCall, Verified
  <2>3. CASE PastCall(req[r])
    BY <1>4, <1>7, <2>1, <2>3 DEF HashInv, Follows
  <2>4. CASE req[r].op \in calls[req[r].order] /\ req'[r].step = "write"
    BY <1>4, <2>1, <2>4 DEF Verified
  <2>5. CASE ~PastCall(req'[r])
    BY <1>7, <2>5 DEF Follows
  <2>6. QED
    BY <1>7, <2>2, <2>3, <2>4, <2>5
       DEF Follows, PastCall, ReleaseFns, ResolveFns, ChainOps, Fns
<1>8. ASSUME NEW r \in Requests, VerifyHash(r) PROVE \A p \in Requests : Good(p)
  <2>1. Good(r)
    BY <1>1, <1>4, <1>8, HashGoes
  <2>2. QED
    BY <1>1, <1>5, <1>8, <2>1, HashGoes
<1>9. \A r \in Requests : Good(r)
  BY <1>1, <1>5, <1>6, <1>7, <1>8, SlotStepsButHash DEF SlotMove
<1>10. QED
  BY <1>1, <1>9 DEF HashInv

LEMMA InitHash == Init => HashInv
BY InitType, InitOnContract DEF Init, HashInv, PastCall, Idle, ChainOps, Fns, ResolveFns

\* A handler that acts on a row that knows of money acts on a funded escrow.
FundInv ==
  /\ HashInv /\ FundedBeforeAll
  /\ \A r \in Requests :
       req[r].op \in AfterFunding => "fund_escrow" \in calls[req[r].order]

\* A handler at work on the contract has its call in the escrow, unless the client
\* was believed.
LEMMA HashCall ==
  ASSUME HashInv, NEW r \in Requests, req[r].step \in {"write", "log", "credit"},
         req[r].op \in ChainOps \ Unchecked
  PROVE  /\ req[r].op \notin ResolveFns => req[r].op \in calls[req[r].order]
         /\ req[r].op \in ResolveFns => calls[req[r].order] \cap ResolveFns # {}
<1>1. TypeOK /\ req[r] \in Request /\ req[r].op \in Fns /\ Verified(req[r])
  BY DEF HashInv, PastCall, TypeOK, ChainOps
<1>2. QED
  BY <1>1, VerifiedCall

LEMMA NextFund == FundInv /\ [Next]_vars => FundInv'
<1> SUFFICES ASSUME FundInv, [Next]_vars PROVE FundInv'
  OBVIOUS
<1>1. HashInv /\ HashInv' /\ TypeOK /\ OnContract
  BY NextHash DEF FundInv, HashInv
<1>2. \A o \in Orders : calls[o] \subseteq calls'[o]
  BY <1>1, CallsGrow
<1>3. \A r \in Requests : req[r].order \in Orders /\ req'[r].order \in Orders
  BY <1>1 DEF HashInv, TypeOK, Request
<1>4. ASSUME NEW r \in Requests, req'[r].op \in AfterFunding
      PROVE  "fund_escrow" \in calls'[req'[r].order]
  <2>1. CASE req'[r].op = req[r].op /\ req'[r].order = req[r].order
    BY <1>2, <1>3, <1>4, <2>1 DEF FundInv
  <2>2. CASE Starts(req'[r])
    BY <1>2, <1>3, <1>4, <2>2 DEF Starts, FundInv, FundedBeforeAll
  <2>3. CASE Ends(req'[r])
    BY <1>4, <2>3 DEF Ends, AfterFunding, ReleaseFns, ResolveFns
  <2>4. ASSUME NEW p \in Requests, VerifyHash(p)
        PROVE  req'[r].op = req[r].op /\ req'[r].order = req[r].order
    BY <1>1, <2>4, HashGoes
  <2>5. QED
    BY <1>1, <2>1, <2>2, <2>3, <2>4, SlotStepsButHash DEF SlotMove, Follows
<1>5. ASSUME NEW r \in Requests, req[r].step \in {"write", "log", "credit"},
             req[r].op = "fund_escrow" \/ req[r].op \in AfterFunding
      PROVE  "fund_escrow" \in calls[req[r].order]
  <2>1. CASE req[r].op = "fund_escrow"
    BY <1>1, <1>5, <2>1, HashCall
       DEF Unchecked, InsistOnSuccess, ChainOps, Fns, ResolveFns
  <2>2. QED
    BY <1>5, <2>1 DEF FundInv
<1>6. ASSUME NEW o \in Orders,
             \/ KnowsFunding(orders'[o])
             \/ {"funding_tx_hash", "release_tx_hash"} \cap orders'[o].tx_hashes # {}
             \/ "PAYMENT_PROTECTED" \in history'[o] \/ credits'[o] # 0
      PROVE  "fund_escrow" \in calls'[o]
  <2> SUFFICES ASSUME "fund_escrow" \notin calls[o] PROVE FALSE
    BY <1>2
  <2>1. /\ ~KnowsFunding(orders[o]) /\ "PAYMENT_PROTECTED" \notin history[o]
        /\ {"funding_tx_hash", "release_tx_hash"} \cap orders[o].tx_hashes = {}
        /\ credits[o] = 0
    BY DEF FundInv, FundedBeforeAll
  <2>2. CASE orders'[o] # orders[o] /\ (KnowsFunding(orders'[o])
               \/ {"funding_tx_hash", "release_tx_hash"} \cap orders'[o].tx_hashes # {})
    <3>1. PICK r \in Requests : RowMove(r, o)
      BY <1>1, <2>2, RowSteps
    <3>2. /\ req[r].step = "write" /\ req[r].order = o
          /\ req[r].op # "fund_escrow" /\ req[r].op \notin AfterFunding
      BY <1>5, <3>1 DEF RowMove, At
    <3>3. QED
      BY <2>1, <2>2, <3>1, <3>2
         DEF RowMove, KnowsFunding, AfterFunding, ValidStatuses
  <2>3. CASE "PAYMENT_PROTECTED" \in history'[o]
    <3>1. PICK r \in Requests : /\ req[r].step = "log" /\ req[r].order = o
                                 /\ EventOf(req[r]) = "PAYMENT_PROTECTED"
      BY <1>1, <2>1, <2>3, AuditStep DEF At
    <3>2. req[r] \in Request
      BY <1>1 DEF TypeOK
    <3>3. req[r].op = "fund_escrow"
      BY <3>1, <3>2 DEF EventOf, Request, Ops, ChainOps, Fns, ResolveFns, ValidStatuses
    <3>4. QED
      BY <1>5, <3>1, <3>3
  <2>4. CASE credits'[o] # 0
    <3>1. PICK r \in Requests : req[r].step = "credit" /\ req[r].order = o
      BY <1>1, <2>1, <2>4, CreditStep DEF At
    <3>2. QED
      BY <1>1, <1>5, <3>1 DEF HashInv, AfterFunding
  <2>5. QED
    BY <1>6, <2>1, <2>2, <2>3, <2>4
<1>7. QED
  BY <1>1, <1>4, <1>6 DEF FundInv, FundedBeforeAll

\* Whatever transactions clients show, of any escrow, function or outcome: no row,
\* audit trail or credit knows of money that was not locked on chain before.
THEOREM FundedFirst == Spec => []FundedBeforeAll
<1>1. Init => FundInv
  <2> SUFFICES ASSUME Init PROVE FundInv
    OBVIOUS
  <2>1. \A o \in Orders : \E e \in Placements : orders[o] = NewOrder(e)
    BY DEF Init
  <2>2. FundedBeforeAll
    BY <2>1, ConstantsAssumption DEF Init, FundedBeforeAll, NewOrder, KnowsFunding
  <2>3. QED
    BY <2>2, InitHash DEF Init, FundInv, Idle, AfterFunding, ReleaseFns, ResolveFns
<1>2. FundInv => FundedBeforeAll
  BY DEF FundInv
<1>3. QED
  BY <1>1, <1>2, NextFund, PTL DEF Spec

\* No handler drops the status of an unconfirmed transaction a client shows.
HashesSucceeded == UnconfirmedHash \subseteq InsistOnSuccess

LEMMA SettledByPayout ==
  ASSUME NEW c \in SUBSET Fns
  PROVE  EscrowState(c) \in {"RELEASED", "REFUNDED"} <=> c \cap (ReleaseFns \cup RefundFns) # {}
BY DEF EscrowState

LEMMA NextEither ==
  HashesSucceeded /\ HashInv /\ SettledEitherWay /\ [Next]_vars => SettledEitherWay'
<1> SUFFICES ASSUME HashesSucceeded, HashInv, SettledEitherWay, [Next]_vars, NEW o \in Orders
             PROVE  LET Recorded(event, fns) == event \in history'[o] => calls'[o] \cap fns # {} IN
                    /\ \/ orders'[o].payment_status \in {"RELEASED", "REFUNDED"} \/ credits'[o] # 0
                       => EscrowState(calls'[o]) \in {"RELEASED", "REFUNDED"}
                    /\ orders'[o].escrow_state = "DISPUTED" => "dispute_escrow" \in calls'[o]
                    /\ Recorded("ORDER_REFUNDED", {"refund_escrow"})
                    /\ Recorded("ORDER_DISPUTED", {"dispute_escrow"})
                    /\ Recorded("DISPUTE_RESOLVED_RELEASED", ResolveFns)
                    /\ Recorded("DISPUTE_RESOLVED_REFUNDED", ResolveFns)
  BY DEF SettledEitherWay
<1>1. TypeOK /\ OnContract /\ TypeOK'
  BY NextHash DEF HashInv
<1>2. calls[o] \subseteq calls'[o] /\ calls[o] \in SUBSET Fns /\ calls'[o] \in SUBSET Fns
  BY <1>1, CallsGrow DEF TypeOK
<1>3. Unchecked = {}
  BY DEF Unchecked, HashesSucceeded
<1>4. ASSUME NEW r \in Requests, req[r].order = o, req[r].op \in ChainOps,
             req[r].step \in {"write", "log", "credit"}
      PROVE  /\ req[r].op \in ReleaseFns \cup RefundFns
                  => calls[o] \cap (ReleaseFns \cup RefundFns) # {}
             /\ req[r].op \notin ResolveFns => req[r].op \in calls[o]
             /\ req[r].op \in ResolveFns => calls[o] \cap ResolveFns # {}
  BY <1>3, <1>4, HashCall DEF ReleaseFns, RefundFns, ResolveFns
<1>5. ReleaseFns \cup RefundFns \subseteq ChainOps /\ "dispute_escrow" \in ChainOps
      /\ ChainOps \subseteq Fns
  BY DEF ReleaseFns, RefundFns, ChainOps, Fns, ResolveFns
<1>6. orders'[o].payment_status \in {"RELEASED", "REFUNDED"} =>
        calls[o] \cap (ReleaseFns \cup RefundFns) # {}
  <2> SUFFICES ASSUME orders'[o].payment_status \in {"RELEASED", "REFUNDED"}
               PROVE  calls[o] \cap (ReleaseFns \cup RefundFns) # {}
    OBVIOUS
  <2>1. CASE orders[o].payment_status \in {"RELEASED", "REFUNDED"}
    BY <1>2, <2>1, SettledByPayout DEF SettledEitherWay
  <2>2. CASE orders[o].payment_status \notin {"RELEASED", "REFUNDED"}
    <3>1. PICK r \in Requests : RowMove(r, o)
      BY <1>1, <2>2, RowSteps
    <3>2. req[r].op \in ReleaseFns \cup RefundFns
      BY <2>2, <3>1 DEF RowMove
    <3>3. QED
      BY <1>4, <1>5, <3>1, <3>2 DEF RowMove, At
  <2>3. QED
    BY <2>1, <2>2
<1>7. credits'[o] # 0 => calls[o] \cap (ReleaseFns \cup RefundFns) # {}
  <2>1. CASE credits[o] # 0
    BY <1>2, <2>1, SettledByPayout DEF SettledEitherWay
  <2>2. ASSUME credits[o] = 0, credits'[o] # 0
        PROVE  calls[o] \cap (ReleaseFns \cup RefundFns) # {}
    <3>1. PICK r \in Requests : req[r].step = "credit" /\ req[r].order = o
      BY <1>1, <2>2, CreditStep DEF At
    <3>2. QED
      BY <1>4, <1>5, <3>1 DEF HashInv
  <2>3. QED
    BY <2>1, <2>2
<1>8. orders'[o].escrow_state = "DISPUTED" => "dispute_escrow" \in calls[o]
  <2>1. CASE orders'[o] = orders[o]
    BY <2>1 DEF SettledEitherWay
  <2>2. CASE orders'[o] # orders[o]
    <3>1. PICK r \in Requests : RowMove(r, o)
      BY <1>1, <2>2, RowSteps
    <3>2. CASE req[r].op = "dispute_escrow"
      BY <1>4, <1>5, <3>1, <3>2 DEF RowMove, At, ResolveFns
    <3>3. CASE req[r].op # "dispute_escrow"
      BY <3>1, <3>3 DEF RowMove, SettledEitherWay
    <3>4. QED
      BY <3>2, <3>3
  <2>3. QED
    BY <2>1, <2>2
<1>9. ASSUME NEW event, NEW fns, NEW ops \in SUBSET ChainOps,
             event # "PRODUCT_INSPECTED", event \in history'[o],
             event \in history[o] => calls[o] \cap fns # {},
             \A q \in Request : EventOf(q) = event => q.op \in ops,
             \/ ops \subseteq fns /\ ops \cap ResolveFns = {}
             \/ ops \subseteq ResolveFns /\ fns = ResolveFns
      PROVE  calls'[o] \cap fns # {}
  <2>1. CASE event \notin history[o]
    <3>1. PICK r \in Requests : /\ req[r].step = "log" /\ req[r].order = o
                                 /\ event = EventOf(req[r])
      BY <1>1, <1>9, <2>1, AuditStep DEF At
    <3>2. req[r].op \in ops
      BY <1>1, <1>9, <3>1 DEF TypeOK
    <3>3. calls[o] \cap fns # {}
      BY <1>4, <1>9, <3>1, <3>2
    <3>4. QED
      BY <1>2, <3>3
  <2>2. QED
    BY <1>2, <1>9, <2>1
<1>10. \A q \in Request :
         /\ EventOf(q) = "ORDER_REFUNDED" => q.op \in {"refund_escrow"}
         /\ EventOf(q) = "ORDER_DISPUTED" => q.op \in {"dispute_escrow"}
         /\ EventOf(q) = "DISPUTE_RESOLVED_RELEASED" => q.op \in {"resolve_release"}
         /\ EventOf(q) = "DISPUTE_RESOLVED_REFUNDED" => q.op \in {"resolve_refund"}
  <2>1. \A q \in Request :
          /\ q.op \in {"fund_escrow", "release_escrow", "refund_escrow", "dispute_escrow",
                "resolve_release", "resolve_refund", "pickup_inspection", "update_status"}
          /\ q.asked \in ValidStatuses
    BY DEF Request, Ops, ChainOps, Fns, ResolveFns
  <2>2. QED
    BY <2>1 DEF EventOf, ValidStatuses
<1>11. /\ {"refund_escrow"} \in SUBSET ChainOps /\ {"dispute_escrow"} \in SUBSET ChainOps
       /\ {"resolve_release"} \in SUBSET ChainOps /\ {"resolve_refund"} \in SUBSET ChainOps
  BY DEF ChainOps, Fns, ResolveFns
<1>12. "ORDER_REFUNDED" \in history'[o] => calls'[o] \cap {"refund_escrow"} # {}
  <2>1. "ORDER_REFUNDED" \in history[o] => calls[o] \cap {"refund_escrow"} # {}
    BY DEF SettledEitherWay
  <2>2. {"refund_escrow"} \cap ResolveFns = {}
    BY DEF ResolveFns
  <2>3. QED
    BY <1>9, <1>10, <1>11, <2>1, <2>2
<1>13. "ORDER_DISPUTED" \in history'[o] => calls'[o] \cap {"dispute_escrow"} # {}
  <2>1. "ORDER_DISPUTED" \in history[o] => calls[o] \cap {"dispute_escrow"} # {}
    BY DEF SettledEitherWay
  <2>2. {"dispute_escrow"} \cap ResolveFns = {}
    BY DEF ResolveFns
  <2>3. QED
    BY <1>9, <1>10, <1>11, <2>1, <2>2
<1>14. "DISPUTE_RESOLVED_RELEASED" \in history'[o] => calls'[o] \cap ResolveFns # {}
  <2>1. "DISPUTE_RESOLVED_RELEASED" \in history[o] => calls[o] \cap ResolveFns # {}
    BY DEF SettledEitherWay
  <2>2. {"resolve_release"} \subseteq ResolveFns
    BY DEF ResolveFns
  <2>3. QED
    BY <1>9, <1>10, <1>11, <2>1, <2>2
<1>15. "DISPUTE_RESOLVED_REFUNDED" \in history'[o] => calls'[o] \cap ResolveFns # {}
  <2>1. "DISPUTE_RESOLVED_REFUNDED" \in history[o] => calls[o] \cap ResolveFns # {}
    BY DEF SettledEitherWay
  <2>2. {"resolve_refund"} \subseteq ResolveFns
    BY DEF ResolveFns
  <2>3. QED
    BY <1>9, <1>10, <1>11, <2>1, <2>2
<1>16. QED
  BY <1>2, <1>6, <1>7, <1>8, <1>12, <1>13, <1>14, <1>15, SettledByPayout

\* As long as every hash a client is believed for is of a transaction that succeeded,
\* an order reported as settled, credited or disputed is so on chain; a resolution
\* shown by hash may be the other one, which is all that SafeHashes excludes besides.
THEOREM SettledOneWay == ASSUME HashesSucceeded PROVE Spec => []SettledEitherWay
<1>1. Init => SettledEitherWay
  <2> SUFFICES ASSUME Init PROVE SettledEitherWay
    OBVIOUS
  <2>1. \A o \in Orders : \E e \in Placements : orders[o] = NewOrder(e)
    BY DEF Init
  <2>2. QED
    BY <2>1, ConstantsAssumption DEF Init, SettledEitherWay, NewOrder
<1>2. HashInv /\ SettledEitherWay /\ [Next]_vars => SettledEitherWay'
  BY NextEither
<1>3. QED
  BY <1>1, <1>2, InitHash, NextHash, PTL DEF Spec

-----------------------------------------------------------------------------
(* Without interruptions nothing is left half done.                        *)

Shown == ConfirmedHash \cup UnconfirmedHash

\* What lands although nobody waits for it was left by the placement, or is a
\* client's.
LateIsShown == faults = 0 => \A o \in Orders, fn \in Fns :
                 <<o, fn>> \in late => fn \in Shown \cup {"create_escrow"}

LEMMA NextLate ==
  ASSUME TypeOK, TypeOK', LateIsShown, [Next]_vars
  PROVE  LateIsShown' /\ (faults' = 0 => faults = 0)
<1> USE ConstantsAssumption DEF LateIsShown, TypeOK
<1>1. ASSUME NEW r \in Requests, Abort(r) PROVE faults' # 0
  BY <1>1 DEF Abort
<1>2. ASSUME NEW o \in Orders, NEW fn \in Fns, LandLate(o, fn) \/ WalletSubmit(o, fn)
      PROVE  LateIsShown' /\ UNCHANGED faults
  BY <1>2 DEF LandLate, WalletSubmit, Shown
<1>3. CASE UNCHANGED <<late, faults>>
  BY <1>3
<1>4. QED
  BY <1>1, <1>2, <1>3 DEF Next, Start, StartFund, StartConfirmDelivery, StartRefund,
     StartDispute, StartResolve, StartUpdateStatus, StartPickupInspection, Progress,
     Submit, VerifyHash, Reject, Poll, Land, Write, WriteFund, WriteConfirmDelivery,
     WriteRefund, WriteDispute, WriteResolve, WriteUpdateStatus, WritePickupInspection,
     Log, InsertInspection, Credit, vars

\* A slot changes by an action of its own.
LEMMA Mover ==
  ASSUME TypeOK, [Next]_vars, NEW r \in Requests, req'[r] # req[r]
  PROVE  (\E o \in Orders : Start(r, o)) \/ Progress(r) \/ Land(r) \/ Abort(r)
<1> SUFFICES ASSUME NEW s \in Requests \ {r},
                    (\E o \in Orders : Start(s, o)) \/ Progress(s) \/ Land(s) \/ Abort(s)
             PROVE  req'[r] = req[r]
  BY DEF Next, LandLate, WalletSubmit, vars
<1>1. CASE \E o \in Orders : Start(s, o)
  BY <1>1, StartMoves
<1>2. ASSUME (\E step \in Steps : Goto(s, step)) \/ End(s) PROVE req'[r] = req[r]
  BY <1>2, Moves, Stops
<1>3. CASE Submit(s) \/ Land(s)
  BY <1>3 DEF Submit, Land, TypeOK
<1>4. CASE (Progress(s) \/ Abort(s)) /\ ~Submit(s)
  BY <1>2, <1>4 DEF Progress, Write, WriteFund, WriteConfirmDelivery, WriteRefund,
     WriteDispute, WriteResolve, WriteUpdateStatus, WritePickupInspection,
     VerifyHash, Reject, Poll, AfterPoll, Log, InsertInspection, Credit, Abort, Steps
<1>5. QED
  BY <1>1, <1>3, <1>4

\* The UPDATE of a call leaves a row that has it, even if its WHERE clause finds
\* that the row has moved on.
LEMMA WriteIsBooked ==
  ASSUME TypeOK, NEW r \in Requests, Write(r), req[r].op \in ChainOps \ {"release_escrow"}
  PROVE  Booked(orders'[req[r].order], req[r].op)
<1>1. req[r].order \in Orders /\ Row(r) = orders[req[r].order] /\ Row(r) \in Order
  BY DEF TypeOK, Request, Row
<1>2. \A row : Update(r, row) => orders'[req[r].order] = row
  BY <1>1 DEF Update, TypeOK
<1>3. \A status, pay, column :
        Settled(Row(r), status, pay, column).payment_status = pay
  BY <1>1 DEF Settled, Order
<1> USE DEF Booked, ResolveFns, RefundFns, ChainOps, Fns
<1>4. CASE WriteFund(r)
  <2>1. CASE FundMatches(Row(r))
    BY <1>1, <1>2, <1>4, <2>1 DEF WriteFund, Order
  <2>2. CASE ~FundMatches(Row(r))
    BY <1>1, <1>4, <2>2 DEF WriteFund, FundMatches
  <2>3. QED
    BY <2>1, <2>2
<1>5. CASE WriteRefund(r)
  BY <1>2, <1>3, <1>5 DEF WriteRefund
<1>6. CASE WriteDispute(r)
  BY <1>1, <1>2, <1>6 DEF WriteDispute, Order
<1>7. CASE WriteResolve(r)
  <2>1. req[r].op \in {"resolve_release", "resolve_refund"}
    BY <1>7 DEF WriteResolve
  <2>2. CASE req[r].op = "resolve_release"
    BY <1>2, <1>3, <1>7, <2>2 DEF WriteResolve
  <2>3. CASE req[r].op = "resolve_refund"
    BY <1>2, <1>3, <1>7, <2>3 DEF WriteResolve
  <2>4. QED
    BY <2>1, <2>2, <2>3
<1>8. QED
  BY <1>4, <1>5, <1>6, <1>7
     DEF Write, WriteConfirmDelivery, WriteUpdateStatus, WritePickupInspection

\* What is in the row stays there.
LEMMA BookedStays ==
  ASSUME OrderInv, SettledRows, [Next]_vars, NEW o \in Orders,
         NEW fn \in ChainOps \ {"release_escrow"}, Booked(orders[o], fn)
  PROVE  Booked(orders'[o], fn)
<1> DEFINE pay == orders[o].payment_status
           new == orders'[o].payment_status
<1>1. pay \in PaymentStatuses /\ (new # pay => new \in Abstract!MayFollow(pay))
  BY ReportsTrue DEF OrderInv, PaymentInv, TypeOK, Order
<1>2. CASE fn # "dispute_escrow"
  <2>1. fn \in {"fund_escrow", "resolve_release"} \cup RefundFns
    BY <1>2 DEF ChainOps, Fns, ResolveFns, RefundFns
  <2>2. pay # "PENDING" => new # "PENDING"
    BY <1>1 DEF Abstract!MayFollow, PaymentStatuses
  <2>3. pay \in {"RELEASED", "REFUNDED"} => new = pay
    BY <1>1 DEF Abstract!MayFollow, PaymentStatuses
  <2>4. QED
    BY <2>1, <2>2, <2>3 DEF Booked, RefundFns
<1>3. CASE fn = "dispute_escrow"
  <2>1. orders[o].escrow_state \in {"DISPUTED", "RELEASED", "REFUNDED"}
    BY <1>3 DEF Booked, RefundFns
  <2>2. CASE orders'[o] # orders[o]
    <3>1. PICK r \in Requests : RowMove(r, o)
      BY <2>2, RowSteps DEF OrderInv, PaymentInv
    <3>2. pay # "PENDING"
      <4>1. orders[o].escrow_state = "DISPUTED" => pay # "PENDING"
        BY DEF OrderInv, ColumnsAgree, KnowsFunding
      <4>2. orders[o].escrow_state \in {"RELEASED", "REFUNDED"} => pay # "PENDING"
        BY DEF SettledRows
      <4>3. QED
        BY <2>1, <4>1, <4>2
    <3>3. QED
      BY <1>3, <2>1, <3>1, <3>2 DEF RowMove, Booked, RefundFns
  <2>3. QED
    BY <2>1, <2>2, <1>3 DEF Booked
<1>4. QED
  BY <1>2, <1>3

\* A handler that is to book a call keeps on to it, unless it is stopped.
LEMMA BookingGoesOn ==
  ASSUME OrderInv, TypeOK', [Next]_vars, faults' = 0, NEW r \in Requests, Booking(r),
         req[r].op \in ChainOps \ {"release_escrow"}
  PROVE  \/ Booked(orders'[req[r].order], req[r].op)
         \/ Booking(r)' /\ req'[r].op = req[r].op /\ req'[r].order = req[r].order
<1>1. TypeOK /\ OnContract /\ faults \in Nat
  BY ConstantsAssumption DEF OrderInv, PaymentInv, TypeOK
<1>2. CASE req'[r] = req[r]
  BY <1>2 DEF Booking, At
<1>3. CASE Poll(r)
  BY <1>1, <1>3, Moves DEF Poll, AfterPoll, Booking, At, Steps
<1>4. CASE Write(r)
  BY <1>1, <1>4, WriteIsBooked
<1>5. ASSUME Abort(r) PROVE FALSE
  BY <1>1, <1>5 DEF Abort
<1>6. ASSUME (\E o \in Orders : Start(r, o)) \/ Land(r) \/ (Progress(r) /\ ~Poll(r) /\ ~Write(r))
      PROVE  FALSE
  BY <1>6 DEF Start, StartFund, StartConfirmDelivery, StartRefund, StartDispute,
     StartResolve, StartUpdateStatus, StartPickupInspection, Progress, Submit,
     VerifyHash, Reject, Land, Log, InsertInspection, Credit, Booking, At
<1>7. QED
  BY <1>1, <1>2, <1>3, <1>4, <1>5, <1>6, Mover

\* A call that succeeds is booked by the handler that waits for it.
LEMMA LandedIsBooking ==
  ASSUME TypeOK, OnContract, LateIsShown, faults = 0, [Next]_vars, NEW o \in Orders,
         NEW fn \in BookedCalls, fn \in calls'[o], fn \notin calls[o]
  PROVE  \E r \in Requests : Booking(r)' /\ req'[r].op = fn /\ req'[r].order = o
<1>1. ASSUME NEW r \in Requests, Land(r)
      PROVE  Booking(r)' /\ req'[r].op = fn /\ req'[r].order = o
  BY <1>1 DEF Land, At, TypeOK, Request, Booking
<1>2. ASSUME NEW p \in Orders, NEW f \in Fns, LandLate(p, f) PROVE FALSE
  <2>1. p = o /\ f = fn
    BY <1>2 DEF LandLate, TypeOK
  <2>2. QED
    BY <1>2, <2>1 DEF LandLate, LateIsShown, Shown, BookedCalls, ChainOps
<1>3. QED
  BY <1>1, <1>2 DEF Next, Start, StartFund, StartConfirmDelivery, StartRefund,
     StartDispute, StartResolve, StartUpdateStatus, StartPickupInspection, Progress,
     Submit, VerifyHash, Reject, Poll, Write, WriteFund, WriteConfirmDelivery,
     WriteRefund, WriteDispute, WriteResolve, WriteUpdateStatus, WritePickupInspection,
     Log, InsertInspection, Credit, Abort, WalletSubmit, vars

\* A released payment is on its way to the credit, from its UPDATE on.
LEMMA CreditingGoesOn ==
  ASSUME OrderInv, OrderInv', [Next]_vars, faults' = 0, NEW o \in Orders,
         NEW r \in Requests, Crediting(r), req[r].order = o
  PROVE  credits'[o] = 1 \/ (Crediting(r)' /\ req'[r].order = o)
<1>1. TypeOK /\ OnContract /\ faults \in Nat
  BY ConstantsAssumption DEF OrderInv, PaymentInv, TypeOK
<1>2. CASE req'[r] = req[r]
  BY <1>2 DEF Crediting
<1>3. CASE Log(r)
  BY <1>1, <1>3, Moves DEF Log, CreditedOps, Crediting, Steps
<1>4. CASE Credit(r)
  <2>1. credits[o] = 0
    BY DEF OrderInv, CreditInv, Settling
  <2>2. QED
    BY <1>1, <1>4, <2>1 DEF Credit, TypeOK
<1>5. ASSUME Abort(r) PROVE FALSE
  BY <1>1, <1>5 DEF Abort
<1>6. ASSUME (\E p \in Orders : Start(r, p)) \/ Land(r) \/ (Progress(r) /\ ~Log(r) /\ ~Credit(r))
      PROVE  FALSE
  BY <1>6 DEF Start, StartFund, StartConfirmDelivery, StartRefund, StartDispute,
     StartResolve, StartUpdateStatus, StartPickupInspection, Progress, Submit,
     VerifyHash, Reject, Poll, Write, WriteFund, WriteConfirmDelivery, WriteRefund,
     WriteDispute, WriteResolve, WriteUpdateStatus, WritePickupInspection, Land,
     InsertInspection, Crediting, At
<1>7. QED
  BY <1>1, <1>2, <1>3, <1>4, <1>5, <1>6, Mover

LEMMA ReleaseIsCrediting ==
  ASSUME OrderInv, [Next]_vars, NEW o \in Orders,
         orders[o].payment_status # "RELEASED", orders'[o].payment_status = "RELEASED"
  PROVE  \E r \in Requests : Crediting(r)' /\ req'[r].order = o
<1>1. TypeOK
  BY DEF OrderInv, PaymentInv
<1>2. PICK r \in Requests : RowMove(r, o) /\ Write(r)
  BY <1>1, RowWrites
<1>3. req[r].order = o /\ req[r].op \in ReleaseFns
  BY <1>2 DEF RowMove
<1>4. Goto(r, "log")
  BY <1>1, <1>2, <1>3 DEF Write, WriteFund, WriteConfirmDelivery, WriteRefund, WriteDispute,
     WriteResolve, WriteUpdateStatus, WritePickupInspection, ReleaseFns, ResolveFns
<1>5. QED
  BY <1>1, <1>3, <1>4, Moves DEF Crediting, Steps

KeepsInv == OrderInv /\ SettledRows /\ LateIsShown /\ NothingForgotten

LEMMA NextForgotten ==
  ASSUME KeepsInv, OrderInv', [Next]_vars
  PROVE  NothingForgotten'
<1>1. /\ TypeOK /\ OnContract /\ TypeOK'
      /\ OrderInv /\ SettledRows /\ LateIsShown /\ NothingForgotten
  BY DEF KeepsInv, OrderInv, PaymentInv
<1> SUFFICES ASSUME faults' = 0, NEW o \in Orders
             PROVE  /\ \A fn \in calls'[o] \cap BookedCalls :
                         \/ Booked(orders'[o], fn)
                         \/ \E r \in Requests : Booking(r)' /\ req'[r].op = fn /\ req'[r].order = o
                    /\ orders'[o].payment_status = "RELEASED" =>
                         \/ credits'[o] = 1
                         \/ \E r \in Requests : Crediting(r)' /\ req'[r].order = o
  BY DEF NothingForgotten
<1>2. faults = 0
  BY <1>1, NextLate
<1>3. ASSUME NEW fn \in BookedCalls, fn \in calls'[o]
      PROVE  \/ Booked(orders'[o], fn)
             \/ \E r \in Requests : Booking(r)' /\ req'[r].op = fn /\ req'[r].order = o
  <2>1. fn \in ChainOps \ {"release_escrow"}
    BY DEF BookedCalls
  <2>2. CASE fn \notin calls[o]
    BY <1>1, <1>2, <1>3, <2>2, LandedIsBooking
  <2>3. CASE Booked(orders[o], fn)
    BY <1>1, <2>1, <2>3, BookedStays
  <2>4. ASSUME NEW r \in Requests, Booking(r), req[r].op = fn, req[r].order = o
        PROVE  Booked(orders'[o], fn) \/ (Booking(r)' /\ req'[r].op = fn /\ req'[r].order = o)
    BY <1>1, <2>1, <2>4, BookingGoesOn
  <2>5. QED
    BY <1>1, <1>2, <2>2, <2>3, <2>4 DEF NothingForgotten
<1>4. ASSUME orders'[o].payment_status = "RELEASED"
      PROVE  \/ credits'[o] = 1
             \/ \E r \in Requests : Crediting(r)' /\ req'[r].order = o
  <2>1. CASE orders[o].payment_status # "RELEASED"
    BY <1>1, <1>4, <2>1, ReleaseIsCrediting
  <2>2. CASE credits[o] = 1
    <3>1. credits'[o] # 0
      BY <1>1, <2>2, CreditStep
    <3>2. QED
      BY <3>1 DEF OrderInv, CreditInv
  <2>3. ASSUME NEW r \in Requests, Crediting(r), req[r].order = o
        PROVE  credits'[o] = 1 \/ (Crediting(r)' /\ req'[r].order = o)
    BY <1>1, <2>3, CreditingGoesOn
  <2>4. QED
    BY <1>1, <1>2, <2>1, <2>2, <2>3 DEF NothingForgotten
<1>5. QED
  BY <1>3, <1>4

LEMMA InitKeeps == Init => KeepsInv
<1> SUFFICES ASSUME Init PROVE KeepsInv
  OBVIOUS
<1>1. SettledRows /\ OrderInv
  BY InitFinal DEF FinalInv
<1>2. LateIsShown
  BY DEF Init, LateIsShown
<1>3. ASSUME NEW o \in Orders
      PROVE  calls[o] \cap BookedCalls = {} /\ orders[o].payment_status = "PENDING"
  BY DEF Init, NewOrder, BookedCalls, ChainOps
<1>4. NothingForgotten
  BY <1>3 DEF NothingForgotten
<1>5. QED
  BY <1>1, <1>2, <1>4 DEF KeepsInv

\* While nothing stops a handler, whatever the backend did on chain is in the row or
\* about to be, and a released payment has been credited or is about to be: no
\* number of concurrent handlers overwrites or overlooks it, under SafeHashes.
THEOREM NothingIsForgotten == ASSUME SafeHashes PROVE Spec => []NothingForgotten
<1>1. KeepsInv /\ [Next]_vars => KeepsInv'
  <2> SUFFICES ASSUME KeepsInv, [Next]_vars PROVE KeepsInv'
    OBVIOUS
  <2>1. OrderInv' /\ SettledRows'
    BY NextOrder, NextSettledRows DEF KeepsInv, OrderInv
  <2>2. LateIsShown'
    BY <2>1, NextLate DEF KeepsInv, OrderInv, PaymentInv
  <2>3. QED
    BY <2>1, <2>2, NextForgotten DEF KeepsInv
<1>2. KeepsInv => NothingForgotten
  BY DEF KeepsInv
<1>3. QED
  BY <1>1, <1>2, InitKeeps, PTL DEF Spec
=============================================================================
