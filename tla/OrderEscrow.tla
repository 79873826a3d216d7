----------------------------- MODULE OrderEscrow -----------------------------
(***************************************************************************)
(* The life of an order after it has been placed: the handlers of          *)
(* orders/handlers.rs that fund, deliver, confirm, refund, dispute and     *)
(* resolve it, against the row they share and the Soroban escrow.          *)
(*                                                                         *)
(* A handler is not atomic.  It reads the row (SELECT), decides, calls the *)
(* contract or verifies a transaction the client shows, writes the row     *)
(* (one UPDATE), appends to order_status_history, and reports to the trust *)
(* engine; each SQL statement commits by itself, and any number of         *)
(* handlers run on one order at once.  A request slot of `req' is one      *)
(* handler in flight; each action below is the code between two awaits.    *)
(***************************************************************************)
EXTENDS ShownTransaction

CONSTANTS
  Orders,           \* the orders
  OtherEscrows,     \* escrows of the contract that belong to none of them
  Requests,         \* slots for handlers in flight
  ConfirmedHash,    \* operations whose client shows a tx that succeeded
  UnconfirmedHash,  \* operations whose client shows a tx not (yet) successful
  Targets,          \* the statuses asked of update_order_status_handler
  Verdicts,         \* the inspection_status values reported by inspectors
  Placements,       \* the escrow_state create_order_handler left behind
  MaxFaults,        \* bound: handlers interrupted by an error, timeout or crash
  MaxCredits        \* bound: trust engine calls counted per order

VARIABLES
  orders,   \* orders[o]: the row of table orders
  history,  \* history[o]: the statuses recorded in order_status_history
  credits,  \* credits[o]: completed calls of record_successful_transaction
  calls,    \* calls[o]: contract calls that succeeded on the order's escrow
  late,     \* <<o, fn>>: submitted transactions no handler waits for any more
  req,      \* req[r]: the handler in slot r
  faults    \* interruptions so far

vars == <<orders, history, credits, calls, late, req, faults>>

\* Handlers that act on the contract, named after the function they invoke.
ChainOps == Fns \ {"create_escrow"}
Ops      == ChainOps \cup {"update_status", "pickup_inspection"}

ValidStatuses == {"CONFIRMED", "READY_FOR_PICKUP", "OUT_FOR_DELIVERY",
                  "DELIVERED", "COMPLETED", "CANCELLED"}
AllVerdicts   == {"PASSED", "FAILED", "PENDING"}

Statuses         == ValidStatuses \cup {"PENDING", "FAILED", "DISPUTED"}
PaymentStatuses  == {"PENDING", "PROTECTED", "RELEASED", "REFUNDED"}
DeliveryStatuses == {"PENDING", "PICKUP_READY", "IN_TRANSIT", "DELIVERED"}
EscrowStates     == {"NONE", "CREATED", "FAILED", "FUNDED", "DISPUTED",
                     "RELEASED", "REFUNDED"}
TxColumns        == {"funding_tx_hash", "release_tx_hash", "refund_tx_hash"}

ASSUME ConstantsAssumption ==
  /\ ConfirmedHash \subseteq ChainOps /\ UnconfirmedHash \subseteq ChainOps
  /\ Targets \subseteq ValidStatuses /\ Verdicts \subseteq AllVerdicts
  /\ Placements \subseteq {"CREATED", "FAILED", "NONE"}
  /\ Orders # {} /\ Orders \cap OtherEscrows = {}
  /\ MaxFaults \in Nat /\ MaxCredits \in Nat

Order == [status : Statuses, payment_status : PaymentStatuses,
          delivery_status : DeliveryStatuses, escrow_state : EscrowStates,
          tx_hashes : SUBSET TxColumns]

\* What record_order_status_history is called with.
Events == ValidStatuses \cup
          {"PAYMENT_PROTECTED", "ORDER_REFUNDED", "ORDER_DISPUTED",
           "DISPUTE_RESOLVED_RELEASED", "DISPUTE_RESOLVED_REFUNDED",
           "PRODUCT_INSPECTED"}

(***************************************************************************)
(* Handlers in flight: op and order, the step to run next, the state of    *)
(* the transaction it submitted, the status update_status was asked for    *)
(* and the delivery status it read, the verdict of an inspection.          *)
(***************************************************************************)
Steps    == {"idle", "call", "wait", "insert", "write", "log", "credit"}
TxStates == {"none", "pending", "success", "failed"}

Idle == [op |-> "update_status", order |-> CHOOSE o \in Orders : TRUE,
         step |-> "idle", tx |-> "none",
         asked |-> "CONFIRMED", seen |-> "PENDING", verdict |-> "PENDING"]

Request == [op : Ops, order : Orders, step : Steps, tx : TxStates,
            asked : ValidStatuses, seen : DeliveryStatuses, verdict : AllVerdicts]

Begin(r, o, op, step) ==
  req' = [req EXCEPT ![r] = [Idle EXCEPT !.op = op, !.order = o, !.step = step]]

Goto(r, step) == req' = [req EXCEPT ![r].step = step]
End(r)        == req' = [req EXCEPT ![r] = Idle]

At(r, step) == req[r].step = step
Row(r)      == orders[req[r].order]

(***************************************************************************)
(* What create_order_handler leaves: an order whose escrow was created; one*)
(* marked FAILED, or never marked, whose creation failed, was never made,  *)
(* or whose transaction may still land after the handler gave it up.       *)
(***************************************************************************)
NewOrder(e) ==
  [status |-> IF e = "FAILED" THEN "FAILED" ELSE "PENDING",
   payment_status |-> "PENDING", delivery_status |-> "PENDING",
   escrow_state |-> e, tx_hashes |-> {}]

Init ==
  /\ orders \in [Orders -> {NewOrder(e) : e \in Placements}]
  /\ calls \in [Orders -> {{}, {"create_escrow"}}]
  /\ \A o \in Orders : orders[o].escrow_state = "CREATED" => calls[o] # {}
  /\ late \in SUBSET {<<o, "create_escrow">> : o \in {p \in Orders : calls[p] = {}}}
  /\ history = [o \in Orders |-> {}]
  /\ credits = [o \in Orders |-> 0]
  /\ req = [r \in Requests |-> Idle]
  /\ faults = 0

-----------------------------------------------------------------------------
(* Reading the row: the guards between the SELECT and the first call.  A   *)
(* handler that refuses, or finds its work already done, changes nothing.  *)

MayFund(row) == row.payment_status = "PENDING" /\ row.escrow_state # "FUNDED"

MayConfirm(row) == row.status = "DELIVERED" /\ row.payment_status = "PROTECTED"

MayRefund(row) == row.payment_status # "REFUNDED" /\ row.escrow_state # "REFUNDED"

MayDispute(row) ==
  /\ row.status # "DISPUTED" /\ row.escrow_state # "DISPUTED"
  /\ row.payment_status = "PROTECTED" \/ row.escrow_state = "FUNDED"

MayResolve(row) == row.status = "DISPUTED" \/ row.escrow_state = "DISPUTED"

StartFund(r, o) ==
  /\ At(r, "idle") /\ MayFund(orders[o])
  /\ Begin(r, o, "fund_escrow", "call")
  /\ UNCHANGED <<orders, history, credits, calls, late, faults>>

StartConfirmDelivery(r, o) ==
  /\ At(r, "idle") /\ MayConfirm(orders[o])
  /\ Begin(r, o, "release_escrow", "call")
  /\ UNCHANGED <<orders, history, credits, calls, late, faults>>

StartRefund(r, o) ==
  /\ At(r, "idle") /\ MayRefund(orders[o])
  /\ Begin(r, o, "refund_escrow", "call")
  /\ UNCHANGED <<orders, history, credits, calls, late, faults>>

StartDispute(r, o) ==
  /\ At(r, "idle") /\ MayDispute(orders[o])
  /\ Begin(r, o, "dispute_escrow", "call")
  /\ UNCHANGED <<orders, history, credits, calls, late, faults>>

StartResolve(r, o) ==
  /\ At(r, "idle") /\ MayResolve(orders[o])
  /\ \E fn \in ResolveFns : Begin(r, o, fn, "call")
  /\ UNCHANGED <<orders, history, credits, calls, late, faults>>

StartUpdateStatus(r, o) ==
  /\ At(r, "idle")
  /\ \E s \in Targets :
       req' = [req EXCEPT ![r] =
                 [Idle EXCEPT !.order = o, !.step = "write", !.asked = s,
                              !.seen = orders[o].delivery_status]]
  /\ UNCHANGED <<orders, history, credits, calls, late, faults>>

StartPickupInspection(r, o) ==
  /\ At(r, "idle")
  /\ \E v \in Verdicts :
       req' = [req EXCEPT ![r] =
                 [Idle EXCEPT !.op = "pickup_inspection", !.order = o,
                              !.step = "insert", !.verdict = v]]
  /\ UNCHANGED <<orders, history, credits, calls, late, faults>>

-----------------------------------------------------------------------------
(* The contract call: the backend signs and submits the call itself, or    *)
(* verifies on the ledger the transaction whose hash the client sent.      *)

\* Mutant: the row is written as soon as the transaction is sent.
SubmitUnpolled(r) ==
  /\ At(r, "call") /\ Accepts(req[r].op, calls[req[r].order])
  /\ late' = late \cup {<<req[r].order, req[r].op>>}
  /\ Goto(r, "write")
  /\ UNCHANGED <<orders, history, credits, calls, faults>>

\* Simulation runs the call on the escrow as it is now, then it is sent.
Submit(r) ==
  /\ At(r, "call") /\ Accepts(req[r].op, calls[req[r].order])
  /\ req' = [req EXCEPT ![r].step = "wait", ![r].tx = "pending"]
  /\ UNCHANGED <<orders, history, credits, calls, late, faults>>

\* The transactions that succeeded: calls on the escrows of the orders, and others
\* a client may show: of escrows of no order, of another contract, without a call.
OnLedger ==
  {Call("ours", p[2], p[1]) : p \in {q \in Orders \X Fns : q[2] \in calls[q[1]]}}
    \cup {Call("ours", fn, e) : fn \in Fns, e \in OtherEscrows}
    \cup {Call("another", fn, e) : fn \in Fns, e \in Orders \cup OtherEscrows}
    \cup {{}}

\* Mutant: every handler drops the returned status.
InsistOnNothing == {}

\* The handlers that insist on Success; refund, dispute and resolve drop the
\* status verify_transaction_semantics returns.
InsistOnSuccess == {"fund_escrow", "release_escrow"}

VerifyHash(r) ==
  /\ At(r, "call")
  /\ \/ /\ req[r].op \in ConfirmedHash
        /\ \E envelope \in OnLedger :
             verify_transaction_semantics(envelope, FunctionOf(req[r].op), req[r].order)
     \/ req[r].op \in UnconfirmedHash \ InsistOnSuccess
  /\ Goto(r, "write")
  /\ UNCHANGED <<orders, history, credits, calls, late, faults>>

\* Simulation is refused, or the shown transaction is not accepted.
Reject(r) ==
  /\ At(r, "call")
  /\ \/ ~Accepts(req[r].op, calls[req[r].order])
     \/ req[r].op \in ConfirmedHash \cup UnconfirmedHash
  /\ End(r)
  /\ UNCHANGED <<orders, history, credits, calls, late, faults>>

\* The ledger includes the transaction: the contract accepts or fails it.
Land(r) ==
  LET o == req[r].order fn == req[r].op IN
  /\ At(r, "wait") /\ req[r].tx = "pending"
  /\ IF Accepts(fn, calls[o])
       THEN /\ calls' = [calls EXCEPT ![o] = @ \cup {fn}]
            /\ req' = [req EXCEPT ![r].tx = "success"]
       ELSE /\ req' = [req EXCEPT ![r].tx = "failed"]
            /\ UNCHANGED calls
  /\ UNCHANGED <<orders, history, credits, late, faults>>

\* Mutants: a failed transaction counts as done; only success ends the polling.
AfterAnyOutcome(r, tx) == Goto(r, "write")
KeepPolling(r, tx) == IF tx = "success" THEN Goto(r, "write") ELSE UNCHANGED req

\* Where the handler goes once poll_transaction_confirmation has an outcome.
AfterPoll(r, tx) == IF tx = "success" THEN Goto(r, "write") ELSE End(r)

Poll(r) ==
  /\ At(r, "wait") /\ req[r].tx # "pending" /\ AfterPoll(r, req[r].tx)
  /\ UNCHANGED <<orders, history, credits, calls, late, faults>>

\* A transaction nobody waits for lands, or is dropped by the network.
LandLate(o, fn) ==
  /\ <<o, fn>> \in late
  /\ late' = late \ {<<o, fn>>}
  /\ \/ Accepts(fn, calls[o]) /\ calls' = [calls EXCEPT ![o] = @ \cup {fn}]
     \/ UNCHANGED calls
  /\ UNCHANGED <<orders, history, credits, req, faults>>

\* A client submits, from its own wallet, a transaction it will show us.
WalletSubmit(o, fn) ==
  /\ fn \in ConfirmedHash \cup UnconfirmedHash
  /\ <<o, fn>> \notin late
  /\ late' = late \cup {<<o, fn>>}
  /\ UNCHANGED <<orders, history, credits, calls, req, faults>>

-----------------------------------------------------------------------------
(* The UPDATE of the row.                                                  *)

Settled(row, status, payment, column) ==
  [row EXCEPT !.status = status, !.payment_status = payment,
              !.escrow_state = payment, !.tx_hashes = @ \cup {column}]

Update(r, row) == orders' = [orders EXCEPT ![req[r].order] = row]

\* Mutants: funding also requires the status; confirming requires nothing.
FundMatchesUntouched(row) == row.payment_status = "PENDING" /\ row.status = "PENDING"
ConfirmMatchesAlways(row) == TRUE

\* The WHERE clauses of the two guarded updates; a row that no longer matches
\* ends the handler.
FundMatches(row)    == row.payment_status = "PENDING"
ConfirmMatches(row) == row.status = "DELIVERED" /\ row.payment_status = "PROTECTED"

WriteFund(r) ==
  /\ At(r, "write") /\ req[r].op = "fund_escrow"
  /\ IF FundMatches(Row(r))
       THEN /\ Update(r, [Row(r) EXCEPT !.status = "CONFIRMED",
                            !.payment_status = "PROTECTED", !.escrow_state = "FUNDED",
                            !.tx_hashes = @ \cup {"funding_tx_hash"}])
            /\ Goto(r, "log")
       ELSE End(r) /\ UNCHANGED orders
  /\ UNCHANGED <<history, credits, calls, late, faults>>

WriteConfirmDelivery(r) ==
  /\ At(r, "write") /\ req[r].op = "release_escrow"
  /\ IF ConfirmMatches(Row(r))
       THEN /\ Update(r, Settled(Row(r), "COMPLETED", "RELEASED", "release_tx_hash"))
            /\ Goto(r, "log")
       ELSE End(r) /\ UNCHANGED orders
  /\ UNCHANGED <<history, credits, calls, late, faults>>

\* Mutant: the refund is recorded only for a payment known to be protected.
WriteRefundProtected(r) ==
  /\ At(r, "write") /\ req[r].op = "refund_escrow"
  /\ IF Row(r).payment_status = "PROTECTED"
       THEN /\ Update(r, Settled(Row(r), "CANCELLED", "REFUNDED", "refund_tx_hash"))
            /\ Goto(r, "log")
       ELSE End(r) /\ UNCHANGED orders
  /\ UNCHANGED <<history, credits, calls, late, faults>>

\* The other updates name the order by its id alone.
WriteRefund(r) ==
  /\ At(r, "write") /\ req[r].op = "refund_escrow"
  /\ Update(r, Settled(Row(r), "CANCELLED", "REFUNDED", "refund_tx_hash"))
  /\ Goto(r, "log")
  /\ UNCHANGED <<history, credits, calls, late, faults>>

WriteDispute(r) ==
  /\ At(r, "write") /\ req[r].op = "dispute_escrow"
  /\ Update(r, [Row(r) EXCEPT !.status = "DISPUTED", !.escrow_state = "DISPUTED"])
  /\ Goto(r, "log")
  /\ UNCHANGED <<history, credits, calls, late, faults>>

WriteResolve(r) ==
  /\ At(r, "write") /\ req[r].op \in ResolveFns
  /\ Update(r, IF req[r].op = "resolve_release"
                 THEN Settled(Row(r), "COMPLETED", "RELEASED", "release_tx_hash")
                 ELSE Settled(Row(r), "CANCELLED", "REFUNDED", "refund_tx_hash"))
  /\ Goto(r, "log")
  /\ UNCHANGED <<history, credits, calls, late, faults>>

\* Mutant: DELIVERED is forgotten.
DeliveryForTransit(status, seen) ==
  CASE status = "READY_FOR_PICKUP" -> "PICKUP_READY"
    [] status = "OUT_FOR_DELIVERY" -> "IN_TRANSIT"
    [] OTHER -> seen

\* delivery_status follows the new status, or is written back as it was read.
DeliveryFor(status, seen) ==
  CASE status = "READY_FOR_PICKUP" -> "PICKUP_READY"
    [] status = "OUT_FOR_DELIVERY" -> "IN_TRANSIT"
    [] status \in {"DELIVERED", "COMPLETED"} -> "DELIVERED"
    [] OTHER -> seen

WriteUpdateStatus(r) ==
  /\ At(r, "write") /\ req[r].op = "update_status"
  /\ Update(r, [Row(r) EXCEPT !.status = req[r].asked,
                  !.delivery_status = DeliveryFor(req[r].asked, req[r].seen)])
  /\ Goto(r, "log")
  /\ UNCHANGED <<history, credits, calls, late, faults>>

WritePickupInspection(r) ==
  /\ At(r, "write") /\ req[r].op = "pickup_inspection"
  /\ Update(r, [Row(r) EXCEPT !.status = "READY_FOR_PICKUP",
                              !.delivery_status = "PICKUP_READY"])
  /\ Goto(r, "log")
  /\ UNCHANGED <<history, credits, calls, late, faults>>

-----------------------------------------------------------------------------
(* After the UPDATE: the audit trail, then the trust engine.               *)

record_order_status_history(o, event) ==
  history' = [history EXCEPT ![o] = @ \cup {event}]

EventOf(q) ==
  CASE q.op = "fund_escrow"       -> "PAYMENT_PROTECTED"
    [] q.op = "release_escrow"    -> "COMPLETED"
    [] q.op = "refund_escrow"     -> "ORDER_REFUNDED"
    [] q.op = "dispute_escrow"    -> "ORDER_DISPUTED"
    [] q.op = "resolve_release"   -> "DISPUTE_RESOLVED_RELEASED"
    [] q.op = "resolve_refund"    -> "DISPUTE_RESOLVED_REFUNDED"
    [] q.op = "pickup_inspection" -> "READY_FOR_PICKUP"
    [] q.op = "update_status"     -> q.asked

\* Mutant: only a delivery the buyer confirmed is reported to the trust engine.
CreditedConfirmed == {"release_escrow"}

\* The handlers that report to the trust engine once the event is recorded.
CreditedOps == ReleaseFns

Log(r) ==
  /\ At(r, "log")
  /\ record_order_status_history(req[r].order, EventOf(req[r]))
  /\ IF req[r].op \in CreditedOps THEN Goto(r, "credit") ELSE End(r)
  /\ UNCHANGED <<orders, credits, calls, late, faults>>

\* The inspection row and its event come before the status changes, if it does.
InsertInspection(r) ==
  /\ At(r, "insert")
  /\ record_order_status_history(req[r].order, "PRODUCT_INSPECTED")
  /\ IF req[r].verdict = "PASSED" THEN Goto(r, "write") ELSE End(r)
  /\ UNCHANGED <<orders, credits, calls, late, faults>>

\* record_successful_transaction, as one step (TrustEngine opens it up).
Credit(r) ==
  /\ At(r, "credit") /\ credits[req[r].order] < MaxCredits
  /\ credits' = [credits EXCEPT ![req[r].order] = @ + 1]
  /\ End(r)
  /\ UNCHANGED <<orders, history, calls, late, faults>>

\* An await returns an error, the poll times out, the connection or the process
\* goes away: the handler stops where it is; what it submitted may still land.
Abort(r) ==
  /\ ~At(r, "idle") /\ faults < MaxFaults
  /\ faults' = faults + 1
  /\ late' = IF req[r].tx = "pending" THEN late \cup {<<req[r].order, req[r].op>>}
                                      ELSE late
  /\ End(r)
  /\ UNCHANGED <<orders, history, credits, calls>>

-----------------------------------------------------------------------------
Start(r, o) ==
  \/ StartFund(r, o) \/ StartConfirmDelivery(r, o) \/ StartRefund(r, o)
  \/ StartDispute(r, o) \/ StartResolve(r, o) \/ StartUpdateStatus(r, o)
  \/ StartPickupInspection(r, o)

Write(r) ==
  \/ WriteFund(r) \/ WriteConfirmDelivery(r) \/ WriteRefund(r) \/ WriteDispute(r)
  \/ WriteResolve(r) \/ WriteUpdateStatus(r) \/ WritePickupInspection(r)

\* The steps a handler takes by itself once it has read the row.
Progress(r) ==
  \/ Submit(r) \/ VerifyHash(r) \/ Reject(r) \/ Poll(r)
  \/ Write(r) \/ Log(r) \/ InsertInspection(r) \/ Credit(r)

Next ==
  \/ \E r \in Requests :
       \/ \E o \in Orders : Start(r, o)
       \/ Progress(r) \/ Land(r) \/ Abort(r)
  \/ \E o \in Orders, fn \in Fns : LandLate(o, fn) \/ WalletSubmit(o, fn)

Spec == Init /\ [][Next]_vars

\* The runtime keeps polling a handler that can go on, and the ledger closes.
FairSpec == Spec /\ \A r \in Requests : WF_vars(Progress(r)) /\ WF_vars(Land(r))

-----------------------------------------------------------------------------
TypeOK ==
  /\ orders \in [Orders -> Order]
  /\ history \in [Orders -> SUBSET Events]
  /\ credits \in [Orders -> 0..MaxCredits]
  /\ calls \in [Orders -> SUBSET Fns]
  /\ late \subseteq Orders \X Fns
  /\ req \in [Requests -> Request]
  /\ faults \in 0..MaxFaults

\* Only a handler that acts on the contract holds a transaction, and only an
\* inspection inserts one.
OnContract ==
  \A r \in Requests :
    /\ req[r].step \in {"call", "wait"} \/ req[r].tx # "none" => req[r].op \in ChainOps
    /\ req[r].step = "insert" => req[r].op = "pickup_inspection"

\* The payment the row reports never runs ahead of the escrow: PROTECTED money
\* was locked on chain, RELEASED money went to the seller, REFUNDED money back
\* to the buyer, however handlers interleave, time out or die in between.
PaymentAgrees ==
  \A o \in Orders :
    LET pay == orders[o].payment_status IN
    /\ pay = "PROTECTED" => "fund_escrow" \in calls[o]
    /\ pay \in {"RELEASED", "REFUNDED"} => EscrowState(calls[o]) = pay

\* The inductive form of PaymentAgrees: what lets a handler write a settlement is
\* a call that stays true of the escrow until, and after, the row is written.
OneWinner ==
  \A o \in Orders : calls[o] \cap RefundFns # {} => calls[o] \cap ReleaseFns = {}

WritesBacked ==
  \A r \in Requests :
    LET q == req[r] IN
    q.step = "write" \/ q.tx = "success" =>
      /\ q.op = "fund_escrow" => "fund_escrow" \in calls[q.order]
      /\ q.op \in ReleaseFns => EscrowState(calls[q.order]) = "RELEASED"
      /\ q.op \in RefundFns  => EscrowState(calls[q.order]) = "REFUNDED"

PaymentInv == TypeOK /\ OnContract /\ OneWinner /\ WritesBacked /\ PaymentAgrees

\* The same for the other properties: what a handler writes, records or credits
\* is a call of its own kind that succeeded, and an escrow is released one way.
DoneOnChain ==
  \A r \in Requests :
    LET q == req[r] IN
    (q.step \in {"write", "log", "credit"} /\ q.op \in ChainOps) \/ q.tx = "success"
      => q.op \in calls[q.order]

OneRelease == \A o \in Orders : ~(ReleaseFns \subseteq calls[o])

\* The hash columns tell which payments the row has reported; a row that knows of
\* money, or a handler that acts on such a row, has seen the funding.
KnowsFunding(row) ==
  \/ row.payment_status \in {"PROTECTED", "RELEASED"}
  \/ row.escrow_state \in {"FUNDED", "DISPUTED"} \/ row.status = "DISPUTED"

AfterFunding == ReleaseFns \cup ResolveFns \cup {"dispute_escrow"}

ColumnsAgree ==
  /\ \A o \in Orders :
       LET columns == orders[o].tx_hashes pay == orders[o].payment_status IN
       /\ "release_tx_hash" \in columns <=> pay = "RELEASED"
       /\ "refund_tx_hash" \in columns => pay = "REFUNDED"
       /\ "funding_tx_hash" \in columns => pay # "PENDING"
       /\ KnowsFunding(orders[o]) => "funding_tx_hash" \in columns
  /\ \A r \in Requests :
       req[r].op \in AfterFunding => "funding_tx_hash" \in Row(r).tx_hashes

\* One handler at a time is on its way to credit an order, and none once it is.
Crediting(r) == req[r].op \in ReleaseFns /\ req[r].step \in {"log", "credit"}

Settling(r) ==
  \/ Crediting(r)
  \/ req[r].op = "resolve_release" /\ (req[r].step = "write" \/ req[r].tx = "success")

CreditInv ==
  /\ \A r \in Requests :
       /\ req[r].step = "credit" => req[r].op \in ReleaseFns
       /\ Crediting(r) => Row(r).payment_status = "RELEASED"
       /\ Settling(r) => credits[req[r].order] = 0
  /\ \A r, s \in Requests :
       Settling(r) /\ Settling(s) /\ req[r].order = req[s].order => r = s
  /\ \A o \in Orders : credits[o] # 0 =>
       credits[o] = 1 /\ orders[o].payment_status = "RELEASED"

\* What the proof asks of the hashes clients may show: no resolution is taken
\* from a hash, and only fund and confirm, which check it, meet unconfirmed ones.
SafeHashes ==
  /\ ConfirmedHash \cap ResolveFns = {}
  /\ UnconfirmedHash \subseteq InsistOnSuccess

\* escrow_state may lag behind the contract, never contradict it: what it says
\* is a state the escrow is in or has left for a later one.
Reached(e, now) ==
  CASE e \in {"NONE", "CREATED", "FAILED"} -> TRUE
    [] e = "FUNDED"   -> now \in {"FUNDED", "DISPUTED", "RELEASED", "REFUNDED"}
    [] e = "DISPUTED" -> now \in {"DISPUTED", "RELEASED", "REFUNDED"}
    [] OTHER          -> now = e

EscrowStateAgrees ==
  \A o \in Orders : Reached(orders[o].escrow_state, EscrowState(calls[o]))

\* The hash columns are never cleared, so this looks back over the whole life of
\* the order: it is never both released and refunded, nor settled unfunded
\* except by the refund of an escrow whose funding the row never saw.
OneSettlement ==
  \A o \in Orders :
    LET columns == orders[o].tx_hashes IN
    /\ ~({"release_tx_hash", "refund_tx_hash"} \subseteq columns)
    /\ "release_tx_hash" \in columns => "funding_tx_hash" \in columns

\* Whatever hashes clients show: money that the row knows of, in any column, in the
\* audit trail or in the seller's record, was locked on chain before.
FundedBeforeAll ==
  \A o \in Orders :
    \/ KnowsFunding(orders[o])
    \/ {"funding_tx_hash", "release_tx_hash"} \cap orders[o].tx_hashes # {}
    \/ "PAYMENT_PROTECTED" \in history[o] \/ credits[o] # 0
    => "fund_escrow" \in calls[o]

\* Where hashes are shown only of transactions that succeeded, or to handlers that
\* check that they did: what was reported as settled or disputed was.  Which of two
\* resolutions it was, a hash does not tell.
SettledEitherWay ==
  \A o \in Orders :
    LET Recorded(event, fns) == event \in history[o] => calls[o] \cap fns # {} IN
    /\ \/ orders[o].payment_status \in {"RELEASED", "REFUNDED"} \/ credits[o] # 0
       => EscrowState(calls[o]) \in {"RELEASED", "REFUNDED"}
    /\ orders[o].escrow_state = "DISPUTED" => "dispute_escrow" \in calls[o]
    /\ Recorded("ORDER_REFUNDED", {"refund_escrow"})
    /\ Recorded("ORDER_DISPUTED", {"dispute_escrow"})
    /\ Recorded("DISPUTE_RESOLVED_RELEASED", ResolveFns)
    /\ Recorded("DISPUTE_RESOLVED_REFUNDED", ResolveFns)

\* The seller is credited at most once for an order, and only for one whose
\* payment was released (orders/handlers.rs, "exactly once per completed
\* transaction"; the lower bound is CompletedIsCredited).  Not kept where resolutions
\* are shown by hash: two of them may be shown one transaction, and both credit.
CreditedAtMostOnce ==
  \A o \in Orders :
    /\ credits[o] <= 1
    /\ credits[o] = 1 => "release_tx_hash" \in orders[o].tx_hashes

\* While the parcel is on its way the two status columns tell the same story,
\* though update_status writes back a delivery_status it may have read earlier.
DeliveryAgrees ==
  \A o \in Orders :
    LET s == orders[o].status d == orders[o].delivery_status IN
    /\ s = "READY_FOR_PICKUP" => d = "PICKUP_READY"
    /\ s = "OUT_FOR_DELIVERY" => d = "IN_TRANSIT"
    /\ s = "DELIVERED" => d = "DELIVERED"

\* The audit trail records nothing that did not happen on the contract.
AuditAgrees ==
  \A o \in Orders :
    LET Recorded(event, fn) == event \in history[o] => fn \in calls[o] IN
    /\ Recorded("PAYMENT_PROTECTED", "fund_escrow")
    /\ Recorded("ORDER_REFUNDED", "refund_escrow")
    /\ Recorded("ORDER_DISPUTED", "dispute_escrow")
    /\ Recorded("DISPUTE_RESOLVED_RELEASED", "resolve_release")
    /\ Recorded("DISPUTE_RESOLVED_REFUNDED", "resolve_refund")

\* A payment only moves forward: protected before released, and never out of a
\* settlement.  Part of what ImplementsEscrowPayment says, for a reader.
ForwardFrom(pay) ==
  CASE pay = "PENDING"   -> {"PENDING", "PROTECTED", "REFUNDED"}
    [] pay = "PROTECTED" -> {"PROTECTED", "RELEASED", "REFUNDED"}
    [] OTHER             -> {pay}

PaymentMovesForward ==
  [][\A o \in Orders :
       orders'[o].payment_status \in ForwardFrom(orders[o].payment_status)]_vars

\* A settled order is never reopened: no handler that started before the
\* settlement writes its older escrow_state over it.  Kept where disputes are not
\* shown by hash: of two handlers shown one dispute the slower can write DISPUTED
\* over an order that has been resolved meanwhile.
SettledStaysSettled ==
  [][\A o \in Orders :
       orders[o].escrow_state \in {"RELEASED", "REFUNDED"}
         => orders'[o].escrow_state = orders[o].escrow_state]_vars

\* The handlers, however they interleave, fail or retry, do no more with an order
\* than EscrowPayment lets them: each step of theirs is one of its steps, or
\* invisible in where the money is, what the row reports and what is credited.
MoneyAt(state) ==
  CASE state = "RELEASED" -> "seller"
    [] state = "REFUNDED" -> "returned"
    [] state \in {"FUNDED", "DISPUTED"} -> "escrow"
    [] OTHER -> "unpaid"

Abstract == INSTANCE EscrowPayment WITH
  money   <- [o \in Orders |-> MoneyAt(EscrowState(calls[o]))],
  payment <- [o \in Orders |-> orders[o].payment_status]

ImplementsEscrowPayment == Abstract!PaySpec

\* refund_order_handler tells the buyer "Your order {} has been refunded
\* on-chain": the escrow of every order it marks has paid the buyer back.
RefundedOnChain ==
  \A o \in Orders :
    orders[o].payment_status = "REFUNDED" => EscrowState(calls[o]) = "REFUNDED"

\* fund_order_handler, "Verify order payment status is PENDING and escrow_state
\* is CREATED": only an order whose escrow the row knows of becomes PROTECTED.
\* Not kept: an order marked FAILED, or still NONE, is funded like any other.
FundedFromCreated ==
  [][\A o \in Orders :
       /\ orders[o].payment_status = "PENDING"
       /\ orders'[o].payment_status = "PROTECTED"
       => orders[o].escrow_state = "CREATED"]_vars

\* Where a call of the backend's own must show in the row once it has succeeded;
\* a release may miss it (ReleaseIsBooked).
Booked(row, fn) ==
  CASE fn = "fund_escrow"     -> row.payment_status # "PENDING"
    [] fn = "dispute_escrow"  -> row.escrow_state \in {"DISPUTED", "RELEASED", "REFUNDED"}
    [] fn = "resolve_release" -> row.payment_status = "RELEASED"
    [] fn \in RefundFns       -> row.payment_status = "REFUNDED"

Booking(r) == At(r, "write") \/ (At(r, "wait") /\ req[r].tx = "success")

BookedCalls == ChainOps \ ({"release_escrow"} \cup ConfirmedHash \cup UnconfirmedHash)

\* Nothing gets lost between two statements that no error, timeout or crash comes
\* between: a call that succeeded is in the row, or its handler is on the way to
\* write it, whatever else was written meanwhile; and a released payment has been
\* credited, or a handler is on the way to the credit.
NothingForgotten ==
  faults = 0 =>
    \A o \in Orders :
      /\ \A fn \in calls[o] \cap BookedCalls :
           \/ Booked(orders[o], fn)
           \/ \E r \in Requests : Booking(r) /\ req[r].op = fn /\ req[r].order = o
      /\ orders[o].payment_status = "RELEASED" =>
           credits[o] = 1 \/ \E r \in Requests : Crediting(r) /\ req[r].order = o

-----------------------------------------------------------------------------
\* No handler hangs, whatever the contract and the other handlers do.
RequestsEnd == \A r \in Requests : []<>At(r, "idle")

\* Money moved by a backend call that nothing interrupts reaches the row, even
\* though the row may change while the call is on its way.
FundIsBooked ==
  \A o \in Orders :
    "fund_escrow" \in calls[o] ~> orders[o].payment_status # "PENDING"

RefundIsBooked ==
  \A o \in Orders :
    "refund_escrow" \in calls[o] ~> orders[o].payment_status = "REFUNDED"

\* confirm_delivery_handler, "Buyer confirms delivery -> ... release transaction
\* on-chain -> Order becomes COMPLETED & Payment status RELEASED".
ReleaseIsBooked ==
  \A o \in Orders :
    "release_escrow" \in calls[o] ~> orders[o].payment_status = "RELEASED"

\* confirm_delivery_handler, "Trigger Trust Engine evaluation for the seller
\* exactly once per completed transaction", whether the buyer confirmed or a
\* dispute was resolved.  Kept only while nothing stops a handler: after a stop
\* between the UPDATE and the credit a retry finds the order completed, and returns.
CompletedIsCredited ==
  \A o \in Orders :
    "release_tx_hash" \in orders[o].tx_hashes ~> credits[o] = 1
=============================================================================
