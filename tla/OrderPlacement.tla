---------------------------- MODULE OrderPlacement ----------------------------
(***************************************************************************)
(* Placing an order: create_order_handler of orders/handlers.rs against    *)
(* the stock of one product, with what may happen to the product and to    *)
(* the new order while the handler waits for Soroban.                      *)
(*                                                                         *)
(* The handler takes the units off the shelf first, then makes the order   *)
(* row, then the escrow.  No transaction holds these together: each step   *)
(* commits by itself, and a step that fails is made good by later          *)
(* statements whose own errors are ignored (`let _').  OrderEscrow starts  *)
(* from the rows this module leaves behind.                                *)
(***************************************************************************)
EXTENDS Integers, FiniteSets

CONSTANTS
  Buyers,        \* one order request each; the order carries the same name
  Quantities,    \* the quantities asked for
  StockLevels,   \* the levels update_stock_handler is asked for
  InitialStock,  \* products.stock at the start
  MaxFaults,     \* bound: handlers that stop at an error or with the process
  MaxLapses      \* bound: statements under `let _' that fail unnoticed

ASSUME ConstantsAssumption ==
  /\ Quantities \subseteq Nat \ {0} /\ StockLevels \subseteq Nat
  /\ InitialStock \in Nat /\ MaxFaults \in Nat /\ MaxLapses \in Nat

VARIABLES
  stock,     \* products.stock
  product,   \* [verified, archived]: the flags the handler looks at
  supply,    \* ghost: units the seller has put up, her corrections included
  orders,    \* orders[b]: the order row of b's request
  history,   \* history[b]: the events recorded in order_status_history
  escrows,   \* the orders whose escrow exists on the contract
  late,      \* the orders whose create_escrow may land, nobody polling it
  req,       \* req[b]: the handler of b's request
  faults, lapses

vars == <<stock, product, supply, orders, history, escrows, late, req, faults, lapses>>

Order == [status : {"ABSENT", "PENDING", "FAILED", "CONFIRMED"},
          payment_status : {"PENDING", "PROTECTED"},
          escrow_state : {"NONE", "CREATED", "FAILED", "FUNDED"}]

Absent == [status |-> "ABSENT", payment_status |-> "PENDING", escrow_state |-> "NONE"]

Steps   == {"read", "deduct", "nextval", "insert", "create", "wait", "created",
            "log", "mark", "note", "give_back", "done"}
Answers == {"none", "placed", "refused", "creation_failed", "error"}

Request == [step : Steps, quantity : Quantities, answer : Answers,
            tx : {"none", "pending", "success", "failed"}]

At(b, step)   == req[b].step = step
Goto(b, step) == req' = [req EXCEPT ![b].step = step]
Answer(b, a)  == req' = [req EXCEPT ![b].step = "done", ![b].answer = a]

Exists(b) == orders[b].status # "ABSENT"

Init ==
  /\ stock = InitialStock /\ supply = InitialStock
  /\ product = [verified |-> TRUE, archived |-> FALSE]
  /\ orders = [b \in Buyers |-> Absent]
  /\ history = [b \in Buyers |-> {}]
  /\ escrows = {} /\ late = {}
  /\ req \in [Buyers -> {q \in Request : q.step = "read" /\ q.answer = "none"
                                                        /\ q.tx = "none"}]
  /\ faults = 0 /\ lapses = 0

-----------------------------------------------------------------------------
(* The product, the stock and the row.                                     *)

ReadProduct(b) ==
  /\ At(b, "read")
  /\ IF product.verified /\ ~product.archived THEN Goto(b, "deduct")
                                              ELSE Answer(b, "refused")
  /\ UNCHANGED <<stock, product, supply, orders, history, escrows, late, faults, lapses>>

\* Mutant: the UPDATE has no `AND stock >= $1'.
EnoughAlways(q) == TRUE

\* The UPDATE that takes the units is guarded by the level it finds, not by
\* the one the handler read.
Enough(q) == stock >= q

DeductStock(b) ==
  /\ At(b, "deduct")
  /\ IF Enough(req[b].quantity)
       THEN stock' = stock - req[b].quantity /\ Goto(b, "nextval")
       ELSE Answer(b, "refused") /\ UNCHANGED stock
  /\ UNCHANGED <<product, supply, orders, history, escrows, late, faults, lapses>>

\* nextval of order_escrow_id_seq, or an error of the database.
AllocateEscrowId(b) ==
  /\ At(b, "nextval")
  /\ Goto(b, "insert") \/ Goto(b, "give_back")
  /\ UNCHANGED <<stock, product, supply, orders, history, escrows, late, faults, lapses>>

InsertOrder(b) ==
  /\ At(b, "insert")
  /\ \/ /\ orders' = [orders EXCEPT ![b].status = "PENDING"]
        /\ Goto(b, "create")
     \/ Goto(b, "give_back") /\ UNCHANGED orders
  /\ UNCHANGED <<stock, product, supply, history, escrows, late, faults, lapses>>

-----------------------------------------------------------------------------
(* create_escrow on Soroban: sent, or refused before it is sent; polled    *)
(* until it is included, has failed, or the fifteen attempts are used up.  *)

SubmitCreate(b) ==
  /\ At(b, "create")
  /\ \/ req' = [req EXCEPT ![b].step = "wait", ![b].tx = "pending"]
     \/ Goto(b, "mark")
  /\ UNCHANGED <<stock, product, supply, orders, history, escrows, late, faults, lapses>>

LandCreate(b) ==
  /\ At(b, "wait") /\ req[b].tx = "pending"
  /\ \/ /\ escrows' = escrows \cup {b}
        /\ req' = [req EXCEPT ![b].tx = "success"]
     \/ /\ req' = [req EXCEPT ![b].tx = "failed"]
        /\ UNCHANGED escrows
  /\ UNCHANGED <<stock, product, supply, orders, history, late, faults, lapses>>

\* Mutants: any outcome but a timeout counts as created; a handler polls on
\* for as long as the transaction is pending.
AfterAnyOutcome(tx) == IF tx = "pending" THEN {"mark"} ELSE {"created"}
AfterEndlessPoll(tx) == CASE tx = "success" -> {"created"}
                          [] tx = "failed"  -> {"mark"}
                          [] OTHER          -> {"wait"}

\* An attempt whose RPC call fails counts: a landed transaction may go unseen.
AfterPoll(tx) == IF tx = "success" THEN {"created", "mark"} ELSE {"mark"}

PollCreate(b) ==
  /\ At(b, "wait")
  /\ \E step \in AfterPoll(req[b].tx) : Goto(b, step)
  /\ late' = IF req[b].tx = "pending" THEN late \cup {b} ELSE late
  /\ UNCHANGED <<stock, product, supply, orders, history, escrows, faults, lapses>>

LandLate(b) ==
  /\ b \in late
  /\ late' = late \ {b}
  /\ escrows' = escrows \cup {b} \/ UNCHANGED escrows
  /\ UNCHANGED <<stock, product, supply, orders, history, req, faults, lapses>>

-----------------------------------------------------------------------------
(* The escrow exists: the row is updated by its id, whatever it says now.  *)

UpdateCreated(b) ==
  /\ At(b, "created")
  /\ orders' = [orders EXCEPT ![b].escrow_state = "CREATED"]
  /\ Goto(b, "log")
  /\ UNCHANGED <<stock, product, supply, history, escrows, late, faults, lapses>>

LogCreated(b) ==
  /\ At(b, "log")
  /\ history' = [history EXCEPT ![b] = @ \cup {"ORDER_CREATED"}]
  /\ Answer(b, "placed")
  /\ UNCHANGED <<stock, product, supply, orders, escrows, late, faults, lapses>>

-----------------------------------------------------------------------------
(* The escrow does not exist, as far as the handler knows.  The three      *)
(* statements ignore their errors; the last one answers the buyer.         *)

Lapse == lapses < MaxLapses /\ lapses' = lapses + 1

MarkFailed(b) ==
  /\ At(b, "mark")
  /\ \/ /\ orders' = [orders EXCEPT ![b].status = "FAILED", ![b].escrow_state = "FAILED"]
        /\ UNCHANGED lapses
     \/ Lapse /\ UNCHANGED orders
  /\ Goto(b, "note")
  /\ UNCHANGED <<stock, product, supply, history, escrows, late, faults>>

NoteFailure(b) ==
  /\ At(b, "note")
  /\ \/ history' = [history EXCEPT ![b] = @ \cup {"ORDER_FAILED"}] /\ UNCHANGED lapses
     \/ Lapse /\ UNCHANGED history
  /\ Goto(b, "give_back")
  /\ UNCHANGED <<stock, product, supply, orders, escrows, late, faults>>

\* Mutant: only the failure of the escrow restores the stock.
UnitsBackIfOrdered(b) == IF Exists(b) THEN req[b].quantity ELSE 0

UnitsBack(b) == req[b].quantity

RestoreStock(b) ==
  /\ At(b, "give_back")
  /\ \/ stock' = stock + UnitsBack(b) /\ UNCHANGED lapses
     \/ Lapse /\ UNCHANGED stock
  /\ Answer(b, IF Exists(b) THEN "creation_failed" ELSE "refused")
  /\ UNCHANGED <<product, supply, orders, history, escrows, late, faults>>

\* An error returned by `?', a dropped connection, or the end of the process.
Abort(b) ==
  /\ req[b].step \notin {"read", "done"} /\ faults < MaxFaults
  /\ faults' = faults + 1
  /\ late' = IF At(b, "wait") /\ req[b].tx = "pending" THEN late \cup {b} ELSE late
  /\ Answer(b, "error")
  /\ UNCHANGED <<stock, product, supply, orders, history, escrows, lapses>>

-----------------------------------------------------------------------------
(* Meanwhile: the buyer finds the order in her list and funds it           *)
(* (fund_order_handler, one step here), the seller counts her stock,       *)
(* archives or restores the product, an agent verifies or rejects it.      *)

FundOrder(b) ==
  /\ Exists(b) /\ b \in escrows
  /\ orders[b].payment_status = "PENDING" /\ orders[b].escrow_state # "FUNDED"
  /\ orders' = [orders EXCEPT ![b] = [status |-> "CONFIRMED", payment_status |-> "PROTECTED",
                                      escrow_state |-> "FUNDED"]]
  /\ UNCHANGED <<stock, product, supply, history, escrows, late, req, faults, lapses>>

update_stock(n) ==
  /\ n # stock
  /\ stock' = n /\ supply' = supply + n - stock
  /\ UNCHANGED <<product, orders, history, escrows, late, req, faults, lapses>>

archive(flag) ==
  /\ product' = [product EXCEPT !.archived = flag]
  /\ UNCHANGED <<stock, supply, orders, history, escrows, late, req, faults, lapses>>

verify(flag) ==
  /\ product' = [product EXCEPT !.verified = flag]
  /\ UNCHANGED <<stock, supply, orders, history, escrows, late, req, faults, lapses>>

-----------------------------------------------------------------------------
\* The steps of the handler, in the order of its text.
Handler(b) ==
  \/ ReadProduct(b) \/ DeductStock(b) \/ AllocateEscrowId(b) \/ InsertOrder(b)
  \/ SubmitCreate(b) \/ PollCreate(b) \/ UpdateCreated(b) \/ LogCreated(b)
  \/ MarkFailed(b) \/ NoteFailure(b) \/ RestoreStock(b)

Next ==
  \/ \E b \in Buyers : Handler(b) \/ LandCreate(b) \/ LandLate(b) \/ Abort(b) \/ FundOrder(b)
  \/ \E n \in StockLevels : update_stock(n)
  \/ \E flag \in BOOLEAN : archive(flag) \/ verify(flag)

Spec == Init /\ [][Next]_vars

\* The runtime keeps polling a handler that can go on.
FairSpec == Spec /\ \A b \in Buyers : WF_vars(Handler(b))

-----------------------------------------------------------------------------
TypeOK ==
  /\ stock \in Nat /\ supply \in Int
  /\ product \in [verified : BOOLEAN, archived : BOOLEAN]
  /\ orders \in [Buyers -> Order]
  /\ history \in [Buyers -> SUBSET {"ORDER_CREATED", "ORDER_FAILED"}]
  /\ escrows \subseteq Buyers /\ late \subseteq Buyers
  /\ req \in [Buyers -> Request]
  /\ faults \in 0..MaxFaults /\ lapses \in 0..MaxLapses

\* The units of a request that are off the shelf on its account: its handler took
\* them and has not come to the UPDATE that gives them back, or ended with an order
\* without coming to it.  This is where the units are, not whose they are: an order
\* that was reported failed has none, and may yet be sold (Sold).
Holds(b) ==
  \/ req[b].step \in Steps \ {"read", "deduct", "done"}
  \/ At(b, "done") /\ Exists(b) /\ req[b].answer # "creation_failed"

Holders == {b \in Buyers : Holds(b)}

\* A request that is over and has no units, by its handler's account.
LetGo(b) == At(b, "done") /\ ~Holds(b)

\* Counted one by one: the pairs of a request and one of the units it asked for.
Units(S) == UNION {{b} \X (1..req[b].quantity) : b \in S}

\* Every unit is accounted for, with handlers racing for the shelf, the seller counting
\* it, and failures at any step: those not on the shelf and not off it on somebody's
\* account are those of at most as many requests as there were handlers cut short and
\* statements that failed unnoticed.  With no failure, nothing is missing.
StockConserved ==
  \E lost \in SUBSET {b \in Buyers : LetGo(b)} :
    /\ Cardinality(lost) <= faults + lapses
    /\ stock + Cardinality(Units(Holders \cup lost)) = supply

Sold(b)           == orders[b].payment_status = "PROTECTED"
ReportedFailed(b) == req[b].answer = "creation_failed"

\* What create_order_handler takes the stock for, "Atomic stock deduction preventing
\* race conditions": the units of paid orders and those on the shelf are not more than
\* the seller put up.  Not kept: an order whose escrow landed late or unseen is funded
\* although its buyer was told that it failed, and its units are for sale again.
SoldOnce ==
  stock + Cardinality(Units({b \in Buyers : Sold(b)})) <= supply

\* Orders paid for after they were reported failed are the one way to sell a unit
\* twice: the other paid orders and the shelf, which is never overdrawn, stay within
\* what the seller put up, though orders are funded while their handlers run and
\* failures are reported over orders that were funded.
OnlyFailedOversell ==
  /\ stock >= 0
  /\ stock + Cardinality(Units({b \in Buyers : Sold(b) /\ ~ReportedFailed(b)})) <= supply

\* A buyer told that her order is placed has one: its escrow is on the contract,
\* its creation is in the audit trail, and it was not marked failed.
PlacedIsReal ==
  \A b \in Buyers :
    req[b].answer = "placed" =>
      /\ b \in escrows /\ "ORDER_CREATED" \in history[b]
      /\ orders[b].status \in {"PENDING", "CONFIRMED"}

\* create_order_handler, "Stock restored and order state marked FAILED": both
\* are true of every order whose buyer is told so.  Not kept: the result of the
\* UPDATE that marks the order is ignored.
CreationFailedIsTrue ==
  \A b \in Buyers :
    req[b].answer = "creation_failed" /\ orders[b].payment_status = "PENDING"
      => orders[b].status = "FAILED"

\* fund_order_handler, "Update payment_status to PROTECTED, status to CONFIRMED,
\* escrow_state to FUNDED atomically": an order with protected money never says
\* that it failed.
ProtectedIsNotFailed ==
  \A b \in Buyers :
    orders[b].payment_status = "PROTECTED" => orders[b].status # "FAILED"

\* create_order_handler, "Archived products cannot be ordered": the order of an
\* archived product is never made.  Not kept: the flag is read before the stock is
\* taken, and not looked at again.
ArchivedNotOrdered ==
  [][\A b \in Buyers : ~Exists(b) /\ Exists(b)' => ~product.archived]_vars

\* Every request is answered, whatever becomes of its transaction.
RequestsEnd == \A b \in Buyers : <>At(b, "done")
=============================================================================
