---------------------------- MODULE OrderHandover ----------------------------
(***************************************************************************)
(* Where the placement of orders and their life meet.  Both work on the    *)
(* same rows of table orders, the same escrows and the same ledger, the    *)
(* one until create_order_handler has answered, the other from then on.    *)
(* Here the orders that OrderPlacement has answered for are looked at as   *)
(* those OrderEscrow starts from.                                          *)
(***************************************************************************)
EXTENDS OrderPlacement

\* The row of an order as the later handlers find it: create_order_handler inserts
\* its delivery_status and leaves the hash columns of the later handlers empty.
RowOf(b) ==
  [status |-> orders[b].status, payment_status |-> orders[b].payment_status,
   delivery_status |-> "PENDING", escrow_state |-> orders[b].escrow_state,
   tx_hashes |-> {}]

\* The life of the orders in D, before any handler has begun on one of them: no
\* client, request or bound of OrderEscrow takes part yet.
Life(D) == INSTANCE OrderEscrow WITH
  Orders <- D, OtherEscrows <- {}, Requests <- {}, ConfirmedHash <- {}, UnconfirmedHash <- {},
  Targets <- {}, Verdicts <- {}, Placements <- {"NONE", "CREATED", "FAILED"},
  MaxFaults <- 0, MaxCredits <- 0, RefundUnfunded <- TRUE,
  orders  <- [b \in D |-> RowOf(b)],
  history <- [b \in D |-> {}],
  credits <- [b \in D |-> 0],
  calls   <- [b \in D |-> IF b \in escrows THEN {"create_escrow"} ELSE {}],
  late    <- {<<b, "create_escrow">> : b \in D \cap late},
  req     <- [r \in {} |-> r],
  faults  <- 0

\* Answered, and not funded yet.
Handed(b) == Exists(b) /\ At(b, "done") /\ orders[b].payment_status = "PENDING"

\* Whatever failed, raced or was cut short in placing them, orders that their
\* handlers are done with and nobody has funded are in a state that OrderEscrow
\* starts from: the row says CREATED only of an escrow that exists, and a creation
\* still under way is of an escrow that does not.
HandedOver ==
  \A D \in SUBSET Buyers : D # {} /\ (\A b \in D : Handed(b)) => Life(D)!Init

\* A buyer whose order was refused has nothing: no row, no escrow, none to come.
RefusedIsNothing ==
  \A b \in Buyers :
    req[b].answer = "refused" => ~Exists(b) /\ b \notin escrows \cup late /\ history[b] = {}
=============================================================================
