---------------------------- MODULE SellerRecord ----------------------------
(***************************************************************************)
(* The orders of one seller together with the seller's trust record: the   *)
(* handlers of OrderEscrow, whose last step, the call of the trust engine, *)
(* is opened up into the three statements of TrustEngine.  A handler makes *)
(* at most one call, so the slot of the handler is the slot of the call.   *)
(* The sales have been paid for and delivered: what is left is to confirm, *)
(* refund, dispute and resolve them, all at once.                          *)
(***************************************************************************)
EXTENDS OrderEscrow

CONSTANT StartCounts  \* the numbers of transactions sellers may start with

ASSUME SalesAssumption == IsFiniteSet(Orders) /\ StartCounts \subseteq Nat

VARIABLES profile, trail, call, start, made, counted, alone, stops

\* Every order is credited by one call at most; bounds of TrustEngine.
Trust == INSTANCE TrustEngine WITH
  Calls <- Requests, MaxCalls <- MaxCredits, history <- trail, faults <- stops

trustVars == <<profile, trail, call, start, made, counted, alone, stops>>

sellerVars == <<orders, history, credits, calls, late, req, faults,
                profile, trail, call, start, made, counted, alone, stops>>

Sale ==
  [status |-> "DELIVERED", payment_status |-> "PROTECTED",
   delivery_status |-> "DELIVERED", escrow_state |-> "FUNDED",
   tx_hashes |-> {"funding_tx_hash"}]

SellerInit ==
  /\ orders = [o \in Orders |-> Sale]
  /\ calls = [o \in Orders |-> {"create_escrow", "fund_escrow"}]
  /\ history = [o \in Orders |-> {"PAYMENT_PROTECTED", "DELIVERED"}]
  /\ late = {} /\ faults = 0
  /\ credits = [o \in Orders |-> 0]
  /\ req = [r \in Requests |-> Idle]
  /\ Trust!Init

\* Everything a handler does before it reports to the trust engine.
Settle(r) ==
  /\ \/ Submit(r) \/ VerifyHash(r) \/ Reject(r) \/ Poll(r)
     \/ WriteConfirmDelivery(r) \/ WriteRefund(r) \/ WriteDispute(r) \/ WriteResolve(r)
     \/ Log(r)
  /\ UNCHANGED trustVars

Ask(r) ==
  /\ \E o \in Orders : StartConfirmDelivery(r, o) \/ StartRefund(r, o)
                         \/ StartDispute(r, o) \/ StartResolve(r, o)
  /\ UNCHANGED trustVars

Ledger ==
  /\ \/ \E r \in Requests : Land(r)
     \/ \E o \in Orders, fn \in Fns : LandLate(o, fn)
  /\ UNCHANGED trustVars

\* A statement of record_successful_transaction; the last ends the handler.
Report(r) ==
  /\ At(r, "credit") /\ Trust!Step(r)
  /\ IF call'[r].step = "idle" THEN Credit(r) ELSE UNCHANGED vars

\* A handler that stops takes its call of the trust engine with it.
Stop(r) ==
  /\ Abort(r)
  /\ IF call[r].step = "idle" THEN UNCHANGED trustVars ELSE Trust!Abort(r)

SellerNext ==
  \/ \E r \in Requests : Ask(r) \/ Settle(r) \/ Report(r) \/ Stop(r)
  \/ Ledger

SellerSpec == SellerInit /\ [][SellerNext]_sellerVars

SellerFairSpec ==
  /\ SellerSpec
  /\ \A r \in Requests :
       /\ WF_sellerVars(Settle(r)) /\ WF_sellerVars(Report(r))
       /\ WF_sellerVars(Land(r) /\ UNCHANGED trustVars)

-----------------------------------------------------------------------------
Released == {o \in Orders : EscrowState(calls[o]) = "RELEASED"}

Quiet == \A r \in Requests : At(r, "idle")

\* What a seller is published with is earned on chain: the count never exceeds the
\* orders whose escrow paid the seller, nor the level and the grade those of a seller
\* with as many, whatever handlers race, retry, settle a disputed order or stop.
RecordIsEarned ==
  LET earned == Trust!Profile(start + Cardinality(Released)) IN
  /\ profile.txs <= earned.txs
  /\ profile.level <= earned.level
  /\ profile.grade <= earned.grade

\* Calls of the trust engine that did not overlap, in handlers nothing stopped,
\* leave a record that has every sale the rows report as released.
RecordIsComplete ==
  Quiet /\ alone /\ faults = 0 =>
    profile.txs = start + Cardinality({o \in Orders : orders[o].payment_status = "RELEASED"})

\* Updates may be lost to each other, never all of them: once a sale is booked,
\* the seller's count grows, unless a handler was stopped.
SomeSaleCounts ==
  (\E o \in Orders : orders[o].payment_status = "RELEASED")
    ~> (profile.txs > start \/ faults > 0)

\* What has to hold of every state for it: a booked sale has made the count grow, or
\* a handler is on its way to have it counted, whichever calls overwrite each other.
SomeSaleIsCounted ==
  faults = 0 /\ (\E o \in Orders : orders[o].payment_status = "RELEASED") =>
    profile.txs > start \/ \E r \in Requests : Crediting(r)
=============================================================================
