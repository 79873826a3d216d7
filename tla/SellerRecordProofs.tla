------------------------- MODULE SellerRecordProofs -------------------------
(***************************************************************************)
(* Theorems about the composition: the count a seller is published with is *)
(* earned on chain, for any orders, handlers, calls of the trust engine    *)
(* and interruptions.  The proof counts the orders whose sale has reached  *)
(* the record, and shows that every UPDATE of the record adds one to them. *)
(***************************************************************************)
EXTENDS SellerRecord, OrderEscrowProofs, FiniteSetTheorems

-----------------------------------------------------------------------------
(* Every step is a step of the handlers and one of the trust engine.       *)

LEMMA HandlersStep == [SellerNext]_sellerVars => [Next]_vars
<1> SUFFICES ASSUME [SellerNext]_sellerVars PROVE [Next]_vars
  OBVIOUS
<1>1. ASSUME NEW r \in Requests, Ask(r) PROVE Next
  BY <1>1 DEF Ask, Next, Start
<1>2. ASSUME NEW r \in Requests, Settle(r) PROVE Next
  BY <1>2 DEF Settle, Next, Progress, Write
<1>3. ASSUME NEW r \in Requests, Report(r) PROVE [Next]_vars
  BY <1>3 DEF Report, Next, Progress
<1>4. ASSUME NEW r \in Requests, Stop(r) PROVE Next
  BY <1>4 DEF Stop, Next
<1>5. ASSUME Ledger PROVE Next
  BY <1>5 DEF Ledger, Next
<1>6. QED
  BY <1>1, <1>2, <1>3, <1>4, <1>5 DEF SellerNext, sellerVars, vars

LEMMA RecordStep ==
  ASSUME [SellerNext]_sellerVars
  PROVE  UNCHANGED trustVars \/ \E r \in Requests : Report(r) \/ (Stop(r) /\ Trust!Abort(r))
BY DEF SellerNext, Ask, Settle, Ledger, Stop, sellerVars, trustVars

-----------------------------------------------------------------------------
(* The record by itself.                                                   *)

CallSteps == {"idle", "update", "log"}

RecordInv ==
  /\ profile \in Trust!Profiles /\ start \in Nat /\ counted \in Nat
  /\ call \in [Requests -> [step : CallSteps, seen : Trust!Profiles]]
  /\ profile.txs <= start + counted
  /\ \A r \in Requests : call[r].step # "idle" => call[r].seen.txs <= start + counted

LEMMA ProfileOf ==
  ASSUME NEW n \in Nat
  PROVE  Trust!Profile(n) \in Trust!Profiles /\ Trust!Profile(n).txs = n
BY DEF Trust!Profile, Trust!Profiles, Trust!Levels, Trust!Grades,
   Trust!calculate_trust_level, Trust!calculate_seller_grade

LEMMA IdleCall ==
  /\ Trust!Idle \in [step : CallSteps, seen : Trust!Profiles]
  /\ Trust!Idle.step = "idle"
BY ProfileOf DEF Trust!Idle, CallSteps

LEMMA InitRecord == SellerInit => RecordInv
<1> SUFFICES ASSUME SellerInit PROVE RecordInv
  OBVIOUS
<1>1. start \in Nat /\ profile = Trust!Profile(start) /\ counted = 0
      /\ call = [r \in Requests |-> Trust!Idle]
  BY SalesAssumption DEF SellerInit, Trust!Init
<1>2. QED
  BY <1>1, ProfileOf, IdleCall DEF RecordInv

LEMMA NextRecord ==
  ASSUME RecordInv, [SellerNext]_sellerVars
  PROVE  RecordInv'
<1>1. CASE UNCHANGED trustVars
  BY <1>1 DEF RecordInv, trustVars
<1>2. ASSUME NEW r \in Requests, Trust!UpsertProfile(r) PROVE RecordInv'
  BY <1>2 DEF RecordInv, Trust!UpsertProfile, CallSteps
<1>3. ASSUME NEW r \in Requests, Trust!UpdateProfile(r) PROVE RecordInv'
  <2>1. /\ call[r].seen \in Trust!Profiles /\ call[r].seen.txs \in Nat
        /\ call[r].seen.txs <= start + counted
    BY <1>3 DEF RecordInv, Trust!UpdateProfile, Trust!Profiles
  <2>2. profile' \in Trust!Profiles /\ profile'.txs = call[r].seen.txs + 1
    BY <1>3, <2>1, ProfileOf DEF Trust!UpdateProfile, Trust!NewRow
  <2>3. start' = start /\ counted' = counted + 1
    BY <1>3 DEF Trust!UpdateProfile
  <2>4. call' \in [Requests -> [step : CallSteps, seen : Trust!Profiles]]
    <3>1. CASE call' = [call EXCEPT ![r] = Trust!Idle]
      BY <3>1, IdleCall DEF RecordInv
    <3>2. CASE call' = [call EXCEPT ![r].step = "log"]
      BY <3>2 DEF RecordInv, CallSteps
    <3>3. QED
      BY <1>3, <3>1, <3>2 DEF Trust!UpdateProfile
  <2>5. ASSUME NEW s \in Requests, call'[s].step # "idle"
        PROVE  call[s].step # "idle" /\ call'[s].seen = call[s].seen
    BY <1>3, <2>5, IdleCall DEF Trust!UpdateProfile, RecordInv
  <2>6. \A s \in Requests : call[s].seen.txs \in Nat
    BY DEF RecordInv, Trust!Profiles
  <2>7. QED
    BY <2>1, <2>2, <2>3, <2>4, <2>5, <2>6 DEF RecordInv
<1>4. ASSUME NEW r \in Requests, Trust!AppendHistory(r) \/ Trust!Abort(r) PROVE RecordInv'
  <2>1. /\ call' = [call EXCEPT ![r] = Trust!Idle]
        /\ UNCHANGED <<profile, start, counted>>
    BY <1>4 DEF Trust!AppendHistory, Trust!Abort
  <2>2. QED
    BY <2>1, IdleCall DEF RecordInv
<1>5. QED
  BY <1>1, <1>2, <1>3, <1>4, RecordStep DEF Report, Trust!Step

-----------------------------------------------------------------------------
(* Handlers and calls together.                                            *)

\* Only a handler that has come to its credit has a call of the trust engine.
CallInv == \A r \in Requests : call[r].step # "idle" => At(r, "credit")

\* A resolution about to be booked is not booked yet.
LastSale ==
  \A r \in Requests :
    Settling(r) /\ ~Crediting(r) => Row(r).payment_status # "RELEASED"

\* The sales that are booked and whose handler, if it still runs, has updated the
\* record: no handler may count them any more.
Counting(r) == Crediting(r) /\ call[r].step \in {"idle", "update"}

Done ==
  {o \in Orders : /\ orders[o].payment_status = "RELEASED"
                  /\ \A r \in Requests : Counting(r) => req[r].order # o}

SalesInv ==
  /\ OrderInv /\ RecordInv /\ CallInv /\ LastSale
  /\ counted <= Cardinality(Done)

LEMMA ReportEnds ==
  ASSUME TypeOK, NEW r \in Requests, Report(r)
  PROVE  \/ UNCHANGED vars /\ call'[r].step # "idle"
         \/ Ends(req'[r]) /\ req'[r] # req[r] /\ UNCHANGED <<orders, calls>>
<1>1. CASE Credit(r)
  BY <1>1, Stops DEF Credit, At, Ends
<1>2. QED
  BY <1>1 DEF Report

LEMMA StopEnds ==
  ASSUME TypeOK, NEW r \in Requests, Stop(r)
  PROVE  Ends(req'[r])
BY Stops DEF Stop, Abort

LEMMA OthersCalls ==
  ASSUME RecordInv, NEW r \in Requests, Trust!Step(r) \/ Trust!Abort(r)
  PROVE  \A s \in Requests \ {r} : call'[s] = call[s]
BY DEF RecordInv, Trust!Step, Trust!UpsertProfile, Trust!UpdateProfile,
   Trust!AppendHistory, Trust!Abort

LEMMA NextCalls ==
  ASSUME SafeHashes, SalesInv, [SellerNext]_sellerVars
  PROVE  CallInv'
<1> SUFFICES ASSUME NEW r \in Requests, call'[r].step # "idle" PROVE req'[r].step = "credit"
  BY DEF CallInv, At
<1>1. TypeOK /\ RecordInv
  BY DEF SalesInv, OrderInv, PaymentInv
<1>2. ASSUME NEW s \in Requests, Report(s) PROVE req'[r].step = "credit"
  <2>1. CASE s = r
    <3>1. UNCHANGED vars \/ Credit(r)
      BY <1>2, <2>1 DEF Report
    <3>2. UNCHANGED vars /\ At(r, "credit")
      BY <1>2, <2>1 DEF Report
    <3>3. QED
      BY <3>2 DEF vars, At
  <2>2. CASE s # r
    <3>1. call'[r] = call[r]
      BY <1>1, <1>2, <2>2, OthersCalls DEF Report
    <3>2. req'[r] = req[r]
      BY <1>1, <1>2, <2>2, Stops DEF Report, Credit, vars
    <3>3. QED
      BY <3>1, <3>2 DEF SalesInv, CallInv, At
  <2>3. QED
    BY <2>1, <2>2
<1>3. ASSUME NEW s \in Requests, Stop(s) PROVE req'[r].step = "credit"
  <2>1. CASE s = r
    <3>1. call'[r].step = "idle"
      BY <1>1, <1>3, <2>1, IdleCall DEF Stop, trustVars, Trust!Abort, RecordInv
    <3>2. QED
      BY <3>1
  <2>2. CASE s # r
    <3>1. call'[r] = call[r]
      BY <1>1, <1>3, <2>2, OthersCalls DEF Stop, trustVars
    <3>2. req'[r] = req[r]
      BY <1>1, <1>3, <2>2, Stops DEF Stop, Abort
    <3>3. QED
      BY <3>1, <3>2 DEF SalesInv, CallInv, At
  <2>3. QED
    BY <2>1, <2>2
<1>4. ASSUME call' = call, req'[r] = req[r] PROVE req'[r].step = "credit"
  BY <1>4 DEF SalesInv, CallInv, At
<1>5. ASSUME NEW s \in Requests, Ask(s) \/ Settle(s) PROVE req'[r].step = "credit"
  <2>1. call' = call /\ ~At(s, "credit")
    BY <1>5 DEF Ask, Settle, trustVars, At, StartConfirmDelivery, StartRefund,
       StartDispute, StartResolve, Submit, VerifyHash, Reject, Poll, WriteConfirmDelivery,
       WriteRefund, WriteDispute, WriteResolve, Log
  <2>2. s # r
    BY <2>1 DEF SalesInv, CallInv
  <2>3. req'[r] = req[r]
    <3>1. ASSUME NEW row, req' = [req EXCEPT ![s] = row] PROVE req'[r] = req[r]
      BY <1>1, <2>2, <3>1 DEF TypeOK
    <3>2. ASSUME \E step : Goto(s, step) PROVE req'[r] = req[r]
      BY <3>1, <3>2 DEF Goto
    <3>3. ASSUME End(s) PROVE req'[r] = req[r]
      BY <3>1, <3>3 DEF End
    <3>4. QED
      BY <1>5, <3>1, <3>2, <3>3 DEF Ask, Settle, StartConfirmDelivery, StartRefund,
         StartDispute, StartResolve, Submit, VerifyHash, Reject, Poll, AfterPoll,
         WriteConfirmDelivery, WriteRefund, WriteDispute, WriteResolve, Log, Begin
  <2>4. QED
    BY <1>4, <2>1, <2>3
<1>6. ASSUME Ledger PROVE req'[r].step = "credit"
  <2>1. call' = call /\ At(r, "credit")
    BY <1>6 DEF Ledger, trustVars, SalesInv, CallInv
  <2>2. req'[r] = req[r]
    BY <1>1, <1>6, <2>1 DEF Ledger, Land, LandLate, At, TypeOK
  <2>3. QED
    BY <1>4, <2>1, <2>2
<1>7. QED
  BY <1>2, <1>3, <1>4, <1>5, <1>6 DEF SellerNext, sellerVars

\* A resolution is booked by the handler that comes to be the only one: no other
\* writes the row from the moment its call was accepted.
LEMMA NextLastSale ==
  ASSUME SafeHashes, OrderInv, OrderInv', LastSale, [Next]_vars
  PROVE  LastSale'
<1> SUFFICES ASSUME NEW r \in Requests, Settling(r)', ~Crediting(r)',
                    orders'[req'[r].order].payment_status = "RELEASED"
             PROVE  FALSE
  BY DEF LastSale, Row
<1> DEFINE o == req'[r].order
<1> USE DEF OrderInv
<1>1. OneMoves /\ (\A s \in Requests : SlotMove(s)) /\ o \in Orders
  BY SlotSteps DEF PaymentInv, TypeOK, Request
<1>2. req'[r].op = "resolve_release" /\ (req'[r].step = "write" \/ req'[r].tx = "success")
  BY DEF Settling
<1>3. CASE Settling(r) /\ ~Crediting(r) /\ req[r].order = o /\ req[r].op = "resolve_release"
  <2>1. orders[o].payment_status # "RELEASED" /\ "resolve_release" \in calls[o]
    BY <1>3 DEF LastSale, Row, Settling, DoneOnChain, ChainOps, Fns, ResolveFns
  <2>2. PICK s \in Requests : RowMove(s, o) /\ Write(s)
    BY <1>1, <2>1, RowWrites DEF PaymentInv
  <2>3. req[s].op \in ReleaseFns /\ req[s].step = "write" /\ req[s].order = o
    BY <2>1, <2>2 DEF RowMove, At
  <2>4. req[s].op \in calls[o]
    BY <2>3 DEF DoneOnChain, ReleaseFns, ChainOps, Fns, ResolveFns
  <2>5. req[s].op = "resolve_release"
    BY <1>1, <2>1, <2>3, <2>4 DEF OneRelease, ReleaseFns
  <2>6. Settling(s)
    BY <2>3, <2>5 DEF Settling
  <2>7. s = r
    BY <1>3, <2>3, <2>6 DEF CreditInv
  <2>8. req'[r].step = "log" \/ Ends(req'[r])
    <3>1. CASE End(r)
      BY <3>1, Stops DEF PaymentInv
    <3>2. CASE ~End(r)
      BY <2>2, <2>7, <3>2, WriteBooks, Moves DEF PaymentInv, Steps
    <3>3. QED
      BY <3>1, <3>2
  <2>9. QED
    BY <1>2, <2>8 DEF Ends, Crediting, ReleaseFns
<1>4. CASE Starts(req'[r]) \/ Ends(req'[r])
  BY <1>2, <1>4 DEF Starts, Ends
<1>5. CASE req'[r] = req[r]
  BY <1>2, <1>3, <1>5 DEF Settling, Crediting
<1>6. CASE Follows(req[r], req'[r]) /\ ~(Settling(r) /\ ~Crediting(r))
  <2>1. req[r].op = "resolve_release" /\ req[r].order = o
    BY <1>2, <1>6 DEF Follows
  <2>2. ~Crediting(r) => req[r].step # "write" /\ req[r].tx # "success"
    BY <1>6, <2>1 DEF Settling
  <2>3. req'[r].step = "wait" /\ Lands(req[r])
    BY <1>2, <1>6, <2>1, <2>2 DEF Follows, Crediting, ReleaseFns, ResolveFns, ChainOps, Fns
  <2>4. Accepts("resolve_release", calls[o]) /\ "resolve_release" \in calls'[o]
    BY <2>1, <2>3 DEF Lands
  <2>5. /\ EscrowState(calls[o]) \notin {"RELEASED", "REFUNDED"}
        /\ calls[o] \cap ReleaseFns = {}
    BY <1>1, <2>4, SettledRefuses, PayoutDecides DEF PaymentInv, TypeOK, Fns, ResolveFns
  <2>6. orders[o].payment_status # "RELEASED"
    BY <1>1, <2>5 DEF PaymentInv, PaymentAgrees
  <2>7. UNCHANGED calls
    BY <1>1, <2>6, RowSteps DEF PaymentInv
  <2>8. QED
    BY <1>1, <2>4, <2>5, <2>7 DEF ReleaseFns
<1>7. CASE Follows(req[r], req'[r]) /\ Settling(r) /\ ~Crediting(r)
  BY <1>2, <1>3, <1>7 DEF Follows
<1>8. QED
  BY <1>1, <1>4, <1>5, <1>6, <1>7 DEF SlotMove

\* A sale that has reached the record stays there, and no handler comes to count
\* it a second time.
LEMMA DoneStays ==
  ASSUME SafeHashes, SalesInv, OrderInv', [SellerNext]_sellerVars
  PROVE  Done \subseteq Done'
<1> SUFFICES ASSUME NEW o \in Orders, o \in Done PROVE o \in Done'
  BY DEF Done
<1> USE DEF SalesInv
<1>1. [Next]_vars /\ OrderInv /\ PaymentInv /\ PaymentInv' /\ TypeOK
  BY HandlersStep DEF OrderInv, PaymentInv
<1>2. orders'[o].payment_status = "RELEASED" /\ orders[o].payment_status = "RELEASED"
  BY <1>1, ReleasedStays DEF Done
<1>3. ASSUME NEW r \in Requests, Counting(r)', req'[r].order = o
      PROVE  FALSE
  <2>1. SlotMove(r) /\ Crediting(r)' /\ call'[r].step \in {"idle", "update"}
    BY <1>1, <1>3, SlotSteps DEF Counting
  <2>2. CASE Crediting(r) /\ req[r].order = o
    <3>1. call[r].step = "log" /\ call'[r] # call[r]
      BY <2>1, <2>2 DEF Done, Counting, RecordInv, CallSteps
    <3>2. PICK s \in Requests : Report(s) \/ (Stop(s) /\ Trust!Abort(s))
      BY <3>1, RecordStep DEF trustVars
    <3>3. s = r
      BY <3>1, <3>2, OthersCalls DEF Report
    <3>4. CASE Report(r)
      <4>1. call'[r].step = "idle"
        BY <3>1, <3>4, IdleCall
           DEF Report, Trust!Step, Trust!UpsertProfile, Trust!UpdateProfile,
               Trust!AppendHistory, RecordInv
      <4>2. Ends(req'[r])
        BY <1>1, <3>4, <4>1, ReportEnds
      <4>3. QED
        BY <2>1, <4>2 DEF Ends, Crediting, ReleaseFns
    <3>5. CASE Stop(r)
      BY <1>1, <2>1, <3>5, StopEnds DEF Ends, Crediting, ReleaseFns
    <3>6. QED
      BY <3>2, <3>3, <3>4, <3>5
  <2>3. CASE req'[r] = req[r]
    BY <1>3, <2>1, <2>2, <2>3 DEF Crediting
  <2>4. CASE Starts(req'[r]) \/ Ends(req'[r])
    BY <2>1, <2>4 DEF Starts, Ends, Crediting
  <2>5. CASE Follows(req[r], req'[r]) /\ ~Crediting(r)
    <3>1. /\ req[r].op \in ReleaseFns /\ req[r].order = o
          /\ req[r].step = "write" /\ Books(req[r])
      BY <1>3, <2>1, <2>5 DEF Follows, Crediting
    <3>2. req[r].op = "resolve_release"
      BY <1>2, <3>1 DEF Books, ReleaseFns
    <3>3. QED
      BY <1>2, <2>5, <3>1, <3>2 DEF LastSale, Settling, Row
  <2>6. CASE Follows(req[r], req'[r]) /\ Crediting(r)
    BY <1>3, <2>2, <2>6 DEF Follows
  <2>7. QED
    BY <2>1, <2>3, <2>4, <2>5, <2>6 DEF SlotMove
<1>4. QED
  BY <1>2, <1>3 DEF Done

\* An UPDATE of the record adds its sale to those that have reached it.
LEMMA CountAdds ==
  ASSUME SafeHashes, SalesInv, OrderInv', [SellerNext]_sellerVars, counted' # counted
  PROVE  counted' = counted + 1 /\ \E o \in Orders : o \notin Done /\ o \in Done'
<1> USE DEF SalesInv
<1>1. TypeOK /\ [Next]_vars /\ OrderInv /\ PaymentInv /\ PaymentInv' /\ CreditInv
  BY HandlersStep DEF OrderInv, PaymentInv
<1>2. PICK r \in Requests : Report(r) /\ Trust!UpdateProfile(r)
  BY RecordStep DEF trustVars, Report, Trust!Step, Trust!UpsertProfile,
     Trust!AppendHistory, Trust!Abort
<1> DEFINE o == req[r].order
<1>3. o \in Orders /\ At(r, "credit") /\ Crediting(r) /\ call[r].step = "update"
  BY <1>1, <1>2 DEF Report, Trust!UpdateProfile, TypeOK, Request, CreditInv, Crediting, At
<1>4. orders[o].payment_status = "RELEASED" /\ o \notin Done
  BY <1>1, <1>3 DEF CreditInv, Row, Done, Counting
<1>5. orders'[o].payment_status = "RELEASED"
  BY <1>1, <1>3, <1>4, ReleasedStays
<1>6. ASSUME NEW s \in Requests, Counting(s)', req'[s].order = o
      PROVE  FALSE
  <2>1. CASE s = r
    <3>1. CASE UNCHANGED vars /\ call'[r].step # "idle"
      <4>1. call'[r].step = "log"
        BY <1>2, <3>1, IdleCall DEF Trust!UpdateProfile, RecordInv
      <4>2. QED
        BY <1>6, <2>1, <4>1 DEF Counting
    <3>2. CASE Ends(req'[r])
      BY <1>6, <2>1, <3>2 DEF Ends, Counting, Crediting, ReleaseFns
    <3>3. QED
      BY <1>1, <1>2, <3>1, <3>2, ReportEnds
  <2>2. CASE s # r
    <3>1. req'[s] = req[s]
      BY <1>1, <1>2, <2>2, Stops DEF Report, Credit, vars
    <3>2. Crediting(s) /\ req[s].order = o
      BY <1>6, <3>1 DEF Counting, Crediting
    <3>3. QED
      BY <1>1, <1>3, <2>2, <3>2 DEF CreditInv, Settling
  <2>3. QED
    BY <2>1, <2>2
<1>7. o \in Done'
  BY <1>3, <1>5, <1>6 DEF Done
<1>8. QED
  BY <1>2, <1>3, <1>4, <1>7 DEF Trust!UpdateProfile

LEMMA NextCounted ==
  ASSUME SafeHashes, SalesInv, OrderInv', [SellerNext]_sellerVars
  PROVE  counted' <= Cardinality(Done')
<1>1. IsFiniteSet(Done) /\ IsFiniteSet(Done')
  BY SalesAssumption, FS_Subset DEF Done
<1>2. Cardinality(Done) \in Nat /\ Cardinality(Done') \in Nat /\ counted \in Nat
  BY <1>1, FS_CardinalityType DEF SalesInv, RecordInv
<1>3. Done \subseteq Done'
  BY DoneStays
<1>4. CASE counted' = counted
  BY <1>1, <1>2, <1>3, <1>4, FS_Subset DEF SalesInv
<1>5. CASE counted' # counted
  <2>1. PICK o \in Orders : o \notin Done /\ o \in Done' /\ counted' = counted + 1
    BY <1>5, CountAdds
  <2>2. Cardinality(Done \cup {o}) = Cardinality(Done) + 1
    BY <1>1, <2>1, FS_AddElement
  <2>3. Done \cup {o} \subseteq Done'
    BY <1>3, <2>1
  <2>4. Cardinality(Done \cup {o}) <= Cardinality(Done')
    BY <1>1, <2>3, FS_Subset
  <2>5. QED
    BY <1>2, <2>1, <2>2, <2>4 DEF SalesInv
<1>6. QED
  BY <1>4, <1>5

-----------------------------------------------------------------------------
(* The sales as they stand when the handlers of this composition set in.   *)

LEMMA InitSales == SellerInit => SalesInv
<1> SUFFICES ASSUME SellerInit PROVE SalesInv
  OBVIOUS
<1> USE DEF SellerInit
<1>1. \A r \in Requests : req[r] = Idle /\ req[r].op = "update_status"
                            /\ req[r].step = "idle" /\ req[r].tx = "none"
  BY DEF Idle
<1>2. ASSUME NEW o \in Orders
      PROVE  /\ orders[o] = Sale /\ credits[o] = 0
             /\ calls[o] = {"create_escrow", "fund_escrow"}
             /\ history[o] = {"PAYMENT_PROTECTED", "DELIVERED"}
             /\ EscrowState(calls[o]) = "FUNDED"
  BY DEF EscrowState, ReleaseFns, RefundFns
<1>3. TypeOK
  <2>1. Sale \in Order
    BY DEF Sale, Order, Statuses, ValidStatuses, PaymentStatuses, DeliveryStatuses,
           EscrowStates, TxColumns
  <2>2. orders \in [Orders -> Order] /\ req \in [Requests -> Request]
    BY <2>1, IdleType
  <2>3. calls \in [Orders -> SUBSET Fns] /\ history \in [Orders -> SUBSET Events]
    BY DEF Fns, Events, ValidStatuses
  <2>4. QED
    BY <2>2, <2>3, ConstantsAssumption DEF TypeOK
<1>4. PaymentInv
  BY <1>1, <1>2, <1>3 DEF PaymentInv, OnContract, OneWinner, WritesBacked, PaymentAgrees,
     Sale, ReleaseFns, RefundFns
<1>5. DoneOnChain /\ OneRelease
  BY <1>1, <1>2 DEF DoneOnChain, OneRelease, ReleaseFns
<1>6. ColumnsAgree
  BY <1>1, <1>2 DEF ColumnsAgree, KnowsFunding, AfterFunding, Sale, ReleaseFns, ResolveFns
<1>7. CreditInv
  BY <1>1, <1>2 DEF CreditInv, Crediting, Settling
<1>8. EscrowStateAgrees /\ AuditAgrees
  BY <1>2 DEF EscrowStateAgrees, Reached, AuditAgrees, Sale
<1>9. LastSale /\ CallInv
  BY <1>1 DEF LastSale, Crediting, Settling, CallInv, Trust!Init, Trust!Idle
<1>10. Done = {} /\ counted = 0
  BY <1>2 DEF Done, Sale, Trust!Init
<1>11. counted <= Cardinality(Done)
  BY <1>10, FS_EmptySet
<1>12. QED
  BY <1>4, <1>5, <1>6, <1>7, <1>8, <1>9, <1>11, InitRecord DEF SalesInv, OrderInv

LEMMA NextSales == SafeHashes /\ SalesInv /\ [SellerNext]_sellerVars => SalesInv'
<1> SUFFICES ASSUME SafeHashes, SalesInv, [SellerNext]_sellerVars PROVE SalesInv'
  OBVIOUS
<1>1. [Next]_vars /\ OrderInv /\ LastSale /\ RecordInv
  BY HandlersStep DEF SalesInv
<1>2. OrderInv'
  BY <1>1, NextOrder
<1>3. RecordInv' /\ CallInv' /\ LastSale'
  BY <1>1, <1>2, NextRecord, NextCalls, NextLastSale
<1>4. QED
  BY <1>2, <1>3, NextCounted DEF SalesInv

LEMMA SalesInvariant == ASSUME SafeHashes PROVE SellerSpec => []SalesInv
<1>1. SalesInv /\ [SellerNext]_sellerVars => SalesInv'
  BY NextSales
<1>2. QED
  BY <1>1, InitSales, PTL DEF SellerSpec

-----------------------------------------------------------------------------
(* The record of the sales is a trust engine's.                            *)

TrustTheorems == INSTANCE TrustEngineProofs WITH
  Calls <- Requests, MaxCalls <- MaxCredits, history <- trail, faults <- stops

\* The handlers of OrderEscrow call the trust engine as TrustEngine lets its callers
\* do: each step of theirs is one of its steps, or leaves the record alone.
THEOREM SalesRunTheEngine == SellerSpec => Trust!Spec
<1>1. SellerInit => Trust!Init
  BY DEF SellerInit
<1>2. ASSUME [SellerNext]_sellerVars PROVE [Trust!Next]_(Trust!vars)
  <2>1. CASE UNCHANGED trustVars
    BY <2>1 DEF trustVars, Trust!vars
  <2>2. CASE \E r \in Requests : Report(r) \/ (Stop(r) /\ Trust!Abort(r))
    BY <2>2 DEF Report, Trust!Next
  <2>3. QED
    BY <1>2, <2>1, <2>2, RecordStep
<1>3. QED
  BY <1>1, <1>2, PTL DEF SellerSpec, Trust!Spec

\* The theorems of TrustEngine are about its own calls; here they hold of the calls
\* that handlers make, which race for the escrows and stop with their handler.
THEOREM EngineOfSales ==
  SellerSpec => [](Trust!NeverInflated /\ Trust!HistoryPromotesByOne /\ Trust!ExactWhenAlone)
<1>1. Trust!Spec => TrustTheorems!Spec
  <2> USE DEF Trust!Profile, TrustTheorems!Profile,
          Trust!calculate_trust_level, TrustTheorems!calculate_trust_level,
          Trust!calculate_seller_grade, TrustTheorems!calculate_seller_grade,
          Trust!Rate, TrustTheorems!Rate, Trust!Idle, TrustTheorems!Idle
  <2>1. Trust!Init => TrustTheorems!Init
    BY DEF Trust!Init, TrustTheorems!Init
  <2>2. [Trust!Next]_(Trust!vars) => [TrustTheorems!Next]_(TrustTheorems!vars)
    BY DEF Trust!Next, TrustTheorems!Next, Trust!Step, TrustTheorems!Step, Trust!vars, TrustTheorems!vars,
       Trust!UpsertProfile, TrustTheorems!UpsertProfile, Trust!UpdateProfile, TrustTheorems!UpdateProfile,
       Trust!AppendHistory, TrustTheorems!AppendHistory, Trust!Abort, TrustTheorems!Abort,
       Trust!NewRow, TrustTheorems!NewRow, Trust!LevelChanged, TrustTheorems!LevelChanged,
       Trust!Entry, TrustTheorems!Entry
  <2>3. QED
    BY <2>1, <2>2, PTL DEF Trust!Spec, TrustTheorems!Spec
<1>2. TrustTheorems!Spec =>
        [](TrustTheorems!NeverInflated /\ TrustTheorems!HistoryPromotesByOne /\ TrustTheorems!ExactWhenAlone)
  BY TrustTheorems!NotInflated, TrustTheorems!TrailPromotes, TrustTheorems!AloneIsExact,
     SalesAssumption, ConstantsAssumption, PTL
<1>3. /\ TrustTheorems!NeverInflated => Trust!NeverInflated
      /\ TrustTheorems!HistoryPromotesByOne => Trust!HistoryPromotesByOne
      /\ TrustTheorems!ExactWhenAlone => Trust!ExactWhenAlone
  BY DEF Trust!NeverInflated, TrustTheorems!NeverInflated, Trust!PromotesByOne,
     TrustTheorems!PromotesByOne, Trust!HistoryPromotesByOne, TrustTheorems!HistoryPromotesByOne,
     Trust!ExactWhenAlone, TrustTheorems!ExactWhenAlone, Trust!Profile, TrustTheorems!Profile,
     Trust!calculate_trust_level, TrustTheorems!calculate_trust_level,
     Trust!calculate_seller_grade, TrustTheorems!calculate_seller_grade,
     Trust!Rate, TrustTheorems!Rate
<1>4. QED
  BY <1>1, <1>2, <1>3, SalesRunTheEngine, PTL

-----------------------------------------------------------------------------
\* A seller is never published with more sales than escrows have paid, nor with a
\* level or a grade they do not earn, for any number of orders, of handlers that race
\* and stop, and of overlapping calls; here and below under SafeHashes, which excludes
\* that two resolutions are shown one transaction and report the sale twice.
THEOREM RecordEarned == ASSUME SafeHashes PROVE SellerSpec => []RecordIsEarned
<1>1. ASSUME SalesInv, Trust!NeverInflated PROVE RecordIsEarned
  <2> DEFINE most == start + Cardinality(Released)
  <2>1. Done \subseteq Released
    BY <1>1 DEF SalesInv, OrderInv, PaymentInv, PaymentAgrees, Done, Released
  <2>2. IsFiniteSet(Released) /\ IsFiniteSet(Done)
    BY SalesAssumption, FS_Subset DEF Released, Done
  <2>3. Cardinality(Done) <= Cardinality(Released)
    BY <2>1, <2>2, FS_Subset
  <2>4. Cardinality(Done) \in Nat /\ Cardinality(Released) \in Nat
    BY <2>2, FS_CardinalityType
  <2>5. /\ profile.txs \in Nat /\ start \in Nat /\ counted \in Nat
        /\ profile.txs <= start + counted /\ counted <= Cardinality(Done)
    BY <1>1 DEF SalesInv, RecordInv, Trust!Profiles
  <2>6. most \in Nat /\ profile.txs <= most
    BY <2>3, <2>4, <2>5
  <2> HIDE DEF most
  <2>7. /\ Trust!calculate_trust_level(profile.txs, 100) <= Trust!calculate_trust_level(most, 100)
        /\ Trust!calculate_seller_grade(profile.txs, 100) <= Trust!calculate_seller_grade(most, 100)
    BY <2>5, <2>6, TrustTheorems!RatingMonotone
       DEF Trust!calculate_trust_level, TrustTheorems!calculate_trust_level,
           Trust!calculate_seller_grade, TrustTheorems!calculate_seller_grade
  <2>8. profile = Trust!Profile(profile.txs)
    BY <1>1 DEF Trust!NeverInflated
  <2>9. QED
    BY <2>6, <2>7, <2>8 DEF RecordIsEarned, most, Trust!Profile, Trust!Rate
<1>2. SalesInv /\ Trust!NeverInflated => RecordIsEarned
  BY <1>1
<1>3. QED
  BY <1>2, SalesInvariant, EngineOfSales, PTL

-----------------------------------------------------------------------------
(* A record nothing was lost to: calls that did not overlap or stop.       *)

\* Calls that did not overlap count exactly; and as long as no handler stopped, a
\* sale that no handler has still to count has been counted.
CompleteInv ==
  /\ alone =>
       /\ profile.txs = start + counted
       /\ \A r, s \in Requests : call[r].step # "idle" /\ call[s].step # "idle" => r = s
       /\ \A r \in Requests : call[r].step = "update" => call[r].seen.txs = profile.txs
  /\ faults = 0 => Cardinality(Done) <= counted

LEMMA NextAlone ==
  ASSUME RecordInv, CompleteInv, [SellerNext]_sellerVars, alone'
  PROVE  /\ profile'.txs = start' + counted'
         /\ \A r, s \in Requests : call'[r].step # "idle" /\ call'[s].step # "idle" => r = s
         /\ \A r \in Requests : call'[r].step = "update" => call'[r].seen.txs = profile'.txs
<1> DEFINE Exact ==
      /\ profile'.txs = start' + counted'
      /\ \A r, s \in Requests : call'[r].step # "idle" /\ call'[s].step # "idle" => r = s
      /\ \A r \in Requests : call'[r].step = "update" => call'[r].seen.txs = profile'.txs
<1>1. CASE UNCHANGED trustVars
  BY <1>1 DEF CompleteInv, trustVars
<1>2. ASSUME NEW r \in Requests, Trust!UpsertProfile(r) PROVE Exact
  BY <1>2 DEF Trust!UpsertProfile, CompleteInv, RecordInv
<1>3. ASSUME NEW r \in Requests, Trust!UpdateProfile(r) PROVE Exact
  <2>1. /\ alone /\ call[r].step = "update" /\ call[r].seen.txs \in Nat
        /\ call[r].seen.txs = start + counted
        /\ \A s \in Requests \ {r} : call[s].step = "idle" /\ call'[s] = call[s]
    BY <1>3 DEF Trust!UpdateProfile, CompleteInv, RecordInv, Trust!Profiles
  <2>2. profile'.txs = start + counted + 1
    BY <1>3, <2>1, ProfileOf DEF Trust!UpdateProfile, Trust!NewRow, RecordInv
  <2>3. start' = start /\ counted' = counted + 1
    BY <1>3 DEF Trust!UpdateProfile
  <2>4. call'[r].step # "update"
    BY <1>3, IdleCall DEF Trust!UpdateProfile, RecordInv
  <2>5. QED
    BY <2>1, <2>2, <2>3, <2>4 DEF RecordInv
<1>4. ASSUME NEW r \in Requests, Trust!AppendHistory(r) \/ Trust!Abort(r) PROVE Exact
  <2>1. /\ alone /\ call' = [call EXCEPT ![r] = Trust!Idle]
        /\ UNCHANGED <<profile, start, counted>>
    BY <1>4 DEF Trust!AppendHistory, Trust!Abort
  <2>2. \A s \in Requests : call'[s].step # "idle" => call'[s] = call[s]
    BY <2>1, IdleCall DEF RecordInv
  <2>3. QED
    BY <2>1, <2>2 DEF CompleteInv
<1>5. QED
  BY <1>1, <1>2, <1>3, <1>4, RecordStep DEF Report, Trust!Step

\* A handler that has booked its sale goes on to count it.
LEMMA BookedCounts ==
  ASSUME SafeHashes, SalesInv, [SellerNext]_sellerVars, NEW o \in Orders,
         orders[o].payment_status # "RELEASED", orders'[o].payment_status = "RELEASED"
  PROVE  \E r \in Requests : Counting(r)' /\ req'[r].order = o
<1> USE DEF SalesInv
<1>1. [Next]_vars /\ PaymentInv /\ TypeOK /\ RecordInv
  BY HandlersStep DEF OrderInv, PaymentInv
<1>2. PICK r \in Requests : RowMove(r, o) /\ Write(r)
  BY <1>1, RowWrites
<1>3. req[r].op \in ReleaseFns /\ req[r].order = o
  BY <1>2 DEF RowMove
<1>4. ~End(r)
  <2>1. orders' # orders
    OBVIOUS
  <2>2. Goto(r, "log")
    BY <1>2, <2>1 DEF Write, WriteFund, WriteConfirmDelivery, WriteRefund, WriteDispute,
       WriteResolve, WriteUpdateStatus, WritePickupInspection
  <2>3. req'[r].step = "log"
    BY <1>1, <2>2, Moves DEF Steps
  <2>4. QED
    BY <1>1, <2>3, Stops DEF Ends
<1>5. At(r, "write") /\ Goto(r, "log")
  BY <1>1, <1>2, <1>4, WriteBooks
<1>6. req'[r].step = "log" /\ req'[r].op = req[r].op /\ req'[r].order = o
  BY <1>1, <1>3, <1>5, Moves DEF Steps
<1>7. call'[r].step = "idle"
  <2>1. call[r].step = "idle"
    BY <1>5 DEF CallInv, At
  <2>2. CASE UNCHANGED trustVars
    BY <2>1, <2>2 DEF trustVars
  <2>3. ASSUME NEW s \in Requests, Report(s) \/ Stop(s) PROVE FALSE
    BY <2>3, <1>1 DEF Report, Stop, Credit, Abort, vars
  <2>4. QED
    BY <2>2, <2>3, RecordStep
<1>8. QED
  BY <1>3, <1>6, <1>7 DEF Counting, Crediting

\* While a handler has its sale still to count, it keeps on to it, unless it counts
\* it in this step or stops.
LEMMA CountingGoesOn ==
  ASSUME SafeHashes, SalesInv, [SellerNext]_sellerVars, NEW r \in Requests, Counting(r)
  PROVE  \/ Counting(r)' /\ req'[r].order = req[r].order
         \/ Report(r) /\ Trust!UpdateProfile(r)
         \/ \E s \in Requests : Stop(s)
<1> SUFFICES ASSUME ~(\E s \in Requests : Stop(s)),
                    ~(Report(r) /\ Trust!UpdateProfile(r))
             PROVE  Counting(r)' /\ req'[r].order = req[r].order
  OBVIOUS
<1> USE DEF SalesInv
<1>1. /\ PaymentInv /\ TypeOK /\ RecordInv
      /\ req[r].op \in ReleaseFns /\ req[r].step \in {"log", "credit"}
      /\ call[r].step \in {"idle", "update"}
  BY DEF OrderInv, PaymentInv, Counting, Crediting
<1>2. ASSUME req'[r] = req[r], call'[r] = call[r]
      PROVE  Counting(r)' /\ req'[r].order = req[r].order
  BY <1>2 DEF Counting, Crediting
<1>3. ASSUME NEW s \in Requests, Report(s)
      PROVE  Counting(r)' /\ req'[r].order = req[r].order
  <2>1. CASE s # r
    <3>1. req'[r] = req[r]
      BY <1>1, <1>3, <2>1, Stops DEF Report, Credit, vars
    <3>2. QED
      BY <1>1, <1>2, <1>3, <2>1, <3>1, OthersCalls DEF Report
  <2>2. CASE s = r
    <3>1. Trust!UpsertProfile(r)
      BY <1>1, <1>3, <2>2 DEF Report, Trust!Step, Trust!AppendHistory
    <3>2. call'[r].step = "update"
      BY <1>1, <3>1 DEF Trust!UpsertProfile, RecordInv
    <3>3. req' = req
      BY <1>3, <2>2, <3>2 DEF Report, vars
    <3>4. QED
      BY <1>1, <3>2, <3>3 DEF Counting, Crediting
  <2>3. QED
    BY <2>1, <2>2
<1>4. ASSUME NEW s \in Requests, Ask(s) \/ Settle(s)
      PROVE  Counting(r)' /\ req'[r].order = req[r].order
  <2>1. call' = call
    BY <1>4 DEF Ask, Settle, trustVars
  <2>2. CASE s # r
    <3>1. ASSUME NEW row, req' = [req EXCEPT ![s] = row] PROVE req'[r] = req[r]
      BY <1>1, <2>2, <3>1 DEF TypeOK
    <3>2. ASSUME \E step : Goto(s, step) PROVE req'[r] = req[r]
      BY <3>1, <3>2 DEF Goto
    <3>3. ASSUME End(s) PROVE req'[r] = req[r]
      BY <3>1, <3>3 DEF End
    <3>4. req'[r] = req[r]
      BY <1>4, <3>1, <3>2, <3>3 DEF Ask, Settle, StartConfirmDelivery, StartRefund,
         StartDispute, StartResolve, Submit, VerifyHash, Reject, Poll, AfterPoll,
         WriteConfirmDelivery, WriteRefund, WriteDispute, WriteResolve, Log, Begin
    <3>5. QED
      BY <1>2, <2>1, <3>4
  <2>3. CASE s = r
    <3>1. Log(r)
      BY <1>1, <1>4, <2>3 DEF Ask, Settle, At, StartConfirmDelivery, StartRefund,
         StartDispute, StartResolve, Submit, VerifyHash, Reject, Poll,
         WriteConfirmDelivery, WriteRefund, WriteDispute, WriteResolve
    <3>2. Goto(r, "credit")
      BY <1>1, <3>1 DEF Log, CreditedOps
    <3>3. /\ req'[r].step = "credit" /\ req'[r].op = req[r].op
          /\ req'[r].order = req[r].order
      BY <1>1, <3>2, Moves DEF Steps
    <3>4. QED
      BY <1>1, <2>1, <3>3 DEF Counting, Crediting
  <2>4. QED
    BY <2>2, <2>3
<1>5. CASE Ledger
  <2>1. call' = call
    BY <1>5 DEF Ledger, trustVars
  <2>2. req'[r] = req[r]
    BY <1>1, <1>5 DEF Ledger, Land, LandLate, At, TypeOK
  <2>3. QED
    BY <1>2, <2>1, <2>2
<1>6. CASE UNCHANGED sellerVars
  BY <1>2, <1>6 DEF sellerVars
<1>7. QED
  BY <1>3, <1>4, <1>5, <1>6 DEF SellerNext

\* No sale comes to be done but the one that is counted in the step.
LEMMA DoneIsCounted ==
  ASSUME SafeHashes, SalesInv, OrderInv', [SellerNext]_sellerVars, faults = 0, faults' = 0
  PROVE  \/ Done' \subseteq Done
         \/ counted' = counted + 1 /\ \E o \in Orders : Done' \subseteq Done \cup {o}
<1>1. ASSUME NEW s \in Requests, Stop(s) PROVE FALSE
  BY <1>1 DEF Stop, Abort
<1>2. ASSUME NEW o \in Orders, o \in Done', o \notin Done
      PROVE  \E r \in Requests : /\ Report(r) /\ Trust!UpdateProfile(r)
                                 /\ req[r].order = o
  <2>1. orders[o].payment_status = "RELEASED"
    BY <1>2, BookedCounts DEF Done
  <2>2. PICK r \in Requests : Counting(r) /\ req[r].order = o
    BY <1>2, <2>1 DEF Done
  <2>3. ~(Counting(r)' /\ req'[r].order = o)
    BY <1>2 DEF Done
  <2>4. QED
    BY <1>1, <2>2, <2>3, CountingGoesOn
<1>3. CASE Done' \subseteq Done
  BY <1>3
<1>4. CASE ~(Done' \subseteq Done)
  <2>1. PICK o \in Orders : o \in Done' /\ o \notin Done
    BY <1>4 DEF Done
  <2>2. PICK r \in Requests : Report(r) /\ Trust!UpdateProfile(r) /\ req[r].order = o
    BY <1>2, <2>1
  <2>3. counted' = counted + 1
    BY <2>2 DEF Trust!UpdateProfile
  <2>4. ASSUME NEW p \in Orders, p \in Done', p \notin Done PROVE p = o
    <3>1. PICK s \in Requests : Trust!UpdateProfile(s) /\ req[s].order = p
      BY <1>2, <2>4
    <3>2. call[s].step = "update" /\ call'[s].step # "update"
      BY <3>1, IdleCall DEF SalesInv, RecordInv, Trust!UpdateProfile
    <3>3. s = r
      BY <2>2, <3>2, OthersCalls DEF SalesInv, Trust!Step
    <3>4. QED
      BY <2>2, <3>1, <3>3
  <2>5. Done' \subseteq Done \cup {o}
    BY <2>4 DEF Done
  <2>6. QED
    BY <2>3, <2>5
<1>5. QED
  BY <1>3, <1>4

LEMMA NextComplete ==
  SafeHashes /\ SalesInv /\ SalesInv' /\ CompleteInv /\ [SellerNext]_sellerVars => CompleteInv'
<1> SUFFICES ASSUME SafeHashes, SalesInv, SalesInv', CompleteInv, [SellerNext]_sellerVars,
                    faults' = 0
             PROVE  Cardinality(Done') <= counted'
  BY NextAlone DEF CompleteInv, SalesInv
<1>1. IsFiniteSet(Done) /\ IsFiniteSet(Done')
  BY SalesAssumption, FS_Subset DEF Done
<1>2. Cardinality(Done) \in Nat /\ Cardinality(Done') \in Nat /\ counted \in Nat
  BY <1>1, FS_CardinalityType DEF SalesInv, RecordInv
<1>3. faults = 0
  <2>1. faults \in Nat
    BY ConstantsAssumption DEF SalesInv, OrderInv, PaymentInv, TypeOK
  <2>2. ASSUME NEW r \in Requests, Ask(r) \/ Settle(r) \/ Report(r) PROVE faults' = faults
    BY <2>2 DEF Ask, StartConfirmDelivery, StartRefund, StartDispute, StartResolve, Settle,
       Submit, VerifyHash, Reject, Poll, WriteConfirmDelivery, WriteRefund, WriteDispute,
       WriteResolve, Log, Report, Credit, vars
  <2>3. ASSUME NEW r \in Requests, Stop(r) PROVE faults' = faults + 1
    BY <2>3 DEF Stop, Abort
  <2>4. CASE Ledger
    BY <2>4 DEF Ledger, Land, LandLate
  <2>5. QED
    BY <2>1, <2>2, <2>3, <2>4 DEF SellerNext, sellerVars
<1>4. Cardinality(Done) <= counted
  BY <1>3 DEF CompleteInv
<1>5. CASE Done' \subseteq Done
  <2>1. Cardinality(Done') <= Cardinality(Done)
    BY <1>1, <1>5, FS_Subset
  <2>2. counted' = counted \/ counted' = counted + 1
    BY CountAdds DEF SalesInv
  <2>3. QED
    BY <1>2, <1>4, <2>1, <2>2
<1>6. ASSUME NEW o \in Orders, Done' \subseteq Done \cup {o}, counted' = counted + 1
      PROVE  Cardinality(Done') <= counted'
  <2>1. /\ IsFiniteSet(Done \cup {o})
        /\ Cardinality(Done \cup {o}) <= Cardinality(Done) + 1
    BY <1>1, <1>2, FS_AddElement
  <2>2. Cardinality(Done') <= Cardinality(Done \cup {o})
    BY <1>6, <2>1, FS_Subset
  <2>3. Cardinality(Done \cup {o}) \in Nat
    BY <2>1, FS_CardinalityType
  <2>4. QED
    BY <1>2, <1>4, <1>6, <2>1, <2>2, <2>3
<1>7. QED
  BY <1>3, <1>5, <1>6, DoneIsCounted DEF SalesInv

LEMMA InitComplete == SellerInit => CompleteInv
<1> SUFFICES ASSUME SellerInit PROVE CompleteInv
  OBVIOUS
<1>1. Done = {}
  BY DEF SellerInit, Done, Sale
<1>2. \A r \in Requests : call[r].step = "idle"
  BY IdleCall DEF SellerInit, Trust!Init
<1>3. profile.txs = start /\ start \in Nat /\ counted = 0
  BY SalesAssumption, ProfileOf DEF SellerInit, Trust!Init
<1>4. QED
  BY <1>1, <1>2, <1>3, FS_EmptySet DEF CompleteInv

\* A seller whose calls of the trust engine did not overlap, in handlers nothing
\* stopped, is published with every sale the rows report as released, for any
\* number of orders and handlers.
THEOREM RecordComplete == ASSUME SafeHashes PROVE SellerSpec => []RecordIsComplete
<1>1. SellerInit => CompleteInv
  BY InitComplete
<1>2. SalesInv /\ SalesInv' /\ CompleteInv /\ [SellerNext]_sellerVars => CompleteInv'
  BY NextComplete
<1>3. ASSUME SalesInv, CompleteInv PROVE RecordIsComplete
  <2> SUFFICES ASSUME Quiet, alone, faults = 0
               PROVE  profile.txs = start + Cardinality({o \in Orders : orders[o].payment_status = "RELEASED"})
    BY DEF RecordIsComplete
  <2>1. Done = {o \in Orders : orders[o].payment_status = "RELEASED"}
    BY DEF Done, Counting, Crediting, Quiet, At
  <2>2. IsFiniteSet(Done)
    BY SalesAssumption, FS_Subset DEF Done
  <2>3. Cardinality(Done) \in Nat /\ counted \in Nat /\ start \in Nat
    BY <2>2, FS_CardinalityType, <1>3 DEF SalesInv, RecordInv
  <2>4. Cardinality(Done) = counted
    BY <1>3, <2>3 DEF SalesInv, CompleteInv
  <2>5. QED
    BY <1>3, <2>1, <2>4 DEF CompleteInv
<1>4. SalesInv /\ CompleteInv => RecordIsComplete
  BY <1>3
<1>5. QED
  BY <1>1, <1>2, <1>4, SalesInvariant, PTL DEF SellerSpec

-----------------------------------------------------------------------------
(* Updates lost to each other are never all of them.                       *)

\* Calls overwrite each other by what they have read, which is no less than the
\* count at the start, and one more.
LowInv ==
  /\ profile.txs >= start /\ (counted > 0 => profile.txs > start)
  /\ \A r \in Requests : call[r].step = "update" => call[r].seen.txs >= start

LEMMA NextLow ==
  ASSUME RecordInv, LowInv, [SellerNext]_sellerVars
  PROVE  LowInv'
<1>1. CASE UNCHANGED trustVars
  BY <1>1 DEF LowInv, trustVars
<1>2. ASSUME NEW r \in Requests, Trust!UpsertProfile(r) PROVE LowInv'
  BY <1>2 DEF LowInv, RecordInv, Trust!UpsertProfile
<1>3. ASSUME NEW r \in Requests, Trust!UpdateProfile(r) PROVE LowInv'
  <2>1. call[r].seen.txs >= start /\ call[r].seen.txs \in Nat /\ start \in Nat
    BY <1>3 DEF LowInv, RecordInv, Trust!UpdateProfile, Trust!Profiles
  <2>2. profile'.txs = call[r].seen.txs + 1 /\ start' = start
    BY <1>3, <2>1, ProfileOf DEF Trust!UpdateProfile, Trust!NewRow
  <2>3. ASSUME NEW s \in Requests, call'[s].step = "update" PROVE call'[s] = call[s]
    BY <1>3, <2>3, IdleCall DEF Trust!UpdateProfile, RecordInv
  <2>4. QED
    BY <2>1, <2>2, <2>3 DEF LowInv
<1>4. ASSUME NEW r \in Requests, Trust!AppendHistory(r) \/ Trust!Abort(r) PROVE LowInv'
  <2>1. call' = [call EXCEPT ![r] = Trust!Idle] /\ UNCHANGED <<profile, start, counted>>
    BY <1>4 DEF Trust!AppendHistory, Trust!Abort
  <2>2. QED
    BY <2>1, IdleCall DEF LowInv, RecordInv
<1>5. QED
  BY <1>1, <1>2, <1>3, <1>4, RecordStep DEF Report, Trust!Step

\* However many calls of the trust engine overlap and overwrite each other, a seller
\* with a booked sale is published with more sales than at the start, or a handler is
\* on its way to it, unless one was stopped.
THEOREM SaleIsCounted == ASSUME SafeHashes PROVE SellerSpec => []SomeSaleIsCounted
<1>1. SellerInit => LowInv
  <2> SUFFICES ASSUME SellerInit PROVE LowInv
    OBVIOUS
  <2>1. profile.txs = start /\ start \in Nat /\ counted = 0
    BY SalesAssumption, ProfileOf DEF SellerInit, Trust!Init
  <2>2. \A r \in Requests : call[r].step = "idle"
    BY IdleCall DEF SellerInit, Trust!Init
  <2>3. QED
    BY <2>1, <2>2 DEF LowInv
<1>2. SalesInv /\ LowInv /\ [SellerNext]_sellerVars => LowInv'
  BY NextLow DEF SalesInv
<1>3. ASSUME SalesInv, CompleteInv, LowInv PROVE SomeSaleIsCounted
  <2> SUFFICES ASSUME faults = 0, NEW o \in Orders, orders[o].payment_status = "RELEASED",
                      ~\E r \in Requests : Crediting(r)
               PROVE  profile.txs > start
    BY DEF SomeSaleIsCounted
  <2>1. o \in Done
    BY DEF Done, Counting
  <2>2. IsFiniteSet(Done)
    BY SalesAssumption, FS_Subset DEF Done
  <2>3. Cardinality(Done) \in Nat /\ Cardinality(Done) # 0
    BY <2>1, <2>2, FS_CardinalityType, FS_EmptySet
  <2>4. Cardinality(Done) <= counted /\ counted \in Nat
    BY <1>3 DEF CompleteInv, SalesInv, RecordInv
  <2>5. QED
    BY <1>3, <2>3, <2>4 DEF LowInv
<1>4. SalesInv /\ CompleteInv /\ LowInv => SomeSaleIsCounted
  BY <1>3
<1>5. QED
  BY <1>1, <1>2, <1>4, InitComplete, NextComplete, SalesInvariant, PTL DEF SellerSpec
=============================================================================
