---------------------------- MODULE EscrowPayment ----------------------------
(***************************************************************************)
(* What the marketplace promises about the money of an order, without the  *)
(* contract, the handlers or the ledger: the buyer's payment is locked and *)
(* then goes to one side, once; the payment the order reports follows it,  *)
(* never ahead and never back; the seller is credited at most once, for an *)
(* order whose release has been reported.  OrderEscrow implements this.    *)
(***************************************************************************)
EXTENDS Naturals

CONSTANT Orders

VARIABLES
  money,    \* money[o]: where the payment is
  payment,  \* payment[o]: the payment status the order reports
  credits   \* credits[o]: how often the trust engine counted the order

payVars == <<money, payment, credits>>

PayInit ==
  /\ money \in [Orders -> {"unpaid"}]
  /\ payment \in [Orders -> {"PENDING"}]
  /\ credits \in [Orders -> {0}]

\* Where money can go: into escrow, and from there to one of the two sides; an
\* escrow nobody funded may be closed in favour of the buyer.
Goes(from) ==
  CASE from = "unpaid" -> {"escrow", "returned"}
    [] from = "escrow" -> {"seller", "returned"}
    [] OTHER -> {}

Move(o) ==
  /\ \E place \in Goes(money[o]) : money' = [money EXCEPT ![o] = place]
  /\ UNCHANGED <<payment, credits>>

\* The reports that are true of money that is, or has been, in a place, and that
\* may follow the last one.
TrueOf(place) ==
  CASE place = "unpaid" -> {}
    [] place = "escrow" -> {"PROTECTED"}
    [] place = "seller" -> {"PROTECTED", "RELEASED"}
    [] place = "returned" -> {"PROTECTED", "REFUNDED"}

MayFollow(pay) ==
  CASE pay = "PENDING"   -> {"PROTECTED", "REFUNDED"}
    [] pay = "PROTECTED" -> {"RELEASED", "REFUNDED"}
    [] OTHER             -> {}

Report(o) ==
  /\ \E pay \in TrueOf(money[o]) \cap MayFollow(payment[o]) :
       payment' = [payment EXCEPT ![o] = pay]
  /\ UNCHANGED <<money, credits>>

CreditSeller(o) ==
  /\ payment[o] = "RELEASED" /\ credits[o] = 0
  /\ credits' = [credits EXCEPT ![o] = 1]
  /\ UNCHANGED <<money, payment>>

PayNext == \E o \in Orders : Move(o) \/ Report(o) \/ CreditSeller(o)

PaySpec == PayInit /\ [][PayNext]_payVars
=============================================================================
