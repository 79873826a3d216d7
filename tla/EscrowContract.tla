--------------------------- MODULE EscrowContract ---------------------------
(***************************************************************************)
(* The Soroban escrow contract the backend calls.  The contract itself is  *)
(* not part of the repository; what is stated here is what the backend     *)
(* relies on: the functions it invokes (blockchain/service.rs), the states *)
(* it decodes (blockchain/types.rs, EscrowState), and the order its tests  *)
(* require of them (no release before funding).                            *)
(*                                                                         *)
(* An escrow is represented by the set of the calls that succeeded on it.  *)
(* Each function can succeed at most once on one escrow, so this set also  *)
(* stands for the transaction hashes a client can show for that escrow.    *)
(***************************************************************************)
EXTENDS Naturals, FiniteSets

CONSTANT RefundUnfunded  \* TRUE: the contract also refunds an escrow nobody funded

ASSUME RefundUnfundedAssumption == RefundUnfunded \in BOOLEAN

\* resolve_dispute takes the winner as an argument: it stands as two functions.
ResolveFns == {"resolve_release", "resolve_refund"}

Fns == {"create_escrow", "fund_escrow", "release_escrow", "refund_escrow",
        "dispute_escrow"} \cup ResolveFns

\* The calls that pay the seller, and those that pay the buyer back.
ReleaseFns == {"release_escrow", "resolve_release"}
RefundFns  == {"refund_escrow", "resolve_refund"}

EscrowState(calls) ==
  IF calls \cap ReleaseFns # {} THEN "RELEASED"
  ELSE IF calls \cap RefundFns # {} THEN "REFUNDED"
  ELSE IF "dispute_escrow" \in calls THEN "DISPUTED"
  ELSE IF "fund_escrow" \in calls THEN "FUNDED"
  ELSE IF "create_escrow" \in calls THEN "CREATED"
  ELSE "NONE"

\* The states of an escrow in which the contract accepts a call of fn.
AcceptedIn(fn) ==
  CASE fn = "create_escrow"  -> {"NONE"}
    [] fn = "fund_escrow"    -> {"CREATED"}
    [] fn = "release_escrow" -> {"FUNDED"}
    [] fn = "refund_escrow"  -> {"FUNDED"} \cup (IF RefundUnfunded THEN {"CREATED"} ELSE {})
    [] fn = "dispute_escrow" -> {"FUNDED"}
    [] fn \in ResolveFns     -> {"DISPUTED"}

Accepts(fn, calls) == EscrowState(calls) \in AcceptedIn(fn)
=============================================================================
