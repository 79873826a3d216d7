-------------------------- MODULE ShownTransaction --------------------------
(***************************************************************************)
(* The transactions on the ledger, as the backend builds them, and what    *)
(* verify_transaction_semantics makes of one whose hash a client shows: it *)
(* reads the contract, the function and the escrow out of the envelope and *)
(* compares them with those the order expects.                             *)
(*                                                                         *)
(* An envelope is the set of the contract calls in it, of which Soroban    *)
(* allows one; without an envelope, or without a call, it is empty.  Left  *)
(* out: XDR; the hashes made up for tests, which no ledger knows; and the  *)
(* amount, compared only where the call carries one: none verified does.   *)
(***************************************************************************)
EXTENDS EscrowContract, Sequences

Arg(type, val) == [type |-> type, val |-> val]

\* The winner of a resolution is an argument, not part of the function's name.
FunctionOf(fn) == IF fn \in ResolveFns THEN "resolve_dispute" ELSE fn

Args(fn, escrow) ==
  CASE fn = "create_escrow" ->
         <<Arg("U64", escrow), Arg("U64", escrow), Arg("Address", "buyer"),
           Arg("Address", "seller"), Arg("Address", "token"), Arg("I128", "amount")>>
    [] fn = "dispute_escrow" -> <<Arg("U64", escrow), Arg("Address", "caller")>>
    [] fn \in ResolveFns     -> <<Arg("U64", escrow), Arg("Bool", fn = "resolve_release")>>
    [] OTHER                 -> <<Arg("U64", escrow)>>

Call(contract, fn, escrow) ==
  {[contract |-> contract, function |-> FunctionOf(fn), args |-> Args(fn, escrow)]}

\* The first U64 of the arguments, if there is one.
FirstU64(args) ==
  {args[i].val : i \in {j \in DOMAIN args :
     args[j].type = "U64" /\ \A k \in 1..j - 1 : args[k].type # "U64"}}

\* An Option is a set of one value, or of none.
parse_xdr_semantics(envelope) ==
  [contract_id |-> {call.contract : call \in envelope},
   function    |-> {call.function : call \in envelope},
   escrow_id   |-> UNION {FirstU64(call.args) : call \in envelope}]

\* Mutants: the function, or the escrow, is not compared.
verify_any_function(envelope, function, escrow) ==
  LET semantics == parse_xdr_semantics(envelope) IN
  semantics.contract_id = {"ours"} /\ semantics.escrow_id = {escrow}
verify_any_escrow(envelope, function, escrow) ==
  LET semantics == parse_xdr_semantics(envelope) IN
  semantics.contract_id = {"ours"} /\ semantics.function = {function}

\* Whether a transaction that succeeded is the one the order expects.
verify_transaction_semantics(envelope, function, escrow) ==
  LET semantics == parse_xdr_semantics(envelope) IN
  /\ semantics.contract_id = {"ours"}
  /\ semantics.function = {function}
  /\ semantics.escrow_id = {escrow}
=============================================================================
