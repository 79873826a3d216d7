----------------------------- MODULE AdminAccount -----------------------------
(***************************************************************************)
(* What is promised of the account under the administrator's email, with   *)
(* requests that take effect at once: it is registered once, with a role   *)
(* that may be asked for; it is promoted once, which spends the bootstrap; *)
(* an answer and a token say what is so when they are given.  There are    *)
(* no statements, locks or transactions, and a request that is not         *)
(* answered may have been served or not.                                   *)
(***************************************************************************)
EXTENDS Naturals

VARIABLES
  account,      \* the role of the account, or "none"
  consumed,     \* the bootstrap has been spent
  tokens,       \* the roles in the tokens handed out
  told,         \* answers given to promotions
  provisioned   \* how often the answer was "provisioned"

accountVars == <<account, consumed, tokens, told, provisioned>>

AccountInit ==
  /\ account = "none" /\ consumed = FALSE
  /\ tokens = {} /\ told = {} /\ provisioned = 0

Register(role) ==
  /\ account = "none"
  /\ account' = role /\ tokens' \in {{}, {role}}
  /\ UNCHANGED <<consumed, told, provisioned>>

LogIn ==
  /\ account # "none"
  /\ tokens' = tokens \cup {account}
  /\ UNCHANGED <<account, consumed, told, provisioned>>

Promote ==
  /\ account \in {"buyer", "seller"} /\ ~consumed
  /\ account' = "admin" /\ consumed' = TRUE
  /\ \/ told' = told \cup {"provisioned"} /\ provisioned' = provisioned + 1
     \/ UNCHANGED <<told, provisioned>>
  /\ UNCHANGED tokens

\* The answers to promotions that come too early or too late.
Decline(answer) ==
  /\ \/ answer = "notfound" /\ account = "none"
     \/ answer \in {"already", "consumed"} /\ account = "admin" /\ consumed
  /\ told' = told \cup {answer}
  /\ UNCHANGED <<account, consumed, tokens, provisioned>>

AccountNext ==
  \/ \E role \in {"buyer", "seller"} : Register(role)
  \/ LogIn \/ Promote
  \/ \E answer \in {"notfound", "already", "consumed"} : Decline(answer)

AccountSpec == AccountInit /\ [][AccountNext]_accountVars
=============================================================================
