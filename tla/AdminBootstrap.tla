---------------------------- MODULE AdminBootstrap ----------------------------
(***************************************************************************)
(* The account under the administrator's email: registration and login     *)
(* (auth/handlers.rs) and its one-time promotion to admin                  *)
(* (bootstrap/handlers.rs).  Registration checks the email in one          *)
(* statement and inserts in another.  The promotion is one transaction     *)
(* that locks two rows, the first of which does not exist before the       *)
(* promotion commits: FOR UPDATE then locks nothing, and only the lock on  *)
(* the user's row keeps two promotions apart.                              *)
(***************************************************************************)
EXTENDS Naturals, FiniteSets

CONSTANTS
  Requests,   \* slots for handlers in flight
  MaxFaults   \* bound: handlers that stop half way

ASSUME FaultsAssumption == MaxFaults \in Nat

VARIABLES
  account,      \* users.role under the email, or "none"
  consumed,     \* the row of admin_bootstrap_state is there, which dates it consumed
  tokens,       \* the roles in the tokens handed out for the email
  told,         \* ghost: answers given to promotions
  provisioned,  \* ghost: how often the answer was "provisioned"
  req,          \* req[r]: the handler in slot r
  faults

vars == <<account, consumed, tokens, told, provisioned, req, faults>>

UserRoles == {"buyer", "seller", "rider", "field_agent", "admin"}
Answers   == {"provisioned", "already", "consumed", "notfound"}

Idle == [step |-> "idle", role |-> "buyer"]

At(r, step)   == req[r].step = step
Goto(r, step) == req' = [req EXCEPT ![r].step = step]
End(r)        == req' = [req EXCEPT ![r] = Idle]

Init ==
  /\ account = "none" /\ consumed = FALSE /\ tokens = {}
  /\ told = {} /\ provisioned = 0
  /\ req = [r \in Requests |-> Idle] /\ faults = 0

-----------------------------------------------------------------------------
(* Accounts.                                                               *)

\* Mutant: any role may be asked for.
AnyRole(asked) == TRUE

SelfAssignable(asked) == asked \in {"buyer", "seller"}

\* A role nobody may ask for is refused after the email was found free.
StartRegister(r) ==
  \E asked \in UserRoles :
    /\ At(r, "idle")
    /\ req' = [req EXCEPT ![r] = [step |-> "check_email", role |-> asked]]
    /\ UNCHANGED <<account, consumed, tokens, told, provisioned, faults>>

CheckEmail(r) ==
  /\ At(r, "check_email")
  /\ IF account = "none" /\ SelfAssignable(req[r].role) THEN Goto(r, "insert_user") ELSE End(r)
  /\ UNCHANGED <<account, consumed, tokens, told, provisioned, faults>>

\* Mutant: INSERT ... ON CONFLICT (email) DO UPDATE.
EmailOverwritten == TRUE

\* users.email is UNIQUE.
EmailFree == account = "none"

InsertUser(r) ==
  /\ At(r, "insert_user")
  /\ IF EmailFree
       THEN account' = req[r].role /\ tokens' = tokens \cup {req[r].role}
       ELSE UNCHANGED <<account, tokens>>
  /\ End(r)
  /\ UNCHANGED <<consumed, told, provisioned, faults>>

\* Mutant: the role is asked of the client.
AskedRole == "admin"

TokenRole == account

login ==
  /\ account # "none"
  /\ tokens' = tokens \cup {TokenRole}
  /\ UNCHANGED <<account, consumed, told, provisioned, req, faults>>

-----------------------------------------------------------------------------
(* The promotion.                                                          *)

\* The handler in slot r has locked the user's row.
HoldsUser(r) == req[r].step \in {"promote", "consume", "commit"}

Answer(r, answer) == End(r) /\ told' = told \cup {answer} /\ UNCHANGED provisioned

StartBootstrap(r) ==
  /\ At(r, "idle")
  /\ Goto(r, "check")
  /\ UNCHANGED <<account, consumed, tokens, told, provisioned, faults>>

\* The row of another transaction that has not committed is not seen.
CheckConsumed(r) ==
  /\ At(r, "check")
  /\ IF consumed THEN Answer(r, "consumed") ELSE Goto(r, "lock_user") /\ UNCHANGED <<told, provisioned>>
  /\ UNCHANGED <<account, consumed, tokens, faults>>

\* Mutant: SELECT without FOR UPDATE.
NoWait(r) == TRUE

UserUnlocked(r) == \A s \in Requests \ {r} : ~HoldsUser(s)

\* Waits for the lock and then reads what was committed meanwhile.
LockUser(r) ==
  /\ At(r, "lock_user") /\ UserUnlocked(r)
  /\ \/ account = "none"  /\ Answer(r, "notfound")
     \/ account = "admin" /\ Answer(r, "already")
     \/ /\ account \notin {"none", "admin"}
        /\ Goto(r, "promote") /\ UNCHANGED <<told, provisioned>>
  /\ UNCHANGED <<account, consumed, tokens, faults>>

\* Mutant: the UPDATE runs outside of the transaction.
PromoteAlone(r) ==
  /\ At(r, "promote")
  /\ account' = "admin"
  /\ Goto(r, "consume")
  /\ UNCHANGED <<consumed, tokens, told, provisioned, faults>>

\* The UPDATE and the upsert are not seen before they are committed.
PromoteUser(r) ==
  /\ At(r, "promote")
  /\ Goto(r, "consume")
  /\ UNCHANGED <<account, consumed, tokens, told, provisioned, faults>>

ConsumeBootstrap(r) ==
  /\ At(r, "consume")
  /\ Goto(r, "commit")
  /\ UNCHANGED <<account, consumed, tokens, told, provisioned, faults>>

Commit(r) ==
  /\ At(r, "commit")
  /\ account' = "admin" /\ consumed' = TRUE
  /\ End(r) /\ told' = told \cup {"provisioned"} /\ provisioned' = provisioned + 1
  /\ UNCHANGED <<tokens, faults>>

-----------------------------------------------------------------------------
\* A statement fails, or the connection or the process is gone; a transaction is
\* rolled back.
Abort(r) ==
  /\ ~At(r, "idle") /\ faults < MaxFaults
  /\ faults' = faults + 1
  /\ End(r)
  /\ UNCHANGED <<account, consumed, tokens, told, provisioned>>

\* The answer to COMMIT is lost: the handler fails after it has taken effect.
CommitUnanswered(r) ==
  /\ At(r, "commit") /\ faults < MaxFaults
  /\ faults' = faults + 1
  /\ account' = "admin" /\ consumed' = TRUE
  /\ End(r)
  /\ UNCHANGED <<tokens, told, provisioned>>

\* The same of an INSERT: the account is there, and its token was never handed out.
InsertUnanswered(r) ==
  /\ At(r, "insert_user") /\ EmailFree /\ faults < MaxFaults
  /\ faults' = faults + 1
  /\ account' = req[r].role
  /\ End(r)
  /\ UNCHANGED <<consumed, tokens, told, provisioned>>

Handler(r) ==
  \/ StartRegister(r) \/ CheckEmail(r) \/ InsertUser(r)
  \/ StartBootstrap(r) \/ CheckConsumed(r) \/ LockUser(r)
  \/ PromoteUser(r) \/ ConsumeBootstrap(r) \/ Commit(r)

Next ==
  \/ login
  \/ \E r \in Requests :
       Handler(r) \/ Abort(r) \/ CommitUnanswered(r) \/ InsertUnanswered(r)

Spec == Init /\ [][Next]_vars

-----------------------------------------------------------------------------
TypeOK ==
  /\ account \in {"none", "buyer", "seller", "admin"} /\ consumed \in BOOLEAN
  /\ tokens \subseteq {"buyer", "seller", "admin"}
  /\ told \subseteq Answers /\ provisioned \in Nat
  /\ req \in [Requests -> [step : {"idle", "check_email", "insert_user", "check", "lock_user",
                                   "promote", "consume", "commit"},
                           role : UserRoles]]
  /\ faults \in 0..MaxFaults

\* The account is the admin's exactly when the bootstrap is spent: it is never
\* promoted with the bootstrap left open, nor the bootstrap spent on nobody.
AdminByBootstrap == account = "admin" <=> consumed

\* Among promotions in flight together one alone is told that it provisioned the
\* admin, and none is told that the admin is there before that is so.
AnswersTrue ==
  /\ provisioned <= 1
  /\ told \cap {"provisioned", "already", "consumed"} # {} => account = "admin"

\* Of registrations that ask for different roles one is served: the tokens handed out
\* have the role of the account, and say admin only when it has been promoted.
TokensEarned ==
  /\ Cardinality(tokens \ {"admin"}) <= 1
  /\ account \in {"none", "admin"} \/ tokens \subseteq {account}
  /\ account = "none" => tokens = {}

\* A role once given changes by the promotion alone, whoever registers meanwhile.
RoleKept == [][account # "none" => account' \in {account, "admin"}]_vars

\* However registrations, logins and promotions interleave, fail half way or lose
\* their answers, they look like requests served one by one: each has its effect
\* and its answer in one step, in an account that is as the answer says.
Abstract == INSTANCE AdminAccount

ImplementsAdminAccount == Abstract!AccountSpec
=============================================================================
