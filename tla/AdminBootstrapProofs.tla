------------------------- MODULE AdminBootstrapProofs -------------------------
(***************************************************************************)
(* Theorems about the administrator's account, for any number of handlers  *)
(* and faults.                                                             *)
(***************************************************************************)
EXTENDS AdminBootstrap, FiniteSetTheorems, TLAPS

BootSteps == {"idle", "check_email", "insert_user", "check", "lock_user",
              "promote", "consume", "commit"}
Slot == [step : BootSteps, role : UserRoles]

\* One promotion at a time is past the lock on the user's row, while the account
\* is there and not promoted; its answer is the first of its kind.
LockInv ==
  /\ \A r, s \in Requests : HoldsUser(r) /\ HoldsUser(s) => r = s
  /\ \A r \in Requests : HoldsUser(r) => account \notin {"none", "admin"} /\ ~consumed

\* A registration goes on only with a role that may be asked for, and the account
\* is of such a role until it is promoted.
RegisterInv == \A r \in Requests : At(r, "insert_user") => SelfAssignable(req[r].role)

BootstrapInv ==
  /\ TypeOK /\ AdminByBootstrap /\ AnswersTrue /\ LockInv /\ RegisterInv
  /\ account # "admin" => provisioned = 0

LEMMA InitBootstrap == Init => BootstrapInv
<1> SUFFICES ASSUME Init PROVE BootstrapInv
  OBVIOUS
<1>1. TypeOK
  <2>1. Idle \in Slot
    BY DEF Idle, Slot, BootSteps, UserRoles
  <2>2. faults \in 0..MaxFaults /\ provisioned \in Nat
    BY FaultsAssumption DEF Init
  <2> QED
    BY <2>1, <2>2 DEF Init, TypeOK, Slot, BootSteps
<1> QED
  BY <1>1 DEF Init, BootstrapInv, AdminByBootstrap, AnswersTrue, LockInv, RegisterInv, HoldsUser, At, Idle

\* A step of one handler that takes no lock keeps what is known of the others.
LEMMA SlotUpdate ==
  ASSUME TypeOK, NEW r \in Requests, NEW rec \in Slot, req' = [req EXCEPT ![r] = rec]
  PROVE  /\ req' \in [Requests -> Slot]
         /\ req'[r] = rec
         /\ \A s \in Requests \ {r} : req'[s] = req[s]
BY DEF TypeOK, Slot, BootSteps

LEMMA GotoUpdate ==
  ASSUME TypeOK, NEW r \in Requests, NEW step \in BootSteps, Goto(r, step)
  PROVE  /\ req' \in [Requests -> Slot]
         /\ req'[r].step = step /\ req'[r].role = req[r].role
         /\ \A s \in Requests \ {r} : req'[s] = req[s]
BY DEF TypeOK, Slot, BootSteps, Goto

\* What ends a handler or moves it on without taking the lock.
LEMMA Unlocking ==
  ASSUME BootstrapInv, NEW r \in Requests,
         req' \in [Requests -> Slot],
         \A s \in Requests \ {r} : req'[s] = req[s],
         HoldsUser(r)' => HoldsUser(r),
         UNCHANGED <<account, consumed>>
  PROVE  LockInv'
BY DEF BootstrapInv, LockInv, HoldsUser

LEMMA NextBootstrap == BootstrapInv /\ [Next]_vars => BootstrapInv'
<1> SUFFICES ASSUME BootstrapInv, [Next]_vars PROVE BootstrapInv'
  OBVIOUS
<1>0. /\ TypeOK /\ AdminByBootstrap /\ AnswersTrue /\ LockInv /\ RegisterInv
      /\ req \in [Requests -> Slot] /\ (account # "admin" => provisioned = 0)
      /\ Idle \in Slot
  BY DEF BootstrapInv, TypeOK, Slot, BootSteps, Idle, UserRoles
<1>1. CASE UNCHANGED vars
  BY <1>1 DEF vars, BootstrapInv, TypeOK, AdminByBootstrap, AnswersTrue, LockInv, RegisterInv,
     HoldsUser, At
<1>2. CASE login
  BY <1>0, <1>2 DEF login, TokenRole, BootstrapInv, TypeOK, AdminByBootstrap, AnswersTrue, LockInv,
     RegisterInv, HoldsUser, At
<1>3. ASSUME NEW r \in Requests, StartRegister(r) PROVE BootstrapInv'
  <2>1. PICK asked \in UserRoles : req' = [req EXCEPT ![r] = [step |-> "check_email", role |-> asked]]
    BY <1>3 DEF StartRegister
  <2>2. [step |-> "check_email", role |-> asked] \in Slot
    BY DEF Slot, BootSteps
  <2>3. /\ req' \in [Requests -> Slot] /\ req'[r].step = "check_email"
        /\ \A s \in Requests \ {r} : req'[s] = req[s]
    BY <1>0, <2>1, <2>2, SlotUpdate
  <2>4. LockInv'
    BY <1>3, <2>3, Unlocking DEF StartRegister, HoldsUser
  <2>5. RegisterInv'
    BY <1>0, <2>3 DEF RegisterInv, At
  <2> QED
    BY <1>0, <1>3, <2>3, <2>4, <2>5
    DEF StartRegister, BootstrapInv, TypeOK, Slot, BootSteps, AdminByBootstrap, AnswersTrue
<1>4. ASSUME NEW r \in Requests, CheckEmail(r) PROVE BootstrapInv'
  <2>1. /\ req' \in [Requests -> Slot]
        /\ \A s \in Requests \ {r} : req'[s] = req[s]
        /\ ~HoldsUser(r)'
        /\ At(r, "insert_user")' => SelfAssignable(req'[r].role)
    <3>1. CASE End(r)
      BY <1>0, <3>1, SlotUpdate DEF End, Idle, HoldsUser, At
    <3>2. CASE Goto(r, "insert_user") /\ SelfAssignable(req[r].role)
      BY <1>0, <3>2, GotoUpdate DEF HoldsUser, At, BootSteps
    <3> QED
      BY <1>4, <3>1, <3>2 DEF CheckEmail
  <2>2. LockInv'
    BY <1>4, <2>1, Unlocking DEF CheckEmail
  <2>3. RegisterInv'
    BY <1>0, <2>1 DEF RegisterInv, At
  <2> QED
    BY <1>0, <1>4, <2>1, <2>2, <2>3
    DEF CheckEmail, BootstrapInv, TypeOK, Slot, BootSteps, AdminByBootstrap, AnswersTrue
<1>5. ASSUME NEW r \in Requests, InsertUser(r) \/ InsertUnanswered(r) PROVE BootstrapInv'
  <2>1. /\ req' \in [Requests -> Slot] /\ req'[r] = Idle
        /\ \A s \in Requests \ {r} : req'[s] = req[s]
    BY <1>0, <1>5, SlotUpdate DEF InsertUser, InsertUnanswered, End
  <2>2. RegisterInv'
    BY <1>0, <2>1 DEF RegisterInv, At, Idle
  <2>3. SelfAssignable(req[r].role) /\ req[r].role \in {"buyer", "seller"}
    BY <1>0, <1>5 DEF InsertUser, InsertUnanswered, RegisterInv, SelfAssignable
  <2>4. CASE EmailFree
    <3>1. \A s \in Requests : ~HoldsUser(s)
      BY <1>0, <2>4 DEF LockInv, EmailFree
    <3>2. LockInv'
      BY <2>1, <3>1 DEF LockInv, HoldsUser, Idle
    <3>3. /\ account = "none" /\ account' \in {"buyer", "seller"}
          /\ tokens' \subseteq {"buyer", "seller", "admin"}
          /\ UNCHANGED <<consumed, told, provisioned>>
      BY <1>0, <1>5, <2>3, <2>4 DEF InsertUser, InsertUnanswered, EmailFree, TypeOK
    <3>4. faults' \in 0..MaxFaults
      BY <1>0, <1>5, FaultsAssumption DEF InsertUser, InsertUnanswered, TypeOK
    <3>5. TypeOK'
      BY <1>0, <2>1, <3>3, <3>4 DEF TypeOK, Slot, BootSteps
    <3>6. AdminByBootstrap' /\ AnswersTrue' /\ (account # "admin" => provisioned = 0)'
      BY <1>0, <3>3 DEF AdminByBootstrap, AnswersTrue
    <3> QED
      BY <2>2, <3>2, <3>5, <3>6 DEF BootstrapInv
  <2>5. CASE ~EmailFree
    <3>1. LockInv'
      BY <1>5, <2>1, <2>5, Unlocking DEF InsertUser, InsertUnanswered, HoldsUser, Idle
    <3>2. UNCHANGED <<account, consumed, tokens, told, provisioned, faults>>
      BY <1>5, <2>5 DEF InsertUser, InsertUnanswered
    <3> QED
      BY <1>0, <2>1, <2>2, <3>1, <3>2
      DEF BootstrapInv, TypeOK, Slot, BootSteps, AdminByBootstrap, AnswersTrue
  <2> QED
    BY <2>4, <2>5
<1>6. ASSUME NEW r \in Requests, StartBootstrap(r) PROVE BootstrapInv'
  <2>1. /\ req' \in [Requests -> Slot] /\ req'[r].step = "check"
        /\ \A s \in Requests \ {r} : req'[s] = req[s]
    BY <1>0, <1>6, GotoUpdate DEF StartBootstrap, BootSteps
  <2>2. LockInv'
    BY <1>6, <2>1, Unlocking DEF StartBootstrap, HoldsUser
  <2>3. RegisterInv'
    BY <1>0, <2>1 DEF RegisterInv, At
  <2> QED
    BY <1>0, <1>6, <2>1, <2>2, <2>3
    DEF StartBootstrap, BootstrapInv, TypeOK, Slot, BootSteps, AdminByBootstrap, AnswersTrue
<1>7. ASSUME NEW r \in Requests, CheckConsumed(r) PROVE BootstrapInv'
  <2>1. /\ req' \in [Requests -> Slot] /\ req'[r].step \in {"idle", "lock_user"}
        /\ \A s \in Requests \ {r} : req'[s] = req[s]
    <3>1. CASE Goto(r, "lock_user")
      BY <1>0, <3>1, GotoUpdate DEF BootSteps
    <3>2. CASE End(r)
      BY <1>0, <3>2, SlotUpdate DEF End, Idle
    <3> QED
      BY <1>7, <3>1, <3>2 DEF CheckConsumed, Answer
  <2>2. LockInv'
    BY <1>7, <2>1, Unlocking DEF CheckConsumed, HoldsUser
  <2>3. RegisterInv'
    BY <1>0, <2>1 DEF RegisterInv, At
  <2>4. AnswersTrue' /\ told' \subseteq Answers /\ provisioned' = provisioned
    BY <1>0, <1>7 DEF CheckConsumed, Answer, AnswersTrue, AdminByBootstrap, TypeOK, Answers
  <2> QED
    BY <1>0, <1>7, <2>1, <2>2, <2>3, <2>4
    DEF CheckConsumed, BootstrapInv, TypeOK, Slot, BootSteps, AdminByBootstrap
<1>8. ASSUME NEW r \in Requests, LockUser(r) PROVE BootstrapInv'
  <2>1. CASE Goto(r, "promote") /\ UNCHANGED <<told, provisioned>> /\ account \notin {"none", "admin"}
    <3>1. /\ req' \in [Requests -> Slot] /\ req'[r].step = "promote"
          /\ \A s \in Requests \ {r} : req'[s] = req[s]
      BY <1>0, <2>1, GotoUpdate DEF BootSteps
    <3>2. \A s \in Requests \ {r} : ~HoldsUser(s)
      BY <1>8 DEF LockUser, UserUnlocked
    <3>3. \A s \in Requests \ {r} : ~HoldsUser(s)'
      BY <3>1, <3>2 DEF HoldsUser
    <3>4. ~consumed
      BY <1>0, <2>1 DEF AdminByBootstrap
    <3>5. LockInv'
      BY <1>8, <2>1, <3>3, <3>4 DEF LockInv, LockUser
    <3>6. RegisterInv'
      BY <1>0, <3>1 DEF RegisterInv, At
    <3> QED
      BY <1>0, <1>8, <2>1, <3>1, <3>5, <3>6
      DEF LockUser, BootstrapInv, TypeOK, Slot, BootSteps, AdminByBootstrap, AnswersTrue
  <2>2. CASE End(r) /\ UNCHANGED provisioned
                    /\ \/ told' = told \cup {"notfound"}
                       \/ told' = told \cup {"already"} /\ account = "admin"
    <3>1. /\ req' \in [Requests -> Slot] /\ req'[r] = Idle
          /\ \A s \in Requests \ {r} : req'[s] = req[s]
      BY <1>0, <2>2, SlotUpdate DEF End
    <3>2. LockInv'
      BY <1>8, <3>1, Unlocking DEF LockUser, HoldsUser, Idle
    <3>3. RegisterInv'
      BY <1>0, <3>1 DEF RegisterInv, At, Idle
    <3>4. AnswersTrue' /\ told' \subseteq Answers
      BY <1>0, <1>8, <2>2 DEF LockUser, AnswersTrue, TypeOK, Answers
    <3> QED
      BY <1>0, <1>8, <2>2, <3>1, <3>2, <3>3, <3>4
      DEF LockUser, BootstrapInv, TypeOK, Slot, BootSteps, AdminByBootstrap
  <2> QED
    BY <1>8, <2>1, <2>2 DEF LockUser, Answer
<1>9. ASSUME NEW r \in Requests, PromoteUser(r) \/ ConsumeBootstrap(r) PROVE BootstrapInv'
  <2>1. /\ req' \in [Requests -> Slot] /\ req'[r].step \in {"consume", "commit"}
        /\ \A s \in Requests \ {r} : req'[s] = req[s]
    BY <1>0, <1>9, GotoUpdate DEF PromoteUser, ConsumeBootstrap, BootSteps
  <2>2. LockInv'
    BY <1>9, <2>1, Unlocking DEF PromoteUser, ConsumeBootstrap, HoldsUser, At
  <2>3. RegisterInv'
    BY <1>0, <2>1 DEF RegisterInv, At
  <2>4. UNCHANGED <<account, consumed, tokens, told, provisioned, faults>>
    BY <1>9 DEF PromoteUser, ConsumeBootstrap
  <2> QED
    BY <1>0, <2>1, <2>2, <2>3, <2>4
    DEF BootstrapInv, TypeOK, Slot, BootSteps, AdminByBootstrap, AnswersTrue
<1>10. ASSUME NEW r \in Requests, Commit(r) \/ CommitUnanswered(r) PROVE BootstrapInv'
  <2>1. /\ req' \in [Requests -> Slot] /\ req'[r] = Idle
        /\ \A s \in Requests \ {r} : req'[s] = req[s]
    BY <1>0, <1>10, SlotUpdate DEF Commit, CommitUnanswered, End
  <2>2. HoldsUser(r)
    BY <1>10 DEF Commit, CommitUnanswered, HoldsUser, At
  <2>3. \A s \in Requests : ~HoldsUser(s)'
    BY <1>0, <2>1, <2>2 DEF LockInv, HoldsUser, Idle
  <2>4. RegisterInv'
    BY <1>0, <2>1 DEF RegisterInv, At, Idle
  <2>5. provisioned = 0
    BY <1>0, <2>2 DEF LockInv
  <2>6. faults' \in 0..MaxFaults
    BY <1>0, <1>10, FaultsAssumption DEF Commit, CommitUnanswered, TypeOK
  <2>7. told' \subseteq Answers
    BY <1>0, <1>10 DEF Commit, CommitUnanswered, TypeOK, Answers
  <2>8. account' = "admin" /\ consumed' = TRUE /\ tokens' = tokens
    BY <1>10 DEF Commit, CommitUnanswered
  <2>9. provisioned' \in {0, 1}
    BY <1>10, <2>5 DEF Commit, CommitUnanswered
  <2>10. TypeOK'
    BY <1>0, <2>1, <2>6, <2>7, <2>8, <2>9 DEF TypeOK, Slot, BootSteps
  <2>11. LockInv' /\ AdminByBootstrap' /\ AnswersTrue'
    BY <2>3, <2>8, <2>9 DEF LockInv, AdminByBootstrap, AnswersTrue
  <2> QED
    BY <2>4, <2>8, <2>10, <2>11 DEF BootstrapInv
<1>11. ASSUME NEW r \in Requests, Abort(r) PROVE BootstrapInv'
  <2>1. /\ req' \in [Requests -> Slot] /\ req'[r] = Idle
        /\ \A s \in Requests \ {r} : req'[s] = req[s]
    BY <1>0, <1>11, SlotUpdate DEF Abort, End
  <2>2. LockInv'
    BY <1>11, <2>1, Unlocking DEF Abort, HoldsUser, Idle
  <2>3. RegisterInv'
    BY <1>0, <2>1 DEF RegisterInv, At, Idle
  <2>4. faults' \in 0..MaxFaults
    BY <1>0, <1>11, FaultsAssumption DEF Abort, TypeOK
  <2> QED
    BY <1>0, <1>11, <2>1, <2>2, <2>3, <2>4
    DEF Abort, BootstrapInv, TypeOK, Slot, BootSteps, AdminByBootstrap, AnswersTrue
<1> QED
  BY <1>1, <1>2, <1>3, <1>4, <1>5, <1>6, <1>7, <1>8, <1>9, <1>10, <1>11 DEF Next, Handler

\* A role once given is the one registered until the promotion commits.
LEMMA StepKeepsRole == Next => (account # "none" => account' \in {account, "admin"})
BY DEF Next, Handler, login, StartRegister, CheckEmail, InsertUser, InsertUnanswered, EmailFree, StartBootstrap,
   CheckConsumed, LockUser, PromoteUser, ConsumeBootstrap, Commit, CommitUnanswered, Abort

\* Tokens follow the account: none before it is there, of its role alone until it is
\* promoted, and of that role and the admin's afterwards.
TokensInv ==
  /\ \A a, b \in tokens \ {"admin"} : a = b
  /\ account \in {"none", "admin"} \/ tokens \subseteq {account}
  /\ account = "none" => tokens = {}

LEMMA NextTokens == BootstrapInv /\ TokensInv /\ [Next]_vars => TokensInv'
<1> SUFFICES ASSUME BootstrapInv, TokensInv, [Next]_vars PROVE TokensInv'
  OBVIOUS
<1>1. CASE login
  BY <1>1 DEF login, TokenRole, TokensInv
<1>2. ASSUME NEW r \in Requests, InsertUser(r) \/ InsertUnanswered(r) PROVE TokensInv'
  <2>1. CASE EmailFree
    <3>1. tokens' \in {{}, {req[r].role}} /\ account' = req[r].role
      BY <1>2, <2>1 DEF InsertUser, InsertUnanswered, EmailFree, TokensInv
    <3>2. req[r].role # "none"
      BY DEF BootstrapInv, TypeOK, UserRoles
    <3>3. QED
      BY <3>1, <3>2 DEF TokensInv
  <2>2. CASE ~EmailFree
    BY <1>2, <2>2 DEF InsertUser, InsertUnanswered, TokensInv
  <2>3. QED
    BY <2>1, <2>2
<1>3. ASSUME NEW r \in Requests, Commit(r) \/ CommitUnanswered(r) PROVE TokensInv'
  BY <1>3 DEF Commit, CommitUnanswered, TokensInv
<1>4. CASE UNCHANGED <<account, tokens>>
  BY <1>4 DEF TokensInv
<1>5. QED
  BY <1>1, <1>2, <1>3, <1>4 DEF Next, Handler, StartRegister, CheckEmail, StartBootstrap,
     CheckConsumed, LockUser, PromoteUser, ConsumeBootstrap, Abort, vars

\* Every step of the handlers is a request served at once, or nothing at all.
LEMMA StepImplements == BootstrapInv /\ TokensInv /\ [Next]_vars => [Abstract!AccountNext]_(Abstract!accountVars)
<1> SUFFICES ASSUME BootstrapInv, TokensInv, [Next]_vars
             PROVE  Abstract!AccountNext \/ UNCHANGED Abstract!accountVars
  OBVIOUS
<1> USE DEF Abstract!AccountNext, Abstract!accountVars
<1>1. CASE login
  BY <1>1 DEF login, TokenRole, Abstract!LogIn
<1>2. ASSUME NEW r \in Requests, InsertUser(r) \/ InsertUnanswered(r)
      PROVE  Abstract!AccountNext \/ UNCHANGED Abstract!accountVars
  <2>1. CASE EmailFree
    <3>1. req[r].role \in {"buyer", "seller"}
      BY <1>2 DEF InsertUser, InsertUnanswered, BootstrapInv, RegisterInv, SelfAssignable
    <3>2. tokens = {}
      BY <2>1 DEF TokensInv, EmailFree
    <3>3. Abstract!Register(req[r].role)
      BY <1>2, <2>1, <3>2 DEF InsertUser, InsertUnanswered, EmailFree, Abstract!Register
    <3>4. QED
      BY <3>1, <3>3
  <2>2. CASE ~EmailFree
    BY <1>2, <2>2 DEF InsertUser, InsertUnanswered
  <2>3. QED
    BY <2>1, <2>2
<1>3. ASSUME NEW r \in Requests, CheckConsumed(r) \/ LockUser(r)
      PROVE  Abstract!AccountNext \/ UNCHANGED Abstract!accountVars
  <2>1. account = "admin" <=> consumed
    BY DEF BootstrapInv, AdminByBootstrap
  <2>2. \/ UNCHANGED Abstract!accountVars
        \/ \E answer \in {"notfound", "already", "consumed"} : Abstract!Decline(answer)
    BY <1>3, <2>1 DEF CheckConsumed, LockUser, Answer, Abstract!Decline
  <2>3. QED
    BY <2>2
<1>4. ASSUME NEW r \in Requests, Commit(r) \/ CommitUnanswered(r)
      PROVE  Abstract!AccountNext
  <2>1. account \in {"buyer", "seller"} /\ ~consumed
    BY <1>4 DEF Commit, CommitUnanswered, At, HoldsUser, BootstrapInv, LockInv, TypeOK
  <2>2. Abstract!Promote
    BY <1>4, <2>1 DEF Commit, CommitUnanswered, Abstract!Promote
  <2>3. QED
    BY <2>2
<1>5. CASE UNCHANGED <<account, consumed, tokens, told, provisioned>>
  BY <1>5
<1>6. QED
  BY <1>1, <1>2, <1>3, <1>4, <1>5 DEF Next, Handler, StartRegister, CheckEmail, StartBootstrap,
     PromoteUser, ConsumeBootstrap, Abort, vars

-----------------------------------------------------------------------------
\* Every variable keeps its type.
THEOREM TypeCorrect == Spec => []TypeOK
BY InitBootstrap, NextBootstrap, PTL DEF Spec, BootstrapInv

\* The promotion and the spending of the bootstrap are one.
THEOREM PromotionAtomic == Spec => []AdminByBootstrap
BY InitBootstrap, NextBootstrap, PTL DEF Spec, BootstrapInv

\* One promotion is told that it provisioned the admin, and no answer runs ahead.
THEOREM PromotedOnce == Spec => []AnswersTrue
BY InitBootstrap, NextBootstrap, PTL DEF Spec, BootstrapInv

\* However many registrations race, one role is handed out in tokens besides the
\* admin's, and the admin's only to an account that has been promoted.
THEOREM TokensCorrect == Spec => []TokensEarned
<1>1. ASSUME TokensInv PROVE TokensEarned
  <2>1. CASE tokens \ {"admin"} = {}
    BY <1>1, <2>1, FS_EmptySet DEF TokensInv, TokensEarned
  <2>2. CASE tokens \ {"admin"} # {}
    <3>1. PICK a : tokens \ {"admin"} = {a}
      BY <1>1, <2>2 DEF TokensInv
    <3>2. Cardinality({a}) = 1
      BY FS_Singleton
    <3>3. QED
      BY <1>1, <3>1, <3>2 DEF TokensInv, TokensEarned
  <2>3. QED
    BY <2>1, <2>2
<1>2. Init => TokensInv
  BY DEF Init, TokensInv
<1>3. TokensInv => TokensEarned
  BY <1>1
<1>4. QED
  BY <1>2, <1>3, InitBootstrap, NextBootstrap, NextTokens, PTL DEF Spec

\* A role once given changes by the promotion alone.
THEOREM RoleIsKept == Spec => RoleKept
BY StepKeepsRole, PTL DEF Spec, RoleKept

\* The handlers look like requests served one by one: every step of theirs is one of
\* AdminAccount, or cannot be seen in the account, the tokens and the answers.
THEOREM Refinement == Spec => ImplementsAdminAccount
<1>1. Init => Abstract!AccountInit
  BY DEF Init, Abstract!AccountInit
<1>2. Init => TokensInv
  BY DEF Init, TokensInv
<1>3. QED
  BY <1>1, <1>2, InitBootstrap, NextBootstrap, NextTokens, StepImplements, PTL
     DEF Spec, ImplementsAdminAccount, Abstract!AccountSpec
=============================================================================
