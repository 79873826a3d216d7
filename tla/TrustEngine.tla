----------------------------- MODULE TrustEngine -----------------------------
(***************************************************************************)
(* The trust engine of trust/service.rs for one seller.  A completed order *)
(* calls record_successful_transaction, which upserts and returns the      *)
(* profile, counts and grades in memory, writes the profile back, and logs *)
(* a change of level: three statements, each committed by itself, run by   *)
(* as many handlers at once as orders complete at once.                    *)
(***************************************************************************)
EXTENDS Integers, Sequences

CONSTANTS
  Calls,       \* slots for calls of record_successful_transaction in flight
  StartCounts, \* the numbers of transactions sellers may start with
  MaxCalls,    \* bound: calls made in all
  MaxFaults    \* bound: calls that stop half way, at an error or with the process

ASSUME ConstantsAssumption ==
  StartCounts \subseteq Nat /\ MaxCalls \in Nat /\ MaxFaults \in Nat

VARIABLES
  profile,  \* the row of seller_profiles
  history,  \* the rows of seller_trust_history, oldest first
  call,     \* call[c]: the step of the call in slot c and the row it was given
  start,    \* ghost: the count at the start
  made,     \* ghost: calls made so far
  counted,  \* ghost: calls whose UPDATE was executed
  alone,    \* ghost: no call has begun while another was in flight
  faults

vars == <<profile, history, call, start, made, counted, alone, faults>>

-----------------------------------------------------------------------------
Levels == 1..5       \* LV1 to LV5
Grades == 1..3       \* Grade C, Grade B, Grade A

\* The arms of the if-chain; the first that holds is the highest.
calculate_trust_level(txs, rate) ==
  IF      txs >= 50 /\ rate >= 98 THEN 5
  ELSE IF txs >= 30 /\ rate >= 95 THEN 4
  ELSE IF txs >= 15 /\ rate >= 93 THEN 3
  ELSE IF txs >= 5  /\ rate >= 90 THEN 2
  ELSE 1

calculate_seller_grade(txs, rate) ==
  IF      txs >= 25 /\ rate >= 95 THEN 3
  ELSE IF txs >= 10 THEN 2
  ELSE 1

\* The MVP baseline: every completed order counts as fulfilled.
Rate == 100

Profile(txs) == [txs |-> txs, level |-> calculate_trust_level(txs, Rate),
                 grade |-> calculate_seller_grade(txs, Rate)]

Profiles == [txs : Nat, level : Levels, grade : Grades]

Idle == [step |-> "idle", seen |-> Profile(0)]

\* A seller with some history; a first call that has to insert the row returns
\* the defaults, which are those of a seller with no transactions.
Init ==
  /\ start \in StartCounts
  /\ profile = Profile(start)
  /\ history = <<>>
  /\ call = [c \in Calls |-> Idle]
  /\ made = 0 /\ counted = 0 /\ alone = TRUE /\ faults = 0

\* INSERT ... ON CONFLICT DO UPDATE ... RETURNING: the call reads the profile.
UpsertProfile(c) ==
  /\ call[c].step = "idle" /\ made < MaxCalls
  /\ made' = made + 1
  /\ alone' = (alone /\ \A d \in Calls : call[d].step = "idle")
  /\ call' = [call EXCEPT ![c] = [step |-> "update", seen |-> profile]]
  /\ UNCHANGED <<profile, history, start, counted, faults>>

\* Mutants: two transactions counted for one; one taken back.
DoubleCount(seen) == Profile(seen.txs + 2)
CountDown(seen)   == Profile(seen.txs - 1)

\* The row a call writes: computed from the row it was given.
NewRow(seen) == Profile(seen.txs + 1)

\* Mutant: every call is logged, whether or not the level changed.
LogAlways(seen) == TRUE

\* level_changed compares with the row the call was given.
LevelChanged(seen) == NewRow(seen).level # seen.level

UpdateProfile(c) ==
  /\ call[c].step = "update"
  /\ profile' = NewRow(call[c].seen)
  /\ counted' = counted + 1
  /\ call' = IF LevelChanged(call[c].seen)
               THEN [call EXCEPT ![c].step = "log"] ELSE [call EXCEPT ![c] = Idle]
  /\ UNCHANGED <<history, start, made, alone, faults>>

\* Mutant: the log names the level the row has now as the old one.
EntryFromRow(seen) == [old |-> profile.level, new |-> NewRow(seen).level]

Entry(seen) == [old |-> seen.level, new |-> NewRow(seen).level]

AppendHistory(c) ==
  /\ call[c].step = "log"
  /\ history' = Append(history, Entry(call[c].seen))
  /\ call' = [call EXCEPT ![c] = Idle]
  /\ UNCHANGED <<profile, start, made, counted, alone, faults>>

Abort(c) ==
  /\ call[c].step # "idle" /\ faults < MaxFaults
  /\ faults' = faults + 1
  /\ call' = [call EXCEPT ![c] = Idle]
  /\ UNCHANGED <<profile, history, start, made, counted, alone>>

Step(c) == UpsertProfile(c) \/ UpdateProfile(c) \/ AppendHistory(c)

Next == \E c \in Calls : Step(c) \/ Abort(c)

Spec == Init /\ [][Next]_vars

-----------------------------------------------------------------------------
TypeOK ==
  /\ profile \in Profiles
  /\ history \in Seq([old : Levels, new : Levels])
  /\ call \in [Calls -> [step : {"idle", "update", "log"}, seen : Profiles]]
  /\ start \in Nat /\ made \in Nat /\ counted \in Nat
  /\ alone \in BOOLEAN /\ faults \in Nat

\* The published level and grade are those of the published count, and the
\* count credits no order that was not completed, whichever call wrote last.
NeverInflated ==
  /\ profile = Profile(profile.txs)
  /\ profile.txs <= start + counted

\* Its inductive companion: what a call was given is no more inflated than the row.
CallsNeverInflated ==
  \A c \in Calls :
    call[c].step # "idle" =>
      /\ call[c].seen = Profile(call[c].seen.txs)
      /\ call[c].seen.txs <= start + counted

PromotesByOne(entry) == entry.new = entry.old + 1

\* Every logged change is a promotion by one level, so that the trail of a
\* seller never skips a level nor tells of a demotion.
HistoryPromotesByOne ==
  \A i \in DOMAIN history : PromotesByOne(history[i])

\* Calls that do not overlap keep an exact record: each counts, and the trail is
\* a chain that leads from the first level to the published one.
ExactWhenAlone ==
  alone /\ (\A c \in Calls : call[c].step = "idle") /\ faults = 0 =>
    /\ profile.txs = start + made
    /\ \A i \in 1..Len(history) - 1 : history[i].new = history[i + 1].old
    /\ history # <<>> => /\ history[1].old = Profile(start).level
                         /\ history[Len(history)].new = profile.level
    /\ history = <<>> => profile.level = Profile(start).level

\* "Records a completed transaction for a seller and updates trust metrics
\* transactionally": once all calls have ended, the count has all of them.
EveryCallCounts ==
  (\A c \in Calls : call[c].step = "idle") /\ faults = 0 => profile.txs = start + made
=============================================================================
