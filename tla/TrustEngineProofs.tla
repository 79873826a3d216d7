-------------------------- MODULE TrustEngineProofs --------------------------
(***************************************************************************)
(* Theorems about the trust engine, for any number of concurrent calls:    *)
(* the shape of the level and grade tables, and the invariants.            *)
(***************************************************************************)
EXTENDS TrustEngine, TLAPS

\* A seller who completes more orders, at a rate no lower, is never rated lower
\* (calculate_trust_level, calculate_seller_grade).
THEOREM RatingMonotone ==
  ASSUME NEW m \in Int, NEW n \in Int, m <= n,
         NEW p \in Int, NEW q \in Int, p <= q
  PROVE  /\ calculate_trust_level(m, p) <= calculate_trust_level(n, q)
         /\ calculate_seller_grade(m, p) <= calculate_seller_grade(n, q)
BY DEF calculate_trust_level, calculate_seller_grade

\* The two tables agree: LV4 and LV5 sellers are Grade A, LV3 at least Grade B.
THEOREM LevelBoundsGrade ==
  ASSUME NEW n \in Int, NEW p \in Int
  PROVE  /\ calculate_trust_level(n, p) >= 4 => calculate_seller_grade(n, p) = 3
         /\ calculate_trust_level(n, p) >= 3 => calculate_seller_grade(n, p) >= 2
BY DEF calculate_trust_level, calculate_seller_grade

\* One more transaction changes the level by one at most.
LEMMA OneMore ==
  ASSUME NEW n \in Nat,
         calculate_trust_level(n + 1, Rate) # calculate_trust_level(n, Rate)
  PROVE  calculate_trust_level(n + 1, Rate) = calculate_trust_level(n, Rate) + 1
BY DEF calculate_trust_level, Rate

LEMMA ProfileType ==
  ASSUME NEW n \in Nat
  PROVE  /\ Profile(n) \in Profiles
         /\ Profile(n).txs = n
         /\ Profile(n).level = calculate_trust_level(n, Rate)
BY DEF Profile, Profiles, Levels, Grades, calculate_trust_level, calculate_seller_grade

-----------------------------------------------------------------------------
\* Calls about to log were given a row one level below the one they wrote.
LogsPromote ==
  \A c \in Calls : call[c].step = "log" => PromotesByOne(Entry(call[c].seen))

TrustInv ==
  TypeOK /\ NeverInflated /\ CallsNeverInflated /\ LogsPromote /\ HistoryPromotesByOne

LEMMA InitTrust == Init => TrustInv
<1> SUFFICES ASSUME Init PROVE TrustInv
  OBVIOUS
<1>1. start \in Nat
  BY ConstantsAssumption DEF Init
<1>2. Profile(start) \in Profiles /\ Profile(start).txs = start /\ Profile(0) \in Profiles
  BY <1>1, ProfileType
<1>3. TypeOK
  BY <1>1, <1>2 DEF Init, TypeOK, Idle
<1>4. NeverInflated
  BY <1>1, <1>2 DEF Init, NeverInflated
<1>5. CallsNeverInflated /\ LogsPromote
  BY DEF Init, CallsNeverInflated, LogsPromote, Idle
<1>6. HistoryPromotesByOne
  BY DEF Init, HistoryPromotesByOne
<1>7. QED
  BY <1>3, <1>4, <1>5, <1>6 DEF TrustInv

LEMMA NextTrust == TrustInv /\ [Next]_vars => TrustInv'
<1> SUFFICES ASSUME TrustInv, [Next]_vars PROVE TrustInv'
  OBVIOUS
<1> USE DEF TrustInv
<1>0. Idle \in [step : {"idle", "update", "log"}, seen : Profiles] /\ Idle.step = "idle"
  BY ProfileType DEF Idle
<1>1. ASSUME NEW c \in Calls, UpsertProfile(c) PROVE TrustInv'
  <2>1. TypeOK'
    BY <1>1 DEF TypeOK, UpsertProfile
  <2>2. NeverInflated' /\ HistoryPromotesByOne'
    BY <1>1 DEF UpsertProfile, NeverInflated, HistoryPromotesByOne
  <2>3. CallsNeverInflated' /\ LogsPromote'
    BY <1>1 DEF UpsertProfile, TypeOK, NeverInflated, CallsNeverInflated, LogsPromote,
                Entry, NewRow, PromotesByOne
  <2>4. QED
    BY <2>1, <2>2, <2>3
<1>2. ASSUME NEW c \in Calls, UpdateProfile(c) PROVE TrustInv'
  <2> DEFINE seen == call[c].seen
  <2>1. seen \in Profiles /\ seen.txs \in Nat /\ seen = Profile(seen.txs)
        /\ seen.txs <= start + counted
    BY <1>2 DEF UpdateProfile, TypeOK, Profiles, CallsNeverInflated
  <2>2. /\ NewRow(seen) \in Profiles
        /\ NewRow(seen).txs = seen.txs + 1
        /\ NewRow(seen) = Profile(seen.txs + 1)
    BY <2>1, ProfileType DEF NewRow
  <2>3. TypeOK'
    BY <1>0, <1>2, <2>2 DEF TypeOK, UpdateProfile
  <2>4. NeverInflated'
    BY <1>2, <2>1, <2>2 DEF NeverInflated, UpdateProfile, TypeOK
  <2>5. CallsNeverInflated'
    BY <1>0, <1>2 DEF CallsNeverInflated, UpdateProfile, TypeOK, Profiles
  <2>6. LevelChanged(seen) => PromotesByOne(Entry(seen))
    <3>1. NewRow(seen).level = calculate_trust_level(seen.txs + 1, Rate)
      BY <2>1, <2>2, ProfileType
    <3>2. seen.level = calculate_trust_level(seen.txs, Rate)
      BY <2>1, ProfileType
    <3>3. QED
      BY <2>1, <3>1, <3>2, OneMore DEF LevelChanged, PromotesByOne, Entry
  <2>7. LogsPromote'
    <3>1. /\ call'[c].step = "log" => LevelChanged(seen) /\ call'[c].seen = seen
          /\ \A d \in Calls \ {c} : call'[d] = call[d]
      BY <1>0, <1>2 DEF UpdateProfile, TypeOK
    <3>2. QED
      BY <2>6, <3>1 DEF LogsPromote, Entry, NewRow, PromotesByOne
  <2>8. HistoryPromotesByOne'
    BY <1>2 DEF UpdateProfile, HistoryPromotesByOne
  <2>9. QED
    BY <2>3, <2>4, <2>5, <2>7, <2>8
<1>3. ASSUME NEW c \in Calls, AppendHistory(c) PROVE TrustInv'
  <2> DEFINE entry == Entry(call[c].seen)
  <2>1. call[c].seen \in Profiles /\ PromotesByOne(entry)
    BY <1>3 DEF AppendHistory, TypeOK, LogsPromote
  <2>2. entry \in [old : Levels, new : Levels]
    <3>1. NewRow(call[c].seen) \in Profiles
      BY <2>1, ProfileType DEF NewRow, Profiles
    <3>2. QED
      BY <2>1, <3>1 DEF Entry, Profiles
  <2>3. TypeOK'
    BY <1>0, <1>3, <2>2 DEF TypeOK, AppendHistory
  <2>4. HistoryPromotesByOne'
    BY <1>3, <2>1, <2>2 DEF AppendHistory, HistoryPromotesByOne, TypeOK
  <2>5. NeverInflated'
    BY <1>3 DEF AppendHistory, NeverInflated
  <2>6. CallsNeverInflated' /\ LogsPromote'
    BY <1>0, <1>3 DEF AppendHistory, CallsNeverInflated, LogsPromote, TypeOK,
                      Entry, NewRow, PromotesByOne
  <2>7. QED
    BY <2>3, <2>4, <2>5, <2>6
<1>4. ASSUME NEW c \in Calls, Abort(c) PROVE TrustInv'
  <2>1. TypeOK'
    BY <1>0, <1>4 DEF TypeOK, Abort
  <2>2. NeverInflated' /\ HistoryPromotesByOne'
    BY <1>4 DEF Abort, NeverInflated, HistoryPromotesByOne
  <2>3. CallsNeverInflated' /\ LogsPromote'
    BY <1>0, <1>4 DEF Abort, CallsNeverInflated, LogsPromote, TypeOK,
                      Entry, NewRow, PromotesByOne
  <2>4. QED
    BY <2>1, <2>2, <2>3
<1>5. CASE UNCHANGED vars
  BY <1>5 DEF vars, TypeOK, NeverInflated, CallsNeverInflated, LogsPromote,
              HistoryPromotesByOne, Entry, NewRow, PromotesByOne
<1>6. QED
  BY <1>1, <1>2, <1>3, <1>4, <1>5 DEF Next, Step

\* Every variable keeps its type.
THEOREM TypeCorrect == Spec => []TypeOK
<1>1. TrustInv => TypeOK
  BY DEF TrustInv
<1>2. QED
  BY <1>1, InitTrust, NextTrust, PTL DEF Spec

\* However many completions race and stop half way, a seller is never published
\* with a count, level or grade above what was completed.
THEOREM NotInflated == Spec => []NeverInflated
<1>1. TrustInv => NeverInflated
  BY DEF TrustInv
<1>2. QED
  BY <1>1, InitTrust, NextTrust, PTL DEF Spec

\* The trail of level changes never skips a level nor tells of a demotion.
THEOREM TrailPromotes == Spec => []HistoryPromotesByOne
<1>1. TrustInv => HistoryPromotesByOne
  BY DEF TrustInv
<1>2. QED
  BY <1>1, InitTrust, NextTrust, PTL DEF Spec

-----------------------------------------------------------------------------
(* Calls that do not overlap.                                              *)

\* The trail is a chain from the level at the start to the given one.
Chain(level) ==
  /\ \A i \in 1..Len(history) - 1 : history[i].new = history[i + 1].old
  /\ history # <<>> => /\ history[1].old = Profile(start).level
                       /\ history[Len(history)].new = level
  /\ history = <<>> => level = Profile(start).level

\* While calls have not overlapped and none has stopped, one at most is in flight,
\* and the record is exact but for what that call has still to do.
AloneInv ==
  alone /\ faults = 0 =>
    /\ \A c, d \in Calls : call[c].step # "idle" /\ call[d].step # "idle" => c = d
    /\ (\A c \in Calls : call[c].step = "idle") =>
         profile.txs = start + made /\ Chain(profile.level)
    /\ \A c \in Calls : call[c].step = "update" =>
         /\ call[c].seen = profile /\ profile.txs + 1 = start + made
         /\ Chain(profile.level)
    /\ \A c \in Calls : call[c].step = "log" =>
         /\ profile = NewRow(call[c].seen) /\ profile.txs = start + made
         /\ Chain(call[c].seen.level)

LEMMA ChainGrows ==
  ASSUME TypeOK, NEW entry \in [old : Levels, new : Levels],
         history' = Append(history, entry), Chain(entry.old), UNCHANGED start
  PROVE  Chain(entry.new)'
<1>1. /\ history \in Seq([old : Levels, new : Levels]) /\ Len(history) \in Nat
      /\ Len(history') = Len(history) + 1 /\ history'[Len(history) + 1] = entry
      /\ \A i \in 1..Len(history) : history'[i] = history[i]
      /\ history = <<>> <=> Len(history) = 0
  BY DEF TypeOK
<1>2. \A i \in 1..Len(history') - 1 : history'[i].new = history'[i + 1].old
  <2> SUFFICES ASSUME NEW i \in 1..Len(history) PROVE history'[i].new = history'[i + 1].old
    BY <1>1
  <2>1. CASE i = Len(history)
    BY <1>1, <2>1 DEF Chain
  <2>2. CASE i # Len(history)
    BY <1>1, <2>2 DEF Chain
  <2>3. QED
    BY <2>1, <2>2
<1>3. history' # <<>> /\ history'[Len(history')].new = entry.new
  BY <1>1
<1>4. history'[1].old = Profile(start).level
  BY <1>1 DEF Chain
<1>5. QED
  BY <1>2, <1>3, <1>4 DEF Chain, Profile

LEMMA NextAlone == TypeOK /\ AloneInv /\ [Next]_vars => AloneInv'
<1> SUFFICES ASSUME TypeOK, AloneInv, [Next]_vars, alone', faults' = 0 PROVE AloneInv'
  BY DEF AloneInv
<1>0. Idle.step = "idle" /\ profile.txs \in Nat /\ start \in Nat /\ made \in Nat
  BY DEF Idle, TypeOK, Profiles
<1>1. ASSUME NEW c \in Calls, UpsertProfile(c) PROVE AloneInv'
  <2>1. /\ alone /\ faults = 0 /\ made' = made + 1
        /\ \A d \in Calls : call[d].step = "idle"
        /\ call'[c] = [step |-> "update", seen |-> profile]
        /\ \A d \in Calls \ {c} : call'[d] = call[d]
        /\ UNCHANGED <<profile, history, start>>
    BY <1>1 DEF UpsertProfile, TypeOK
  <2>2. profile.txs = start + made /\ Chain(profile.level)
    BY <2>1 DEF AloneInv
  <2>3. Chain(profile.level)'
    BY <2>1, <2>2 DEF Chain, Profile
  <2>4. profile'.txs + 1 = start' + made'
    BY <1>0, <2>1, <2>2
  <2>5. QED
    BY <2>1, <2>3, <2>4 DEF AloneInv
<1>2. ASSUME NEW c \in Calls, UpdateProfile(c) PROVE AloneInv'
  <2> DEFINE seen == call[c].seen
  <2>1. /\ alone /\ faults = 0 /\ call[c].step = "update"
        /\ profile' = NewRow(seen) /\ UNCHANGED <<history, start, made>>
        /\ call' = IF LevelChanged(seen)
                     THEN [call EXCEPT ![c].step = "log"] ELSE [call EXCEPT ![c] = Idle]
    BY <1>2 DEF UpdateProfile
  <2>2. /\ seen = profile /\ profile.txs + 1 = start + made /\ Chain(profile.level)
        /\ \A d \in Calls \ {c} : call[d].step = "idle"
    BY <2>1 DEF AloneInv
  <2>3. /\ \A d \in Calls \ {c} : call'[d] = call[d]
        /\ LevelChanged(seen) => call'[c].step = "log" /\ call'[c].seen = seen
        /\ ~LevelChanged(seen) => call'[c].step = "idle"
    BY <1>0, <2>1 DEF TypeOK
  <2>4. profile'.txs = start + made
    BY <1>0, <2>1, <2>2, ProfileType DEF NewRow
  <2>5. CASE LevelChanged(seen)
    <3>1. Chain(seen.level)'
      BY <2>1, <2>2, <2>3, <2>5 DEF Chain, Profile
    <3>2. NewRow(seen)' = NewRow(seen) /\ call'[c].seen = seen
      BY <2>3, <2>5 DEF NewRow, Profile
    <3>3. Chain(call[c].seen.level)'
      BY <2>1, <2>2, <2>3, <2>5 DEF Chain, Profile
    <3>4. profile' = NewRow(call[c].seen)'
      BY <2>1, <2>3, <2>5 DEF NewRow, Profile
    <3>5. QED
      BY <2>1, <2>2, <2>3, <2>4, <2>5, <3>3, <3>4 DEF AloneInv
  <2>6. CASE ~LevelChanged(seen)
    <3>1. profile'.level = profile.level
      BY <2>1, <2>2, <2>6 DEF LevelChanged
    <3>2. Chain(profile.level)'
      BY <2>1, <2>2, <3>1 DEF Chain, Profile
    <3>3. QED
      BY <2>1, <2>2, <2>3, <2>4, <2>6, <3>2 DEF AloneInv
  <2>7. QED
    BY <2>5, <2>6
<1>3. ASSUME NEW c \in Calls, AppendHistory(c) PROVE AloneInv'
  <2> DEFINE seen == call[c].seen
  <2>1. /\ alone /\ faults = 0 /\ call[c].step = "log"
        /\ history' = Append(history, Entry(seen))
        /\ call' = [call EXCEPT ![c] = Idle]
        /\ UNCHANGED <<profile, start, made>>
    BY <1>3 DEF AppendHistory
  <2>2. /\ profile = NewRow(seen) /\ profile.txs = start + made /\ Chain(seen.level)
        /\ \A d \in Calls \ {c} : call[d].step = "idle"
    BY <2>1 DEF AloneInv
  <2>3. \A d \in Calls : call'[d].step = "idle"
    BY <1>0, <2>1, <2>2 DEF TypeOK
  <2>4. PICK entry \in [old : Levels, new : Levels] :
          entry = Entry(seen) /\ entry.old = seen.level /\ entry.new = profile.level
    <3>1. seen.level \in Levels /\ profile.level \in Levels
      BY DEF TypeOK, Profiles
    <3>2. Entry(seen) = [old |-> seen.level, new |-> profile.level]
      BY <2>2 DEF Entry
    <3>3. Entry(seen) \in [old : Levels, new : Levels]
      BY <3>1, <3>2
    <3>4. QED
      BY <3>2, <3>3
  <2>5. Chain(entry.old)
    BY <2>2, <2>4
  <2>6. Chain(entry.new)'
    BY <2>1, <2>4, <2>5, ChainGrows
  <2>7. Chain(profile.level)'
    BY <2>1, <2>4, <2>6 DEF Chain
  <2>8. QED
    BY <2>1, <2>2, <2>3, <2>7 DEF AloneInv
<1>4. ASSUME NEW c \in Calls, Abort(c) PROVE AloneInv'
  BY <1>4 DEF Abort, TypeOK
<1>5. CASE UNCHANGED vars
  BY <1>5 DEF vars, AloneInv, Chain, NewRow, Profile
<1>6. QED
  BY <1>1, <1>2, <1>3, <1>4, <1>5 DEF Next, Step

\* Calls that do not overlap leave an exact record: every one counted, and a trail
\* that leads step by step from the first level to the published one.
THEOREM AloneIsExact == Spec => []ExactWhenAlone
<1>1. Init => AloneInv
  <2>1. Init => history = <<>> /\ \A c \in Calls : call[c].step = "idle"
    BY DEF Init, Idle
  <2>2. Init => profile.txs = start + made /\ profile = Profile(start)
    BY ConstantsAssumption, ProfileType DEF Init
  <2>3. QED
    BY <2>1, <2>2 DEF AloneInv, Chain
<1>2. AloneInv => ExactWhenAlone
  BY DEF AloneInv, Chain, ExactWhenAlone
<1>3. QED
  BY <1>1, <1>2, NextAlone, TypeCorrect, PTL DEF Spec
=============================================================================
