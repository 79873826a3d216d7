------------------------- MODULE SequenceCacheProofs -------------------------
(***************************************************************************)
(* Theorems: for any number of calls, whatever is dropped, late or cut     *)
(* short, the cache never stays ahead of the account, and calls that do    *)
(* not overlap bring it back in step.                                      *)
(***************************************************************************)
EXTENDS SequenceCache, TLAPS

SeqInv == TypeOK /\ WaitsForSent /\ NeverDesynced

\* The calls whose number explains a cache that is ahead.
Holds(c) == call[c].seq = cache /\ call[c].step \in {"send", "wait", "fail"}

LEMMA InitSeq == Init => SeqInv
BY ConstantsAssumption DEF Init, SeqInv, TypeOK, WaitsForSent, NeverDesynced, Idle, Steps, At

LEMMA NextType == TypeOK /\ [Next]_vars => TypeOK'
<1> SUFFICES ASSUME TypeOK, [Next]_vars PROVE TypeOK'
  OBVIOUS
<1> USE ConstantsAssumption DEF TypeOK, Steps, Glitch, Idle, At, Goto, Take
<1>1. ASSUME NEW c \in Calls, Begin(c) PROVE TypeOK'
  BY <1>1 DEF Begin
<1>2. ASSUME NEW c \in Calls, Handler(c) PROVE TypeOK'
  <2>1. CASE LoadCache(c)
    BY <2>1 DEF LoadCache
  <2>2. CASE FetchAdd(c)
    BY <2>2 DEF FetchAdd
  <2>3. CASE FetchSequence(c)
    BY <2>3 DEF FetchSequence
  <2>4. CASE StoreCache(c)
    BY <2>4 DEF StoreCache
  <2>5. CASE Send(c)
    BY <2>5 DEF Send
  <2>6. CASE Fail(c)
    BY <2>6 DEF Fail, DroppedCache
  <2>7. QED
    BY <1>2, <2>1, <2>2, <2>3, <2>4, <2>5, <2>6 DEF Handler
<1>3. ASSUME NEW c \in Calls, Ledger(c) PROVE TypeOK'
  BY <1>3 DEF Ledger, IncludeTx, DropTx
<1>4. ASSUME NEW c \in Calls, TimeOut(c) PROVE TypeOK'
  BY <1>4 DEF TimeOut
<1>5. ASSUME NEW c \in Calls, Cancel(c) PROVE TypeOK'
  <2>1. abandoned' \subseteq Nat
    <3>1. call[c].seq \in Nat
      OBVIOUS
    <3>2. QED
      BY <1>5, <3>1 DEF Cancel
  <2>2. UNCHANGED <<chain, cache, sent>> /\ glitches' \in 0..MaxGlitches
    BY <1>5 DEF Cancel
  <2>3. call' \in [Calls -> [step : Steps, seq : Nat]]
    BY <1>5 DEF Cancel
  <2>4. QED
    BY <2>1, <2>2, <2>3
<1>6. CASE UNCHANGED vars
  BY <1>6 DEF vars
<1>7. QED
  BY <1>1, <1>2, <1>3, <1>4, <1>5, <1>6 DEF Next

LEMMA NextWaits == SeqInv /\ [Next]_vars => WaitsForSent'
<1> SUFFICES ASSUME SeqInv, [Next]_vars PROVE WaitsForSent'
  OBVIOUS
<1> USE DEF SeqInv, TypeOK, WaitsForSent, Idle, At, Goto, Take
<1>1. ASSUME NEW c \in Calls, Begin(c) PROVE WaitsForSent'
  BY <1>1 DEF Begin
<1>2. ASSUME NEW c \in Calls, Handler(c) PROVE WaitsForSent'
  BY <1>2 DEF Handler, LoadCache, FetchAdd, FetchSequence, StoreCache, Send, Fail
<1>3. ASSUME NEW c \in Calls, Ledger(c) PROVE WaitsForSent'
  BY <1>3 DEF Ledger, IncludeTx, DropTx
<1>4. ASSUME NEW c \in Calls, TimeOut(c) \/ Cancel(c) PROVE WaitsForSent'
  BY <1>4 DEF TimeOut, Cancel
<1>5. CASE UNCHANGED vars
  BY <1>5 DEF vars
<1>6. QED
  BY <1>1, <1>2, <1>3, <1>4, <1>5 DEF Next

LEMMA NextDesynced == SeqInv /\ [Next]_vars => NeverDesynced'
<1> SUFFICES ASSUME SeqInv, [Next]_vars, cache' > chain'
             PROVE  (\E c \in Calls : Holds(c)') \/ cache' \in abandoned'
  BY DEF NeverDesynced, Holds, At
<1> USE DEF SeqInv, TypeOK
\* A step that leaves cache, chain and the holders alone.
<1>1. ASSUME UNCHANGED <<cache, chain>>, abandoned \subseteq abandoned',
             \A d \in Calls : Holds(d) => Holds(d)' \/ cache \in abandoned'
      PROVE  (\E c \in Calls : Holds(c)') \/ cache' \in abandoned'
  BY <1>1 DEF NeverDesynced, Holds
<1>2. ASSUME NEW c \in Calls, Begin(c) \/ LoadCache(c) \/ FetchSequence(c) \/ Send(c)
                              \/ TimeOut(c) \/ DropTx(c)
      PROVE  (\E d \in Calls : Holds(d)') \/ cache' \in abandoned'
  BY <1>1, <1>2 DEF Begin, LoadCache, FetchSequence, Send, TimeOut, DropTx, Holds,
                    At, Goto, Take
<1>3. ASSUME NEW c \in Calls, FetchAdd(c) \/ StoreCache(c)
      PROVE  (\E d \in Calls : Holds(d)') \/ cache' \in abandoned'
  BY <1>3 DEF FetchAdd, StoreCache, Holds, Goto, Take
<1>4. ASSUME NEW c \in Calls, IncludeTx(c)
      PROVE  (\E d \in Calls : Holds(d)') \/ cache' \in abandoned'
  <2>1. cache > chain /\ cache # sent[c]
    BY <1>4 DEF IncludeTx
  <2>2. CASE cache \in abandoned
    BY <1>4, <2>2 DEF IncludeTx
  <2>3. ASSUME NEW d \in Calls, Holds(d) PROVE Holds(d)'
    <3>1. CASE d = c
      BY <1>4, <2>1, <2>3, <3>1 DEF IncludeTx, Holds, WaitsForSent, At
    <3>2. CASE d # c
      BY <1>4, <2>3, <3>2 DEF IncludeTx, Holds
    <3>3. QED
      BY <3>1, <3>2
  <2>4. QED
    BY <2>1, <2>2, <2>3 DEF NeverDesynced, Holds
<1>5. ASSUME NEW c \in Calls, Fail(c) PROVE FALSE
  BY <1>5 DEF Fail, DroppedCache
<1>6. ASSUME NEW c \in Calls, Cancel(c)
      PROVE  (\E d \in Calls : Holds(d)') \/ cache' \in abandoned'
  <2>1. ASSUME NEW d \in Calls, Holds(d) PROVE Holds(d)' \/ cache \in abandoned'
    BY <1>6, <2>1 DEF Cancel, Holds
  <2>2. QED
    BY <1>1, <1>6, <2>1 DEF Cancel
<1>7. CASE UNCHANGED vars
  BY <1>1, <1>7 DEF vars, Holds
<1>8. QED
  BY <1>2, <1>3, <1>4, <1>5, <1>6, <1>7 DEF Next, Handler, Ledger

LEMMA SeqCorrect == Spec => []SeqInv
<1>1. SeqInv /\ [Next]_vars => SeqInv'
  BY NextType, NextWaits, NextDesynced DEF SeqInv
<1>2. QED
  BY <1>1, InitSeq, PTL DEF Spec

\* Every variable keeps its type: no number handed out or stored is negative.
THEOREM TypeCorrect == Spec => []TypeOK
<1>1. SeqInv => TypeOK
  BY DEF SeqInv
<1>2. QED
  BY <1>1, SeqCorrect, PTL

\* The cache is ahead of the account only on account of a call in flight, or of
\* one that was cut short.
THEOREM CacheNeverDesynced == Spec => []NeverDesynced
<1>1. SeqInv => NeverDesynced
  BY DEF SeqInv
<1>2. QED
  BY <1>1, SeqCorrect, PTL

-----------------------------------------------------------------------------
(* Calls that do not overlap.                                              *)

\* A call that has sent nothing yet has nothing on its way.
Unsent == \A c \in Calls : call[c].step \in {"load", "add", "fetch", "store", "send"}
                              => sent[c] = 0

LEMMA NextUnsent == TypeOK /\ Unsent /\ [Next]_vars => Unsent'
<1> SUFFICES ASSUME TypeOK, Unsent, [Next]_vars PROVE Unsent'
  OBVIOUS
<1> USE DEF TypeOK, Unsent, Idle, At, Goto, Take
<1>1. ASSUME NEW c \in Calls, Begin(c) \/ TimeOut(c) \/ Cancel(c) PROVE Unsent'
  BY <1>1 DEF Begin, TimeOut, Cancel
<1>2. ASSUME NEW c \in Calls, Handler(c) PROVE Unsent'
  BY <1>2 DEF Handler, LoadCache, FetchAdd, FetchSequence, StoreCache, Send, Fail
<1>3. ASSUME NEW c \in Calls, Ledger(c) PROVE Unsent'
  BY <1>3 DEF Ledger, IncludeTx, DropTx
<1>4. CASE UNCHANGED vars
  BY <1>4 DEF vars
<1>5. QED
  BY <1>1, <1>2, <1>3, <1>4 DEF Next

\* One call in flight, or none: to be in step is a matter of that call alone.
LEMMA AloneInStep ==
  ASSUME TypeOK', NEW c \in Calls,
         \A d \in Calls \ {c} : ~InFlight(d)',
         IF InFlight(c)' THEN OnCourse(c)' ELSE cache' \in {0, chain'}
  PROVE  InStep'
BY DEF InStep

\* A call that acts is in flight before or after its step; no other one moves.
LEMMA OthersRest ==
  ASSUME TypeOK, NEW c \in Calls, CallsApart, CallsApart',
         Begin(c) \/ Handler(c) \/ Ledger(c)
  PROVE  \A d \in Calls \ {c} : ~InFlight(d) /\ ~InFlight(d)'
<1>1. \A d \in Calls \ {c} : call'[d] = call[d] /\ sent'[d] = sent[d]
  <2>1. CASE Begin(c)
    BY <2>1 DEF TypeOK, Begin, Goto
  <2>2. CASE Handler(c)
    BY <2>2 DEF TypeOK, Handler, LoadCache, FetchAdd, FetchSequence, StoreCache, Send, Fail,
                Goto, Take
  <2>3. CASE Ledger(c)
    BY <2>3 DEF TypeOK, Ledger, IncludeTx, DropTx, Goto
  <2>4. QED
    BY <2>1, <2>2, <2>3
<1>2. InFlight(c) \/ InFlight(c)'
  <2>1. CASE Begin(c)
    BY <2>1 DEF TypeOK, Begin, Goto, InFlight, At
  <2>2. CASE Handler(c)
    BY <2>2 DEF Handler, LoadCache, FetchAdd, FetchSequence, StoreCache, Send, Fail, InFlight, At
  <2>3. CASE Ledger(c)
    BY <2>3 DEF Ledger, IncludeTx, DropTx, InFlight, TypeOK
  <2>4. QED
    BY <2>1, <2>2, <2>3
<1>3. QED
  BY <1>1, <1>2 DEF CallsApart, InFlight, At

\* The failure of a lone call leaves nothing but an empty cache.
LEMMA FailureResets ==
  ASSUME TypeOK', TypeOK, NEW c \in Calls, CallsApart, CallsApart', Fail(c)
  PROVE  InStep'
<1>1. \A d \in Calls \ {c} : ~InFlight(d)'
  BY OthersRest DEF Handler
<1>2. cache' = 0 /\ call'[c] = Idle
  BY DEF Fail, DroppedCache, TypeOK
<1>3. OnCourse(c)' /\ cache' \in {0, chain'}
  BY <1>2 DEF OnCourse, At, Idle
<1>4. QED
  BY <1>1, <1>3, AloneInStep

\* A lone call in step stays so unless the network lets it down.
LEMMA StaysInStep ==
  ASSUME TypeOK, TypeOK', Unsent, WaitsForSent, CallsApart, CallsApart', InStep,
         Next, glitches' = glitches
  PROVE  InStep'
<1> USE ConstantsAssumption
<1>1. \A g \in Nat : g + 1 # g
  OBVIOUS
<1>2. ~Glitch
  BY <1>1 DEF Glitch, TypeOK
<1>3. PICK c \in Calls : Begin(c) \/ Handler(c) \/ Ledger(c)
  BY <1>2 DEF Next, TimeOut, Cancel
<1>4. \A d \in Calls \ {c} : ~InFlight(d) /\ ~InFlight(d)'
  BY <1>3, OthersRest
<1>5. IF InFlight(c) THEN OnCourse(c) ELSE cache \in {0, chain}
  BY <1>4 DEF InStep
<1>6. SUFFICES IF InFlight(c)' THEN OnCourse(c)' ELSE cache' \in {0, chain'}
  BY <1>4, AloneInStep
<1>7. CASE Begin(c)
  BY <1>5, <1>7 DEF Begin, Goto, InFlight, OnCourse, At, TypeOK
<1>8. CASE LoadCache(c)
  BY <1>5, <1>8 DEF LoadCache, Goto, InFlight, OnCourse, At, TypeOK
<1>9. CASE FetchAdd(c)
  BY <1>5, <1>9 DEF FetchAdd, Take, InFlight, OnCourse, At, TypeOK
<1>10. CASE FetchSequence(c)
  BY <1>2, <1>5, <1>10 DEF FetchSequence, Take, InFlight, OnCourse, At, TypeOK
<1>11. CASE StoreCache(c)
  BY <1>5, <1>11 DEF StoreCache, Goto, InFlight, OnCourse, At, TypeOK
<1>12. CASE Send(c)
  BY <1>2, <1>5, <1>12 DEF Send, Goto, InFlight, OnCourse, At, TypeOK
<1>13. CASE Fail(c)
  BY <1>5, <1>13 DEF Fail, InFlight, OnCourse, At
<1>14. CASE IncludeTx(c)
  BY <1>5, <1>14 DEF IncludeTx, InFlight, OnCourse, At, Idle, TypeOK, Unsent, WaitsForSent
<1>15. CASE DropTx(c)
  BY <1>2, <1>5, <1>15 DEF DropTx, Goto, InFlight, OnCourse, At, TypeOK, Unsent, WaitsForSent
<1>16. QED
  BY <1>3, <1>7, <1>8, <1>9, <1>10, <1>11, <1>12, <1>13, <1>14, <1>15 DEF Handler, Ledger

\* Calls that do not overlap: one failure brings the cache back in step with the
\* account, and a call in step does not fail unless the network lets it down.
THEOREM AloneRecovers == Spec => RecoversAlone
<1>1. Init => Unsent
  BY DEF Init, Unsent, Idle
<1>2. SeqInv /\ Unsent /\ [Next]_vars => Unsent'
  BY NextUnsent DEF SeqInv
<1>3. SeqInv /\ SeqInv' /\ Unsent /\ [Next]_vars =>
        [CallsApart /\ CallsApart' =>
           /\ InStep /\ glitches' = glitches => InStep'
           /\ \A c \in Calls : Fail(c) => InStep']_vars
  <2> SUFFICES ASSUME SeqInv, SeqInv', Unsent, Next, CallsApart, CallsApart'
               PROVE  /\ InStep /\ glitches' = glitches => InStep'
                      /\ \A c \in Calls : Fail(c) => InStep'
    OBVIOUS
  <2> QED
    BY StaysInStep, FailureResets DEF SeqInv
<1>4. QED
  BY <1>1, <1>2, <1>3, SeqCorrect, PTL DEF Spec, RecoversAlone
=============================================================================
