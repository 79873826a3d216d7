---------------------------- MODULE SequenceCache ----------------------------
(***************************************************************************)
(* The sequence numbers of the backend's Stellar account.  Every contract  *)
(* call of blockchain/transaction.rs takes a number from a cache all calls *)
(* share, an AtomicI64 that holds the last number handed out, or 0 when it *)
(* has to be fetched; a call that fails drops the cache.  The ledger takes *)
(* a transaction only if its number is the account's next one.             *)
(***************************************************************************)
EXTENDS Naturals

CONSTANTS
  Calls,         \* slots for calls of execute_contract_call in flight
  FirstSeq,      \* the account's sequence number at the start
  Fallback,      \* what get_account_sequence answers when it could not ask
  MaxSeq,        \* bound: no call begins once the account has this number
  MaxGlitches    \* bound: numbers not fetched right, transactions dropped, calls cut short

ASSUME ConstantsAssumption ==
  /\ FirstSeq \in Nat \ {0} /\ Fallback \in Nat /\ MaxSeq \in Nat /\ MaxGlitches \in Nat

VARIABLES
  chain,      \* the account's sequence number on the ledger
  cache,      \* cached_sequence
  call,       \* call[c]: the step of the call in slot c and its number
  sent,       \* numbers of transactions sent and not yet included or dropped
  abandoned,  \* numbers of calls that were cut short
  glitches

vars == <<chain, cache, call, sent, abandoned, glitches>>

Steps == {"idle", "load", "add", "fetch", "store", "send", "wait", "fail"}
Idle  == [step |-> "idle", seq |-> 0]

At(c, step) == call[c].step = step
Goto(c, step) == call' = [call EXCEPT ![c].step = step]
Take(c, step, n) == call' = [call EXCEPT ![c] = [step |-> step, seq |-> n]]

Glitch == glitches < MaxGlitches /\ glitches' = glitches + 1

Init ==
  /\ chain = FirstSeq /\ cache = 0
  /\ call = [c \in Calls |-> Idle]
  /\ sent = [c \in Calls |-> 0] /\ abandoned = {} /\ glitches = 0

Begin(c) ==
  /\ At(c, "idle") /\ sent[c] = 0 /\ chain < MaxSeq
  /\ Goto(c, "load")
  /\ UNCHANGED <<chain, cache, sent, abandoned, glitches>>

-----------------------------------------------------------------------------
(* get_next_sequence: a load, then an increment of whatever is there by    *)
(* then; or a request to Horizon, then a store.                            *)

LoadCache(c) ==
  /\ At(c, "load")
  /\ Goto(c, IF cache > 0 THEN "add" ELSE "fetch")
  /\ UNCHANGED <<chain, cache, sent, abandoned, glitches>>

FetchAdd(c) ==
  /\ At(c, "add")
  /\ cache' = cache + 1
  /\ Take(c, "send", cache + 1)
  /\ UNCHANGED <<chain, sent, abandoned, glitches>>

\* Horizon tells the account's number, or one it had before; any answer but a
\* success is taken for the number Fallback.  An error ends the call here.
FetchSequence(c) ==
  /\ At(c, "fetch")
  /\ \/ Take(c, "store", chain + 1) /\ UNCHANGED glitches
     \/ Glitch /\ \E n \in {Fallback, chain - 1} : Take(c, "store", n + 1)
     \/ Glitch /\ Take(c, "idle", 0)
  /\ UNCHANGED <<chain, cache, sent, abandoned>>

StoreCache(c) ==
  /\ At(c, "store")
  /\ cache' = call[c].seq
  /\ Goto(c, "send")
  /\ UNCHANGED <<chain, sent, abandoned, glitches>>

-----------------------------------------------------------------------------
(* Simulation and submission, inclusion in a ledger, polling.              *)

Send(c) ==
  /\ At(c, "send")
  /\ \/ sent' = [sent EXCEPT ![c] = call[c].seq] /\ Goto(c, "wait") /\ UNCHANGED glitches
     \/ Glitch /\ Goto(c, "fail") /\ UNCHANGED sent
  /\ UNCHANGED <<chain, cache, abandoned>>

\* Included with its number: the polling call, if there still is one, succeeds.
IncludeTx(c) ==
  /\ sent[c] = chain + 1
  /\ chain' = chain + 1
  /\ sent' = [sent EXCEPT ![c] = 0]
  /\ IF At(c, "wait") THEN call' = [call EXCEPT ![c] = Idle] ELSE UNCHANGED call
  /\ UNCHANGED <<cache, abandoned, glitches>>

\* Refused for its number, or lost.
DropTx(c) ==
  /\ sent[c] # 0
  /\ IF sent[c] = chain + 1 THEN Glitch ELSE UNCHANGED glitches
  /\ sent' = [sent EXCEPT ![c] = 0]
  /\ IF At(c, "wait") THEN Goto(c, "fail") ELSE UNCHANGED call
  /\ UNCHANGED <<chain, cache, abandoned>>

\* The fifteen attempts are over and the transaction is still on its way, or it
\* was included and failed in the contract.
TimeOut(c) ==
  /\ At(c, "wait") /\ Glitch
  /\ Goto(c, "fail")
  /\ UNCHANGED <<chain, cache, sent, abandoned>>

\* Mutants: a failed call leaves the cache as it is, takes one number back, or
\* stores a value that does not mean "fetch".
KeepCache  == cache
TakeBack   == cache - 1
DropToOne  == 1

\* invalidate_cached_sequence
DroppedCache == 0

Fail(c) ==
  /\ At(c, "fail")
  /\ cache' = DroppedCache
  /\ call' = [call EXCEPT ![c] = Idle]
  /\ UNCHANGED <<chain, sent, abandoned, glitches>>

\* The client goes away and its handler is dropped between two awaits: nothing
\* after the await is run.
Cancel(c) ==
  /\ call[c].step \in {"fetch", "send", "wait"} /\ Glitch
  /\ abandoned' = abandoned \cup ({call[c].seq} \ {0})
  /\ call' = [call EXCEPT ![c] = Idle]
  /\ UNCHANGED <<chain, cache, sent>>

Handler(c) ==
  LoadCache(c) \/ FetchAdd(c) \/ FetchSequence(c) \/ StoreCache(c) \/ Send(c) \/ Fail(c)

Ledger(c) == IncludeTx(c) \/ DropTx(c)

Next == \E c \in Calls : Begin(c) \/ Handler(c) \/ Ledger(c) \/ TimeOut(c) \/ Cancel(c)

Spec == Init /\ [][Next]_vars

\* Calls keep coming, the runtime keeps polling them, the ledger keeps closing.
FairSpec == Spec /\ \A c \in Calls : /\ WF_vars(Begin(c)) /\ WF_vars(Handler(c))
                                     /\ WF_vars(Ledger(c))

-----------------------------------------------------------------------------
TypeOK ==
  /\ chain \in Nat \ {0} /\ cache \in Nat
  /\ call \in [Calls -> [step : Steps, seq : Nat]]
  /\ sent \in [Calls -> Nat] /\ abandoned \subseteq Nat
  /\ glitches \in 0..MaxGlitches

\* The cache is ahead of the account only for as long as a call that may still
\* use the number is in flight, or because one was cut short: a failure never
\* leaves behind a gap that later calls would count on from.
NeverDesynced ==
  cache > chain =>
    \/ \E c \in Calls : call[c].seq = cache /\ call[c].step \in {"send", "wait", "fail"}
    \/ cache \in abandoned

\* Its inductive companion: a polling call polls the transaction of its number.
WaitsForSent == \A c \in Calls : At(c, "wait") => sent[c] = call[c].seq

\* "so the next call to `get_next_sequence` re-fetches the account's real
\* sequence from chain": no number is counted on from the 0 of a dropped cache.
\* Not kept: the load that finds the cache filled and the fetch_add are apart.
DroppedIsRefetched ==
  [][\A c \in Calls : At(c, "add") /\ call'[c].step = "send" => cache > 0]_vars

InFlight(c) == ~At(c, "idle") \/ sent[c] # 0
CallsApart  == \A c, d \in Calls : InFlight(c) /\ InFlight(d) => c = d

\* A call the cache serves well: the number it has, or will come to, is the next one.
OnCourse(c) ==
  \/ At(c, "idle") /\ cache \in {0, chain} /\ (sent[c] = chain + 1 => cache = 0)
  \/ At(c, "load") /\ cache \in {0, chain}
  \/ At(c, "add") /\ cache = chain
  \/ At(c, "fetch") /\ cache = 0
  \/ At(c, "store") /\ call[c].seq = chain + 1
  \/ call[c].step \in {"send", "wait"} /\ cache = chain + 1 /\ call[c].seq = cache

InStep ==
  /\ \A c \in Calls : InFlight(c) => OnCourse(c)
  /\ (\E c \in Calls : InFlight(c)) \/ cache \in {0, chain}

\* While calls do not overlap, one failure is all it takes to be in step with the
\* account again, whatever overlaps and cancellations had left behind, and a call
\* in step stays on course to its success unless the network lets it down.
RecoversAlone ==
  [][CallsApart /\ CallsApart' =>
       /\ InStep /\ glitches' = glitches => InStep'
       /\ \A c \in Calls : Fail(c) => InStep']_vars

\* "permanently desyncs it from the chain" is what dropping the cache avoids:
\* once the network behaves and calls do not overlap any more, whatever overlaps,
\* failures and cancellations have left behind, they get through again.
CallsGetThrough == <>[]CallsApart => <>(chain >= MaxSeq)
=============================================================================
