# TROIT Logistics backend: formal model

TROIT is an escrow marketplace for used electronics: an Axum web server over
PostgreSQL, a Soroban (Stellar) escrow contract and an S3-compatible bucket. This
directory holds TLA+ models of the parts in which requests, failures and the outside
world interleave, the TLC runs that check them, and TLAPS proofs of the invariants
that matter most. `PROJECT.json` maps every definition to the lines it models.

To check a run: `tlc -config OrderEscrow_safety.cfg MCOrderEscrow.tla`.
To check proofs: `tlapm OrderEscrowProofs.tla`.

## 1. Inventory

Every handler is an `async fn` over a pool of connections. With two exceptions
(reordering images, the admin bootstrap) **no handler runs in a transaction**: each SQL
statement commits by itself, any number of handlers run between two awaits of another,
and an error, a timeout, a dropped connection or a restart stops a handler at any await.
That is where the hard behaviour of this program is.

| Component | State | Operations | Hard behaviour | What makes it correct |
|---|---|---|---|---|
| order life cycle (`orders/handlers.rs`) | `orders` row: status, payment_status, delivery_status, escrow_state, transaction hashes; `order_status_history` | fund, update status, pickup inspection, confirm delivery, refund, dispute, resolve | read-decide-call-write without a lock; two of the UPDATEs are guarded, the others name only the id; transactions that land after their handler is gone; hashes shown by clients | the row never runs ahead of the escrow, an order settles once, the seller is credited once |
| order placement (`orders/handlers.rs`) | `products.stock`, the new row, the escrow | create: check, deduct stock, insert, create escrow, compensate | compensations that fail or race with funding; stock the seller sets meanwhile | every unit is accounted for and sold once; "placed" and "failed" are true |
| trust engine (`trust/service.rs`) | seller's count, level, grade; `seller_trust_history` | record_successful_transaction | read, add, write back, log in separate statements | never inflated, level and grade fit the count, no demotion |
| executor (`blockchain/transaction.rs`, `client.rs`) | atomic `cached_sequence` | reserve a number, simulate, send, poll, invalidate | relaxed check-then-add, concurrent fetches, timeouts, cancellation | no failure leaves the cache ahead of the ledger for good |
| product images (`products/handlers.rs`, `services/storage.rs`) | `product_images`, bucket | upload, delete, reorder | two stores without a common transaction; row locks taken in different orders | table and bucket agree; limit; reorder is atomic |
| catalog (`products/handlers.rs`, `seller/handlers.rs`, `admin/handlers.rs`, `inspections/handlers.rs`) | `products` columns, seller's verification status, `inspection_reports` | list, edit, verify, inspect; submit and decide a seller's verification | checks against rows read earlier; full-row writes of partial edits; two-statement inspections | category rule, verdicts backed by reports, only approved sellers list |
| admin bootstrap and accounts (`bootstrap/handlers.rs`, `auth/`) | `users`, `admin_bootstrap_state`, tokens handed out | register, login, promote | FOR UPDATE on a row that does not exist; lost COMMIT answers; racing registrations | one promotion, one registration, truthful answers and tokens |
| escrow contract (external) | the escrow on the ledger | create, fund, release, refund, dispute, resolve | includes transactions late, or never | accepts each call in one state only |
| notifications, wishlist, subscriptions, demo data | rows of their own | single statements | none that other state depends on | |
| routing, middleware, configuration | none | | | |

Interactions: handlers share rows, never memory, except the executor's sequence cache.
Placement leaves the rows that the life cycle starts from. Confirming and resolving call
the trust engine after their UPDATE. Every contract call goes through the executor.
The verification of a seller gates listing; the verification and the archive flag of a
product gate placement.

## 2. Modules

A *slot* `req[r]` is a handler in flight; an action is the code from one await to the
next; `Abort` stops a handler at any await. Reads, decoding, role checks and wording are
left out. `End(r)` returns the slot, so a slot runs any number of handlers in turn.

**`EscrowContract`** (external). An escrow is the set of calls that succeeded on it.
`Accepts` says in which state the contract takes each call. It is modelled from the calls
in `blockchain/service.rs` and the states the executor decodes. `RefundUnfunded` leaves
open whether the contract refunds an escrow that was never funded.

**`ShownTransaction`** (extends `EscrowContract`). The transactions on the ledger as the
backend builds them, with contract, function and arguments, and what
`verify_transaction_semantics` makes of the one whose hash a client shows. The ledger
(`OnLedger`) also holds calls on escrows of other orders, calls of other contracts, and
transactions without a call.

**`OrderEscrow`** (core, extends `ShownTransaction`). `orders`, `history`, `credits` are the
tables, `calls` the escrow, `late` the transactions nobody waits for. A handler goes
`Start…` (SELECT and its guards) → `Submit`/`VerifyHash`/`Reject` → `Land`, `Poll` →
`Write…` (UPDATE with its WHERE clause) → `Log` → `Credit`. `WalletSubmit` lets a client
submit what it will show, `LandLate` lands what was abandoned. `NothingForgotten` relates
the whole contract to the row and to the handlers in flight: what succeeded and is not in
the row is on its way there. `ConfirmedHash` and
`UnconfirmedHash` say for which operations clients show hashes. The initial rows are
those `OrderPlacement` leaves, the creation of the escrow possibly still in `late`.

**`EscrowPayment`** (abstract). What the marketplace promises about the money of an order,
with no handler, contract or ledger: it is locked, then goes to one side, once; the
payment the order reports follows it, never ahead and never back; a reported release is
credited at most once. `OrderEscrow!ImplementsEscrowPayment` maps the escrow's calls to
where the money is and the row to the report. It is checked by `safety` and proved.

**`SellerRecord`** (extends `OrderEscrow`, instantiates `TrustEngine` as `Trust`). Several
delivered orders of one seller, confirmed, refunded, disputed and resolved at once. The last step of
a handler, one step in `OrderEscrow`, is opened up into the three statements of
`TrustEngine` (`Report`); the slot of the handler is the slot of the call, and a handler
that stops takes its call with it (`Stop`). `RecordIsEarned` relates the published record
to the escrows; `SomeSaleIsCounted` is the least that overlapping reports leave of them.

**`OrderPlacement`**. `create_order_handler` for every buyer of one product: `read`,
`deduct`, `nextval`, `insert`, `create`, `wait`, `created`, `log` and the compensations
`mark`, `note` and `give_back`, whose results the code ignores: a *lapse* is such a statement failing. It runs
against funding by the buyer, stock corrections, archiving, restoring and verification.
`supply` is a ghost: what the seller put up. `Holds` says where units are, not whose they
are: an order has its units until its handler comes to the UPDATE that gives them back.
Who has paid for them is `Sold`, and the two part where an order is funded after its units
went back (section 6).

**`OrderHandover`** (extends `OrderPlacement`). What a placement leaves for the life cycle:
the row, the escrow and the calls still on their way are an initial state of `OrderEscrow`
(`HandedOver`), and a refused placement leaves neither row, nor escrow, nor call
(`RefusedIsNothing`).

**`TrustEngine`**. The level and grade functions as pure operators; a call reads or
creates the profile, then goes through `update` and `log`. `start`, `made`, `counted` are ghosts,
and so is `alone`: no call has begun while another was in flight. `SellerRecord` uses it.

**`SequenceCache`**. `LoadCache`, `FetchAdd`, `FetchSequence`, `StoreCache` are the atomic
operations and the RPC between them; `Send`, `IncludeTx`, `DropTx`, `TimeOut` the ledger;
`Fail` drops the cache, `Cancel` is a handler dropped at an await, which does not.
A restart empties the cache, as a failure does. `InStep` says that cache and account agree,
`OnCourse` that the call under way will leave them so; `RecoversAlone` says of every step how a call
that is not overlapped moves between the two.

**`ProductImages`**. The table (`sort_order`), the bucket (`objects`), and the three
handlers. Row locks are derived from how far an open reorder has come (`Locks`, `Free`);
`DeadlockVictim` is PostgreSQL's deadlock detector. `cut` is a ghost: images on which a
handler stopped half way or was told the wrong outcome. `ObjectGoesFirst` holds of those
as well: a row goes last, so that a deletion can always be repeated.

**`ProductCatalog`**. One seller and one product. Creating is `seller`, `insert`; editing
`read`, `write`; an inspection `report`, `verdict`. The columns edited without
conditions stand together as `name`. `approved` and `vouched` are ghosts. Admins, who list
without a seller's verification, and categories outside of the list are left out.

**`AdminBootstrap`**. One email. Registration is `check_email`, `insert_user`; a promotion
is one transaction `check`, `lock_user`, `promote`, `consume`, `commit`, whose writes
others see at the commit only. An INSERT and a COMMIT may take effect and not be answered. `HoldsUser` is the row lock. The first lock is on a row that
does not exist until a promotion has committed, and so is no lock. Accounts made directly
in the database are left out.

**`AdminAccount`** (abstract). One email: nobody, then a user, then an admin, and the
bootstrap is used exactly when the account becomes one; what clients are told, and the
roles in the tokens they hold, were true when they were given. There is no lock, no handler
and no transaction in it. `AdminBootstrap!ImplementsAdminAccount` maps the committed rows to it.

The `MC…` modules add symmetry; every `…Proofs` module holds the theorems of one
component and extends it.

## 3. Runs

Runs named in **bold** violate a property that a comment, a message or a test states.
`PROJECT.json` quotes the line for each.

| Run | Bounds | Shows |
|---|---|---|
| `safety` | 1 order, 2 slots, 1 fault; hashes shown for fund, release and refund, unconfirmed for fund and release; order placed or FAILED | escrow_state, payment, audit trail and credit never contradict the contract; one settlement, one credit; a settlement is never reopened; the handlers implement `EscrowPayment`, so payments only move forward |
| `progress` | 2 slots, no fault, no hash | every handler ends; funding and refunds on chain reach the row; a completed order is credited; status and delivery_status agree although one is written back as read earlier; no call of the backend that succeeded, and no payment to the seller, is forgotten: it is booked or its handler is about to book it |
| **`release_lost`** | 2 slots, no fault | a release on chain that the guarded UPDATE then misses |
| **`unconfirmed_refund`** | unconfirmed hash for refund | an order marked refunded on a transaction that did not succeed |
| `sales` | 2 orders, 2 slots, 1 fault, seller starting from 3 sales; release shown by hash too | the published count never exceeds the escrows that paid the seller, and level and grade are those of an earned count; it has every booked sale if reports did not overlap and nothing stopped; however reports overlap, some sale is counted or on its way to be, and is counted in the end, unless something stopped |
| `placing` | 2 buyers of 2 units, stock 3, level 2, 1 fault, 1 lapse | every unit is on the shelf, off it on the account of an order or a handler, or one of a request whose handler was cut short or could not give it back; the shelf is never overdrawn, and oversold by orders alone that were funded after they were reported failed; "placed" is true; what a placement leaves is where `OrderEscrow` starts; every placement is answered |
| **`overwritten`** | 2 buyers | a funded order marked FAILED |
| `trust_rating` | 3 slots, 12 calls, 2 faults, eleven starts at and below every threshold | never inflated, only promotions by one logged; exact as long as calls do not overlap |
| `sequence_calls` | 2 slots, numbers to 5, 3 glitches | the cache is ahead only on account of a call in flight or cut short; one failure of a call that is not overlapped puts it in step with the account, where it stays until the network fails a call; calls that stop overlapping get through |
| `images_images` | 3 images, 2 slots, limit 1, 1 fault | table and bucket agree outside of `cut`; excess bounded by the racers; a reorder is all or nothing; a row goes only when the bucket has nothing left for it; every handler ends, opposite reorders included |
| `catalog_edits` | 2 slots, 1 fault | the category rule, backed verdicts, listing by approved sellers |
| `bootstrap_racing` | 3 slots, 2 faults | one promotion, one registration, truthful answers and tokens; the handlers implement `AdminAccount` |

The type invariants are proved, so no run repeats them. `PROJECT.json` names the definitions
each run checks.

**Why the bounds are enough.** Orders, products and accounts share no state with others
of their kind, so one is modelled (images and buyers, which share a product, are several,
and so are the orders of `sales`, which share the seller's record). One record is shared by
two handlers there: a start of 3 sales lets the second of the two reach LV2, at 5 sales.
The hazards are races between the check of one handler and the write of another: two
slots give every such pair, a slot being free again at `End` for what comes after. A
third slot is given where three handlers interfere with one row for long (`trust_rating`,
`bootstrap_racing`). In `images_images` a limit of 1 is enough for two rows, since both
slots may pass it together, and so for opposite reorders that wait for each other; the third
image is what a later upload takes. In `placing` two units of three leave no second order
without a give-back or a correction, which is where stock could be made up. The run does reach
the sale of four units of three (`SoldOnce`, section 6).
`MaxFaults`, `MaxLapses` and `MaxGlitches` bound how often something goes wrong: one leaves
what the code must survive, a second lets the repetition fail as well. `MaxCalls`, `MaxCredits` and
`MaxSeq` end counters that grow for ever; counts reach beyond the last threshold (50
sales), credits go to 2, one more than is right (in `sales` to 3). The modules whose
counters stop at a bound (`TrustEngine`, `SequenceCache`) are run without the deadlock
check for that reason, and `SellerRecord` because all sales may be settled.

**Fairness.** `OrderEscrow`, `OrderPlacement`, `ProductImages` and `SequenceCache` have a
`FairSpec`, `SellerRecord` a `SellerFairSpec` of the same kind, in which `Settle` and
`Report` are the handler's own steps. Weak fairness of a handler's own steps: Tokio polls a task that can go on, each
await has a timeout or an error, and polling a transaction stops after a fixed number of
attempts. Weak fairness of `Land`: the ledger closes, and includes or refuses what was
sent to it, and in `OrderPlacement` the poll also gives up without it. Strong fairness of `UpdateImage` and
`DeleteRow`, which wait for row locks: PostgreSQL queues waiters. Nothing obliges a client
to send a request, so no `Start` is fair, except `Begin` of `SequenceCache`, where calls
keep coming. `AdminBootstrap`, `ProductCatalog` and `TrustEngine` claim no liveness.

## 4. Proofs

All theorems hold for every value of the constants that their named assumptions allow:
any number of slots, orders, buyers, images, faults. What goes beyond `ConstantsAssumption`
is a condition on the hashes that clients show, and is named in the theorem.

* `OrderEscrowProofs`: types, and `PaymentCorrect`, that the payment a row reports never
  runs ahead of the escrow. `PaymentAgrees` alone is not inductive: a handler that is about
  to write a settlement must be backed by a call that stays true of the escrow. The
  inductive invariant adds `WritesBacked` and `OneWinner` (an escrow is never both released
  and refunded). Two facts about the contract carry the proof: a settled escrow refuses
  everything (`SettledRefuses`), and an accepted payout decides the winner
  (`PayoutDecides`). The theorem assumes `SafeHashes`, that clients show confirmed hashes
  for no resolution and unconfirmed ones for funding and release only; the run
  `unconfirmed_refund`, and the double credit of section 6, show what happens otherwise.
* The same module proves every other safety property of the core. `OrderInv` adds to the
  above what ties handlers to the chain (`DoneOnChain`: a handler past its call has that
  call in the escrow; `OneRelease`), the row to its hash columns (`ColumnsAgree`) and the
  credit to the handler on its way to it (`CreditInv`: one handler at a time settles an order
  in the seller's favour, and none after the credit); all of it under `SafeHashes`, so that the one
  race with a double credit, two resolutions shown one transaction, is outside of what
  `CreditCorrect` says. `EscrowStateCorrect`, `AuditCorrect`,
  `SettlementCorrect` and `CreditCorrect` follow; `DeliveryCorrect` needs types alone.
  `SettledForGood`, that a settlement is never reopened, adds `DisputeInv`: while a dispute
  that succeeded on chain waits for its UPDATE, the row does not know of it, so nobody can
  resolve it. It assumes in addition that disputes are not shown by hash.
* `NothingIsForgotten`: with no interruption, the row lacks nothing but what a handler is about
  to write, and a release nothing but a credit on its way. The guarded UPDATEs are what makes this
  hard: one that finds the row changed writes nothing. `SettledRows` (an escrow_state that
  is settled is the payment_status too) and `LateIsShown` (without interruptions, only transactions
  that clients submitted are left to land) show that the change it met was a settlement.
* Two theorems say what is left when clients show hashes that `SafeHashes` excludes.
  `FundedFirst` holds for any hashes at all: money that a row, its history or the seller's record knows of was
  locked on chain first. `SettledOneWay` asks only that unconfirmed hashes go to handlers that
  insist on success (`HashesSucceeded`): a settlement, refund or dispute that is reported took
  place, though of two resolutions a hash does not tell which. Both were checked first with the
  `safety` configuration with every chain operation in `ConfirmedHash`, no fault, the target
  `DELIVERED` alone, and placements that created their escrow.
* `Refinement`: `OrderEscrow` implements `EscrowPayment` for all constants under
  `SafeHashes`. Every step changes one of the escrow, the row and the credits at most
  (`StepKinds`); a call moves the money as `Goes` allows (`MoneyGoes`); an UPDATE of the
  payment reports what is true and may follow (`ReportsTrue`). `PaymentForward` is a corollary
  of the same facts. `ShownIsCall` says that verification accepts exactly the calls of the
  expected function that succeeded on the order's own escrow.
* `SellerRecordProofs`: each step of the composition is one of `OrderEscrow`, whose `OrderInv`
  therefore holds, and one of the trust engine: `SalesRunTheEngine` is the refinement of `TrustEngine` by the
  composition, from which `EngineOfSales` takes over what the engine alone was proved to do.
  `RecordEarned` is for finitely many orders. `Done` is the set of booked sales no handler has
  still to count. It only grows, every UPDATE of the record adds an order to it, and what a call has read is at most what was counted
  (`RecordInv`); overlapping calls overwrite each other downwards only.
  `RecordComplete` is the other half: while calls do not overlap the count is exact, and while
  nothing stops, no sale enters `Done` but by an UPDATE (`CompleteInv`), since a handler that
  has booked its sale keeps on to it (`CountingGoesOn`). `SaleIsCounted`: some booked sale
  is counted or on its way, however calls overwrite each other, since no call has read less than the
  start (`LowInv`). All three rest on `SafeHashes` and `SalesAssumption`.
* `OrderPlacementProofs`: types, and `PlacedCorrect`: "placed" is never said of an order
  without an escrow or marked failed. The invariant follows a handler on its way to the
  answer (`OnTheWay`). `StockCorrect`, that every unit is accounted for: units are counted one
  by one, as pairs of buyer and number, so that the library's theorems on cardinality
  do what a sum over the buyers would need induction for. The invariant names the requests whose
  units are missing (`Missing`), to which each failure adds one at most (`NextStock`), and
  none of which ever has units again (`LetGoStays`). `OversoldByFailedOnly` follows: a paid
  order that was not reported failed still has its units.
  `OrdersHandedOver` and `RefusedLeavesNothing` follow a row, its escrow and the late creation
  through every compensation (`HandInv`): where the placement ends, `OrderEscrow!Init` holds.
* `TrustEngineProofs`: `RatingMonotone` and `LevelBoundsGrade` about the rating functions
  for every count; types; `NotInflated` and `TrailPromotes`. The companion
  `CallsNeverInflated` says that what a call read is no more inflated than the row.
  `AloneIsExact`: while calls do not overlap, the record lacks nothing but what the one call
  in flight has still to do (`AloneInv`), and the trail is a chain up to there (`Chain`).
* `SequenceCacheProofs`: types and `CacheNeverDesynced`, with the companion `WaitsForSent`.
  `AloneRecovers`: one failure of a lone call puts the cache in step with the account
  (`FailureResets`), and a call in step stays on course (`StaysInStep`); `Unsent` says that a call
  has nothing on the ledger before it sends.
* `ProductImagesProofs`: types; `StoresCorrect` by one invariant per image (`ImageOK`);
  `LimitCorrect`, by counting rows and admitted uploads together, with the cardinality
  theorems of the library; `ReorderCorrect`, from what an upload has to itself (`Exclusive`) and from
  lists that name no image twice. `ObjectFirst` adds that a deletion past the bucket has no
  object left (`ObjectsGone`), for half-done images too.
* `ProductCatalogProofs`: types and the three invariants, with what each handler has read
  and checked (`HandlersInv`). `CategoryCorrect` rests on `EditedConsistent`: a valid
  payload applied to any consistent row makes a consistent row, and *all* columns of it are
  written, so that it does not matter that the row has changed.
* `AdminBootstrapProofs`: types, `PromotionAtomic`, `PromotedOnce`, `TokensCorrect`, `RoleIsKept`. `LockInv`
  says that one promotion at a time is past the user's lock, and only while the account is
  not promoted; an INSERT finds the email free only when nobody holds that lock. `Refinement`
  shows that the handlers implement `AdminAccount`: every statement is a stutter but the INSERT,
  the commit and the answer, and the three that take effect do so as one request would.

Every invariant, step property and refinement that a passing run checks is also a theorem. Only model-checked:
liveness (`RequestsEnd`, `FundIsBooked`, `RefundIsBooked`, `CompletedIsCredited`,
`SomeSaleCounts`, `CallsGetThrough`), which is out of the prover's reach. The states it
passes through are proved: `NothingIsForgotten` for the bookings and the credit,
`SaleIsCounted` for the count, `AloneRecovers` for the executor. What remains is that each
handler takes its next step, which is what fairness says.

## 5. What holds, and why it is easy to break

Delivery statuses agree although one is written back stale, because every write sets both
in the same direction. The category rule survives stale validation only because *all*
columns are written back, the very thing that loses edits: the mutant that writes just what
was sent breaks the rule. One promotion alone succeeds although the lock meant to ensure it
locks nothing. A failed contract call drops the whole cache of sequence numbers; taking
back just its own number, or leaving it, desyncs the account.

## 6. What the code does not keep

Three runs violate a property that the code states of itself: `release_lost`,
`unconfirmed_refund` and `overwritten`. Ten more such properties, and
`CreditedAtMostOnce` and `SettledStaysSettled` under hashes that `safety` leaves out, are
not kept either. They are
stated in the modules, with the reason in their comments, and each can be reproduced by
checking it with the configuration of a passing run, changed as follows.

| Property | Configuration | What happens |
|---|---|---|
| `OrderEscrow!CompletedIsCredited` | `progress`, 1 fault | a handler stops between UPDATE and credit, and a retry returns early (handlers.rs:881) |
| `OrderEscrow!CreditedAtMostOnce` | `safety`, ConfirmedHash `{"resolve_release"}` | two resolutions with one confirmed transaction both credit the seller (handlers.rs:1218) |
| `OrderEscrow!SettledStaysSettled` | `safety`, ConfirmedHash `{"dispute_escrow"}`, UnconfirmedHash `{}` | of two handlers shown one dispute the second writes DISPUTED over an order resolved meanwhile (handlers.rs:1105) |
| `OrderEscrow!FundedFromCreated` | `safety` | an order marked FAILED whose create_escrow landed late is funded (handlers.rs:329) |
| `OrderPlacement!SoldOnce` | `placing` | create_escrow lands late or unseen, the order is reported failed and its units go back; it is funded all the same, and the units are sold again (handlers.rs:240, 329) |
| `OrderPlacement!CreationFailedIsTrue` | `placing` | the UPDATE that marks the order FAILED fails unnoticed (handlers.rs:221) |
| `OrderPlacement!ArchivedNotOrdered` | `placing` | a product archived after the check is ordered (handlers.rs:96) |
| `TrustEngine!EveryCallCounts` | `trust_rating` | two completions that read the same count are counted as one (trust/service.rs:78) |
| `SequenceCache!DroppedIsRefetched` | `sequence_calls` | a call counts on from the 0 another call's failure stored (transaction.rs:75) |
| `ProductImages!WithinLimit` | `images_images` | uploads counted before either inserts pass the limit (products/handlers.rs:350) |
| `ProductCatalog!ListedByVerified` | `catalog_edits` | a seller turned down between check and INSERT lists (products/handlers.rs:80) |
| `ProductCatalog!EditsArePartial` | `catalog_edits`, Names `{"n1", "n2"}` | one partial edit reverts another (products/handlers.rs:765) |

Most have one of four causes: an UPDATE that names the row by its id although the decision
was made on an earlier read (`overwritten`, `CreditedAtMostOnce`, `EditsArePartial`,
`SettledStaysSettled`, `EveryCallCounts`); a check whose answer is not looked at again
(`ArchivedNotOrdered`, `ListedByVerified`, `WithinLimit`); a status that is not checked at all
(`FundedFromCreated`, and through it `SoldOnce`); and a dropped result
(`CreationFailedIsTrue`, `unconfirmed_refund`). `release_lost` is the reverse: the UPDATE
*is* guarded, but the money has moved by the time the guard fails.

## 7. Not modelled

Amounts, currencies and decimals; XDR, signatures, fees and simulation results; roles and
ownership checks (they decide who may call, not what a call does); notifications
(inserted after the fact, errors ignored); wishlist (single statements under a UNIQUE
constraint, nothing else depends on them); listings; the text of names, reports and keys.

Two parts have no behaviour to model. Both writing handlers of **subscriptions** insert
`ON CONFLICT (seller_id)`, and no migration makes that column unique, so PostgreSQL refuses
the statement every time. The **demo data** endpoint replaces a product (the DELETE
cascades to its orders) by an INSERT whose RETURNING list lacks `is_archived` and
`archived_at`, which the row it decodes into has: each call replaces the first product
and then fails. The order life cycle is modelled for orders
that are not deleted under their handlers.

Within modelled parts: the branch of placement for an executor without configuration, an
INSERT of an order that commits but is reported as failed, the inspection's RETURNING list, which lacks
two columns that its decoding needs, so that a committed inspection is reported as failed.
That `resolve_dispute_handler` drops the trust engine's error is an interruption of the
last step. What an admin has looked at before deciding on a seller, who may resubmit meanwhile
(admin/handlers.rs:184), is no state of the program: the decision is one UPDATE that compares
nothing, and nothing remembers which details it was about.

Calls of the executor that overlap may reset or rewind its cache under each other for
ever. It needs the same lost race over and over, and nothing in the code promises otherwise,
so `CallsGetThrough` claims recovery for calls that have stopped overlapping.

## 8. Plan

Done: the modules above, in the order `EscrowContract`, `OrderEscrow`, `OrderPlacement`,
`TrustEngine`, `SequenceCache`, `ProductImages`, `ProductCatalog`, `AdminBootstrap`, then
`ShownTransaction`, `EscrowPayment` with the refinement, `SellerRecord`, `OrderHandover`,
`AdminAccount` with the refinement, and theorems for every property of a passing run that is not
liveness.

What is left, in order of importance:

1. The order of the audit trail, which `AuditAgrees` treats as a set.
2. The executor's cache shared by the contract calls of several handlers: a composition of
   `SequenceCache` with `OrderEscrow`, whose `Submit` then may fail for its number.
3. Seller verification with resubmission, with what the admin was shown as a ghost.
