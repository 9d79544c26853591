# PayGate in TLA+

PayGate takes payments for other services: it opens transactions at a gateway (Midtrans),
stores payments and refunds in PostgreSQL, follows the gateway's notifications and
announces every change on RabbitMQ. This directory holds TLA+ models of the parts of it
that are concurrent or can fail halfway, TLC instances of them, and TLAPS proofs.

The models are translated from the code under `src/`. Paths below are relative to
`src/internal/` unless they start with `docs/`; `PROJECT.json` gives the lines each
definition stands for.

## The system

| Part | State | Operations | Talks to |
|---|---|---|---|
| Payment aggregate, `domain/payment` | one payment and its refunds, in memory | `Mark*`, `Cancel`, `RequestRefund`, `CompleteRefund`, `FailRefund` | loaded and saved by every handler |
| Command handlers, `application/command` | a loaded copy | create, cancel, force-expire, notification, refund | repository, gateway, attempts, cache |
| Reconciler, `reconcile.go` | a loaded copy; ages of what is unsettled | settle lost charges, settle and re-send refunds, in batches | repository, gateway, Redis lock |
| Expiry job, `postgres/expiry_job.go` | - | expire overdue PENDING payments | repository, Redis lock |
| Repository, `postgres/payment_repo.go` | `payments`, `refunds`, `payment_events`, `outbox_events` | `Save` (one transaction, version check), finders, `ListPaginated` | PostgreSQL |
| Idempotency, `http/middleware/idempotency.go` | a claim per caller and reference in Redis | `Begin`, `Complete`, `Release` | `PaymentHandler.CreatePayment` |
| Redis locks | a key with a TTL | `SetNX`, `Delete` | the two jobs |
| Outbox, `postgres/outbox_*.go`, `rabbitmq/` | `outbox_events` | write, claim, publish, mark | PostgreSQL, RabbitMQ |
| Midtrans adapter, `gateway/midtrans` | - | charge, status, cancel, refund, parse a notification | the gateway (external) |
| Attempts, `attempt_recorder.go` | `payment_attempts`, numbered per payment | number and insert, with a few retries | every gateway call |
| Cached views, `application/query` | one JSON view per payment ID and per reference in Redis | read through, drop after a change | repository, Redis |
| Listings, `list_payments.go`, `cursor.go` | a cursor the client holds | page by page, newest first | repository |
| Admin views, HTTP, configuration, telemetry | - | reading, formatting, wiring | - |

Any number of replicas run all of this at once. They meet in five places: the payment row
(optimistic version, then a row lock), the Redis keys (SETNX, cached views), the outbox rows
(row locks), the attempt numbers (unique index) and the gateway (order ID and refund key as
idempotency keys).

What is hard here, and what each part must get right:

- **Handlers race on one payment.** Every operation loads, thinks, calls the gateway for up
  to 30 s and saves. Some loads are two queries, some finders return no refunds at all. No
  Save may store a payment that does not follow from what is stored, reserve more than was
  paid, reopen what is closed, or lose an event.
- **A Save is several statements** under READ COMMITTED: it must still be one step to others.
- **Gateway calls have three outcomes**: yes, no, and unknown. What is stored, recorded and
  answered must agree with what the gateway did, whichever replies, notifications or processes
  are lost.
- **Charging comes before storing.** Between the two there is a transaction nobody knows of.
- **Requests are repeated**, at once or after a failure, and guarded by a claim that can
  expire, be released or be unavailable.
- **Locks are leases**: they expire under a slow holder.
- **Batches have limits**: what cannot be settled must not keep the rest from its turn.
- **Publishing is not part of the transaction** that decides it.
- **Views and pages are read while payments change**: a caller must see its own change, and a walk
  over pages may neither repeat nor skip.

`PROJECT.json` lists these hazards one by one, at the lines where they bite.

## Modules

```
Payment --+-- PaymentLifecycle (abstract): PayGate implements it
          +-- PayGate --+-- EventLog --- MCPayGate
                        +-- PayGateProofs
                                      EventLog, PayGateProofs --- RecordProofs
SerialStore (abstract): PaymentStore implements it
PaymentStore -- PaymentCache -- StoreProofs
Charge -------- MCCharge, ChargeProofs
LeaseLock ----- Passes --- PassesProofs
Midtrans ------ GatewayCalls --- GatewayCallsProofs
Outbox -------- OutboxProofs
Listing ------- ListingProofs
```

Definitions marked "Variant" are plausible mistakes in the definition after them. Nothing
uses them; each was put in that definition's place once to see a property fail.

### Payment

The aggregate as a value. Each Go method `M` is a pair: `CanM`, when it returns no error,
and `M`, the payment afterwards. No variables: PayGate's workers and PaymentLifecycle apply
the operators to their own copies. Amounts are small naturals; `Total` counts currency
units, which keeps the module free of recursion, so that it can be proved about. Timestamps,
customer data and payloads are left out.

### PayGate

One payment, everything that happens to it. Variables: `row`, `refunds`, `events` (the
three tables), `age` (ticks since each refund was requested), `gw` (the gateway's
transaction), `notifs` (everything the gateway ever sent: never removed, so that each can be
late, repeated, reordered or lost) and `workers` (one goroutine each, with its operation, its
program counter and its loaded copy).

| Operation | Actions |
|---|---|
| `CreatePaymentHandler` | `CreateCharge`, `CreateSave` |
| `CancelPaymentHandler` | `BeginRequest`, `ReadRefunds`, `CancelCall`, `CancelSave` |
| `ForceExpireHandler`, `ExpiryJob` | `BeginRequest` / `BeginExpiry`, `Expire` |
| `ProcessCallbackHandler` | `BeginRequest`, `ReadRefunds`, `Callback` |
| `RefundPaymentHandler` | `BeginRequest`, `ReadRefunds`, `RefundReserve`, `RefundCall`, `RefundOutcome`, `OutcomeReload`, `OutcomeRetry` |
| `Reconciler.reconcileCharge` | `BeginReconcileCharge`, `ChargeLookup`, `ChargeCancel`, `ChargeSave` |
| `Reconciler.reconcileRefunds` | `BeginReconcileRefunds`, `ReadRefunds`, `RefundsLookup`, `RefundsResend`, `RefundsSave` |
| any of them failing, at any point | `Abandon` |
| customer, gateway, time | `GatewaySettles`, `RefundInDashboard`, `GrowOlder` |

A step ends wherever somebody else could interfere: a query, a gateway call, a Save. `Save`
is one step because it is one transaction (PaymentStore shows that this is right), and is
enabled only if the copy still has the row's version; a Save that loses is `Abandon`, or
`OutcomeReload` where the code retries.

Two assumptions about time are built in. A refund request is over before its refund is old
enough to be re-sent (`GrowOlder`; 30 minutes against HTTP timeouts of 30 seconds). And a
charge call has ended, answered or not, before the reconciler asks about its payment: the code
takes care of it with a charge grace (`reconcile.go:20`) that must exceed the gateway timeout,
which a configured timeout of 0, meaning none, would defeat.

The gateway is external. It is modelled from what the adapter and the fake Midtrans of the
end-to-end tests (`test/e2e/fake_midtrans_test.go`) expect of it: a refund is refused if
nothing is left (412) before its key is compared (406).

### EventLog

What a consumer of `payment_events` can make of it: a view of the payment's status and of its refunds'
that each event turns, or corrupts if it cannot follow the ones before. `EventsReplay` folds the
stored events and compares the view with the stored payment.

### PaymentLifecycle

What a reader of the database may rely on: the status diagram of `docs/domain-model.md` and
refunds reserved within what is left and settled once, as one value changing one legal step
at a time. `PayGate!ImplementsLifecycle` says that PayGate implements it under the mapping
`status <- row.status` (`"ABSENT"` before the first Save): every committed Save is a legal
step on what was stored just before, so the version check makes the handlers serial.

### PaymentStore and SerialStore

`PaymentRepo.Save` statement by statement: the versioned UPDATE (or the INSERT) that takes the
row's lock and waits for it, the refunds' upserts and the `MAX(sequence_number)` query, the
inserts behind the unique index and the commit, heard or not; and `FindByID` as the two queries
it is. Row contents are reduced to the number of the Save that wrote them, which is enough to
tell whether a Save built on everything before it. SerialStore promises the caller Saves
that happen one after another, all or nothing; `PaymentStore!ImplementsSerialSaves` maps
`log <- events`.

### PaymentCache

PaymentStore with the two cached views (by ID, by reference). A view is the version it was
built from. A handler that saved drops both keys before it answers; a drop may fail; a query
that missed reads the row and writes its view later, maybe after the drop. `acknowledged` and
`excused` are history variables: the newest version whose handler has answered, and the keys
whose view a lost drop or an overtaken query explains.

### Charge

`POST /payments` sent several times for one reference: the claim in Redis, the lookup, the
charge, the insert behind a unique index. A payment is named by the request that opened it,
since each request generates its own payment ID and sends it as order ID. `Faults` chooses
what may go wrong; `slips` records what has gone wrong with claims (Redis failed, a request
outlived its claim) and `unsaved` which requests were cut off or failed at the database, so that each
property excuses only the faults that can really break it. `Crash` is also a client that
disconnects: the handler uses the request's context throughout, so every later query and Redis
call fails just as if it were not made.

### Midtrans and GatewayCalls

Midtrans is the adapter as operators: a reply is its HTTP status, the `status_code` of its
body, whether it names a transaction and that transaction's status, and each call maps it to
an answer or to a kind of error. GatewayCalls lets several handlers call for one payment, with
every reply the adapter tells apart, whether or not the gateway did what was asked, and models
what `CreatePaymentHandler` stores and answers and how `AttemptRecorder` numbers and inserts
attempts: the SELECT inside the INSERT, the unique index, and the retries.

### LeaseLock and Passes

LeaseLock is the lock around a pass of the reconciler (TTL: the interval) or the expiry job
(90 s), in ticks. The owner is in the model only; Redis holds "1", and `Delete` removes whatever
is there. Passes is `RunOnce` under it: two finders with a LIMIT, the charges oldest first and
the refunds in any order, each payment settled or left for a later pass, with failing queries and
replicas that die. What may become of one payment is PayGate's; Passes asks whether its turn comes.

### Outbox

Rows written with a Save, workers that claim a batch under row locks, publish and mark each
row inside that transaction, and commit. A lost connection releases the locks at once while
the worker may still be publishing. `messages`, `failures` and `setbacks` are history
variables: what the broker took, the publishes that failed, and the confirms and
transactions that were lost.

### Listing

`GET /payments` and `GET /admin/payments`: filters, the clamped page size, the extra row that tells
whether there is a next page, the cursor of the last row, and a client's walk over the pages while
payments are stored (possibly older than those listed, or at the same instant) and paid. `steady` is
what has matched the filter ever since the first page. `ORDER BY created_at DESC, id DESC` is `Newest`: the one
arrangement of the rows found that is newest first.

## Runs

`tlc -workers 2 -config X.cfg M`, in this directory. The module is the `.cfg`'s name up to `_`.

| Configuration | Instance | Checks |
|---|---|---|
| `MCPayGate_payments` | 3 workers, every operation, one full refund, refunds made in Midtrans' dashboard too | `TypeOK`; `StatusAgreesWithGateway`: what is stored never contradicts what the gateway collected, but for a charge reply that names no transaction; `EventsReplay`: the event log replays to what is stored; `ImplementsLifecycle` |
| `MCPayGate_refunds` | 2 workers, 2 refunds, 2 references, amount 2, one reconciliation pass at a time, refunds in the dashboard too | `NoOverRefund`, `CopiesSound`, `StatusMatchesRefunds`, `RefundReferenceUnique`, `EventsReplay`; `RefundAgreesWithGateway`: no refund is SUCCEEDED unpaid or FAILED paid; `PaidOutWithinAmount`: the gateway never pays out more than was collected |
| `MCPayGate_live` | 2 workers, 1 partial refund, fair | `LostChargeSettles`, `PaidRefundRecorded` |
| `MCCharge_repeated` | 3 requests for one reference, 2 payloads, every fault | `TypeOK`; `CreatedMeansStored`: a 201 names the stored payment with the same payload; `ChargedOnceUnlessFailed`: while claims exclude, all charges but one are of requests that were cut off or could not save; `ChargeOnRecord`: a charge whose request could save leaves a stored payment, under every fault; `HolderOwnsClaim`: the claim a request completes or deletes is its own, unless some request outlived its claim |
| `PaymentCache` | 2 goroutines, 1 query, 1 refund, 3 versions | `TypeOK`, `ImplementsSerialSaves`, `NumbersNeverClash`, `CopiesWhole`, `ChangesAreSeen`, `ViewsConverge` |
| `GatewayCalls` | 2 handlers, 4 attempts, 3 tries per insert | `RecordedAgrees`, `FateAgrees`, `AnswerFits`: the attempt recorded, the state stored and the answer given agree with what the gateway did; `AttemptsNumbered`, `LostMeansBeaten` |
| `Outbox` | 3 rows, batches of 2, 2 workers, fair | `RepeatsAreSetbacks`: a message is repeated only after a loss; `PublishedWasTaken`, `GivenUpAfterRetries`, `SettledForGood`, `EveryRowSettles` |
| `Passes` | 2 replicas, 3 charges and 3 refunds, one of each stuck, batches of 2, 2 crashes, fair | `OneAtATime`, `DeletesOnlyItsOwn`, `JobKeepsRunning`, `EveryTurnComes` |
| `Listing` | 4 payments, 2 instants, 2 services, pages of 1 and 2 | `NewestFirst`: strictly newest first, nothing twice; `NoneSkipped` |

Three runs end in a counterexample, on purpose: each states what the repository says of the
program and the code does not do.

| Configuration | The repository says | The run shows |
|---|---|---|
| `MCPayGate_overlap` | "Gateway declined the refund; its amount is refundable again" (`docs/events.md:21`) | Two passes overlap because the lock ran out. The slower looked the refund up before the faster one paid it, re-sends it, is refused (nothing left) and stores FAILED for a refund that was paid. |
| `MCPayGate_mismatch` | "left PENDING for review" (`application/command/process_callback.go:135`) | The reconciler goes on to re-send the refund whose amount does not match; a re-send the gateway refuses is stored as FAILED though money moved. |
| `MCCharge_disconnect` | "a reused reference never opens a second transaction" (`application/command/create_payment.go:82`) | A request cut off between the charge and `Save` leaves no row. The retry, once the claim has expired, charges again. |

Other places where the documents promise more than the code does. They have no run, either
because one step shows them or because the models build them in as assumptions:

- A refund made in the dashboard of a payment whose charge reply was lost: `docs/domain-model.md:33`
  says the reconciler settles every INITIATED payment, but it does not know what to do with a
  transaction that is already refunded and leaves the payment as it is.
- "One replica at a time" (`docs/database.md:23`) holds while passes are shorter than the
  lock's TTL; nothing bounds a pass by it. `LockExcludes` is proved under that assumption.
- Finders look at the oldest batch only. As many stuck payments as fit into it keep
  all others waiting (`Passes!CrowdAssumption`).
- A charge reply of 2xx that names no transaction closes the payment as FAILED
  (`adapter/outbound/gateway/midtrans/charge.go:63`), whatever the gateway opened. PayGate and GatewayCalls
  have the reply; `StatusAgreesWithGateway` and `FateAgrees` except it.
- `docs/events.md:14` has `PaymentInitiated` stored before the gateway call; `CreatePaymentHandler`
  charges first and stores once (`create_payment.go:104`, `:155`).
- The charge grace "must exceed the gateway call timeout" (`reconcile.go:20`); a timeout of 0 means none.

### Bounds, and why they are enough

- *One payment* in PayGate, PaymentStore, PaymentCache and GatewayCalls: no Save, lock, version,
  cache key or attempt number spans two payments. Passes and Listing, where payments do meet, have
  several.
- *Workers*: a stale Save needs two; three let one operation be overtaken twice, or by
  two others of different kinds. A worker may run any number of operations, one after another.
- *Refunds and Amount*: two refunds of a payment of two units are the least that can be over-reserved,
  partial, full, sent in either order or share a reference; one unit is enough when only the
  payment's own status is asked about. The theorems hold for any number.
- *Ages* stop at `OldestAge`, one past the last age the code compares with; the graces keep
  their order.
- *Requests*: three requests of two payloads reach a claim lost, taken over, completed
  and found by another; a fourth adds another spectator.
- *Rows* of the outbox: one more than a batch, so that one waits. `GiveUpAfter` = 1 stands for
  5 and `MaxSetbacks` = 1 bounds the losses per row; both keep "retried, then given up" and "lost, then
  repeated" in reach.
- *MaxVersion* 3: a first Save, one that a query overlaps, and one more after it. `MaxEvents` 1 is
  enough for numbers to clash.
- *Listing*: four payments over two instants make pages whose last row shares its instant with the
  next page's first, and leave room for one stored later and sorted earlier.
- *TTL* 3 and *LongestPass* 2: only their order matters.
- *MaxAttempts* 4 is one more than `maxNumberRetries`, so that an insert can be beaten
  every time and be lost.

Deadlock is left unchecked where the system may rest: everything settled, a bound reached, all
requests answered. Passes never rests, so there it is checked.

### Fairness

- `live`: an operation that was begun ends, if only by a timeout or an error (weak fairness of
  each worker's steps), time passes, and the reconciler's ticker goes on firing on some replica:
  its begin, lookup, cancel and Save are strongly fair, since a step that is tried again and
  again and can succeed does in the end. Nothing is assumed of notifications or
  callers. A refund that becomes too old to be retried is left to a person, as in the code.
- `Outbox`: a worker with something to do does it, and backoffs end. Publishing may fail; rows
  then end up given up, which is settled too.
- `Passes`: the ticker fires, the clock moves, a replica goes on with its pass; a finder, and
  an attempt to settle what can be settled, tried in pass after pass, succeeds in the end.
  Replicas die finitely often.
- `PaymentCache`: Redis expires keys, and a query that read ends.

## Proofs

`tlapm M.tla` for each of the modules below. The theorems hold for every value of the constants that
satisfies the named assumptions.

| Module | Theorem | Says |
|---|---|---|
| PayGateProofs | `TypeCorrect`, `CopiesAlwaysSound`, `NeverOverRefunded` | `[]TypeOK`, `[]CopiesSound`, `[]NoOverRefund` |
| | `SavesFollowLifecycle` | PayGate implements PaymentLifecycle |
| | `StatusAlwaysMatches`, `ReferencesNeverRepeat` | `[]StatusMatchesRefunds`, `[]RefundReferenceUnique` |
| RecordProofs | `StatusNeverMisstated` | `[]StatusAgreesWithGateway`, which excepts a charge reply that names no transaction |
| | `RefundNeverMisstated`, `NeverPaidOutTooMuch` | `[]RefundAgreesWithGateway`, `[]PaidOutWithinAmount`, if passes do not overlap and the gateway reports each refund with its own amount |
| | `LogTellsAll` | `[]EventsReplay`, for a log of any length |
| ChargeProofs | `RequestsTyped`, `CreatedIsStored` | `[]TypeOK`; a 201 is backed by a row, whatever fails |
| | `ChargedOnce`, `ChargesAreRecorded`, `ClaimsAreOwn` | a second charge, a charge with nothing on record and a claim touched by another each need the faults named with them under Runs |
| StoreProofs | `SavesAreSerial`, `CachedSavesAreSerial` | PaymentStore implements SerialStore, and still does with the cache |
| | `EventNumbersAreFree`, `CopiesAreWhole` | event numbers never clash, current copies are whole |
| | `ChangesSeen`, `NothingFromTheFuture` | an answered change is seen unless excused; nothing read or cached is newer than what was stored |
| OutboxProofs | `PublishedOncePerSetback`, `MarkedMeansTaken` | repeats are accounted for by losses; what is marked published was taken |
| | `RetriesAreSpent`, `SettledRowsStay` | given up only after every retry failed; settled for good |
| PassesProofs | `LockExcludes`, `DeletesOwnKey` | passes shorter than the TTL exclude each other and delete only their own key |
| GatewayCallsProofs | `AttemptsAreNumbered`, `LostToOthers` | attempts are 1..n, and one is lost only to `maxNumberRetries` others |
| | `AttemptsAreEvidence`, `LostReplyClosesNothing`, `AnswersAreTrue` | what is recorded, stored and answered agrees with what the gateway did; a payment is closed only if nothing was opened, or if the gateway's success named no transaction |
| ListingProofs | `PagesNewestFirst`, `PagesSkipNone` | strictly newest first, nothing twice, nothing skipped |

The theorems on the gateway's refunds and on the lock have hypotheses, which no code enforces.
`~ReconcilerOverlap` (passes do not overlap) and `Misreported = {}` (the gateway reports each refund
with its own amount): without the one the run `MCPayGate_overlap`, without the other
`MCPayGate_mismatch` ends with a refund stored as FAILED that was paid. The theorems say that
nothing else leads there: no interleaving, loss, repetition or delay. And `LongestPass < TTL`: the
lock is a lease.

PayGateProofs begins with the lemmas about the aggregate the rest stands on: each method keeps a
payment's type, reserves no more than is left, and settles a refund once.

**PayGate.** `NoOverRefund` speaks of what is stored, and what is stored is a copy somebody loaded
earlier. So the invariant is `TypeOK /\ CopiesSound`: every copy a worker holds whose version is
still the row's is consistent and knows every stored refund. Without the latter half a copy loaded
in two queries, or by a finder that returns no refunds, could be saved over refunds it has not seen.
Each Save bumps the version, so every other copy stops being current at that moment; that is why a
Save keeps the invariant for all workers at once.

**The refinement.** `FitInv` adds to it that an absent refund leaves nothing in its record and a
present one has an amount and a reference (`Tidy`), and for each busy worker: that a copy that is
still current `Fits` its place in its operation (what it would store is one legal step away from the
row), and that only a create works on a payment never stored (`Known`). `Save` then is a legal step
of PaymentLifecycle on the row, and every other action a stutter. `StatusMatchesRefunds` and
`RefundReferenceUnique` follow from the abstract step: a legal step keeps a consistent payment
consistent.

**The gateway.** `StatusInv` follows what is *known* of the transaction: by the store, by every
notification that was ever sent and by a copy about to be saved, stale or not. It is kept because a
transaction that is settled, or over, stays so (`Onward`): old news is still true. Refunds are
harder, since "not found" and "refused" do not stay true once somebody sends the refund again.
`RefundInv` says who may send or settle each refund: a request the one it opened, while it is young;
the one pass of the reconciler those that are old (`Owned`, `Apart`); and that what the pass looked
up is still so for what it is about to send again or mark (`Looked`). This is where overlapping
passes would break it. `NeverPaidOutTooMuch` follows: what was paid out is on record as reserved,
and no more is reserved than was paid.

**The event log.** `LogInv` has the stored events lead, view by view, from nothing to what is stored
(`Leads`), and the unsaved events of a current copy lead on from there to the copy (`Tells`), which
each method of the aggregate keeps. That a lost Save's events are lost with it is the rest. The fold
is reached at the end: a recursive definition over sequences of any length needs induction, which
here is done over sets of numbers with the library's theorem that `<` is well founded (`Counting`).

**PaymentStore.** While a transaction is open past its UPDATE its worker holds the row's lock
(`Locked`); nobody else has written refunds or numbers since; so the numbers it computed are still
the next ones when it inserts them. `Whole` and `RefundsDated` say that no refund is newer than its
payment and that a current copy has the refunds as stored, so the torn read of the two-query load is
never saved.

**PaymentCache** adds that a view older than what was answered is either excused, or still about to
be dropped by the worker that made it old (`Recent`, `Coming`, `Dropped`). For the type invariant
`Bounded` counts the events logged and announced against the versions stored.

**Charge.** `Backed`: whoever answers, or has completed the claim for, a 201 has the row behind it.
`HolderOwnsClaim` is inductive by itself. `Accounted`: a charge is about to be saved, is of a request
a fault stopped, or has left a stored payment, whatever happens to claims. `Exclusive`: while claims
exclude, whoever is at work holds the claim and nobody charges or saves beside a stored payment.

**Outbox.** `Exclusive`: a batch whose session lives has its rows to itself. On it rest three
accounts per row: `Copies` (what the broker has or may still get, of a worker cut off before the
row's turn, against setbacks), `Delivered` (marks against copies) and `Tries` (retries against
failed publishes).

**Passes.** `Covered`: the key of a running pass outlives it. What the pass does in between does not
matter.

**GatewayCalls.** `Between`: the attempts recorded since a call ended account for every insert it
lost. `Truth`: what each of the replies the gateway can give tells of a call (`ChargeTells`,
`CallTells`) is carried unchanged to the attempt, the stored payment and the answer; only one
handler has a charge to store, and nothing is stored before it.

**Listing.** A keyset cursor: the cursor is the last payment got and its age, and neither ever
changes. A page is a prefix of what is older than it, newest first, so it goes on where the walk
stands; what is neither got nor in the page is older still. That the rows found can be sorted
at all is proved by rank: a row's place is the number of rows as new as it.

Every invariant of a passing run is now proved, and so are its refinements and `SettledForGood`.
Only model-checked are the liveness properties under fairness (`LostChargeSettles`,
`PaidRefundRecorded`, `EveryRowSettles`, `JobKeepsRunning`, `EveryTurnComes`, `ViewsConverge`):
temporal reasoning with fairness needs ENABLED, which the prover does not do. The three properties
of the runs that end in a counterexample have nothing to prove.

## Not modelled

- *Payments made after closing, and lost notifications of PENDING payments.* Expiring or
  failing to hear leaves the gateway's transaction open and no job asks about it. The domain model
  accepts it (`docs/domain-model.md:43-45`): the handler logs an error. `StatusAgreesWithGateway`
  leaves EXPIRED and CANCELLED out for that reason.
- *Signatures, authentication, decoding, formatting*: functions of one request, without state.
- *Admin queries* other than the listing: single read-only queries.
- *Configuration, logging, telemetry, API keys, error types*: no shared state a property is about.
- *Generated queries and handlers* that are read-only, not called or pure plumbing.
  `UpdateStatus` of the repository has no caller.
- *Processes and migrations*: wiring, start and shutdown. The schema's unique indexes appear where
  they decide an outcome.
- *Test support*: fakes; the fake Midtrans is the source for the external gateway.

## Plan

Done, most important first: the aggregate and PayGate; its proofs; Charge; Outbox; LeaseLock; the
life cycle as a refinement, checked and proved; the repository as a refinement, checked and proved;
the cache; the adapter and the attempts; the passes; the listing; then the proofs of all that is safe in them.

Left, in the order of their worth:

1. Passes composed with PayGate, so that overlapping passes come from the lock's expiry
   instead of the constant `ReconcilerOverlap`.
2. `PaymentInitiated` and the charge grace with a clock, once a bound on requests exists in the code.
