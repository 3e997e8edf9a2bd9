# Verification of the Nimbus Commerce Platform

TLA+ models of the parts of Nimbus that move money, stock and events, the TLC
runs that check them on small instances, and TLAPS proofs of the properties that
matter most for every size. Every definition is translated from the Python
source; `PROJECT.json` gives the lines each one stands for. Paths below are
relative to the repository's `src/`.

## 1. The system

Nimbus is one FastAPI process, run in several replicas, over PostgreSQL, Redis
and Kafka. Its own logic is in what happens between those three.

| Component | State it keeps | Operations | Correct when |
|---|---|---|---|
| Payments, `modules/payments/services.py` | payment rows, a Redis key per Idempotency-Key | `process_payment` under `idempotency_lock` | the events written are exactly the path the status took; a key is never taken from its holder |
| Outbox relay, `workers/outbox_relay.py` | the rows of `outbox_events`, one task per process | `start`, `stop`, `_tick`: claim, publish, mark, commit | no event is lost, no two relays work on one row, settled rows stay settled, a committed tick is never in vain, every event settles |
| Kafka producer, `core/messaging.py` | the aiokafka client | `start`, `stop`, `publish` | an outcome is reported as what it was |
| Kafka consumer and dedupe, `core/consumer.py`, `core/dedupe.py` | group offset, position, hashes in Redis | `start`, `stop`, poll, dispatch, commit offsets | an event is handled once, and passed over only for a cause |
| Order saga, `modules/orders`, `modules/inventory` | order rows, stock rows with a version | `place_order`, `reserve`, `release`, the handlers of payment events | it leaves what its transactions would leave one after the other: stock neither lost nor made up, outcomes final, compensation atomic |
| Circuit breaker, `core/cache.py` | state, failure count, time of opening | `call`, `reset` | it trips after `fail_max` failures and closes when Redis works again |
| Database sessions, `core/database.py` | ContextVar with the schema, search_path | `get_session`, `with_schemas` | a transaction ends with its session |
| Abuse layer, `modules/gateway/abuse.py` | a sorted set and a blacklist key per fingerprint | `check`, the Lua script, `dispatch` | at most the limit passes in any window, nobody is refused without cause, and a block ends when its Retry-After says |
| Users, `modules/users/services.py` | user rows | `create_user`, `authenticate_user` | one account per mailbox, opened by its own password only |
| Tokens and passwords, `modules/gateway/security.py` | none | hash, verify, encode, decode | a hash verifies its password only |
| Lifespan, `main.py` | the worker objects | start-up, shutdown | it comes to serve, a shutdown ends, and what it leaves running has a cause |
| Configuration, telemetry, errors, protocols | none of the system's | | |

How they interact. A payment transition and its outbox row are one transaction;
the relay of some replica publishes the row to `payments.events`; the consumer
of some replica deduplicates it by content hash in Redis and runs the handler,
which updates the order and, after a failed payment, gives the stock back.
`place_order` reserves stock under an optimistic lock and writes an outbox row
of its own. All Redis calls go through one circuit breaker per process; what its
opening means differs: an idempotency lock is refused, a release is skipped, the
deduplication fails open, the abuse layer lets the request through. The lifespan
starts producer, relay and consumer in this order and stops them as relay,
producer, consumer, while the two worker tasks go on beside it.

What is hard. Replicas run the same workers side by side; a crash or a
cancellation may fall between a publish and its commit, or between recording a
hash and handling the event; replies of Redis, Kafka and PostgreSQL may be lost
after they took effect; keys expire under a working request; the partition moves
while a batch is in hand; calls to Redis finish after the breaker changed state.
`PROJECT.json` lists these hazards with their lines and properties.

## 2. Modules

| Module | Models | State corresponds to |
|---|---|---|
| `OutboxRelay` | relays on one outbox table | committed columns `inserted`, `processed`, `failed`, `attempts`; per relay its loop (`pc`, `stopping`) and its open transaction (`batch`, `todo`, and the row objects' changes `sent`, `bumped`, `poisoned`); `broker`, the rows with a copy in the topic |
| `Payments` | concurrent `process_payment` calls with their callers' transactions | `status`, `outbox`, `rowLock` in PostgreSQL, `lock` in Redis, `pc` and `req` per call |
| `CircuitBreaker` | `AsyncCircuitBreaker` under concurrent calls | `_state`, `_failure_count`, the age of `_opened_at`, calls in flight |
| `OrderSaga` | `place_order` and the payment event handlers on one stock row | `stock`, `order` and their row locks; per call what its session has read; per consumer the event it handles and the status its session will write |
| `EventConsumer` | the members of a consumer group on one partition, with the deduplication | `end`, `committed`, `owner` in Kafka, `seen` in Redis, per member its position and batch |
| `OutboxPromise` | what an outbox promises, with no relays, batches or retries | events written, in the topic, in doubt, delivered, abandoned |
| `OrderPromise` | the saga as if nothing ran concurrently: placing an order and handling an event are one step each | units available, order statuses, outcomes announced |
| `PaymentOutcomes` | what payments tell the saga: one final outcome each at most | outcomes announced |
| `AbuseLimiter` | the requests of one client at several replicas, and the script in Redis | `entries`, `rlExpire`, `blExpire` in Redis, its clock `time`; per request the timestamp `now` its process read, how often the script was sent again, and the copies that may still run (`ghosts`) |
| `WorkerLifecycle` | `lifespan` beside the tasks of relay and consumer | `main`, where `lifespan` is; the local variables (`hasRelay`, `hasConsumer`), tasks and stop events of the workers; the producer's `_started` |
| `UserRegistration` | concurrent `create_user` calls and logins | `users`, the committed table; per call its request, where it is, and its answer |
| `MC...` | values of the constants for TLC | |
| `...Proofs` | theorems | |

An action is one stretch of code between two awaits that other actors can
notice: a SQL statement, a Redis command, a publish, a commit. The effects of an
open transaction stay private until the commit. External services appear as the
choice of outcomes the code distinguishes: an error before or after the effect,
a lost reply, a lost lock. History variables (`unexpected`, `rejected`,
`lapsed`, `released`, `effects`, `tried`, `unguarded`, `disturbed`, `blSince`) record causes
and times for the properties and never guard an action.

Choices worth knowing:

* The relay's rows are numbered by `created_at` and become visible in any order,
  as transactions commit in any order. A publish that raises an unforeseen error,
  times out or is cancelled may have reached the topic.
* The name of a request stands for its lock token. That is sound because a call
  that left its key behind cannot take it again before the key lapses.
* The age of the breaker's `_opened_at` saturates at the timeout and the counter
  at `fail_max`: past these no code tells the values apart.
* A read through a SQLAlchemy session that has loaded the stock row before is a
  choice between the object it holds and the committed row, since the identity
  map does not refresh a loaded object by itself.
* `OrderSaga` takes its payment events from `PaymentOutcomes`, which `Payments`
  implements (`OneOutcome`); declined has no handler and is left out. How often an
  event is handled is left open up to a bound, as `EventConsumer` allows it.
* `AbuseLimiter` follows one client, since clients share no key. A script whose
  reply is late is sent again with the same arguments, and each copy given up may
  run at any later time, even after the request was answered. The clocks of the
  replicas differ from that of Redis by at most `Skew`.
* In `WorkerLifecycle` a tick and a batch are one state each: what happens in them
  is in `OutboxRelay` and `EventConsumer`. A cancelled task may end with
  CancelledError or, when a library has turned that into another error, return;
  `stop` of the relay lets the first through and `lifespan` does not catch it.
* In `UserRegistration` `authenticate_user` is a single read and so a function of
  the committed table. Strings are abstract; `strip`, `lower` and the length are
  given as functions on them. The column's width, its check constraints and its
  unique index are separate, because they raise different errors.
* In `EventConsumer` the member that lost the partition goes on with its batch.
  It cannot commit then, but may when it gets the partition back, which sets the
  offset back; the deduplication has to cover that.

## 3. Runs

Passing runs:

| Run | Instance | Shows |
|---|---|---|
| `relay` | 2 relays, 2 rows, batch 2, 2 attempts | `ProcessedIsExplained`, `FailedIsExplained`, `ClaimsAreExclusive`, `CommitsMakeProgress`, `BatchIsSentInOrder`, `OutboxPromiseKept`, `EveryEventSettles`, `StopCompletes`. Two rows let outcomes differ within a batch and relays hold one row each; two attempts let a counter be lost by a rollback and counted again. |
| `payments` | 2 requests, 1 key, 1 payment | `EventsTellTheStatus`, `OneOutcome`, `KeyExclusion`, `LockNotStolen`, `EveryCallEnds`. One key is no restriction on races for the row: it lapses, and it is released before the commit, so both requests can be past it; any number of keys is left to the proofs. |
| `breaker` | 4 calls in flight, `fail_max` 5, timeout 3 | `TripsExactly`, `EventuallyCloses`; more late outcomes than one, fewer than `fail_max`, so that some must be counted over several rounds. |
| `saga` | 2 orders of 1 and 2 units for a stock of 2, 2 payments of the first order, 2 consumers, 2 deliveries of each event | `StockLedger`, `CompensationIsAtomic`, `SagaIsSerial`, `TransactionsEnd`. The orders cannot both be served unless the first gives its stock back, its payments may contradict each other, all events may come twice. |
| `consumer` | 2 members, 3 records (malformed, handled, unhandled), batch 2, 2 starts, 1 forced rebalance | `HandledAtMostOnce`, `LossHasACause`, `EveryRecordIsTried`. Either both members start, and the partition moves in mid-batch and may come back after a crash, or one starts again after a crash: the event is delivered again in both. Other sequences of contents, an event that the relay published twice among them, are left to the proofs, which hold for all of them. |
| `abuse` | 3 requests (symmetric), window 3, limit 1, threshold 2, block 2, 1 retry, skew 1, clock up to 4 | `RateLimited`, `RefusalIsEarned`, `BlockLastsItsTtl`. Three requests pass the threshold; the clock runs past the window and past a block, so that entries and keys expire under requests in flight, and late copies run during a block and after it. |
| `lifecycle` | one process, both settings on or off | `TicksUseALiveProducer`, `LeftoversHaveACause`, `ComesToServe`, `ShutdownEnds`; the model is finite as it is. |
| `users` | 3 calls, one mailbox in three spellings with two passwords, an email too short, one too long for the column, an empty password | `OneAccountPerMailbox`, `LoginIsTheWinners`, `TakenHasACause`. Three calls let one wait for a second while a third looks up. |

Each module's type invariant is checked with its safety run and says a little
more than types: attempts never exceed the limit, the stock is never negative, a
lock is held only by a transaction that works on it, the offset never passes the
end of the log, no two open transactions hold one email, the lifespan has an
outcome exactly when it has ended. The saga, users and abuse runs may stop (a
finite number of calls is made), so may the consumer run (starts are bounded)
and the lifecycle run (the process ends), hence `CHECK_DEADLOCK FALSE`.

Runs that end in a violation, each against what the code base says of itself:

| Run | Claim | What happens |
|---|---|---|
| `relay_mark_batch` | `_mark_batch` marks "the rows that were successfully published" | it marks as many rows from the head of the batch: one whose publish raised is marked instead of one that was sent, and lost |
| `saga_release_twice` | `release` is "Idempotent at the database level" | the UPDATE has no condition on the version: every handled `payment_failed` gives the stock back again |
| `consumer_redelivery` | a failed "message will be redelivered" | the offset of a later success in the batch passes it |
| `payments_lock_order` | "7. Commit", "8. Release the lock" | the lock is released before the caller commits |

Three more disagreements show in the models without a run of their own. The
comment where `_on_payment_failed` catches an error of the release says "The release
is idempotent at the application level; if it fails for some other reason, log and
continue" (`modules/orders/consumer.py:192-194`). Its first half is what
`saga_release_twice` refutes. As for the second, the code logs and raises (line 200),
so that a failed release takes the FAILED status back with it and the event has to
be delivered again: `CompensationIsAtomic` holds because of that raise, and its
mutant `CompensateSwallowingErrors`, which does what the comment says, leaves a
FAILED order whose stock is gone. The comment is wrong there, not the code. A call
admitted before the breaker opened and answered afterwards closes it from open
(`ToClosed`), a transition the class docstring does not draw. And
`create_user` reports every IntegrityError as an email that is taken, also that
of the check constraint on its length: the second case of `TakenHasACause`.

## 4. Fairness

* Relay: a task goes round its loop whatever a tick raises (`_run_forever`
  catches everything), and publishes end by the request timeout, so a tick that
  can go on does. Nothing is assumed of starts. `EveryEventSettles` is
  conditional: outages, failed commits and restarts cease and some relay stays up.
* Payments: Redis calls have a socket timeout and `get_session` ends every
  transaction, so leaving the lock and ending the call are weakly fair. Waiting
  for a row is strongly fair: PostgreSQL queues the waiters. The engine sets
  `statement_timeout` and `lock_timeout` (`core/database.py:124-125`), so a wait may
  also end with an error, which `SelectFails` allows at any time; `EveryCallEnds`
  does not rely on it.
* Breaker: some task keeps calling Redis, calls end, the clock advances.
  `EventuallyCloses` is conditional on calls no longer failing.
* Saga: statements are answered; waiting for a row is strongly fair as above, and
  may be cut off by `lock_timeout` (`AbortOrder`, `AbortHandler`).
* Consumer: the loop goes on (its errors are caught), and the coordinator assigns
  a partition that nobody owns. `EveryRecordIsTried` is conditional on some
  task being alive: a task whose first connection fails is not started again.
* Lifespan: asyncio goes on with `lifespan` whenever what it awaits is there or
  the wait has timed out. Nothing is assumed of the workers: a tick or a batch may
  hang until it is cancelled. `ShutdownEnds` rests on the timeouts and on two more
  assumptions, which the code cannot enforce: that the clean-up of a cancelled task
  and the producer's flush come to an end.
* Users and abuse: safety only. That a registration cannot wait for ever is seen
  without a model: it waits for one key at most, and `lock_timeout` ends the wait.

## 5. Proofs

All theorems hold for every value of the constants under the named assumptions
of the modules (positive batch size and limits; a null value that is no actor).
Each is proved from an inductive invariant by one case per action.

* `OutboxRelayProofs`. The properties speak of committed rows, but what a commit
  does depends on the open transaction, so the invariant adds what a relay's
  memory may hold: the rows it sent are in its batch and in the topic, the rows
  it poisoned are refused or exhausted, every row of the batch that was visited
  is accounted for, and open batches are disjoint and pending. The key step is
  `LossIsExplained`: the rows marked are a prefix of the rows not poisoned, of
  the size of the rows sent, and a row of that prefix that was not sent must have
  raised an unforeseen error.
  `RelayKeepsPromise` is the refinement of `OutboxPromise` (rows for events, the
  topic for the topic, unforeseen errors for doubt): inserting a row is a Write, a
  publish outcome an Attempt of an event that is open because its claim is, a
  commit one Settle of the rows it marks, and every other step a stutter.
  `BatchOrderKept` needs that every older row of the batch has been visited.
  `CommitsProgress` counts: `FirstNCount` shows that the first n rows of a set are
  n rows if it has so many, so the number `_mark_batch` is given is the number it
  marks. It is an induction on n, written as a least counterexample (`Least`, from
  the well-foundedness of the naturals), because the library's induction theorems
  cannot be instantiated here. Attempts are bounded (`RelayTypeCorrect`) and no
  settled row changes (`SettledForever`), so only finitely many ticks commit for a
  given set of rows: `EveryEventSettles` but for fairness and the end of faults.
* `PaymentsProofs`. The invariant ties a request that is past its SELECT to the
  row it locks, and a request on its way to commit to a transition allowed from
  the status stored, which no other request can change before it ends
  (`EventsFaithful`). `OutcomesAnnounced` is the refinement of `PaymentOutcomes`,
  the outcome being read off the committed outbox rows. It needs what a path
  through the transition table can hold: nothing follows failed or declined, and
  nothing that follows captured is an outcome; so a commit announces an outcome
  where there was none, or is invisible. `KeysExclude` needs that a request inside its
  lock, whose key did not lapse, is the holder Redis stores.
* `CircuitBreakerProofs`. State, counter and age move together in every step.
* `EventConsumerProofs`. The eight ways through `_handle_message` are first
  reduced to two forms: the record enters its handler, or the member is done
  with it. `HandledOnce` needs that, for a content whose key never was off, only
  one member can be in the handler and the key stays until it has committed
  (`Guarded`). `LossExplained` needs that a recorded key accounts for its event
  (`SeenIsAccounted`) and that everything behind a member's place in its batch,
  and behind the owner's position, was tried and is accounted for
  (`ProgressIsAccounted`): the offset committed comes from the one, the place to
  resume from the other. That nothing behind the offset is untried is the part of
  `EveryRecordIsTried` that needs no fairness.
* `OrderSagaProofs`. `SagaTypeCorrect` says that the stock never goes negative: a
  call about to commit holds the row lock and found enough under it, and nobody
  else changes the row until it ends (`OrderInv`). `OutcomeFinal` and
  `CompensationAtomic` need that a handler holds its order from the SELECT on, so
  that what it decided still fits the order when it commits, and holds the stock
  row when it is about to give back (`HandlerInv`).
  `SagaSerializable` is the refinement of `OrderPromise`: a commit of `place_order`
  is a Place, since the quantity it found under the lock is still there; a commit
  of a handler is a Handle, since its verdict is what the serial handler would
  decide on the order as it is then; all reads, lost races, waits and rollbacks are
  stutters. `LedgerBalances` follows step by step from there. The sums are
  cardinalities of sets with one element per unit, so that each step adds one
  disjoint block (`AddBlock`) and no induction over the set of orders is needed.
  Of `TransactionsEnd`, what needs no fairness is proved: `NoCircularWait` (a
  waiter is at a lower lock level than the one it waits for; this needs that an
  order's lock belongs to a handler past its SELECT, `OrderLocksHeld`), and
  `EffortBounded` (a measure that every step of a call lowers).
* `AbuseLimiterProofs`. `LimitHolds` needs that a request let through is still in
  the sorted set, or too old to matter (`AdmittedIsKept`), which rests on the set
  outliving its members' windows by a second (`SetOutlivesEntries`).
  `RefusalsEarned` needs that the members of the set are distinct checked requests
  (a repeated script adds the same member) and that a block was set for a cause.
  `BlocksRunOut` needs that the key's end is always that of the last block
  (`BlockIsDated`), although the set of entries lives longer than a short block and
  late copies of counted scripts may begin the next one as soon as it has run out.
* `WorkerLifecycleProofs`. The invariant ties the place of `lifespan` to the
  workers: the producer is started and not yet closing while the relay's task
  runs, and each way out of the shutdown to what was stopped before it.
* `UserRegistrationProofs`. Stored rows belong to calls that have ended, their keys
  are unique, and no stored row has the key of an open insert; open inserts
  exclude each other by the index (`UserTypeOK`). Keys are normalised, so keys and
  mailboxes are the same thing (`KeyIsMailbox`).

Only model-checked: liveness (`EveryEventSettles`, `StopCompletes`,
`EveryCallEnds`, `EventuallyCloses`, `TransactionsEnd`, `EveryRecordIsTried`,
`ComesToServe`, `ShutdownEnds`), because the prover handles neither fairness nor
ENABLED. Every invariant, action property and refinement that
a passing run checks is also a theorem. `SettledRowsAreFinal` and
`OrderOutcomeIsFinal` are theorems only: the runs check `OutboxPromiseKept` and
`SagaIsSerial`, which imply them but for the attempt counts of settled rows.

## 6. Not modelled, and why

* Configuration, telemetry, exception classes and typing protocols keep no state;
  migrations, scripts and containers are not part of the running system;
  statistics counters and log lines are left out.
* Tokens: JWTs are encoded and checked by a library and stored nowhere; the
  denylist the module's text announces does not exist yet.
* The search_path (`_current_schema`, `with_schemas`): every table of the code
  base names its schema in its MetaData and no code nests sessions, so nothing
  the program does depends on it.
* The fingerprint of a client is a hash of headers; which clients share one is not
  modelled.
* The order of one aggregate's events across two relays: `BatchIsSentInOrder` is
  about one batch, and SKIP LOCKED promises nothing more.
* The components meet at their interfaces and are not checked as one state space:
  `OrderSaga` and `Payments` share the module `PaymentOutcomes`, which one is built
  on and the other implements (`OutcomesAnnounced`); of deliveries `OrderSaga`
  assumes no more than `EventConsumer` allows; `EventConsumer` lets records
  arrive as `OutboxPromise` allows, any number of times; `WorkerLifecycle` treats
  a tick as `OutboxRelay` shows it, ending or hanging. A composition of
  `OutboxPromise`, a partition whose contents the relay decides and the
  consumer is what could be added next; it would say what one event survives end
  to end.
