# Formal model of the merch shop

This directory holds a TLA+ model of the coin shop in `src/`: an HTTP service in
which users register with 5000 coins, buy merch and transfer coins to each other.
Requests are admitted synchronously (Redis, Postgres) and settled asynchronously
(Kafka consumers, Postgres). The interesting behaviour is in that split.

TLC checks the modules on small instances (`*.cfg`). The modules `*Proofs` and `Sums`
hold theorems, checked by TLAPS, for every value of the constants: each invariant,
action property and refinement that a passing run checks is one of them.

## Inventory

| Component | Source | State it keeps | Operations | Module |
|---|---|---|---|---|
| Consumer of topic `transactions` | `internal/infrastructure/kafka/consumer.go` | the record in hand | `Consume`: read and commit, check, debit, credit, write rows | `Settlement` |
| Users table | `postgres_user_repository.go` | balances, names | `Create`, `GetByID`, `GetByUsername`, `GetBalance`, `ChangeBalance` | `Settlement`, `Registration`, `Checkout`, `BalanceCache` |
| Transactions table | `postgres_transaction_repository.go` | ledger rows | `Create`, `GetBalance`, `GetTransactionHistory` | `Settlement` |
| `BuyMerch`, `Transfer` | `services/merch_service.go` | request keys and locks in Redis | see `Checkout` | `Checkout` |
| `Register` and its goroutine | `services/merch_service.go` | — | check, create, announce three times | `Registration` |
| Consumer of topic `users` | `consumer.go` | — | `Create` from an event | `Registration` |
| `GetBalance` | `services/merch_service.go` | `user:<id>:balance` in Redis | read-through cache | `BalanceCache` |
| Producer, topics | `kafka/producer.go` | the writer's buffer | `Send` (asynchronous), `Close` | `MerchShop`; as an environment in the modules that send or read |
| Redis client | `redis/client.go` | keys with a time-to-live | `Get`, `Set`, `SetNX`, `Del` | `Checkout`, `BalanceCache`, `Sessions` |
| Login and middleware | `merch_service.go`, `auth/middleware.go` | `user:<id>:token` in Redis | issue, replace, compare | `Sessions` |
| Main | `cmd/server/main.go` | processes up, draining, stopped | start, shutdown, timeout, deferred calls | `MerchShop` |
| Router | `api/router.go` | — | checks, replies, status codes | partly, with the operations it calls |
| Config, unused handler, observability | ... | — | logs, metrics | not modelled |

How they interact. A handler of `/buy` or `/transfer` sets a request key and locks
in Redis, reads Postgres, and hands an event to the Kafka writer; it answers 202
before the broker has the event. Every server process runs one consumer per topic,
all in the same consumer group. A consumer shares with the handlers only the
Postgres tables and the topic: it never touches the locks or the cache. The locks
are left to expire three seconds after a successful request, whether the event is
settled by then or not.

What is hard, and what makes each part correct:

- **Settlement.** The offset is committed before the work; debit, credit and the two
  rows are four Postgres transactions; several consumers work on the same users.
  Correct means: nothing settles twice, no coin is made, no balance is negative,
  rows never claim what did not happen, and every record is worked off.
- **Checkout.** Get-then-set of the request key, `SetNX` locks without an owner,
  different undo lists on different error paths, locks that lapse, clients that go
  away. Correct means: one event per request id, one request of a user at a time,
  nothing left behind by a failed request, and no request waiting for another.
- **Registration.** The check and the insertion are far apart; the announcement
  outlives the request, and the writer that has taken it may still drop it; its
  consumer would create an account without coins. Correct means: one account per
  name, none without coins, and every way an announcement gets lost is known.
- **Redis client.** go-redis retries by default: a command whose reply was lost is
  sent again, after whatever other requests did meanwhile. `SET` is then applied
  late, `SETNX` meets the lock it has just set, `DEL` meets the next holder's.
- **The whole.** A request is admitted against a balance that does not count what is
  accepted and not yet settled; the lock that should bridge the gap lives three
  seconds, while the writer batches and the reader waits for ten kilobytes. Events
  wait in a buffer that dies with its process; batches are repeated; a stop comes at
  any point. Correct means: an accepted event is not lost between answer and topic
  unless a process or a batch is, and it is settled unless a lock lapsed too early.
- **Sessions.** A token is signed, set, checked and compared in four separate steps;
  devices of one user overtake each other. Correct means that only another login of
  the user, or a failure, ends a session before its hour, and that it stays ended.
- **BalanceCache.** Nothing invalidates the cache; a slow reader overwrites.
  Correct means that an answer's age is bounded.

`PROJECT.json` lists the hazards line by line, with the properties that cover each.

## Modules

### Wallets — the abstract promise
Coins are in wallets or held by a worker. `Pay` and `Hold` take them out, `Release`
gives a receiver exactly what was held, `Forfeit` loses it. Nothing makes coins.

### Settlement — `Consume` on topic `transactions`
One action per call of the loop: `ReadMessage` (fetch **and commit**), `CheckFunds`
(the unlocked balance check), `Debit`, `Credit` (`ChangeBalance`: the re-check under
`FOR UPDATE` in int32, then the column's range and CHECK), `CreateRow`,
`CreateReceiverRow`. Any call may fail without effect (`Abandon`, which is also a
crash of the process between calls), or commit and report an error (`AfterCommit`).
All error branches of the code are `continue`, hence `Skip`. `Publish` is the
broker: events arrive in any order and may repeat, as the asynchronous writer
allows; which record comes next is open because the topic has partitions.
Variables `debits` and `credits` are histories no guard reads.

`MCSettlement` holds the events TLC uses, `SettlementProofs` the proofs about single
records and the refinement, `LedgerProofs` those about sums of money and about the rows,
`Sums` the lemmas about sums they need.

### Checkout — `BuyMerch` and `Transfer`
A handler is one HTTP request; `pc` names its next call. `store` maps each Redis key
to the handler that last set it (the program stores no owner; the model does, so
that properties can ask whose lock was deleted). `Fail` is an error path: the answer
is decided and the keys of `UndoKeys` or `RefusedKeys` are deleted one call at a
time (`Undo`). `RefusedKeys` shows the asymmetry of the code: a refused purchase
deletes its request key only, a refused transfer deletes both locks too, whoever
holds them. `Expire` is the time-to-live, `Settle` a balance changed by the
consumer, `Cancel` a client that disconnects or a process that stops. A call may fail,
applied or not (`Fault`), and a `SET`, `SETNX` or `DEL` may be applied, lose its reply and be
made again by go-redis (`SentAgain`): the handler is then where it was, with the key
changed. `cut` notes the keys a handler will never delete because of that: all of them when
its client goes away, otherwise the one key the failing call gives up (`Forsaken`).
The proofs are in `CheckoutProofs`.

### Registration — `Register` and topic `users`
`GetByUsername` and `CreateUser` are separate steps; in between others register.
`CreateUser` starts the goroutine (`sending`), which makes `Retries` attempts
(`SendEvent`). `CreateFromEvent` is the consumer calling the same `Create` with the
zero balance of the event, refused by UNIQUE as long as the account exists. `Send`
returns without an error once the event is in the buffer of the asynchronous writer
(`buffer`); from there it reaches the topic (`Deliver`, twice if the acknowledgement is
lost) or is dropped after the writer's own last attempt (`GiveUp`), of which the
goroutine never learns, or is lost with its process (`Stop`). The proofs are in
`RegistrationProofs`.

### BalanceCache — `GetBalance`
One user, a clock, and the successive contents of the row numbered in order.
`Set` may be applied and sent again, any number of times. The proofs are in
`BalanceCacheProofs`.

### MerchShop — the composition
`MerchShop` instantiates `Checkout` and `Settlement` over one users table and adds
what joins them: the buffer of each process's Kafka writer and the process itself.
`Handle`, `Expire` and `Consume` are the components' own actions; what a handler
posts enters the buffer. `Deliver` appends a buffered event to the topic, and keeps
it when the acknowledgement is late (the repeated batch); `GiveUp` is the writer's
last failed attempt, which nobody is told. A process goes from up to draining
(`Terminate`: the signal, `Shutdown`), then either to closing (`Drained`) and, once
the producers' `Close` has flushed (`Flushed`), to stopped (`Exit`), or after five
seconds to killed (`DrainTimeout`: `log.Fatalf` skips the deferred calls), or is
killed at any time (`Crash`). Neither way waits for the consumer's goroutine: the
record it holds stays committed and unsettled (`LeftUnread`). `origin` records which
request a record comes from, `late` which locks went away while their request was
still outstanding.

Each component is the other's environment, and the refinements check that the
environments assumed there are the right ones: `ImplementsCheckout` (the consumer is
`Settle`), `ImplementsSettlement` (handlers, writers and stopping processes are
`Publish` and nothing else). `MerchShopProofs` proves both, and with them everything
else the run checks except liveness.

### Sessions — `Login` and the middleware
A client is a device: it logs in (`Login` signs, `Set` stores) and presents the token
it was given last (`Present` checks the expiry, `Get` compares with Redis). A failed
`Set` hands the token out all the same (`SetFails`); it may have been applied. `SetAgain` is
a `Set` whose reply was lost: go-redis will send it again, so the login is still at it.
`Leave` is a client gone before it is answered. A token is its user and its expiry,
the only claims it has: two logins of a user in one second sign the same string.
`spoilt`, `replaced` and `again` (tokens signed or sent twice) are histories; the last two
forget what has expired, so `ReplacedStaysReplaced` speaks of unexpired tokens only.
`SessionsProofs` holds the proofs, `MCSessions` the instance for TLC.

## Runs

| Run | Checks | Instance and why it is enough |
|---|---|---|
| `settle` | types and ranges, `AtMostOnce`, `NoMoneyCreated`, `CreditFits`, `LedgerAgrees`, `RowsBacked`, `ImplementsWallets`, `RecordsConclude`, `TransfersWhole` | two consumers, three records, two users of 4 coins, amounts 2 and 3: a wallet pays once but not always twice; transfers both ways and to oneself; a merch with the id of a user; integers up to 6, so 4+3 overflows; one failure or crash |
| `settle_history` | **violation** of `HistoryAnswered` | already the opening row of a new user breaks it |
| `checkout_locks` | `LockExclusive` | three requests: one to hold, one to be refused, one to take what the refusal deleted; purchases by one user and transfers both ways between two; locks lapse at any time; one `SetNX`, `GetBalance`, `Send` or `Del` that fails or is sent again |
| `checkout_faults` | types, `NothingLeftBehind`, `EveryRequestAnswered` | two requests of any job, any one call failing or sent again, or one client leaving; opposite transfers, self transfers, unknown merch and receiver, insufficient funds |
| `checkout_retry` | `OneEventPerRequest` | three attempts with one request id by two users, one call failing or sent again |
| `checkout_processed` | **violation** of `RefusedAsProcessedWasSent` | two attempts with one id, no failures |
| `register` | types, `OneAccountPerName`, `NoAccountFromEvent`, `RegisteredIsAnnounced` | two handlers, one name or two, up to three failures, batches given up or stops, so that the goroutine's three attempts can all fail; a topic of up to four records, so that batches repeat |
| `cache_stale` | types, `BoundedStaleness` | two clients asking repeatedly, two changes, a life of 3 ticks, a clock of 6: two lives of the key, and a late `Set` into the second |
| `cache_current` | **violation** of `AnswersCurrentBalance` | the same |
| `shop` | types, `AcceptedIsKept`, `SettledUnlessLate`, `AcceptedConcludes`, `ImplementsCheckout`, `ImplementsSettlement` | two requests on two processes, a purchase of 2 (retried with the same id when both ask for it) or a transfer of 3, by a user of 4 coins: two purchases can be paid for, a purchase and a transfer or two transfers cannot; one thing goes wrong anywhere (`MaxTrouble`), whichever it is |
| `shop_transfer` | **violation** of `TransferCompletes` | the same instance with nothing going wrong |
| `sessions` | types, `RefusedForCause`, `ReplacedStaysReplaced` | two devices and two users, tokens of 2 ticks over a clock of 3, so that a key may outlive its token and a device may log in again; one call failing or sent again |

What the passing runs show, beyond their names:

- `LockExclusive` lists every way two requests of one user can be past the lock
  together: expiry, the refused transfer that deletes foreign locks, the request that
  fails after its own lock expired, and the failed request whose `DEL` go-redis sends
  twice. There is no other. `lapsed` records them.
- `OneEventPerRequest` holds for retries that follow one another, with any call
  failing except the idempotency check itself: `err == nil` makes an error of Redis
  look like an absent key. Two attempts in flight together are excluded (`raced`):
  the check and the setting of the key are separate calls, and an attempt that is
  refused the lock deletes the key of the one that holds it.
- `CreditFits` and `LedgerAgrees` say under which condition the non-atomic transfer
  is harmless: no failing call, and coins in play that fit an int32.
- `SettledUnlessLate` says what the locks achieve: whatever is admitted against a
  balance is also settled, unless its event was lost (`MayBeLost`), its work
  interrupted (`Interrupted`), or a lock of its user went away, by expiry or by a
  foreign deletion, before the request that held it was settled (`late`).
  `shop_transfer` shows that the last case needs no failure at all.
- Nothing says that a request is charged once. A repeated batch is settled twice: the
  consumer ignores `request_id`, and in the model two records come from one request.
  `OneEventPerRequest` is about events sent, `AtMostOnce` about records settled.
- `AcceptedIsKept` holds for graceful stops because the deferred `Close` of the
  producers waits for the buffer. It excuses killed processes, and a graceful stop
  turns into one when a handler is still busy after five seconds.
- `RefusedForCause` leaves three causes for a refused unexpired token: a `Set` that
  failed, a later `Set` of the same user, an error of `Get`. In particular the key
  never expires before its token, since it is set after the token is signed.
- `ReplacedStaysReplaced` holds however late a `Set` comes, but for one whose reply was
  lost: go-redis sends it again, and the token it replaced another with, and that
  another has replaced since, is back. `again` holds such tokens, and those two logins of
  one second have in common.
- `RegisteredIsAnnounced` lists the ways a registered user stays unannounced. Only the
  first, three failed attempts, is one the goroutine can see and log.
- `NoAccountFromEvent` holds only since Create comes before the announcement.
- `NothingLeftBehind` excuses single keys, not failing requests: after an error of any
  call the deletions of that error path must have removed every other key. Excused are
  the request key whose own `Set` failed, the lock of a purchase whose `SetNX` gave an
  error (the code deletes the request key only and lets the lock expire), the key whose
  `Del` failed, and everything of a request whose client went away, since the code deletes
  with the request's context.

The bounds are named in the modules: `MaxLog`, `MaxFaults`, `MaxTrouble`, `MaxTime`, `MaxChanges`,
`MaxDelay` and the finite sets of handlers. In `BalanceCache` `MaxDelay` is an assumption as well, not
only a bound: the code puts no limit on the time between reading the row and writing
the cache, and the staleness bound is TTL plus that time. Symmetry is used for
handlers and devices only, and not in runs with a liveness property. `CHECK_DEADLOCK FALSE`
is set everywhere since these finite instances end: all records are read, all
requests answered, the clock at its bound.

Fairness. `Settlement!FairSpec`: weak fairness of each consumer's loop body. The
loop is a goroutine that waits for nothing but its own calls; its error branches
all return to the loop. Crashes are a bounded number of `Abandon` steps, after which
the process is restarted. `Checkout!FairSpec` and `Registration!FairSpec`: weak
fairness of each handler's next call, which is enabled until the handler answers,
of the goroutine's attempt, and of the writer's delivery of what is in its buffer. Nothing is assumed about arrivals, expiry, the
consumers' reads or failures. `MerchShop!FairSpec` adds weak fairness of the writer's delivery
of each buffered event, enabled as long as its process lives (a batch that fails for
good is `GiveUp`), and of each process's consumer. It assumes nothing of handlers:
`AcceptedConcludes` starts where the handler has answered. It holds while some
process is up to read the topic; a process that stops is not restarted, the others
take over its partitions.

### Where the code and its documentation disagree

1. `settle_history`: `GetTransactionHistory` scans `related_id` into an `int32`, but
   the row that `Create` of the user repository writes has NULL there. The query of
   any registered user fails.
2. `checkout_processed`: "Request already processed" is answered while the only
   attempt with this id is pending, and that attempt may then fail: a client that
   believes the answer has bought nothing.
3. `cache_current`: `/balance` is documented to return the current balance; it
   returns one up to five minutes old, even after the user's own purchase.
4. `shop_transfer`: `/transfer` answers "Transfer completed successfully" when the
   event is in the writer's buffer. Without any failure the consumer may drop it: the
   lock expires, a second request of the user is admitted against the same coins,
   and whichever is settled first takes them.
5. No run is needed for the last one:
   `tests/unit/repository/postgres_user_repository_test.go:49-66` expects `Create` to insert
   the account and commit, while `Create` (`postgres_user_repository.go:85-95`) also
   inserts the opening row, for which the test's mock has no expectation. The model
   follows the code: `Create` writes both.

## Proofs

Every theorem holds for any users, handlers, processes, amounts, bounds and failures.
The assumptions are those the modules name (`CheckoutAssumption` and so on), which TLC
evaluates in every run; they are given with each module below. The bounds of the runs
(`MaxLog`, `MaxFaults`, ...) are any numbers in the theorems: they are not small.
In each module a strengthened invariant is proved inductive, one lemma per action.

### SettlementProofs: one record

Assumed (`SettlementAssumption`): events are purchases of a positive price or transfers
of a positive amount, the opening balance fits the integer, and users, consumers and
different events are finitely many (only the sums of `LedgerProofs` need the latter).

- `TypeCorrect`: `Spec => []TypeOK`, with it that balances never leave `0..MaxInt`.
- `SettledAtMostOnce`: `Spec => []AtMostOnce`.
- `RefinesWallets`: `Spec => ImplementsWallets`: every step of a consumer pays, holds,
  releases, forfeits or leaves the wallets alone.

`AtMostOnce` is not inductive: it does not tell a consumer at its debit that nobody
worked on the record before. `Inv` adds what the argument rests on: a record is in
the hands of one consumer at most and is not unread any more (`OneReader`), an unread
or future record has no debits or credits (`UnreadUntouched`), and what a consumer
has done to its record when it reaches a call (`StageFacts`). `Goto`, shared by all
actions, has lemmas of its own.

### Sums and LedgerProofs: money and rows

- `MoneyIsNotCreated`: `Spec => []NoMoneyCreated`. Three sums change together: coins in
  wallets, coins consumers carry, prices of settled purchases. It is inductive beside
  `Inv`.
- `CreditsAreNotRefused`: `Spec => []CreditFits`. It follows from the above: if the coins
  in play fit an int32, what a consumer carries and what its receiver has do so too, and
  the sum modulo 2^32 that the code computes is the sum.
- `HistoryIsBacked`: `Spec => []RowsBacked`. A row is written calls after its debit, so
  the invariant must say that the record to back it is still free then: `RowStages` (what
  is settled when a consumer comes to write a row) and `RowsFromRecords`, which counts
  only records nobody is about to write a row for (`Written`, `ReceiverWritten`).
- `LedgerIsKept`: `Spec => []LedgerAgrees`. Between two records the tables disagree, by
  exactly the rows consumers have still to write: `LedgerCatchesUp` says that a balance
  is the sum of its rows and what they lack (`Lacking`), as long as no call failed and no
  transfer is half done for good (`Stranded`, which no later step undoes).

TLC agreed to `RowStages`, `RowsFromRecords` and `LedgerCatchesUp` on the instance of
`settle` before they were proved.

The sums are folds that take elements in the order `CHOOSE` picks them. `Sums` proves
that the order does not matter and what a sum does when one value changes or one
element is added (`SumUpdate`, `SumExtend`). The induction rule of the library cannot be
used with these provers; its place is taken by a smallest counterexample: the subsets
of a finite set are well-founded, so if the statement fails for one it fails for a
minimal one, from which one element is taken (`SmallestSubset`).

### CheckoutProofs: locks and request keys

Assumed (`CheckoutAssumption`): jobs are purchases or transfers with a positive cost,
the price of an item is one, the owner `Nobody` is no handler.

- `TypeCorrect`: `Spec => []TypeOK`.
- `LocksExclude`: `Spec => []LockExclusive`. The invariant `LocksOwned`: a request that
  counts on a lock owns its key in Redis, or the lock went away under it (`lapsed`). Two
  that count on one lock would both own one key. A purchase that failed counts on its
  lock until it deletes it (`Entitled`): otherwise the key it deletes could be another request's.
- `NothingStays`: `Spec => []NothingLeftBehind`. The invariant `KeysMinded`: whoever is
  named in Redis has the key on the list it would undo (`Minded`), unless it was accepted
  or this key is excused (`cut`). It needs to know that the list a failing request sets out with has
  every key set before, on each error path (`UndoneKeys`, `FailLists`).
- `OneEvent`: `Spec => []OneEventPerRequest`, under `"GetRequest" \notin FaultyCalls` as
  the property says itself. The invariant `IdInv`: of requests with one id that never met, one
  at most is past the check, and its key is there; so a later one is refused.

`Admission` (an accepted request had all its locks, and what it asks for exists) is
proved for the use of `MerchShopProofs`.

### RegistrationProofs

Assumed (`RegistrationAssumption`): finitely many handlers, and at least one attempt.

- `TypeCorrect`: `Spec => []TypeOK`. The bound on the topic is the hard part: one record
  for each request that is over, besides the bounded repeats (`LogBounded`).
- `NamesAreUnique`, `EventsCreateNothing`: `OneAccountPerName` and `NoAccountFromEvent`. The
  invariant `Backed`: a name that was confirmed, is being announced, is in the topic or
  in a consumer's hands has an account; so UNIQUE refuses every `Create` from an event.
- `AnnouncementIsKept`: `Spec => []Kept`, the safety half of `RegisteredIsAnnounced`: the
  announcement of a registered user is with the goroutine, in the buffer or in the
  topic, or was lost in one of the ways the property lists.

### BalanceCacheProofs

Assumed (`BalanceCacheAssumption`): a positive life of a key, and `MaxDelay` as explained
under Runs.

- `TypeCorrect`, and `AnswersAreRecent`: `Spec => []BoundedStaleness`. The invariant says
  the same of what has not been answered yet: what a client is about to store was current
  when it read it (`ReadIsRecent`), and what is in the cache was current at most `MaxDelay`
  before its life began (`CacheIsRecent`), however late and in whatever order the `Set`s
  of slow readers come.

### MerchShopProofs: the whole

Assumed (`MerchShopAssumption`, `ComponentAssumptions`): every handler has a process,
the bounds leave room for every record, and the assumptions of both components.

- `RefinesCheckout`, `RefinesSettlement`: `Spec => ImplementsCheckout`, `Spec =>
  ImplementsSettlement`. Each step of the shop is a step of the component or leaves it
  alone. The two rest on each other: that a consumer's step is `Settle` needs the types
  of Settlement, that a delivered event is one `Publish` may append needs `Admission`.
- `TypeCorrect`, `KeepsAccepted`: types and `AcceptedIsKept`, inductive beside `Traced`
  (every record is the event of an accepted request) and the components' invariants.
- `SettlesAccepted`: `Spec => []SettledUnlessLate`, the property the locks exist for. The
  invariant follows an admitted request from its check of the balance to the debit:
  what it needs stays in its payer's wallet or a lock of the payer went too early
  (`Funded`, by `LocksOwned`: nobody else of this payer is admitted meanwhile), each such
  lock is noted (`Noted`), and an accepted request is settled, excused or still coming
  (`WorkedOn`).
- `BooksAreKept`, `LocksAreKept`: the shop keeps what its components promise by
  themselves (`AtMostOnce`, `NoMoneyCreated`, `CreditFits`, `RowsBacked`, `LedgerAgrees`;
  `LockExclusive`, `OneEventPerRequest`, `NothingLeftBehind`). They follow from the
  refinements and the theorems about the components.

The components' invariants and lemmas are not repeated: `CP` and `SP` instantiate the
components' proof modules as the shop instantiates the components, and
`SameCheckout`, `SameSettlement`, `SameSums` and `SameBooks` say that both instances
define the same.

### SessionsProofs

Assumed (`SessionsAssumption`): a positive life of a token; what a client has before it
is given a token is no token.

- `TypeCorrect`: `Spec => []TypeOK`.
- `NoRefusalWithoutCause`: `Spec => RefusedForCause`.
- `NoReturnOfReplaced`: `Spec => ReplacedStaysReplaced`.

Both action properties speak of one `Get`; the invariants say what holds before it.
For the first, `Inv`: a device whose token was set, and no other since, finds it in
Redis under its user's key, whose life ends no earlier than the token's
(`UnspoiltStored`), because the token was signed before the key was given its hour
(`PendingSigned`). For the second, `Once`: the pending token of a login that alone
signed it has never been in Redis and is nobody else's pending token (`NewToRedis`),
so a token that is in Redis after it was replaced was signed twice, or its `Set` was
sent twice (`BackIfTwice`): both put it into `again`.
`AnsweredByGet` then rules out every other action as the one that answers.

### Only model-checked

Liveness is outside the reach of the prover: `RecordsConclude`, `TransfersWhole`,
`EveryRequestAnswered`, `RegisteredIsAnnounced` and `AcceptedConcludes` are checked by TLC
on the instances above; of `RegisteredIsAnnounced` the safety half is proved
(`AnnouncementIsKept`). The four violations are counterexamples, found by TLC.

## What is abstracted

- The merch cache is part of the step `GetMerch`: merch rows never change, so a
  cached value cannot be stale. Lookups that the cache answers and those Postgres
  answers differ in nothing a property sees. The price is read from Postgres always.
- In `Sessions` a wrong password or an unknown name changes nothing and is no action;
  the claims are well-formed, since only `Login` signs them.
- `MerchShop` stops processes but starts none: a new process has an empty buffer and
  an idle consumer, and another server stands for it. A handler of a stopped process
  makes no more calls.
- Request keys last 24 hours; their expiry is not modelled.
- go-redis makes up to four attempts; the model bounds them by `MaxFaults` together with
  the failures. Repeating a `GET` that changes nothing is no step of its own.
- `Cancel` makes all remaining calls of a request fail at once. A call interrupted in
  the middle is a `Fault` of that call.
- Malformed events are not modelled: the service is the only producer and its
  handlers refuse the inputs (`request_id` empty, amount not positive) that the
  consumer would drop.
- Row deletion does not occur in the program; users and merch are fixed sets in
  `Settlement` and `Checkout`.

Not modelled: HTTP status codes, metrics, tracing and logs (no state);
`internal/handler` and `internal/config` (unused); migrations (run before the
program), except for the constraints they declare.

## Plan

Done: all modules of the inventory's table, with a proof module for each component and
for their composition. What is left, in this order:

1. The safety halves of the liveness properties: that a record whose consumer neither
   failed nor was refused ends with its credit (`TransfersWhole`), and that an accepted
   request cannot leave the buffer, the topic and the consumers' hands unconcluded.
2. Abstract specifications for the remaining components, as `Wallets` is for
   Settlement: a lock service with lapsing leases for Checkout, a register of bounded
   staleness for BalanceCache; and their refinements.
3. Conservation as an equation: coins forfeited by stranded transfers counted, so that
   `NoMoneyCreated` becomes "created or lost: neither, but these".
