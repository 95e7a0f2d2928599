# FluxMesh DEX in TLA+

This directory holds TLA+ modules for FluxMesh's services. At the centre are the
matching engine's order book and the way of an order through the API, Kafka, the
engine, the indexer and back into the engine after a restart. Around it are the
way of a request from the page to the stored functions, the settlement pipeline,
the notification hub with the pages connected to it, the accounts, and the two
circuit breakers. TLC checks the modules on small instances. For every instance
TLAPS proves the safety properties of the book, called by one goroutine and by
two, the order's way, the requests, the settlement pipeline, the hub, the
accounts and the breakers, and that the book implements an abstract price-time
book.

`PROJECT.json` lists the runs, the seeded fault that shows each property can
fail, the source lines behind every definition, the hazards and the theorems.

    tlc -workers 2 -config MCOrderBook.cfg MCOrderBook      # and so on
    tlapm OrderBookProofs.tla                       # and DataTheorems,
        BookRaceProofs, OrderLifecycleProofs, OrderRequestsProofs,
        SettlementPipelineProofs, NotificationHubProofs, ApiProofs

## The system

| Component | State | Operations | Talks to |
|---|---|---|---|
| api, orders (`api/internal/service`, `repository`) | none | create, cancel, list, depth | Postgres functions; publishes `orders.created`, `orders.cancelled` after the transaction |
| Postgres (`api/internal/migrations/stored_procedures.sql`) | orders, trades, balances, users, markets | stored functions, one transaction each | called by api, indexer, engine at start |
| Kafka producer of the api (`api/internal/kafka`) | breaker counters | write with 3 retries | brokers |
| matching engine (`matching-engine/internal`) | one book per market, in memory | match, cancel, restore | consumes both order topics on two goroutines; publishes `orders.matched`, `orders.rejected`; reads Postgres once |
| settlement (`settlement/internal/engine`) | none | forward a match | consumes `orders.matched`; publishes `trades.settled`, `balances.updated` |
| indexer (`indexer/internal`) | none | apply match, rejection, settlement, balance | consumes four topics, one goroutine each; writes Postgres |
| notification (`notification/internal`) | clients per user, three channels | register, broadcast | consumes the domain topics; WebSockets |
| eventlog (`eventlog/internal`) | MongoDB | save | consumes the topics it is configured for, one goroutine each |
| gateway (`gateway/internal`) | breaker, token buckets | proxy with retry | HTTP to the other services |
| contracts (`contracts/contracts`) | owner, settler, settled ids, markets | settle a batch, list a market | nothing calls them yet |
| users, markets, balances of the api; mcp; frontend | rows | CRUD | Postgres |

Services share no memory. They meet in the topics, each read by one consumer
group that fetches, handles and commits, and in the rows of Postgres. Within a
service the shared state is small: the engine's books (two goroutines and a
lock that guards the map of books, not the books), the notification hub, the
gateway's and the producer's breakers.

What is hard here, and what makes each part correct:

- *The book*: sorting only on demand, loops that break early, slices rebuilt
  after each match. Correct: best price first and oldest first, quantities
  conserved, nothing filled left behind, nothing lost.
- *Two goroutines on one book*: any interleaving of the slice operations.
  Correct: the same, and a cancelled order is gone.
- *The order path*: two topics that are not ordered with respect to each other,
  a row written before its message, messages delivered again, publishes that
  fail in the middle, restarts with work in flight. Correct: rows and book
  agree in the end, no order trades more than its size, cancelled is final, a
  restart brings back what rested.
- *Settlement and indexer*: two topics written by one cause and read by two
  goroutines. Correct: every trade is marked settled, once.
- *Cancellation fee*: two transactions on two orders and one balance. Correct:
  the balance stays non-negative, fees are what the rows say.
- *Breakers and retries*: a probe and late answers. Correct: open means no
  call, a dead backend does not close it, nothing runs twice that must not.
- *Notification hub*: bounded channels, clients that come and go. Correct: no
  message to a client that left, no one waits for ever.
- *Event log*: every event is stored before it is committed.
- *Accounts*: a read, a transaction and an event per request. Correct: the events
  say what happened to the rows.
- *Requests*: retries at both ends of the gateway. Correct: one row per key, and
  answers that are true.

## The modules

| Module | What it is |
|---|---|
| `BookDefs` | orders, sides, the crossing test and the sort's order, from `book.go` |
| `OrderBook` | `book.go`, called by one goroutine: the sort, each loop iteration, prune and add as steps; restore and cancel |
| `PriceTimeBook` | the abstract book: sets, no slice, no sort, no loop |
| `OrderBookProofs` | invariants of `OrderBook`, and that it implements `PriceTimeBook`, proved |
| `BookRace` | `book.go` under the two goroutines of `main.go`, on headers and arrays |
| `OrderLifecycle` | api, topics, engine, indexer, Postgres, restarts |
| `OrderRequests` | page, gateway and API around `fn_create_order` and `fn_cancel_order`: retries, idempotency keys, fees, events |
| `SettlementPipeline` | settlement, the indexer's readers, the event log: fetch, handle, retry, drop, commit, restart |
| `NotificationHub` | consumers, hub, clients, and the page's `useWebSocket` |
| `Accounts` | register, login, profile changes and deletions side by side, with their events |
| `CircuitBreaker` | the producer's and the gateway's breaker, each with its retry loop |
| `BookRaceProofs`, `OrderLifecycleProofs`, `OrderRequestsProofs`, `SettlementPipelineProofs`, `NotificationHubProofs` | the safety properties of those modules, proved |
| `ApiProofs` | those of `Accounts` and of `CircuitBreaker`, proved |
| `DataTheorems` | lemmas on sequences, sums and folds that the proofs share |
| `MC...` | one instance of each for TLC |

The modules meet in what they take from each other. `OrderRequests` says which
orders are written, how often, and which of their events are published;
`OrderLifecycle` takes placed orders, whose events may be lost or written
twice, from there. `CircuitBreaker` is why a publish or an attempt may fail,
which is a free choice in the other modules. `OrderLifecycle` publishes the
matches `SettlementPipeline` and `NotificationHub` consume. They are not one
composed module: a message does not carry state of one into the other beyond
that, and the product of two of them is past what TLC can enumerate.

### OrderBook

`book["buy"]` and `book["sell"]` are `b.bids` and `b.asks`; the entries are
order objects (pointers), so two objects may carry one id. `order` is what an
object holds, `remaining` its `Remaining`. `BeginMatch` is `ProcessCreated` up
to the sort: the entry of the opposite slice is any arrangement the less
function allows, since `sort.Slice` is not stable. `Iterate` is one iteration
of the loop, `LoopGoesOn` its two breaks, `EndMatch` the prune and the `Add`.
`Restore` is possible before the consumers start. The code writes buy and sell
separately; the model has the side as a parameter.

Decimals are exact in the code (`shopspring/decimal`), so integers stand for
them. `CreatedAt` is the engine's clock for new orders, stripped of its
monotonic part by `UTC()`, and Postgres' clock for restored ones: the model
gives an order any time.

`PriceTimeBook` says what is promised: a set of resting orders, at most one
incoming order, and every trade takes a best order among those it crosses.
`OrderBook!Promise` maps a state to it: the resting set is what is on the
slices with something remaining.

### BookRace

A slice is a header (array and length) in a field of the book, and an array on
the heap. Each goroutine reads a header at once; it stores one word at a time,
in either order, since nothing synchronises the two. `Prune` allocates an
array, `AppendRest` writes in place while there is capacity and else moves,
`Shift` moves elements in place, and the loop reads the array it began with.
`Scan` and `ScanAgain` are the two looks of `ProcessCancelled`, at the book of
the message's market and then at every book (`engine.go:180-201`); a nil before
the order that is looked for is a panic, one behind it is not read. The sort,
the prune's pass, the scan and the shift are one step each: finer
interleavings exist, so a run that finds a violation shows a possible outcome,
and a run that passes shows it for this granularity. A position past the
array, or never written, is nil, and its dereference ends the process; in Go
it could also be an element that an append had left there earlier.

### OrderLifecycle

| State | In the code |
|---|---|
| `rows`, `placed`, `tradeRows` | tables orders (and its order by `created_at`) and trades |
| `publishing` | a request between its transaction and its publish |
| `log`, `position`, `committed`, `handling` | topics and the consumer loops' place in them |
| `book`, `outbox` | the engine's memory, and the fills `ProcessCreated` is still publishing |
| `fault` | how often each fault has happened, bounded by `MaxFault` and `MaxFaults` |
| `cancels` | history: accepted cancellations |

All orders have one price, so a side is a queue and `MatchIncoming` one fold
over it (the loop, prices and the sort are `OrderBook`, overlapping calls
`BookRace`). Arrival order stands for the engine's clock, `placed` for the
database's. A topic has one partition, which is what `docker-compose.yml`
gives it by auto-creation. A market's books do not meet, so there is one.

Faults are explicit actions: the API's publish is lost or written twice
(`LoseRequest`, `RepeatRequest`), the engine's fails in the middle of the fills
of one order or is written twice (`PublishFails`, `RepeatResult`), a commit
fails, the indexer drops a message after its retries, the engine restarts at
any point (with Postgres reachable or not), the indexer restarts. A restarted
service resumes at its committed offset.

Left out: the fee, idempotency keys, messages that do not unmarshal, invalid
sides and prices (a size of zero stands for everything the engine rejects),
markets, and the rows' `deleted_at`, which no order function sets.

### OrderRequests

| State | In the code |
|---|---|
| `client` | a mutation of `OrderBook.tsx` and the call of `apiFetch` it is in |
| `jobs` | the requests the API is at work on, each for one attempt of the gateway; several may be for one operation |
| `rows`, `orders`, `balance` | new orders, resting orders, and the user's balance in the fee's asset |
| `published` | how often each order's event is in the topic |
| `lost`, `unheard` | history: orders written whose event nobody publishes any more, and orders of which a write to Kafka arrived unanswered |

A connection may break at either end of the gateway (`apiFetch`, `RoundTrip`).
The sender then sends again, and the API may go on with what it had. A gateway
that gives up answers 502. `fn_create_order` is two steps, the look at the key
and the insert; `fn_cancel_order` is two, the lock with its reads and the
updates. `StatementFails`, `PublishFails` and `Abandon` (the client has gone and
its context ends, or the API stops) may come at any of them. The answer of the
database or of the broker may be lost when the work is done: `CommitUnheard`
leaves a row behind a 500 and no publish, and `WriteUnheard` an event in the topic
that `writeJSON` (`producer.go:98-131`) or the Kafka writer under it writes again,
or gives up (`PublishFails`, `Abandon`) without knowing that it is there. A write
arrives before the API gives it up; later arrivals are not modelled. That the page
calls again after a 502 to a GET is left out: it only reads.

### SettlementPipeline

Every reader has its `position` in the topic, the offset it has `asked` to
commit and the one its group has `committed`: they differ after a failed commit,
and in the event log, which commits by interval. `stage` is where the loop
stands, `attempt` the retry loop of `dispatcher.go` and `consumer.go`. A handler
fails before or after its statement took effect. A restart takes all the loops of
a process back; a handler that is told to stop may commit its message all the
same. `rows` is the table trades as far as settling goes.

### NotificationHub

`broadcast` and `broadcastAll` are the hub's channels and `clients` its
registry. A socket has the client's `Send` buffer, its writer goroutine, and the
page's view of the connection; `due` and `got` say what a connected page could
expect and what it got. What arrives before a client is registered is not its; a
client is registered even if its page has gone by then (`ws.go:52-62`).

`pages` are the timers and the last socket of the hook, and `token` is what the
`localStorage` of each browser holds. The provider is mounted above `/login`
(`App.tsx:23`), so a page may be there without a token; `connect` looks at it
(`useWebSocket.ts:33`), when the page is loaded and when a timer fires, and at no
other time, so that `Login` connects nobody and `Logout` closes nothing. `Leave` is
a tab that is closed or loads another page, as `apiFetch` makes it after a 401.
`signedOut` remembers the pages mounted while nobody was logged in in their
browser. The frontend is the production build: in development `StrictMode`
(`main.tsx:7`) mounts the hook twice, and the onclose of the first socket leaves a
second socket or a timer; that is not modelled.

A SIGTERM stops the consumers, not the server with the sockets
(`main.go:29-63`): that is their steps not taken before a `Restart`.

### Accounts

A request is a read outside the transaction (`FindByID`), the statements of the
stored function, and the publish. `EXISTS` sees live rows only, the unique index
all of them. The row lock of `fn_update_profile_atomic` makes a deletion wait.
Any statement may fail (`StatementFails`), a commit may be done and its answer lost
(`CommitUnheard`), and an event may be written once more because the broker's
answer was lost (`WriteUnheard`, as long as the topics hold fewer than `MaxEvents`;
a write arrives before its error is answered, later arrivals are not modelled).
`lost`, `unheard` and `overlapped` remember of which accounts no event is known to
be published, of which a `users.deleted` was written unheard, and which had two
changes under way at once. `AccountsInit`, `AccountsNext` and
`AccountsSpec` are named apart from those of `CircuitBreaker`, since `ApiProofs`
extends both.

### CircuitBreaker

`side` says which of the two it is. `breaker` is `sony/gobreaker` as the code
configures it, its generation a flag of each call. The producer's loop asks the
breaker for every attempt, the gateway's retries happen within one call. The
upstream is up, refuses connections, answers with errors or hangs.

## What TLC checks

| Run | Expected | Properties | Instance |
|---|---|---|---|
| `order_book` | pass | `TypeOK` `OnlyRestoredOrdersCross` `SizeConserved` `LiveOrdersOnce` `PriceTimePriority` `ImplementsPromise` | 3 orders, 2 ids, prices 0 1 2, sizes 0 1 2, times 1 2 |
| `book_race` | pass | `TypeOK` `NeverOverfilled` `SoundWithoutOverlap` | 3 asks and a bid at rest, 3 arrivals, 4 cancellations |
| `book_race_cancel` | violation | `CancelledIsGone` | the same |
| `lifecycle` | pass | `TypeOK` `OneCopyInOneLife` `NeverOvertraded` `RowsMatchTrades` `RestartLosesNothing` `QuietRestartKeepsBook` | a buy of 2 (or one to be rejected) and two sells of 1, cancellations of the buy, one fault of any kind |
| `lifecycle_live` | pass | `Converges` `CancelsLand` | the same without rejection, one redelivery, repeated publish or failed commit |
| `lifecycle_restart` | violation | `OrdersRestOnce` | two orders, one restart |
| `lifecycle_cancel` | violation | `CancelledOnce` | two orders, no fault |
| `requests` | pass | `TypeOK` `OneRowPerKey` `AnswersAreTrue` `AnnouncedUnlessLost` `FeesAddUp` `EveryPageIsServed` | three orders to submit, or two or three to cancel with one balance, or one of each; two broken connections and one failure, one and two, or one and none |
| `settlement` | pass | `TypeOK` `CommittedIsDone` `UnmarkedOnlyIfOvertaken` `StoredOnce` `EveryReaderCatchesUp` | two trades, one retry, one or two faults |
| `hub` | pass | `TypeOK` `ConnectedPagesMissNothing` `CommittedWasHanded` `OneSocketOrTimer` `EveryFeedMovesOn` | channels of one, one or two tabs, two or three connections, a restart, one or two logins |
| `accounts` | pass | `EventsAddUp` `DeletionsAreTrue` | two accounts, three emails, four or five requests at a time |
| `breaker` | pass | `TypeOK` `OpenSendsNothingNew` `OpensOnlyForFailures` `ClosesOnlyByProbe` `FollowsUpstream` | three callers, three changes of the upstream, two clients that leave |

*Bounds.* In `order_book` three orders give a taker with two makers, a taker
that rests and is then a maker, ties and inversions in time, restored orders
that cross and one that has no positive price; two orders may share an id.
In `book_race` the three asks make a prune that keeps, a
cancellation in the middle and at the end, and an append that grows an array;
the resting bid is cancelled while a sell walks the bids, and an arrival that may
rest is cancelled too. In `lifecycle` one
order is filled twice, so that fills can be applied out of date, and one fault
at a time is enough for every property: each is either about the absence of
some kinds of fault, and then the others are free to happen, or about one
restart. Two faults in a run exceed what TLC finishes in minutes on two cores.
For the safety properties of all runs the theorems below remove the bounds: the
instances then serve to find mistakes early, and to show that the seeded faults
are caught.

The other runs start in one of several `Cases`, so that what does not meet is
not multiplied.

- `requests`: orders to submit (one with a key, one without, one the API
  refuses), or cancellations. Two broken connections let an operation have
  three requests at work at once, from either end; two failures let one event be
written unheard, and then be given up or written a second time unheard. The two fees of 2 and 3
  exceed the balance of 3, which is the cap, and the third cancellation finds
  the balance negative. `MAX_RETRIES` and `maxRetries` are 1 (3 and 2 in the
  code): a second retry differs from the first in nothing but its number.
- `settlement`: settlement runs in every case; with it run the two readers that
  meet in the table trades, or the reader of `balances.updated`, or the event
  log. Two trades let a commit pass over an earlier message. Handlers fail
  without a bound other than their attempts.
- `hub`: capacities of 1 stand for 1024, 256 and 256; a full channel is then
  two messages away. Two tabs of one user are in the registry together; the
  third connection is a reconnect of an unmounted page. Of the six cases two have
  two tabs of one user, two a page and a restart of the service, one a page in
  which the user changes or logs out and in, and one two pages of a browser in
  which nobody is logged in at first.
- `accounts`: each case is a set of requests that compete for an email or a
  row, all started and finished in any order. Any of them may fail, without a
  bound; an event may be written unheard while the topics hold fewer than 3.
- `breaker`: three callers and a threshold of 3 (5 in the code), so that the
  breaker opens with all of them under way; retries 2 for the producer (3) and
  1 for the gateway (2). The upstream changes at most three times: up, down, up
  again, and down again.

*Symmetry* (of the entries and of the ids) is used in `order_book` only. The
other runs tell their orders apart by name, and the one with liveness properties
would not be sound with it.

*Deadlock* is not an error in any run: a system with nothing left to do stops.

*Fairness*, in `lifecycle_live`: weak fairness of every consumer loop's fetch,
of its commit, and of the publishes. Each is a goroutine in a `for` loop that is
never blocked by another (`main.go:110-166`, `dispatcher.go:55-78`) or a request
handler that runs to its end. Nobody has to place or cancel an order, and no
fault has to happen. Broker and database answer in the end, or the bounded
faults say they do not.

In `settlement`: every loop's fetch and commit, and its handler's return; not
its success, since `HandleSucceeds` and `HandleFails` are one fair choice.
In `hub`: the consumers and the hub's goroutine. The writers are not fair, since
a page may be slow for ever and the code sets no write deadline; nor are
pages. In `breaker`: the 30 seconds pass, an attempt returns (unless the backend
hangs), loops go on after their delay, and there is always somebody who calls,
without which nobody would look at the breaker. `requests` and `accounts` state
no liveness: `EveryPageIsServed` is the invariant that a page which waits has a
request to wait for.

### What the passing runs show

Several properties name the exception the code leaves, as precisely as it holds;
what they rule out is everything else.

- `requests`: a key makes one row whatever is retried, also when two requests
  pass the look at the key together; what the page is told is so. An event is in
  the topic twice only if a broker's answer was lost, and the one of an order that
  was written is missing exactly when its publish failed, its client left or its
  commit was not heard of before any write of the event arrived; a retry with the
  key does not make up for it. One cancellation per order, and fees that add up.
- `settlement`: a committed message had its effect unless it was given up after
  its attempts, in a shutdown, or by a failed publish of settlement that a later
  commit passed over. A trade is left unmarked only when its mark came before
  its insert. No message blocks its topic.
- `hub`: a connected page gets all that the hub takes for it, once, in order,
  less what does not fit; both parties of a trade are told before the commit; a
  page that does not read delays nobody. A page never has two sockets, or a socket
  and a timer. It has one of them while it is mounted and its user has been logged
  in all the time since, and may be left without either otherwise.
- `accounts`: the events of a profile add up to its row unless two changes of it
  overlapped or an event was lost, also when one is written twice; a deletion event
  is about a deleted account, and there is one for each, unless two deletions
  overlapped, a broker's answer or a commit's was lost, or the publish failed.
- `breaker`: it opens for failures in a row, closes only when a probe was answered
  or, the producer's, when the probe's client went away, admits one probe at a
  time, ignores late results, and follows an upstream that stays up or down. The
  last holds because finitely many clients leave (`Aborts`): without that bound
  they would open the gateway's breaker, or close the producer's, for ever.

### What the violations show

- `book_race_cancel`: `Cancel` and `MatchIncoming` overlap; `Cancel` returns
  true and the order is on the book when both are done (`book.go:160-165`).
- `lifecycle_restart`: the engine stops between the insert of an order and the
  commit of its message. The restore puts the row on the book and the message
  puts the order there again: it can trade twice its size (`README.md:341`).
- `lifecycle_cancel`: an order is cancelled while a partial fill is on its way
  to the indexer. The fill makes the row `partial` again, and the order is
  cancelled, and charged, a second time (`README.md:254`).

`OneCopyInOneLife` and `NeverOvertraded` mark the line: without a restart of the
engine and without a repeated `orders.created`, an order is on the book once
and its fills stay within its size, whatever else fails. `RestartLosesNothing`
keeps the other half of the README's promise.

## What is proved

Every theorem is for all values of the constants, hence without the bounds of
TLC's instances: any number of orders, trades, pages, callers and faults. All
follow one pattern: an inductive invariant, a lemma for each action that it is
kept, `Invariance == Spec => []...`, and the properties as consequences of it.
The invariants are stated in the proof modules; the modules of the
components hold what the runs check.

| Module | Theorem | Property |
|---|---|---|
| `OrderBookProofs` | `TypeCorrect` | `TypeOK` |
| | `CrossingOrdersWereRestored` | `OnlyRestoredOrdersCross` |
| | `RestingOrdersAreLive` | `LiveOrdersOnce` |
| | `FillsKeepPriority` | `PriceTimePriority`, of steps |
| | `QuantityConserved` | `SizeConserved` |
| | `BookImplementsPromise` | `ImplementsPromise`, the refinement |
| `BookRaceProofs` | `TypeCorrect` | `TypeOK` |
| | `FillsFitTheSize` | `NeverOverfilled` |
| | `SoundUnlessOverlapping` | `SoundWithoutOverlap` |
| `OrderLifecycleProofs` | `TypeCorrect` | `TypeOK` |
| | `RestsInOnePlace` | `OneCopyInOneLife` |
| | `TradesFitTheOrder` | `NeverOvertraded` |
| | `RestingOrdersComeBack` | `RestartLosesNothing`, of steps |
| | `RowsAgreeWithTrades` | `RowsMatchTrades` |
| | `QuietRestartsAreHarmless` | `QuietRestartKeepsBook`, of steps |
| `OrderRequestsProofs` | `TypeCorrect` | `TypeOK` |
| | `KeyedOrdersOnce` | `OneRowPerKey` |
| | `AnswersTrue` | `AnswersAreTrue` |
| | `Announcement` | `AnnouncedUnlessLost` |
| | `PagesServed` | `EveryPageIsServed` |
| | `FeesBalanced` | `FeesAddUp` |
| `SettlementPipelineProofs` | `TypeCorrect` | `TypeOK` |
| | `CommittedDone` | `CommittedIsDone` |
| | `MarkedUnlessOvertaken` | `UnmarkedOnlyIfOvertaken` |
| | `StoredOnceUnlessRepeated` | `StoredOnce` |
| `NotificationHubProofs` | `TypeCorrect` | `TypeOK` |
| | `ConnectedPagesAreServed` | `ConnectedPagesMissNothing` |
| | `CommittedHanded` | `CommittedWasHanded` |
| | `OneSocketAtATime` | `OneSocketOrTimer` |
| `ApiProofs` | `AccountsTypeCorrect` | no run: the types of `Accounts` |
| | `FollowersKnowTheProfile` | `EventsAddUp` |
| | `DeletionsArePublished` | `DeletionsAreTrue` |
| | `TypeCorrect` | `TypeOK` of `CircuitBreaker` |
| | `OpenMeansNoNewRequest` | `OpenSendsNothingNew`, of steps |
| | `OpenedByFailures` | `OpensOnlyForFailures`, of steps |
| | `ClosedByProbe` | `ClosesOnlyByProbe`, of steps |

*OrderBook.* The invariant is `IInv == TypeOK /\ BookInv /\ LoopInv /\
OnlyRestoredOrdersCross`. None of the stated properties is inductive alone:
that the remainder of a taker may be added without crossing anything depends on
where the loop stopped, hence on the slice being sorted, on everything before
the position being filled or the taker exhausted, and on everything from the
position on being untouched. `LoopInv` says that of the middle of a
`MatchIncoming`; `BookInv` says of all states that an object is on its own
side, once, with a non-negative remainder, and that before the consumers start
all orders are restored ones. For `SizeConserved` `FillsInv` adds that fills are
of objects in use: what a new object traded is then nothing, and the sum grows
in `Iterate` only, by what the remainders lose.

The refinement is a step simulation on top: `Restore` is `Restore`,
`StartConsumers` is `Open`, `BeginMatch` is `Submit` (the sort does not show),
`Iterate` is a `Trade` with a best maker (because everything earlier in the
sorted slice is filled) or a stutter, `EndMatch` is `Settle`, `Cancel` is
`Cancel`.

*BookRace.* Two invariants, one for each half of what is said. `TypeInv` holds
however the calls interleave. Its core is `SidesAreApart`: the slices of the two
sides, the header a goroutine walks and the one it is about to store included
(`Uses`), never share an array, and an array holds orders of its side only. So a
maker is never the taker: `Iterate` then takes the smaller of two remainders from
two different orders, neither remainder becomes negative (`RaceTypes`), and since
a fill and what remains are the size (`FillsFit`), no fill exceeds it. A loop that
took a fill of another amount would break it, and so would a taker that met itself.
`WholeWithoutOverlap` says what calls that have
not overlapped do: of the slice that each field will be once the store under way
is done (`Slice`), that it has every order that should rest (`ToRest`: entered,
not cancelled, not in a call's hands), once, and no other; of the words already
stored, that they are the new header's; and that the position `Cancel` found is
still the order's. From it no nil or out-of-range element is met, and
`SoundWithoutOverlap` is the case in which both goroutines are between calls.

*OrderLifecycle.* The properties hold as long as some kinds of fault have not
happened, and so do the invariants. `LifeInv` is about a life of the engine
without repeated requests (`Calm`): an order is announced once (`AnnouncedOnce`),
so it rests at most once (`RestsOnce`); a fill is of orders the engine has taken
(`FillsAreSound`); what was traded of an order and what rests of it fit into its
size (`WithinSize`); and a row shows no less than what rests (`RowsShowNoLess`),
which is what makes a restore from the rows lose nothing. That `ProcessCreated`
keeps these is an induction over the makers that the taker walks past, with
invariants of its own: what the walk keeps are makers it met with no more
left, and every fill is taken out of both what the taker and a maker had.
`ExactInv` needs more to be `Lossless`, and gives equality instead of bounds: what
rests is exactly the size less the fills (`EngineExact`), fills are published in
the order they were made, so that the row shows the last one handled
(`RowsFollow`) and the trade rows are the fills (`TradesFollow`). From it
`RowsMatchTrades` follows whenever the indexer is through its topic, however
often it had messages again, and `QuietRestartKeepsBook`, since each row then
holds what the entry did.

*OrderRequests.* What an answer says depends on what the request read before
its transaction. The invariant says of every job how far it is and that what it
read still tells it enough (`JobsAreSound`): a key that was not found may have
been used since, but then the insert returns the row that has it. `KeysAreFresh`
and `RowsAreSound` tie rows to the jobs that inserted them, `EventsAreSound` the
events to the jobs that have yet to publish: an order has one event, unless a
write of it arrived unheard, and the order of a job that is about to publish has
none but such. `BalanceAsRead` says that a
balance read is the balance while no other cancellation committed.
`FeesAddUp` adds up the fees over the rows (`FeesBalance`), which needs that an
open order was not charged (`UnchargedWhileOpen`).

*SettlementPipeline.* A reader may have lost or passed over messages, so the
invariant says for each one up to its position what became of it (`Passed`),
that the message it is at is not committed, and that the second publish of
settlement comes after the first (`Within`). As long as nothing made the event
log go back, it has stored once what lies behind it (`StoredBehind`).

*NotificationHub.* `SocketIsSound` says of a connection at each stage of its
life what is in its buffer, what it got and what it missed: the first two
together are what was due less what was dropped, in order. `WasHanded` covers the message that
a feed is in the middle of. `PageIsSound` says that all connections of a page
but its last have ended, that it has a timer only when that one has ended or there
is none, one timer at most, and that a mounted page with neither is in `signedOut`.
The last holds because a page finds no token only if there was none when it was
loaded or a logout came later, which both put it there.

*Accounts.* `AccountKept` is about one account at a time, so that a request only
has to be followed for the account it changes (`StepOfOthers`). A deletion that
is written or published has its row deleted, and the other way round a deleted
row has its event, has lost it, or has the request that is about to publish it
(`DeletedIsGone`, `GoneIsDeleted`). A second deletion that is still under way
when the first is published has read the row before, hence overlapped it
(`DeletedOnce`); without overlap a second event is the same request's, and then a
broker's answer was lost. Without overlap there is one change under way at most
(`OneAtATime`); what it read is what the events add up to, the row is that too
until the change is written, and afterwards it is what the event will make of
what was read (`EventsKnown`). This rests on the row lock: a row that is locked
is live (`LockedIsLive`), so an update that is answered 200 has written. That an
event changes the fold over the topic by itself alone (`ReplayOfOneMore`) holds
because the folds over a topic and over a longer one go through the same profiles
(`HistoryExists`).

*CircuitBreaker.* `IInv == TypeOK /\ FailuresAreRecent /\ ProbeIsCounted`: the
failures a closed breaker has counted are its last results, and a half-open one
that has counted no request has sent none. Without the second it could have two
probes under way.

*The assumptions.* The constants are what the code's types say, and no more:

- `DataAssumption`: prices, sizes and times are integers (decimals are exact).
  `NoEntryAssumption`: nil is no order.
- `BoundsAssumption`, `BreakerAssumption`, `HubAssumption`,
  `PipelineAssumption`: the types of the constants. A breaker needs at least one
  failure to open, channels have room for at least one message (1024, 256 and
  256 in `hub.go` and `ws.go`), settlement, without which nothing reaches
  the other readers, always runs, every page is in a browser, and the absence of
  a token (`Nobody`) is no user.
- `RaceAssumption`, `ObjectsAssumption`, `MemoryAssumption`: the types of the
  constants of `BookRace`. Orders at rest are on their own side, once, and each
  arrival is another object with something to trade (the engine rejects the
  others and makes an object per message, `engine.go:129-134, 212-218`). The
  allocator finds an array besides the four that are in use.
- `AccountsAssumption`: a request is of one of the four kinds and gives fields of
  those two a profile has; a change is of an account that was there at the start,
  and a new account's id is not the id of an old one.
- `RequestsAssumption`: a fee is not negative, a user rests finitely many
  orders, an operation posts or deletes. `IdsAssumption`: the id of a new order
  (`uuid.New`) is not the id of an old one.

*Sums and folds* are functions that are defined by recursion. `DataTheorems` has
the facts the proofs need, for finite sets and sequences of any size: that the
fold exists, that a sum does not depend on the order of its terms, and what
adding or changing a term does to it. They are proved from the smallest counterexample
(`Smallest`, `UpTo`, `SmallestSet`), since the induction theorems of the
library take an operator.

Only model-checked:

- All liveness: `Converges`, `CancelsLand`, `EveryReaderCatchesUp`,
  `EveryFeedMovesOn`, `FollowsUpstream`. They rest on fairness, which is about
  `ENABLED`, and the prover has no rules for it.
- That the properties of the three runs with a violation fail.

## Where the code and its documents differ

Three differences are runs (above). The others came up while modelling; the
properties are stated for what the code does. The next five are findings in
`PROJECT.json` without a run: there a property passes, and a document says of the
same thing something else.

- `docs/kafka-topics.md:39` says that settlement commits only after successful
  processing, and `settlement/SERVICE.md:89` that after a failed publish the
  message is not committed. It is not, itself; but the loop goes on to the next
  message (`main.go:62-68`), whose commit covers it. `CommittedIsDone` excuses a
  message that was passed over.
- `docs/kafka-topics.md:41` says of the event log "Only commits after successful
  MongoDB write, ensuring no events are lost", and `README.md:94` the first half. An
  event whose attempts have all failed is committed, as `README.md:356` and the
  service's `SERVICE.md:97` say; so is one whose attempts a shutdown cut short.
  `CommittedIsDone` excuses both.
- `docs/kafka-topics.md:42` says that the notification service uses `ReadMessage`
  with auto-commit, at most once. `typed_consumer.go:40` fetches, hands over and
  then commits: what `CommittedWasHanded` states, at least once as far as the hub.
- `README.md:129` calls the connection auto-reconnecting. It reconnects after an
  onclose, if there is a token by then. A page loaded before the login is not
  connected by it, and one connected before a logout or another login goes on for
  the user it was connected for (`OneSocketOrTimer`, `ConnectedPagesMissNothing`).
- `matching-engine/SERVICE.md:93` says that a restart loses all resting orders and
  that orders can only be added. `main.go:86-107` restores them, as `README.md:321`
  says, and the engine handles cancellations (`RestartLosesNothing`).

These are told here only:

- `notification/SERVICE.md:26`, 50 and 104 connect with `?user_id=`; `ws.go:32`
  takes the user from `?token=`.

- `README.md:363` counts 5xx answers as failures of the gateway's breaker.
  `RoundTrip` returns them as answers without an error, which are successes.
- `README.md:363` says that no requests are sent to a backend while the breaker
  is open. Requests admitted before go on with their retries
  (`OpenSendsNothingNew` allows them).
- A client that leaves is a failure to the gateway's breaker, not to the
  producer's (`producer.go:62`). To the producer it is a success: when it was the
  probe's, the breaker closes although the broker is still away.
- `reverse.go:37-39` and `README.md:383` retry network errors "because the
  request never reached the upstream". A connection can break after that: a
  cancellation is then sent again and answered 409, and an order without a key
  is inserted twice.
- The gateway's transport has no timeout: a probe of a backend that hangs keeps
  the breaker half-open, and everybody else refused, until its client gives up.
- `stored_procedures.sql:156` says the balance never goes negative. Two
  cancellations of one user lock different orders, and read the balance before
  either deducts; it can. A cancellation that then reads the negative balance
  records a negative fee, which it does not deduct.
- `fn_mark_trade_settled` updates no row when `trades.settled` is handled before
  `orders.matched`; nothing marks the trade later.
- The unique violation of `fn_update_profile_atomic` is not translated: the
  second of two accounts that take an email at the same time gets a 500. The
  email of a deleted account cannot be registered again.
- The cleanup of the hook closes the last socket, whose onclose then sets a timer
  that reconnects for a page without the hook (`OneSocketOrTimer` allows one),
  and a WebSocket client whose page has gone stays registered until a message
  for it fails to be written.

## Not modelled, and the plan

All parts that keep state and meet other parts have a module. What is left out
of them is named in their sections above and in `PROJECT.json`. Not modelled:

- *contracts*: one transaction at a time on a chain, no state shared with the
  services, and nothing off-chain calls them yet. A batch skips the ids that are settled and
  emits events for the rest; it calls nobody, so the guard against reentrancy
  has nothing to guard, and the deposits and withdrawals it names are not there.
- *markets and balances of the api, order lists, market depth*: reads. The one
  write to a balance is the cancellation fee, in `OrderRequests`;
  `fn_upsert_balance` is not reached by the events settlement publishes.
- *rate limit and JWT of the gateway*: `golang.org/x/time/rate` and a library
  call; passwords and tokens of the api likewise.
- *mcp server*: publishes single messages that no service consumes.
- *frontend*, but for `apiFetch`, the mutations of the order page, `useWebSocket`
  and what login and logout do to it: rendering. So is what `StrictMode` does in
  development.
- *the titles of the event log, metrics, tracing, logging, seeding, Swagger*: no
  state the other parts read.

Left for proofs: what holds under fairness, listed above as only model-checked.
