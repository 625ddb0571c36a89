# ATrader in TLA+

ATrader is a paper-trading server. Live order books and trades of real
exchanges come in; clients' orders are executed against them by a simulated
broker, which books the results into accounts, keeps a journal in Postgres and
rebuilds its memory from it after a restart. Around the broker are the feeds,
alerts that wake agents, reports, a dashboard with sessions and settings, and the
process that is stopped and started again. This directory models that program
and checks and proves what makes it correct. Paths below are relative to the
repository (`src/broker.rs` and so on).

## The system

| Part | State it keeps | Operations | What must hold | Module |
|---|---|---|---|---|
| `SimBroker` (`src/broker.rs`) | `World`, under one mutex: accounts, generations, orders, resting lists, books, shadow states, the next order id | `place`, `cancel`, `convert`, `on_book`, `on_trade`, `expire_day_orders`, `reset_account`, `restore_account`, `restore_order` | an order is open iff it rests, priority, a print or a level is used once, every change is journaled | `Broker` |
| Ledger (`src/ledger.rs`) | cash, positions, reserved amounts, average costs, realised profit | `reserve_*`, `release_*`, `apply_fill` | reservations are what resting orders promise; nothing is overdrawn; profits add up | `Broker`, `Reports` |
| Shadow book (`src/sim.rs`) | price offset and depletion per instrument | `shadow_side`, `walk`, `consume`, `impact`, `passive_fill`, `decay` | displayed liquidity is not sold twice; the shadow book does not cross | `Broker`, `Ticks` |
| Venue rules (`src/venue.rs`, `fees.toml`, `holidays.toml`) | none (tables) | ticks, lots, price limits, fees by date, sessions | a reservation covers any later fee; limits are exact; the next opening is the next | `Broker`, `Ticks`, `Sessions` |
| Journal writer (`src/persist.rs`) | an unbounded queue, the entry being retried | `persist` | entries are written once, in order | `Persist` |
| Store (`src/store.rs`) | Postgres tables | writes, resets, replay | replaying it gives the broker's memory back | `Persist` and each component's own rows |
| App (`src/app.rs`) | the account cache | `create_account`, `reset_account`, `restore`, the snapshot and bar loops | caches are not ahead of the store; snapshots stay | `Persist`, `Accounts`, `Bars` |
| Process (`src/cli.rs`, `zyris_enroll` in `src/web/mod.rs`) | the tasks, the link to Attacca, an enrolment | start, stop, drain, link, grant, restart | a drain ends, and one that ends in time loses nothing of before the stop; a grant arrives | `Persist`, `Lifecycle` |
| Market (`src/market.rs`, quotes and orders of `src/tools`) | books, statistics | `pump`, `ensure_fresh`, `load_instruments` | no needless refusal; books do not go back | `Market` |
| Subscriptions and feed runner (`src/subs.rs`, `src/feed/mod.rs`) | pinned and recent instruments, the published set, the stream's set, backoff | `pin`, `touch`, `publish`, `run_feed` | the newest set is streamed in the end, within the cap | `Subscriptions`, `LiveFeed` |
| Venue streams (`src/feed/upbit.rs`, `binance.rs`, `kis/ws.rs`) | a connection, a bounded channel | `stream` | prints come once and in order, a dead connection is noticed | `VenueStream` |
| KIS client and KRX feed (`src/feed/kis`) | tokens in memory and on disk, pacing, previous closes | `get`, `token`, `snapshot`, `prev_close` | no needless token; a book bears the close of its day unless that was asked for before 08:30 | `KisClient`, `KrxFeed` |
| Alerts (`src/alerts`, `create_alert` of `src/tools`) | armed alerts, cooldowns, histories of prints, the hourly window, digests, workers | `on_trade`, `on_fill`, `on_tick`, `handle`, `deliver`, `DropAccount` | a one-shot fires once, none is lost, the limit holds, what is listed is watched | `Alerts`, `Watcher` |
| Briefings (`src/alerts/briefing.rs`) | a schedule in memory | `tick`, the loop | openings once, cadences kept | `Briefings` |
| Bars (`src/candles.rs`) | the open bar of each instrument | `push`, `flush`, `save_bars`, `resample` | bars and candles are what the prints amount to | `Bars` |
| Caches of rates and filings (`src/fx.rs`, `src/fundamentals`) | a rate, reports, company codes, pages | `usd_krw`, `fundamentals`, `get` | what is cached is within its life and asked for once | `Lookups` |
| Reports (`valuation`, `pnl`, `performance`) | none | reads across awaits | profits, days and drawdown add up | `Reports` |
| Web login (`src/web/auth.rs`, handlers of `src/web/mod.rs`) | failures, sessions, secrets, recovery codes | `login`, `accept_totp`, `session`, `upgrade_session`, logout | a code is used once, racing requests do not outrun the limiter | `LoginLimiter`, `WebSessions` |
| Settings (`src/settings.rs`, `save_keys`) | a file per setting | `save_in`, `get_in` | a file is the whole of one value, and is loaded in the end | `Settings` |

How they interact. Feeds push events through one channel to `pump`, which calls
`on_book` and `on_trade` and then publishes the event on a broadcast bus.
Clients (the agent's tools and the dashboard) call `place`, `cancel` and
`convert`. All of these take the broker's mutex for the whole call, so calls are
serialised, but in any order: that order, together with timers, restarts and the
outside world, is the concurrency of the broker. It sends each change to
the journal's channel, still under the mutex; `persist` writes one entry at a time,
retries it, and republishes it on the bus to alerts and dashboards. On start,
`restore` reads accounts, replays ledgers and puts open orders back. Open exposure and
armed alerts pin instruments, which the feed runners stream. Everything
outside the broker is async: a handler is a chain of steps with awaits between them, and
others run in the gaps.

What is hard about it: an order lives in three places (order table, resting
list, reservation) that each of eight operations must change together; fees
change while reservations stand; `release_*` clamps at zero and so hides an amount
returned twice; one print or book fills many orders in a loop that changes what the
next order sees; the store lags behind memory and can lose or repeat a write; what a handler
read before an `await` may be stale after it; caches, schedules and cooldowns are in memory and
the process restarts. `PROJECT.json` lists these hazards with the line at which each bites and the
properties that are about them.

## Modules

| Module | Models | Kind |
|---|---|---|
| `Sums` | the sum of finitely many numbers, as a recursive function | operators |
| `Broker` | the broker with ledger, shadow book, fees and calendar | state machine |
| `Persist` | the journal's writer, the tables, resets across store and broker, starts, drains and crashes | state machine |
| `Subscriptions` | which set is published and streamed, by concurrent calls and the feed's task | state machine |
| `LiveFeed` | what a feed promises, in four actions | abstract specification |
| `Market`, `VenueStream`, `KisClient`, `KrxFeed`, `Bars`, `Lookups`, `Ticks` | how data reaches the broker and the tools | state machines |
| `Alerts`, `Watcher`, `Briefings` | what wakes an agent | state machines |
| `Accounts`, `Reports`, `Sessions`, `Lifecycle`, `Settings`, `LoginLimiter`, `WebSessions` | what the operator and the dashboard rely on | state machines |
| `MCBroker`, `MCPersist`, `MCSubscriptions` | the sizes, inputs and failures the runs draw from | instances |
| `MCMarketData`, `MCAlerting`, `MCOperation`, `MCProgress` | several components side by side | instances |
| `SumsProofs` | recursive functions exist; a sum changes by what one summand changes | proofs |
| `BrokerProofs` | what the operators of `Broker` return; its inductive invariant, action by action; what each step's journal entries say: cash, units, limits, priority, prints, displayed liquidity | proofs |
| `PersistProofs` | the same for `Persist`, and that what is stored is what the broker had, wherever the journal is cut | proofs |
| `SubscriptionsProofs`, `WebSessionsProofs` | the same for `Subscriptions` and `WebSessions` | proofs |
| `MarketDataProofs` | tokens, previous closes, streams, freshness, minute bars and lookups of `MCMarketData` | proofs |
| `AlertingProofs` | deliveries, session edges and briefings of `MCAlerting` | proofs |
| `OperationProofs` | settings, accounts and calendar of `MCOperation`, with `WebSessionsProofs` for its two instances | proofs |

### How `Broker` corresponds to the code

A variable is a field: `cash`, `reserved`, `qty`, `held` are `Portfolio` and
`Position`; `orders`, `nextId`, `generation` are `World`; `resting`, `left` and `ahead`
are the `Resting` records, the list order kept; `offset` and `depletion` are
`ShadowState`. `journal` is what the last step sent to the journal. An action is a
call: `Place` is `place_sync` with `prepare`, `take` and the journal entries it sends;
`Cancel`, `Convert`, `Reset`, `Restart` likewise.
A call that loops over resting orders is split at the loop's rounds: `OnBook`, `OnTrade`
and `Expire` start a loop, `BookStep`, `TradeStep` and `ExpireStep` are its rounds. The
variable `pass` holds the loop's local variables, and since the mutex is held, every
other action requires `pass = Idle`. Splitting changes nothing other calls can see; it lets a
round be stated, and checked, on its own, and lets the loop's rounds be compared.

Data is abstract where no property depends on it. Prices are ticks; quantities are
integers. Cash is counted in `1/FeeBase` of the unit a fee is truncated to, so that the
truncated fee and the untruncated reservation are both integers, as they are both exact
decimals in the code. The impact of an execution and the speed of decay
are floating-point formulas in the code; here they are any value
within `MaxImpact` and any halving or clearing. Time appears as what it changes: a book goes
stale, a session opens or closes, a fee schedule comes into force.

Bounds: `MaxOrders` and `MaxGeneration` cap ids and resets, `MaxPrice` the ticks,
`MaxOffset` and `MaxImpact` the shift of prices. Nothing else is bounded. Since
order ids run out in the model, and only there, the runs do not check deadlock.

A restart is a graceful one: `Restart` is `finish`, `serve` and `restore` with every
queued entry written and nothing traded while the journal drained. What a crash, a failing
store or a call during the drain does is the subject of `Persist`.

### How `Persist` corresponds to the code

The broker is reduced to what its journal entries carry: one instrument whose unit costs one
unit of the one currency, no fees, and a `Place` or `Fill` that executes any amount, which
covers whatever prices and books could make it execute. What matters here is where each copy of
an order is. `orders`, `cash`, `units` and `generation` are the broker's memory; `queue` is the
journal's channel, its head the entry `persist` is writing, `attempt` the failed attempts so far;
`store` holds the rows of `orders` and, in one sequence, the ledger that `load_portfolio`
replays; `current` is the generation column of `accounts`.

`Write`, `Refuse`, `LoseAck` and `Reject` are the outcomes of one attempt: committed, failed
before the commit, failed after it, refused by a constraint. `Retry` counts attempts and
gives an entry up after `ATTEMPTS`; leaving the queue stands for being republished on the bus.
`Failures` says which outcomes an instance has. A reset is two actions,
`ResetStore` and `ResetBroker`, because `App::reset_account` awaits between them; `resets` holds
the calls in between, any number at a time since nothing serialises them. `CloseJournal` is
the first step of `drain`; the process then goes on serving (`up = "draining"`) until `Drained`
or `DrainTimeout`, which stands for the 120 s of `drain` and ends the process whatever is left in the queue. `MCPersist` adds a history, `kept`:
what the broker held when the journal was closed, for as long as no other end of the process comes in between. `Crash` loses memory, queue and pending calls at any moment; `Start` is
`restore`, which a replay that panics prevents. `Spec` bounds order ids, resets of an account
and stops of the process, and no run checks deadlock because those run out.

### How the asynchronous components correspond to the code

In all of them a handler or task is a record with the step it is at and its local variables, and
an action is what the code does between two awaits, or under one lock. A request to somebody
else (the database, an exchange, Attacca) is a step that may be answered at any later moment; where
the code handles a failure, the answer may be one. Memory is lost in `Restart` or `Crash`
actions, rows and files are not.

- `Subscriptions`: `exposed`, `extra`, `pinned` and `recent` are the lists behind their locks, `calls` what each
  task is at (`refresh_pins`, `touch` and `publish` are taken apart where a lock is dropped), `published` and
  `unseen` the watch channel, `feed` and `backoff` the locals of `run_feed`.
- `Market`: `queue` is the channel to the pump, `book` the broker's copy, a caller goes through
  `ensure_fresh` (statistics, age, snapshot) and then quotes or places. `SECOND` ticks make a second, because
  ages are compared in whole seconds in one place and exactly in another.
- `VenueStream`: `wire` holds the frames under way, `sending` what a parsed frame still has to send to
  the bounded `channel`; odd frames, pings, silent deaths and auctions are inputs.
- `KisClient`: `slot` is the token in memory, `file` the one on disk, `holder` the mutex of the token,
  `calls` the steps of `get`; KIS looks at a token when the request reaches it (`sent` or `dead`). `KrxFeed`: `prev` is what `prev_close` remembers, the phases of a day are
  those the code tells apart (from 00:00, 08:30, 09:00 and 15:30), and `early` says of a value that it was asked for before 08:30.
- `Bars`: `bus` is the broadcast channel that drops its oldest entries, `bar` the open bar, `rows` the table.
- `Lookups`: callers of `usd_krw`, of `fundamentals` and of an EDGAR page, each with its cache and, for
  company codes, the mutex held while they are downloaded.
- `Ticks`: the tick table, `price_band` with its inward snapping, what `prepare` tells an order about
  its price, and `ShadowState::shift`.
- `Alerts`: rows, commands, events and the bus are queues in front of `alert_loop`; `armed`, `cool`,
  `sent`, `digest` are its memory; `workers` are the delivery tasks. `Watcher` says when a condition holds,
  with the columns a condition is stored in. `Briefings` is `Schedule` and its loop.
- `Accounts`: a request changes store, broker and cache in three steps; the snapshot loop reads
  generations, then each portfolio. `Reports` adds average costs and what is told of an account.
- `Sessions`: a week that goes round, time zones, holidays, DAY orders and a process that is down.
- `Lifecycle`: `serve` from the credential to the exit code and the enrolment with its task, its view and
  the restart it asks for. What a drain does with the journal is the subject of `Persist`; here it ends, in time (`restart`,
  `signal`) or, for a restart, by its time limit (`failed`), and a supervisor starts the process again in both cases.
- `Settings`: files are inodes, because the temporary name may be opened twice.
- `LoginLimiter`, `WebSessions`: handlers statement by statement (the password handler looks at the user's key only), with the second process that resets a user.

A definition whose comment begins with *Mutant* is used by nothing: it is the definition after it
with a mistake that a property must notice.

## What the runs check

Each property names a mistake a plausible edit could make; `PROJECT.json` gives
one such edit per property as a mutant, which the run must notice.

| Run | Instance | Question |
|---|---|---|
| `queue` | two accounts, one instrument, three orders, buys at two prices, sells, two books, three prints, impact and depletion | Do orders that compete for prints and books get what is theirs and no more? |
| `session` | two accounts, a venue with a session, DAY and IOC orders, price band, expiry, resets, restarts | Do order table, lists, reservations and journal stay in step when orders end in every possible way? |
| `transfer` | two currencies, cash budgets, conversions, a fee that rises while an order rests | Is money neither created nor overdrawn? |
| `day_orders` | a venue with a session beside one that never closes, with fairness | Does a DAY order of a closed venue always end? |
| `journal` | attempts that fail but never ten in a row, crashes, stops and drains that end in time or do not, at every point, a reset | Can the process be stopped or die anywhere and start again from a sound state, after a drain from the state it was stopped in? |
| `outages` | given-up entries and lost acknowledgements as well, with the time limit of the drain | What still holds when the database misbehaves or never answers? |
| `lost_answer` | one commit that is not acknowledged | Is a fill stored once? (no) |
| `streams` | two instruments that compete for a cap of one, a tool's call beside the timer's, drops and backoff, with fairness | Is the newest set streamed in the end, and do list and runner implement `LiveFeed`? |
| `market_data` | ten instances: a KIS client, a KRX feed, a stream, two markets, bars, rates, pages, filings, ticks | Is what reaches the broker and the tools in order, whole, and as fresh as it claims? |
| `alerting` | three instances in five parts: deliveries with faults, the same with resets, conditions on prints, conditions on fills and sessions, briefings | Is an agent woken by what it asked for, once and in time? |
| `operation` | eight instances: limiter, enrolment, expiry, settings, accounts, calendar, profits, reports | Do sessions, files, caches, calendar and reports keep their word? |
| `progress` | six instances with fairness: KIS calls, deliveries, a stream, process and enrolment, settings, DAY orders | Does everything that was begun end? |

The last four runs put components that share no state side by side: a variable `part`, chosen in the
initial states, says whose steps a behaviour consists of, and the others keep their initial values. The
states of a run are then the union of its components' states, not their product, and one property
can name what several components promise. Where components do share state they are in one
module (`Alerts` with resets and rows, `Persist` with broker, store and drain, `Lifecycle` with link and
dashboard, `Subscriptions` with the runner).

Of the broker and the journal:

- `NoOverdraft`: cash and units less reservations never go below zero, whatever
  fee is in force when a resting order fills.
- `ReservationsMatch`: reservations are exactly the sum over resting orders.
- `BookMatchesOrders`: open orders, and only those, rest, once, with the unfilled part.
- `PriceTimePriority`: a print fills an order only if nothing outranks it.
- `PrintShared`: the orders of a side together get at most what was traded.
- `LiquidityUsedOnce`: what is executed against a book disappears from the shadow book.
- `BookLeavesNoCross`: after a book is processed no resting order is crossed by it.
- `JournalTellsAll`: the entries of a step explain every change of cash, units and orders.
- `LimitsHonoured`: limits and cash budgets (with commission) are kept.
- `ConversionNeverGains`: a conversion does not gain at its own rate.
- `ClosedForGood`: a closed order stays closed and fills are not taken back.
- `RestartTransparent`: a graceful restart restores remainders, reservations and lists.
- `DayOrdersExpire` (liveness): a DAY order of a closed venue ends unless the venue reopens.
- `StoreCatchesUp`: replaying the store, once the queue is written out, gives memory back.
- `CrashSafe`: every prefix of the journal restores to orders that are covered.
- `RowsOnlyAdvance`: a stored order keeps its identity, loses no fills, never reopens, and its
  id is not given to another order.
- `NoFutureGeneration`: nothing is stored under a generation still to come.
- `DrainedIsRestored`: a process that was stopped and drained in time comes back with the cash, units and open orders it
  held when it was stopped, for every account not reset since; nothing of before is missing, nothing of the drain is there.
- `DrainEnds` (liveness): a drain ends, by its time limit if the database never answers, though orders go on meanwhile.

Of the feeds' sets:

- `NothingMissed`: a stream that runs on another set than the published one is about to be told.
- `StreamFollows` (liveness): once exposure, alerts and queries stop changing, what they call for is streamed,
  again and again however often the stream drops.
- `KeepsPromise`: `LiveFeed!Spec` under the mapping `published` to `published` and `streaming` to the runner's set;
  what is published names nothing twice and no more than the cap, a stream starts with the set of that
  moment, a stale one is closed, and a set is streamed in the end.

Of market data:

- `ReferencePrices`: a book of KIS's KRX feed bears the previous close of its own day, whatever call was under way over
  midnight, but for a value asked for before 08:30 and remembered after it (the finding `CloseIsOfItsDay`); from the open on
  every book of a snapshot has one, unless the snapshot began before 08:30.
- `PrintsKept`: prints of regular hours arrive once and in order, or were under way when a connection broke; stored
  bars are exactly their prints, through flushes, late prints, merges and failing saves.
- `BooksHardlyBack`: a book is replaced by an older one only by what waited in the channel, and never by the stream; no
  order is refused for stale data while requests are answered.
- `IssuedOnlyWhenNeeded`: no token is asked for while one would do, none is sent under another key's; company codes and
  pages are downloaded once per life, and cached rates, pages and reports are as new as their life says.
- `CandlesFaithful`: the candles read from stored bars are those of the prints that the loop got; an order is held to
  exactly the prices within 30 % of the close, also where the limits lie at a change of the tick, and what a refused
  order is told is the nearest valid price; the shadow book keeps its order and snaps to the nearest.

Of alerts:

- `FiringsKept`: a firing ends as a message, in a digest or as a logged failure, unless a crash took it;
  the hourly limit holds for messages and digests; an account's messages go out one at a time.
- `OnceIsOnce`: a one-shot whose firing was stored does not fire again, restarts included.
- `WatchesTheSame`: what is listed is watched once all is quiet, but for a one-shot held back for a digest; what a restart rebuilds from columns is what was
  stored; prints that are pruned would not have changed a firing.
- `OnTime`: openings are announced once and as news only; hourly briefings neither early nor late, through restarts.

Of operation:

- `AccessKept`: a full session needs a code, a code and a recovery code serve once, an enabled secret was proven, a session is not served
  past its limits.
- `NothingUndone`: a session that ended is not revived by a request that read it before; a recorded snapshot is not
  rewritten.
- `SavedWhole`, `CachesBehind`, `CalendarKept`: a settings file is the whole of one value wherever the process ends (one
  request at a time); cache and broker are never ahead of the store; `next_open` is the next opening, and while the process stays
  up a DAY order is not filled in a later session.
- `CountsAddUp`: failed logins of racing requests are counted and none is forgotten when the map is swept; realised profits, days and worth add up to cash and positions; drawdown is the largest there
  was; a valuation is of one moment of the request.

Of progress:

- `CallsEnd`: a delivery and a digest end whoever holds the locks they need; so does a call to KIS whose own
  requests KIS answers, as long as requests for tokens are answered too.
- `OutagesEnd`: a silent connection is noticed and the book catches up; a granted credential is stored and used; a
  closed link shows; saved settings are loaded; DAY orders end although the process was down.

`StoreCatchesUp`, `CrashSafe` and `DrainedIsRestored` hold in `journal` only because its `Failures` exclude given-up entries and
lost acknowledgements.

## Where the program differs from what is said of it

One disagreement is a run of its own: `lost_answer`. `save_fill` is an insert, and when its commit is not
acknowledged the retry stores the fill twice, although "each fill's ledger write [is] one DB transaction"
(`docs/superpowers/specs/2026-09-24-atrader-design.md:361`). The others are properties marked *(violated)* in their
modules, listed as findings in `PROJECT.json` with the sentence they contradict; TLC refutes each
within seconds. Nine have a configuration here, for the module that is named:

| Configuration | Module | Property | What happens |
|---|---|---|---|
| `Published.cfg` | `MCPersist` | `PublishedIsPersisted` | an entry that was given up is published all the same |
| `Replay.cfg` | `MCPersist` | `SellsArePositions` | an outage drops a buy, the sell behind it is stored, and replaying it panics at every start |
| `Draining.cfg` | `MCPersist` | `EveryChangeJournaled` | orders taken during the drain leave no trace |
| `ResetRace.cfg` | `MCPersist` | `GenerationGoesUp` | of two resets the later reaches the broker first and is overwritten |
| `StaleSet.cfg` | `MCSubscriptions` | `PinnedAlways` | the older of two sets is sent last, and an exposure is not streamed until the timer |
| `MixedEquity.cfg` | `Accounts` | `SnapshotsKeepGeneration` | a reset puts its cash into a row of the old generation |
| `HalfSaved.cfg` | `Settings` | `SavedIsLoaded` | names saved before one that fails wait for a restart of another cause |
| `Torn.cfg` | `Settings` | `Whole` | two requests share the temporary name and one renames what the other has emptied |
| `EarlySignal.cfg` | `Lifecycle` | `SignalDrains` | a SIGTERM before the link is up kills without a drain |

The rest, with the constants that show them (`CHECK_DEADLOCK FALSE`; what is not named is as small as its assumption
allows):

| Module | Property | Constants | What happens |
|---|---|---|---|
| `Alerts` | `OneShotsTurnOff` | `MaxActive 2`, `MaxFirings 2`, `PerHour 1`, one-shot and fill alert | a one-shot above the hourly limit stays active in the store |
| `Alerts` | `FailuresLogged` | the same, `Failures {"send"}` | a digest that cannot be sent is neither logged nor retried |
| `Alerts` | `AtMostMaxActive` | `MaxActive 1`, two alerts | concurrent calls exceed the limit |
| `Alerts` | `WatchedIsCurrent` | one alert on prints, `MaxGeneration 2` | an alert of a closed generation is watched |
| `Alerts` | `ListedIsWatched` | two accounts, one alert on prints, `MaxGeneration 2`, `MaxFirings 0` | where resets of two accounts overlap, an alert of the new generation is listed and not watched |
| `Alerts` | `FillsWakeTheirOwn` | one alert on fills, `MaxGeneration 2` | a fill of one generation wakes an alert of the other |
| `KisClient` | `OnlyDeadDropped` (`SafeSpec`) | two calls, `MaxTokens 2`, `MaxRevoked 1` | of two refused calls the second drops the new token |
| `KisClient` | `Paced` (`SafeSpec`) | two calls, `MinInterval 2`, `MaxTokens 1` | calls that waited for a token leave together |
| `KrxFeed` | `CloseIsOfItsDay`, `SessionHasLimits` | one snapshot, `MaxDay 3`, `Drops FALSE` | a late answer of before the rollover is kept for the day; a stream kept over night has no closes |
| `Accounts` | `CreatedIsListed` | two tasks, two accounts, `TicksPerDay 2`, `MaxNow 0`, `MaxGeneration 3`, `MayFail FALSE` | the older of two lists is cached last; a new account is unknown |
| `Accounts` | `DailyAfterCreation` | one task, `TicksPerDay 2`, `MaxNow 2`, `MaxGeneration 3`, `MayFail FALSE` | an account has a close of before it existed |
| `Market` | `QuoteHonest` | one quote, `SECOND 2`, `FRESH 0`, `STALE 1`, `RestFails TRUE`, `MaxNow 4` | between 5 and 6 seconds a quote is not marked stale and an order is refused |
| `Market` | `EnsuredFresh` | one quote, `FRESH 1`, `STALE 2`, `MaxNow 5`, `MaxVersion 3` | a slow snapshot replaces a newer book and counts as fresh |
| `Market` | `DownRefuses` | one order, `FRESH 1`, `STALE 2`, `MaxNow 2` | orders go on with REST snapshots although the stream is down |
| `Sessions` | `DayOnly` | the calendar of `MCOperation`, `MayStop TRUE` | after an outage over a close and an opening a DAY order is filled in the next session |
| `VenueStream` | `NoAuctionBooks` (`WithSnapshots`) | `Venue "kis"`, `Capacity 1`, `MaxWire 2` | a snapshot shows the book of an auction |
| `Lifecycle` | `GrantLinks` | one tab, `MaxCodes 2`, `MaxSaves 1` | a restart of another cause loses the grant |
| `Lifecycle` | `OneInProgress` | two tabs, `MaxCodes 2` | two codes at once |
| `Lifecycle` | `PendingIsShown` | one tab, `MaxCodes 2` | the task of a lapsed code overwrites the view of the next |

## Bounds

Two accounts are needed to confuse accounts; three orders are the fewest in which an order is skipped
between two others or two outrank a third; three ticks give a price between two others, an inside and an
outside of a limit; sizes 1 and 2 give partial and complete fills; two fee schedules
give a rise, and rates of one and two thirds leave a remainder to truncate on small notionals;
two generations give one reset. In `Persist` one account suffices, as accounts share nothing there
but ids; two orders are needed for an id to be confused with the next one and for a buy and a sell,
two stops for a crash after a crash, two attempts for a retry that succeeds and one
that does not, three generations for two resets under way. Two concurrent calls are the fewest that
race, and in `KisClient`, `Subscriptions`, `WebSessions`, `Market` and `Lookups` a third waits for, or overwrites,
what two already do; two instruments under a cap of one give one that is pushed out; two keys
give a token of the wrong one. A week of seven days with four slots holds a
weekend longer than `next_open` looks ahead, and a session that is in another day of UTC. In `Ticks` the closes are chosen so that
limits lie just below, at and above a change of the tick, and prices are tried on both sides of limits and bounds, a grain to several ticks away. In `Reports` three fills of two sizes suffice for a
rounded average that is sold in parts; in `Bars` seven minutes and three prints for a flush, a merge and a gap. In `alerting` the part with resets takes those of two accounts one
after the other (the finding `ListedIsWatched` is what happens otherwise), and has no restarts (`ResetRestarts 0`; with one, 1.2 million states, it holds too);
no store or send fails there: a one-shot that could not be marked as fired stays listed although its event may be stored.
Counters (`Max...`) bound time, versions, ids, restarts, faults and prints; since they run out in
the model, and only there, the runs do not check deadlock.

## Fairness

`Broker!FairSpec` asks that a loop under the mutex ends (`WF(Loop)`: the code
does not await inside it) and that `Expire` happens if it is due again and again
(`SF(Expire)`: `cli.rs` calls it every five seconds from a task of its own, and the mutex
is released between calls; weak fairness would not do, since each book or print that is being
processed disables it). In `Persist`, `WF(DrainTimeout)` says that the 120 s of `drain` pass, and `WF(Drained)` that
a process whose writer ended exits; of the database nothing is assumed, not even that an attempt returns. In `Subscriptions` every task takes its next step, `run_feed`'s
timers fire, and the five-second timer publishes; drops are not fair to anybody. In `KisClient` time
passes and calls step on where that is theirs to do: mutexes are granted in turn, a request is sent. That KIS answers is not
assumed, since the client has no time limit (`feed/kis/mod.rs:155`) and a request for a token that is never answered holds the
mutex of all calls for ever; `CallsEnd` therefore says that a call ends if requests for tokens are answered, with a token or an error,
and its own request for a price is: one of another call that is never answered blocks nobody. In `Alerts` the loop takes its inputs, its timers fire and
workers proceed, and a database or a push may fail again and again but answers. In `VenueStream` the loop reads,
pings, sends and times out; the venue may be silent for ever once it is connected, and that connecting ends is an assumption about
the network. In `Lifecycle` tasks proceed, a drain ends (as shown of `Persist`) and a supervisor
starts a process again that did not end on a signal; that the user answers, or that a code
is approved, is not assumed. In `Sessions` time passes, the timer runs and a stopped process is started again. `Settings`:
a request proceeds, and the restart that was asked for happens.

`progress` uses the weak form of these everywhere: `tokio`'s mutexes are fair queues, for which the components
ask strong fairness, and with `MaxStarts` calls and `MaxStops` stops the two agree. Nothing is
assumed of clients or of how often venues send.

## What is proved

`tlapm` checks, for every value of the constants that satisfies the module's assumptions:

- `NeverOverdrawn`: `Spec => []NoOverdraft`.
- `ReservationsExact`: `Spec => []ReservationsMatch`.
- `OrdersAndListsAgree`: `Spec => []BookMatchesOrders`.
- `ClosedOrdersStay`: `Spec => ClosedForGood`.
- `JournalComplete`: `Spec => JournalTellsAll`.
- `LimitsKept`: `Spec => LimitsHonoured`.
- `ConversionsNeverGain`: `Spec => ConversionNeverGains`.
- `PriorityKept`: `Spec => PriceTimePriority`.
- `PrintSharedOut`: `Spec => PrintShared`.
- `LiquidityTakenOnce`: `Spec => LiquidityUsedOnce`.
- `BookUncrosses`: `Spec => BookLeavesNoCross`.
- `RestartIsTransparent`: `Spec => RestartTransparent`.
- `TypeCorrect`: `Spec => []TypeOK`, with `Invariance`, `Spec => []IInv`.

and of `Persist`, with every kind of failure allowed and no bound on anything but the constants:

- `StoredOrdersAdvance`: `Spec => RowsOnlyAdvance`.
- `GenerationsStored`: `Spec => []NoFutureGeneration`.
- `TypeCorrect`: `Spec => []TypeOK`.

and under the assumption `Failures \subseteq {"refused"}`, that is, attempts may fail but no entry is given up
and no acknowledgement lost (with either the two are false, as `Replay.cfg` and `lost_answer` show of their like):

- `MemoryIsStored`: `Spec => []StoreCatchesUp`.
- `CrashIsSafe`: `Spec => []CrashSafe`.
- `DrainedComesBack`: `HSpec => DrainedIsRestored`, where `HSpec` is `Spec` with the history `kept`.

and of `Subscriptions`, for any instruments, cap, tasks and backoff:

- `FeedNeverMisses`: `Spec => []NothingMissed`.
- `ImplementsLiveFeed`: `SafeSpec => Promise!SafeSpec`, the safety part of the refinement.

of `WebSessions`, for any requests, limits, codes and enrolments:

- `AccessIsEarned`: `Spec => [](TypeOK /\ FullNeedsCode /\ CodesOnce /\ RecoveryOnce /\ EnabledIsProven /\ ServedIsLive)`.
- `EndedForGood`: `Spec => NeverRevived`. With `Invariance`, `Spec => []IInv`.

and of `MCOperation`, for any settings, savers, callers, accounts, venues, weeks and bounds, its two instances
of `WebSessions` with the sizes they have there:

- `SettingsStayWhole`: `Spec => []SavedWhole`.
- `CachesStayBehind`: `Spec => []CachesBehind`.
- `CalendarHolds`: `Spec => []CalendarKept`.
- `AccessIsKept`: `Spec => []AccessKept`.
- `NothingIsUndone`: `Spec => NothingUndone`.

and of `MCAlerting`, for any accounts, alerts, limits, faults, conditions, prints, venues and cadences:

- `FiringsAreKept`: `Spec => []FiringsKept`.
- `OnceStaysOnce`: `Spec => OnceIsOnce`.
- `ListedAlertsAreWatched`: `Spec => []WatchesTheSame`.
- `NewsOnTime`: `Spec => OnTime`.

and of `MCMarketData`, for any calls, keys, venues, capacities, lives, asks and bounds of the clocks:

- `ReferencesHold`: `Spec => []ReferencePrices`.
- `PrintsAreKept`: `Spec => []PrintsKept`.
- `NoNeedlessRequest`: `Spec => IssuedOnlyWhenNeeded`.
- `BooksGoForward`: `Spec => BooksHardlyBack`.

The assumptions are those the modules state, named. Of `MCMarketData`: a token is used only while it has some time left
(`0 < Margin`, ten minutes in the code), a quote is fresh no longer than an order may be (`FRESH <= STALE`, 2 s and 5 s), and the pump keeps
up, so that no book waits in the channel for longer than an order's may be old (`Lag <= STALE * SECOND`). Of `Broker`: sizes are naturals, steps and rates
have the types of `fees.toml` and the venue tables, commission plus taxes are at most the
notional, a conversion's spread is below 100 %.

The argument. `NoOverdraft` alone is not inductive: a fill takes up to
`limit * (1 + commission)` per unit from cash and releases the reservation of those
units, so available cash does not fall only if that much really was
reserved and `release` did not clamp. Hence `ReservationsMatch` joins the invariant: what
one order holds is a summand of what its account has reserved (`TotalBound`), so the
clamp is never reached, and changing one order's remainder changes the sum by just
that order's part (`TotalUpdate`). For `ReservationsMatch` to survive a cancel the remainder
must be that of a resting order (`OpenOrdersRest`); for it to survive a new order the id must hold
nothing yet (`UnusedIds`); for a round of a loop the visited order must exist (`PassOK`). The
conjunction of these with `TypeOK` is `IInv`. That a fill is covered is `FillIsCovered`:
the reservation uses the highest commission of the fee table
(`ReserveCommissionIsMax`), and truncation only makes a fee smaller.
`BookMatchesOrders` adds `RestOnce`, inductive over `IInv`: a new id rests nowhere yet, `Keep`
repeats nothing, and the orders in which a sort and a restart line up a list are
irreflexive. `ClosedOrdersStay` needs that what the expiry loop has collected is still open when its turn
comes (`ExpiresOpen`), since `close_order` does not look at the status again.
The second half of `BrokerProofs` is about what the entries of a step say. As far as the journal goes every step is one of
seven kinds (`Kinds`): no movement, a fill of a resting order, a close, a placed order, a conversion, a reset or a restart.
The fees of a fill are those its entry names, so cash and units move by what it tells; a conversion's truncated proceeds
are at most the amount at the rate. For the limits the invariant adds that only limit orders sized in units
rest (`OpenInUnits`), and a walk of the book keeps what it has paid within the limit, or the budget with
commission, level by level (`WalkMoney`).
Priority needs `PriorityOK`: what a print's loop has still to visit is in rank order, and an order it reaches and
has passed by left nothing of the print to its side. Taking a filled order out of its list keeps the others in order
(`KeepOrder`). `SharedOK` says that what a side has been given and what is left for it make at most the
print. For the liquidity, what a walk takes is the difference of what its levels show before and after (`UsedUp`), which the
facts on rising sums add up (`TotalRise`, `TotalRiseBackwards`).
That a book leaves no cross is said of its levels, not of a walk: `NothingToTake`, every level an order could trade at
shows nothing, means that a walk of any size is empty (`EmptyWalk`). `PassedUncrossed` says so of every open order the loop has passed
by. A visited order is one of them because a walk that stops short of its size has emptied each level within the limit (`ShortWalk`),
and the others remain so because a walk lowers levels and raises none (`LevelsUsedUp`).
It has one lemma per action, or per part
that several actions share: `MakerFillKeeps` for a fill of a
resting order, `CloseOrderKeeps` for cancel and expiry, `BooksKept` for steps that only
move the market.

The definition of a sum is recursive, and the library's induction theorems take an
operator parameter, which the provers cannot instantiate; `SumsProofs` therefore shows directly,
by a least counterexample, that the recursive functions used here exist, and
derives the facts about sums from that.

For `StoredOrdersAdvance` the invariant follows an order on its way to disk. Its row, then its
entries in the queue in their order, then its state in memory form one chain in which each may
only advance to the next (`VersionsAdvance`, `OpenMayAdvance`); while it is open in memory the whole
chain is open and of the generation the broker holds, so a new entry, or a reset, extends or
ends the chain. The writer only moves along it: dropping, repeating or
losing entries shortens the chain at its ends or skips a link. `IdsUnused` says
that ids from `nextId` on occur nowhere, also after a crash has lost the queue
(`NextIdFacts`), so a chain is about one order only. `GenerationsKnown` bounds every generation in
memory, queue, pending resets and tables by the store's own, which only grows. What replaying
returns is typed by an induction like that of `SumsProofs` (`LoadPortfolioType`).

For `MemoryIsStored` and `CrashIsSafe` the invariant `Durable` looks at every prefix of the queue written out
(`Written`). Each of these tables is `Sound`: no row is filled beyond its size, and in every generation, also
those that were reset, replaying the ledger leaves at least what the open rows may still need. The last of them `Agrees` with
memory: balances, open orders with their fills, and ids from `nextId` on unused. A call appends one or two
entries, so one or two tables come behind the last (`OneEntry`, `TwoEntries`), and for these the broker's check of
what is available is turned into the sum over rows (`PromisedIsDue`, `DueOneRow`); the order's entry alone already releases
what its fill will pay, which is why a cut between the two is harmless (`ExecutionDurable`). A turn of the writer
drops the first table (`WrittenTail`), a crash all but the first, whose soundness is `CrashSafe`. A reset changes no entry:
`Agrees` also says that nothing is stored or queued of a generation still to come (`Ahead`), so the new one starts from the
deposit (`LoadUntouched`).

`DrainedComesBack` rests on the same invariant. When the journal is closed, the queue holds all that separates the tables from memory
(`CloseKeepsMemory`, from `Agrees`), and from then on nothing is appended, so what is kept in the history stays what the tables
with the rest of the queue written out give back, whatever the process does meanwhile (`KeptStored`). `Drained` needs an empty queue, after which the tables alone
give it back; a reset moves the account to another generation and changes none of the old one. `Start` replays those tables (`StartRestores`).

For `FeedNeverMisses` and `ImplementsLiveFeed` the invariant has three parts. `ListsInv`: whatever `select` returns
names nothing twice and no more than the cap, since it pushes an instrument only if it is not there and
there is room (`Pushed` is a recursive function, and the fact is an induction over its length by `UpTo`).
`CallsInv`: what a publishing task carries to its send is such a list. `FeedInv`: the runner's set differs from the
published one only while the change is unseen. A step of a task changes what is published, or nothing; a step of
the runner opens or closes a stream, or nothing of it: each maps to an action of `LiveFeed` or to a stutter.

In `WebSessions` what could break a claim about sessions is a request that acts on a row it read some steps ago. The invariant
therefore speaks of requests as well as of rows: who is past the second factor has shown a code at that step (`Sound`), a request about
to switch the factor on has proven the secret it read (`AboutToSwitch`), the last accepted code step is the newest (`Newest`), and
codes of recovery are of sets that were made (`OfSets`). `EndedForGood` follows, as only a new id is ever added to the sessions.

`SavedWhole` is about inodes, because a name keeps its old inode while a request fills another one. A request
that writes has the temporary inode of its name in hand, which is empty until it is whole (`InHand`); that inode
is in no other place (`OwnNodes`), since no two requests have a name at once (`Planned`) and a new one is taken
from those nobody uses, of which a count shows that one is left (`FreshInode`). A rename then puts a whole value in place of a
whole value, and an exit at any point leaves temporary inodes nobody names (`Stored`).

`CachesBehind` needs that a value on its way to broker or cache is in the store already (`Foretold`), however long the request
that carries it waited, and that generations in the store only grow. The hourly loop saves under the
generations it read when it began; it visits only accounts that had one (`Surveyed`). That a row is not rewritten (`NothingUndone`) follows because a save writes the
row of its own time or none.

For the calendar, instants are numbered days and slots; `DayOfSlot` and `SlotOfDay` say that day and slot
of an instant are unique. `BeginsAtOpenings` shows that `in_session` starts only where an opening is, and `NextOpenBegins` that
`next_open` returns the least of them, by the least element of the openings ahead (`LeastAfter`). A DAY order is then
followed from its placing to its expiry (`CalendarInv`): if its session is over, the timer is due before any later session can begin.

`AccessKept` and `NothingUndone` join these: a behaviour of the suite is one of each of its parts, the other parts being at rest
(`EnrolmentProved`, `ExpiryProved`, `SavedStep`, `BooksStep`, `CalendarStep`).

The alert loop's invariant says of each firing where it is (`Placed`): in the batch, held back, with a worker, told, recorded or
lost, and in no two of the first three (`Apart`), so that taking it from one place and putting it into another loses and doubles
nothing; who sends a firing has recorded it (`StagesOK`), which is why only what a crash
finds unrecorded is lost (`Accounted`). For the hourly
limit, what the limiter remembers of the last hour is exactly what went to workers in that hour, but for a digest that was
admitted and is not on its way yet (`Tallied`); the two age alike although only one is pruned at every step (`YoungOlder`). A one-shot is
disarmed when it fires. What could arm it again is an `Upsert` still queued: hence an alert whose creation is still under way, or whose
`Upsert` is, has not fired (`Created`), and one whose firing is being stored, or was, is not armed (`Spent`), also by a restart, which
arms the active rows only. That a listed alert is watched follows from what the queue of commands will do: it is still being created, or
it is armed and nothing queued takes it out, or its `Upsert` is queued and nothing behind that does, or it is a one-shot that fired
without a record (`Listed`); a `DropAccount` finds only rows of older generations than the one it begins, as no call has seen that
one before it is cached (`Generations`). This is where one reset at a time is needed. Of the prints kept, those of the longest window are all that
were ever seen of it (`Kept`), since pruning drops from the front only what is outside; a shorter window of the one is the same window
of the other (`WindowTwice`), so conditions on moves and volumes cannot tell them apart. For the news, a schedule or watcher that sees another session than it remembers has not looked since it
changed (`TickInv`, `Told`); an opening in the queue is one the schedule saw and nobody told (`Unsent`); and the age of
an account's entry lies between the time it waits and the time since something was due (`Entries`), so it comes neither late nor early.

The market data's invariant has one part per component; a step of one leaves the others' variables alone
(`StepsOfOne`). In the KIS client, who asks for a token holds the mutex and has found neither memory nor file of use
(`AskedForNeed`), which others cannot change while it waits, and a request on its way has a token that outlives it
(`UnderOwnToken`), so none is ever refused. For the books, `QuoteAges` bounds the age of everything in the channel and
says that what is about to be stored was received in this instant; no needless refusal follows since a book that was
good enough when `ensure_fresh` returned is replaced only by one that is (`OrderAges`). For a stream, prints form one line from the wire over the
parsed frame and the channel to the broker: each place is in order, everything in one is before everything in the place behind it (`Apart`),
nothing on the way precedes what has arrived (`Upstream`), and what was printed is in one of these places or lost
(`NoneDropped`). For bars, a merge of two bars is the bar of both lists of prints (`Joined`): its high and low are those of the
union, its volume the sum. For reports, what a call has still to ask for is what it neither found nor knows to be missing (`Asking`), so that
its answer is the newest there is although companies file meanwhile (`Sound`).

Only model-checked: `CandlesFaithful` (resampling folds and sorts the table, and no fact about either can be cited
or, taking an operator as they do, be proved by induction), `CountsAddUp` (its sums are folds over sequences and its
limiter filters one), and everything temporal beyond
invariants and steps (liveness, the fairness of `LiveFeed` and `ENABLED` are out of the prover's reach).

## Limits of the models

- `VenueStream` assumes that a venue sends each print once per stream and numbers its books; `Lifecycle` that connecting is
  answered by what the credential is worth.
- In the broker the size of an impact and the speed of decay are any value within bounds, in place of floating-point formulas.
- `Sessions` restores an order with its status only; what a restart rebuilds of amounts is in `Broker` and `Persist`.
- `Accounts` trades nothing: a portfolio is the generation whose cash it holds.
- A crash is modelled where the code handles or survives one (`Persist`, `Alerts`, `Settings`, `Accounts`, `Briefings`, `Lifecycle`).

## Not modelled

- Parsing and formatting: frames, REST answers, master files, tool arguments, text of messages and
  briefings, XBRL and DART documents. What they deliver is the input of the models.
- Indicators, volatility, Sharpe ratio, order book statistics and screens: floating-point formulas over one
  fixed list, for which unit tests fit better.
- The numbers of the tables: Upbit's ticks, fees, holidays. `Ticks` is checked on the lower half of KRX's table,
  where limits and bounds meet in the same ways.
- Password hashing, cookies, request routing, the audit log, and the listings and search of dashboard and tools: they keep
  no state that another step depends on.
- The React dashboard: presentation.

## What is left

An abstract trading desk that `Broker` refines; an induction over lists that carries `CountsAddUp` and
`CandlesFaithful` to every value of the constants.
