# TLA+ models of sol-arb

sol-arb watches Solana DEX pools over gRPC, keeps their state in a cache, looks for
pairs of pools with different prices, and sends arbitrage transactions to an on-chain
program.  This directory holds TLA+ modules of the parts where tasks meet or where two
programs must agree, the TLC configurations that check them, and TLAPS proofs.

## 1. The system

| Component | State | Operations | Talks to |
|---|---|---|---|
| `PoolStateCache` (`pool/cache.rs`) | pools; indexes vault → pool, array → pool, mint → pools; two reload queues | `insert`, `update_math`, `update_vault_balance`, `update_tick_array`, `update_bin_array`, `replace_*`, `register_tick_array` | sends a `PoolUpdate` per change on a bounded channel (`try_send`: dropped when full); wakes the tick reloader |
| `PoolStreamer` (`pool/streamer.rs`) | pending discoveries, pending subscriptions, pending vaults, dirty DLMM pools, latest blockhash and slot | `on_event` (discovery, pool account, vault account, array account, block metadata), `register_pool_lightweight`, four `flush_*` | the cache; RPC; three `Notify`s |
| Pipeline (`examples/full_pipeline.rs`) | — | one tokio task per event; loops: subscription updater, vault fetcher, tick reloader, DLMM refresher | all of them |
| Subscription updater (same file) | addresses collected so far | wait, drain for two seconds, one `update_subscription` | pending subscriptions, `YellowstoneGrpc` |
| `YellowstoneGrpc` (`streaming/yellowstone_grpc.rs`) | active flag, control channel, current request, event type filter, handle of the stream's task | subscribe, update, stop, stream loop | gRPC server, event parser |
| Event parser (`streaming/event_parser`) | — | a transaction, an account or a block → events: dispatch by program, nine instruction parsers, logs merged in, swap data from transfers, balances | event callback, `GlobalState` |
| Bootstrap (`pool/bootstrap.rs`) | — | downloads all pools and registers them; fetches vault balances, then bin arrays; sends what has data again | streamer, RPC; the pipeline arms the scanner after it |
| Decoders, quotes (`pool/decoder`, `pool/state.rs`) | — | bytes → pool state; `get_amount_out`; limits | — |
| `ArbScanner` (`engine/src/arb_scanner.rs`) | ready flag, recent pairs | per update: compare with pools of the same token, emit an opportunity | cache; opportunity channel (`try_send`) |
| `Executor` (`executor/src/executor.rs`) | newest slot seen, blockhash copy, last send | staleness, build, size, rate limit, send; a refresher task: sleep, copy the stream's blockhash or call for one | `TxBuilder`, senders, RPC |
| `TxBuilder` (`executor/src/tx_builder.rs`) | configuration | opportunity → instruction bytes, account list, instruction list | the on-chain program, by layout only |
| Program (`program/src`) | — | parse, cut the account list per hop, CPI, profit check | DEX programs |
| Older engine (`scanner.rs`, `graph.rs`, `route.rs`, `optimizer.rs`) | token graph, route table, recent emissions | incremental and full scans, optimization of a route's input | not run by the pipeline; reads pool updates, offers opportunities |
| `GlobalState` (`event_parser/core/global_state.rs`) | developer addresses per signature | add, query, cleanup of a full table | parser |

What is hard about it, and what makes it correct:

* **Check, await, act.**  A pool account handler looks a pool up, awaits up to four RPC
  calls and inserts.  Another handler of the same pool can do so in between.  What is
  already known about a pool must not be lost.
* **Several maps, no transaction.**  `insert` writes four maps in turn.  Who finds a pool
  must find it by vault and mint, and streamed arrays must find their pool.
* **Derived data.**  CLMM limits cache a function of four fields that different events
  change.
* **Wake-ups.**  `notify_one` keeps a permit, `notify_waiters` does not.  No loop may
  sleep over work.
* **Partial failure.**  Batches are cut into calls of 50, each of which can fail.
* **Order.**  The engine's last message about a pool must be the pool's state.
* **Updates as hints.**  The scanner drops updates: those before it is armed, those of
  pools not yet in the cache, those drained into a batch it only reads the graph from.
  What it drops must be made up for by something that comes later.
* **Ageing.**  An opportunity, a blockhash and a remembered pair are each read at one
  time and used at another.
* **Integer walks.**  Five pool kinds are quoted by five algorithms with different
  rounding; a quote must never exceed what the pool can pay.
* **Requests that travel.**  The client keeps the request it believes the server has;
  it goes through a channel and a task, while others subscribe and stop.
* **Meaning by position.**  An event is put together from an instruction, the first later
  log that decodes and the transfers that follow; accounts are taken by number.
* **Two programs, one layout.**  Client and program agree on bytes and on account counts
  only by equal numbers in two crates.

`PROJECT.json` lists the components, and the hazards at their lines.

## 2. Modules

| Module | Models | Notes |
|---|---|---|
| `PoolCache` | `PoolStateCache` | constants, cache variables and operations; no behaviour of its own |
| `PoolStreamer` | event handlers, vault fetcher, tick reloader, DLMM refresher | extends `PoolCache`; specification, fairness, properties |
| `MCStreamer` | instances of `PoolStreamer` | feeds of events, pool kinds, chain contents |
| `SubscriptionPromise` | what the subscription updater owes its clients | abstract: asked for, never dropped |
| `SubscriptionUpdater` | the updater loop and the registrations | implements `SubscriptionPromise` |
| `MCSubscription` | three registrations sharing vaults | |
| `GrpcClient` | `YellowstoneGrpc`: subscribe, stop, update, the stream's task | |
| `EventLayout` | what each instruction parser insists on and reads | pure operators, one per parser |
| `EventLogs` | the log decoders and which log completes which event | pure operators |
| `EventParser` | `EventParser`, `AccountEventParser`, `GlobalState` | extends the two |
| `ChainTx` | the transactions programs can make: interfaces, transfers, logs | external |
| `EventStream` | updater, client, stream and parser together | extends all of these; `MCEvents` |
| `ArbTransaction` | `TxBuilder` and the on-chain program, for one opportunity | |
| `MCTransaction` | pool layouts, profits, outcomes | |
| `TickMath` | array and bin indices of a tick, the covered test | used by the engine modules |
| `SwapAccounts` | `build_pool_accounts`: which arrays a swap is given | |
| `Quotes` | `get_amount_out` of the five pool kinds, CLMM limits | pure operators |
| `Optimizer` | profit of a route, closed forms, ternary search | extends `Quotes` |
| `TokenGraph`, `RouteTable` | `graph.rs`, `route.rs` | `RouteTable` also defines a route without a search (`Cycles`) |
| `EngineScanner` | the older engine's task, its channels and timers | extends `RouteTable`; `MCEngine` |
| `Channels` | the cache as the scanner sees it and both bounded channels | shared variables |
| `ArbScanner` | the pipeline's scanner | extends `Channels`, `Quotes`, `SwapAccounts` |
| `ArbStream` | the stream as the scanner meets it: accounts, balances, handlers that insert late | extends `ArbScanner` |
| `Bootstrap` | `bootstrap.rs`, four phases, and the arming after them | extends `ArbScanner` |
| `Executor` | the executor loop, the blockhash refresher's task, rate limit, `send_all` | extends `Channels` |
| `Startup` | bootstrap, stream and scanner together | `MCStartup` |
| `ArbPipeline` | stream, scanner and executor together | `MCArbitrage` |
| `PoolStreamer_proofs`, `Subscription_proofs`, `ArbStream_proofs`, `ArbPipeline_proofs`, `Startup_proofs`, `ArbTransaction_proofs`, `EngineScanner_proofs`, `EventStream_proofs` | theorems, each about the module of its name (`Subscription`: the updater and the client; `ArbStream` also has those about `TickMath`) | section 5 |

### PoolCache and PoolStreamer

A handler is a record with a program counter, its event and the state it has decoded.
One action is the code between two awaits, or between two writes another thread can
observe: `insert` is `InsVaults`, `InsEmit`, `InsMints`, `InsPool`; the test of
`update_math`, its merge, its reload request, the store and the emission are one action
because they happen under one DashMap entry.  A `try_lock` is a choice: it can fail
exactly when another task is in a step that holds the lock.

Data are versions.  A reserve, a price or an array content is the slot it was read at; 0
is zero or absent.  RPC answers are of any slot up to now, since the node may lag behind
the stream; a failed call is one of up to `MaxFail`.  Limits are represented by the
arguments they were computed from, so a stale limit is one whose arguments are no longer
those of the pool.  An array decoded with another tick spacing is `Garbled`.

Abstractions: every pool has both vaults; the queues that are vectors in the code are
sets (a vault queued twice is fetched twice in the code, to the same effect); a
registration makes one fee call at most and its array calls are one step, which ends before
the pool is inserted; `notify_waiters` for the subscription updater is left to
`SubscriptionUpdater`.  `replace_bin_arrays`, which is called through
`flush_bin_array_reloads` only and that by nothing, is not modelled, so a request in
`binQ` stays there, as it does in the code.  `re_emit_pool` is called by the bootstrap and
modelled there (`Reemit`).

A reload takes a request (`ReloadTake`), goes over its window from the lowest array up, each
registered and then awaited (`ReloadArray`), and replaces the pool's arrays by those that
came, if any (`Reload`).  Stream events and handlers run between these steps.

### SubscriptionUpdater

The loop of `full_pipeline.rs`, one action per await.  `woken` says that the pending
`Notified` future is complete; `notify_waiters` sets it only while one exists (`Waiting`).
`timeout_at` polls the notification before the deadline, so `Deadline` needs `~woken`.

### GrpcClient, EventLayout, EventLogs, EventParser, EventStream

The client's steps are what lies between two lock acquisitions or awaits.  `call` is where
the main task is in subscribe or stop, `update` where the updater is in
`update_subscription`, each with its locals.  A request is whether it asks for
transactions, its account list and whether it asks for blocks, because those are what an
update keeps or replaces; `live` is what the server last took, per stream.  In
`EventStream` the updater's `Send` and `SendFails` of `SubscriptionUpdater` become the
last steps of a call of the client, so that a failure has its cause.

The parser handles a message in one poll, so one action does: it computes the events, runs
`process_event` over them in order and hands them to the callback.  A transaction is a
sequence of instructions with the list each caused.  An instruction is what it is, the
length of its data and the number of its accounts, which is all a parser tests; an account
is its program and position, an amount the call that moved it and the side.  `EventLayout`
has for each parser what it requires, how far it reads past that (a panic when the call is
shorter) and which accounts it takes for the sides of a swap.  `ChainTx` says
independently, from the interfaces, which calls exist and between which accounts
a swap moves tokens (`OnChain` gathers what that comes to for one transaction): the properties
compare the two.  The cleanup of `GlobalState` may
remove any batch, since a map has no order, and may fail (`compare_exchange_weak`).

### ArbTransaction

One opportunity, step by step: its hops (`AddHop`), `Build`, `Parse`, one `SwapHop` per
DEX call, `Finish`.  The account list is a sequence of labels `<<hop, index>>`, so that a
slice the program cuts can be compared with the accounts the client built for that hop.
Instruction bytes are numbers, those of amount and profit are opaque tokens.  The result
of a DEX call is a choice of `Outcomes`.  Token balances are not computed.

### TickMath, SwapAccounts, Quotes, Optimizer

Translations of the arithmetic.  Division is Rust's truncating division where the code
has signed operands.  The fixed point, fee denominators and array sizes are constants, so
that TLC works with small numbers and the rounding of every step stays that of the code.
CLMM and bonding-curve quotes use f64 in the code; the model rounds down at each range,
which is what the final cast does.  A pool's ticks are a set of arrays of ticks; the walk
is a recursive function over the ranges.

### EngineScanner

One action handles an update, or drains the channel, or makes a full scan: nothing else
runs while it does, because the task has no await between.  Probing, ranking, optimizing
and emitting are operators; the order of routes with equal profit is a choice.  The
closed forms yield a guess out of `Guesses`, because what matters is that the answer is
tested against the search and capped; the search is the code's.  Dead pools and
maintenance are what `full_scan` does with them: counts for the log, so nothing.

### ArbScanner, Executor, Startup, ArbPipeline

The scanner's `task` is its place in the code: the batch drained from the channel, the
pool that triggered, the copy of it and the partners still to be compared.  The partner
is read at its own comparison, so stream and bootstrap can change it in between.
`run` has no await inside a batch, but stream events run on other threads.
Prices and profits are those of `Quotes`.  `recent` maps a pair to its age.

The executor's blockhash is its age in seconds (`hashLag`), the transaction carries the
age it has (`tx.lag`), that of the moment it was built included.  The refresher is a task of
its own: it sleeps (`refresh`), then copies the stream's blockhash (`RefreshCopies`) or, when
there is none or it is locked, awaits a call (`RefreshAsks`), which ends some time later
with a blockhash or without (`RefreshAnswered`).  While it awaits, time passes, the hash ages
and the executor signs and sends.  `Due` holds time only for a timer that has expired and
whose task can go on at once: the refresher's sleep and the rate limit; a second is long for
them.  How long the client lets a call run is not the code's to say, so the model has no
bound on it but `MaxCallSecs`, which keeps the instance finite, and counts the time
(`waited`).

In `ArbStream` an account or a vault's balance of a known pool is one step.  The account of a
pool that is not in the cache gives rise to a handler, which sends its update and shows its
pool whenever it gets there, with what its event and its calls made of it: a
constant-product pool comes without balances, a DLMM pool perhaps without arrays, and it is
written over whatever the bootstrap or another handler has put there meanwhile
(streamer.rs:262 to 392).  How handlers come about and what else they do is `PoolStreamer`'s
subject; `Feeds` lists the events and TLC interleaves.

In the bootstrap one action is one pool, or one vault of a pool, of a batch; a call that
fails leaves out what it was to bring.  A pool's two vaults may be in two calls, so one of
them can fail alone.  What a late insert of a handler takes back is recorded (`undone`).

## 3. Runs

Deadlock checking is off where a feed is finite and all tasks may come to rest; in
`Engine` and `Arbitrage` time passes for ever.

| Run | Instance | What it shows |
|---|---|---|
| `StreamerCp` | 1 constant-product pool, 2 handlers, 3 events (account, bootstrap, vault), 2 slots, channel of 2, 1 failure | types; indexes written before the pool; no vault forgotten; no lost wake-up; the engine's last update agrees with the cache unless dropped; nothing forgotten on a second decode |
| `StreamerLive` | a constant-product and a DLMM pool with 3 bin arrays fetched 2 at a time, discovery with and without mints, block metadata, fair | vaults queued for subscription before the pool is visible; every queued vault answered; a dirty pool is taken and never slept over |
| `StreamerClmm` | 1 CLMM pool, 3 arrays of which one is not on chain when it is asked for, windows of two, moving tick, stream updates of the missing array, 2 slots | limits never stale, every array held is indexed, no reload request slept over |
| `Subscription` | 2 registrations, 3 addresses, 2 failed updates, 2 subscribe calls, 2 streams, 2 filters; every call of the interfaces alone, every pair of swaps in a router, a router that makes transfers of its own between its calls, launches, account updates; fair | nothing lost, settled sleep, the promise, the window served; the server has the client's current request; events in order, each with its own log and transfers, from the right accounts; developers marked |
| `Transaction` | 7 layouts, routes of 2–4 hops, all variants, profit that fits the field and one that does not | bytes, slices, input accounts, profit limit, flash loan index |
| `Engine` | 6 pools of five kinds, routes of 2–3 hops, 5 streams of updates, warm-up, channel of 1, fair | the table holds exactly routes that exist, each once and indexed by each of its pools; a pool that comes or revives gets its routes, if the search stays below its cap, and no route is lost; offers are what their pools yield; quotes keep within a pool's holdings and grow with the input; the search is as good as sampling; a route that stays profitable is offered |
| `Startup` | 3 pools of one token on three DEXes, bootstrap of two of them (CPMM and DLMM), 3 feeds in each of which a handler meets a pool without balances or arrays and the stream changes it, channel of 3, 1 failed call | once the scanner is armed nothing priced goes uncompared but what the code knowingly drops; the bootstrap leaves its pools complete, but for what a late insert emptied |
| `Arbitrage` | the same pools, 3 feeds of four to six events, channels of 2, stale opportunities, calls for a blockhash of up to 2 seconds and 1 that fails, test mode on and off, fair | a pair is not offered twice within its interval; direction; age of the blockhash; everything is handled in the end |

`StreamerLive` has a `CONSTRAINT`, `OnePool`: a behaviour has events of one of the two
pools only.  It is two instances in one run; which of them a behaviour takes is settled by
its first event, and nothing of that pool's is cut short.

`Subscription` has a `CONSTRAINT`, `Apart`, and the parser a guard `Quiet`: messages are
parsed before the registrations come, and what `GlobalState` remembers meets launches only.
Parsing shares nothing with the updater or the client but the filter and the request of
its stream, and nothing but the signatures with an earlier message.

`StreamerCp` and `StreamerClmm` use symmetry on the handlers (interchangeable, and no
temporal liveness is checked there); the fair runs do not.

Four runs refute what a comment or the README says:

| Run | Statement | What happens |
|---|---|---|
| `StreamerReregister` | streamer.rs:260 "If already registered, just update math." | two handlers pass the test, the second insert zeroes a reserve that had arrived |
| `StreamerBlocks` | streamer.rs:54 "Slot of the latest blockhash" | two block handlers overlap; hash of one, slot of the other, for good |
| `SubscriptionLostWake` | README.md:43, new vaults join the subscription at once | `notify_waiters` while the updater is between final drain and wait is lost |
| `TransactionDlmm` | tx_builder.rs:525 "Must match the exact account ordering ..." | four bin arrays built, three counted, later slices shifted |

Other places where code and comment part were met while modelling; the passing properties
exclude them by an explicit condition, or the hazard's note says so:

* a failed vault batch is queued again but nobody is woken (streamer.rs:985): hence
  `fails > 0` in `VaultsAnswered` and `FetcherNotStranded`;
* a profit limit of 2^32 lamports or more wraps (tx_builder.rs:445): hence `limit < U32`
  in `LandedProfit`;
* the Jito flash loan index counts one compute budget instruction, the list has two
  (tx_builder.rs:1060 and 238): hence `variant # "jito"` in `FlashloanCloses`;
* PumpFun and Bonk hops read one account whatever the direction (swap.rs:99 and 102):
  hence `OneWay` in `AmountFromInput`;
* a stop that overlaps an update lets the update write its request after stop has cleared
  it (yellowstone_grpc.rs:342): hence `~torn` in `RequestApplied`;
* after a failed connect, or when a stream ends, `active_subscription` stays set, so that
  subscribe is refused until someone calls stop, and nothing in the pipeline does
  (yellowstone_grpc.rs:149, 262);
* a swap one of whose transfers is a `TransferCheckedWithFee` gets no amount from it
  (types.rs:683): hence `Whole` in `OwnParts` and `ReadsRight`;
* the cleanup that `add_dev_address` begins with can remove the signature it is adding to,
  between the two addresses of a creation: hence `DevMarked` speaks of the creator;
* a handler that met a pool before the bootstrap registered it inserts it without balances or
  arrays after the bootstrap has fetched them (streamer.rs:390), the race of
  `StreamerReregister`: hence `undone` in `ArmedComplete`.  The handler queues the vaults
  again afterwards; nothing fetches a DLMM pool's arrays again until one of its vaults
  changes;
* "always fresh from background task" (executor.rs:203): a call that takes long, or fails,
  lets the blockhash age without a bound: hence `waited` and `misses` in `HashFresh`;
* a pool whose bin array addresses are split over two calls ends up with the arrays of the
  second; bin array reload requests are never processed; a changed DLMM pool is not marked
  when the set is locked; an Orca array decoded before its pool uses spacing 1.

### Bounds

Streamer runs: two handlers are enough for every race of two events on one pool; a third handler adds
only races of the same pairs.  Three events let a registration, a competing registration
or discovery, and an update of the result meet.  Two slots tell old data from new.
A channel of 2 (1 in the others) fills; chunks of 1 or 2 split a batch.  One failure
reaches every error path; `Subscription` has two, so that an update fails again after a
failure; two subscribe calls and two streams let a refused call, a failed connect, a stop
and a second subscription meet an update.  The signature table holds two and is cleaned by
one (1000 and 100 in the code), so that it overflows within three launches.  A router makes
two calls, the least that can take each other's parts.  `Transaction` reaches the full four hops of the code and needs no more.
`U32 = 16` scales the width of the profit field: 80% of 20 does not fit.  The pool set has
one pool (two in `StreamerLive`): pools interact only through the reload locks and the
chunks of a batch.

`Engine`: a market of six pools has two-hop routes between every pair of the token's
pools and three-hop routes over another token; streams of four updates let a pool come
while another is drained, come to life, and become dear.  Prices are fractions of 16 and
reserves some thousands: every rounding step has a remainder.  `Arbitrage` and `Startup`:
three pools are the least for which one comparison changes what a later one of the same
update sees; three changes let a pool change before, between and after two comparisons.
Intervals of one and two seconds keep their order (refresh longer than rate limit, kept
longer than suppressed).  Calls for a blockhash may take as long as the sleep before them,
alone or a failed one and the next together, so that the bound of `HashFresh` is met with
each of its terms.

### Fairness

`FairSpec` of `PoolStreamer` has weak fairness for every handler and for each loop.
These are tokio tasks: one that can run is polled again, and an RPC call returns or fails
(the client has a timeout).
Delivery of events, `Advance` and the engine's receive are not fair.  In
`SubscriptionUpdater` the loop (the deadline is a timer) and each registration are fair, and
in `EventStream` the loop with the calls it makes; subscribe, stop, the stream and the
server are not.  In `EngineScanner` and `ArbPipeline` a task that has something to do does it
(`Handling`, `Scanning`: written as `[]<>` of what the weak fairness of a deterministic
step means, which TLC evaluates faster than `WF_` of a step that computes quotes), timers fire
and time passes.  The stream is not fair: that it brings anything is never needed.
No action is strongly fair.

## 4. Mutants

Operators preceded by `Mutant:` are altered forms of the definition next to them, the way
a plausible bug would alter it (`notify_waiters` for `notify_one`, a forgotten
re-queue, limits not recomputed, swapped flag bits).  `PROJECT.json` pairs each property
with one that breaks it.

## 5. Proofs

All hold for any constants that satisfy the modules' assumptions: any number of pools of
any kind, arrays, handlers, events and failures.  The assumptions say what kind of value a
constant is and no more (`CacheAssumption`, `StreamerAssumption`, `UpdaterAssumption`,
`ClientAssumption`, `ExecutorAssumption`, `TransactionAssumption`, `QuotesAssumption`,
`RouteAssumption`), that a pair is remembered for no less time than it is suppressed
(`ScannerAssumption`), that a stream is a finite sequence of updates (`FeedsAssumption`,
`StreamsAssumption`), that a pool's mints, DEX and kind never change and the pools are
finitely many (`StartupAssumption`), that the value standing for "no trigger" is not a pool
(`NoTriggerAssumption`), that a subscription names protocols the dispatcher knows and signatures
are numbers (`ParserAssumption`), and what the chain may bring (`TransactionsAssumption`, below).

Four theorems have a hypothesis of their own, where the code relies on its environment:

* `FewBins` (`CutWhereBuilt`, `ReadWhereInput`): a DLMM snapshot has at most three bin arrays.
  Nothing in the code ensures it; `TransactionDlmm` shows the statement false without it.
* `Whole` (`CompleteWhenArmed`): the balances that vault events and the bootstrap's calls bring
  are above zero, and the bootstrap's calls bring at least one bin array of a pool.  Nothing is
  assumed of what handlers insert.
* `BasesOnce` (`TableAlwaysSound`): no base mint is configured twice, as in the default list.
  A mint listed twice would be searched twice, and each of its routes be in the table twice.

### PoolStreamer_proofs

`TypeOK` is split into groups of variables with a frame fact each, so that an action is
charged only for the groups it touches.  On types (`TypeCorrect`) rest:

* `PoolsIndexed` (`IndexSound`) and `PoolsSubscribed` (`VaultsSubscribed`), by
  `RegisterInv`: a handler past `InsVaults` has its vaults indexed, past `InsMints` its mints,
  past `Subscribe` its vaults queued; `insert` publishes the pool last.
* `VaultsNeverForgotten` (`VaultsAccounted`), by `AccountedInv`: a vault moves from the
  handler to the queue, to the batch, to the answers, and back to the queue when a call
  fails, and is never between two of them.
* `LimitsNeverStale` (`LimitsFresh`), by `LimitsInv`: freshness of each cached state, and
  of the state a handler is about to insert; every write goes through `WithLimits`, or
  changes none of the four fields, or is to a pool that has no limits.
* `FetcherAwake`, `RefresherAwake`, `ReloaderAwake` (the three `NotStranded`), by
  `WakeInv`.  What the runs check says that a loop that *waits* has no work it was not told
  of.  That is not inductive, since a permit can be consumed by a loop that then finds
  the work; `WakeInv` speaks of the loop at any point but the one where it is just about to
  take everything queued: then the permit is there, or a handler is one step from giving it
  (`Waking`), or, for vaults only, a call has failed (the code re-queues without waking).
* `ArraysReached` (`ArraysIndexed`), by `IndexInv`: the arrays of each cached pool's state
  and of the state every handler carries are in `arrayIndex`, at all times.  A
  registration indexes what it fetched before it goes on to `insert`, a reload has registered
  what it has read so far (`ReloadIndexed`), and nothing is ever taken out.  What a reload
  brings belongs to a pool already cached (`FoundInv`).
* `EngineUpToDate` (`EngineAgrees`), by `AgreeInv`.  `insert` sends the update before it shows
  the pool, so the invariant adds `Announced`: the state a handler is about to show was
  the last one sent, or dropped, or another handler is inserting the same pool too.
* `KeptByDecoding` (`StateKept`), an action property: every step is one of those that
  write no pool, or its write to each cached pool is one that `Keeps` its fees and spacing.

### Subscription_proofs

* `UpdaterInvariant`, and from it `NothingLost`, `SleepsSettled` and
  `UpdaterKeepsPromise`, the refinement of `SubscriptionPromise`.  The invariant says which
  addresses can be collected and not subscribed at each point of the loop, and what `added`
  records about them.
* `RequestsApplied` (`RequestApplied` of `ClientSpec`), for any streams, calls, account lists
  and filters, by `ClientInv`: a sender is stored only while a subscription is active and not
  while one is being made (`SenderActive`); a stream not yet run has an empty channel and
  its first request (`FirstRequest`); an update no stop has overlapped feeds the channel
  that is stored (`SameChannel`); and the last request of that channel, or the server's if
  it is empty, is the current one, or the one about to be stored (`LatestCurrent`).
  `RequestApplied` alone is not inductive: it says nothing of a channel that still holds
  requests, nor of where an update's next request will go.  `ClientSpec` is the client with
  a caller that may update at any time; in `EventStream` the caller is the updater's `Send`,
  which is one of its steps.

### ArbPipeline_proofs and Startup_proofs

`ArbStream_proofs` has what both need: the types of the stream and the scanner's task
(`TaskTyped`: the pools still to be compared do not contain the trigger), and what an offer to
a bounded channel keeps.

* `HashYoung` (`HashFresh`), by `HashInv`.  The blockhash is as old as the sleeps of the
  refresher and the calls since it was written: `RefreshEvery` for each call that failed
  (`misses`), all the time in calls (`waited`) and the sleep under way (`refresh`).  That of a
  transaction waiting for the rate limit is bounded by these figures of the moment it was
  signed and the time it has waited (`SentInv`).  The second is not implied by the first:
  while the transaction waits a refresh may succeed and start the clock anew.  The theorem
  holds for calls of any length and any number of failures.
* `PairsApart` (`PairSpaced`), an action property about offers into the opportunity channel
  (two offers that wait there may be sent a second apart), by `SpacedInv`: for each pair, its last
  opportunity is as old as the suppression interval, or the table has an entry for it that
  is no older than that opportunity (`TableBehind`).  A clean-up removes only entries older than `KeepSecs`, and it is there
  that `PairSecs <= KeepSecs` is needed.
* `NoticedIsSeen` (`SeenLast`), by `StartupInv`: two pools that can be compared and of which
  one has changed are in an update in hand or on its way.
* `CompleteWhenArmed` (`ArmedComplete`), by `BootInv`: stream and handlers write pools while the
  bootstrap fetches for them, so what a phase leaves must survive every later write but a
  handler's insert, which puts the pool into `undone` if it takes something back.  What
  never changes of a pool (`Unchanging`) links the two; a pool still to be fetched for is cached
  (`Reached`); and for each pool of which no call failed and that no insert emptied, it is
  cached after phase 1 (`Registered`), has the balances fetched so far in phase 2, the first
  of two included (`Halves`), and both after it (`Balanced`), and arrays after phase 3 unless
  no other DEX trades its mints (`Supplied`).

### ArbTransaction_proofs

One opportunity from its snapshots to the program's end, for any snapshots, amounts and
profits.

* `RoundTrip` (`ParsedMatches`), by the lemmas on bytes (`FlagsOfEnds`, `FlagsOfMiddle`,
  `Packed`, `Encoded`, `Decoded`): flags and two-bit counts that share a byte are told apart,
  and the program's parse of the encoding is the instruction meant.
* `NothingMissing` (`NeverShort`): no pool's accounts run past the end of the list.  It needs no
  bound on the number of arrays: the program takes as many accounts as its count says, and
  the count, cut at three, is never above what the client appended.
* `CutWhereBuilt` (`SlicesExact`) and `ReadWhereInput` (`AmountFromInput`): each DEX is given
  exactly the accounts the client built for it, and the amount is read where the input
  stands.  Both are by the layout lemmas (`FourParts`, `Layout`, `SliceOf`): the list is four
  parts and a part begins at the sum of the lengths before it.  Both assume `FewBins`, that
  a DLMM snapshot has at most three bin arrays: the code does not ensure it, and without it
  the statement is false, as the run `TransactionDlmm` shows.
* `LandsWithProfit` (`LandedProfit`), by `TxInv`: the bytes the program parses are those of the
  opportunity as long as it has not ended (`Sent`), and it ends outside test mode only
  with a profit that is not below the limit parsed (`Swapped`).  That this limit is the one
  meant takes the arithmetic of the 80 % and the profit field's width (`limit < U32`).
* `LoanCloses` (`FlashloanCloses`): the end of the loan is the instruction its start names.

### Array arithmetic (at the end of ArbStream_proofs)

For all ticks, spacings and array sizes: `StartHoldsTick` (the start index computed with
truncating division is a multiple of the span and its array holds the tick, below zero
too), `BinInItsArray` (a bin is in the array of its index) and `CoveredSound` (the covered
test with Raydium's shorter arrays never claims a tick that an array of the pool's own size
does not hold; the converse fails, see the hazards).

### EngineScanner_proofs

The route table, for any graph, streams of updates, base mints, hop limit and cap.

* `TableAlwaysSound` (`TableSound`): the graph has each pool once; a route is a cycle of at most
  `MaxHops` hops over different pools from a base mint; none is in the table twice; the index
  leads from a pool to exactly the routes through it.  By `TableInv`: the table is exact for
  the graph (`TableOf`), and remains so while the graph grows behind it (`GrewTo`), as it
  does when the queue is drained after an update.  What is there twice is ruled out by
  `NewRoutes`, which skips what is known, and by the search, whose results from one base are
  told apart by the hop at which they first differ.
* `RoutesAlwaysAdded` (`RoutesAdded`), an action property: the search finds every cycle over
  affordable pools as long as it is below its cap, so a new or revived pool has all its
  routes once its update is handled; no later step loses one.

The search recurses over the hops left, and each level folds over the edges of a node.
Both are recursive functions.  That a fold keeps a set, or that a path once
added stays added, is proved from the least step at which it fails (`LeastOf`, by the
library's theorem on well-founded orders); `FoldExists` and `DfsMore` do the same for the
existence of a fold and for the depth.

### EventStream_proofs

The events of a transaction, for any protocols, any set of transactions the chain may bring,
any limit on the signatures remembered and any batch a cleanup removes.

`TransactionsAssumption` says of each transaction that it is `OnChain`: a call to one of the
programs is one its interface allows; the list of inner instructions has what the call caused
right behind it, in order (the transfers of a swap, the first with or without a fee, and the
program's log); and until the next instruction of another program, a transfer that follows
is not from an account of the call's pool.  The last is what a caller's own transfers
(tips, fees, wrapped SOL) look like, and the parser relies on it: it reads every transfer up
to the next program, so one from the pool's vault would be taken for the swap's.  Any number
of calls, in any order and nesting the list can show, is allowed, also of one pool.

* One instruction gives at most one event (`OneEvent`), and `Ours` says which.  There is a lemma
  for each protocol (`BonkCalls` to `BinAndTickCalls`, gathered in `EveryCall`): its parser reads no
  further than a call of the interface goes, takes the roles where the program has them, and
  the program's log decodes to a kind that `merge` accepts for this event, or is absent.
* The log (`LogRead`): the first later log that decodes is the call's own, because nothing
  between the call and its log does; a call without a log finds another's at most, and has
  an event no log is merged into (`Unlogged`).
* The transfers (`SwapRead`): the loop over the list is a sequence of turns
  (`TurnsExist`).  The two turns at the call's transfers fill in one side each, whichever order
  the event's roles name the vaults in (`Direct`, `Backward`, `Crossed`); later turns leave
  the result alone (`TurnsRest`).  A first transfer with a fee is skipped by the code, and then
  the first side stays unknown unless the log has it: hence the hypothesis `Whole` in the
  properties.
* `EventsOrdered` (`EventsInOrder`), by `InOrder`: a list of events has increasing positions and
  exactly one event for each instruction of a set.  The list of one instruction is in order,
  and joining lists that follow one another keeps it (`FlattenInOrder`), once for the inner
  instructions and once for the outer ones.
* `PartsOwn` (`OwnParts`) and `ReadRight` (`ReadsRight`), by `Told`, which says what log and
  which sides the callback is told of an event; `process_event` moves amounts from the log
  but keeps the rest (`ProcessedParts`).
* `DevsMarked` (`DevMarked`), by `Handled`: after each event, everything remembered under this
  signature was added by a creation of this transaction, and what the latest creation adds
  last is remembered, whatever the cleanups in between removed.  `DevMarked` is not inductive over
  the events, since it speaks of marks and not of what is remembered.  The signature is new
  when the transaction is parsed (`FreshIsNew`), which is where uniqueness of signatures is
  needed.

The last step is over `StreamNext`: only `parse_grpc_transaction` shows the callback a
transaction; shreds, account updates, blocks and `Done` show it something else, and the rest
of the pipeline leaves the parser's variables alone.

### Only model-checked

* Liveness, because fairness and `ENABLED` are beyond the prover: `VaultsAnswered`,
  `DirtyTaken`, `Drained`, `WindowServed`, `StandingServed`.
* `SearchFinds`, `QuotesSound` and `OffersSound`.  They quote over walks of ticks and bins with a
  rounding at every range; the inequalities are nonlinear.
* `DirectionRight`.  That the direction not tried has no profit is a fact about the pools'
  quotes, checked for the prices of the feeds: a price is one rounded probe, and where rounding
  makes two prices equal, either direction may be the one tried.

## 6. Not modelled, and what comes next

1. DLMM arrays from the streamer into the account list of `ArbTransaction`.
2. Proofs: `OffersSound` from a lemma that the optimizer tests what it offers;
   bounds of the constant-product and DLMM quotes.

In the event parser: accounts that an address lookup table would add to a shred's
transaction, the padding of missing accounts with a default, an instruction whose program
is outside the account list, and which bytes of an instruction give which field.  A panic
is an event of its own and the task's end is not modelled further, as `ReadsRight` shows
that the interfaces lead to none.  `update_subscription` is called by the updater only,
as in the pipeline; two callers at a time are left out, and so are pings.

Left out for good: byte layouts of events and accounts, CPI payloads of the DEXes, HTTP and
QUIC clients, metrics and object pools, start-up configuration.  They keep no state the
properties above depend on.
