# rain.solver: specifications, model checking and proofs

rain.solver is a bot that clears Rain orderbooks: it follows the orders of its
orderbooks through subgraphs, round after round takes some of them, quotes them,
looks for a profitable trade against a router, another order or another
orderbook, and sends the trade from one of its wallets.  It is one Node.js process:
everything runs on one event loop, and what is concurrent are the continuations
between two `await`s, the chain, the RPC nodes and the subgraphs.

This directory holds TLA+ modules for the parts of it whose state is shared or
changes over time, TLC configurations that check them on small instances, and
proofs that TLAPS checks for every value of the constants.  Paths below are
relative to the repository's `src/`; line numbers are those of the modelled commit.

## 1. Inventory

| component (files) | state | operations | what is hard | what makes it correct |
|---|---|---|---|---|
| Signer (`signer/`) | `busy` flag of each client object; the nonce and attempt of each running `sendTx` | `sendTx`, `waitUntilFree`, `asWriteSigner`, `tryGetReceipt`, viem's `writeContract` | orders of a batch share wallets; receipts are awaited in the background; a retry of what may have arrived; lagging nodes | a transaction is executed at most once; no two pending transactions of a wallet share a nonce; every call gets an outcome |
| Wallet manager (`wallet/index.ts`, `wallet/sweep.ts`) | workers in circulation, `pendingAdd`, `pendingRemove` with its counters, last derivation index | `init`, `fundWallet`, `assessWorkers`, `tryAddWorker`, `tryRemoveWorker`, the retries, `sweepWallet(s)`, `getRandomSigner` | every step can fail on its own; trades are still in flight when a worker is taken out; a restart forgets the lists | fleet size, no wallet with funds dropped early, no index used twice, unfunded workers get in |
| Vault funding (`wallet/fundVault.ts`, `wallet/sweep.ts` from 115) | none of its own | `fundOwnedVaults`, `convertHoldingsToGas` | swap, approval and deposit fail one by one or are mined after their receipt was given up; the next round starts from the balances | a low vault is filled in the end, and once |
| Order manager, owners (`order/index.ts`) | owner profiles: pairs, limit, `lastIndex` | `getNextRoundOrders`, `addOrder`, `removeOrders`, `resetLimits` | the list and the limit change under the cursor | no pair starves, a limit is used up exactly |
| Order manager, pair maps (`order/index.ts`, `order/pair.ts`) | `oiPairMap`, `ioPairMap`, vault balances | `addOrder`, `removeOrders`, `addToPairMaps`, `removeFromPairMaps`, `updateVault`, `getOptimalSortedList` | changed by up to `maxConcurrency` orders at a time after an awaited quote | the maps follow the last quotes; the chosen counterparties serve every trade size |
| Owner protection (`order/protection.ts`) | owner limits | `downscaleProtection`, `resetLimits` | balances of different age, repeated application, rounding | an owner keeps a quarter of the default limit |
| Upstream sync (`order/sync.ts`, `subgraph/`) | per subgraph `skip` and `lastFetchTimestamp` | `fetchAll`, `getUpstreamEvents`, `syncOrders` | pages fail, the indexer lags, clocks differ, events carry a later state | each event pulled once and in sequence; the solver ends up with the active orders |
| Rounds (`core/process/`) | batch, concurrency counter, settlements | `initializeRound`, `processOrderInit`, `processOrder`, `processTransaction`, `finalizeRound` | one rejection ends the round, the rest runs on | every pair taken gets one report |
| Main loop (`cli/index.ts`) | round count, timers of the resets | `run`, wallet operations, resets, sync | a reset that fails, or is signalled while another is awaited; rounds that reject | a failure costs one round, not the process; pool data do not stay old |
| Gas manager (`gas/`) | gas price, multiplier, deadline | `onTransactionMine`, the interval watcher | overlapping reads | base <= multiplier <= max |
| RPC selection (`rpc/`) | metrics and progress buffer per url, last used index | `nextRpc`, request and response hooks, `reset` | late answers, polling that outlives its timeout | counters match the buffer, a dead node gets few requests but some |
| Oracle client (`oracle/`) | failures and cool-off per url | `fetchSignedContext` | concurrent requests answer out of order | a failing oracle is left alone for the cool-off, a good one is not |
| Trade modes (`core/modes/`) | none beyond one call | `findBestTrade`, the four modes, two-stage simulation | estimates change between the dry runs | the trade sent covers its gas |
| Routers (`router/`) | request counts, pool data, cached routes and failures | `getTradeParams`, `getMarketPrice`, `tryQuote`, `findLargestTradeSize`, `update`, `reset` | counts that outlive what they count; quotes that share a cache entry; integer halving | no order is processed without its pools; the working route comes first; the largest part is found |
| Shared state (`state/`) | start-up values, gas price | `getMarketPrice` | amounts of two scales | see `TradeSize` |
| Configuration, errors, logger, math, CLI commands | | | | not stateful; see section 7 |

How they interact: the main loop runs a round (`processNextRound`), then wallet
operations, then `sync`.  A round takes pairs from the order manager, and for each
of up to `maxConcurrency` pairs gets a free signer from the wallet manager, quotes
(oracle, RPC), changes the pair maps, searches a trade (routers, pair maps), sends it
through the signer and leaves a `settle` function that awaits the receipt; the
receipt's poll runs in the background, also during wallet operations and later
rounds (`txSettlement` is started and not awaited).  The receipt frees the signer and
tells the gas manager how long it took.

## 2. Modules

| module | models | checked in | proofs |
|---|---|---|---|
| `Signer` | the life of a transaction from `getRandomSigner` to its receipt | `MCSigner` | `SignerProofs` |
| `TxSlot` | abstract: one transaction slot per wallet; implemented by `Signer`, used by `Round` | | |
| `RpcState` | the RPC transport: pick, retries, hooks, outcome buffers | `MCWalletManager` | `ServicesProofs` |
| `WalletManager` | circulation of the worker wallets | `MCWalletManager` | `WalletManagerProofs` |
| `VaultFunding` | funding of an owned vault, conversion of its token to gas | `MCWalletManager` | `WalletManagerProofs` |
| `OwnerCursor` | one owner's share of the rounds | `MCOrders` | `OrdersProofs` |
| `OwnerLimits` | the limits that `downscaleProtection` computes | `MCOrders` | `OrdersProofs` |
| `SubgraphSync` | first fetch and event sync of one subgraph | `MCOrders`, `MCSubgraphSync` | `SyncProofs` |
| `EventLog` | abstract: one growing log and one place to read on from; implemented by `SubgraphSync` | | |
| `OrderBook` | owners map and pair maps under sync and concurrent quotes | `MCOrderBook` | `OrderBookProofs` |
| `CounterpartyPick` | which raindex counterparties a search simulates | `MCOrderBook` | `OrderBookProofs` |
| `TradeSearch` | the search for one order's trade, its dry runs and its bounty check | `MCTradeSearch` | `TradeProofs` |
| `TradeSize` | the search of the largest part of an order that has a route | `MCTradeSearch` | `TradeProofs` |
| `RouteCache` | the routes that the Balancer router caches for two tokens | `MCTradeSearch` | `TradeProofs` |
| `MainLoop` | the loop, the prefetch of pools and the reset of pool data | `MCServices` | `ServicesProofs` |
| `GasManager`, `OracleHealth` | gas price and multiplier; health of an oracle | `MCServices` | `ServicesProofs` |
| `Round` | batches, wallets, settlements and gas of the rounds, composed with `TxSlot` | `MCRound` | `RoundProofs` |

The `MC*` modules give the constants of the instances TLC checks.  Several of them check
two or three modules side by side: these share no state, so that a variable (`part`,
`service`) says which of them a behaviour runs, and the others keep one initial state.
That is one run for each group of parts instead of a product of them, in which every
interleaving would be the same as none.  What does interact is composed: `Round` takes
its wallets' slots by the actions of `TxSlot`, which `Signer` implements.

An action is what the code does between two awaits that another continuation can
observe; a handler without an await, or whose awaits nobody can interfere with, is
one action.  Definitions have the names of the functions they model.  Operators
named `Bug...` are mutated forms of a definition; they are not part of any
specification and exist to show that each property can fail.

### Signer
`pc` is where a call of `processOrderInit` (kind `Orders`), of `signer.sendTx` by wallet
operations (`Direct`) or of `writeContract` (`Raw`) is; `busy` is the flag of each client
object, where `asWriteSigner` makes a client of its own per call when a write RPC is
configured.  `waitUntilFree` and `acquire` are two actions only in so far as the loop
polls; the check and the set of the flag are one.  The nonce is fetched with an
await and retained for the retry.  Mempool and chain (`pool`, `count`, `executed`) are
the environment: a node may accept a transaction and its answer get lost
(`LostResponse`), a node may lag (`StaleNonce`), a receipt may take longer than the
poll's timeout (`SlowReceipt`).  `Stage` is the sequence of the main loop: a batch
starts when the previous one is submitted, wallet operations wait for their receipts.

### WalletManager
Workers are derivation indexes.  `phase`, `todo`, `cur` and `step` are the main loop's
position in `runWalletOpsForRound`, `assessWorkers` and `sweepWallet`; `low`, `holding` and
`inflight` are what the chain would answer.  Every funding and every sweep may fail, and
may fail although it took effect.  `settle` (a trade's receipt, with its bounty) happens at
any time.  `restart` keeps the chain and forgets the lists.  Timers (a day, five days)
are a free choice.

### VaultFunding
One vault of the main wallet.  `fundStage` is what `fundVault` awaits next; the balances
(`vault`, `tokens`, `approved`) are the chain's, and orders take from the vault at any time.
A transaction succeeds, fails, or has its receipt given up, and is then mined at any later
time (`unsettled`, `mineLate`); one that `sendTx` sends with the number of a pending one
takes its place.  Transactions of `writeContract` are numbered after the pending ones, so
that they have their receipt only when none is left.

### OwnerCursor
The list of an owner's pairs is its length; `getNextRoundOrders` is the two `splice`
calls and the new `lastIndex`; additions append, a removal of any pairs moves the rest
up; `rescaleLimit` is any limit `resetLimits` and `downscaleProtection` may set.

### OwnerLimits
The vaults as the event feed knows them, any balance of the orderbook on chain or a failed
read per token, and the arithmetic of both functions named `downscaleProtection` with its
roundings (`Quotient` towards zero, `Math.round` half up).  `behind` remembers whose balances did not fit
the vaults they were compared with.

### OrderBook
One orderbook.  A `Pair` object is a pair with the number of the decoding that made
it, because `addOrder` decodes again.  `pairMap` stands for `oiPairMap` and `ioPairMap`,
which are always changed together and mirror each other.  In a round the pairs run
`processOrderInit` (concurrency counter `slots`), `quoted` and `processed`;
`roundThrows` is the rejection of one of them, which ends the round while the other
quotes go on in `background`.

### CounterpartyPick
The candidates of one base token of `findBestRaindexRouterTrade`: they are listed
(`sortPairList`), the route is awaited while `requote` changes one quote at a time, then
`getOptimalSortedList` and `estimateProfit` choose.  `sortings` gives every sequence that a
stable sort by a comparator may return.  The arithmetic is that of the code with a small
fixed point, `ONE18`.

### TradeSearch
The search of one order.  A simulation is a trade type against a counterparty and goes
through `trySimulateTrade`: `turn` counts the calls of `setTransactionData`, `price` is the
gas price in the transaction, `seen` the one its cost is computed with, `min` the minimum
in its task and `tried` the one of the last dry run.  Each await is a place where
`watchGasPrice`, `quoteCounterparty` (another order of the batch) and `otherTradeMined`
come in.  Estimates, profits and routes are free choices; the amounts are in one
currency.  `mined` is the bounty task's decision on chain: "intra" compares the wallet's
balances with those read before the simulation, the others the bounty itself.  The
order's own quote is constant, since a batch has a pair once.

### SubgraphSync
`view` and `listing` are the subgraph's transactions and its active orders, newest
first; `unindexed` is what it has still to index.  The first fetch goes by pages with
`offset`, the sync by pages with `skip` over the transactions after `lastFetch`.  An event
carries the state its order has at the time of the query, as the GraphQL query gives it.
`Faults` switches what the environment may do.  `Old` is how many transactions a query
with `timestamp_gt: lastFetch` passes over at the beginning of `view`.  `overlooked` collects
the orders that no query will correct: one that changed between the first fetch and the first
second of the sync, one that a removal moved onto a page of the first fetch that was read
(`PassedOver`), and one whose event could not be applied.

`EventLog` is what the sync comes to for whoever reads its events: a log that only grows, in
which the solver takes a place when its first fetch ends, and reads on from there.  The log is
`view`, the place is `Old` (set by `lastFetchTimestamp`), and `skip` counts from it: two numbers
that different functions set are one cursor, as long as the place stays where it is once an
event was read.  Until then a late transaction of a second already queried may fall before it.

### TradeSize
One search: what the pools are worth it for is an interval of amounts (`least`, `most`) that
does not change during the search, which has no await.  The two callers, the search of a partial trade and
`getMarketPrice`, differ in what they pass and how they read the result; `scale` is
10^(18 - decimals).

### RouteCache
One key of the cache of `BalancerRouter`.  An entry is an object, which quotes hold on to
after the cache has another; each quote tries the routes it saw when it began and moves the
one that worked by its place (`Reordered`).  `fetchSortedRoutes` is the answer of the API,
any number of the best routes; `expire` stands for `validUntil` and for `reset`.

### MainLoop
`loopPhase` is what the loop awaits.  A round takes any pairs (`OwnerCursor` says which).
`count` is the cache of `RainSolverRouter`, which counts up to 4 what it was asked for by
prefetches and by orders under way; `tried` and `known` are the keys whose pools the data
fetcher was asked for, and whose newest pools it has.  `strays` are the orders that a rejected
round left under way: they go on asking, and counting, over a reset (`strayed`).  `signalReset`
is raised by any query with a negative output, `resetDue` by the time.

### GasManager, OracleHealth, RpcState
Time is counted in ticks.  In `GasManager` the interval starts a read whatever became of
the one before, so `reads` is a set; a read carries the multiplier of its start and is
answered or fails within `ReadLife`.  `OracleHealth` is one endpoint that several orders
ask at once; requests that are in flight when a cool-off begins are answered in it.
`RpcState` has the buffer of outcomes per node, of which a success turns the latest failure
into a success, whichever request's it was; the pick is any node with a positive rate.
`loops` counts polling loops of `nextRpc` that outlived their timeout and still set
`lastUsedRpcIndex`.

### Round
`phase` is what the loop of `initializeRound` awaits: the pools' update at a batch's start,
`prepareRouter`, `Promise.all` of a full batch (with the block number after it) or of the rest.
A call is a pair in a round, so that what runs on after its round was thrown away keeps its
own state.  `stage` is where it is in `processOrderInit` and `processOrder`; what it finds is
free, and it may reject (`TradeSearch` shows how).  A rejection while nothing awaits the
batch ends the process (Node's rule for unhandled rejections; nothing in `src/` handles
them).  The wallets' busy flags are `TxSlot`'s `holder`: the round is composed with what
`Signer` is shown to implement, and takes, keeps and leaves slots only by `TxSlot`'s actions.
`transactionSettlement` is the receipt, at any time after the submission.

## 3. Runs

| run | module / cfg | shows |
|---|---|---|
| `signer_serial` | `MCSigner` / `MCSignerSerial.cfg` | three orders over a main wallet and two workers, no write RPC, receipts in time: `NoNonceConflict`, `OneTransactionPerWallet`, and `ImplementsTxSlot` (refinement of `TxSlot` with its fairness) |
| `signer_faulty` | `MCSigner` / `MCSignerFaulty.cfg` | one wallet, two orders, one direct call, one `writeContract` and every fault: `AtMostOnce`, `EveryCallConcludes` |
| `signer_write_rpc` | `MCSigner` / `MCSignerWriteRpc.cfg` | violation of `NoNonceConflict` |
| `wallets` | `MCWalletManager` / `MCWalletManager.cfg` | `WalletManager`, one worker, its replacement, crashes: `FleetSize`, `NoWalletForgotten`, `NoIndexReuse`, `UnfundedEventuallyAdded`; `VaultFunding`: `FundedOnce`, `VaultFunded`; `RpcState`: `SuccessMatchesBuffer`, `RequestConcludes` |
| `orders` | `MCOrders` / `MCOrders.cfg` | `OwnerCursor`: `NoStarvation`, `LimitUsedUp`; `OwnerLimits`: `QuarterKept`; `SubgraphSync`: `ImplementsEventLog` (refinement of `EventLog`), `Converged`, `EventuallyInSync` |
| `sync_throw` | `MCSubgraphSync` / `MCSubgraphSyncThrow.cfg` | violation of `NoEventDropped` |
| `orderbook` | `MCOrderBook` / `MCOrderBook.cfg` | `OrderBook`: `NoRemovedUnlessRevived`, `MapsFollowQuotes`; `CounterpartyPick`: `EverySizeServed` |
| `trade` | `MCTradeSearch` / `MCTradeSearch.cfg` | `TradeSearch`, one order, one counterparty, all trade types: `FinalMinWasSimulated`, `UnderpaysOnlyWhenStale`, `BestIsPicked`; `TradeSize`: `LargestIsFound`; `RouteCache`: `RoutesKept` |
| `trade_rejects` | `MCTradeSearch` / `MCTradeSearchRejects.cfg` | violation of `NeverRejects` |
| `price_units` | `MCTradeSearch` / `MCTradeSize.cfg` | violation of `LargestIsPriced` |
| `services` | `MCServices` / `MCServices.cfg` | `MainLoop`: `ProcessedArePrepared`, `PoolsCatchUp`; `GasManager`: `PriceFresh`, `QuietBeforeReset`; `OracleHealth`: `CooloffEarned` |
| `round` | `MCRound` / `MCRound.cfg` | `ReportedOnce`, `BatchReadsItsPools`, `GasOnce`, `RoundEnds` |

`TypesOK` in `orders`, `orderbook`, `trade` and `services` is the conjunction of the modules' type
invariants.  It is proved for the specifications of these runs (section 4).

Bounds and why they are enough:

* Signer: every conflict needs two calls on one wallet and a third to show what a
  wrongly freed flag does; two workers and three orders give two orders the same
  worker.  Transactions are bounded by the calls, no counter is cut off.
* WalletManager: one worker that is replaced while its trades are in flight; with
  restarts the index space is used again and again.  `MaxIndex` bounds the replacements
  of one life of the process; `failures` counts to one beyond the retry limit.  The proofs
  hold for every value of them.
* VaultFunding: three failures or given-up receipts, which is one for each of swap,
  approval and deposit, or the same one over three rounds; the swap yields more than is
  deposited, so that tokens are left over to sell.  The proof removes the bounds.
* OwnerCursor: `MaxTotal` and `MaxLimit` include lists shorter than, equal to and
  longer than the limit; the proofs remove the bounds.
* OwnerLimits: one owner with a configured limit and one without, two tokens and two
  vaults give every mix of factors, and a balance of the orderbook up to twice what all
  vaults hold.  The proof removes the bounds.
* OrderBook: two orders with the same tokens (so that they share lists in the pair
  maps), decoded at most twice (an order added, removed and added again, or added while
  listed), two at a time.  The proofs hold for any orders and pairs, also for an
  order with two pairs of the same tokens, which share an entry of the pair maps; what that
  does is an experiment, below.
* CounterpartyPick: three candidates, one of them of the same owner, two ratios and three
  outputs (0 among them): options that are equal, better in one and better in both.
* SubgraphSync: two orders, three transactions, pages of one, so that every change between
  two queries crosses the border of a page; an order added, removed and added again.
  `MaxTime` three seconds: transactions before, in and after the second of the fetch.  Pages
  of two with three orders were checked besides; the proofs remove the bounds.
* TradeSearch: one counterparty, which all trade types that need one share, is enough
  for every race on its quote; two values of the gas price, of the gas estimate
  (and the answer 0) and of the profit let each rise and fall.  `Bounties` has a value
  below and one between the costs; `MaxOthers` bounds the other trades of the wallet.
  "intra" and "inter" run at once, "router" and "raindex" alone: simulations meet only
  in the pick.
* TradeSize: three halvings of amounts up to 32; a token of the 18 decimals of the amounts
  and one whose unit is four of them.  `Lost` names what the integer divisions may cost: the
  step before the last try and a unit for each division.  The amounts reach far enough to
  tell that from half of the step, which is too little.  One, three and five halvings of
  amounts up to 90 were checked besides.  The proof removes the bounds.
* RouteCache: three routes, so that a reordering moves more than the two that change places;
  two quotes that may overlap.  The proofs remove the bounds, here and for TradeSearch.
* MainLoop: two pairs, of which one's key is the price key of the other, so that counting
  and preparing meet in one key; batches of two, one rejected round.
* Services: a read may live two intervals, so that three overlap; the step time is longer
  than an interval and the multiplier needs two raises to its maximum.  Two quotes at one
  oracle, the real threshold of three.
* RpcState: two requests over two nodes with a buffer of two, so that records are knocked
  out while their answers are awaited; one polling loop that outlives its timeout.
* Round: three pairs in batches of two give a full batch and a rest; one worker makes the
  calls of a batch wait for each other; two rounds let receipts and the rest of a rejected
  batch reach into the next.  Two block numbers tell pools that were updated from those that
  were not.  Deadlock is not checked, because the model stops after `MaxRounds`.

Fairness:

* Signer (`FairSpec`): each call goes on while it can, which is what the event loop and
  the timeouts of its awaits give, and the chain goes on mining or dropping
  (the receipt poll itself has a timeout).
* WalletManager: the main loop goes on, receipts arrive, and strong fairness of a
  worker's successful funding: a funding that is tried in every round succeeds some time.
* SubgraphSync: the main loop syncs after every round, the indexer goes on, strong
  fairness of a successful page: a subgraph asked again and again answers some time.
* VaultFunding: the funding goes on, since its awaits end, and late transactions are mined
  or dropped.  Failures are bounded by `MaxFailures`, which says that they stop some time;
  nothing else has to succeed.
* MainLoop: the loop goes on and its clock too, and orders that a rejected round left end
  (their awaits have timeouts).  Strong fairness of a successful reset, and of the complete
  prefetch of a pair that gets its turn again and again: an outage ends.
* RpcState: a request that was made goes on, by its timeouts; nobody has to make one.
* Round: the loop and every call go on, since their awaits end, and receipts come or time
  out.  Which outcome a call has is not fair: it may never find a trade.

Where the code disagrees with what it says (the violation runs):

* With a write RPC every order transaction gets a client, and a busy flag, of its
  own (`signer/actions.ts:279`): two orders of a batch read the same latest nonce.
* A failed addition after a removal in one batch of events throws out of `syncOrders`
  (`order/sync.ts:80`), and the events behind it are lost.
* A quote that fails while another order of the batch simulates a trade against it is
  read all the same (`core/modes/inter/simulate.ts:230`, `core/modes/intra/simulation.ts:176`):
  the search rejects, and with it the round.
* `findLargestTradeSize` takes its amount in 18 decimals; `SharedState.getMarketPrice` passes one
  in the token's units (`state/index.ts:344`) and reads the result in them: for a token of fewer decimals the
  search begins at a small fraction of the amount and misses what could be priced.

Further experiments, not in the list of runs.  Each takes the configuration of a run,
changes the constants named and checks one property, alone, that TLC finds violated.

| run | constants | property | shows |
|---|---|---|---|
| `signer_write_rpc` | `WriteRpc = FALSE`, `SlowReceipt = TRUE` | `NoNonceConflict` | the receipt timeout frees the signer although the transaction is still pending (`signer/actions.ts:322`) |
| `signer_write_rpc` | `WriteRpc = FALSE`, `Orders = {o1, o2, o3}`, `Raw = {r1}` | `NoNonceConflict` | the receipt of a `writeContract` frees a signer it never took (`:316`) |
| `signer_write_rpc` | `WriteRpc = FALSE`, `Orders = {o1}`, `LostResponse = TRUE` | `FailedMeansNotSubmitted` | an accepted transaction is reported as failed when its answer is lost |
| `wallets` | `MaxIndex = 3`, `Restarts = FALSE` | `RetiredStaysOut` | a worker that was funded on a retry stays in `pendingAdd` (`wallet/index.ts:510`): it is funded again in every round and comes back into circulation after it was retired |
| `wallets` | `Restarts = FALSE` | `PendingRemoveUnswept` | a sweep that succeeds on a retry leaves the `pendingRemove` entry (`wallet/index.ts:482`) |
| `wallets` | `Restarts = FALSE` | `NoHoldingStranded` | a bounty that arrives after the sweep stays in a forgotten wallet |
| `wallets` | | `NeverFundedTwice` | a deposit whose receipt was given up is made again by the next round (`wallet/fundVault.ts:155`) |
| `orderbook` | `Pairs = {1, 2}`, `Route <- Shared`, `MaxCopies = 1`, `Throws = FALSE` | `EachFollowsItsQuote` | two vaults of one token share one entry of the pair maps |
| `orderbook` | `Throws = FALSE` | `SameObjects` | an `AddOrder` event of a listed order puts other objects into the pair maps than into the owners map |
| `orderbook` | `MaxCopies = 1`, `Throws = FALSE` | `EmptyIsNoCounterparty` | a pair with an empty vault stays a counterparty |
| `orderbook` | `MaxCopies = 1` | `NoRemovedCounterparty` | `Promise.all` gives up a round with the first rejection; a quote that arrives after the following sync puts a removed order back into the pair maps (`core/process/round.ts:90`). `NoRemovedUnlessRevived` shows that this is the only way |
| `orderbook` | | `TradeableIsEstimated` | a counterparty that the router pays in full is estimated at nothing, because its output is computed from a rounded input (`core/modes/raindex/index.ts:299`) |
| `sync_throw` | `PageSize = 1`, `MaxTx = 1`, `Faults = {"duringFetch"}` | `NothingMissed` | a change between two pages of the first fetch is missed for good |
| `sync_throw` | `PageSize = 1`, `MaxTx = 1`, `Faults = {"lag"}` | `NothingMissed` | a change indexed after the fetch and mined before it is missed for good |
| `sync_throw` | `MaxTx = 1`, `Faults = {"sameSecond"}` | `NothingMissed` | a change in the second of the fetch, after it, is passed over by `timestamp_gt` for good |
| `sync_throw` | `MaxTx = 1` | `NothingMissed` | an order that could not be added waits for its next event |
| `sync_throw` | `PageSize = 1`, `MaxTx = 2`, `MaxTime = 2`, `Faults = {"duringFetch"}` | `ActiveAreFetched` | the first fetch pages by `skip` (`subgraph/index.ts:155`): an order removed from a page that was read moves another one, which nothing happened to, across the page's border, and it is never fetched |
| `trade` | | `InterNeedsBothSides` | an orderbook configured for `raindexRouter` alone counts as one without configuration (`core/modes/inter/index.ts:145`), against the comment of the function |
| `trade` | | `ClearedPaysForGas` | a cleared trade brings less than `gasCoveragePercentage` of its gas when the gas price fell during the simulation, or another trade of the wallet was mined |
| `trade` | | `NoRouteLost` | quotes that overlap in one cache entry overwrite one of its routes with another (`router/balancer/index.ts:178`) |
| `trade` | `Amounts = {1, 2}` | `QuoteOfAmountAsked` | a cached route is simulated with the amount of its first quote and priced with the amount asked now (`router/balancer/index.ts:234`) |
| `round` | | `NoCrash` | an order that rejects while the router is prepared for the next one has no handler yet (`core/process/round.ts:66`): Node ends the process |
| `round` | | `AllReadTheirPools` | what is left of a rejected batch searches with the pool data of the next round |
| `round` | `Wallets` with a second wallet | `OneTradePerPair` | a pair is traded again in the next round, by another wallet, while its transaction waits for its receipt |
| `wallets` | | `RetriesOnlyGoodRpc` | `resolvedRetryCount` takes the rate of the node another request picked meanwhile (`rpc/transport.ts:106`) |
| `services` | | `ThresholdPerCooloff` | after a cool-off one failure starts the next, the count is kept (`oracle/fetch.ts:162`) |
| `orders` | | `QuarterAlwaysKept` | balances that do not fit bring the limit of an owner of nearly everything down to 1 (`order/protection.ts:83`) |

## 4. What is proved

| theorem | says |
|---|---|
| `SignerProofs!TypeCorrect` | `TypeOK` is an invariant of `Signer` |
| `SignerProofs!SendAtMostOnce` | `AtMostOnce`, whatever the configuration and the faults |
| `SignerProofs!SerialWallets` | without write RPC, raw calls, slow receipts and lost responses, `OneTransactionPerWallet` |
| `SignerProofs!NonceSafety` | under the same conditions `NoNonceConflict` |
| `OrdersProofs!TypeCorrect` | `TypeOK` is an invariant of `OwnerCursor` |
| `OrdersProofs!RoundUsesLimit` | every round takes exactly min(limit, total) pairs |
| `OrdersProofs!PairsDoNotStarve` | no pair waits total / limit rounds |
| `ServicesProofs!GasRaisedHasDeadline` | a raised gas multiplier has a deadline |
| `ServicesProofs!GasQuietBeforeReset` | the multiplier falls only after a step time without a slow transaction |
| `ServicesProofs!OracleCooloffEarned` | a cool-off has its consecutive failures |
| `ServicesProofs!OrdersArePrepared` | `ProcessedArePrepared` |
| `WalletManagerProofs!IndexesAreFresh` | `NoIndexReuse` |
| `WalletManagerProofs!FleetKeepsItsSize` | `FleetSize` |
| `WalletManagerProofs!WalletsAreKept` | `NoWalletForgotten` |
| `WalletManagerProofs!VaultIsFundedOnce` | `FundedOnce` |
| `ServicesProofs!RatesAreOfTheBuffer` | `SuccessMatchesBuffer` |
| `RoundProofs!GasCountsOnce` | `GasOnce` |
| `RoundProofs!RoundUsesSlots` | the safety part of `Round` => `TxSlot`: every step of a round is one of the slots or leaves them alone |
| `RoundProofs!BatchesReadTheirPools` | `BatchReadsItsPools`: an order of the running batch searches with the pools of the batch's start |
| `RoundProofs!RoundReportsEachPair` | `ReportedOnce`: a round that ends has exactly one settlement for each of its pairs |
| `SignerProofs!FlagImplementsSlot` | the safety part of `Signer` => `TxSlot`, without write RPC, lost responses, raw calls and slow receipts |
| `ServicesProofs!GasPriceFresh` | `PriceFresh` |
| `SyncProofs!EventsArePulledOnce` | `PulledOnceInOrder`: the sync pulls the events in their order, none twice and none left out |
| `SyncProofs!CaughtUpAgrees` | `Converged`: when all was indexed and applied, the orders known are the active ones, but for what was overlooked |
| `OrderBookProofs!RemovedIsNoCounterparty` | `NoRemovedUnlessRevived` |
| `OrderBookProofs!PairMapsFollowQuotes` | `MapsFollowQuotes` |
| `OrderBookProofs!OptimalsServeEverySize` | `EverySizeServed` |
| `TradeProofs!FinalMinimumWasSimulated` | `FinalMinWasSimulated` |
| `TradeProofs!UnderpaidOnlyWhenStale` | `UnderpaysOnlyWhenStale` |
| `TradeProofs!BestOfAllIsPicked` | `BestIsPicked` |
| `TradeProofs!EntriesKeepTheirRoutes` | `RoutesKept` |
| `TradeProofs!SearchFindsTheLargest` | `LargestIsFound`, for any number of halvings, amounts and decimals |
| `OrdersProofs!OwnersKeepAQuarter` | `QuarterKept`, for any owners, tokens, vaults and balances |
| `SyncProofs!SyncFollowsLog` | `ImplementsEventLog`: `SubgraphSync` implements `EventLog` |
| `SyncProofs!NothingIsMissed` | `NothingMissed` for `Faults = {}`: without the four faults the orders known are the active ones, all of them |
| `TradeProofs!PriceOf18Decimals` | `LargestIsPriced` where one unit of the token is one of 18 decimals: the finding of `price_units` is about the units alone |
| `OrdersProofs!OrderTypesCorrect` | `TypesOK` of `MCOrders`: the types and bounds of its three parts, under the specification of the run |
| `TradeProofs!TradeTypesCorrect` | `TypesOK` of `MCTradeSearch`, likewise |
| `OrderBookProofs!BookTypesCorrect` | `TypesOK` of `MCOrderBook`, likewise |
| `ServicesProofs!ServiceTypesCorrect` | `TypesOK` of `MCServices`, likewise |

Assumptions are the named `ASSUME`s of the modules: the kinds of calls are disjoint,
limits and bounds are positive naturals, a swap yields at least what is deposited
(it is for 105% of it), and of two keys of pool data one is the other's price key only
if it needs no price itself but its own (a pair traded for ETH).  Orders and pairs are finite
sets, and the routes that the API knows are a sequence.  The clock of the
chain begins at 1.

* `AtMostOnce` is not inductive.  `NonceInv` adds that the pending transactions of a
  call all carry the nonce it retained, that an executed call's nonce is below the
  wallet's count, and that a call without a nonce has sent nothing: the retry can then
  only be refused.
* `OneTransactionPerWallet` is inductive with `TypeOK`: the flag is set exactly
  while one call holds the wallet, and every pending transaction is the holder's.
  `NoNonceConflict` follows.
* `NoStarvation` rests on `WaitInv`: the rounds a pair has waited, times the limit, plus
  its distance from the cursor, stay below the length of the list.  A round lowers the
  distance by the limit or takes the pair; an addition lengthens the list only.
* `QuietBeforeReset` rests on `GasInv`: the deadline, while there is one, is what is left of
  the step time since the last slow transaction.
* `GasOnce` rests on `SlotInv`: a wallet's call is not finished and holds no other wallet.  A
  receipt finishes its call, so that it comes once, and a call that succeeded is finished.
  `WalletInv` (a call that sends has a wallet) makes the steps of the slots apply.

* `ProcessedArePrepared` rests on `LoopInv`: a count above zero is that of a key whose pools
  this fetcher was asked for, or that strays counted.  Its own prefetch prepares all keys
  that it counts (`PrefetchPrepares`), and orders under way count only prepared ones; the
  reset takes counts and fetcher away together.  `keysOf` is closed, which is where
  `EthKeysAssumption` is needed.
* `NoIndexReuse` and `FleetSize` rest on `CirculationInv`: all that circulates, waits or was
  retired has an index up to `lastUsed`, and there is room for the replacements that are left
  (`MaxIndex` is a bound of the model); a worker that is handled is one of `todo`.
* `NoWalletForgotten` rests on `CustodyInv`: what is in flight counts as what a wallet may
  get, and a wallet leaves the lists only when its sweep found nothing, or was given up, or
  its trade was mined after it (`Excused`); the counter of the list is never ahead of the
  failures there were.
* `FundedOnce` rests on `FundInv`: a late transaction is one whose receipt was given up, so
  that without one the balances at a deposit or a swap are at most what they were when it was
  decided; others take from the vault, and a sale takes tokens.
* `SuccessMatchesBuffer` is inductive with the types, over lemmas on how the successes of a
  sequence change when a record is appended, knocked out, or turned into a success.
* `FlagImplementsSlot` rests on `HolderInv`: the slot of a wallet has the one call that works
  with it, and has none exactly while the flag is down.  It needs `Tracked`, as `SerialWallets`
  does: without write RPC, raw calls, slow receipts and lost responses the flag is set as long
  as a transaction is on its way.  With `RoundUsesSlots` the rounds stand on it.
* `PriceFresh` rests on `PriceInv`: unless a read was missed, the price is no older than the
  time since the last read and the life of a read, or an answer is under way that replaces it
  in time (`AnswerInTime`).
* `BatchReadsItsPools` rests on `BatchInv`: while a batch has calls, the pools are those of the
  current block number or mixed, and its calls were started with that number.
* `ReportedOnce` rests on `ReportInv`: while a round is under way the pairs that were yielded
  are those with a settlement and those in the batch, none in both and none settled twice.
  A batch that is awaited has settlements for all its calls, so that none is left at the end.
* `PulledOnceInOrder` rests on `SyncInv`: times never fall along the lists (`TimeInv`), so that
  what a query passes over is the beginning of `view` and only grows while nothing is pulled;
  then `skip` counts what was pulled (`PullInv`).  The transactions of an order alternate, and
  the last one indexed says whether it is listed (`ListInv`).
* `Converged` adds `EventInv` (the last event pulled of an order, when none waits, shows what
  is listed), `KnownInv` (an order of which nothing is to come is known just when it is active)
  and `FetchInv` (the pages read hold what is listed so far).  `FetchInv` was not inductive
  before `PassedOver`: that is how the gap of the first fetch's pages was found (see the
  experiment of `ActiveAreFetched`).
* `NoRemovedUnlessRevived` and `MapsFollowQuotes` rest on `BookInv`: a round works on listed
  orders only, and what is not decoded yet was never quoted (`RoundInv`, `DecodedInv`).
* `EverySizeServed` rests on three lemmas: a sorted list has every candidate
  (`SortingIsOnto`); what `getOptimalSortedList` keeps is numbered without a gap, from the last
  (`RanksNumberTheKept`); and what is kept serves every size (`ParetoServes`).
* `FinalMinWasSimulated` and `UnderpaysOnlyWhenStale` rest on `SearchInv`: the minimum of a
  simulation at each turn (`MinInv`), what its cost is made of (`CostInv`), and that a cost
  which has not risen is covered by the minimum with the headroom (`HeadroomSuffices`, over
  the roundings).  `BestIsPicked` is part of it: nothing is simulated after the pick.
* `RoutesKept` rests on `CacheInv`: an entry keeps the length and the routes it began with,
  as a reordering is a permutation of what the quote saw (`ReorderingKeepsRoutes`), and a quote
  holds a list as long as its entry's.

* `LargestIsFound` rests on `SizeInv`.  The next try is at least a step above the largest amount
  known to be worth it (`AboveInv`) and at most that and a unit per division, and the largest
  amount that is worth it is within as much of both (`BracketInv`); a division by two loses less
  than a unit (`StepsHalve`).
* `QuarterKept` is inductive with the types.  A factor is 1 to 4 if the balances fit
  (`FactorRange`, `CutsRange`), so that the sum of n of them is between n and 4n
  (`TotalBounds`), and the limit divided by their mean is at least a quarter, up to the rounding
  (`DownscaledRange`); if they do not fit the owner is in `behind`.
* `ImplementsEventLog` says the same as seen from outside, and of steps.  It needs, beside
  `SyncInv`, that transactions are indexed one by one as they
  were mined (`ChainInv`): an entry of the log is new.  An indexed transaction is an entry
  (`IndexWrites`), a late one only while nothing was read, since the times of the log never
  fall (`TimeInv`).  The end of the first fetch takes the place (`FetchFollows`), a page reads
  what comes next (`PageReads`), and all else leaves the log alone (`LogStays`).
* `NothingMissed` follows from `Converged` once nothing is overlooked.  That is inductive with
  `CalmInv`: what is still to be indexed when a page of the first fetch was read is nothing, and
  afterwards it is newer than the fetch.  Each of the four faults alone refutes it (experiments of
  section 3), so the hypothesis cannot be weakened to any of them.
* `LargestIsPriced` where `scale = 1` comes from the same `SizeInv`, which holds wherever the
  search works in the units of its caller (`InUnits`).
* `TypesOK`: `ChainInv` bounds the sync, the other types follow from those the proofs carry.
  In a run that has parts side by side a step is one of a part and leaves the others
  alone, so that a behaviour of the run is one of every part's own specification
  (`SideBySide`): what is proved of the parts holds in the runs.

Two of the model's definitions recurse over data: the powers of two of `TradeSize` (`twoTo`) and
the sums of `OwnerLimits`.  The library's induction theorems take an operator, which no prover
here can instantiate.  Instead a set of numbers that has 0 and every successor is shown to have
all (`CountsUp`, by its least counterexample), and applied to the set of the numbers up to
which a given formula holds; with it the recursive functions are shown to exist and to
satisfy their equations (`DoublesExist`, `SumsExist`).

Only model-checked: the liveness properties, which are out of the prover's reach
(`EveryCallConcludes`, `EventuallyInSync`, `UnfundedEventuallyAdded`, `VaultFunded`,
`RequestConcludes`, `PoolsCatchUp`, `RoundEnds`), and with them the fairness of `TxSlot` in
`ImplementsTxSlot`.  Every other property of a passing run is proved.

## 5. Mutations

Each property of a passing run has a mutation of the code's behaviour that makes it
fail under the same configuration (`PROJECT.json`, "mutants"): a dropped guard, a
forgotten list, an off-by-one of a counter, a cursor that is set back.

## 6. Plan

What would be added next, in this order.

1. A reorganisation in `SubgraphSync`: the log of `EventLog` would no longer only grow, which is
   what the cursor rests on.
2. An abstract specification of `TradeSearch` (a simulated trade that pays for its gas, or
   none), and the composition of `Round` with `OwnerCursor`.
3. The average gas cost with its daily reset under background receipts, and with it which
   workers `assessWorkers` takes out; the caches of the stabull router.

## 7. Not modelled

* Single wallet mode and `addWallet`; start-up, configuration and the reset of RPC metrics.
* Reorganisations of the chain, and transactions that a query sorts before one of the same
  second that was pulled.
* The stabull router and the comparison of the routers' quotes; path finding (library code).
* Profit estimates of the other modes than raindex, the L1 part of the gas cost, calldata,
  ABI and Rainlang encoding, error messages, telemetry, YAML parsing and validation, CLI
  commands: they compute values or print them and have no state of their own.
* Which worker looks low on gas: any that is low, or none (the average gas cost is
  0 after its daily reset).
