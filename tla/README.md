# TLA+ models of the P2P exchange

The repository is a peer-to-peer exchange: nodes written in Go gossip signed
orders over libp2p, match them in their own engines and keep them in SQLite;
browsers run a second, smaller node of their own and a web application; and
relayers and users submit the resulting trades to Solidity contracts that hold
the tokens. This directory models the parts where orders, quantities and tokens
can go wrong, checks them with TLC and proves the most important facts with
TLAPS.

## Inventory

Paths are relative to `src/`; `node/internal` is abbreviated `n/i`,
`frontend/src` is `f/s`.

| Component | State | Operations | Interacts with | Hard behaviour | What makes it correct |
|---|---|---|---|---|---|
| Matching engine `n/i/match/engine.go` | `pairs` (bids and asks, best first), `orderIDToPair` | `AddOrder`, `RemoveOrder`, `ReplaceOrderbook`, `Match` | handlers, restore, order-book sync, API | several goroutines, one mutex; sorted insertion; size limit | price-time order, one entry per order, index finds every entry, trades within both limits |
| Order life cycle `node/cmd/node/main.go`, `n/i/sync`, `n/i/match/restore.go` | gossip subscriptions, goroutines of one node | `OnNewOrder`, `processOrderLocally`, `OnCancelOrder`, `OnTradeExecuted`, restore | engine, store, gossip | three goroutines and the restore interleave; redelivery; crash | fills bounded by what was added; every trade stored everywhere; open rows the restore reads rest after restart |
| Store `n/i/storage` | tables `orders`, `trades`, snapshots | insert-or-replace, status update, open orders, retention | handlers, API, restore | rows written with stale state | no trade of a match without its row; rows reflect the book |
| HTTP API `n/i/api/server.go` | rate buckets, response cache | post, cancel, read | gossip | stale cache; second restore | cancels only by owner |
| WebSocket server `n/i/api/websocket.go` | clients, send queues | register, broadcast | handlers | slow clients | no client blocks the node |
| Consensus `n/i/match/consensus.go` | proposals, prevotes, precommits, committed | propose, handle proposal, handle vote | gossip, engine | reordered and lost votes, lock given up in the middle | commit once, only with a quorum behind it |
| Order-book sync `n/i/match/orderbook_sync.go` | versions, snapshot hashes | broadcast, apply, request full | engine | late full syncs, empty book | follower converges to the leader |
| Router, registry `n/i/match/router.go`, `registry.go` | pair -> nodes, node info, load | register, select, clean up | gossip | stale nodes | a selected node serves the pair |
| Relay limits `n/i/relay` | buckets, reputation counters | allow, record | order subscriber | refill, eviction | rate bound |
| Contribution proofs `n/i/metrics`, `n/i/reward` | uptime and volume counters | sample, prove, submit | ContributorReward | period change | nothing counted twice |
| Vault `contracts/src/Vault.sol` | `balances`, `settlement` | deposit, withdraw, transferOut, transferWithinVault | Settlement, ERC-20, vault tab | reverts in the middle of a batch | holds what it owes |
| Settlement `Settlement.sol`, `OrderNonceManager.sol` | nonces, whitelist, reputation, rate counters, fees | settle one, three kinds of batches, setters | Vault, FeeDistributor, NodeRewards | replays, partial failure, rounding | parties pay what they sold, nonces once |
| Fee distribution `FeeDistributor.sol`, `NodeRewards.sol` | accumulated, claimed, shares | receive, claim, set recipients | Settlement, AMM, reward card | shares change between claims | nobody gets more than the largest share it had |
| AMM `AMMPool.sol`, `AMMPoolWithLiquidityReward.sol` | reserves, liquidity shares | add, remove, swap | ERC-20, swap tab | rounding, fee caps | only removed liquidity lowers the product |
| Governance `Governance.sol`, `GovernanceExtended.sol` | proposals, votes, delegates, time lock | propose, vote, execute | governed setters, governance tab | delegation, timing | counters are ballots, executed once, with a majority |
| Bridge `CrossChainBridge.sol` | requests, processed | bridge, receive, retry | LayerZero, bridge tab | expiry, duplicates | released no more than locked |
| Contributor rewards `ContributorReward.sol` | proofs per period, pots, claims | submit, claim | reward cards | scores move, ten claims of a tenth | nobody gets more than the largest share it had |
| Registries and airdrops `MerkleDistributor.sol`, `NodeRegistry.sol`, ... | claim marks, list and map pairs | register, remove, claim | airdrop card | claimed by others | claimed once |
| Browser node `f/s/p2p`, `contexts/P2PContext.tsx` | in-memory book, IndexedDB tables, libp2p | handlers of order/new and order/cancel, match, restore, cleanup | gossip, settlement client | handlers interleave at awaits; redelivery; tab closed | sound book, rows backed by matches, handlers end |
| Settlement client `f/s/services`, `hooks/useSettleOnMatch.ts` | tables `matches`, `trades`, sync position, hook flag | settle, batch, listen, sync, backup | browser node, chain | overlapping syncs, reload between mining and writing | tables mirror the chain, no gap of decodable trades below the position |
| Order pages `f/s/OrderBookSection.tsx`, `components/OrderForm.tsx`, dashboard form | forms, lists, cache, loading flags | place, cancel, load, broadcast | nodes, wallet | the wallet switches accounts, retries over nodes | only signed orders leave |
| Contract pages `f/s/App.tsx`, `GovernanceSection.tsx`, `ContributionSection.tsx`, `components/*` | loading flags, lists, allowances | handlers of each tab | contracts | handlers side by side, failures at every await | no button hangs; the contracts' invariants under any use |
| Relay socket `f/s/services/wsClient.ts` | socket, index, timers | connect, reconnect | relays | stray timers and sockets | a relay that is up is found |
| Dashboard, charts, wallet connection, tools, scripts | - | - | - | - | not modelled |

`PROJECT.json` lists the hazards, each at the line where it bites, with the
properties that would catch it.

## Modules

| Module | Models | Checked by |
|---|---|---|
| `Subsequence` | the elements of a sequence at a set of positions, in order | used by the next and by `BrowserNode` |
| `OrderBook` | the data of one order book and the pure steps of the engine on it: insertion, removal, eviction, the stable sort of a replacement, and the outcome of a whole match without its loop | used by `MatchEngine` and `OrderNode` |
| `MatchEngine` | the engine's methods on the books of all pairs and the index; each iteration of `Match` is a step, the mutex is `taker # NoTaker` | `MCMatchEngine` |
| `DataLemmas` | sums of a function over a finite set, over the entries of a list and over the lots at its front; sets and lists that a step changes in one place | TLAPS |
| `OrderBookLemmas` | what insertion, removal, eviction, selection and the stable sort do to one side of a book, position by position | TLAPS |
| `MatchEngineProofs` | proofs about `MatchEngine` | TLAPS |
| `OrderNode` | one pair on a network of match nodes and storage nodes: the API, gossip, the three subscriber goroutines, the restore, crashes | `MCOrderNode` |
| `OrderNodeProofs` | proofs about `OrderNode` | TLAPS |
| `Settlement` | Vault, OrderNonceManager and Settlement as one ledger; a single settlement is one step, a batch is settled trade by trade under the lock and rolled back as a whole | `MCSettlement` |
| `SettlementProofs` | proofs about `Settlement` | TLAPS |
| `Consensus` | the proposal, prevote, precommit protocol between the nodes of a list | `MCConsensus` |
| `ConsensusProofs` | proofs about `Consensus` | TLAPS |
| `BrowserNode` | the node in a browser tab: engine, gossip handlers, tables, restart | in `WebApp` |
| `TradeMirror` | the abstract specification of a browser's tables of settled trades | refined by the next |
| `SettleClient` | the hook, batch, listener, sync, backup and cleanup that fill those tables | `MCSettleClient` |
| `SettleClientProofs` | proofs about `SettleClient`, the refinement of `TradeMirror` among them | TLAPS |
| `BridgePage` | the bridge tab and the bridge contracts on both chains | in `WebApp` |
| `GovernancePage` | the governance tab and `Governance.sol` | in `WebApp` |
| `VaultPage` | the vault and swap tabs, `Vault.sol` and `AMMPool.sol` | in `WebApp` |
| `RewardPage` | the three claim cards, `FeeDistributor.sol`, `ContributorReward.sol`, `MerkleDistributor.sol` | in `WebApp` |
| `OrderPage` | the three order forms, the lists and their cache, the requests to nodes | in `WebApp` |
| `RelaySocket` | the socket to the relays | in `WebApp` |
| `WebApp` | the composition of the six pages and the node in the tab | `MCWebApp` |
| `WebAppProofs` | proofs about each of them, within `WebApp` | TLAPS |

### From the code to the state

* `MatchEngine.books[p]["buy"]` and `["sell"]` are `OrderBook.Bids` and `.Asks`;
  an absent pair is the empty book. Prices and amounts are natural numbers: the
  code computes on `big.Float` and prints 18 decimals, which the models read as
  integers in units of 10^-18, leaving rounding out.
* An action of `MatchEngine` is an engine method, which holds the mutex for its
  whole run. `Match` alone is split into `MatchBegin`, `MatchFill` (one
  iteration) and `MatchEnd`, so that `MatchIsOutcome` can compare the loop with
  its declarative outcome. `OrderNode` then uses that outcome as one step.
* In `OrderNode` an action runs from one engine call or SQL statement of a
  goroutine to the next; between them the other goroutines may run. `task`,
  `cancelling` and `restore` are the program counters and locals of the
  order/new goroutine, the order/cancel goroutine and the main goroutine.
* `Settlement` treats a reverted transaction as no step. In a batch the
  intermediate states are visible to the properties but to no other
  transaction: that is what the chain and `nonReentrant` guarantee. The legacy
  single `relayer` address is a whitelisted relayer here; a caller's order
  signature and Merkle proof are not looked at. The share of a fee that
  `FeeDistributor.receiveFee` passes on to the developer counts as held by
  `FeeDistributor`.
* `Consensus` has no separate loss action: a message that is never handled is a
  lost one. Proposal identifiers carry a time stamp, so one is proposed once.
* In the browser modules an action runs from one await of a handler to the
  next: a page has one thread. What is under way is a set (`trading`, `jobs`,
  `heard`, `bridgeCalls`, ...) whose members hold the handler's locals and, in
  `at`, the await it has come to. IndexedDB takes requests in the order they are
  issued, so a request belongs to the step that issues it.
* In `BrowserNode` memory (`book` and the handlers) dies with the tab, `rows`
  and `matches` stay. The node does not hear its own messages (`emitSelf` is
  off), so an own order enters its book only when a restart restores it.
* `SettleClient` has one transaction per block; `sync` holds a record for each
  call of `incrementalSync`, and a slot is a call that may overlap others: the
  interval does not wait for the last one.
* The pages' modules contain the contract side that the page relies on, and
  other users of the contract as `Others`. A step of a page that only changes
  what is displayed is left out unless a later step reads it. What a user types
  comes from a small set.
* The tabs of `WebApp` share no state: each keeps its own and what it talks to,
  and the node has its book and tables to itself among them (what the settlement
  client does with the tables is `SettleClient`'s). `WebApp` therefore chooses
  the open tab, or the node, in the initial state and lets its module run beside
  the unchanged others.

The mutated variants (`InsertOrderSorted_Append`, `SettleOne_FeeOnTop`, ...)
next to a definition are plausible mistakes in the code it models. Each breaks
the property PROJECT.json names beside it, which shows that the property looks
at that code.

## Runs

| Run | Bounds | What it shows |
|---|---|---|
| `match` | two pairs; in one of them five identifiers with several versions, two resting orders per side at most; replacement snapshots; clock to 2 | all book invariants, the index across pairs, side limits, priority, price limits, loop = outcome |
| `node_restart` | one match node, a bid and an expiring ask, each published twice, a cancel, one crash, a restore of one row a side, clock to 2 | open rows rest again, also when the crash falls between two statements; quantities bounded under redelivery and cancels |
| `node_limits` | one match node, a bid and two asks of different age and price, each published twice, one crash, a restore that reads two rows and keeps one of a side | an open row is missing from the book only where the restore's LIMITs cut it off; without a crash every trade keeps a row of its identifier, also when a taker is matched again |
| `node_delivery` | one match node, one storage node, no crash, fair goroutines | trades reach every store |
| `settle` | two users, one relayer, two tokens, two trades, three transactions of at most two trades, savings 0 and 4, two rate windows, changing fee and reputation threshold | conservation, exact debits, rebate bound, nonces consumed once |
| `consensus_agree` | four nodes, one of them down (the one fault that 2f+1 of 4 allows), one proposal | commit once, commit backed by a quorum |
| `settle_client` | two matches, which others may settle too, one of them with a log the client decodes and one without, one account or none, two blocks, the page opened twice, one sync at a time, one batch, one backup | the tables refine `TradeMirror`, no gap of decodable trades below the position, one hook at a time, and it is freed |
| `web_app` | bridge: two targets, one without an EID, two transfers, two mounts, one clock tick past the expiry; governance: one proposal, two accounts that delegate, two handlers at a time; swap tab: two tokens, one amount per handler, a fee of a tenth with a cap on one token, a fee distributor, two transactions, the owner's removal of others' liquidity among them, `swap` beside `addLiquidity`; claims: two accounts, two recipient lists, a reserve of 15%, four transactions; the airdrop card by itself; orders: three forms, two accounts, two nodes, one order; relays: three, one of them up, one page; the node: an ask delivered twice, a bid that expires, an own bid, one cancel, started twice, stopped at any point | released = locked, counters = ballots, no claim beyond the largest share, only signed orders leave, only removed liquidity lowers the pool's product; sound book through redelivery and restore, rows backed by matches under interleaved updates, fills bounded, announcements recorded; no button and no handler hangs |

The bounds reach the cases that matter: an ask smaller and an ask as large as
the bid they meet, a bid that fills two asks and one filled in part; a side at
its limit; a re-publication before, during and after the first one; a second
trade of a batch that fails after the first has moved tokens; two handlers that
have read the same maker's row; a page closed between a mined transaction and
the write of its hash; a fee that comes in, is claimed, and a recipient whose
share shrinks below the claim before it claims again, where the subtraction
wraps; a reward that takes two claims, with a score that moves between them; a
swap whose fee meets its cap; an account that votes for itself and as a delegate. A third order on a side, a
second crash, a third trade in a batch or a third handler repeat these.
Overlapping syncs are out of the run's bound and in the proof, which holds for
any number of them; so are rebates whose division rounds (`RebateBounded`; the
run's divide evenly) and a pool without a fee distributor, whose fees stay in
its reserves. `RestoreLimit` stands for the 500 rows a side and twice as many in
all that a restore asks for (`main.go:233`, `restore.go:21`), far below the
10000 a side that the engine holds.

Deadlock checking is on for `match`, whose engine always accepts a call, and
off in the other runs because the bounds on publications, transactions,
proposals and calls end every behaviour there; nothing in the code stops.

### What the properties do not see

* The identifier of an order is taken to belong to one order, one pair and one
  side (`OrdersAssumption`). The code does not enforce it: `OnNewOrder` checks no
  signature and `AddOrder` removes an older copy in `o.Pair` only. That a
  snapshot is within the side limit is assumed as well (`SnapshotsAssumption`),
  so that `SidesBounded` looks at insertion and eviction.
* `FillsBoundedByCopies` and `MakerFillsBounded` count every delivery and every
  restore as another copy, and the first counts makers and takers apart: that an
  order is sold again after a restart, or as maker after it was matched as taker,
  is what the code does, and they bound it without excluding it.
* `TradesKeepRows` asks for a row of the trade's identifier. When an order is
  delivered again and meets the same maker at the same place of its match, the
  two trades share identifier and row. In a browser, where an identifier holds
  `Date.now()`, two trades of one millisecond could; this is left out.
* `SyncLeavesNoGap` speaks of trades the client decodes, see below.
* `ReleasedWasLocked` compares releases with requests: that a transfer was
  still within its time is not part of it, nor is what the owner takes out with
  `withdrawFees` (`CrossChainBridge.sol:300`).
* `HookIsFreed` and `NothingHangs` assume that the wallet answers and that
  `tx.wait()` ends, for which the code has no timeout. `NothingHangs` follows the
  handlers numbered in `Continue` and the airdrop card, and neither `withdraw`,
  the cancel buttons nor the loading of the lists; its relay part is for one
  connected page.
* `PoolKeepsProduct` is about the reserves alone. Two handlers on one allowance
  cannot break it; that both of them end is part of `NothingHangs`.

### Fairness

* `node_delivery`: weak fairness of each subscriber goroutine and of the
  restore, loops around `sub.Next` that return only with the node. Messages are
  finitely many, so a weakly fair loop handles each of them.
* `settle_client`: weak fairness of the hook's call: the wallet answers or
  refuses, a transaction is mined or fails, and IndexedDB completes. The batch,
  the syncs and the listener owe nothing.
* `web_app`: weak fairness of each handler that is under way on the open page,
  numbered in `Continue`; a call that can neither succeed nor fail further has
  no place in the code, whose every await ends in a result or an exception. For
  the socket: it resolves, and timers fire. For the node: the steps of handlers
  that are under way, whose awaits are IndexedDB requests and publishing, which
  may fail. Nothing that a user, a message or a clock does is fair.

### Where the code departs from its documentation

These runs check one statement of a comment, a document or a test, and TLC
finds a behaviour that contradicts it.

| Run | Statement | What happens |
|---|---|---|
| `node_unmatched` | `engine.go:208`: AddOrder adds "the unmatched part" | `processOrderLocally` adds the whole order and matches a copy of it afterwards |
| `settle_replay` | `OrderNonceManager.sol:5`: orders cannot be replayed | the batch entry points use no nonces |
| `consensus_threshold` | `consensus.go:283`: a quorum of prevotes leads to a precommit | votes counted before the proposal arrived are thrown away with it |
| `settle_client_filter` | `chainSync.ts:200`: the sync of a user filters the user's trades | it asks for trades in which the user is maker and taker, which the contract refuses (`Settlement.sol:249`): it finds nothing |

Others were met while modelling and are in the models, as the code has them,
without a run of their own:

* On a node, the cancel handler and the order handler, or the restore,
  interleave: a row says cancelled and the order rests (`main.go:458`,
  `engine.go:362`). Every match node matches in its own order of arrival, so
  nodes that handled the same orders make different trades (`main.go:415`, while
  `orderbook-match/SKILL.md:10` asks for determinism). Rows of makers are never
  updated, so that a fully traded maker comes back in full (`main.go:438`,
  `restore.go:9`). A restore reads the 1000 oldest open rows and keeps the 500
  best of each side, so that others stay off the book with an open row although
  the engine has room (`main.go:233`, `restore.go:21`, `orders.go:100`).
* A whitelisted relayer's reputation starts at 0, 5000 is required and only
  settling earns it (`Settlement.sol:169`, against `Settlement.sol:22` and
  `Settlement.t.sol:97`).
* In a browser, a handler that read a maker's row before a cancel reopens the
  row after it; two overlapping fills of a maker lose one (`storage.ts:270`).
  `expiresAt` is written in seconds (`OrderForm.tsx:143`) and documented and
  compared in milliseconds (`types.ts:10`, `storage.ts:145`): own orders are
  expired from the start. `P2PManager.start` sets `isStarted` only at its end, so
  two calls make two nodes (`manager.ts:31`).
* The page's ABI of `TradeSettled` has `tokenIn` not indexed (`chainSync.ts:11`)
  where `Settlement.sol:52` indexes it, so that ethers decodes no such log and
  the sync passes each one over (`chainSync.ts:243`). As the position moves to the
  last trade that was *decoded* (`chainSync.ts:305`), it stays at 0 then, and
  every sync starts from the first block and finds nothing. Where some logs are
  decoded and others not, as `Readable` lets the model have it, the others stay
  behind the position for good. `TradeSettledWithGasReimburse` has a fourth
  indexed parameter (`Settlement.sol:58`), which solc does not accept. The
  listener reads `transactionHash` from the payload of ethers 6, which has it one
  level down (`chainSync.ts:131`): its rows share the key `undefined-...` and
  overwrite each other, which is why `live` holds one row.
* An imported backup takes the hashes of later settlements away again
  (`storage.ts:422`); `TradeMirror` allows this one step backwards by name. The
  page's ABI of `settleTrade` has eight arguments where the contract takes ten
  (`config.ts:118`).
* The page's ABI of `getProposal` has one value less than the contract returns
  (`config.ts:84`), so that `executed` shows whether `executableAt` is set
  (`GovernanceSection.tsx:68`): every proposal is shown as executed. Rows are
  numbered by position, so that a failed read shifts votes to other proposals.
* The receiving bridge computes the request's identifier from other values than
  the sending one, "consistent" as its comment calls it
  (`CrossChainBridge.sol:193`): the status on the page stays pending. A transfer
  to a chain without an EID is approved before it is refused.
* When a score falls after a claim, `claimable` reverts and with it the whole
  fetch of the reward card (`ContributorReward.sol:297`).
* Every answer that carries a new book starts the next load of all lists
  (`OrderBookSection.tsx:170`). One `cancelLoading` serves all cancellations. A
  request whose answer is lost goes to the next node as well
  (`nodeClient.ts:21`).
* From two connected pages on, sockets move the common relay index in lockstep
  and may skip the relay that is up for ever (`wsClient.ts:90`);
  `WebAppAssumption` keeps `MaxConnects` at 1 for that reason.
* `engine.go:286` has a closing brace too many, so the package does not compile
  at this commit (the model follows the evident function bodies);
  `Settlement.t.sol` calls `settleTrade` with eight arguments.

## Refinement

`TradeMirror` says in six actions what a browser's tables of settled trades
promise: the chain only grows, a match gets the hash of a transaction that
settled it, rows are written only from the chain, and only a restored backup goes
back. `SettleClient` implements it with the obvious mapping (`Mirror ==
INSTANCE TradeMirror WITH chain <- chain, ...`), each step of a hook, a batch, a
sync, the listener or the page being a step of the mirror or a stutter:
`MirrorsChain == Mirror!Spec` is a property of `settle_client` and the theorem
`TablesMirrorChain`.

## Proofs

Every invariant and every action property of the passing runs is a theorem, for
all values of the constants that the assumptions allow; what is left to TLC is
liveness and the four statements the code does not keep. An action property
follows from the invariant that its module's other theorems use.

`MatchEngineProofs` proves all of `MatchEngine`'s invariants and action
properties, for every set of orders, snapshots and pairs and every limit. The
invariants of a book are not inductive one by one: taking the first order is
best-first only if the side is in order, the index is complete after a
cancellation only if the identifier rests nowhere else, and a side has room for
a resubmitted order only if the copy rests on the side the order names. The
inductive invariant `IInv` says all of it at once:

* `SideInv`: a side consists of orders of its pair and side with something left
  (`Entry`), each identifier once, in order, within the limit;
* `BookInv`: no identifier on both sides;
* `BooksInv`: the index names the pair of every resting identifier;
* `OfPair`, in `Entry`: a resting identifier is submitted for this pair and side
  only. This is where the assumptions enter: an identifier is made by the wallet
  that signs the order, so all its versions have one pair and one side, and
  snapshots are copies of such books (`OrdersAssumption`,
  `SnapshotsAssumption`, `SnapshotPairsAssumption`).

One lemma per method shows that it keeps a book well formed (`AddKeepsBook`,
`RemoveKeepsBook`, `ReplaceKeepsBook`, `FirstLeaves`, `FirstIsFilled`,
`TrimKeepsBook`), one per action that it keeps `IInv`. They rest on
`OrderBookLemmas`: where `insertOrderSorted` stops (`InsertOrderSortedPlaces`),
that a numbering by a total order is a bijection (`Numbering`), and with it that
the stable sort of a replacement is a permutation in price-time order
(`SortOrdersSorts`). TLC has checked `IInv` on the instance of `match` too.

`MatchIsOutcome` compares the loop with the outcome that `OrderNode` uses. The
loop's invariant `MatchInv` gives, for the book `before` the match, the number of
trades made and of makers gone: the fills of `Fills` up to there are what the
trades say, what is left of the side is the rest from there with its first order
reduced (`RestOf`), and the taker has used up the sum (`Used`). Each iteration
moves one of the two numbers, and where the loop stops no further fill is
positive. `Fills` is written without recursion, over the sums `Offered` of the
lots in front, so that this needs no induction over books.

`ConsensusProofs` proves, for every finite list of nodes and every set of
proposals, `Spec => []TypeOK`, `Spec => []CommitBacked` and
`Spec => []CommitOnce`. `CommitBacked` is not inductive: that a commit has a
quorum behind it depends on where precommits come from, and those on where
prevotes come from. The inductive invariant `IInv` adds

* `PrevotesFromValidators`: a prevote, counted or under way, is by a node that
  has registered the proposal (HandleProposal registers before it votes);
* `PrecommitsBacked`: as soon as one precommit exists, a quorum has registered
  the proposal, because its sender counted that many prevotes;
* `OncePerCommit`: the number of calls of `onCommit` is 1 for a committed
  proposal and 0 for another.

Registration only grows, so what is backed stays backed (`BackedMonotone`), and
the resets of the vote maps only take votes away. The only assumptions are that
the list of nodes is finite and the leader is on it and up.

`OrderNodeProofs` proves, for every set of nodes and orders and all bounds,

* `Spec => []TypeOK`, from `TypeInv`, which adds that a side holds orders of that
  side with something left, none twice (`BookSound`), that a row is a posted
  order, open or cancelled (`RowInv`), and what a goroutine holds at each of its
  statements (`TaskType`);
* `Spec => []FillsBoundedByCopies`. `FillInv` counts what an order has sold and
  what rests of it together: adding a copy replaces the one that rests, so sold
  plus resting stays within amount times copies, and is at least the amount of
  one. On the taker's side it counts the match a goroutine is about to make;
* `OpenRowsStayOnBook`: `Spec => []OpenRowsRest`, for every `RestoreLimit`, if a
  side has room for all orders, since an order pushed off a full side leaves its
  row open. `PlacedInv` says of an open row that the order rests, is sold out,
  has expired, was cancelled or is `Outnumbered` by rows that the restore may
  prefer, or that a restore pass or the list of the current one will still come
  to it; a row becomes open only after `AddOrder`. A row that a pass leaves out
  is outnumbered by what the pass took (`FirstRows`), and stays so, since rows
  are never deleted;
* `TradesAreKept`: `Spec => []TradesKeepRows`. `SavedTradesInv` says that, until
  a node stops, each trade made has a row of its identifier or is still with the
  goroutine that made it; a write replaces a row only by one of the same
  identifier, so that rows of an identifier stay however often orders are
  delivered or trades received.

`SettlementProofs` proves, for every finite set of users and every set of
relayers, tokens and trades, all fees, gas, savings and score bounds:

* `Spec => []NonceOnce`, from the invariant that a nonce has been consumed once
  if it is marked as used and never otherwise. Maker and taker differ, so the two
  updates of one settlement never meet;
* `Spec => []VaultSolvent` and `Spec => []TypeOK`, from `LedgerInv`. The Vault's
  debt is the sum of a function over the users, which a settlement changes at
  two of them and the fee and gas at the same two (`OwedChange`,
  `SettleOneSolvent`). `SavedInv` says the same of the state a batch will return
  to if it fails, without which a roll-back could restore anything;
* `Spec => PartiesPayWhatTheySold`, an action property, from the same invariant:
  the step that settles a trade is `SettleOne` with what is due, and a roll-back
  settles nothing (`SavedInv` again: its counters are no higher);
* `Spec => RebateBounded`: each share is rounded down, so no fee falls below
  zero, and the sum of the shares is within the pot because multiplying out
  `share * total <= pot * fee` and adding over the batch gives `sum * total <=
  pot * total` (`SumShare`).

`SettleClientProofs` proves, for any deals, users and overlapping syncs, the
refinement `Spec => MirrorsChain`, `Spec => []SyncLeavesNoGap`,
`Spec => []HookSettlesOne` and `Spec => []TypeOK`. None of them is inductive:

* `MirrorInv` adds that what a call has yet to write is on the chain when it
  comes to writing (`JobsOnChain`), that events heard and found by a sync are
  on the chain, and that a backup holds nothing else. `NextMirrors` shows
  `MirrorInv` kept and each step a step of the mirror.
* `GapInv` adds what each sync knows at the await it has come to (`SyncKnows`):
  nothing below its first block is missing, it has found all it asked for up to
  the block number it read, and has saved it before it moves the position. A
  sync that ends late may move the position back, never over a gap.
* `TypeInv` bounds blocks, jobs and syncs by the chain's head, which the types
  of the tables need.

`WebAppProofs` proves all invariants and action properties of `WebApp`. Each page,
and the node, has an inductive invariant over its own variables; the `StepOf`
lemmas say that every step of the application is a step of that module or leaves
its variables alone, so that the invariant holds of `WebApp`'s `Spec`.

* Governance, `Spec => []CountsAreBallots`: `GInv` says of each proposal that its
  counters are the cardinalities of two disjoint finite sets of ballots with one
  ballot per voter (`Counted`); `BallotAdded` is the one step that changes them.
  Execution only reads the counters, and voting ends before it begins to count.
* Orders, `Spec => []OnlySignedLeave`: `OrdersInv` says of a placement that is
  past the check of its signature that its signer is its trader
  (`CheckedIsSigned`), whatever the wallet has done since. The account a handler
  took before its first await is a local of it.
* Claims, `Spec => []ClaimedOnce`: `ClaimsInv` says that all fees ever received
  fit a word (`FeesDue`), so that a difference that wraps exceeds what the
  contract holds and the transfer reverts (`WrapsDown`); and that what an account
  has claimed, of the fees and of the rewards, is at most the largest share it
  ever had (`feeDue`, `rewardDue`). What cards have read only has types, since
  the contract trusts none of it.
* Bridge, `Spec => []ReleasedWasLocked`: `BridgeInv` numbers requests, so that a
  new one is none of the old and the sums grow by its amount; what is processed
  is a subset of what was requested.
* Swap, `Spec => PoolKeepsProduct`: with `out` rounded down, `(x + in) * (y - out)
  >= x * y` whatever the fee, its cap and whether it leaves the pool
  (`SwapKeepsProduct`), and a deposit adds to both reserves (`AddKeepsProduct`).
  Only `RemoveLiquidity`, by a provider or by the owner, may lower the product. Products of variables are out of the solver's
  reach; they are multiplied out with `Distribute` and `CancelFactor`.
* Relay socket: `RelayInv`, the types and the bound on sockets and timers that
  they need.
* The node, from `NodeInv`: `Spec => []BookIsSound`, `[]RowsBackedByMatches`,
  `[]MakerFillsBounded` and `[]SettlingIsRecorded`. Its parts lean on each other.
  `BookSound` says that a side is in order, its lots have something left and are
  of that side, no identifier twice, and the index is exactly what rests.
  `TradesOnce` says that each trade is known by the message that made it and
  handled by one continuation, and is saved from its publication on: a trade is
  counted once. `RowsWritten` bounds a row, and what a handler has read of one,
  by the trades already *written* to rows, not by all that are saved: only then
  do a handler's read amount and its own trade together stay within what is
  saved, however many others write in between. `MadeBounded` is the amount made,
  plus the amount of every handler of the order still under way, plus what rests
  of it: a handler under way takes that lot off and puts the full amount on.
  `NodeDown` says that memory is empty while the node is down and that nothing
  is saved before its first start, which gives the `- 1` of the bound.
* `TypesStay`: `Spec => []TypeOK`, from all of them.

The sums of these proofs are `SumFunctionOnSet` of the community modules.
`DataLemmas` derives what they need (`SumChange`, `SumSubset`, `SumShare`,
`SumOfFront`, ...) from its definition by a chosen function, once, with induction
over numbers written out as facts about sets of numbers
(`SetOfNatInduction`), since the library's induction theorems take an operator.

The assumptions are those of the modules, which TLC evaluates in every run:
bounds are numbers; identifiers belong to one order, and what may be cancelled is
an order's identifier; the contracts' addresses differ from each other and from
the users'; users, orders and nodes of a list are finitely many where something
is counted over them (`Settlement`, `BrowserNode`, `Consensus`); maker and taker
of a trade differ, as `Settlement.sol:249` requires; the bound on messages lets an own
order be published. `Idle`, `NoTx` and the like are none of the records they
stand beside. Of `WebApp`, `MaxConnects = 1` and `MaxMounts <= 3` carry over into its
theorems: the first is what `NothingHangs` needs, the second the number of
handlers that `Continue` names; no proof uses either bound. The theorem
`OpenRowsStayOnBook` states its own hypotheses, named above, and the instances
that TLC checks satisfy them.

Only model-checked: the liveness properties (`TradesReachStores`, `HookIsFreed`,
`NothingHangs`), since fairness is out of the prover's reach, and the four
statements that the code does not keep, which TLC refutes.

## Not modelled

* On the node: order-book synchronisation, router and registry, relay limits,
  the response cache, WebSocket queues, retention and period statistics, the
  node's contribution proofs, forwarding.
* In the contracts: `NodeRewards`, `AMMPoolWithLiquidityReward`,
  `GovernanceExtended` and multi-step proposals, `AirdropDistributor`, the
  registries, owners' setters that only replace an address or a parameter.
* In the browser: the handler of trade/executed, which saves other nodes' trades
  for display; validation of what is typed; the lists of trades, charts, prices,
  previews and gas estimates; chain switching and wallet connection; display
  caches of balances and reserves; the SDK and the service worker.
* Cryptography, encodings, libp2p, IndexedDB and SQLite themselves.

## Plan

Done: the engine, the node's order life cycle, settlement, consensus, the
browser's node and settlement client with its abstract specification, the pages
with their contracts, and the proofs above. What is left, in order:

1. `OrderbookSync` (leader and follower, late full syncs) over the interface of
   `MatchEngine`; `Router` with the registry.
2. `AMMPoolWithLiquidityReward`, `NodeRewards`, multi-step proposals, the
   registries.
3. An abstract `OrderLedger` (an order is posted, filled by quantities, closed)
   with `OrderNode` and `BrowserNode` shown to implement the part of it that
   holds, and an abstract custody ledger implemented by `Settlement`.
4. Proofs of that custody ledger's refinement, and of the engine's invariants
   within `OrderNode`'s network (priority of the trades a node makes).
