-------------------------------- MODULE WebApp --------------------------------
(***************************************************************************)
(* The web application: the pages it mounts (frontend/src/App.tsx), one    *)
(* tab at a time, each over the contracts, nodes or relays it talks to,    *)
(* and the matching node in the tab (contexts/P2PContext.tsx).             *)
(*                                                                         *)
(* A page keeps all its state in its own component and in what it talks    *)
(* to: no page reads what another one keeps. A behaviour therefore follows *)
(* one part of the application from its opening on, and which one is       *)
(* chosen at the start. Pages in several tabs of a browser, and what a     *)
(* page that was left still does, are part of the pages' own modules.      *)
(***************************************************************************)
EXTENDS Integers

CONSTANTS
    Accounts, Me, Peer, NoOne, Idle,
    Targets, NoTarget, Eid, Mapped, BridgeFee, Funds, Pool, BridgeTyped, Expiry,
    MaxClock, MaxSent, MaxMounts,
    Delegators, ActiveSets, Counts, VotingPeriod, TimelockDelay, CooldownPeriod,
    MaxProposals, MaxTime, MaxGovCalls,
    TokenA, TokenB, Holding, Liquidity, MinLiquidity, FeeBps, FeeCap, FeeLeaves,
    MaxPriceImpactBps, VaultTyped, Traded, MaxTrades, SideBySide,
    FirstList, Lists, Scores, FirstScore, ReserveBps, FeeIn, RewardIn, OtherPeriods, Word,
    MaxCalls, MaxClaims,
    Forms, NodeCount, Storage, MaxOrders, MaxPlacements,
    UrlCount, UpRelays, Backoff, MaxConnects,
    Order, Own, Expiring, Cancellable, MaxCopies, MaxOpens, NoRow, Gone

VARIABLES
    tab,    \* the part of the application that is followed
    bridgeMount, bridgeForm, bridgeLoading, bridgeBalance, bridgeStatus, bridgeCalls,
    wallet, bridgeAllowance, locked, requests, processed, released, bridgeClock,
    proposals, ballots, delegates, lastExecuted, govClock, govRows, govLoading, reading, govCall,
    tokens, vaulted, vaultAllowed, poolAllowed, reserve, provided, trades, vaultCall,
    recipients, feePot, feeClaimed, feeDue, score, rewardPot, rewardClaimed, rewardDue,
    airdrop, contractCalls,
    listed, cardLoading, cardRead, cardClaim, boardQuery, boardError, airCard,
    account, walletAccount, online, placements, cancels, cancelLoading, lists, listCache,
    fetching, reload, broadcast, gossip, nodeOrders, nodeOpen, lastId,
    sockets, ws, urlIndex, failures, reconnectTimer, strayTimers, connects,
    up, opens, book, rows, matches, saving, trading, placing, expired, copies, cancelled, settling

Bridge     == INSTANCE BridgePage WITH Typed <- BridgeTyped
Governance == INSTANCE GovernancePage WITH MaxBusy <- MaxGovCalls
VaultTabs  == INSTANCE VaultPage WITH Typed <- VaultTyped
Claims     == INSTANCE RewardPage WITH MaxBusy <- MaxClaims
Orders     == INSTANCE OrderPage WITH First <- Me, MaxBusy <- MaxPlacements
Relay      == INSTANCE RelaySocket
P2P        == INSTANCE BrowserNode

ASSUME WebAppAssumption ==
    /\ Bridge!BridgeAssumption /\ Governance!GovernanceAssumption
    /\ VaultTabs!VaultPageAssumption /\ Claims!RewardAssumption
    /\ Orders!OrderPageAssumption /\ Relay!RelayAssumption /\ P2P!OrderAssumption
    /\ MaxMounts <= 3 /\ MaxConnects = 1

Tabs == {"bridge", "governance", "vault", "contribution", "airdrop", "orderbook", "relay",
         "p2p"}

bridgeVars == <<bridgeMount, bridgeForm, bridgeLoading, bridgeBalance, bridgeStatus, bridgeCalls,
                wallet, bridgeAllowance, locked, requests, processed, released, bridgeClock>>
governanceVars == <<proposals, ballots, delegates, lastExecuted, govClock, govRows, govLoading,
                    reading, govCall>>
vaultVars == <<tokens, vaulted, vaultAllowed, poolAllowed, reserve, provided, trades, vaultCall>>
claimVars == <<recipients, feePot, feeClaimed, feeDue, score, rewardPot, rewardClaimed,
               rewardDue, airdrop, contractCalls, listed, cardLoading, cardRead, cardClaim,
               boardQuery, boardError, airCard>>
orderVars == <<account, walletAccount, online, placements, cancels, cancelLoading, lists, listCache,
               fetching, reload, broadcast, gossip, nodeOrders, nodeOpen, lastId>>
relayVars == <<sockets, ws, urlIndex, failures, reconnectTimer, strayTimers, connects>>
p2pVars == <<up, opens, book, rows, matches, saving, trading, placing, expired, copies,
             cancelled, settling>>
vars == <<tab, bridgeVars, governanceVars, vaultVars, claimVars, orderVars, relayVars, p2pVars>>

(* Every page keeps its types.                                               *)
TypeOK ==
    /\ tab \in Tabs
    /\ Bridge!TypeOK /\ Governance!TypeOK /\ VaultTabs!TypeOK /\ Claims!TypeOK
    /\ Orders!TypeOK /\ Relay!TypeOK /\ P2P!TypeOK

-----------------------------------------------------------------------------
Init ==
    /\ tab \in Tabs
    /\ Bridge!Init /\ Governance!Init /\ VaultTabs!Init /\ Claims!Init
    /\ Orders!Init /\ Relay!Init /\ P2P!Init

(* The step of one page leaves the others as they are.                       *)
Open(t) == tab = t /\ UNCHANGED tab
BesideBridge == UNCHANGED <<governanceVars, vaultVars, claimVars, orderVars, relayVars, p2pVars>>
BesideGovernance == UNCHANGED <<bridgeVars, vaultVars, claimVars, orderVars, relayVars, p2pVars>>
BesideVaultTabs ==
    UNCHANGED <<bridgeVars, governanceVars, claimVars, orderVars, relayVars, p2pVars>>
BesideClaims == UNCHANGED <<bridgeVars, governanceVars, vaultVars, orderVars, relayVars, p2pVars>>
BesideOrders == UNCHANGED <<bridgeVars, governanceVars, vaultVars, claimVars, relayVars, p2pVars>>
BesideRelay ==
    UNCHANGED <<bridgeVars, governanceVars, vaultVars, claimVars, orderVars, p2pVars>>
BesideP2P ==
    UNCHANGED <<bridgeVars, governanceVars, vaultVars, claimVars, orderVars, relayVars>>

Next ==
    \/ Open("bridge") /\ Bridge!Next /\ BesideBridge
    \/ Open("governance") /\ Governance!Next /\ BesideGovernance
    \/ Open("vault") /\ VaultTabs!Next /\ BesideVaultTabs
    \/ Open("contribution") /\ Claims!CardsNext /\ BesideClaims
    \/ Open("airdrop") /\ Claims!AirdropNext /\ BesideClaims
    \/ Open("orderbook") /\ Orders!Next /\ BesideOrders
    \/ Open("relay") /\ Relay!Next /\ BesideRelay
    \/ Open("p2p") /\ P2P!Next /\ BesideP2P

-----------------------------------------------------------------------------
(* What runs side by side on each page, numbered. Fetches of the governance  *)
(* and contribution pages owe nothing to anybody, and withdraw, which awaits *)
(* a part of what deposit does, is not followed.                             *)
Buttons == <<"vote", "execute", "create">>
Handlers == <<"deposit", "swap", "addLiquidity">>
Cards == <<"unified", "board">>
OrderForms == <<"section", "widget", "form">>

(* The next step of the i-th of the page that is open.                       *)
Continue(i) ==
    \/ /\ Open("bridge")
       /\ \E c \in bridgeCalls : c.mount = i /\ Bridge!Continue(c)
       /\ BesideBridge
    \/ Open("governance") /\ Governance!Continue(Buttons[i]) /\ BesideGovernance
    \/ Open("vault") /\ VaultTabs!Continue(Handlers[i]) /\ BesideVaultTabs
    \/ /\ Open("contribution")
       /\ i \in DOMAIN Cards /\ Claims!Continue(Cards[i], "claim")
       /\ BesideClaims
    \/ Open("airdrop") /\ i = 1 /\ Claims!ContinueAirdrop /\ BesideClaims
    \/ /\ Open("orderbook")
       /\ OrderForms[i] \in Forms /\ Orders!ContinuePlacing(OrderForms[i])
       /\ BesideOrders
    \/ /\ Open("relay")
       /\ \/ i = 1 /\ Relay!PageConnects
          \/ i = 2 /\ Relay!TimerFires
          \/ i = 3 /\ Relay!Resolve(1)
       /\ BesideRelay
    \/ Open("p2p") /\ i = 1 /\ P2P!Continue /\ BesideP2P

(* The fairness of the pages, of the one that is open. The bounds on mounts  *)
(* and sockets are within it.                                                *)
Fairness == \A i \in 1 .. 3 : WF_vars(Continue(i))
Spec == Init /\ [][Next]_vars /\ Fairness

(* What the i-th of them keeps waiting: a button that is disabled while its  *)
(* call is under way, pages that have no connection to a relay, or handlers  *)
(* of the node.                                                              *)
Waiting(i) ==
    \/ tab = "bridge" /\ i = 1 /\ bridgeLoading
    \/ tab = "governance" /\ govCall[Buttons[i]] # Idle
    \/ tab = "vault" /\ vaultCall[Handlers[i]] # Idle
    \/ tab = "contribution" /\ i \in DOMAIN Cards /\ cardClaim[Cards[i]] # Idle
    \/ tab = "airdrop" /\ i = 1 /\ (airCard.checking \/ airCard.claiming)
    \/ tab = "orderbook" /\ OrderForms[i] \in Forms /\ placements[OrderForms[i]] # Idle
    \/ tab = "relay" /\ i = 1 /\ ~ \E s \in sockets : s.open
    \/ tab = "p2p" /\ i = 1 /\ (saving # {} \/ trading # {})

-----------------------------------------------------------------------------
(* The bridge pays out no more than was locked for it on the other chain,    *)
(* and no request twice (CrossChainBridge.sol, lzReceive).                   *)
ReleasedWasLocked == Bridge!ReleasedWasLocked

(* The counters by which a proposal passes are the weights of the ballots    *)
(* accounts have cast on it, one each (Governance.sol, vote).                *)
CountsAreBallots == Governance!CountsAreBallots

(* No trade takes value out of the pool, down to the rounding: only removed  *)
(* liquidity does (AMMPool.sol, swap and addLiquidity).                      *)
PoolKeepsProduct == VaultTabs!PoolKeepsProduct

(* Nobody is paid more than the largest share he ever had, from whichever    *)
(* cards, in a row or side by side, he claims (FeeDistributor.sol,           *)
(* ContributorReward.sol, MerkleDistributor.sol).                            *)
ClaimedOnce == Claims!ClaimedOnce

(* An order that left the page was signed by the account it names, although  *)
(* the wallet may change accounts while the page waits (OrderBookSection.tsx,*)
(* signing and verifying in handlePlaceOrder).                               *)
OnlySignedLeave == Orders!OnlySignedLeave

(* The node in the tab: its book stays sorted and indexed through messages   *)
(* that are repeated, cancels and restarts (p2p/matchEngine.ts, manager.ts). *)
BookIsSound == P2P!BookIsSound

(* A row claims no more than the matches saved for its order, for all the    *)
(* handlers that read, wait and write (p2p/orderSubscriber.ts, storage.ts).  *)
RowsBackedByMatches == P2P!RowsBackedByMatches

(* An order makes at most its amount for every time it entered the book      *)
(* (p2p/matchEngine.ts, matchSide).                                          *)
MakerFillsBounded == P2P!MakerFillsBounded

(* A trade is announced for settlement only when its match is saved          *)
(* (p2p/orderSubscriber.ts).                                                 *)
SettlingIsRecorded == P2P!SettlingIsRecorded

(* A button that was disabled for its call is released again, a page without *)
(* a relay gets one, and the handlers of the node end: the finally blocks of *)
(* the handlers, the reconnecting of wsClient.ts, and no await of            *)
(* orderSubscriber.ts waits for something that does not come.                *)
NothingHangs == \A i \in 1 .. 3 : []<>~Waiting(i)
================================================================================
