----------------------------- MODULE SettleClient -----------------------------
(***************************************************************************)
(* How a browser settles its matches and mirrors the chain: the hook that  *)
(* settles a match when it is announced (hooks/useSettleOnMatch.ts), the   *)
(* calls it makes (services/settlementService.ts), the listener and the    *)
(* incremental sync of chain events (services/chainSync.ts), the tables    *)
(* they write (p2p/storage.ts) and the page that starts all of it          *)
(* (App.integration.example.tsx).                                          *)
(*                                                                         *)
(* The contract is external: a transaction is mined or fails, and an event *)
(* names maker, taker and block. Handlers interleave at their awaits.      *)
(***************************************************************************)
EXTENDS Naturals, FiniteSets

CONSTANTS
    Deals,         \* trades that two makers and takers agree on
    Mine,          \* those this browser's engine matched and announces
    Maker, Taker,  \* per deal
    Readable,      \* deals whose log the ABI of chainSync.ts decodes
    Users, NoUser,
    Slots,         \* bound: syncs that may be under way at once
    Old,           \* bound: deals a run lives to see past the retention time
    MaxBlock,      \* bound: blocks that hold settlements
    MaxOpens,      \* bound: times the page is opened
    NoMatch

ASSUME SettleAssumption ==
    /\ Mine \subseteq Deals /\ Readable \subseteq Deals /\ NoUser \notin Users /\ NoMatch \notin Nat
    /\ MaxBlock \in Nat /\ MaxOpens \in Nat
    /\ \A d \in Deals : Maker[d] # Taker[d]     \* Settlement.sol requires it

VARIABLES
    chain,     \* settlements mined: [deal, block]
    head,      \* the latest block
    hash,      \* table matches: NoMatch, 0, or the block of the txHash
    saved,     \* table trades: rows a sync put, keyed by txHash and index
    live,      \* table trades: the row the listener put, if any, as a set
    position,  \* localStorage lastSyncedBlock
    copy,      \* the last backup exported, if any, as a set
    page,      \* "closed", "asking" for the account, "open"
    opens,     \* how often it has been opened
    user,      \* account of the page
    settling,  \* the ref of useSettleOnMatch
    jobs,      \* settleTrade and settleTradesBatch calls under way
    heard,     \* handleTradeEvent calls under way
    listening, \* isListening of chainSyncService
    sync,      \* incrementalSync calls under way, one per slot
    cleaned,   \* history: confirmed rows that were cleaned up
    askers     \* history: users whose sync has moved the position

tables == <<hash, saved, live, position, copy, cleaned, askers>>
client == <<settling, jobs>>
listener == <<heard, listening>>
vars == <<chain, head, tables, page, opens, user, client, listener, sync>>

Event == [deal : Deals, block : 1 .. MaxBlock]
Idle == [at |-> "idle"]
TypeOK ==
    /\ chain \subseteq Event /\ head \in 0 .. MaxBlock
    /\ hash \in [Deals -> 0 .. MaxBlock \cup {NoMatch}]
    /\ saved \subseteq Event /\ live \subseteq Event /\ position \in 0 .. MaxBlock
    /\ copy \subseteq [hash : [Deals -> 0 .. MaxBlock \cup {NoMatch}],
                       saved : SUBSET Event, live : SUBSET Event]
    /\ page \in {"closed", "asking", "open"} /\ opens \in 0 .. MaxOpens
    /\ user \in Users \cup {NoUser}
    /\ settling \in BOOLEAN /\ listening \in BOOLEAN
    /\ jobs \subseteq [by : {"hook", "batch"}, left : SUBSET Mine,
                       at : {"send", "wait", "write"}, block : 0 .. MaxBlock]
    /\ heard \subseteq Event
    /\ sync \in [Slots -> {Idle} \cup [at : {"number", "query", "blocks", "mark"},
                                       as : Users \cup {NoUser}, from : 1 .. MaxBlock + 1,
                                       upTo : 0 .. MaxBlock, found : SUBSET Event]]
    /\ cleaned \subseteq Event /\ askers \subseteq Users \cup {NoUser}

-----------------------------------------------------------------------------
(* The tables.                                                               *)

Unsettled(d) == hash[d] = 0
Parties(d) == {Maker[d], Taker[d]}

(* db.matches.update: the row is there, a match is announced after its save. *)
UpdateMatchTxHash(d, block) ==
    hash' = IF hash[d] = NoMatch THEN hash ELSE [hash EXCEPT ![d] = block]

(* tradeId is made of event.transactionHash and event.index, which the       *)
(* payload ethers 6 hands to a listener keeps in its log: they are undefined *)
(* here, and every row of the listener takes the place of the one before.    *)
SaveTrade(e) == live' = {e}
SaveTrades(S) == saved' = saved \cup S

-----------------------------------------------------------------------------
Init ==
    /\ chain = {} /\ head = 0
    /\ hash = [d \in Deals |-> NoMatch]
    /\ saved = {} /\ live = {} /\ position = 0 /\ copy = {}
    /\ cleaned = {} /\ askers = {}
    /\ page = "closed" /\ opens = 0 /\ user = NoUser
    /\ settling = FALSE /\ jobs = {} /\ heard = {} /\ listening = FALSE
    /\ sync = [s \in Slots |-> Idle]

(* settleTrade: parameters, then the wallet is asked to send.                *)
SettleTrade(d) == jobs' = jobs \cup {[by |-> "hook", left |-> {d}, at |-> "send", block |-> 0]}

(* The engine announces a match it has saved. The hook settles it unless it  *)
(* is still busy with another, whose event it then ignores.                  *)
HandleMatch_NoRef(d) ==
    /\ page # "closed" /\ d \in Mine /\ hash[d] = NoMatch
    /\ hash' = [hash EXCEPT ![d] = 0]
    /\ IF user = NoUser THEN UNCHANGED client
       ELSE settling' = TRUE /\ SettleTrade(d)
    /\ UNCHANGED <<chain, head, saved, live, position, copy, cleaned, askers, page, opens, user,
                   listener, sync>>
HandleMatch(d) ==
    /\ page # "closed" /\ d \in Mine /\ hash[d] = NoMatch
    /\ hash' = [hash EXCEPT ![d] = 0]
    /\ IF user = NoUser \/ settling THEN UNCHANGED client
       ELSE settling' = TRUE /\ SettleTrade(d)
    /\ UNCHANGED <<chain, head, saved, live, position, copy, cleaned, askers, page, opens, user,
                   listener, sync>>

(* settleTradesBatch, called by the integrator for matches not settled yet.  *)
SettleTradesBatch(S) ==
    /\ page = "open" /\ user # NoUser /\ S # {} /\ \A d \in S : Unsettled(d)
    /\ \A j \in jobs : j.by # "batch"           \* bound: one batch at a time
    /\ jobs' = jobs \cup {[by |-> "batch", left |-> S, at |-> "send", block |-> 0]}
    /\ UNCHANGED <<chain, head, tables, page, opens, user, settling, listener, sync>>

Replace(j, S) == jobs' = (jobs \ {j}) \cup S
EndJob_KeepRef(j) == Replace(j, {}) /\ UNCHANGED settling
EndJob(j) ==
    /\ Replace(j, {})
    /\ settling' = (settling /\ j.by # "hook")

(* The wallet sends the transaction, or refuses and the call returns error.  *)
SendTransaction(j) ==
    /\ j \in jobs /\ j.at = "send"
    /\ \/ Replace(j, {[j EXCEPT !.at = "wait"]}) /\ UNCHANGED settling
       \/ EndJob(j)
    /\ UNCHANGED <<chain, head, tables, page, opens, user, listener, sync>>

(* A listening contract object hears the events of a block that it decodes:  *)
(* ethers swallows what decodeEventLog throws.                               *)
Decoded(events) == {e \in events : e.deal \in Readable}
Hear(events) ==
    heard' = IF listening THEN heard \cup Decoded(events) ELSE heard

(* tx.wait(): the transaction is mined, or reverts.                          *)
WaitMined_NoWait(j) ==
    /\ j \in jobs /\ j.at = "wait" /\ head < MaxBlock
    /\ Replace(j, {[j EXCEPT !.at = "write", !.block = head + 1]})
    /\ UNCHANGED <<chain, head, tables, page, opens, user, settling, listener, sync>>
WaitMined(j) ==
    /\ j \in jobs /\ j.at = "wait" /\ head < MaxBlock
    /\ LET events == {[deal |-> d, block |-> head + 1] : d \in j.left} IN
       chain' = chain \cup events /\ Hear(events)
    /\ head' = head + 1
    /\ Replace(j, {[j EXCEPT !.at = "write", !.block = head + 1]})
    /\ UNCHANGED <<tables, page, opens, user, settling, listening, sync>>
WaitFailed(j) ==
    /\ j \in jobs /\ j.at = "wait"
    /\ EndJob(j)
    /\ UNCHANGED <<chain, head, tables, page, opens, user, listener, sync>>

(* updateMatchTxHash for one trade after the other; the last ends the call.  *)
WriteTxHash(j) ==
    /\ j \in jobs /\ j.at = "write"
    /\ \E d \in j.left :
          /\ UpdateMatchTxHash(d, j.block)
          /\ IF j.left = {d} THEN EndJob(j)
             ELSE Replace(j, {[j EXCEPT !.left = @ \ {d}]}) /\ UNCHANGED settling
    /\ UNCHANGED <<chain, head, saved, live, position, copy, cleaned, askers, page, opens, user,
                   listener, sync>>

(* Trades are settled by others, the counterparty of this browser's matches  *)
(* among them, and by transactions sent from a page now closed; bound: one   *)
(* trade a block.                                                            *)
OthersSettle(d) ==
    /\ head < MaxBlock
    /\ LET e == [deal |-> d, block |-> head + 1] IN chain' = chain \cup {e} /\ Hear({e})
    /\ head' = head + 1
    /\ UNCHANGED <<tables, page, opens, user, client, listening, sync>>

(* handleTradeEvent: getBlock, then the row is put; when getBlock fails the  *)
(* event is dropped. updateRelatedOrders looks for rows of status 'matched', *)
(* which nothing writes.                                                     *)
HandleTradeEvent(e) ==
    /\ e \in heard
    /\ heard' = heard \ {e}
    /\ SaveTrade(e) \/ UNCHANGED live
    /\ UNCHANGED <<chain, head, hash, saved, position, copy, cleaned, askers, page, opens, user,
                   client, listening, sync>>

-----------------------------------------------------------------------------
(* chainSync.syncHistoricalTrades and incrementalSync.                       *)

(* filters.TradeSettled(user, user): both topics have to match.              *)
Filter(u, e) == u = NoUser \/ (Maker[e.deal] = u /\ Taker[e.deal] = u)

GetLatestSyncedBlock == position
Asked_SkipsBlock(u) ==
    [at |-> "number", as |-> u, from |-> GetLatestSyncedBlock + 2, upTo |-> 0, found |-> {}]
Asked(u) == [at |-> "number", as |-> u, from |-> GetLatestSyncedBlock + 1, upTo |-> 0, found |-> {}]

SyncKeeps == UNCHANGED <<chain, head, hash, live, copy, page, opens, user, client, listener>>

GetBlockNumber(s) ==
    /\ sync[s].at = "number"
    /\ sync' = [sync EXCEPT ![s].upTo = head, ![s].at = "query"]
    /\ SyncKeeps /\ UNCHANGED <<saved, position, cleaned, askers>>

QueryFilter(s) ==
    /\ sync[s].at = "query"
    /\ LET q == sync[s] IN
       sync' = [sync EXCEPT
                  ![s].found = {e \in chain : e.block \in q.from .. q.upTo /\ Filter(q.as, e)},
                  ![s].at = "blocks"]
    /\ SyncKeeps /\ UNCHANGED <<saved, position, cleaned, askers>>

(* The block of every event has been read and those that are no EventLog are *)
(* passed over: bulkPut of the others. None left, nothing written and the    *)
(* position stays.                                                           *)
SyncHistoricalTrades_NotAwaited(s) ==
    /\ sync[s].at = "blocks"
    /\ LET trades == Decoded(sync[s].found) IN
       sync' = [sync EXCEPT ![s] = IF trades = {} THEN Idle
                                   ELSE [@ EXCEPT !.at = "mark", !.found = trades]]
    /\ SyncKeeps /\ UNCHANGED <<saved, position, cleaned, askers>>
SyncHistoricalTrades(s) ==
    /\ sync[s].at = "blocks"
    /\ LET trades == Decoded(sync[s].found) IN
       /\ SaveTrades(trades)
       /\ sync' = [sync EXCEPT ![s] = IF trades = {} THEN Idle
                                      ELSE [@ EXCEPT !.at = "mark", !.found = trades]]
    /\ SyncKeeps /\ UNCHANGED <<position, cleaned, askers>>

LastBlock(S, b) == \E e \in S : e.block = b /\ \A f \in S : f.block <= b
SaveLatestSyncedBlock(b) == position' = b

(* The position is the last block that held a trade found, and may be lower  *)
(* than what a faster sync has saved meanwhile.                              *)
IncrementalSync(s) ==
    /\ sync[s].at = "mark"
    /\ \E b \in 1 .. MaxBlock : LastBlock(sync[s].found, b) /\ SaveLatestSyncedBlock(b)
    /\ askers' = askers \cup {sync[s].as}
    /\ sync' = [sync EXCEPT ![s] = Idle]
    /\ SyncKeeps /\ UNCHANGED <<saved, cleaned>>

(* A call to the provider fails: the sync ends where it is.                  *)
SyncFails(s) ==
    /\ sync[s].at \in {"number", "query", "blocks"}
    /\ sync' = [sync EXCEPT ![s] = Idle]
    /\ SyncKeeps /\ UNCHANGED <<saved, position, cleaned, askers>>

-----------------------------------------------------------------------------
(* The page.                                                                 *)

(* storageEnabled: initChainSync asks the wallet for the account.            *)
OpenPage ==
    /\ page = "closed" /\ opens < MaxOpens
    /\ page' = "asking" /\ opens' = opens + 1 /\ user' = NoUser
    /\ UNCHANGED <<chain, head, tables, client, listener, sync>>

(* The wallet answers, or there is none: listen and sync.                    *)
InitChainSync(u, s) ==
    /\ page = "asking"
    /\ page' = "open" /\ user' = u /\ listening' = TRUE
    /\ sync' = [sync EXCEPT ![s] = Asked(u)]
    /\ UNCHANGED <<chain, head, tables, opens, client, heard>>
(* The wallet refuses: neither listener nor sync.                            *)
InitFails ==
    /\ page = "asking"
    /\ page' = "open"
    /\ UNCHANGED <<chain, head, tables, opens, user, client, listener, sync>>

(* Every 30 seconds, whether the last sync has ended or not.                 *)
SyncInterval(s) ==
    /\ page = "open" /\ user # NoUser /\ sync[s] = Idle
    /\ sync' = [sync EXCEPT ![s] = Asked(user)]
    /\ UNCHANGED <<chain, head, tables, page, opens, user, client, listener>>

(* The tab is closed or reloaded: what runs in it is gone. A transaction it  *)
(* has sent may be mined all the same (OthersSettle).                        *)
Gone ==
    /\ page' = "closed" /\ user' = NoUser
    /\ settling' = FALSE /\ jobs' = {} /\ heard' = {} /\ listening' = FALSE
    /\ sync' = [s \in Slots |-> Idle]
ClosePage ==
    /\ page # "closed"
    /\ Gone
    /\ UNCHANGED <<chain, head, tables, opens>>

HandleExport ==
    /\ page = "open" /\ copy = {}               \* bound: one backup
    /\ copy' = {[hash |-> hash, saved |-> saved, live |-> live]}
    /\ UNCHANGED <<chain, head, hash, saved, live, position, cleaned, askers, page, opens, user,
                   client, listener, sync>>

(* bulkPut of every row of the backup, then the page is reloaded. localStorage*)
(* is not part of a backup.                                                  *)
HandleImport ==
    /\ page = "open"
    /\ \E c \in copy :
          /\ hash' = [d \in Deals |-> IF c.hash[d] = NoMatch THEN hash[d] ELSE c.hash[d]]
          /\ saved' = saved \cup c.saved
          /\ live' = IF c.live = {} THEN live ELSE c.live
    /\ Gone
    /\ UNCHANGED <<chain, head, position, copy, cleaned, askers, opens>>

(* cleanupOldTrades: rows whose timestamp is past the retention time.        *)
HandleCleanup ==
    /\ page = "open"
    /\ \E S \in SUBSET {e \in saved : e.deal \in Old} :
          saved' = saved \ S /\ cleaned' = cleaned \cup S
    /\ \/ UNCHANGED live
       \/ (\A e \in live : e.deal \in Old) /\ live' = {}
    /\ UNCHANGED <<chain, head, hash, position, copy, askers, page, opens, user, client, listener,
                   sync>>

Continue ==
    \/ \E j \in jobs : SendTransaction(j) \/ WaitMined(j) \/ WaitFailed(j) \/ WriteTxHash(j)
    \/ \E e \in heard : HandleTradeEvent(e)
    \/ \E s \in Slots : \/ GetBlockNumber(s) \/ QueryFilter(s) \/ SyncHistoricalTrades(s)
                        \/ IncrementalSync(s) \/ SyncFails(s)

Next ==
    \/ OpenPage \/ InitFails \/ ClosePage \/ HandleExport \/ HandleImport \/ HandleCleanup
    \/ \E u \in Users \cup {NoUser}, s \in Slots : InitChainSync(u, s)
    \/ \E s \in Slots : SyncInterval(s)
    \/ \E d \in Deals : HandleMatch(d) \/ OthersSettle(d)
    \/ \E S \in SUBSET Mine : SettleTradesBatch(S)
    \/ Continue

(* What the hook awaits resolves: the wallet answers, a transaction is mined *)
(* or fails, IndexedDB completes. Nobody has to do anything else.            *)
HookContinues ==
    \E j \in jobs :
        j.by = "hook" /\ (SendTransaction(j) \/ WaitMined(j) \/ WaitFailed(j) \/ WriteTxHash(j))
Spec == Init /\ [][Next]_vars /\ WF_vars(HookContinues)

-----------------------------------------------------------------------------
(* The tables as TradeMirror sees them.                                      *)
Mirror == INSTANCE TradeMirror WITH
              chain <- chain, hash <- hash, saved <- saved \cup live,
              copy <- {[hash |-> c.hash, saved |-> c.saved \cup c.live] : c \in copy}

(* Through every interleaving of the hook, a batch, the listener, syncs,     *)
(* reloads and a restored backup, the tables only say of the chain what is   *)
(* so: a hash is that of a mined transaction with this trade in it, a        *)
(* confirmed trade is on the chain.                                          *)
MirrorsChain == Mirror!Spec

(* The hook settles one match at a time: transactions of one account are     *)
(* not sent on top of each other.                                            *)
HookSettlesOne ==
    /\ \A i, j \in jobs : i.by = "hook" /\ j.by = "hook" => i = j
    /\ settling <=> \E j \in jobs : j.by = "hook"

(* What the saved position claims: every trade up to it that the syncs which *)
(* moved it asked for, and whose log they could decode, has been put in the  *)
(* table, though two syncs overlap, fail between their steps, or end in      *)
(* another order than they began. The next sync starts behind the position   *)
(* and never looks again; logs the sync could not decode are not in the      *)
(* table, and stay behind the position as soon as another trade moves it.    *)
SyncLeavesNoGap ==
    \A e \in Decoded(chain) :
        e.block <= position /\ (\A u \in askers : Filter(u, e)) => e \in saved \cup cleaned

(* The hook is freed again, whatever became of the transaction: as long as   *)
(* settling is set, every match announced is ignored.                        *)
HookIsFreed == []<>~settling

(* "filters the trades of the user": a sync for an account that got as far   *)
(* as saving has saved the trades that account made or took.                 *)
SyncFindsUsersTrades ==
    \A s \in Slots :
        sync[s].at = "blocks" /\ sync[s].as # NoUser
            => \A e \in chain : e.block \in sync[s].from .. sync[s].upTo
                                 /\ sync[s].as \in Parties(e.deal) => e \in sync[s].found
===============================================================================
