------------------------------ MODULE OrderNode ------------------------------
(****************************************************************************)
(* The life of orders of one pair on a network of nodes                     *)
(* (node/cmd/node/main.go orderMatchHandler, node/internal/sync,            *)
(* node/internal/storage, node/internal/match/restore.go).                  *)
(*                                                                          *)
(* A client posts an order or a cancel through some node's HTTP API, which  *)
(* only publishes it on a gossip topic. Every node that is up receives it,  *)
(* the publisher too, in no particular order; posting again publishes       *)
(* again. On each node three goroutines drain three topics (order/new,      *)
(* order/cancel, trade/executed) and the main goroutine restores the book   *)
(* after a restart; they share the engine and the store and interleave      *)
(* between engine calls and SQL statements.                                 *)
(****************************************************************************)
EXTENDS OrderBook

CONSTANTS
    MatchNodes,    \* nodes with a matching engine and a store
    StoreNodes,    \* nodes of type storage: a store, no engine
    Orders,        \* the orders clients post
    Cancellable,   \* the identifiers clients may cancel
    RestoreLimit,  \* rows of one side that a pass of the restore reads at most
    MaxPosts,      \* bound: publications of one order
    MaxCrashes,    \* bound: crashes in a run
    MaxTime,       \* bound: the clock stops here
    NoRow, NoCancel

Nodes == MatchNodes \cup StoreNodes

ASSUME NodesAssumption == MatchNodes \cap StoreNodes = {}
ASSUME OrdersAssumption ==
    /\ Orders \subseteq OrderType
    /\ \A o \in Orders : o.status = "open" /\ o.filled = 0 /\ o.amount > 0
    /\ \A o1, o2 \in Orders : o1.id = o2.id => o1 = o2
ASSUME CancellableAssumption == Cancellable \subseteq OrderIds
ASSUME NoRowAssumption == NoRow \notin OrderType
ASSUME RestoreLimitAssumption == RestoreLimit \in Nat \ {0}
ASSUME BoundsAssumption == MaxPosts \in Nat /\ MaxCrashes \in Nat /\ MaxTime \in Nat

VARIABLES
    up,          \* which nodes run
    clock,       \* unix time
    posts,       \* how often each order has been published
    cancelled,   \* identifiers whose cancel has been published
    inbox,       \* messages gossip still has to hand to each node
    book,        \* the engine's book, per match node
    task,        \* the order/new goroutine: what it is doing with which order
    cancelling,  \* the order/cancel goroutine, between engine and store
    restore,     \* the main goroutine: restore passes and rows still to do
    orderRows,   \* table orders: order id -> row
    tradeRows,   \* table trades: one row per trade id
    crashes,
    made,        \* history: the trades each engine has made, in order
    copies       \* history: how often each order entered the node's book

vars == <<up, clock, posts, cancelled, inbox, book, task, cancelling, restore,
          orderRows, tradeRows, crashes, made, copies>>

TradeId_TakerOnly(t) == <<t.taker>>
TradeId(t) == <<t.taker, t.maker, t.seq>>

OrderMsg(o)   == [topic |-> "order/new", order |-> o]
CancelMsg(id) == [topic |-> "order/cancel", id |-> id]
TradeMsg(t)   == [topic |-> "trade/executed", trade |-> t]

Idle == [at |-> "idle"]

NotRestoring == [passes |-> 0, rows |-> {}]

TypeOK ==
    /\ up \subseteq Nodes
    /\ clock \in 0 .. MaxTime
    /\ posts \in [OrderIds -> 0 .. MaxPosts]
    /\ cancelled \subseteq Cancellable
    /\ \A n \in Nodes : \A m \in inbox[n] :
        m \in {OrderMsg(o) : o \in Orders} \cup {CancelMsg(id) : id \in Cancellable}
             \/ (m.topic = "trade/executed" /\ m.trade \in TradeType)
    /\ book \in [Nodes -> BookType]
    /\ \A n \in Nodes : task[n] = Idle \/ task[n].order \in Orders
    /\ cancelling \in [Nodes -> Cancellable \cup {NoCancel}]
    /\ \A n \in Nodes : restore[n].passes \in 0 .. 2 /\ restore[n].rows \subseteq OrderType
    /\ \A n \in Nodes, id \in OrderIds :
        orderRows[n][id] = NoRow \/ orderRows[n][id] \in OrderType
    /\ \A n \in Nodes : tradeRows[n] \subseteq TradeType
    /\ crashes \in 0 .. MaxCrashes
    /\ \A n \in Nodes : made[n] \in Seq(TradeType)

Init ==
    /\ up = Nodes
    /\ clock = 0
    /\ posts = [id \in OrderIds |-> 0]
    /\ cancelled = {}
    /\ inbox = [n \in Nodes |-> {}]
    /\ book = [n \in Nodes |-> EmptyBook]
    /\ task = [n \in Nodes |-> Idle]
    /\ cancelling = [n \in Nodes |-> NoCancel]
    /\ restore = [n \in Nodes |-> NotRestoring]
    /\ orderRows = [n \in Nodes |-> [id \in OrderIds |-> NoRow]]
    /\ tradeRows = [n \in Nodes |-> {}]
    /\ crashes = 0
    /\ made = [n \in Nodes |-> <<>>]
    /\ copies = [n \in Nodes |-> [id \in OrderIds |-> 0]]

(* Publish: every node that is up gets the message, the publisher included. *)
Gossip(m) == inbox' = [n \in Nodes |-> IF n \in up THEN inbox[n] \cup {m} ELSE inbox[n]]

Taken(n, m) == inbox' = [inbox EXCEPT ![n] = @ \ {m}]

-----------------------------------------------------------------------------
(* handlePostOrder: an order that has expired is refused, any other is      *)
(* published; the API touches neither engine nor store.                     *)
PostOrder(o) ==
    /\ up # {}
    /\ posts[o.id] < MaxPosts
    /\ ~Expired(o, clock)
    /\ posts' = [posts EXCEPT ![o.id] = @ + 1]
    /\ Gossip(OrderMsg(o))
    /\ UNCHANGED <<up, clock, cancelled, book, task, cancelling, restore, orderRows,
                   tradeRows, crashes, made, copies>>

(* handleCancelOrder, for an order that its owner has posted.               *)
PostCancel(id) ==
    /\ up # {}
    /\ posts[id] > 0
    /\ id \notin cancelled
    /\ cancelled' = cancelled \cup {id}
    /\ Gossip(CancelMsg(id))
    /\ UNCHANGED <<up, clock, posts, book, task, cancelling, restore, orderRows,
                   tradeRows, crashes, made, copies>>

-----------------------------------------------------------------------------
(* The order/new goroutine. OnNewOrder drops an expired order. Nobody's     *)
(* registration reaches a Router as the node wires its publisher, so every  *)
(* match node handles every order locally; a storage node only stores it.   *)
OnNewOrder(n, o) ==
    /\ n \in up /\ OrderMsg(o) \in inbox[n] /\ task[n] = Idle
    /\ Taken(n, OrderMsg(o))
    /\ task' = IF Expired(o, clock) THEN task
               ELSE [task EXCEPT ![n] =
                        [at |-> IF n \in MatchNodes THEN "add" ELSE "store", order |-> o]]
    /\ UNCHANGED <<up, clock, posts, cancelled, book, cancelling, restore, orderRows,
                   tradeRows, crashes, made, copies>>

(* AddOrder: the whole order goes on the book, and only then is it matched. *)
(* An order that has expired meanwhile is stored, not matched.              *)
AddTaker(n) ==
    /\ n \in up /\ task[n].at = "add"
    /\ IF Admissible(task[n].order, clock)
       THEN /\ book' = [book EXCEPT ![n] = AddOrderToBook(@, task[n].order)]
            /\ copies' = [copies EXCEPT ![n][task[n].order.id] = @ + 1]
            /\ task' = [task EXCEPT ![n].at = "match"]
       ELSE /\ task' = [task EXCEPT ![n].at = "store"]
            /\ UNCHANGED <<book, copies>>
    /\ UNCHANGED <<up, clock, posts, cancelled, inbox, cancelling, restore, orderRows,
                   tradeRows, crashes, made>>

(* Match of a copy of the order as it came in the message. What the taker   *)
(* got is never taken off its own entry on the book.                        *)
MatchTaker_KeepsMakers(n) ==
    /\ n \in up /\ task[n].at = "match"
    /\ LET out == MatchOutcome(book[n], task[n].order) IN
        /\ made' = [made EXCEPT ![n] = @ \o out.trades]
        /\ task' = [task EXCEPT ![n] =
                [at |-> "publish", order |-> task[n].order, trades |-> out.trades]]
    /\ UNCHANGED <<up, clock, posts, cancelled, inbox, book, cancelling, restore, orderRows,
                   tradeRows, crashes, copies>>

MatchTaker(n) ==
    /\ n \in up /\ task[n].at = "match"
    /\ LET out == MatchOutcome(book[n], task[n].order) IN
        /\ book' = [book EXCEPT ![n] = out.book]
        /\ made' = [made EXCEPT ![n] = @ \o out.trades]
        /\ task' = [task EXCEPT ![n] =
                [at |-> "publish", order |-> task[n].order, trades |-> out.trades]]
    /\ UNCHANGED <<up, clock, posts, cancelled, inbox, cancelling, restore, orderRows,
                   tradeRows, crashes, copies>>

(* Trades go out one by one: published, then written to the own store.      *)
PublishTrade_LocalOnly(n) ==
    /\ n \in up /\ task[n].at = "publish" /\ task[n].trades # <<>>
    /\ task' = [task EXCEPT ![n].at = "record"]
    /\ UNCHANGED <<up, clock, posts, cancelled, inbox, book, cancelling, restore, orderRows,
                   tradeRows, crashes, made, copies>>

PublishTrade(n) ==
    /\ n \in up /\ task[n].at = "publish" /\ task[n].trades # <<>>
    /\ Gossip(TradeMsg(Head(task[n].trades)))
    /\ task' = [task EXCEPT ![n].at = "record"]
    /\ UNCHANGED <<up, clock, posts, cancelled, book, cancelling, restore, orderRows,
                   tradeRows, crashes, made, copies>>

(* InsertTrade: INSERT OR REPLACE by trade id.                              *)
InsertTrade(n, t) ==
    tradeRows' = [tradeRows EXCEPT ![n] = {r \in @ : TradeId(r) # TradeId(t)} \cup {t}]

RecordTrade(n) ==
    /\ n \in up /\ task[n].at = "record"
    /\ InsertTrade(n, Head(task[n].trades))
    /\ task' = [task EXCEPT ![n].at = "publish", ![n].trades = Tail(@)]
    /\ UNCHANGED <<up, clock, posts, cancelled, inbox, book, cancelling, restore, orderRows,
                   crashes, made, copies>>

(* InsertOrder, the last statement of the handler: INSERT OR REPLACE with   *)
(* the status and the filled quantity the message came with.                *)
StoreOrder(n) ==
    /\ n \in up
    /\ \/ task[n].at = "store"
       \/ /\ task[n].at = "publish"
          /\ task[n].trades = <<>>
    /\ orderRows' = [orderRows EXCEPT ![n][task[n].order.id] = task[n].order]
    /\ task' = [task EXCEPT ![n] = Idle]
    /\ UNCHANGED <<up, clock, posts, cancelled, inbox, book, cancelling, restore,
                   tradeRows, crashes, made, copies>>

-----------------------------------------------------------------------------
(* The order/cancel goroutine: the engine forgets the order, then the row,  *)
(* if there is one by then, becomes "cancelled".                            *)
OnCancelOrder(n, id) ==
    /\ n \in up /\ CancelMsg(id) \in inbox[n] /\ cancelling[n] = NoCancel
    /\ Taken(n, CancelMsg(id))
    /\ book' = [book EXCEPT ![n] = RemoveOrderFromBook(@, id)]
    /\ cancelling' = [cancelling EXCEPT ![n] = id]
    /\ UNCHANGED <<up, clock, posts, cancelled, task, restore, orderRows,
                   tradeRows, crashes, made, copies>>

MarkCancelled_Misspelt(n) ==
    /\ n \in up /\ cancelling[n] # NoCancel
    /\ orderRows' = IF orderRows[n][cancelling[n]] = NoRow THEN orderRows
                    ELSE [orderRows EXCEPT ![n][cancelling[n]].status = "canceled"]
    /\ cancelling' = [cancelling EXCEPT ![n] = NoCancel]
    /\ UNCHANGED <<up, clock, posts, cancelled, inbox, book, task, restore,
                   tradeRows, crashes, made, copies>>

MarkCancelled(n) ==
    /\ n \in up /\ cancelling[n] # NoCancel
    /\ orderRows' = IF orderRows[n][cancelling[n]] = NoRow THEN orderRows
                    ELSE [orderRows EXCEPT ![n][cancelling[n]].status = "cancelled"]
    /\ cancelling' = [cancelling EXCEPT ![n] = NoCancel]
    /\ UNCHANGED <<up, clock, posts, cancelled, inbox, book, task, restore,
                   tradeRows, crashes, made, copies>>

(* The trade/executed goroutine.                                            *)
OnTradeExecuted(n, t) ==
    /\ n \in up /\ TradeMsg(t) \in inbox[n]
    /\ Taken(n, TradeMsg(t))
    /\ InsertTrade(n, t)
    /\ UNCHANGED <<up, clock, posts, cancelled, book, task, cancelling, restore, orderRows,
                   crashes, made, copies>>

-----------------------------------------------------------------------------
(* A crash loses everything but the store. After a restart the subscriber   *)
(* is started first; then main and, a second time, Server.Run read the open *)
(* rows and add them to the book one after the other.                       *)
Crash(n) ==
    /\ n \in up /\ crashes < MaxCrashes
    /\ crashes' = crashes + 1
    /\ up' = up \ {n}
    /\ inbox' = [inbox EXCEPT ![n] = {}]
    /\ book' = [book EXCEPT ![n] = EmptyBook]
    /\ task' = [task EXCEPT ![n] = Idle]
    /\ cancelling' = [cancelling EXCEPT ![n] = NoCancel]
    /\ restore' = [restore EXCEPT ![n] = NotRestoring]
    /\ UNCHANGED <<clock, posts, cancelled, orderRows, tradeRows, made, copies>>

Restart(n) ==
    /\ n \in Nodes \ up
    /\ up' = up \cup {n}
    /\ restore' = [restore EXCEPT ![n].passes = IF n \in MatchNodes THEN 2 ELSE 0]
    /\ UNCHANGED <<clock, posts, cancelled, inbox, book, task, cancelling, orderRows,
                   tradeRows, crashes, made, copies>>

OpenRows(n) ==
    {orderRows[n][id] : id \in {i \in OrderIds :
        orderRows[n][i] # NoRow /\ orderRows[n][i].status \in {"open", "partial"}}}

(* What an ordered query with a LIMIT of k may return: among rows that tie  *)
(* where it cuts, any.                                                      *)
FirstRows(chosen, rows, k, Before(_, _)) ==
    /\ chosen \subseteq rows
    /\ Cardinality(chosen) = SmallerOf(k, Cardinality(rows))
    /\ \A c \in chosen, r \in rows \ chosen : ~Before(r, c)

Older(r, s) == r.createdAt < s.createdAt

OfSide(rows, side) == {r \in rows : r.side = side}

(* ListOrdersOpenByPair(pair, limit): the oldest open rows, twice the limit *)
(* of both sides together, and of these the limit best of each side.        *)
ListOrdersOpenByPair_OneLimit(rows, open) ==
    \E read \in SUBSET open :
        /\ FirstRows(read, open, RestoreLimit, Older)
        /\ rows \subseteq read
        /\ \A side \in Sides :
            FirstRows(OfSide(rows, side), OfSide(read, side), RestoreLimit, Ahead)

ListOrdersOpenByPair(rows, open) ==
    \E read \in SUBSET open :
        /\ FirstRows(read, open, 2 * RestoreLimit, Older)
        /\ rows \subseteq read
        /\ \A side \in Sides :
            FirstRows(OfSide(rows, side), OfSide(read, side), RestoreLimit, Ahead)

RestoreList(n) ==
    /\ n \in up /\ restore[n].passes > 0 /\ restore[n].rows = {}
    /\ \E rows \in SUBSET OpenRows(n) :
        /\ ListOrdersOpenByPair(rows, OpenRows(n))
        /\ restore' = [restore EXCEPT ![n] = [passes |-> @.passes - 1, rows |-> rows]]
    /\ UNCHANGED <<up, clock, posts, cancelled, inbox, book, task, cancelling, orderRows,
                   tradeRows, crashes, made, copies>>

(* Bids are added before asks, and each side best first; rows that tie come *)
(* in whatever order SQLite returned them.                                  *)
RestoreOne(n, row) ==
    /\ n \in up /\ row \in restore[n].rows
    /\ \A other \in restore[n].rows :
        /\ other.side = row.side => ~Ahead(other, row)
        /\ other.side = "buy" => row.side = "buy"
    /\ restore' = [restore EXCEPT ![n].rows = @ \ {row}]
    /\ IF Admissible(row, clock)
       THEN /\ book' = [book EXCEPT ![n] = AddOrderToBook(@, row)]
            /\ copies' = [copies EXCEPT ![n][row.id] = @ + 1]
       ELSE UNCHANGED <<book, copies>>
    /\ UNCHANGED <<up, clock, posts, cancelled, inbox, task, cancelling, orderRows,
                   tradeRows, crashes, made>>

Tick ==
    /\ clock < MaxTime
    /\ clock' = clock + 1
    /\ UNCHANGED <<up, posts, cancelled, inbox, book, task, cancelling, restore, orderRows,
                   tradeRows, crashes, made, copies>>

-----------------------------------------------------------------------------
Handle(n) ==
    \/ \E o \in Orders : OnNewOrder(n, o)
    \/ AddTaker(n) \/ MatchTaker(n) \/ PublishTrade(n) \/ RecordTrade(n) \/ StoreOrder(n)

HandleCancel(n) == (\E id \in Cancellable : OnCancelOrder(n, id)) \/ MarkCancelled(n)

HandleTrade(n) ==
    \E m \in inbox[n] : m.topic = "trade/executed" /\ OnTradeExecuted(n, m.trade)

RestoreBook(n) == RestoreList(n) \/ \E row \in restore[n].rows : RestoreOne(n, row)

Next ==
    \/ \E o \in Orders : PostOrder(o)
    \/ \E id \in Cancellable : PostCancel(id)
    \/ \E n \in Nodes :
        \/ Handle(n) \/ HandleCancel(n) \/ HandleTrade(n) \/ RestoreBook(n)
        \/ Crash(n) \/ Restart(n)
    \/ Tick

Spec == Init /\ [][Next]_vars

(* Each goroutine is a loop over sub.Next that returns only with the node.  *)
(* Weak fairness is enough: publications are bounded, so no message can be  *)
(* passed over for ever by a goroutine that keeps handling messages.        *)
Fairness ==
    \A n \in Nodes :
        /\ WF_vars(Handle(n)) /\ WF_vars(HandleCancel(n)) /\ WF_vars(HandleTrade(n))
        /\ WF_vars(RestoreBook(n))

LiveSpec == Spec /\ Fairness

-----------------------------------------------------------------------------
Made(n) == ToSet(made[n])

(* The quantity traded at the given positions of made[n].                   *)
Traded(n, at) == SumFunctionOnSet([k \in DOMAIN made[n] |-> made[n][k].amount], at)

AsMaker(n, id) == Traded(n, {k \in DOMAIN made[n] : made[n][k].maker = id})
AsTaker(n, id) == Traded(n, {k \in DOMAIN made[n] : made[n][k].taker = id})

(* No goroutine of n is in the middle of anything.                          *)
Quiet(n) ==
    /\ n \in up /\ task[n] = Idle /\ cancelling[n] = NoCancel /\ restore[n] = NotRestoring

IsOpen(row) == row # NoRow /\ row.status \in {"open", "partial"}

(* However handlers, cancels, crashes and restores interleave, an engine    *)
(* sells an order over, in either role, at most once per time the order     *)
(* entered its book: a maker's quantity comes off the book with the trade   *)
(* that uses it, and a taker is matched for one delivery only once.         *)
FillsBoundedByCopies ==
    \A n \in MatchNodes : \A o \in Orders :
        /\ AsMaker(n, o.id) <= o.amount * copies[n][o.id]
        /\ AsTaker(n, o.id) <= o.amount * copies[n][o.id]

(* Unless a node stops, the store of a match node that is at rest has a row *)
(* for every trade its engine made: no two trades of one match fall         *)
(* together under one identifier, and neither the handler that makes them   *)
(* nor the one that receives them drops one. When an order is delivered     *)
(* again and meets the same maker at the same place of a later match, the   *)
(* two trades do share an identifier, and the row is that of one of them    *)
(* (trades.go:30, INSERT OR REPLACE).                                       *)
TradesKeepRows ==
    \A n \in MatchNodes : crashes = 0 /\ Quiet(n) =>
        \A t \in Made(n) : \E r \in tradeRows[n] :
            r.taker = t.taker /\ r.maker = t.maker /\ r.seq = t.seq

(* More rows come before o's than a pass of the restore reads: older ones   *)
(* of both sides, or ones of its side that it is not ahead of.              *)
Outnumbered(n, o) ==
    LET others == {p \in Orders \ {o} : orderRows[n][p.id] # NoRow} IN
    \/ Cardinality({p \in others : p.createdAt <= o.createdAt}) >= 2 * RestoreLimit
    \/ Cardinality({p \in OfSide(others, o.side) : ~Ahead(o, p)}) >= RestoreLimit

(* An order nobody cancelled that is listed as open on a match node rests   *)
(* on its book, after any crash and restore: unless it has been used up as  *)
(* a maker, has expired, or the LIMITs of the restore may have cut it off.  *)
(* The engine would have room for it then: its own limit is 20 times higher *)
(* than that of the restore (10000 and 500 orders of a side).               *)
OpenRowsRest ==
    \A n \in MatchNodes : \A o \in Orders :
        Quiet(n) /\ IsOpen(orderRows[n][o.id]) /\ o.id \notin cancelled =>
            \/ o.id \in RestingIds(book[n])
            \/ AsMaker(n, o.id) >= o.amount
            \/ Expired(o, clock)
            \/ Outnumbered(n, o)

(* Every trade an engine makes and lives to publish reaches the store of    *)
(* every node, the storage nodes that have no engine included.              *)
TradesReachStores ==
    \A n \in MatchNodes, m \in Nodes : \A k \in 1 .. Cardinality(Orders) :
        Len(made[n]) >= k ~> (Len(made[n]) >= k /\ made[n][k] \in tradeRows[m])

-----------------------------------------------------------------------------
(* What the repository's comments promise and the code does not keep.       *)

(* "AddOrder adds the order to the book (the unmatched part)",              *)
(* engine.go:208: what rests of an order delivered once is what its trades  *)
(* left of it.                                                              *)
RestsOnlyUnmatched ==
    \A n \in MatchNodes : \A o \in Orders : \A i \in DOMAIN book[n][o.side] :
        Quiet(n) /\ copies[n][o.id] = 1 /\ book[n][o.side][i].id = o.id =>
            Left(book[n][o.side][i]) = o.amount - AsMaker(n, o.id) - AsTaker(n, o.id)
=============================================================================
