----------------------------- MODULE BrowserNode -----------------------------
(***************************************************************************)
(* The matching node inside a browser tab: the in-memory engine            *)
(* (frontend/src/p2p/matchEngine.ts), the gossip handlers that feed it     *)
(* (orderSubscriber.ts, orderPublisher.ts), the IndexedDB tables that      *)
(* outlive it (storage.ts), the restart of the manager that restores the   *)
(* book (manager.ts) and the order calls of P2PContext.tsx.                *)
(*                                                                         *)
(* Everything runs on the tab's one thread. A handler runs on its own      *)
(* between two awaits, and handlers interleave at their awaits. IndexedDB  *)
(* requests take effect in the order they are issued, so a request belongs *)
(* to the step that issues it and the rest of the handler is a later step. *)
(* One trading pair; strings that hold decimal numbers are integers.       *)
(***************************************************************************)
EXTENDS Naturals, FiniteSets, SequencesExt, Subsequence

CONSTANTS
    Order,          \* Order[o]: side, price, timestamp, amount
    Own,            \* the orders this tab's user places
    Expiring,       \* bound: the orders whose expiresAt a run lives to see
    Cancellable,    \* bound: the orders their traders may cancel
    MaxCopies,      \* bound: gossip messages that carry each order
    MaxOpens,       \* bound: times the node is started
    NoRow, Gone

Orders == DOMAIN Order

OrderAssumption ==
    /\ \A o \in Orders :
          Order[o] \in [side : {"buy", "sell"}, price : Nat, timestamp : Nat, amount : Nat \ {0}]
    /\ IsFiniteSet(Orders) /\ Own \subseteq Orders
    /\ MaxCopies \in [Orders -> Nat] /\ \A o \in Own : MaxCopies[o] > 0
    /\ MaxOpens \in Nat

VARIABLES
    up,        \* the manager has started
    opens,     \* how often it has been started
    book,      \* MatchEngine: bids, asks and the index orderIdMap
    rows,      \* table orders: status and filledAmount of each order
    matches,   \* table matches: the trades saved
    saving,    \* order/new handlers that await saveOrder
    trading,   \* one entry per trade whose continuation is under way
    placing,   \* own orders whose publish is awaited
    expired,   \* orders whose expiresAt has passed
    copies,    \* messages delivered so far for each order
    cancelled, \* orders whose cancel message has been delivered
    settling   \* history: trades announced as 'match-for-settlement'

vars == <<up, opens, book, rows, matches, saving, trading, placing, expired,
          copies, cancelled, settling>>

Trade == [taker : Orders, run : Nat \ {0}, nth : Nat, maker : Orders, amount : Nat]
Row == [status : {"pending", "partial", "matched", "settled", "cancelled"}, filled : Nat]
Lots == Seq([id : Orders, amount : Nat])
EmptyBook == [bids |-> <<>>, asks |-> <<>>, index |-> {}]

TypeOK ==
    /\ up \in BOOLEAN /\ opens \in 0 .. MaxOpens
    /\ book.bids \in Lots /\ book.asks \in Lots /\ book.index \subseteq Orders
    /\ \A o \in Orders : rows[o] = NoRow \/ rows[o] \in Row
    /\ matches \subseteq Trade /\ settling \subseteq Trade
    /\ \A h \in saving : h.id \in Orders /\ h.run \in 1 .. MaxCopies[h.id]
    /\ \A t \in trading : t.trade \in Trade /\ t.at \in {"publish", "read", "write", "done"}
    /\ placing \subseteq Own /\ expired \subseteq Orders /\ cancelled \subseteq Orders
    /\ \A o \in Orders : copies[o] \in 0 .. MaxCopies[o]

-----------------------------------------------------------------------------
(* MatchEngine.                                                              *)

Outranks(o, p) ==
    \/ Order[o].side = "buy" /\ Order[o].price > Order[p].price
    \/ Order[o].side = "sell" /\ Order[o].price < Order[p].price
    \/ Order[o].price = Order[p].price /\ Order[o].timestamp < Order[p].timestamp

(* push, then a stable sort: behind everything it does not outrank.          *)
Placed_AtEnd(side, o) == Append(side, [id |-> o, amount |-> Order[o].amount])
Placed(side, o) ==
    InsertAt(side,
             Cardinality({i \in DOMAIN side : ~Outranks(o, side[i].id)}) + 1,
             [id |-> o, amount |-> Order[o].amount])

Without(side, o) == KeepAt(side, {i \in DOMAIN side : side[i].id # o})

RemoveOrder(b, o) ==
    IF o \notin b.index THEN b
    ELSE [bids |-> Without(b.bids, o), asks |-> Without(b.asks, o), index |-> b.index \ {o}]

AddTo(b, o) ==
    [bids  |-> IF Order[o].side = "buy" THEN Placed(b.bids, o) ELSE b.bids,
     asks  |-> IF Order[o].side = "buy" THEN b.asks ELSE Placed(b.asks, o),
     index |-> b.index \cup {o}]
AddOrder_NoRemove(b, o) == AddTo(b, o)
AddOrder(b, o) == AddTo(RemoveOrder(b, o), o)

Crosses(taker, maker) ==
    IF Order[taker].side = "buy"
    THEN Order[taker].price >= Order[maker].price
    ELSE Order[taker].price <= Order[maker].price

(* What the first i lots of a side offer together.                           *)
Offered(side, i) == SumFunctionOnSet([k \in DOMAIN side |-> side[k].amount], 1 .. i)

(* What lot i of a side gives the taker: the loop stops at the first price   *)
(* that does not cross, or when the taker's amount is used up.               *)
Reached(taker, side) ==
    {i \in DOMAIN side : /\ \A k \in 1 .. i : Crosses(taker, side[k].id)
                         /\ Offered(side, i - 1) < Order[taker].amount}
Fills(taker, side) ==
    [i \in DOMAIN side |->
        IF i \notin Reached(taker, side) THEN 0
        ELSE IF Offered(side, i) <= Order[taker].amount THEN side[i].amount
        ELSE Order[taker].amount - Offered(side, i - 1)]

(* matchSide on one side of the book: the trades, and the lots left. Only    *)
(* makers shrink; the taker rests with its full amount.                      *)
TradesOn(taker, run, side) ==
    LET fill == Fills(taker, side) IN
    {[taker |-> taker, run |-> run, nth |-> i, maker |-> side[i].id, amount |-> fill[i]] :
        i \in {j \in DOMAIN side : fill[j] > 0}}

LeftOf(taker, side) ==
    LET fill == Fills(taker, side)
        left == [i \in DOMAIN side |->
                    [id |-> side[i].id, amount |-> side[i].amount - fill[i]]]
    IN  KeepAt(left, {i \in DOMAIN side : left[i].amount > 0})

UsedUp(taker, side) ==
    {side[i].id : i \in {k \in DOMAIN side : Fills(taker, side)[k] = side[k].amount}}

(* The side a taker is matched with, and what match makes of the book.       *)
Against(b, taker) == IF Order[taker].side = "buy" THEN b.asks ELSE b.bids
Matched_NoWriteBack(b, taker) == b
Matched(b, taker) ==
    LET side == Against(b, taker) IN
    [bids  |-> IF Order[taker].side = "buy" THEN b.bids ELSE LeftOf(taker, side),
     asks  |-> IF Order[taker].side = "buy" THEN LeftOf(taker, side) ELSE b.asks,
     index |-> b.index \ UsedUp(taker, side)]

-----------------------------------------------------------------------------
(* IndexedDB: storage.ts.                                                    *)

FreshRow_NoFilled == [status |-> "pending"]
FreshRow == [status |-> "pending", filled |-> 0]

(* db.orders.update: nothing happens when the row is not there.              *)
UpdateStatus(o, status) ==
    rows' = IF rows[o] = NoRow THEN rows
            ELSE [rows EXCEPT ![o] = [status |-> status, filled |-> rows[o].filled]]

IsOpen(o) == rows[o] # NoRow /\ rows[o].status \in {"pending", "partial"}
IsActiveOrder(o) == IsOpen(o) /\ o \notin expired

(* The second half of saveMatchAndUpdateMaker, from the amount read before.  *)
FilledRow_AlwaysSettled(t, read) ==
    [status |-> "settled", filled |-> read + t.amount]
FilledRow_TakerAmount(t, read) ==
    [status |-> "partial", filled |-> read + Order[t.taker].amount]
FilledRow(t, read) ==
    [status |-> IF read + t.amount >= Order[t.maker].amount THEN "settled" ELSE "partial",
     filled |-> read + t.amount]

-----------------------------------------------------------------------------
Init ==
    /\ up = FALSE /\ opens = 0
    /\ book = EmptyBook
    /\ rows = [o \in Orders |-> NoRow]
    /\ matches = {} /\ saving = {} /\ trading = {} /\ placing = {}
    /\ expired = {} /\ copies = [o \in Orders |-> 0] /\ cancelled = {}
    /\ settling = {}

(* start(true): the active rows are added one by one, in the order of the    *)
(* table, each with the amount of its order.                                 *)
Restored == {o \in Orders : IsActiveOrder(o)}
AddAll(s) ==
    LET added[i \in 0 .. Len(s)] ==
            IF i = 0 THEN EmptyBook ELSE AddOrder(added[i - 1], s[i])
    IN  added
Start ==
    /\ ~up
    /\ up' = TRUE /\ opens' = opens + 1
    /\ \E s \in SetToSeqs(Restored) : book' = AddAll(s)[Len(s)]
    /\ UNCHANGED <<rows, matches, saving, trading, placing, expired, copies, cancelled,
                   settling>>

(* stop(), or the tab is closed or crashes: memory and every handler under   *)
(* way are gone, the tables stay.                                            *)
Stop ==
    /\ up
    /\ up' = FALSE
    /\ book' = EmptyBook /\ saving' = {} /\ trading' = {} /\ placing' = {}
    /\ UNCHANGED <<opens, rows, matches, expired, copies, cancelled, settling>>

(* The tab mounts the provider, and leaves it.                               *)
OpenTab == opens < MaxOpens /\ Start
CloseTab == Stop

(* order/new arrives: the handler issues saveOrder and awaits it.            *)
ReceiveOrder(o) ==
    /\ up /\ o \notin Own /\ copies[o] < MaxCopies[o]
    /\ copies' = [copies EXCEPT ![o] = @ + 1]
    /\ rows' = [rows EXCEPT ![o] = FreshRow]
    /\ saving' = saving \cup {[id |-> o, run |-> copies[o] + 1]}
    /\ UNCHANGED <<up, opens, book, matches, trading, placing, expired, cancelled,
                   settling>>

(* A trade's continuation: before publishTrade, before and after the read of *)
(* the maker's row, and at its end.                                          *)
Handling(t, at, read) == [trade |-> t, at |-> at, read |-> read]

(* ... and then adds and matches it in one go, one continuation per trade.   *)
AddAndMatch(h) ==
    /\ h \in saving
    /\ LET b == AddOrder(book, h.id) IN
       /\ book' = Matched(b, h.id)
       /\ trading' = trading \cup {Handling(t, "publish", Gone) :
                                     t \in TradesOn(h.id, h.run, Against(b, h.id))}
    /\ saving' = saving \ {h}
    /\ UNCHANGED <<up, opens, rows, matches, placing, expired, copies, cancelled,
                   settling>>

(* publishTrade resolves and the match is put, or it throws and the rest of  *)
(* this trade's continuation is skipped; the other trades' go on.            *)
PublishTrade_Swallow(j) ==
    /\ j \in trading /\ j.at = "publish"
    /\ \/ /\ matches' = matches \cup {j.trade}
          /\ trading' = (trading \ {j}) \cup {Handling(j.trade, "read", Gone)}
       \/ /\ trading' = (trading \ {j}) \cup {Handling(j.trade, "done", Gone)}
          /\ UNCHANGED matches
    /\ UNCHANGED <<up, opens, book, rows, saving, placing, expired, copies, cancelled, settling>>
PublishTrade(j) ==
    /\ j \in trading /\ j.at = "publish"
    /\ \/ /\ matches' = matches \cup {j.trade}
          /\ trading' = (trading \ {j}) \cup {Handling(j.trade, "read", Gone)}
       \/ /\ trading' = trading \ {j}
          /\ UNCHANGED matches
    /\ UNCHANGED <<up, opens, book, rows, saving, placing, expired, copies, cancelled, settling>>

(* db.orders.get(makerOrderId): without a row the update is left out.        *)
ReadMaker_NeedsRow(j) ==
    /\ j \in trading /\ j.at = "read" /\ rows[j.trade.maker] # NoRow
    /\ trading' = (trading \ {j}) \cup
                  {Handling(j.trade, "write", rows[j.trade.maker].filled)}
    /\ UNCHANGED <<up, opens, book, rows, matches, saving, placing, expired, copies,
                   cancelled, settling>>
ReadMaker(j) ==
    /\ j \in trading /\ j.at = "read"
    /\ LET row == rows[j.trade.maker] IN
       trading' = (trading \ {j}) \cup
                  {IF row = NoRow THEN Handling(j.trade, "done", Gone)
                   ELSE Handling(j.trade, "write", row.filled)}
    /\ UNCHANGED <<up, opens, book, rows, matches, saving, placing, expired, copies,
                   cancelled, settling>>

WriteMaker(j) ==
    /\ j \in trading /\ j.at = "write"
    /\ LET m == j.trade.maker IN
       rows' = IF rows[m] = NoRow THEN rows
               ELSE [rows EXCEPT ![m] = FilledRow(j.trade, j.read)]
    /\ trading' = (trading \ {j}) \cup {Handling(j.trade, "done", Gone)}
    /\ UNCHANGED <<up, opens, book, matches, saving, placing, expired, copies, cancelled,
                   settling>>

Announce(j) ==
    /\ j \in trading /\ j.at = "done"
    /\ settling' = settling \cup {j.trade}
    /\ trading' = trading \ {j}
    /\ UNCHANGED <<up, opens, book, rows, matches, saving, placing, expired, copies,
                   cancelled>>

(* order/cancel arrives: off the book at once, then the row is updated.      *)
ReceiveCancel(o) ==
    /\ up /\ o \in Cancellable \ Own /\ copies[o] > 0 /\ o \notin cancelled
    /\ cancelled' = cancelled \cup {o}
    /\ book' = RemoveOrder(book, o)
    /\ UpdateStatus(o, "cancelled")
    /\ UNCHANGED <<up, opens, matches, saving, trading, placing, expired, copies,
                   settling>>

(* P2PContext.publishOrder: publish, then save. The node does not receive    *)
(* its own messages (emitSelf: false), so the order enters no book here.     *)
PlaceOwn(o) ==
    /\ up /\ o \in Own /\ copies[o] = 0
    /\ copies' = [copies EXCEPT ![o] = 1]
    /\ placing' = placing \cup {o}
    /\ UNCHANGED <<up, opens, book, rows, matches, saving, trading, expired, cancelled,
                   settling>>

PlacedOwn(o) ==
    /\ o \in placing
    /\ placing' = placing \ {o}
    /\ \/ rows' = [rows EXCEPT ![o] = FreshRow]
       \/ UNCHANGED rows                       \* publish failed
    /\ UNCHANGED <<up, opens, book, matches, saving, trading, expired, copies, cancelled,
                   settling>>

(* The clock passes an order's expiresAt. Nothing else happens then: the     *)
(* engine does not look at it.                                               *)
Expire(o) ==
    /\ o \in Expiring \ expired /\ rows[o] # NoRow
    /\ expired' = expired \cup {o}
    /\ UNCHANGED <<up, opens, book, rows, matches, saving, trading, placing, copies,
                   cancelled, settling>>

(* cleanupOldOrders: closed rows that are old (some of them), and every      *)
(* active row that has expired.                                              *)
Deleted(old) ==
    old \cup {o \in Orders : IsOpen(o) /\ o \in expired}

Cleanup ==
    /\ up
    /\ \E old \in SUBSET {o \in Orders : rows[o] # NoRow
                                          /\ rows[o].status \in {"settled", "cancelled"}} :
          rows' = [o \in Orders |-> IF o \in Deleted(old) THEN NoRow ELSE rows[o]]
    /\ UNCHANGED <<up, opens, book, matches, saving, trading, placing, expired, copies,
                   cancelled, settling>>

Continue ==
    \/ \E h \in saving : AddAndMatch(h)
    \/ \E j \in trading : PublishTrade(j) \/ ReadMaker(j) \/ WriteMaker(j) \/ Announce(j)
    \/ \E o \in placing : PlacedOwn(o)

Next ==
    \/ OpenTab \/ CloseTab \/ Cleanup
    \/ \E o \in Orders : ReceiveOrder(o) \/ ReceiveCancel(o) \/ PlaceOwn(o) \/ Expire(o)
    \/ Continue

(* The event loop resolves what it awaits; messages, users and clocks are    *)
(* not obliged to anything.                                                  *)
Spec == Init /\ [][Next]_vars /\ WF_vars(Continue)

-----------------------------------------------------------------------------
MatchedFor(o) == {t \in matches : t.maker = o}
MadeFor(o) == {t \in matches \cup {j.trade : j \in trading} : t.maker = o}
Total(made) == SumFunctionOnSet([t \in made |-> t.amount], made)
Lot(o) == {<<"bid", i>> : i \in {k \in DOMAIN book.bids : book.bids[k].id = o}}
          \cup {<<"ask", i>> : i \in {k \in DOMAIN book.asks : book.asks[k].id = o}}

(* Whatever is delivered, delivered again, cancelled, matched or restored:   *)
(* both sides stay in price-time order, of which match only looks at the     *)
(* first lot, and the index that removeOrder and getOrder trust names the    *)
(* orders of the book, each resting once and on its own side.                *)
BookIsSound ==
    /\ \A side \in {book.bids, book.asks} :
          \A i, j \in DOMAIN side : i < j => ~Outranks(side[j].id, side[i].id)
    /\ \A o \in Orders : Cardinality(Lot(o)) = IF o \in book.index THEN 1 ELSE 0

(* For all the handlers that read filledAmount, wait and write it back, a    *)
(* row never claims more than the matches saved for the order, and says      *)
(* settled only when they fill it: closed rows are never restored and may    *)
(* be cleaned up.                                                            *)
RowsBackedByMatches ==
    \A o \in Orders : rows[o] # NoRow =>
        /\ rows[o].filled <= Total(MatchedFor(o))
        /\ rows[o].status = "settled" => Total(MatchedFor(o)) >= Order[o].amount

(* An order makes at most its amount each time it enters the book: once per  *)
(* message, and once per restart that restores it (nothing is saved before   *)
(* the first start).                                                         *)
MakerFillsBounded ==
    opens > 0 => \A o \in Orders : Total(MadeFor(o)) <= Order[o].amount * (copies[o] + opens - 1)

(* A trade is announced for settlement only after the network was told of    *)
(* it and the match is saved: the hash of its settlement is written there.   *)
SettlingIsRecorded == settling \subseteq matches
=============================================================================
