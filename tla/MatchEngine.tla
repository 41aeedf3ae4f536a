----------------------------- MODULE MatchEngine -----------------------------
(****************************************************************************)
(* The matching engine of one node (node/internal/match/engine.go): the     *)
(* books of all pairs and the orderID -> pair index, under one mutex.       *)
(*                                                                          *)
(* The engine is called by several goroutines: the gossip handlers, the     *)
(* restore after a restart, the order-book synchronisation. Every method    *)
(* takes the mutex for its whole run, so the methods are atomic here with   *)
(* one exception: Match is a loop, and each of its iterations is a step, so *)
(* that the loop can be compared with its outcome. While a Match runs it    *)
(* holds the mutex (taker # NoTaker) and no other method can start.         *)
(****************************************************************************)
EXTENDS OrderBook

CONSTANTS
    Orders,      \* the orders callers submit, in every version they submit
    Snapshots,   \* the books callers pass to ReplaceOrderbook
    MaxTime,     \* bound: the clock stops here
    NoPair, NoTaker

(* An order identifier is made by the wallet that signs the order and       *)
(* names one order: all its versions have one pair and one side. The        *)
(* clients keep to this; the node does not enforce it (OnNewOrder checks no *)
(* signature, and AddOrder looks for an older copy only in o.Pair).         *)
ASSUME OrdersAssumption ==
    /\ Orders \subseteq OrderType
    /\ \A o1, o2 \in Orders : o1.id = o2.id => o1.pair = o2.pair /\ o1.side = o2.side
    /\ \A o \in Orders : o.status \in {"open", "partial"}

(* A snapshot is the book of another engine, copied by GetOrderbook. That   *)
(* it is within the bound of a side is assumed: ReplaceOrderbook cuts none. *)
ASSUME SnapshotsAssumption ==
    \A snap \in Snapshots :
        /\ snap.pair \in Pairs
        /\ snap.book \in BookType
        /\ \A side \in Sides : Len(snap.book[side]) <= MaxOrdersPerPair
        /\ \A side \in Sides : \A i \in DOMAIN snap.book[side] :
            LET e == snap.book[side][i] IN
            /\ e.side = side
            /\ e.pair = snap.pair
            /\ e.status \in {"open", "partial"}
            /\ \A o \in Orders : o.id = e.id => o.pair = e.pair /\ o.side = e.side
        /\ \A s1, s2 \in Sides : \A i \in DOMAIN snap.book[s1], j \in DOMAIN snap.book[s2] :
            snap.book[s1][i].id = snap.book[s2][j].id => s1 = s2 /\ i = j

ASSUME SnapshotPairsAssumption ==
    \A snap1, snap2 \in Snapshots : \A s1, s2 \in Sides :
        \A i \in DOMAIN snap1.book[s1], j \in DOMAIN snap2.book[s2] :
            snap1.book[s1][i].id = snap2.book[s2][j].id => snap1.pair = snap2.pair

ASSUME NoPairAssumption == NoPair \notin Pairs /\ NoTaker \notin OrderType /\ MaxTime \in Nat

VARIABLES
    books,          \* Engine.pairs; a pair without an entry has the empty book
    orderIDToPair,  \* Engine.orderIDToPair
    taker,          \* the order the running Match works for, or NoTaker
    trades,         \* the trades the running Match has made
    before,         \* history: order and book with which the running Match began
    clock           \* time.Now().Unix()

vars == <<books, orderIDToPair, taker, trades, before, clock>>

TypeOK ==
    /\ books \in [Pairs -> BookType]
    /\ orderIDToPair \in [OrderIds -> Pairs \cup {NoPair}]
    /\ taker \in OrderType \cup {NoTaker}
    /\ trades \in Seq(TradeType)
    /\ before \in [order : OrderType, book : BookType] \cup {NoTaker}
    /\ clock \in Nat

Init ==
    /\ books = [p \in Pairs |-> EmptyBook]
    /\ orderIDToPair = [id \in OrderIds |-> NoPair]
    /\ taker = NoTaker
    /\ trades = <<>>
    /\ before = NoTaker
    /\ clock = 0

MutexFree == taker = NoTaker

-----------------------------------------------------------------------------
(* AddOrder: expired orders are refused before the mutex is taken; an order *)
(* with nothing left is refused too, but its resting copy has gone by then. *)
AddOrder(o) ==
    /\ MutexFree
    /\ ~Expired(o, clock)
    /\ books' = [books EXCEPT ![o.pair] = AddOrderToBook(@, o)]
    /\ orderIDToPair' = IF Left(o) > 0 THEN [orderIDToPair EXCEPT ![o.id] = o.pair]
                                       ELSE orderIDToPair
    /\ UNCHANGED <<taker, trades, before, clock>>

(* RemoveOrder with an empty pair, the way the cancel handler calls it: the *)
(* index names the book; without an index entry every book is tried.        *)
RemoveOrderById(id) ==
    /\ MutexFree
    /\ IF orderIDToPair[id] # NoPair
       THEN books' = [books EXCEPT ![orderIDToPair[id]] = RemoveOrderFromBook(@, id)]
       ELSE LET holders == {p \in Pairs : id \in RestingIds(books[p])} IN
            \E p \in IF holders = {} THEN Pairs ELSE holders :
                books' = [books EXCEPT ![p] = RemoveOrderFromBook(@, id)]
    /\ orderIDToPair' = [orderIDToPair EXCEPT ![id] = NoPair]
    /\ UNCHANGED <<taker, trades, before, clock>>

(* RemoveOrder with the pair named by the caller.                           *)
RemoveOrder(pair, id) ==
    /\ MutexFree
    /\ books' = [books EXCEPT ![pair] = RemoveOrderFromBook(@, id)]
    /\ orderIDToPair' = IF id \in RestingIds(books[pair])
                        THEN [orderIDToPair EXCEPT ![id] = NoPair] ELSE orderIDToPair
    /\ UNCHANGED <<taker, trades, before, clock>>

(* ReplaceOrderbook: the pair's book is thrown away for the filtered,       *)
(* sorted snapshot.                                                         *)
ReplaceOrderbook_KeepIndex(snap) ==
    /\ MutexFree
    /\ books' = [books EXCEPT ![snap.pair] =
            [side \in Sides |-> ReplacementSide(snap.book[side], clock)]]
    /\ orderIDToPair' = [id \in OrderIds |->
            IF id \in RestingIds(books[snap.pair]) THEN NoPair ELSE orderIDToPair[id]]
    /\ UNCHANGED <<taker, trades, before, clock>>

ReplaceOrderbook(snap) ==
    /\ MutexFree
    /\ books' = [books EXCEPT ![snap.pair] =
            [side \in Sides |-> ReplacementSide(snap.book[side], clock)]]
    /\ orderIDToPair' = [id \in OrderIds |->
            IF id \in RestingIds(books'[snap.pair]) THEN snap.pair
            ELSE IF id \in RestingIds(books[snap.pair]) THEN NoPair
            ELSE orderIDToPair[id]]
    /\ UNCHANGED <<taker, trades, before, clock>>

-----------------------------------------------------------------------------
(* Match(o): with nothing left to match it returns before it does anything. *)
MatchBegin(o) ==
    /\ MutexFree
    /\ Left(o) > 0
    /\ taker' = o
    /\ trades' = <<>>
    /\ before' = [order |-> o, book |-> books[o.pair]]
    /\ UNCHANGED <<books, orderIDToPair, clock>>

OppositeSide == books[taker.pair][Opposite(taker.side)]

CanFill == Left(taker) > 0 /\ OppositeSide # <<>> /\ Crosses(taker, OppositeSide[1])

(* One iteration: the first order of the opposite side is the maker, the    *)
(* price is the maker's. A maker that is used up leaves the book; one with  *)
(* nothing left from the start leaves it without a trade.                   *)
MatchFill_TakerPrice ==
    /\ taker # NoTaker /\ CanFill
    /\ LET maker == OppositeSide[1]
           qty   == SmallerOf(Left(taker), Left(maker))
       IN  /\ trades' = Append(trades,
                    [Trade(taker, maker, qty, Len(trades) + 1) EXCEPT !.price = taker.price])
           /\ taker' = [taker EXCEPT !.filled = @ + qty]
           /\ books' = [books EXCEPT ![taker.pair][Opposite(taker.side)] =
                IF Left(maker) = qty THEN Tail(@)
                ELSE [@ EXCEPT ![1].filled = maker.filled + qty, ![1].status = "partial"]]
    /\ UNCHANGED <<orderIDToPair, before, clock>>

MatchFill_LastMaker ==
    /\ taker # NoTaker /\ CanFill
    /\ LET last  == Len(OppositeSide)
           maker == OppositeSide[last]
           qty   == SmallerOf(Left(taker), Left(maker))
       IN  /\ trades' = IF qty > 0
                THEN Append(trades, Trade(taker, maker, qty, Len(trades) + 1)) ELSE trades
           /\ taker' = [taker EXCEPT !.filled = @ + qty]
           /\ books' = [books EXCEPT ![taker.pair][Opposite(taker.side)] =
                IF Left(maker) = qty THEN Front(@)
                ELSE [@ EXCEPT ![last].filled = maker.filled + qty, ![last].status = "partial"]]
    /\ UNCHANGED <<orderIDToPair, before, clock>>

MatchFill_KeepSpent ==
    /\ taker # NoTaker /\ CanFill
    /\ LET maker == OppositeSide[1]
           qty   == SmallerOf(Left(taker), Left(maker))
       IN  /\ trades' = IF qty > 0
                THEN Append(trades, Trade(taker, maker, qty, Len(trades) + 1)) ELSE trades
           /\ taker' = [taker EXCEPT !.filled = @ + qty]
           /\ books' = [books EXCEPT ![taker.pair][Opposite(taker.side)] =
                IF Left(maker) = 0 THEN Tail(@)
                ELSE [@ EXCEPT ![1].filled = maker.filled + qty, ![1].status = "partial"]]
    /\ UNCHANGED <<orderIDToPair, before, clock>>

MatchFill ==
    /\ taker # NoTaker /\ CanFill
    /\ LET maker == OppositeSide[1]
           qty   == SmallerOf(Left(taker), Left(maker))
       IN  /\ trades' = IF qty > 0
                THEN Append(trades, Trade(taker, maker, qty, Len(trades) + 1)) ELSE trades
           /\ taker' = [taker EXCEPT !.filled = @ + qty]
           /\ books' = [books EXCEPT ![taker.pair][Opposite(taker.side)] =
                IF Left(maker) = qty THEN Tail(@)
                ELSE [@ EXCEPT ![1].filled = maker.filled + qty, ![1].status = "partial"]]
    /\ UNCHANGED <<orderIDToPair, before, clock>>

(* The loop ends: both sides are cleared of filled orders and the trades    *)
(* are returned. The index keeps the entries of the makers that left.       *)
MatchEnd ==
    /\ taker # NoTaker /\ ~CanFill
    /\ books' = [books EXCEPT ![taker.pair] = [side \in Sides |-> TrimFilled(@[side])]]
    /\ taker' = NoTaker
    /\ trades' = <<>>
    /\ before' = NoTaker
    /\ UNCHANGED <<orderIDToPair, clock>>

Tick ==
    /\ MutexFree
    /\ clock < MaxTime
    /\ clock' = clock + 1
    /\ UNCHANGED <<books, orderIDToPair, taker, trades, before>>

Next ==
    \/ \E o \in Orders : AddOrder(o) \/ MatchBegin(o)
    \/ \E id \in OrderIds : RemoveOrderById(id) \/ \E p \in Pairs : RemoveOrder(p, id)
    \/ \E snap \in Snapshots : ReplaceOrderbook(snap)
    \/ MatchFill
    \/ MatchEnd
    \/ Tick

Spec == Init /\ [][Next]_vars

-----------------------------------------------------------------------------
(* Every side of every book is in price-time order at all times, also in    *)
(* the middle of a Match: this is what makes "take the first order" the     *)
(* price-time priority that engine.go promises for the book.                *)
PriceTimeSorted == \A p \in Pairs, side \in Sides : SortedSide(books[p][side])

(* An order rests in a pair's book at most once, on the side it was         *)
(* submitted for: a redelivered order must replace its copy, not join it.   *)
OneCopyPerBook ==
    \A p \in Pairs : \A s1, s2 \in Sides :
        \A i \in DOMAIN books[p][s1], j \in DOMAIN books[p][s2] :
            books[p][s1][i].id = books[p][s2][j].id => s1 = s2 /\ i = j

(* No order rests with nothing left of it: a maker is taken off in the very *)
(* iteration that uses it up, and neither AddOrder nor ReplaceOrderbook     *)
(* lets a spent order in.                                                   *)
RestingHasRemainder ==
    \A p \in Pairs, side \in Sides : \A i \in DOMAIN books[p][side] :
        books[p][side][i].filled < books[p][side][i].amount

(* Every resting order can be cancelled by its identifier alone: the index  *)
(* names the book it rests in, whatever mixture of matching, eviction,      *)
(* removal and replacement came before.                                     *)
IndexFindsResting ==
    \A p \in Pairs : \A id \in RestingIds(books[p]) : orderIDToPair[id] = p

(* What AddOrder, RemoveOrder, ReplaceOrderbook and Match have to agree on   *)
(* about the books, after whatever mixture of them.                         *)
BookWellFormed == OneCopyPerBook /\ RestingHasRemainder /\ IndexFindsResting

(* No side outgrows maxOrdersPerPair, although AddOrder gives up only one   *)
(* order and a replacement none: snapshots come from equally bounded books. *)
SidesBounded ==
    \A p \in Pairs, side \in Sides : Len(books[p][side]) <= MaxOrdersPerPair

(* The order a trade names as its maker is one of the side that no other    *)
(* order of the side is ahead of, and the traded quantity is part of what   *)
(* was left of it and comes off its entry.                                  *)
TakenFromBest(t, s, after) ==
    \E i \in DOMAIN s :
        /\ s[i].id = t.maker
        /\ \A j \in DOMAIN s : ~Ahead(s[j], s[i])
        /\ t.amount <= Left(s[i])
        /\ \A k \in DOMAIN after :
            after[k].id = t.maker => Left(after[k]) = Left(s[i]) - t.amount

(* Price-time priority of the trades: whichever order a trade is made with, *)
(* it was the best of its side, and the book gave up what was traded.       *)
BestMakerFirst ==
    [][Len(trades') > Len(trades) =>
        TakenFromBest(trades'[Len(trades')], OppositeSide,
                      books'[taker.pair][Opposite(taker.side)])]_vars

(* A trade's price is within the limits of both orders, and is the maker's. *)
WithinLimits ==
    [][Len(trades') > Len(trades) =>
        LET t == trades'[Len(trades')] IN
        /\ t.price = OppositeSide[1].price
        /\ IF taker.side = "buy" THEN t.price <= taker.price ELSE t.price >= taker.price]_vars

(* The loop of Match computes the declarative outcome: the same trades, in  *)
(* the same order, and the same book.                                       *)
MatchIsOutcome ==
    [][taker # NoTaker /\ taker' = NoTaker =>
        LET out == MatchOutcome(before.book, before.order) IN
        books'[taker.pair] = out.book /\ trades = out.trades]_vars

(* Submitting an order again while its copy rests never pushes another      *)
(* order off the book: the copy leaves before the size limit is applied.    *)
ResubmitEvictsNobody ==
    [][\A o \in Orders :
        AddOrder(o) /\ Left(o) > 0 /\ o.id \in RestingIds(books[o.pair])
            => RestingIds(books'[o.pair]) = RestingIds(books[o.pair])]_vars
=============================================================================
