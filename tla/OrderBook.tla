------------------------------ MODULE OrderBook ------------------------------
(****************************************************************************)
(* The order book of one trading pair and the pure steps the matching       *)
(* engine of the node performs on it (node/internal/match/engine.go).       *)
(*                                                                          *)
(* A book maps each side to the sequence of its resting orders, best first. *)
(* Prices and quantities are natural numbers: the engine computes on        *)
(* big.Float values printed with 18 decimals, that is, in units of 10^-18.  *)
(* Nothing here is RECURSIVE, so the module can be proved about.            *)
(****************************************************************************)
EXTENDS Integers, Sequences, FiniteSets, SequencesExt, Subsequence

CONSTANTS
    OrderIds,           \* order identifiers
    Traders,            \* wallet addresses
    Pairs,              \* trading pairs
    MaxOrdersPerPair    \* Engine.maxOrdersPerPair, the limit of one side

ASSUME MaxOrdersPerPairAssumption == MaxOrdersPerPair \in Nat \ {0}

Sides    == {"buy", "sell"}
Statuses == {"open", "partial", "filled", "cancelled"}

Opposite(side) == IF side = "buy" THEN "sell" ELSE "buy"

(* storage.Order: createdAt and expiresAt are unix seconds; an expiresAt of *)
(* 0 means that the order does not expire.                                  *)
OrderType ==
    [id : OrderIds, trader : Traders, pair : Pairs, side : Sides,
     price : Nat, amount : Nat, filled : Nat, status : Statuses,
     createdAt : Nat, expiresAt : Nat]

Expired(o, now) == o.expiresAt > 0 /\ now > o.expiresAt

Left(o) == o.amount - o.filled

EmptyBook == [side \in Sides |-> <<>>]

BookType == [Sides -> Seq(OrderType)]

RestingIds(book) ==
    {id \in OrderIds : \E side \in Sides : \E i \in DOMAIN book[side] : book[side][i].id = id}

-----------------------------------------------------------------------------
(* Price-time priority: e is served strictly before f on their side.        *)
BetterPrice(side, p, q) == IF side = "buy" THEN p > q ELSE p < q

Ahead(e, f) ==
    \/ BetterPrice(e.side, e.price, f.price)
    \/ e.price = f.price /\ e.createdAt < f.createdAt

SortedSide(s) == \A i, j \in DOMAIN s : i < j => ~Ahead(s[j], s[i])

(* insertOrderSorted swaps the appended order towards the front until it    *)
(* meets a neighbour it is not ahead of.                                    *)
InsertOrderSorted_Append(s, e) == Append(s, e)
InsertOrderSorted(s, e) == InsertAt(s, SelectLastInSeq(s, LAMBDA f : ~Ahead(e, f)) + 1, e)

(* The first order with this identifier is cut out.                         *)
Without(s, id) == RemoveFirstMatch(s, LAMBDA o : o.id = id)

RemoveOrderFromBook_BidsOnly(book, id) == [book EXCEPT !["buy"] = Without(@, id)]
RemoveOrderFromBook(book, id) == [side \in Sides |-> Without(book[side], id)]

(* A full side gives up its last order before the new one is appended, even *)
(* when the new one is worse than the order given up.                       *)
EvictWorst_None(s) == s
EvictWorst(s) == IF Len(s) >= MaxOrdersPerPair THEN Front(s) ELSE s

(* What rests on the book is the part of the order the message reports      *)
(* unfilled, with nothing filled yet.                                       *)
Resting_Twice(o) == [o EXCEPT !.amount = Left(o) - o.filled, !.filled = 0]
Resting(o) == [o EXCEPT !.amount = Left(o), !.filled = 0]

Admissible(o, now) == ~Expired(o, now) /\ Left(o) > 0

(* The book after Engine.AddOrder of an unexpired order: the copy with the  *)
(* same identifier leaves first, also when nothing of the order is left.    *)
AddOrderToBook_EvictFirst(book, o) ==
    [RemoveOrderFromBook([book EXCEPT ![o.side] = EvictWorst(@)], o.id)
        EXCEPT ![o.side] = IF Left(o) > 0 THEN InsertOrderSorted(@, Resting(o)) ELSE @]
AddOrderToBook(book, o) ==
    LET cleared == RemoveOrderFromBook(book, o.id) IN
    IF Left(o) <= 0 THEN cleared
    ELSE [cleared EXCEPT ![o.side] = InsertOrderSorted(EvictWorst(@), Resting(o))]

-----------------------------------------------------------------------------
(* sortOrdersOptimized: the stable sort by price, then by creation time.    *)
Rank(s, i) ==
    Cardinality({j \in DOMAIN s :
        j = i \/ Ahead(s[j], s[i]) \/ (~Ahead(s[i], s[j]) /\ j < i)})

SortOrders(s) == [r \in 1 .. Len(s) |-> s[CHOOSE i \in DOMAIN s : Rank(s, i) = r]]

(* One side of ReplaceOrderbook: expired and exhausted orders are skipped.  *)
ReplacementSide_Unsorted(s, now) ==
    LET live == KeepAt(s, {i \in DOMAIN s : Admissible(s[i], now)}) IN
    [i \in DOMAIN live |-> Resting(live[i])]
ReplacementSide(s, now) ==
    LET live == KeepAt(s, {i \in DOMAIN s : Admissible(s[i], now)}) IN
    SortOrders([i \in DOMAIN live |-> Resting(live[i])])

TrimFilled(s) == KeepAt(s, {i \in DOMAIN s : s[i].status # "filled"})

-----------------------------------------------------------------------------
(* Matching one taker against the opposite side.                            *)
Crosses_Always(taker, maker) == TRUE
Crosses(taker, maker) ==
    IF taker.side = "buy" THEN taker.price >= maker.price ELSE taker.price <= maker.price

SmallerOf(a, b) == IF a < b THEN a ELSE b

Trade(taker, maker, qty, seq) ==
    [taker |-> taker.id, maker |-> maker.id, seq |-> seq,
     pair |-> taker.pair, price |-> maker.price, amount |-> qty]

(* storage.Trade: the identifier of a trade is <<taker, maker, seq>>.       *)
TradeType ==
    [taker : OrderIds, maker : OrderIds, seq : Nat, pair : Pairs,
     price : Nat, amount : Nat]

(* What the first i orders of a side offer together.                        *)
Offered(s) ==
    LET Sum[i \in 0 .. Len(s)] == IF i = 0 THEN 0 ELSE Sum[i-1] + Left(s[i]) IN Sum

Reached(taker, s, i) == \A j \in 1 .. i : Crosses(taker, s[j])

(* The outcome of a whole Match, stated without its loop: the taker reaches *)
(* order i when it crosses every order up to i, and takes of it what the    *)
(* orders before it left open.                                              *)
Fills(taker, s) ==
    [i \in 1 .. Len(s) |->
        IF Reached(taker, s, i) /\ Offered(s)[i-1] < Left(taker)
        THEN SmallerOf(Left(s[i]), Left(taker) - Offered(s)[i-1])
        ELSE 0]

MatchOutcome(book, taker) ==
    LET s     == book[Opposite(taker.side)]
        fill  == Fills(taker, s)
        n     == Cardinality({i \in DOMAIN s : fill[i] > 0})
        gone  == Cardinality({i \in DOMAIN s : fill[i] > 0 /\ fill[i] = Left(s[i])})
        rest  == [i \in 1 .. Len(s) - gone |->
                    IF fill[gone + i] > 0
                    THEN [s[gone + i] EXCEPT !.filled = @ + fill[gone + i], !.status = "partial"]
                    ELSE s[gone + i]]
    IN  [book   |-> [book EXCEPT ![Opposite(taker.side)] = rest],
         trades |-> [i \in 1 .. n |-> Trade(taker, s[i], fill[i], i)]]
=============================================================================
