---------------------------- MODULE MCMatchEngine ----------------------------
(* Instances of MatchEngine for TLC.                                        *)
EXTENDS MatchEngine

CONSTANTS b1, b2, b3, s1, s2, q1, alice, bob, P, Q

MkOrder(id, trader, pair, side, price, amount, filled, createdAt, expiresAt) ==
    [id |-> id, trader |-> trader, pair |-> pair, side |-> side, price |-> price,
     amount |-> amount, filled |-> filled, status |-> IF filled = 0 THEN "open" ELSE "partial",
     createdAt |-> createdAt, expiresAt |-> expiresAt]

(* Pair P has three bids and two asks and its sides are limited to two      *)
(* orders. b1 has a partly filled and s1 a spent version (what another node *)
(* may report); b2 is below the second ask and expires; b1 and b3 tie on    *)
(* price. Pair Q has one bid: a cancel has to find the right book.          *)
SixOrders == {
    MkOrder(b1, alice, P, "buy", 2, 3, 0, 1, 0),
    MkOrder(b1, alice, P, "buy", 2, 3, 2, 1, 0),
    MkOrder(b2, bob,   P, "buy", 1, 1, 0, 0, 1),
    MkOrder(b3, bob,   P, "buy", 2, 1, 0, 0, 0),
    MkOrder(s1, bob,   P, "sell", 1, 2, 0, 1, 0),
    MkOrder(s1, bob,   P, "sell", 1, 2, 2, 1, 0),
    MkOrder(s2, alice, P, "sell", 2, 2, 0, 1, 0),
    MkOrder(q1, bob,   Q, "buy", 1, 1, 0, 0, 0)}

(* Snapshots with partly filled, spent and expiring orders, out of order.   *)
ThreeSnapshots == {
    [pair |-> P, book |-> [side \in Sides |->
        IF side = "buy"
        THEN <<MkOrder(b1, alice, P, "buy", 2, 3, 2, 1, 0),
               MkOrder(b3, bob, P, "buy", 2, 1, 0, 0, 0)>>
        ELSE <<MkOrder(s2, alice, P, "sell", 2, 2, 1, 1, 0)>>]],
    [pair |-> P, book |-> [side \in Sides |->
        IF side = "buy" THEN <<MkOrder(b2, bob, P, "buy", 1, 1, 0, 0, 1)>>
        ELSE <<MkOrder(s1, bob, P, "sell", 1, 2, 2, 1, 0)>>]],
    [pair |-> Q, book |-> EmptyBook]}
=============================================================================
