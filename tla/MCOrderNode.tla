----------------------------- MODULE MCOrderNode -----------------------------
(* Instances of OrderNode for TLC.                                          *)
EXTENDS OrderNode

CONSTANTS b1, s1, s2, n1, n2, alice, bob, P

MkOrder(id, trader, side, price, amount, createdAt, expiresAt) ==
    [id |-> id, trader |-> trader, pair |-> P, side |-> side, price |-> price,
     amount |-> amount, filled |-> 0, status |-> "open",
     createdAt |-> createdAt, expiresAt |-> expiresAt]

(* A bid that two asks at its price or below fill together.                 *)
ThreeOrders == {
    MkOrder(b1, alice, "buy", 2, 2, 0, 0),
    MkOrder(s1, bob, "sell", 1, 1, 1, 0),
    MkOrder(s2, bob, "sell", 2, 2, 0, 0)}

(* A bid and an ask that expires.                                           *)
TwoOrders == {
    MkOrder(b1, alice, "buy", 2, 2, 0, 0),
    MkOrder(s1, bob, "sell", 1, 1, 0, 1)}
=============================================================================
