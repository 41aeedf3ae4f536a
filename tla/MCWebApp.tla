------------------------------ MODULE MCWebApp ------------------------------
(* Instances of WebApp for TLC.                                              *)
EXTENDS WebApp, TLC

CONSTANTS me, peer, near, far, a1, b1, mine

(* The owner has mapped the token for the one chain, and the page's table    *)
(* leaves the other out.                                                     *)
OneEid == (near :> 30184) @@ (far :> 0)

EverybodyActive == {{me, peer}}

TypedAmounts ==
    [deposit |-> {10}, withdraw |-> {10}, swap |-> {10}, addLiquidity |-> {6}]

(* The two handlers that draw on the same allowances.                        *)
PoolHandlers == {<<"swap", "addLiquidity">>, <<"addLiquidity", "swap">>}

(* The fee of what others swap is above the cap of one of the tokens.        *)
CapOnB == [t \in {TokenA, TokenB} |-> IF t = TokenB THEN 1 ELSE 0]

(* The account's share shrinks, or grows, when the owner changes the list.   *)
HalfList == (me :> 50) @@ (peer :> 50)
TwoLists == {HalfList, (me :> 20) @@ (peer :> 80)}

(* The account's reward is spread over two claims at least.                  *)
FewProofs == (me :> 1) @@ (peer :> 4)

Sized(side, price, timestamp, amount) ==
    [side |-> side, price |-> price, timestamp |-> timestamp, amount |-> amount]

(* A bid, and a later bid of the same price that is this tab's own and       *)
(* enters the book only by a restart, perhaps before the other is known; an  *)
(* ask that takes the first in part and, delivered again, the rest of it or  *)
(* the other.                                                                *)
ThreeOrders ==
    (a1 :> Sized("sell", 2, 2, 2))
    @@ (b1 :> Sized("buy", 3, 1, 3)) @@ (mine :> Sized("buy", 3, 2, 1))

AskTwice == [o \in {a1, b1, mine} |-> IF o = a1 THEN 2 ELSE 1]
=============================================================================
