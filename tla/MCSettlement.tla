---------------------------- MODULE MCSettlement ----------------------------
(* Instances of Settlement for TLC.                                         *)
EXTENDS Settlement

CONSTANTS alice, bob, relayer, usdt, eth

MkTrade(maker, taker, tokenIn, tokenOut, amountIn, amountOut, gasIn, gasOut, makerNonce,
        takerNonce) ==
    [maker |-> maker, taker |-> taker, tokenIn |-> tokenIn, tokenOut |-> tokenOut,
     amountIn |-> amountIn, amountOut |-> amountOut, gasIn |-> gasIn, gasOut |-> gasOut,
     makerNonce |-> makerNonce, takerNonce |-> takerNonce]

(* alice sells eth to bob and bob sells eth back to her; the second trade   *)
(* reimburses gas on both sides. At 10% the USDT fees are 2 and 1.          *)
TwoTrades == {
    MkTrade(alice, bob, eth, usdt, 10, 20, 0, 0, 0, 0),
    MkTrade(bob, alice, eth, usdt, 10, 10, 1, 2, 1, 0)}

EthFeeCap == [t \in Tokens |-> IF t = usdt THEN 1 ELSE 0]
NoFeeCap  == [t \in Tokens |-> 0]
=============================================================================
