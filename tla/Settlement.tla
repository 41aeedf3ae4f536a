------------------------------ MODULE Settlement ------------------------------
(****************************************************************************)
(* The custody and settlement contracts: Vault.sol holds the users' tokens, *)
(* Settlement.sol moves them as the matched trades say and takes fees, and  *)
(* OrderNonceManager.sol, which it inherits, consumes order nonces.         *)
(*                                                                          *)
(* A transaction is one step, and one that reverts is no step, except that  *)
(* a batch settles its trades one by one: the contract's nonReentrant lock  *)
(* is the variable tx, and a trade of the batch that fails rolls everything *)
(* since the beginning of the batch back.                                   *)
(****************************************************************************)
EXTENDS Integers, Sequences, FiniteSets, SequencesExt

CONSTANTS
    Users,               \* wallets that deposit and trade
    Relayers,            \* addresses the owner may put on the whitelist
    Owner,               \* owner of Settlement and Vault
    Vault, FeeDistributor, NodeRewards,    \* the contracts' own addresses
    Tokens, Usdt,
    Trades,              \* the matched trades that may be submitted
    FeeCap,              \* feeCapPerToken: token -> cap, 0 for none
    MaxGasReimbursePerTrade,               \* 0 for no limit
    FeeRates,            \* values for setFeeBps
    MinScores,           \* values for setMinRelayerReputation
    ViolationPenalty, RateLimitMaxCalls,
    Savings,             \* values of gasSavingsUsdt6
    MaxBatch,            \* 50 in the contract
    DepositAmount,       \* bound: users deposit and withdraw this much at once
    Funds,               \* what every wallet starts with, of each token
    MaxTransactions,     \* bound: settlement transactions in a run
    MaxWindow,           \* bound: rate limit windows in a run
    NoTx

Accounts == Users \cup Relayers \cup {Owner, Vault, FeeDistributor, NodeRewards}
Callers  == Relayers \cup {Owner}

TradeType ==
    [maker : Users, taker : Users, tokenIn : Tokens, tokenOut : Tokens,
     amountIn : Nat, amountOut : Nat, gasIn : Nat, gasOut : Nat,
     makerNonce : Nat, takerNonce : Nat]

MaxFeeBps == 1000     \* a fee is at most a tenth
MaxScore  == 10000    \* of a relayer's reputation

ASSUME TradesAssumption == Trades \subseteq TradeType
ASSUME AccountsAssumption ==
    /\ IsFiniteSet(Users)
    /\ Usdt \in Tokens
    /\ Vault # FeeDistributor /\ Vault # NodeRewards /\ FeeDistributor # NodeRewards
    /\ {Vault, FeeDistributor, NodeRewards} \cap (Users \cup Callers) = {}
    /\ NoTx \notin Seq(TradeType)
ASSUME ParametersAssumption ==
    /\ FeeCap \in [Tokens -> Nat]
    /\ FeeRates \subseteq 0 .. MaxFeeBps
    /\ MinScores \subseteq 0 .. MaxScore
    /\ ViolationPenalty \in 0 .. MaxScore
    /\ MaxGasReimbursePerTrade \in Nat
    /\ RateLimitMaxCalls \in Nat /\ DepositAmount \in Nat \ {0} /\ Funds \in Nat
    /\ Savings \subseteq Nat /\ MaxBatch \in Nat

VARIABLES
    balances,      \* Vault.balances: user -> token -> amount
    wallet,        \* ERC-20 balances: account -> token -> amount
    connected,     \* Vault.settlement is this Settlement
    userNonces,    \* user -> the lowest nonce still accepted
    usedNonces,    \* user -> set of consumed nonces
    isRelayer,     \* the whitelist
    score,         \* relayerReputation[r].score
    calls,         \* relayerCallCounts[r] of the current window
    window,        \* block.timestamp / relayerRateLimitWindow
    feeBps, minRelayerReputation,
    tx,            \* the batch that holds the lock, or NoTx
    transactions,  \* bound: number of settlement transactions so far
    consumed,      \* history: <<user, nonce>> -> how often settleTrade used it
    settled        \* history: how often each trade has been settled

vars == <<balances, wallet, connected, userNonces, usedNonces, isRelayer, score, calls,
          window, feeBps, minRelayerReputation, tx, transactions, consumed, settled>>

Ledger     == <<balances, wallet>>
Nonces     == <<userNonces, usedNonces, consumed>>
Parameters == <<connected, isRelayer, feeBps, minRelayerReputation>>

NonceRange == UNION {{t.makerNonce, t.takerNonce} : t \in Trades}

DueType == [trade : Trades, feeIn : Nat, feeOut : Nat]

LedgerType ==
    /\ balances \in [Users -> [Tokens -> Nat]]
    /\ wallet \in [Accounts -> [Tokens -> Nat]]

NoncesType ==
    /\ userNonces \in [Users -> Nat]
    /\ usedNonces \in [Users -> SUBSET NonceRange]
    /\ consumed \in [Users -> [NonceRange -> Nat]]

ParametersType ==
    /\ connected \in BOOLEAN
    /\ isRelayer \subseteq Relayers
    /\ feeBps \in 0 .. MaxFeeBps
    /\ minRelayerReputation \in 0 .. MaxScore

CountersType ==
    /\ score \in [Relayers -> 0 .. MaxScore]
    /\ calls \in [Relayers -> 0 .. RateLimitMaxCalls]
    /\ window \in Nat
    /\ transactions \in Nat
    /\ settled \in [Trades -> Nat]

TxType ==
    tx # NoTx => tx.caller \in Callers /\ tx.due \in Seq(DueType) /\ tx.savings \in Nat

TypeOK == LedgerType /\ NoncesType /\ ParametersType /\ CountersType /\ TxType

Init ==
    /\ balances = [u \in Users |-> [t \in Tokens |-> 0]]
    /\ wallet = [a \in Accounts |-> [t \in Tokens |->
            IF a \in Users \cup Callers THEN Funds ELSE 0]]
    /\ connected = TRUE
    /\ userNonces = [u \in Users |-> 0]
    /\ usedNonces = [u \in Users |-> {}]
    /\ isRelayer = {}
    /\ score = [r \in Relayers |-> 0]
    /\ calls = [r \in Relayers |-> 0]
    /\ window = 0
    /\ feeBps = 1
    /\ minRelayerReputation = 5000
    /\ tx = NoTx
    /\ transactions = 0
    /\ consumed = [u \in Users |-> [n \in NonceRange |-> 0]]
    /\ settled = [t \in Trades |-> 0]

Unlocked == tx = NoTx

-----------------------------------------------------------------------------
(* Vault: a user's own tokens go in and out at any time, batch or no batch  *)
(* pending; the steps of a batch are one transaction, so never in between.  *)
Deposit(u, t) ==
    /\ Unlocked
    /\ wallet[u][t] >= DepositAmount
    /\ wallet' = [wallet EXCEPT ![u][t] = @ - DepositAmount, ![Vault][t] = @ + DepositAmount]
    /\ balances' = [balances EXCEPT ![u][t] = @ + DepositAmount]
    /\ UNCHANGED <<Nonces, Parameters, score, calls, window, tx, transactions, settled>>

Withdraw(u, t) ==
    /\ Unlocked
    /\ balances[u][t] >= DepositAmount
    /\ balances' = [balances EXCEPT ![u][t] = @ - DepositAmount]
    /\ wallet' = [wallet EXCEPT ![Vault][t] = @ - DepositAmount, ![u][t] = @ + DepositAmount]
    /\ UNCHANGED <<Nonces, Parameters, score, calls, window, tx, transactions, settled>>

(* Vault.setSettlement: another contract is connected, or this one again.   *)
SetSettlement(on) ==
    /\ Unlocked
    /\ connected' = on
    /\ UNCHANGED <<Ledger, Nonces, isRelayer, feeBps, minRelayerReputation, score, calls,
                   window, tx, transactions, settled>>

-----------------------------------------------------------------------------
(* The fee of one side of a trade: a share of the amount, up to the cap.    *)
SmallerOf(a, b) == IF a < b THEN a ELSE b

Fee(token, amount) ==
    LET fee == (amount * feeBps) \div 10000 IN
    IF FeeCap[token] = 0 THEN fee ELSE SmallerOf(fee, FeeCap[token])

Due(trade) ==
    [trade |-> trade, feeIn |-> Fee(trade.tokenIn, trade.amountIn),
     feeOut |-> Fee(trade.tokenOut, trade.amountOut)]

ValidTrade(t) ==
    /\ t.maker # t.taker /\ t.tokenIn # t.tokenOut
    /\ t.amountIn > 0 /\ t.amountOut > 0
    /\ MaxGasReimbursePerTrade = 0 \/ t.gasIn + t.gasOut <= MaxGasReimbursePerTrade

(* _settleOne: each side pays its amount; the other side receives what fee  *)
(* and gas leave of it. The Vault refuses to move nothing.                  *)
CanSettle(due) ==
    LET t == due.trade IN
    /\ connected
    /\ t.amountIn > due.feeIn + t.gasIn
    /\ t.amountOut > due.feeOut + t.gasOut
    /\ balances[t.maker][t.tokenIn] >= t.amountIn
    /\ balances[t.taker][t.tokenOut] >= t.amountOut

SettleOne_FeeOnTop(due, caller) ==
    LET t == due.trade IN
    /\ balances' = [balances EXCEPT
            ![t.maker][t.tokenIn]  = @ - t.amountIn - due.feeIn,
            ![t.taker][t.tokenIn]  = @ + t.amountIn - t.gasIn,
            ![t.taker][t.tokenOut] = @ - t.amountOut,
            ![t.maker][t.tokenOut] = @ + t.amountOut - due.feeOut - t.gasOut]
    /\ wallet' = [wallet EXCEPT
            ![Vault][t.tokenIn]           = @ - due.feeIn - t.gasIn,
            ![Vault][t.tokenOut]          = @ - due.feeOut - t.gasOut,
            ![FeeDistributor][t.tokenIn]  = @ + due.feeIn,
            ![FeeDistributor][t.tokenOut] = @ + due.feeOut,
            ![caller][t.tokenIn]          = @ + t.gasIn,
            ![caller][t.tokenOut]         = @ + t.gasOut]

SettleOne_GasNotCharged(due, caller) ==
    LET t == due.trade IN
    /\ balances' = [balances EXCEPT
            ![t.maker][t.tokenIn]  = @ - t.amountIn,
            ![t.taker][t.tokenIn]  = @ + t.amountIn - due.feeIn,
            ![t.taker][t.tokenOut] = @ - t.amountOut,
            ![t.maker][t.tokenOut] = @ + t.amountOut - due.feeOut - t.gasOut]
    /\ wallet' = [wallet EXCEPT
            ![Vault][t.tokenIn]           = @ - due.feeIn - t.gasIn,
            ![Vault][t.tokenOut]          = @ - due.feeOut - t.gasOut,
            ![FeeDistributor][t.tokenIn]  = @ + due.feeIn,
            ![FeeDistributor][t.tokenOut] = @ + due.feeOut,
            ![caller][t.tokenIn]          = @ + t.gasIn,
            ![caller][t.tokenOut]         = @ + t.gasOut]

SettleOne(due, caller) ==
    LET t == due.trade IN
    /\ balances' = [balances EXCEPT
            ![t.maker][t.tokenIn]  = @ - t.amountIn,
            ![t.taker][t.tokenIn]  = @ + t.amountIn - due.feeIn - t.gasIn,
            ![t.taker][t.tokenOut] = @ - t.amountOut,
            ![t.maker][t.tokenOut] = @ + t.amountOut - due.feeOut - t.gasOut]
    /\ wallet' = [wallet EXCEPT
            ![Vault][t.tokenIn]           = @ - due.feeIn - t.gasIn,
            ![Vault][t.tokenOut]          = @ - due.feeOut - t.gasOut,
            ![FeeDistributor][t.tokenIn]  = @ + due.feeIn,
            ![FeeDistributor][t.tokenOut] = @ + due.feeOut,
            ![caller][t.tokenIn]          = @ + t.gasIn,
            ![caller][t.tokenOut]         = @ + t.gasOut]

(* _isSettlementCaller and the rate limit, which every entry point checks   *)
(* for callers other than the owner.                                        *)
MayCall(c) ==
    /\ Unlocked
    /\ transactions < MaxTransactions
    /\ c # Owner => c \in isRelayer /\ calls[c] < RateLimitMaxCalls

Counted(c) ==
    /\ transactions' = transactions + 1
    /\ calls' = IF c = Owner THEN calls ELSE [calls EXCEPT ![c] = @ + 1]

(* useNonce, for both sides of a trade (they are different users).          *)
FreshNonce(u, n) == n \notin usedNonces[u] /\ n >= userNonces[u]

UseNonces_Unmarked(t) ==
    /\ userNonces' = [userNonces EXCEPT ![t.maker] = t.makerNonce, ![t.taker] = t.takerNonce]
    /\ UNCHANGED usedNonces
    /\ consumed' = [consumed EXCEPT ![t.maker][t.makerNonce] = @ + 1,
                                    ![t.taker][t.takerNonce] = @ + 1]

UseNonces(t) ==
    /\ userNonces' = [userNonces EXCEPT ![t.maker] = t.makerNonce + 1,
                                        ![t.taker] = t.takerNonce + 1]
    /\ usedNonces' = [usedNonces EXCEPT ![t.maker] = @ \cup {t.makerNonce},
                                        ![t.taker] = @ \cup {t.takerNonce}]
    /\ consumed' = [consumed EXCEPT ![t.maker][t.makerNonce] = @ + 1,
                                    ![t.taker][t.takerNonce] = @ + 1]

(* _checkRelayerReputation.                                                 *)
Reputable(c) == c # Owner => score[c] >= minRelayerReputation

SettleTrade(c, t) ==
    /\ MayCall(c)
    /\ ValidTrade(t)
    /\ FreshNonce(t.maker, t.makerNonce) /\ FreshNonce(t.taker, t.takerNonce)
    /\ Reputable(c)
    /\ CanSettle(Due(t))
    /\ UseNonces(t)
    /\ Counted(c)
    /\ SettleOne(Due(t), c)
    /\ score' = IF c = Owner THEN score
                ELSE [score EXCEPT ![c] = SmallerOf(@ + 1, MaxScore)]
    /\ settled' = [settled EXCEPT ![t] = @ + 1]
    /\ UNCHANGED <<Parameters, window, tx>>

-----------------------------------------------------------------------------
(* settleTradesBatch and settleTradesBatchWithMerkle (whose proofs are      *)
(* checked against a root that the caller itself names): no nonces, no      *)
(* reputation, one call for the rate limit.                                 *)
BatchBegin(c, due, savings) ==
    /\ tx' = [caller |-> c, due |-> due, savings |-> savings,
              saved |-> [balances |-> balances, wallet |-> wallet, calls |-> calls,
                         settled |-> settled]]
    /\ Counted(c)
    /\ UNCHANGED <<Ledger, Nonces, Parameters, score, window, settled>>

SettleTradesBatch(c, batch) ==
    /\ MayCall(c)
    /\ Len(batch) \in 1 .. MaxBatch
    /\ \A i \in DOMAIN batch : ValidTrade(batch[i])
    /\ BatchBegin(c, [i \in DOMAIN batch |-> Due(batch[i])], 0)

(* settleTradesBatchWithGasSavings: half of the savings is taken off the    *)
(* USDT fees, shared out in proportion to them.                             *)
UsdtFee(due) ==
    (IF due.trade.tokenIn = Usdt THEN due.feeIn ELSE 0)
    + (IF due.trade.tokenOut = Usdt THEN due.feeOut ELSE 0)

TotalUsdtFee(dues) == SumFunction([i \in DOMAIN dues |-> UsdtFee(dues[i])])

Rebate(dues, savings) == SmallerOf((savings * 50) \div 100, TotalUsdtFee(dues))

Less_Unchecked(a, b) == a - b
Less(a, b) == IF a >= b THEN a - b ELSE 0

Rebated_BothSides(dues, savings) ==
    [i \in DOMAIN dues |->
        IF UsdtFee(dues[i]) = 0 THEN dues[i]
        ELSE LET deduct == (Rebate(dues, savings) * UsdtFee(dues[i])) \div TotalUsdtFee(dues)
             IN  [dues[i] EXCEPT !.feeIn = Less(@, deduct), !.feeOut = Less(@, deduct)]]

Rebated(dues, savings) ==
    [i \in DOMAIN dues |->
        IF UsdtFee(dues[i]) = 0 THEN dues[i]
        ELSE LET deduct == (Rebate(dues, savings) * UsdtFee(dues[i])) \div TotalUsdtFee(dues)
             IN  IF dues[i].trade.tokenIn = Usdt
                 THEN [dues[i] EXCEPT !.feeIn = Less(@, deduct)]
                 ELSE [dues[i] EXCEPT !.feeOut = Less(@, deduct)]]

SettleTradesBatchWithGasSavings(c, batch, savings) ==
    /\ MayCall(c)
    /\ Len(batch) \in 1 .. MaxBatch
    /\ \A i \in DOMAIN batch : ValidTrade(batch[i])
    /\ BatchBegin(c, Rebated([i \in DOMAIN batch |-> Due(batch[i])], savings), savings)

BatchStep ==
    /\ tx # NoTx /\ tx.due # <<>>
    /\ ValidTrade(Head(tx.due).trade)
    /\ CanSettle(Head(tx.due))
    /\ SettleOne(Head(tx.due), tx.caller)
    /\ settled' = [settled EXCEPT ![Head(tx.due).trade] = @ + 1]
    /\ tx' = [tx EXCEPT !.due = Tail(@)]
    /\ UNCHANGED <<Nonces, Parameters, score, calls, window, transactions>>

(* A quarter of the savings each goes from the caller's wallet to the fee   *)
(* distributor and to the founder's rewards.                                *)
Quarter(savings) == (savings * 25) \div 100

BatchCommit ==
    /\ tx # NoTx /\ tx.due = <<>>
    /\ wallet[tx.caller][Usdt] >= 2 * Quarter(tx.savings)
    /\ wallet' = [wallet EXCEPT ![tx.caller][Usdt]      = @ - 2 * Quarter(tx.savings),
                                ![FeeDistributor][Usdt] = @ + Quarter(tx.savings),
                                ![NodeRewards][Usdt]    = @ + Quarter(tx.savings)]
    /\ tx' = NoTx
    /\ UNCHANGED <<balances, Nonces, Parameters, score, calls, window, transactions, settled>>

(* The first requirement that fails reverts the whole batch.                *)
BatchRevert ==
    /\ tx # NoTx
    /\ IF tx.due # <<>> THEN ~CanSettle(Head(tx.due))
       ELSE wallet[tx.caller][Usdt] < 2 * Quarter(tx.savings)
    /\ balances' = tx.saved.balances
    /\ wallet' = tx.saved.wallet
    /\ calls' = tx.saved.calls
    /\ settled' = tx.saved.settled
    /\ tx' = NoTx
    /\ UNCHANGED <<Nonces, Parameters, score, window, transactions>>

-----------------------------------------------------------------------------
(* The owner's parameters, and the passing of time.                         *)
SetFeeBps(bps) ==
    /\ Unlocked
    /\ feeBps' = bps
    /\ UNCHANGED <<Ledger, Nonces, connected, isRelayer, minRelayerReputation, score, calls,
                   window, tx, transactions, settled>>

SetRelayerAllowed(r, allowed) ==
    /\ Unlocked
    /\ isRelayer' = IF allowed THEN isRelayer \cup {r} ELSE isRelayer \ {r}
    /\ UNCHANGED <<Ledger, Nonces, connected, feeBps, minRelayerReputation, score, calls,
                   window, tx, transactions, settled>>

SetMinRelayerReputation(min) ==
    /\ Unlocked
    /\ minRelayerReputation' = min
    /\ UNCHANGED <<Ledger, Nonces, connected, feeBps, isRelayer, score, calls,
                   window, tx, transactions, settled>>

RecordRelayerViolation(r) ==
    /\ Unlocked
    /\ score' = [score EXCEPT ![r] = Less(@, ViolationPenalty)]
    /\ UNCHANGED <<Ledger, Nonces, Parameters, calls, window, tx, transactions, settled>>

NextWindow ==
    /\ Unlocked
    /\ window < MaxWindow
    /\ window' = window + 1
    /\ calls' = [r \in Relayers |-> 0]
    /\ UNCHANGED <<Ledger, Nonces, Parameters, score, tx, transactions, settled>>

Batches == UNION {[1 .. k -> Trades] : k \in 1 .. MaxBatch}

Next ==
    \/ \E u \in Users, t \in Tokens : Deposit(u, t) \/ Withdraw(u, t)
    \/ \E c \in Callers :
        \/ \E t \in Trades : SettleTrade(c, t)
        \/ \E batch \in Batches :
            \/ SettleTradesBatch(c, batch)
            \/ \E s \in Savings : SettleTradesBatchWithGasSavings(c, batch, s)
    \/ BatchStep \/ BatchCommit \/ BatchRevert
    \/ \E on \in BOOLEAN : SetSettlement(on)
    \/ \E bps \in FeeRates : SetFeeBps(bps)
    \/ \E r \in Relayers :
        \/ \E allowed \in BOOLEAN : SetRelayerAllowed(r, allowed)
        \/ RecordRelayerViolation(r)
    \/ \E min \in MinScores : SetMinRelayerReputation(min)
    \/ NextWindow

Spec == Init /\ [][Next]_vars

-----------------------------------------------------------------------------
(* The Vault holds exactly what it owes, token by token, also between two   *)
(* trades of a batch and after a batch has been rolled back: fees and gas   *)
(* leave the users' balances together with the Vault's tokens.              *)
VaultSolvent ==
    \A t \in Tokens : SumFunction([u \in Users |-> balances[u][t]]) = wallet[Vault][t]

(* The trades a step settles, and what a user sells in them.                *)
JustSettled == {t \in Trades : settled'[t] > settled[t]}

(* Settling a trade costs the maker exactly amountIn of tokenIn and the     *)
(* taker exactly amountOut of tokenOut, fee and gas included, and costs     *)
(* nobody else anything.                                                    *)
PartiesPay ==
    \A t \in JustSettled : \A u \in Users : \A token \in Tokens :
        LET paid == balances[u][token] - balances'[u][token] IN
        /\ u = t.maker /\ token = t.tokenIn => paid = t.amountIn
        /\ u = t.taker /\ token = t.tokenOut => paid = t.amountOut
        /\ paid > 0 => <<u, token>> \in {<<t.maker, t.tokenIn>>, <<t.taker, t.tokenOut>>}

PartiesPayWhatTheySold == [][PartiesPay]_vars

(* Through settleTrade an order's nonce is consumed at most once, whatever  *)
(* reverted batches and parameter changes come in between.                  *)
NonceOnce == \A u \in Users : \A n \in NonceRange : consumed[u][n] <= 1

(* The rebate never takes off more than half of the savings, never raises   *)
(* a fee, and leaves the fees in other tokens alone.                        *)
RebateWithinBounds ==
    tx = NoTx /\ tx' # NoTx =>
        LET Full(i) == Due(tx'.due[i].trade)
            full    == [i \in DOMAIN tx'.due |-> Full(i)]
        IN  /\ TotalUsdtFee(full) - TotalUsdtFee(tx'.due) <= (tx'.savings * 50) \div 100
            /\ \A i \in DOMAIN tx'.due :
                /\ tx'.due[i].feeIn <= Full(i).feeIn /\ tx'.due[i].feeOut <= Full(i).feeOut
                /\ tx'.due[i].trade.tokenIn # Usdt => tx'.due[i].feeIn = Full(i).feeIn
                /\ tx'.due[i].trade.tokenOut # Usdt => tx'.due[i].feeOut = Full(i).feeOut

RebateBounded == [][RebateWithinBounds]_vars

-----------------------------------------------------------------------------
(* What comments and tests promise and the code does not keep.              *)

(* "Manages each user's order nonce, prevents orders from being replayed",  *)
(* OrderNonceManager.sol:5: a relayer that sends a trade again because it   *)
(* missed the receipt does not settle it twice.                             *)
SettledOnce == \A t \in Trades : settled[t] <= 1
=============================================================================
