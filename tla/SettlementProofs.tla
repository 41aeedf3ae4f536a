--------------------------- MODULE SettlementProofs ---------------------------
(* Proofs about Settlement, for every finite set of users, every set of     *)
(* relayers, tokens and trades, every fee, gas and saving.                  *)
(* First the nonces; then the sum the Vault owes, and each action's effect  *)
(* on it; then LedgerInv, the inductive invariant; last the two properties  *)
(* of steps, what the parties pay and what the rebate takes off.            *)
EXTENDS Settlement, DataLemmas, TLAPS

(* A nonce has been consumed once if it is marked as used, and never if it  *)
(* is not.                                                                  *)
ConsumedOnceIfUsed ==
    \A u \in Users : \A n \in NonceRange :
        consumed[u][n] = IF n \in usedNonces[u] THEN 1 ELSE 0

NonceInv ==
    /\ usedNonces \in [Users -> SUBSET NonceRange]
    /\ consumed \in [Users -> [NonceRange -> Nat]]
    /\ ConsumedOnceIfUsed

-----------------------------------------------------------------------------
(* No nonce is used or consumed before the first trade.                     *)
LEMMA InitNonceInv == Init => NonceInv
BY DEF Init, NonceInv, ConsumedOnceIfUsed

(* settleTrade consumes two nonces of different users, neither used before. *)
LEMMA SettleTradeNonces ==
    ASSUME NonceInv, NEW c, NEW t \in Trades, SettleTrade(c, t)
    PROVE  NonceInv'
<1>1. /\ t.maker \in Users /\ t.taker \in Users /\ t.maker # t.taker
      /\ t.makerNonce \in NonceRange /\ t.takerNonce \in NonceRange
  BY TradesAssumption DEF SettleTrade, ValidTrade, TradeType, NonceRange
<1>2. t.makerNonce \notin usedNonces[t.maker] /\ t.takerNonce \notin usedNonces[t.taker]
  BY DEF SettleTrade, FreshNonce
<1>3. /\ usedNonces' = [usedNonces EXCEPT ![t.maker] = @ \cup {t.makerNonce},
                                          ![t.taker] = @ \cup {t.takerNonce}]
      /\ consumed' = [consumed EXCEPT ![t.maker][t.makerNonce] = @ + 1,
                                      ![t.taker][t.takerNonce] = @ + 1]
  BY DEF SettleTrade, UseNonces
<1> DEFINE Consumes(u, n) == \/ u = t.maker /\ n = t.makerNonce
                             \/ u = t.taker /\ n = t.takerNonce
<1>4. usedNonces' \in [Users -> SUBSET NonceRange]
  BY <1>1, <1>3 DEF NonceInv
<1>5. \A u \in Users : \A n \in NonceRange :
          n \in usedNonces'[u] <=> n \in usedNonces[u] \/ Consumes(u, n)
  BY <1>1, <1>3 DEF NonceInv
<1>6. \A u \in Users : \A n \in NonceRange :
          consumed'[u][n] = IF Consumes(u, n) THEN consumed[u][n] + 1 ELSE consumed[u][n]
  BY <1>1, <1>3 DEF NonceInv
<1>7. consumed' \in [Users -> [NonceRange -> Nat]]
  <2>1. \A u \in Users : \A n \in NonceRange : consumed'[u][n] \in Nat
    BY <1>6 DEF NonceInv
  <2>2. consumed' = [u \in Users |-> consumed'[u]]
    BY <1>3 DEF NonceInv
  <2>3. \A u \in Users : consumed'[u] = [n \in NonceRange |-> consumed'[u][n]]
    BY <1>1, <1>3 DEF NonceInv
  <2> QED BY <2>1, <2>2, <2>3
<1>8. \A u \in Users : \A n \in NonceRange : Consumes(u, n) => consumed[u][n] = 0
  BY <1>1, <1>2 DEF NonceInv, ConsumedOnceIfUsed
<1>9. ConsumedOnceIfUsed'
  BY <1>5, <1>6, <1>8 DEF NonceInv, ConsumedOnceIfUsed
<1> QED BY <1>4, <1>7, <1>9 DEF NonceInv

(* A batch that reverts restores both the nonces and their counts.          *)
LEMMA NextNonceInv == NonceInv /\ [Next]_vars => NonceInv'
<1> SUFFICES ASSUME NonceInv, [Next]_vars PROVE NonceInv'
  OBVIOUS
<1>1. CASE \E c \in Callers, t \in Trades : SettleTrade(c, t)
  BY <1>1, SettleTradeNonces
<1>2. CASE UNCHANGED Nonces
  BY <1>2 DEF Nonces, NonceInv, ConsumedOnceIfUsed
<1>3. CASE \E u \in Users, t \in Tokens : Deposit(u, t) \/ Withdraw(u, t)
  BY <1>2, <1>3 DEF Deposit, Withdraw, Nonces
<1>4. CASE \E c \in Callers, batch \in Batches :
              \/ SettleTradesBatch(c, batch)
              \/ \E s \in Savings : SettleTradesBatchWithGasSavings(c, batch, s)
  BY <1>2, <1>4 DEF SettleTradesBatch, SettleTradesBatchWithGasSavings, BatchBegin, Nonces
<1>5. CASE BatchStep \/ BatchCommit \/ BatchRevert
  BY <1>2, <1>5 DEF BatchStep, BatchCommit, BatchRevert, Nonces
<1>6. CASE \/ \E on \in BOOLEAN : SetSettlement(on)
           \/ \E bps \in FeeRates : SetFeeBps(bps)
           \/ \E min \in MinScores : SetMinRelayerReputation(min)
           \/ NextWindow
  BY <1>2, <1>6 DEF SetSettlement, SetFeeBps, SetMinRelayerReputation, NextWindow, Nonces
<1>7. CASE \E r \in Relayers :
              \/ \E allowed \in BOOLEAN : SetRelayerAllowed(r, allowed)
              \/ RecordRelayerViolation(r)
  BY <1>2, <1>7 DEF SetRelayerAllowed, RecordRelayerViolation, Nonces
<1>8. CASE UNCHANGED vars
  BY <1>2, <1>8 DEF vars, Nonces
<1> QED BY <1>1, <1>3, <1>4, <1>5, <1>6, <1>7, <1>8 DEF Next

-----------------------------------------------------------------------------
(* The two limits of the contract are hidden behind their names.            *)
LEMMA MaximaNat == MaxFeeBps \in Nat \ {0} /\ MaxScore \in Nat
BY DEF MaxFeeBps, MaxScore

(* What the Vault owes its users, in one token.                             *)
Owed(b, t) == SumFunction([u \in Users |-> b[u][t]])

BalancesType == [Users -> [Tokens -> Nat]]
WalletType   == [Accounts -> [Tokens -> Nat]]

(* The debt as a sum over any function that shows the balances.             *)
LEMMA OwedIsSum ==
    ASSUME NEW b, NEW t
    PROVE  Owed(b, t) = SumFunctionOnSet([u \in Users |-> b[u][t]], Users)
BY DEF Owed, SumFunction

LEMMA OwedNat ==
    ASSUME NEW b \in BalancesType, NEW t \in Tokens
    PROVE  Owed(b, t) \in Nat
<1> DEFINE f == [u \in Users |-> b[u][t]]
<1>1. \A u \in Users : f[u] \in Nat
  BY DEF BalancesType
<1>2. SumFunctionOnSet(f, Users) \in Nat
  <2> HIDE DEF f
  <2> QED BY <1>1, SumNat, AccountsAssumption
<1> QED BY <1>2, OwedIsSum

(* One user's balance changes, or those of two users.                       *)
LEMMA OwedChange ==
    ASSUME NEW b, NEW c, NEW t, NEW u \in Users,
           \A x \in Users : b[x][t] \in Int /\ c[x][t] \in Int,
           \A x \in Users : x # u => b[x][t] = c[x][t]
    PROVE  Owed(c, t) = Owed(b, t) + (c[u][t] - b[u][t])
<1> DEFINE f == [x \in Users |-> b[x][t]]
           g == [x \in Users |-> c[x][t]]
<1>1. /\ \A x \in Users : f[x] \in Int /\ g[x] \in Int
      /\ \A x \in Users \ {u} : f[x] = g[x]
      /\ f[u] = b[u][t] /\ g[u] = c[u][t]
  OBVIOUS
<1>2. Owed(b, t) = SumFunctionOnSet(f, Users) /\ Owed(c, t) = SumFunctionOnSet(g, Users)
  BY OwedIsSum
<1> HIDE DEF f, g
<1>3. SumFunctionOnSet(g, Users) = SumFunctionOnSet(f, Users) + (g[u] - f[u])
  BY <1>1, SumChange, AccountsAssumption
<1> QED BY <1>1, <1>2, <1>3

(* What _settleTradeWithFees does to the balances: four of them change.     *)
LEMMA SettleOneBalances ==
    ASSUME NEW due \in DueType, NEW caller \in Callers, balances \in BalancesType,
           ValidTrade(due.trade), CanSettle(due), SettleOne(due, caller)
    PROVE  LET t == due.trade IN
           /\ t \in Trades /\ t.maker \in Users /\ t.taker \in Users /\ t.maker # t.taker
           /\ t.tokenIn \in Tokens /\ t.tokenOut \in Tokens /\ t.tokenIn # t.tokenOut
           /\ balances' \in BalancesType
           /\ \A u \in Users : \A s \in Tokens :
                balances'[u][s] =
                    IF u = t.maker /\ s = t.tokenIn THEN balances[u][s] - t.amountIn
                    ELSE IF u = t.taker /\ s = t.tokenIn
                         THEN balances[u][s] + t.amountIn - due.feeIn - t.gasIn
                    ELSE IF u = t.taker /\ s = t.tokenOut THEN balances[u][s] - t.amountOut
                    ELSE IF u = t.maker /\ s = t.tokenOut
                         THEN balances[u][s] + t.amountOut - due.feeOut - t.gasOut
                    ELSE balances[u][s]
<1> DEFINE t == due.trade
<1>1. /\ t \in Trades /\ t.maker \in Users /\ t.taker \in Users /\ t.maker # t.taker
      /\ t.tokenIn \in Tokens /\ t.tokenOut \in Tokens /\ t.tokenIn # t.tokenOut
      /\ t.amountIn \in Nat /\ t.amountOut \in Nat /\ t.gasIn \in Nat /\ t.gasOut \in Nat
      /\ due.feeIn \in Nat /\ due.feeOut \in Nat
  BY TradesAssumption DEF DueType, TradeType, ValidTrade
<1> DEFINE Paid(u, s) ==
                IF u = t.maker /\ s = t.tokenIn THEN balances[u][s] - t.amountIn
                    ELSE IF u = t.taker /\ s = t.tokenIn
                         THEN balances[u][s] + t.amountIn - due.feeIn - t.gasIn
                    ELSE IF u = t.taker /\ s = t.tokenOut THEN balances[u][s] - t.amountOut
                    ELSE IF u = t.maker /\ s = t.tokenOut
                         THEN balances[u][s] + t.amountOut - due.feeOut - t.gasOut
                    ELSE balances[u][s]
<1>2. balances' = [balances EXCEPT
            ![t.maker][t.tokenIn]  = @ - t.amountIn,
            ![t.taker][t.tokenIn]  = @ + t.amountIn - due.feeIn - t.gasIn,
            ![t.taker][t.tokenOut] = @ - t.amountOut,
            ![t.maker][t.tokenOut] = @ + t.amountOut - due.feeOut - t.gasOut]
  BY DEF SettleOne
<1>3. \A u \in Users : \A s \in Tokens : balances'[u][s] = Paid(u, s)
  BY <1>1, <1>2 DEF BalancesType
<1>4. balances' = [u \in Users |-> balances'[u]]
  BY <1>2 DEF BalancesType
<1>5. \A u \in Users : balances'[u] = [s \in Tokens |-> balances'[u][s]]
  BY <1>1, <1>2 DEF BalancesType
<1>6. \A u \in Users : \A s \in Tokens : Paid(u, s) \in Nat
  BY <1>1 DEF BalancesType, CanSettle
<1>7. balances' \in BalancesType
  BY <1>3, <1>4, <1>5, <1>6 DEF BalancesType
<1> QED BY <1>1, <1>3, <1>7

(* What _settleTradeWithFees transfers: the fees and the gas leave the      *)
(* Vault.                                                                   *)
LEMMA SettleOneWallets ==
    ASSUME NEW due \in DueType, NEW caller \in Callers, wallet \in WalletType,
           ValidTrade(due.trade), SettleOne(due, caller)
    PROVE  LET t == due.trade IN
           /\ wallet' \in [Accounts -> [Tokens -> Int]]
           /\ \A a \in Accounts \ {Vault} : \A s \in Tokens : wallet'[a][s] \in Nat
           /\ \A s \in Tokens :
                wallet'[Vault][s] =
                    IF s = t.tokenIn THEN wallet[Vault][s] - due.feeIn - t.gasIn
                    ELSE IF s = t.tokenOut THEN wallet[Vault][s] - due.feeOut - t.gasOut
                    ELSE wallet[Vault][s]
<1> DEFINE t == due.trade
           i == t.tokenIn
           o == t.tokenOut
           Moved(a, s) ==
                IF a = Vault /\ s = i THEN wallet[a][s] - due.feeIn - t.gasIn
                ELSE IF a = Vault /\ s = o THEN wallet[a][s] - due.feeOut - t.gasOut
                ELSE IF a = FeeDistributor /\ s = i THEN wallet[a][s] + due.feeIn
                ELSE IF a = FeeDistributor /\ s = o THEN wallet[a][s] + due.feeOut
                ELSE IF a = caller /\ s = i THEN wallet[a][s] + t.gasIn
                ELSE IF a = caller /\ s = o THEN wallet[a][s] + t.gasOut
                ELSE wallet[a][s]
<1>1. /\ i \in Tokens /\ o \in Tokens /\ i # o
      /\ t.gasIn \in Nat /\ t.gasOut \in Nat /\ due.feeIn \in Nat /\ due.feeOut \in Nat
  BY TradesAssumption DEF DueType, TradeType, ValidTrade
<1>2. /\ caller \in Accounts /\ Vault \in Accounts /\ FeeDistributor \in Accounts
      /\ caller # Vault /\ FeeDistributor # Vault /\ caller # FeeDistributor
  BY AccountsAssumption DEF Accounts, Callers
<1>3. wallet' = [wallet EXCEPT
            ![Vault][i]          = @ - due.feeIn - t.gasIn,
            ![Vault][o]          = @ - due.feeOut - t.gasOut,
            ![FeeDistributor][i] = @ + due.feeIn,
            ![FeeDistributor][o] = @ + due.feeOut,
            ![caller][i]         = @ + t.gasIn,
            ![caller][o]         = @ + t.gasOut]
  BY DEF SettleOne
<1> HIDE DEF t, i, o
<1>4. \A a \in Accounts : \A s \in Tokens : wallet'[a][s] = Moved(a, s)
  BY <1>1, <1>2, <1>3 DEF WalletType
<1>5. wallet' = [a \in Accounts |-> wallet'[a]]
  BY <1>3 DEF WalletType
<1>6. \A a \in Accounts : wallet'[a] = [s \in Tokens |-> wallet'[a][s]]
  BY <1>1, <1>2, <1>3 DEF WalletType
<1>7. \A a \in Accounts : \A s \in Tokens :
            Moved(a, s) \in Int /\ (a # Vault => Moved(a, s) \in Nat)
  BY <1>1, <1>2 DEF WalletType
<1>8. wallet' \in [Accounts -> [Tokens -> Int]]
  <2> HIDE DEF Moved
  <2>0. \A a \in Accounts : \A s \in Tokens : wallet'[a][s] \in Int
    BY <1>4, <1>7
  <2>1. \A a \in Accounts : wallet'[a] \in [Tokens -> Int]
    BY <1>6, <2>0
  <2> QED BY <1>5, <2>1
<1> QED BY <1>2, <1>4, <1>7, <1>8 DEF i, o, t

(* Each side pays and receives, in one token, what leaves the Vault with    *)
(* the fee and the gas; the sum of the users' balances shows the same.      *)
LEMMA SettleOneSolvent ==
    ASSUME NEW due \in DueType, NEW caller \in Callers,
           balances \in BalancesType, wallet \in WalletType, VaultSolvent,
           ValidTrade(due.trade), CanSettle(due), SettleOne(due, caller)
    PROVE  /\ balances' \in BalancesType
           /\ wallet' \in WalletType
           /\ VaultSolvent'
<1> DEFINE t == due.trade
           i == t.tokenIn
           o == t.tokenOut
<1>1. /\ t.maker \in Users /\ t.taker \in Users /\ t.maker # t.taker
      /\ i \in Tokens /\ o \in Tokens /\ i # o
      /\ t.gasIn \in Nat /\ t.gasOut \in Nat /\ due.feeIn \in Nat /\ due.feeOut \in Nat
      /\ t.amountIn \in Nat /\ t.amountOut \in Nat
  BY TradesAssumption DEF DueType, TradeType, ValidTrade
<1>2. /\ balances' \in BalancesType
      /\ \A u \in Users : \A s \in Tokens :
                balances'[u][s] =
                    IF u = t.maker /\ s = i THEN balances[u][s] - t.amountIn
                    ELSE IF u = t.taker /\ s = i
                         THEN balances[u][s] + t.amountIn - due.feeIn - t.gasIn
                    ELSE IF u = t.taker /\ s = o THEN balances[u][s] - t.amountOut
                    ELSE IF u = t.maker /\ s = o
                         THEN balances[u][s] + t.amountOut - due.feeOut - t.gasOut
                    ELSE balances[u][s]
  BY SettleOneBalances
<1>3. /\ wallet' \in [Accounts -> [Tokens -> Int]]
      /\ \A a \in Accounts \ {Vault} : \A s \in Tokens : wallet'[a][s] \in Nat
      /\ \A s \in Tokens :
                wallet'[Vault][s] =
                    IF s = i THEN wallet[Vault][s] - due.feeIn - t.gasIn
                    ELSE IF s = o THEN wallet[Vault][s] - due.feeOut - t.gasOut
                    ELSE wallet[Vault][s]
  BY SettleOneWallets
<1> HIDE DEF t, i, o
<1>4. \A s \in Tokens : Owed(balances, s) = wallet[Vault][s]
  BY DEF VaultSolvent, Owed
<1>5. \A x \in Users : \A s \in Tokens : balances[x][s] \in Int /\ balances'[x][s] \in Int
  BY <1>2 DEF BalancesType
<1>6. ASSUME NEW s \in Tokens PROVE Owed(balances', s) = wallet'[Vault][s]
  <2>1. Owed(balances', s) = Owed(balances, s)
                             + (balances'[t.maker][s] - balances[t.maker][s])
                             + (balances'[t.taker][s] - balances[t.taker][s])
    <3> DEFINE f == [x \in Users |-> balances[x][s]]
               g == [x \in Users |-> balances'[x][s]]
    <3>1. /\ \A x \in Users : f[x] \in Int /\ g[x] \in Int
          /\ \A x \in Users \ {t.maker, t.taker} : f[x] = g[x]
          /\ f[t.maker] = balances[t.maker][s] /\ g[t.maker] = balances'[t.maker][s]
          /\ f[t.taker] = balances[t.taker][s] /\ g[t.taker] = balances'[t.taker][s]
      BY <1>1, <1>2, <1>5
    <3>2. /\ Owed(balances, s) = SumFunctionOnSet(f, Users)
          /\ Owed(balances', s) = SumFunctionOnSet(g, Users)
      BY OwedIsSum
    <3> HIDE DEF f, g
    <3>3. ASSUME NEW m \in Users, NEW k \in Users, m # k,
                 \A x \in Users \ {m, k} : f[x] = g[x]
          PROVE  SumFunctionOnSet(g, Users) = SumFunctionOnSet(f, Users)
                                              + (g[m] - f[m]) + (g[k] - f[k])
      BY <3>1, <3>3, SumChangeTwo, AccountsAssumption
    <3>4. SumFunctionOnSet(g, Users) = SumFunctionOnSet(f, Users)
                                       + (g[t.maker] - f[t.maker]) + (g[t.taker] - f[t.taker])
      BY Zenon, <1>1, <3>1, <3>3
    <3> QED BY <3>1, <3>2, <3>4
  <2>2. /\ balances[t.maker][s] \in Int /\ balances[t.taker][s] \in Int
        /\ wallet[Vault][s] \in Int
    BY <1>1, <1>5 DEF WalletType, Accounts
  <2>3. CASE s = i
    BY <1>1, <1>2, <1>3, <1>4, <2>1, <2>2, <2>3
  <2>4. CASE s = o
    BY <1>1, <1>2, <1>3, <1>4, <2>1, <2>2, <2>4
  <2>5. CASE s # i /\ s # o
    BY <1>1, <1>2, <1>3, <1>4, <2>1, <2>2, <2>5
  <2> QED BY <2>3, <2>4, <2>5
<1>7. VaultSolvent'
  BY <1>6 DEF VaultSolvent, Owed
<1>8. \A s \in Tokens : wallet'[Vault][s] \in Nat
  BY <1>2, <1>6, OwedNat
<1>9. wallet' \in WalletType
  BY <1>3, <1>8 DEF WalletType
<1> QED BY <1>2, <1>7, <1>9

-----------------------------------------------------------------------------
(* A user's own transfer between her wallet and the Vault.                  *)
LEMMA DepositSolvent ==
    ASSUME NEW u \in Users, NEW t \in Tokens, balances \in BalancesType, wallet \in WalletType,
           VaultSolvent, Deposit(u, t) \/ Withdraw(u, t)
    PROVE  balances' \in BalancesType /\ wallet' \in WalletType /\ VaultSolvent'
<1> DEFINE D == DepositAmount
           Moved(d) ==
              /\ balances' \in [Users -> [Tokens -> Int]]
              /\ wallet' \in [Accounts -> [Tokens -> Int]]
              /\ \A x \in Users : \A s \in Tokens : balances'[x][s] =
                    IF x = u /\ s = t THEN balances[x][s] + d ELSE balances[x][s]
              /\ \A a \in Accounts : \A s \in Tokens : wallet'[a][s] =
                    IF a = u /\ s = t THEN wallet[a][s] - d
                    ELSE IF a = Vault /\ s = t THEN wallet[a][s] + d ELSE wallet[a][s]
              /\ wallet[u][t] - d >= 0 /\ balances[u][t] + d >= 0
<1>1. u \in Accounts /\ Vault \in Accounts /\ u # Vault
  BY AccountsAssumption DEF Accounts
<1>2. \E d \in Int : Moved(d)
  <2>0. D \in Nat /\ -D \in Int /\ \A n \in Int : n + (-D) = n - D /\ n - (-D) = n + D
    BY ParametersAssumption
  <2>1. CASE Deposit(u, t)
    <3>1. /\ balances' = [balances EXCEPT ![u][t] = @ + D]
          /\ wallet' = [wallet EXCEPT ![u][t] = @ - D, ![Vault][t] = @ + D]
          /\ wallet[u][t] >= D
      BY <2>1 DEF Deposit
    <3> HIDE DEF D
    <3>a. balances' \in [Users -> [Tokens -> Int]]
      BY <2>0, <3>1 DEF BalancesType
    <3>c. \A x \in Users : \A s \in Tokens : balances'[x][s] =
                    IF x = u /\ s = t THEN balances[x][s] + D ELSE balances[x][s]
      BY <3>1 DEF BalancesType
    <3>d. \A a \in Accounts : \A s \in Tokens : wallet'[a][s] =
                    IF a = u /\ s = t THEN wallet[a][s] - D
                    ELSE IF a = Vault /\ s = t THEN wallet[a][s] + D ELSE wallet[a][s]
      BY <1>1, <3>1 DEF WalletType
    <3>b. wallet' \in [Accounts -> [Tokens -> Int]]
      <4>1. wallet' = [a \in Accounts |-> wallet'[a]]
        BY <3>1 DEF WalletType
      <4>2. \A a \in Accounts : wallet'[a] = [s \in Tokens |-> wallet'[a][s]]
        BY <1>1, <3>1 DEF WalletType
      <4>3. \A a \in Accounts : \A s \in Tokens : wallet'[a][s] \in Int
        BY <2>0, <3>d DEF WalletType
      <4> QED BY <4>1, <4>2, <4>3
    <3>e. wallet[u][t] - D >= 0 /\ balances[u][t] + D >= 0
      BY <1>1, <2>0, <3>1 DEF BalancesType, WalletType
    <3>2. Moved(D)
      BY Zenon, <3>a, <3>b, <3>c, <3>d, <3>e
    <3> HIDE DEF Moved
    <3> QED BY <2>0, <3>2
  <2>2. CASE Withdraw(u, t)
    <3>1. /\ balances' = [balances EXCEPT ![u][t] = @ - D]
          /\ wallet' = [wallet EXCEPT ![Vault][t] = @ - D, ![u][t] = @ + D]
          /\ balances[u][t] >= D
      BY <2>2 DEF Withdraw
    <3> HIDE DEF D
    <3>2. /\ balances' \in [Users -> [Tokens -> Int]]
          /\ wallet' \in [Accounts -> [Tokens -> Int]]
          /\ wallet[u][t] + D >= 0 /\ balances[u][t] - D >= 0
          /\ \A x \in Users : \A s \in Tokens : balances'[x][s] =
                    IF x = u /\ s = t THEN balances[x][s] - D ELSE balances[x][s]
          /\ \A a \in Accounts : \A s \in Tokens : wallet'[a][s] =
                    IF a = u /\ s = t THEN wallet[a][s] + D
                    ELSE IF a = Vault /\ s = t THEN wallet[a][s] - D ELSE wallet[a][s]
      <4>a. balances' \in [Users -> [Tokens -> Int]]
        BY <2>0, <3>1 DEF BalancesType
      <4>c. \A x \in Users : \A s \in Tokens : balances'[x][s] =
                      IF x = u /\ s = t THEN balances[x][s] - D ELSE balances[x][s]
        BY <3>1 DEF BalancesType
      <4>d. \A a \in Accounts : \A s \in Tokens : wallet'[a][s] =
                      IF a = u /\ s = t THEN wallet[a][s] + D
                      ELSE IF a = Vault /\ s = t THEN wallet[a][s] - D ELSE wallet[a][s]
        BY <1>1, <3>1 DEF WalletType
      <4>b. wallet' \in [Accounts -> [Tokens -> Int]]
        <5>1. wallet' = [a \in Accounts |-> wallet'[a]]
          BY <3>1 DEF WalletType
        <5>2. \A a \in Accounts : wallet'[a] = [s \in Tokens |-> wallet'[a][s]]
          BY <1>1, <3>1 DEF WalletType
        <5>3. \A a \in Accounts : \A s \in Tokens : wallet'[a][s] \in Int
          BY <2>0, <4>d DEF WalletType
        <5> QED BY <5>1, <5>2, <5>3
      <4>e. wallet[u][t] + D >= 0 /\ balances[u][t] - D >= 0
        BY <1>1, <2>0, <3>1 DEF BalancesType, WalletType
      <4> QED BY Zenon, <4>a, <4>b, <4>c, <4>d, <4>e
    <3>3. /\ \A x \in Users : \A s \in Tokens : balances[x][s] \in Int
          /\ \A a \in Accounts : \A s \in Tokens : wallet[a][s] \in Int
      BY DEF BalancesType, WalletType
    <3>4. Moved(-D)
      BY <1>1, <2>0, <3>2, <3>3
    <3> HIDE DEF Moved
    <3> QED BY <2>0, <3>4
  <2> QED BY <2>1, <2>2
<1>3. PICK d \in Int : Moved(d)
  BY <1>2
<1>4. balances' \in BalancesType
  <2>1. \A x \in Users : \A s \in Tokens : balances'[x][s] \in Nat
    BY <1>3 DEF BalancesType
  <2> QED BY <1>3, <2>1 DEF BalancesType
<1>5. \A s \in Tokens : Owed(balances, s) = wallet[Vault][s]
  BY DEF VaultSolvent, Owed
<1>6. ASSUME NEW s \in Tokens PROVE Owed(balances', s) = wallet'[Vault][s]
  <2>1. /\ \A x \in Users : balances[x][s] \in Int /\ balances'[x][s] \in Int
        /\ \A x \in Users : x # u => balances[x][s] = balances'[x][s]
    BY <1>3, <1>4 DEF BalancesType
  <2>2. Owed(balances', s) = Owed(balances, s) + (balances'[u][s] - balances[u][s])
    BY Zenon, <2>1, OwedChange
  <2>3. balances[u][s] \in Int /\ wallet[Vault][s] \in Int
    BY <1>1, <2>1 DEF WalletType
  <2> QED BY <1>1, <1>3, <1>5, <2>2, <2>3
<1>7. \A s \in Tokens : wallet'[Vault][s] \in Nat
  BY <1>4, <1>6, OwedNat
<1>8. \A a \in Accounts : \A s \in Tokens : wallet'[a][s] \in Nat
  BY <1>1, <1>3, <1>7 DEF WalletType
<1>9. wallet' \in WalletType
  BY <1>3, <1>8 DEF WalletType
<1>10. VaultSolvent'
  BY <1>6 DEF VaultSolvent, Owed
<1> QED BY <1>4, <1>9, <1>10

(* The caller's shares of the savings never touch the Vault.                *)
LEMMA CommitSolvent ==
    ASSUME balances \in BalancesType, wallet \in WalletType, VaultSolvent,
           tx.caller \in Callers, tx.savings \in Nat, BatchCommit
    PROVE  balances' \in BalancesType /\ wallet' \in WalletType /\ VaultSolvent'
<1> DEFINE c == tx.caller
           q == Quarter(tx.savings)
<1>1. q \in Nat
  BY DEF Quarter
<1>2. /\ c \in Accounts /\ FeeDistributor \in Accounts /\ NodeRewards \in Accounts
           /\ Vault \in Accounts
      /\ c # Vault /\ c # FeeDistributor /\ c # NodeRewards
      /\ FeeDistributor # Vault /\ NodeRewards # Vault /\ FeeDistributor # NodeRewards
      /\ Usdt \in Tokens
  BY AccountsAssumption DEF Accounts, Callers
<1>3. /\ wallet[c][Usdt] >= 2 * q
      /\ wallet' = [wallet EXCEPT ![c][Usdt]              = @ - 2 * q,
                                  ![FeeDistributor][Usdt] = @ + q,
                                  ![NodeRewards][Usdt]    = @ + q]
      /\ balances' = balances
  BY DEF BatchCommit
<1> HIDE DEF c, q
<1>4. \A a \in Accounts : \A s \in Tokens : wallet'[a][s] =
            IF s = Usdt THEN IF a = c THEN wallet[a][s] - 2 * q
                             ELSE IF a \in {FeeDistributor, NodeRewards} THEN wallet[a][s] + q
                             ELSE wallet[a][s]
            ELSE wallet[a][s]
  BY <1>1, <1>2, <1>3 DEF WalletType
<1>5. wallet' \in WalletType
  <2>1. wallet' = [a \in Accounts |-> wallet'[a]]
    BY <1>3 DEF WalletType
  <2>2. \A a \in Accounts : wallet'[a] = [s \in Tokens |-> wallet'[a][s]]
    BY <1>2, <1>3 DEF WalletType
  <2>0. /\ \A a \in Accounts : \A s \in Tokens : wallet[a][s] \in Nat
        /\ wallet[c][Usdt] - 2 * q \in Nat
        /\ \A n \in Nat : n + q \in Nat
    BY <1>1, <1>2, <1>3 DEF WalletType
  <2>3. \A a \in Accounts : \A s \in Tokens : wallet'[a][s] \in Nat
    BY <1>4, <2>0
  <2>4. \A a \in Accounts : wallet'[a] \in [Tokens -> Nat]
    BY <2>2, <2>3
  <2> QED BY <2>1, <2>4 DEF WalletType
<1>6. \A s \in Tokens : wallet'[Vault][s] = wallet[Vault][s]
  BY <1>2, <1>4
<1> QED BY <1>3, <1>5, <1>6 DEF VaultSolvent

-----------------------------------------------------------------------------
(* Fees and rebates are natural numbers.                                    *)
LEMMA ShareNat ==
    ASSUME NEW a \in Nat, NEW b \in Nat, NEW n \in Nat \ {0}
    PROVE  (a * b) \div n \in Nat
<1>1. a * b \in Nat
  OBVIOUS
<1>2. \A p \in Nat : p \div n \in Nat
  OBVIOUS
<1> QED BY <1>1, <1>2

(* What the code computes for a trade, before any rebate.                   *)
LEMMA DueHasType ==
    ASSUME ParametersType, NEW t \in Trades
    PROVE  Due(t) \in DueType
<1>1. t.tokenIn \in Tokens /\ t.tokenOut \in Tokens /\ t.amountIn \in Nat /\ t.amountOut \in Nat
  BY TradesAssumption DEF TradeType
<1>2. ASSUME NEW token \in Tokens, NEW amount \in Nat PROVE Fee(token, amount) \in Nat
  <2>1. (amount * feeBps) \div 10000 \in Nat
    <3>1. feeBps \in Nat
      BY DEF ParametersType, MaxFeeBps
    <3> QED BY <3>1, ShareNat
  <2>2. FeeCap[token] \in Nat
    BY ParametersAssumption
  <2> QED BY <2>1, <2>2 DEF Fee, SmallerOf
<1> QED BY <1>1, <1>2 DEF Due, DueType

LEMMA UsdtFeeNat ==
    ASSUME NEW due \in DueType PROVE UsdtFee(due) \in Nat
BY DEF UsdtFee, DueType

(* The batch's total of fees in USDT, as a sum over its positions.          *)
LEMMA TotalIsSum ==
    ASSUME NEW dues \in Seq(DueType), NEW f, f = [i \in DOMAIN dues |-> UsdtFee(dues[i])]
    PROVE  /\ IsFiniteSet(DOMAIN dues)
           /\ DOMAIN dues = 1 .. Len(dues)
           /\ \A i \in DOMAIN dues : dues[i] \in DueType /\ f[i] = UsdtFee(dues[i]) /\ f[i] \in Nat
           /\ TotalUsdtFee(dues) = SumFunctionOnSet(f, DOMAIN dues)
           /\ TotalUsdtFee(dues) \in Nat
           /\ \A i \in DOMAIN dues : f[i] <= TotalUsdtFee(dues)
<1>1. DOMAIN dues = 1 .. Len(dues) /\ Len(dues) \in Nat
  OBVIOUS
<1>2. IsFiniteSet(DOMAIN dues)
  BY <1>1, FS_Interval
<1>3. \A i \in DOMAIN dues : dues[i] \in DueType
  OBVIOUS
<1>4. \A i \in DOMAIN dues : f[i] = UsdtFee(dues[i]) /\ f[i] \in Nat
  BY <1>3, UsdtFeeNat
<1>5. DOMAIN f = DOMAIN dues
  OBVIOUS
<1>6. TotalUsdtFee(dues) = SumFunctionOnSet(f, DOMAIN dues)
  BY <1>5 DEF TotalUsdtFee, SumFunction
<1>7. SumFunctionOnSet(f, DOMAIN dues) \in Nat
  BY <1>2, <1>4, SumNat
<1>8. ASSUME NEW i \in DOMAIN dues PROVE f[i] <= TotalUsdtFee(dues)
  <2>1. SumFunctionOnSet(f, DOMAIN dues) = f[i] + SumFunctionOnSet(f, DOMAIN dues \ {i})
    BY <1>2, <1>4, SumElement
  <2>2. IsFiniteSet(DOMAIN dues \ {i})
    BY <1>2, FS_Subset
  <2>3. SumFunctionOnSet(f, DOMAIN dues \ {i}) \in Nat
    BY <1>4, <2>2, SumNat
  <2> QED BY <1>4, <1>6, <2>1, <2>3
<1> QED BY <1>1, <1>2, <1>3, <1>4, <1>6, <1>7, <1>8

(* What the rebate takes off the i-th fee of a batch.                       *)
Deduct(dues, savings, i) ==
    (Rebate(dues, savings) * UsdtFee(dues[i])) \div TotalUsdtFee(dues)

(* The whole rebate never exceeds half of the savings.                      *)
LEMMA RebateNat ==
    ASSUME NEW dues \in Seq(DueType), NEW savings \in Nat
    PROVE  /\ Rebate(dues, savings) \in Nat
           /\ Rebate(dues, savings) <= (savings * 50) \div 100
           /\ Rebate(dues, savings) <= TotalUsdtFee(dues)
           /\ \A i \in DOMAIN dues : UsdtFee(dues[i]) # 0 => Deduct(dues, savings, i) \in Nat
<1> DEFINE f == [i \in DOMAIN dues |-> UsdtFee(dues[i])]
<1>1. /\ TotalUsdtFee(dues) \in Nat
      /\ \A i \in DOMAIN dues : f[i] = UsdtFee(dues[i]) /\ f[i] \in Nat
           /\ f[i] <= TotalUsdtFee(dues)
  <2>1. f = [i \in DOMAIN dues |-> UsdtFee(dues[i])]
    OBVIOUS
  <2> HIDE DEF f
  <2> QED BY <2>1, TotalIsSum
<1>2. (savings * 50) \div 100 \in Nat
  BY ShareNat
<1>3. /\ Rebate(dues, savings) \in Nat
      /\ Rebate(dues, savings) <= (savings * 50) \div 100
      /\ Rebate(dues, savings) <= TotalUsdtFee(dues)
  BY <1>1, <1>2 DEF Rebate, SmallerOf
<1>4. ASSUME NEW i \in DOMAIN dues, UsdtFee(dues[i]) # 0
      PROVE  Deduct(dues, savings, i) \in Nat
  <2>1. UsdtFee(dues[i]) \in Nat /\ TotalUsdtFee(dues) \in Nat \ {0}
    BY <1>1, <1>4
  <2> QED BY <1>3, <2>1, ShareNat DEF Deduct
<1> QED BY <1>3, <1>4

(* The fees after the rebate, one by one.                                   *)
LEMMA RebatedFees ==
    ASSUME NEW dues \in Seq(DueType), NEW savings \in Nat, NEW i \in DOMAIN dues
    PROVE  LET due == dues[i]  new == Rebated(dues, savings)[i]  d == Deduct(dues, savings, i) IN
           /\ new \in DueType /\ new.trade = due.trade
           /\ UsdtFee(due) = 0 => new = due
           /\ UsdtFee(due) # 0 => d \in Nat
           /\ UsdtFee(due) # 0 /\ due.trade.tokenIn = Usdt =>
                   new.feeIn = Less(due.feeIn, d) /\ new.feeOut = due.feeOut
           /\ UsdtFee(due) # 0 /\ due.trade.tokenIn # Usdt =>
                   /\ new.feeOut = Less(due.feeOut, d) /\ new.feeIn = due.feeIn
                   /\ due.trade.tokenOut = Usdt
<1> DEFINE due == dues[i]
           new == Rebated(dues, savings)[i]
           d   == Deduct(dues, savings, i)
<1>1. due \in DueType
  BY TotalIsSum
<1>2. new = IF UsdtFee(due) = 0 THEN due
            ELSE IF due.trade.tokenIn = Usdt THEN [due EXCEPT !.feeIn = Less(@, d)]
                 ELSE [due EXCEPT !.feeOut = Less(@, d)]
  BY DEF Rebated, Deduct
<1>3. UsdtFee(due) # 0 => d \in Nat
  BY RebateNat
<1>4. due.trade.tokenIn # Usdt /\ UsdtFee(due) # 0 => due.trade.tokenOut = Usdt
  BY <1>1 DEF UsdtFee
<1> HIDE DEF due, new, d
<1>5. \A n \in Nat : UsdtFee(due) # 0 => Less(n, d) \in Nat
  BY <1>3 DEF Less
<1>6. CASE UsdtFee(due) = 0
  BY <1>1, <1>2, <1>6 DEF due, new, d
<1>7. CASE UsdtFee(due) # 0 /\ due.trade.tokenIn = Usdt
  <2>1. new = [due EXCEPT !.feeIn = Less(due.feeIn, d)]
    BY <1>2, <1>7
  <2>2. new \in DueType /\ new.trade = due.trade /\ new.feeIn = Less(due.feeIn, d)
          /\ new.feeOut = due.feeOut
    BY <1>1, <1>5, <1>7, <2>1 DEF DueType
  <2> QED BY <1>3, <1>7, <2>2 DEF due, new, d
<1>8. CASE UsdtFee(due) # 0 /\ due.trade.tokenIn # Usdt
  <2>1. new = [due EXCEPT !.feeOut = Less(due.feeOut, d)]
    BY <1>2, <1>8
  <2>2. new \in DueType /\ new.trade = due.trade /\ new.feeOut = Less(due.feeOut, d)
          /\ new.feeIn = due.feeIn
    BY <1>1, <1>5, <1>8, <2>1 DEF DueType
  <2> QED BY <1>3, <1>4, <1>8, <2>2 DEF due, new, d
<1> QED BY <1>6, <1>7, <1>8

-----------------------------------------------------------------------------
(* A batch that holds the lock remembers a ledger that was solvent too, and *)
(* no trade has been settled less often since.                              *)
PendingType ==
    [caller : Callers, due : Seq(DueType), savings : Nat,
     saved : [balances : BalancesType, wallet : WalletType,
              calls : [Relayers -> 0 .. RateLimitMaxCalls], settled : [Trades -> Nat]]]

SavedInv ==
    tx # NoTx =>
        /\ tx \in PendingType
        /\ \A t \in Tokens : Owed(tx.saved.balances, t) = tx.saved.wallet[Vault][t]
        /\ \A t \in Trades : tx.saved.settled[t] <= settled[t]

LedgerInv == TypeOK /\ NonceInv /\ VaultSolvent /\ SavedInv

(* The parts of the invariant, each under its name, and the same after a    *)
(* step.                                                                    *)
LEMMA LedgerParts ==
    ASSUME LedgerInv
    PROVE  /\ balances \in BalancesType /\ wallet \in WalletType /\ VaultSolvent
           /\ ParametersType /\ CountersType /\ TxType /\ NoncesType /\ NonceInv /\ SavedInv
           /\ TypeOK
BY DEF LedgerInv, TypeOK, LedgerType, BalancesType, WalletType

LEMMA TypePartsNext ==
    ASSUME balances' \in BalancesType, wallet' \in WalletType,
           ParametersType', CountersType', TxType', NoncesType'
    PROVE  TypeOK'
BY DEF TypeOK, LedgerType, BalancesType, WalletType

(* Nothing is owed before the first deposit.                                *)
LEMMA InitLedgerInv == Init => LedgerInv
<1> SUFFICES ASSUME Init PROVE LedgerInv
  OBVIOUS
<1>1. TypeOK
  BY ParametersAssumption
     DEF Init, TypeOK, LedgerType, NoncesType, ParametersType, CountersType, TxType, MaxFeeBps,
         MaxScore
<1>2. VaultSolvent
  <2> SUFFICES ASSUME NEW t \in Tokens PROVE Owed(balances, t) = wallet[Vault][t]
    BY DEF VaultSolvent, Owed
  <2> DEFINE f == [u \in Users |-> balances[u][t]]
  <2>1. \A u \in Users : f[u] = 0
    BY DEF Init
  <2>2. SumFunctionOnSet(f, Users) = 0
    <3> HIDE DEF f
    <3> QED BY <2>1, SumZero, AccountsAssumption
  <2>3. wallet[Vault][t] = 0
    BY AccountsAssumption DEF Init, Accounts
  <2> QED BY <2>2, <2>3, OwedIsSum
<1>3. SavedInv
  BY DEF Init, SavedInv
<1> QED BY <1>1, <1>2, <1>3, InitNonceInv DEF LedgerInv

(* Steps that move no tokens and leave no batch pending, or leave the       *)
(* pending one alone.                                                       *)
LEMMA LedgerUnchanged ==
    ASSUME LedgerInv, UNCHANGED Ledger
    PROVE  balances' \in BalancesType /\ wallet' \in WalletType /\ VaultSolvent'
BY LedgerParts DEF Ledger, VaultSolvent

(* A deposit or a withdrawal.                                               *)
LEMMA DepositInv ==
    ASSUME LedgerInv, NEW u \in Users, NEW t \in Tokens, Deposit(u, t) \/ Withdraw(u, t), NonceInv'
    PROVE  LedgerInv'
<1>1. balances' \in BalancesType /\ wallet' \in WalletType /\ VaultSolvent'
  BY Zenon, LedgerParts, DepositSolvent
<1>2. /\ UNCHANGED <<userNonces, usedNonces, consumed, connected, isRelayer, feeBps>>
      /\ UNCHANGED <<minRelayerReputation, score, calls, window, tx, transactions, settled>>
      /\ tx = NoTx
  BY DEF Deposit, Withdraw, Nonces, Parameters, Unlocked
<1>a. ParametersType' /\ CountersType' /\ TxType'
  <2>1. ParametersType'
    BY <1>2, LedgerParts DEF ParametersType
  <2>2. CountersType'
    BY <1>2, LedgerParts DEF CountersType
  <2>3. TxType'
    BY <1>2, LedgerParts DEF TxType
  <2> QED BY <2>1, <2>2, <2>3
<1>b. NoncesType'
  BY <1>2, LedgerParts DEF NoncesType, NonceInv
<1>3. TypeOK'
  BY Zenon, <1>1, <1>a, <1>b, TypePartsNext
<1>4. SavedInv'
  BY <1>2 DEF SavedInv
<1> QED BY <1>1, <1>3, <1>4 DEF LedgerInv

(* The counters that a settled trade increments.                            *)
LEMMA CountedType ==
    ASSUME CountersType, NEW c \in Callers, MayCall(c), Counted(c)
    PROVE  calls' \in [Relayers -> 0 .. RateLimitMaxCalls] /\ transactions' \in Nat
<1>1. CASE c = Owner
  BY <1>1 DEF CountersType, Counted
<1>2. CASE c # Owner
  <2>1. c \in Relayers /\ calls[c] < RateLimitMaxCalls
    BY <1>2 DEF Callers, MayCall
  <2>2. calls' = [calls EXCEPT ![c] = @ + 1] /\ transactions' = transactions + 1
    BY <1>2 DEF Counted
  <2>3. calls \in [Relayers -> 0 .. RateLimitMaxCalls] /\ calls[c] + 1 \in 0 .. RateLimitMaxCalls
    BY <2>1, ParametersAssumption DEF CountersType
  <2> QED BY <2>1, <2>2, <2>3 DEF CountersType
<1> QED BY <1>1, <1>2

(* A single trade; no batch is pending, the lock is free.                   *)
LEMMA SettleTradeInv ==
    ASSUME LedgerInv, NEW c \in Callers, NEW t \in Trades, SettleTrade(c, t), NonceInv'
    PROVE  LedgerInv'
<1>1. balances' \in BalancesType /\ wallet' \in WalletType /\ VaultSolvent'
  <2>1. Due(t) \in DueType
    BY LedgerParts, DueHasType
  <2>2. Due(t).trade = t
    BY DEF Due
  <2>3. ValidTrade(Due(t).trade) /\ CanSettle(Due(t)) /\ SettleOne(Due(t), c)
    BY Zenon, <2>2 DEF SettleTrade
  <2> QED BY Zenon, <2>1, <2>3, LedgerParts, SettleOneSolvent
<1>2. /\ UNCHANGED <<connected, isRelayer, feeBps, minRelayerReputation, window, tx>>
      /\ tx = NoTx
  BY DEF SettleTrade, Parameters, MayCall, Unlocked
<1>3. calls' \in [Relayers -> 0 .. RateLimitMaxCalls] /\ transactions' \in Nat
  BY LedgerParts, CountedType DEF SettleTrade
<1>4. score' \in [Relayers -> 0 .. MaxScore]
  <2>1. CASE c = Owner
    BY <2>1, LedgerParts DEF SettleTrade, CountersType
  <2>2. CASE c # Owner
    <3>1. c \in Relayers
      BY <2>2 DEF Callers
    <3>2. score' = [score EXCEPT ![c] = SmallerOf(@ + 1, MaxScore)]
      BY <2>2 DEF SettleTrade
    <3>3. SmallerOf(score[c] + 1, MaxScore) \in 0 .. MaxScore
      <4>1. score[c] \in 0 .. MaxScore
        BY <3>1, LedgerParts DEF CountersType
      <4>2. \A m \in Nat : \A n \in 0 .. m : SmallerOf(n + 1, m) \in 0 .. m
        BY DEF SmallerOf
      <4> QED BY <4>1, <4>2, MaximaNat
    <3>4. score \in [Relayers -> 0 .. MaxScore]
      BY LedgerParts DEF CountersType
    <3>5. \A S : score \in [Relayers -> S] /\ SmallerOf(score[c] + 1, MaxScore) \in S
                  => score' \in [Relayers -> S]
      BY <3>1, <3>2
    <3> QED BY Zenon, <3>3, <3>4, <3>5
  <2> QED BY <2>1, <2>2
<1>5. userNonces' \in [Users -> Nat]
  <2>1. t.maker \in Users /\ t.taker \in Users /\ t.makerNonce \in Nat /\ t.takerNonce \in Nat
    BY TradesAssumption DEF TradeType
  <2>2. userNonces' = [userNonces EXCEPT ![t.maker] = t.makerNonce + 1,
                                         ![t.taker] = t.takerNonce + 1]
    BY DEF SettleTrade, UseNonces
  <2> QED BY <2>1, <2>2, LedgerParts DEF NoncesType
<1>6. settled' \in [Trades -> Nat]
  BY LedgerParts DEF SettleTrade, CountersType
<1>a. ParametersType' /\ CountersType' /\ TxType'
  <2>1. ParametersType'
    BY <1>2, <1>3, <1>4, <1>6, LedgerParts DEF ParametersType
  <2>2. CountersType'
    BY <1>2, <1>3, <1>4, <1>6, LedgerParts DEF CountersType
  <2>3. TxType'
    BY <1>2, <1>3, <1>4, <1>6, LedgerParts DEF TxType
  <2> QED BY <2>1, <2>2, <2>3
<1>b. NoncesType'
  BY <1>5 DEF NoncesType, NonceInv
<1>7. TypeOK'
  BY Zenon, <1>1, <1>a, <1>b, TypePartsNext
<1>8. SavedInv'
  BY <1>2 DEF SavedInv
<1> QED BY <1>1, <1>7, <1>8 DEF LedgerInv

(* The beginning of a batch saves the ledger as it is.                      *)
LEMMA BatchBeginInv ==
    ASSUME LedgerInv, NEW c \in Callers, MayCall(c), NEW due \in Seq(DueType), NEW savings \in Nat,
           BatchBegin(c, due, savings), NonceInv'
    PROVE  LedgerInv'
<1>1. balances' \in BalancesType /\ wallet' \in WalletType /\ VaultSolvent'
  BY LedgerUnchanged DEF BatchBegin
<1>2. calls' \in [Relayers -> 0 .. RateLimitMaxCalls] /\ transactions' \in Nat
  BY LedgerParts, CountedType DEF BatchBegin
<1>3. /\ UNCHANGED <<userNonces, connected, isRelayer, feeBps, minRelayerReputation>>
      /\ UNCHANGED <<score, window, settled>>
  BY DEF BatchBegin, Nonces, Parameters
<1>4. /\ tx' \in PendingType
      /\ tx'.caller = c /\ tx'.due = due /\ tx'.savings = savings
      /\ tx'.saved.balances = balances /\ tx'.saved.wallet = wallet /\ tx'.saved.settled = settled
  BY LedgerParts DEF BatchBegin, PendingType, CountersType
<1>a. ParametersType' /\ CountersType' /\ TxType'
  <2>1. ParametersType'
    BY <1>2, <1>3, <1>4, LedgerParts DEF ParametersType
  <2>2. CountersType'
    <3>1. score' = score /\ window' = window /\ settled' = settled
      BY <1>3
    <3> QED BY Zenon, <1>2, <3>1, LedgerParts DEF CountersType
  <2>3. TxType'
    BY <1>2, <1>3, <1>4, LedgerParts DEF TxType
  <2> QED BY <2>1, <2>2, <2>3
<1>b. NoncesType'
  BY <1>3, LedgerParts DEF NoncesType, NonceInv
<1>5. TypeOK'
  BY Zenon, <1>1, <1>a, <1>b, TypePartsNext
<1>6. \A t \in Trades : settled[t] \in Nat
  BY LedgerParts DEF CountersType
<1>7. SavedInv'
  BY <1>3, <1>4, <1>6 DEF SavedInv, LedgerInv, VaultSolvent, Owed
<1> QED BY <1>1, <1>5, <1>7 DEF LedgerInv

(* The fees a batch begins with.                                            *)
LEMMA DuesHaveType ==
    ASSUME ParametersType, NEW batch \in Batches
    PROVE  [i \in DOMAIN batch |-> Due(batch[i])] \in Seq(DueType)
<1>1. PICK k \in 1 .. MaxBatch : batch \in [1 .. k -> Trades]
  BY DEF Batches
<1>2. k \in Nat /\ DOMAIN batch = 1 .. k
  BY <1>1, ParametersAssumption
<1>3. \A i \in 1 .. k : Due(batch[i]) \in DueType
  BY <1>1, DueHasType
<1> QED BY <1>2, <1>3

LEMMA RebatedHasType ==
    ASSUME NEW dues \in Seq(DueType), NEW savings \in Nat
    PROVE  Rebated(dues, savings) \in Seq(DueType)
<1>1. DOMAIN dues = 1 .. Len(dues) /\ Len(dues) \in Nat
  OBVIOUS
<1>2. \A i \in DOMAIN dues : Rebated(dues, savings)[i] \in DueType
  BY RebatedFees
<1>3. /\ DOMAIN Rebated(dues, savings) = 1 .. Len(dues)
      /\ Rebated(dues, savings) = [i \in 1 .. Len(dues) |-> Rebated(dues, savings)[i]]
  BY <1>1 DEF Rebated
<1> QED BY <1>1, <1>2, <1>3

(* One trade of the pending batch.                                          *)
LEMMA BatchStepInv ==
    ASSUME LedgerInv, BatchStep, NonceInv'
    PROVE  LedgerInv'
<1>1. /\ tx \in PendingType /\ tx.due \in Seq(DueType) /\ tx.due # <<>> /\ tx.caller \in Callers
      /\ \A t \in Tokens : Owed(tx.saved.balances, t) = tx.saved.wallet[Vault][t]
      /\ \A t \in Trades : tx.saved.settled[t] <= settled[t]
  BY DEF BatchStep, LedgerInv, SavedInv, PendingType
<1>2. Head(tx.due) \in DueType /\ Tail(tx.due) \in Seq(DueType)
  BY <1>1
<1>3. balances' \in BalancesType /\ wallet' \in WalletType /\ VaultSolvent'
  <2>1. /\ ValidTrade(Head(tx.due).trade) /\ CanSettle(Head(tx.due))
        /\ SettleOne(Head(tx.due), tx.caller)
    BY Zenon DEF BatchStep
  <2>2. ASSUME NEW due \in DueType, NEW c \in Callers,
               ValidTrade(due.trade), CanSettle(due), SettleOne(due, c)
        PROVE  balances' \in BalancesType /\ wallet' \in WalletType /\ VaultSolvent'
    BY Zenon, <2>2, LedgerParts, SettleOneSolvent
  <2> QED BY Zenon, <1>1, <1>2, <2>1, <2>2
<1>4. /\ UNCHANGED <<userNonces, connected, isRelayer, feeBps, minRelayerReputation>>
      /\ UNCHANGED <<score, calls, window, transactions>>
  BY DEF BatchStep, Nonces, Parameters
<1>5. /\ tx' = [tx EXCEPT !.due = Tail(tx.due)]
      /\ settled' = [settled EXCEPT ![Head(tx.due).trade] = @ + 1]
      /\ Head(tx.due).trade \in Trades
  BY <1>2 DEF BatchStep, DueType
<1>6. /\ tx' \in PendingType /\ tx'.saved = tx.saved /\ tx'.caller = tx.caller
      /\ tx'.due = Tail(tx.due) /\ tx'.savings = tx.savings
  BY <1>1, <1>2, <1>5 DEF PendingType
<1>7. /\ settled' \in [Trades -> Nat]
      /\ \A t \in Trades : settled[t] <= settled'[t]
  BY <1>5, LedgerParts DEF CountersType
<1>8. tx'.caller \in Callers /\ tx'.due \in Seq(DueType) /\ tx'.savings \in Nat
  BY <1>6 DEF PendingType
<1>a. ParametersType' /\ CountersType' /\ TxType'
  <2>1. ParametersType'
    BY <1>4, <1>7, <1>8, LedgerParts DEF ParametersType
  <2>2. CountersType'
    <3>1. score' = score /\ calls' = calls /\ window' = window /\ transactions' = transactions
      BY <1>4
    <3> QED BY Zenon, <1>7, <3>1, LedgerParts DEF CountersType
  <2>3. TxType'
    BY <1>4, <1>7, <1>8, LedgerParts DEF TxType
  <2> QED BY <2>1, <2>2, <2>3
<1>b. NoncesType'
  BY <1>4, LedgerParts DEF NoncesType, NonceInv
<1>9. TypeOK'
  BY Zenon, <1>3, <1>a, <1>b, TypePartsNext
<1>10. \A t \in Trades : tx'.saved.settled[t] <= settled'[t]
  <2>1. \A t \in Trades : tx.saved.settled[t] \in Nat /\ settled[t] \in Nat /\ settled'[t] \in Nat
    BY <1>1, <1>7, LedgerParts DEF PendingType, CountersType
  <2> QED BY <1>1, <1>6, <1>7, <2>1
<1>11. SavedInv'
  BY <1>1, <1>6, <1>10 DEF SavedInv
<1> QED BY <1>3, <1>9, <1>11 DEF LedgerInv

(* The end of a batch: the caller's share of the savings, or a revert to    *)
(* the ledger as it was saved, which SavedInv knows to be solvent.          *)
LEMMA BatchEndInv ==
    ASSUME LedgerInv, BatchCommit \/ BatchRevert, NonceInv'
    PROVE  LedgerInv'
<1>1. /\ tx \in PendingType /\ tx.caller \in Callers /\ tx.savings \in Nat
      /\ \A t \in Tokens : Owed(tx.saved.balances, t) = tx.saved.wallet[Vault][t]
  BY DEF BatchCommit, BatchRevert, LedgerInv, SavedInv, PendingType
<1>2. /\ UNCHANGED <<userNonces, connected, isRelayer, feeBps, minRelayerReputation>>
      /\ UNCHANGED <<score, window, transactions>>
      /\ tx' = NoTx
  BY DEF BatchCommit, BatchRevert, Nonces, Parameters
<1>3. /\ balances' \in BalancesType /\ wallet' \in WalletType /\ VaultSolvent'
      /\ calls' \in [Relayers -> 0 .. RateLimitMaxCalls] /\ settled' \in [Trades -> Nat]
  <2>1. CASE BatchCommit
    <3>1. balances' \in BalancesType /\ wallet' \in WalletType /\ VaultSolvent'
      BY Zenon, <1>1, <2>1, LedgerParts, CommitSolvent
    <3>2. UNCHANGED <<calls, settled>>
      BY <2>1 DEF BatchCommit
    <3> QED BY <3>1, <3>2, LedgerParts DEF CountersType
  <2>2. CASE BatchRevert
    <3>1. /\ balances' = tx.saved.balances /\ wallet' = tx.saved.wallet
          /\ calls' = tx.saved.calls /\ settled' = tx.saved.settled
      BY <2>2 DEF BatchRevert
    <3>2. /\ balances' \in BalancesType /\ wallet' \in WalletType
          /\ calls' \in [Relayers -> 0 .. RateLimitMaxCalls] /\ settled' \in [Trades -> Nat]
      BY <1>1, <3>1 DEF PendingType
    <3>3. VaultSolvent'
      BY <1>1, <3>1 DEF VaultSolvent, Owed
    <3> QED BY <3>2, <3>3
  <2> QED BY <2>1, <2>2
<1>a. ParametersType' /\ CountersType' /\ TxType'
  <2>1. ParametersType'
    BY <1>2, <1>3, LedgerParts DEF ParametersType
  <2>2. CountersType'
    BY <1>2, <1>3, LedgerParts DEF CountersType
  <2>3. TxType'
    BY <1>2, <1>3, LedgerParts DEF TxType
  <2> QED BY <2>1, <2>2, <2>3
<1>b. NoncesType'
  BY <1>2, LedgerParts DEF NoncesType, NonceInv
<1>4. TypeOK'
  BY Zenon, <1>3, <1>a, <1>b, TypePartsNext
<1>5. SavedInv'
  BY <1>2 DEF SavedInv
<1> QED BY <1>3, <1>4, <1>5 DEF LedgerInv

(* The owner's parameters and the passing of time leave ledger, nonces and  *)
(* the pending batch alone.                                                 *)
LEMMA OwnerInv ==
    ASSUME LedgerInv, NonceInv', UNCHANGED <<Ledger, userNonces, tx, transactions, settled>>,
           ParametersType', score' \in [Relayers -> 0 .. MaxScore], window' \in Nat,
           calls' \in [Relayers -> 0 .. RateLimitMaxCalls]
    PROVE  LedgerInv'
<1>1. balances' \in BalancesType /\ wallet' \in WalletType /\ VaultSolvent'
  BY LedgerUnchanged
<1>2. CountersType' /\ TxType'
  BY LedgerParts DEF CountersType, TxType
<1>3. NoncesType'
  BY LedgerParts DEF NoncesType, NonceInv
<1>4. TypeOK'
  BY Zenon, <1>1, <1>2, <1>3, TypePartsNext
<1>5. SavedInv'
  BY LedgerParts DEF SavedInv
<1> QED BY <1>1, <1>4, <1>5 DEF LedgerInv

(* LedgerInv is inductive.                                                  *)
LEMMA NextLedgerInv == LedgerInv /\ [Next]_vars => LedgerInv'
<1> SUFFICES ASSUME LedgerInv, [Next]_vars PROVE LedgerInv'
  OBVIOUS
<1>1. NonceInv'
  BY NextNonceInv DEF LedgerInv
<1>2. CASE \E u \in Users, t \in Tokens : Deposit(u, t) \/ Withdraw(u, t)
  BY <1>1, <1>2, DepositInv
<1>3. CASE \E c \in Callers, t \in Trades : SettleTrade(c, t)
  BY <1>1, <1>3, SettleTradeInv
<1>4. ASSUME NEW c \in Callers, NEW batch \in Batches, SettleTradesBatch(c, batch)
      PROVE  LedgerInv'
  <2>1. [i \in DOMAIN batch |-> Due(batch[i])] \in Seq(DueType)
    BY LedgerParts, DuesHaveType
  <2>2. MayCall(c) /\ BatchBegin(c, [i \in DOMAIN batch |-> Due(batch[i])], 0) /\ 0 \in Nat
    BY <1>4 DEF SettleTradesBatch
  <2> QED BY Zenon, <1>1, <2>1, <2>2, BatchBeginInv
<1>5. ASSUME NEW c \in Callers, NEW batch \in Batches, NEW s \in Savings,
             SettleTradesBatchWithGasSavings(c, batch, s)
      PROVE  LedgerInv'
  <2> DEFINE dues == [i \in DOMAIN batch |-> Due(batch[i])]
  <2>1. dues \in Seq(DueType)
    BY LedgerParts, DuesHaveType
  <2>2. MayCall(c) /\ BatchBegin(c, Rebated(dues, s), s)
    BY <1>5 DEF SettleTradesBatchWithGasSavings
  <2>3. s \in Nat
    BY ParametersAssumption
  <2> HIDE DEF dues
  <2>4. Rebated(dues, s) \in Seq(DueType)
    BY <2>1, <2>3, RebatedHasType
  <2> QED BY Zenon, <1>1, <2>2, <2>3, <2>4, BatchBeginInv
<1>6. CASE BatchStep
  BY <1>1, <1>6, BatchStepInv
<1>7. CASE BatchCommit \/ BatchRevert
  BY <1>1, <1>7, BatchEndInv
<1>8. /\ score \in [Relayers -> 0 .. MaxScore] /\ window \in Nat
      /\ calls \in [Relayers -> 0 .. RateLimitMaxCalls] /\ ParametersType
  BY LedgerParts DEF CountersType
<1>9. CASE \/ \E on \in BOOLEAN : SetSettlement(on)
           \/ \E bps \in FeeRates : SetFeeBps(bps)
           \/ \E r \in Relayers : \E allowed \in BOOLEAN : SetRelayerAllowed(r, allowed)
           \/ \E min \in MinScores : SetMinRelayerReputation(min)
  <2>1. /\ UNCHANGED <<Ledger, userNonces, tx, transactions, settled>>
        /\ UNCHANGED <<score, window, calls>>
    BY <1>9 DEF SetSettlement, SetFeeBps, SetRelayerAllowed, SetMinRelayerReputation, Nonces
  <2>2. ParametersType'
    BY <1>8, <1>9, ParametersAssumption
       DEF ParametersType, SetSettlement, SetFeeBps, SetRelayerAllowed, SetMinRelayerReputation
  <2> QED BY <1>1, <1>8, <2>1, <2>2, OwnerInv
<1>10. CASE \E r \in Relayers : RecordRelayerViolation(r)
  <2>1. PICK r \in Relayers : RecordRelayerViolation(r)
    BY <1>10
  <2>2. /\ UNCHANGED <<Ledger, userNonces, tx, transactions, settled>>
        /\ UNCHANGED <<window, calls>>
        /\ UNCHANGED Parameters
    BY <2>1 DEF RecordRelayerViolation, Nonces
  <2>3. ParametersType'
    BY <1>8, <2>2 DEF ParametersType, Parameters
  <2>4. score' \in [Relayers -> 0 .. MaxScore]
    <3>1. \A n \in 0 .. MaxScore : Less(n, ViolationPenalty) \in 0 .. MaxScore
      BY ParametersAssumption, MaximaNat DEF Less
    <3> QED BY <1>8, <2>1, <3>1 DEF RecordRelayerViolation
  <2> QED BY <1>1, <1>8, <2>2, <2>3, <2>4, OwnerInv
<1>11. CASE NextWindow
  <2>1. /\ UNCHANGED <<Ledger, userNonces, tx, transactions, settled>> /\ UNCHANGED score
        /\ UNCHANGED Parameters /\ window' = window + 1 /\ calls' = [r \in Relayers |-> 0]
    BY <1>11 DEF NextWindow, Nonces
  <2>2. ParametersType'
    BY <1>8, <2>1 DEF ParametersType, Parameters
  <2>3. window' \in Nat /\ calls' \in [Relayers -> 0 .. RateLimitMaxCalls]
    BY <1>8, <2>1, ParametersAssumption
  <2> QED BY <1>1, <1>8, <2>1, <2>2, <2>3, OwnerInv
<1>12. CASE UNCHANGED vars
  <2>1. /\ UNCHANGED <<Ledger, userNonces, tx, transactions, settled>>
        /\ UNCHANGED <<score, window, calls>>
        /\ UNCHANGED Parameters
    BY <1>12 DEF vars, Ledger, Parameters
  <2>2. ParametersType'
    BY <1>8, <2>1 DEF ParametersType, Parameters
  <2> QED BY <1>1, <1>8, <2>1, <2>2, OwnerInv
<1> QED BY <1>2, <1>3, <1>4, <1>5, <1>6, <1>7, <1>9, <1>10, <1>11, <1>12 DEF Next

LEMMA AlwaysLedgerInv == Spec => []LedgerInv
BY InitLedgerInv, NextLedgerInv, PTL DEF Spec

-----------------------------------------------------------------------------
(* No nonce of a user is consumed by two settled trades, whatever trades,   *)
(* batches and reverts come (usedNonces, Settlement.sol).                   *)
THEOREM NoncesConsumedOnce == Spec => []NonceOnce
<1>1. LedgerInv => NonceOnce
  BY DEF LedgerInv, NonceInv, ConsumedOnceIfUsed, NonceOnce
<1> QED BY <1>1, AlwaysLedgerInv, PTL

(* Balances, wallets, nonces, limits and the pending batch keep their       *)
(* types; in particular no wallet but the Vault's ever falls below zero.    *)
THEOREM TypeCorrect == Spec => []TypeOK
<1>1. LedgerInv => TypeOK
  BY DEF LedgerInv
<1> QED BY <1>1, AlwaysLedgerInv, PTL

(* The Vault holds, token by token, exactly what it owes its users: in      *)
(* every state, also between two trades of a batch and after a batch that   *)
(* reverts (Vault.sol: balances; Settlement.sol: _settleTradeWithFees).     *)
THEOREM VaultStaysSolvent == Spec => []VaultSolvent
<1>1. LedgerInv => VaultSolvent
  BY DEF LedgerInv
<1> QED BY <1>1, AlwaysLedgerInv, PTL

-----------------------------------------------------------------------------
(* The step that settles a trade settles that trade alone.                  *)
LEMMA SettleOnePays ==
    ASSUME LedgerInv, NEW due \in DueType, NEW caller \in Callers,
           ValidTrade(due.trade), CanSettle(due), SettleOne(due, caller),
           settled' = [settled EXCEPT ![due.trade] = @ + 1]
    PROVE  PartiesPay
<1> DEFINE s == due.trade
<1>1. /\ s.maker # s.taker /\ s.tokenIn # s.tokenOut /\ s \in Trades
      /\ \A u \in Users : \A token \in Tokens :
                balances'[u][token] =
                    IF u = s.maker /\ token = s.tokenIn THEN balances[u][token] - s.amountIn
                    ELSE IF u = s.taker /\ token = s.tokenIn
                         THEN balances[u][token] + s.amountIn - due.feeIn - s.gasIn
                    ELSE IF u = s.taker /\ token = s.tokenOut THEN balances[u][token] - s.amountOut
                    ELSE IF u = s.maker /\ token = s.tokenOut
                         THEN balances[u][token] + s.amountOut - due.feeOut - s.gasOut
                    ELSE balances[u][token]
  BY Zenon, LedgerParts, SettleOneBalances
<1>2. /\ s.amountIn \in Nat /\ s.amountOut \in Nat /\ s.gasIn \in Nat /\ s.gasOut \in Nat
      /\ due.feeIn \in Nat /\ due.feeOut \in Nat
      /\ s.amountIn > due.feeIn + s.gasIn /\ s.amountOut > due.feeOut + s.gasOut
  BY <1>1, TradesAssumption DEF DueType, TradeType, CanSettle
<1>3. \A u \in Users : \A token \in Tokens : balances[u][token] \in Int
  BY LedgerParts DEF BalancesType
<1>4. \A t \in JustSettled : t = s
  BY <1>1, LedgerParts DEF JustSettled, CountersType
<1> HIDE DEF s
<1>5. ASSUME NEW u \in Users, NEW token \in Tokens
      PROVE  LET paid == balances[u][token] - balances'[u][token] IN
        /\ u = s.maker /\ token = s.tokenIn => paid = s.amountIn
        /\ u = s.taker /\ token = s.tokenOut => paid = s.amountOut
        /\ paid > 0 => \/ u = s.maker /\ token = s.tokenIn
                       \/ u = s.taker /\ token = s.tokenOut
  BY <1>1, <1>2, <1>3
<1>6. ASSUME NEW t \in JustSettled, NEW u \in Users, NEW token \in Tokens
      PROVE  LET paid == balances[u][token] - balances'[u][token] IN
        /\ u = t.maker /\ token = t.tokenIn => paid = t.amountIn
        /\ u = t.taker /\ token = t.tokenOut => paid = t.amountOut
        /\ paid > 0 => <<u, token>> \in {<<t.maker, t.tokenIn>>, <<t.taker, t.tokenOut>>}
  <2>1. t = s
    BY <1>4
  <2> QED BY <1>5, <2>1
<1> QED BY Zenon, <1>6 DEF PartiesPay

(* A step that settles no trade leaves the property nothing to check.       *)
LEMMA NothingSettled ==
    ASSUME LedgerInv, LedgerInv', \A t \in Trades : settled'[t] <= settled[t]
    PROVE  PartiesPay
<1>1. settled \in [Trades -> Nat] /\ settled' \in [Trades -> Nat]
  BY LedgerParts DEF CountersType, LedgerInv, TypeOK
<1>2. JustSettled = {}
  BY <1>1 DEF JustSettled
<1> QED BY <1>2 DEF PartiesPay

(* Only settleTrade and a step of a batch settle.                           *)
LEMMA NextPartiesPay == LedgerInv /\ LedgerInv' /\ [Next]_vars => [PartiesPay]_vars
<1> SUFFICES ASSUME LedgerInv, LedgerInv', Next PROVE PartiesPay
  OBVIOUS
<1>1. ASSUME NEW c \in Callers, NEW t \in Trades, SettleTrade(c, t) PROVE PartiesPay
  <2>1. Due(t) \in DueType
    BY LedgerParts, DueHasType
  <2>2. Due(t).trade = t
    BY DEF Due
  <2>3. /\ ValidTrade(Due(t).trade) /\ CanSettle(Due(t)) /\ SettleOne(Due(t), c)
        /\ settled' = [settled EXCEPT ![Due(t).trade] = @ + 1]
    BY Zenon, <1>1, <2>2 DEF SettleTrade
  <2> QED BY Zenon, <2>1, <2>3, SettleOnePays
<1>2. CASE BatchStep
  <2>1. Head(tx.due) \in DueType /\ tx.caller \in Callers
    <3>1. tx.due \in Seq(DueType) /\ tx.due # <<>> /\ tx.caller \in Callers
      BY <1>2, LedgerParts DEF BatchStep, TxType
    <3> QED BY <3>1
  <2>2. /\ ValidTrade(Head(tx.due).trade) /\ CanSettle(Head(tx.due))
        /\ SettleOne(Head(tx.due), tx.caller)
        /\ settled' = [settled EXCEPT ![Head(tx.due).trade] = @ + 1]
    BY Zenon, <1>2 DEF BatchStep
  <2>3. ASSUME NEW due \in DueType, NEW c \in Callers,
               ValidTrade(due.trade), CanSettle(due), SettleOne(due, c),
               settled' = [settled EXCEPT ![due.trade] = @ + 1]
        PROVE  PartiesPay
    BY Zenon, <2>3, SettleOnePays
  <2> QED BY Zenon, <2>1, <2>2, <2>3
<1>3. CASE BatchRevert
  <2>1. tx # NoTx /\ settled' = tx.saved.settled
    BY <1>3 DEF BatchRevert
  <2>2. \A t \in Trades : settled'[t] <= settled[t]
    BY <2>1, LedgerParts DEF SavedInv
  <2> QED BY <2>2, NothingSettled
<1>4. CASE settled' = settled
  <2>1. \A t \in Trades : settled'[t] <= settled[t]
    BY <1>4, LedgerParts DEF CountersType
  <2> QED BY <2>1, NothingSettled
<1>5. CASE \E u \in Users, t \in Tokens : Deposit(u, t) \/ Withdraw(u, t)
  BY <1>4, <1>5 DEF Deposit, Withdraw
<1>6. CASE \E c \in Callers, batch \in Batches :
              \/ SettleTradesBatch(c, batch)
              \/ \E s \in Savings : SettleTradesBatchWithGasSavings(c, batch, s)
  BY <1>4, <1>6 DEF SettleTradesBatch, SettleTradesBatchWithGasSavings, BatchBegin
<1>7. CASE BatchCommit
  BY <1>4, <1>7 DEF BatchCommit
<1>8. CASE \/ \E on \in BOOLEAN : SetSettlement(on)
           \/ \E bps \in FeeRates : SetFeeBps(bps)
           \/ \E r \in Relayers : \/ \E allowed \in BOOLEAN : SetRelayerAllowed(r, allowed)
                                  \/ RecordRelayerViolation(r)
           \/ \E min \in MinScores : SetMinRelayerReputation(min)
           \/ NextWindow
  BY <1>4, <1>8 DEF SetSettlement, SetFeeBps, SetRelayerAllowed, SetMinRelayerReputation,
                    RecordRelayerViolation, NextWindow
<1> QED BY <1>1, <1>2, <1>3, <1>5, <1>6, <1>7, <1>8 DEF Next

-----------------------------------------------------------------------------
(* The rebate.                                                              *)
LEMMA DivisionRoundsDown ==
    ASSUME NEW p \in Nat, NEW n \in Nat \ {0}
    PROVE  p \div n \in Nat /\ n * (p \div n) <= p
OBVIOUS

(* A fee loses at most its share of the rebate.                             *)
LEMMA RebateShare ==
    ASSUME NEW dues \in Seq(DueType), NEW savings \in Nat, NEW i \in DOMAIN dues
    PROVE  TotalUsdtFee(dues) * (UsdtFee(dues[i]) - UsdtFee(Rebated(dues, savings)[i]))
              <= Rebate(dues, savings) * UsdtFee(dues[i])
<1> DEFINE due == dues[i]
           new == Rebated(dues, savings)[i]
           d == Deduct(dues, savings, i)
<1>a. due \in DueType
  OBVIOUS
<1>b. new \in DueType
  BY RebatedFees
<1>c1. new.trade = due.trade
  BY RebatedFees
<1>c2. UsdtFee(due) = 0 => new = due
  BY RebatedFees
<1>c3. UsdtFee(due) # 0 => d \in Nat
  BY RebatedFees
<1>c4. UsdtFee(due) # 0 /\ due.trade.tokenIn = Usdt =>
              new.feeIn = Less(due.feeIn, d) /\ new.feeOut = due.feeOut
  BY RebatedFees
<1>c5. UsdtFee(due) # 0 /\ due.trade.tokenIn # Usdt =>
              /\ new.feeOut = Less(due.feeOut, d) /\ new.feeIn = due.feeIn
              /\ due.trade.tokenOut = Usdt
  BY RebatedFees
<1> DEFINE u == UsdtFee(due)
           v == UsdtFee(new)
           F == TotalUsdtFee(dues)
           r == Rebate(dues, savings)
<1>2. u \in Nat /\ u <= F /\ F \in Nat
  <2> DEFINE f == [j \in DOMAIN dues |-> UsdtFee(dues[j])]
  <2>1. f = [j \in DOMAIN dues |-> UsdtFee(dues[j])] /\ f[i] = u
    OBVIOUS
  <2> HIDE DEF f
  <2>2. f[i] \in Nat /\ f[i] <= TotalUsdtFee(dues) /\ TotalUsdtFee(dues) \in Nat
    BY <2>1, TotalIsSum
  <2> QED BY <2>1, <2>2
<1>3. v \in Nat
  BY <1>b, UsdtFeeNat
<1>4. r \in Nat
  BY RebateNat
<1>5. d = (r * u) \div F
  BY DEF Deduct
<1>6. /\ due.feeIn \in Nat /\ due.feeOut \in Nat /\ new.feeIn \in Nat /\ new.feeOut \in Nat
  BY <1>a, <1>b DEF DueType
<1>7. /\ u = (IF due.trade.tokenIn = Usdt THEN due.feeIn ELSE 0)
             + (IF due.trade.tokenOut = Usdt THEN due.feeOut ELSE 0)
      /\ v = (IF new.trade.tokenIn = Usdt THEN new.feeIn ELSE 0)
             + (IF new.trade.tokenOut = Usdt THEN new.feeOut ELSE 0)
  BY DEF UsdtFee
<1>8. SUFFICES F * (u - v) <= r * u
  OBVIOUS
<1>1. /\ new.trade = due.trade
      /\ u = 0 => new = due
      /\ u # 0 => d \in Nat
      /\ u # 0 /\ due.trade.tokenIn = Usdt =>
              new.feeIn = Less(due.feeIn, d) /\ new.feeOut = due.feeOut
      /\ u # 0 /\ due.trade.tokenIn # Usdt =>
              /\ new.feeOut = Less(due.feeOut, d) /\ new.feeIn = due.feeIn
              /\ due.trade.tokenOut = Usdt
  BY Zenon, <1>c1, <1>c2, <1>c3, <1>c4, <1>c5
<1>9. u = 0 => v = u
  BY <1>c2
<1> HIDE DEF due, new, d, u, v, F, r
<1>10. CASE u = 0
  <2>1. F * (0 - 0) <= r * 0
    BY <1>2, <1>4
  <2> QED BY <1>9, <1>10, <2>1
<1>11. CASE u # 0
  <2>1. F \in Nat \ {0}
    BY <1>2, <1>11
  <2>2. d \in Nat /\ F * d <= r * u
    <3>1. r * u \in Nat
      BY <1>2, <1>4
    <3> QED BY <1>5, <2>1, <3>1, DivisionRoundsDown
  <2>3. u - v <= d
    <3>1. CASE due.trade.tokenIn = Usdt
      <4>1. new.feeIn >= due.feeIn - d /\ new.feeOut = due.feeOut
        BY <1>1, <1>6, <1>11, <2>2, <3>1 DEF Less
      <4> QED BY <1>1, <1>6, <1>7, <2>2, <3>1, <4>1
    <3>2. CASE due.trade.tokenIn # Usdt
      <4>1. new.feeOut >= due.feeOut - d /\ due.trade.tokenOut = Usdt
        BY <1>1, <1>6, <1>11, <2>2, <3>2 DEF Less
      <4> QED BY <1>1, <1>6, <1>7, <2>2, <3>2, <4>1
    <3> QED BY <3>1, <3>2
  <2>4. PICK e \in Nat : d = (u - v) + e
    <3>1. d - (u - v) \in Nat /\ d = (u - v) + (d - (u - v))
      BY <1>2, <1>3, <2>2, <2>3
    <3> QED BY <3>1
  <2>5. F * d = F * (u - v) + F * e
    BY <1>2, <1>3, <2>4, Distribute
  <2>6. F * e \in Nat /\ F * (u - v) \in Int /\ r * u \in Int
    BY <1>2, <1>3, <1>4, <2>4
  <2> QED BY <2>2, <2>5, <2>6
<1> QED BY <1>10, <1>11

(* The rebates of a batch together take off no more than the whole rebate.  *)
LEMMA RebateTotal ==
    ASSUME NEW dues \in Seq(DueType), NEW savings \in Nat
    PROVE  TotalUsdtFee(dues) - TotalUsdtFee(Rebated(dues, savings)) <= (savings * 50) \div 100
<1> DEFINE new == Rebated(dues, savings)
           D == DOMAIN dues
           f == [i \in DOMAIN dues |-> UsdtFee(dues[i])]
           g == [i \in DOMAIN new |-> UsdtFee(new[i])]
           F == TotalUsdtFee(dues)
           G == TotalUsdtFee(new)
           r == Rebate(dues, savings)
<1>1. new \in Seq(DueType) /\ DOMAIN new = D
  BY RebatedHasType DEF Rebated
<1>2. /\ IsFiniteSet(D)
      /\ \A i \in D : dues[i] \in DueType /\ f[i] = UsdtFee(dues[i]) /\ f[i] \in Nat /\ f[i] <= F
      /\ F = SumFunctionOnSet(f, D) /\ F \in Nat
  <2>1. f = [i \in DOMAIN dues |-> UsdtFee(dues[i])]
    OBVIOUS
  <2> HIDE DEF f
  <2> QED BY <2>1, TotalIsSum
<1>3. /\ \A i \in D : new[i] \in DueType /\ g[i] = UsdtFee(new[i]) /\ g[i] \in Nat
      /\ G = SumFunctionOnSet(g, D) /\ G \in Nat
  <2>1. g = [i \in DOMAIN new |-> UsdtFee(new[i])]
    OBVIOUS
  <2> HIDE DEF g, new
  <2> QED BY <1>1, <2>1, TotalIsSum
<1>4. r \in Nat /\ r <= (savings * 50) \div 100
  BY RebateNat
<1>5. (savings * 50) \div 100 \in Nat
  BY ShareNat
<1>6. ASSUME NEW i \in D PROVE F * (f[i] - g[i]) <= r * f[i]
  <2>1. F * (UsdtFee(dues[i]) - UsdtFee(new[i])) <= r * UsdtFee(dues[i])
    BY RebateShare
  <2>2. f[i] = UsdtFee(dues[i]) /\ g[i] = UsdtFee(new[i])
    BY <1>2, <1>3
  <2> HIDE DEF D, f, g, F, r, new
  <2> QED BY <2>1, <2>2
<1>7. F * (F - G) <= r * F
  <2> HIDE DEF D, f, g, F, G, r
  <2> QED BY <1>2, <1>3, <1>4, <1>6, SumShare
<1> HIDE DEF f, g, F, G, r
<1>8. CASE F = 0
  BY <1>2, <1>3, <1>5, <1>8 DEF F, G
<1>9. CASE F # 0
  <2>1. F * (F - G) <= F * r
    BY <1>2, <1>3, <1>4, <1>7
  <2>2. F - G <= r
    BY <1>2, <1>3, <1>4, <1>9, <2>1, CancelFactor
  <2> QED BY <1>2, <1>3, <1>4, <1>5, <2>2 DEF F, G
<1> QED BY <1>8, <1>9

(* One by one, the rebate lowers fees in USDT only.                         *)
LEMMA RebateEach ==
    ASSUME NEW dues \in Seq(DueType), NEW savings \in Nat, NEW i \in DOMAIN dues,
           dues[i].trade.tokenIn # dues[i].trade.tokenOut
    PROVE  LET due == dues[i]  new == Rebated(dues, savings)[i] IN
           /\ new.trade = due.trade
           /\ new.feeIn <= due.feeIn /\ new.feeOut <= due.feeOut
           /\ due.trade.tokenIn # Usdt => new.feeIn = due.feeIn
           /\ due.trade.tokenOut # Usdt => new.feeOut = due.feeOut
<1> DEFINE due == dues[i]
           new == Rebated(dues, savings)[i]
           d == Deduct(dues, savings, i)
<1>a1. new.trade = due.trade
  BY RebatedFees
<1>a2. UsdtFee(due) = 0 => new = due
  BY RebatedFees
<1>a3. UsdtFee(due) # 0 => d \in Nat
  BY RebatedFees
<1>a4. UsdtFee(due) # 0 /\ due.trade.tokenIn = Usdt =>
              new.feeIn = Less(due.feeIn, d) /\ new.feeOut = due.feeOut
  BY RebatedFees
<1>a5. UsdtFee(due) # 0 /\ due.trade.tokenIn # Usdt =>
              /\ new.feeOut = Less(due.feeOut, d) /\ new.feeIn = due.feeIn
              /\ due.trade.tokenOut = Usdt
  BY RebatedFees
<1>1. /\ new.trade = due.trade
      /\ UsdtFee(due) = 0 => new = due
      /\ UsdtFee(due) # 0 => d \in Nat
      /\ UsdtFee(due) # 0 /\ due.trade.tokenIn = Usdt =>
              new.feeIn = Less(due.feeIn, d) /\ new.feeOut = due.feeOut
      /\ UsdtFee(due) # 0 /\ due.trade.tokenIn # Usdt =>
              /\ new.feeOut = Less(due.feeOut, d) /\ new.feeIn = due.feeIn
              /\ due.trade.tokenOut = Usdt
  BY Zenon, <1>a1, <1>a2, <1>a3, <1>a4, <1>a5
<1>2. due.feeIn \in Nat /\ due.feeOut \in Nat
  <2>1. due \in DueType
    OBVIOUS
  <2> QED BY <2>1 DEF DueType
<1> HIDE DEF due, new, d
<1>3. \A n \in Nat : d \in Nat => Less(n, d) <= n
  BY DEF Less
<1>4. CASE UsdtFee(due) = 0
  BY <1>1, <1>2, <1>4 DEF due, new
<1>5. CASE UsdtFee(due) # 0 /\ due.trade.tokenIn = Usdt
  <2>1. new.feeIn <= due.feeIn /\ new.feeOut = due.feeOut
    BY <1>1, <1>2, <1>3, <1>5
  <2> QED BY <1>1, <1>2, <1>5, <2>1 DEF due, new
<1>6. CASE UsdtFee(due) # 0 /\ due.trade.tokenIn # Usdt
  <2>1. new.feeOut <= due.feeOut /\ new.feeIn = due.feeIn /\ due.trade.tokenOut = Usdt
    BY <1>1, <1>2, <1>3, <1>6
  <2> QED BY <1>1, <1>2, <1>6, <2>1 DEF due, new
<1> QED BY <1>4, <1>5, <1>6

(* Only the two entry points of a batch fix fees.                           *)
LEMMA NextRebateWithinBounds == LedgerInv /\ [Next]_vars => [RebateWithinBounds]_vars
<1> SUFFICES ASSUME LedgerInv, Next, tx = NoTx, tx' # NoTx PROVE RebateWithinBounds
  BY DEF RebateWithinBounds
<1> DEFINE Bounded(dues, new, savings) ==
              /\ TotalUsdtFee(dues) - TotalUsdtFee(new) <= (savings * 50) \div 100
              /\ \A i \in DOMAIN new :
                  /\ new[i].trade = dues[i].trade
                  /\ new[i].feeIn <= dues[i].feeIn /\ new[i].feeOut <= dues[i].feeOut
                  /\ dues[i].trade.tokenIn # Usdt => new[i].feeIn = dues[i].feeIn
                  /\ dues[i].trade.tokenOut # Usdt => new[i].feeOut = dues[i].feeOut
<1>1. ASSUME NEW batch \in Batches, NEW new, NEW savings, NEW c,
             BatchBegin(c, new, savings), DOMAIN new = DOMAIN batch,
             Bounded([i \in DOMAIN batch |-> Due(batch[i])], new, savings)
      PROVE  RebateWithinBounds
  <2> DEFINE dues == [i \in DOMAIN batch |-> Due(batch[i])]
  <2>1. tx'.due = new /\ tx'.savings = savings
    BY <1>1 DEF BatchBegin
  <2>2. \A i \in DOMAIN new : dues[i] = Due(batch[i]) /\ Due(batch[i]).trade = batch[i]
    BY <1>1 DEF Due
  <2>3. \A i \in DOMAIN new : Due(new[i].trade) = dues[i]
    BY <1>1, <2>2
  <2>4. [i \in DOMAIN new |-> Due(new[i].trade)] = dues
    BY <1>1, <2>3
  <2>5. Bounded(dues, new, savings)
    BY <1>1
  <2>6. \A i \in DOMAIN new : dues[i].trade = new[i].trade
    BY <2>5
  <2> HIDE DEF dues
  <2> QED BY <2>1, <2>3, <2>4, <2>5 DEF RebateWithinBounds
<1>2. ASSUME NEW c \in Callers, NEW batch \in Batches, SettleTradesBatch(c, batch)
      PROVE  RebateWithinBounds
  <2> DEFINE dues == [i \in DOMAIN batch |-> Due(batch[i])]
  <2>1. dues \in Seq(DueType)
    BY LedgerParts, DuesHaveType
  <2>2. BatchBegin(c, dues, 0)
    BY <1>2 DEF SettleTradesBatch
  <2>3. DOMAIN dues = DOMAIN batch
    OBVIOUS
  <2> HIDE DEF dues
  <2>4. TotalUsdtFee(dues) \in Nat
    BY <2>1, TotalIsSum
  <2>5. TotalUsdtFee(dues) - TotalUsdtFee(dues) <= (0 * 50) \div 100
    BY <2>4
  <2>6. \A i \in DOMAIN dues : dues[i].feeIn \in Nat /\ dues[i].feeOut \in Nat
    <3>1. \A i \in DOMAIN dues : dues[i] \in DueType
      BY <2>1
    <3> QED BY <3>1 DEF DueType
  <2>7. Bounded(dues, dues, 0)
    BY <2>5, <2>6
  <2> QED BY <1>1, <2>2, <2>3, <2>7 DEF dues
<1>3. ASSUME NEW c \in Callers, NEW batch \in Batches, NEW s \in Savings,
             SettleTradesBatchWithGasSavings(c, batch, s)
      PROVE  RebateWithinBounds
  <2> DEFINE dues == [i \in DOMAIN batch |-> Due(batch[i])]
             new  == Rebated(dues, s)
  <2>1. dues \in Seq(DueType)
    BY LedgerParts, DuesHaveType
  <2>2. BatchBegin(c, new, s)
    BY <1>3 DEF SettleTradesBatchWithGasSavings
  <2>3. s \in Nat
    BY ParametersAssumption
  <2>4. DOMAIN dues = DOMAIN batch /\ DOMAIN new = DOMAIN batch
    BY DEF Rebated
  <2>5. \A i \in DOMAIN dues : dues[i].trade.tokenIn # dues[i].trade.tokenOut
    BY <1>3 DEF SettleTradesBatchWithGasSavings, ValidTrade, Due
  <2>6. Bounded(dues, new, s)
    <3>1. TotalUsdtFee(dues) - TotalUsdtFee(new) <= (s * 50) \div 100
      <4> HIDE DEF dues
      <4> QED BY <2>1, <2>3, RebateTotal
    <3>2. \A i \in DOMAIN new :
                  /\ new[i].trade = dues[i].trade
                  /\ new[i].feeIn <= dues[i].feeIn /\ new[i].feeOut <= dues[i].feeOut
                  /\ dues[i].trade.tokenIn # Usdt => new[i].feeIn = dues[i].feeIn
                  /\ dues[i].trade.tokenOut # Usdt => new[i].feeOut = dues[i].feeOut
      <4>1. DOMAIN new = DOMAIN dues
        BY <2>4
      <4> HIDE DEF dues
      <4> QED BY <2>1, <2>3, <2>5, <4>1, RebateEach
    <3> QED BY Zenon, <3>1, <3>2
  <2> HIDE DEF new
  <2> QED BY <1>1, <2>2, <2>4, <2>6
<1>4. CASE BatchStep \/ BatchCommit \/ BatchRevert
  BY <1>4 DEF BatchStep, BatchCommit, BatchRevert
<1>5. CASE tx' = tx
  BY <1>5
<1>6. CASE \E u \in Users, t \in Tokens : Deposit(u, t) \/ Withdraw(u, t)
  BY <1>5, <1>6 DEF Deposit, Withdraw
<1>7. CASE \E c \in Callers, t \in Trades : SettleTrade(c, t)
  BY <1>5, <1>7 DEF SettleTrade
<1>8. CASE \/ \E on \in BOOLEAN : SetSettlement(on)
           \/ \E bps \in FeeRates : SetFeeBps(bps)
           \/ \E r \in Relayers : \/ \E allowed \in BOOLEAN : SetRelayerAllowed(r, allowed)
                                  \/ RecordRelayerViolation(r)
           \/ \E min \in MinScores : SetMinRelayerReputation(min)
           \/ NextWindow
  BY <1>5, <1>8 DEF SetSettlement, SetFeeBps, SetRelayerAllowed, SetMinRelayerReputation,
                    RecordRelayerViolation, NextWindow
<1> QED BY <1>2, <1>3, <1>4, <1>6, <1>7, <1>8 DEF Next

(* A trade takes from its maker and its taker exactly the amounts they      *)
(* sold, and from nobody else, whether it is settled alone or in a batch.   *)
THEOREM PartiesPayCorrect == Spec => PartiesPayWhatTheySold
BY AlwaysLedgerInv, NextPartiesPay, PTL DEF Spec, PartiesPayWhatTheySold

(* The fees a batch fixes are those of its trades less a rebate in USDT of  *)
(* at most half the savings in all, with no fee raised and none below zero  *)
(* (settleTradesBatchWithGasSavings).                                       *)
THEOREM RebateIsBounded == Spec => RebateBounded
BY AlwaysLedgerInv, NextRebateWithinBounds, PTL DEF Spec, RebateBounded
=============================================================================
