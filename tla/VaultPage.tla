------------------------------- MODULE VaultPage -------------------------------
(***************************************************************************)
(* Deposits, withdrawals, swaps and liquidity: the vault and swap tabs of  *)
(* the app (frontend/src/App.tsx) with their allowances, over the          *)
(* contracts they call: the account's side of Vault.sol, and AMMPool.sol,  *)
(* which others use too.                                                   *)
(*                                                                         *)
(* The four handlers have a flag each and run at the same time. What is    *)
(* typed, or filled in from a balance, is an input; balances, reserves and *)
(* previews, which are only displayed, and their cache are left out.       *)
(* When one of addLiquidity's two approvals fails, the other is taken to   *)
(* end with it.                                                            *)
(***************************************************************************)
EXTENDS Integers, FiniteSets

CONSTANTS
    TokenA, TokenB, Idle,
    Holding,               \* what the account has of each token at first
    Liquidity,             \* what others have provided of each
    MinLiquidity, FeeBps, MaxPriceImpactBps,
    FeeCap,                \* feeCapPerToken, 0 for none
    FeeLeaves,             \* whether a fee distributor is set
    Typed,                 \* bound: amounts the user types, per handler
    Traded,                \* bound: amounts others swap
    MaxTrades,             \* bound: transactions of the pool
    SideBySide             \* bound: the handlers that are under way at a time, by pairs

Tokens == {TokenA, TokenB}

(* Two tokens, and the limits the pool's setters keep.                       *)
VaultPageAssumption ==
    /\ TokenA # TokenB
    /\ MinLiquidity \in Nat \ {0} /\ FeeBps \in 0 .. 1000 /\ MaxPriceImpactBps \in 0 .. 10000
    /\ FeeCap \in [Tokens -> Nat] /\ FeeLeaves \in BOOLEAN
    /\ Traded \subseteq Nat \ {0} /\ MaxTrades \in Nat
    /\ Typed \in [{"deposit", "withdraw", "swap", "addLiquidity"} -> SUBSET Nat]
    /\ Holding \in Nat /\ Liquidity \in Nat

VARIABLES
    tokens,        \* the account's tokens
    vaulted,       \* its balance in the vault
    vaultAllowed, poolAllowed,   \* what it allows the vault and the pool to take
    reserve,       \* the pool's tokens
    provided,      \* currentLiquidity of the others
    trades,        \* how many times the pool was used
    vaultCall      \* the handlers under way

chainVars == <<tokens, vaulted, vaultAllowed, poolAllowed, reserve, provided, trades>>
vars == <<chainVars, vaultCall>>

VaultCards == {"deposit", "withdraw"}
SwapCards == {"swap", "addLiquidity"}
Handlers == VaultCards \cup SwapCards
Other(t) == IF t = TokenA THEN TokenB ELSE TokenA

TypeOK ==
    /\ {tokens, vaulted, vaultAllowed, poolAllowed, reserve, provided} \subseteq [Tokens -> Nat]
    /\ trades \in 0 .. MaxTrades
    /\ \A k \in Handlers : vaultCall[k] # Idle =>
          /\ vaultCall[k].amount \in [Tokens -> Nat]
          /\ vaultCall[k].allow \in [Tokens -> {"check", "clear", "approve", "ready"}]
          /\ vaultCall[k].at \in {"allow", "mined"}

-----------------------------------------------------------------------------
(* AMMPool.sol.                                                              *)

Fee(in, amountIn) ==
    LET fee == (amountIn * FeeBps) \div 10000
    IN  IF FeeCap[in] > 0 /\ fee > FeeCap[in] THEN FeeCap[in] ELSE fee

GetAmountOut_RoundsUp(in, amountIn) ==
    LET net == amountIn - Fee(in, amountIn) IN
    (reserve[Other(in)] * net) \div (reserve[in] + net) + 1
GetAmountOut(in, amountIn) ==
    LET net == amountIn - Fee(in, amountIn) IN
    (reserve[Other(in)] * net) \div (reserve[in] + net)

CalculatePriceImpact(in, amountIn, amountOut) ==
    LET ratio == (amountOut * reserve[in] * 10000) \div (amountIn * reserve[Other(in)])
    IN  IF ratio >= 10000 THEN ratio - 10000 ELSE 10000 - ratio

SwapAccepts(in, amountIn) ==
    /\ \A t \in Tokens : reserve[t] >= MinLiquidity
    /\ GetAmountOut(in, amountIn) > 0 /\ GetAmountOut(in, amountIn) < reserve[Other(in)]
    /\ CalculatePriceImpact(in, amountIn, GetAmountOut(in, amountIn)) <= MaxPriceImpactBps

(* The fee goes on to the fee distributor, or stays here when there is none. *)
Kept(in, amountIn) == IF FeeLeaves THEN amountIn - Fee(in, amountIn) ELSE amountIn
Swap(in, amountIn) ==
    /\ trades < MaxTrades /\ trades' = trades + 1
    /\ SwapAccepts(in, amountIn)
    /\ reserve' = [t \in Tokens |-> IF t = in THEN reserve[t] + Kept(in, amountIn)
                                    ELSE reserve[t] - GetAmountOut(in, amountIn)]

AddLiquidity(amount) ==
    /\ trades < MaxTrades /\ trades' = trades + 1
    /\ \A t \in Tokens : amount[t] > 0
    /\ (\A t \in Tokens : reserve[t] = 0) => \A t \in Tokens : amount[t] >= MinLiquidity
    /\ reserve' = [t \in Tokens |-> reserve[t] + amount[t]]

(* Others swap, and remove liquidity: a provider what is recorded as his, the*)
(* owner of the pool whatever it has, which is nobody's record.              *)
OthersSwap ==
    /\ \E in \in Tokens, v \in Traded : Swap(in, v)
    /\ UNCHANGED <<tokens, vaulted, vaultAllowed, poolAllowed, provided, vaultCall>>
RemoveLiquidity ==
    /\ trades < MaxTrades /\ trades' = trades + 1
    /\ \E out \in [Tokens -> {0} \cup Traded], byOwner \in BOOLEAN :
          /\ \E t \in Tokens : out[t] # 0
          /\ \A t \in Tokens :
                /\ out[t] <= reserve[t] /\ (byOwner \/ out[t] <= provided[t])
                /\ out[t] = 0 \/ reserve[t] - out[t] >= MinLiquidity
          /\ reserve' = [t \in Tokens |-> reserve[t] - out[t]]
          /\ provided' = IF byOwner THEN provided ELSE [t \in Tokens |-> provided[t] - out[t]]
    /\ UNCHANGED <<tokens, vaulted, vaultAllowed, poolAllowed, vaultCall>>

-----------------------------------------------------------------------------
Init ==
    /\ tokens = [t \in Tokens |-> Holding] /\ vaulted = [t \in Tokens |-> 0]
    /\ vaultAllowed = [t \in Tokens |-> 0] /\ poolAllowed = [t \in Tokens |-> 0]
    /\ reserve = [t \in Tokens |-> Liquidity] /\ provided = reserve /\ trades = 0
    /\ vaultCall = [k \in Handlers |-> Idle]

-----------------------------------------------------------------------------
(* The handlers.                                                             *)

Amounts(a, b) == [t \in Tokens |-> IF t = TokenA THEN a ELSE b]
Steps(amount) == [t \in Tokens |-> IF amount[t] = 0 THEN "ready" ELSE "check"]

RunWithLoading(k, amount, allow) ==
    /\ vaultCall[k] = Idle
    /\ \A h \in Handlers : vaultCall[h] # Idle => <<h, k>> \in SideBySide
    /\ vaultCall' = [vaultCall EXCEPT ![k] = [amount |-> amount, allow |-> allow, at |-> "allow"]]
    /\ UNCHANGED chainVars

HandleDeposit ==
    \E v \in Typed.deposit :
        RunWithLoading("deposit", Amounts(v, 0), Steps(Amounts(v, 0)))
HandleWithdraw ==
    \E v \in Typed.withdraw :
        RunWithLoading("withdraw", Amounts(v, 0), Steps(Amounts(0, 0)))
(* The wallet's balance is asked for before anything is approved.            *)
HandleSwap ==
    \E v \in Typed.swap, in \in Tokens :
        LET amount == IF in = TokenA THEN Amounts(v, 0) ELSE Amounts(0, v) IN
        tokens[in] >= v /\ RunWithLoading("swap", amount, Steps(amount))
HandleAddLiquidity ==
    \E v, w \in Typed.addLiquidity :
        RunWithLoading("addLiquidity", Amounts(v, w), Steps(Amounts(v, w)))

(* ensureAllowance: nothing when there is enough, else to 0 and up again.    *)
Allowance(k) == IF k = "deposit" THEN vaultAllowed ELSE poolAllowed
Approve(k, t, v) ==
    /\ IF k = "deposit" THEN vaultAllowed' = [vaultAllowed EXCEPT ![t] = v] /\ UNCHANGED poolAllowed
       ELSE poolAllowed' = [poolAllowed EXCEPT ![t] = v] /\ UNCHANGED vaultAllowed
    /\ UNCHANGED <<tokens, vaulted, reserve, provided, trades>>
Step(k, t, step) ==
    vaultCall' = [vaultCall EXCEPT ![k] =
        [amount |-> @.amount, allow |-> [@.allow EXCEPT ![t] = step], at |-> @.at]]

CheckAllowance(k, t) ==
    /\ vaultCall[k] # Idle /\ vaultCall[k].allow[t] = "check"
    /\ Step(k, t, IF Allowance(k)[t] >= vaultCall[k].amount[t] THEN "ready"
                  ELSE IF Allowance(k)[t] > 0 THEN "clear" ELSE "approve")
    /\ UNCHANGED chainVars
ClearAllowance(k, t) ==
    /\ vaultCall[k] # Idle /\ vaultCall[k].allow[t] = "clear"
    /\ Approve(k, t, 0) /\ Step(k, t, "approve")
ApproveAmount(k, t) ==
    /\ vaultCall[k] # Idle /\ vaultCall[k].allow[t] = "approve"
    /\ Approve(k, t, vaultCall[k].amount[t]) /\ Step(k, t, "ready")

(* The transaction of the handler is mined.                                  *)
Take(allowed, amount) ==
    /\ \A t \in Tokens : amount[t] <= allowed[t] /\ amount[t] <= tokens[t]
    /\ tokens' = [t \in Tokens |-> tokens[t] - amount[t]]
Less(f, amount) == [t \in Tokens |-> f[t] - amount[t]]

Deposit(amount) ==
    /\ Take(vaultAllowed, amount)
    /\ vaultAllowed' = Less(vaultAllowed, amount)
    /\ vaulted' = [t \in Tokens |-> vaulted[t] + amount[t]]
    /\ UNCHANGED <<poolAllowed, reserve, trades>>
Withdraw(amount) ==
    /\ \A t \in Tokens : amount[t] <= vaulted[t]
    /\ vaulted' = Less(vaulted, amount)
    /\ tokens' = [t \in Tokens |-> tokens[t] + amount[t]]
    /\ UNCHANGED <<vaultAllowed, poolAllowed, reserve, trades>>
SwapMine(amount) ==
    \E in \in {t \in Tokens : amount[t] # 0} :
        /\ Swap(in, amount[in])
        /\ amount[in] <= poolAllowed[in] /\ amount[in] <= tokens[in]
        /\ poolAllowed' = [poolAllowed EXCEPT ![in] = @ - amount[in]]
        /\ tokens' = [t \in Tokens |-> IF t = in THEN tokens[t] - amount[in]
                                       ELSE tokens[t] + GetAmountOut(in, amount[in])]
        /\ UNCHANGED <<vaulted, vaultAllowed>>
AddMine(amount) ==
    /\ AddLiquidity(amount)
    /\ Take(poolAllowed, amount) /\ poolAllowed' = Less(poolAllowed, amount)
    /\ UNCHANGED <<vaulted, vaultAllowed>>

CallMined(k) ==
    /\ vaultCall[k] # Idle /\ vaultCall[k].at = "allow"
    /\ \A t \in Tokens : vaultCall[k].allow[t] = "ready"
    /\ CASE k = "deposit"      -> Deposit(vaultCall[k].amount)
         [] k = "withdraw"     -> Withdraw(vaultCall[k].amount)
         [] k = "swap"         -> SwapMine(vaultCall[k].amount)
         [] k = "addLiquidity" -> AddMine(vaultCall[k].amount)
    /\ vaultCall' = [vaultCall EXCEPT ![k] = [@ EXCEPT !.at = "mined"]]
    /\ UNCHANGED <<provided>>

(* The wallet refuses, a transaction reverts, a read fails.                  *)
CallFails_StaysBusy(k) ==
    /\ vaultCall[k] # Idle /\ vaultCall[k].at = "allow"
    /\ UNCHANGED vars
CallFails(k) ==
    /\ vaultCall[k] # Idle /\ vaultCall[k].at = "allow"
    /\ vaultCall' = [vaultCall EXCEPT ![k] = Idle]
    /\ UNCHANGED chainVars

(* What the card shows is read again, whatever comes of it: an answer, a     *)
(* failure that is caught, or what is cached for the chain.                  *)
CallDone(k) ==
    /\ vaultCall[k] # Idle /\ vaultCall[k].at = "mined"
    /\ vaultCall' = [vaultCall EXCEPT ![k] = Idle]
    /\ UNCHANGED chainVars
FetchBalances(k) == k \in VaultCards /\ CallDone(k)
FetchReserves(k) == k \in SwapCards /\ CallDone(k)

Continue(k) ==
    \/ \E t \in Tokens : CheckAllowance(k, t) \/ ClearAllowance(k, t) \/ ApproveAmount(k, t)
    \/ CallMined(k) \/ CallFails(k) \/ FetchBalances(k) \/ FetchReserves(k)

Next ==
    \/ OthersSwap \/ RemoveLiquidity
    \/ HandleDeposit \/ HandleWithdraw \/ HandleSwap \/ HandleAddLiquidity
    \/ \E k \in Handlers : Continue(k)

Spec == Init /\ [][Next]_vars

-----------------------------------------------------------------------------
(* No trade and no deposit of liquidity takes value out of the pool, down to *)
(* the rounding of the fee and of what goes out, with and without a cap on   *)
(* the fee, and wherever it goes. Removed liquidity does, the owner's too.   *)
PoolKeepsProduct ==
    [][RemoveLiquidity
         \/ reserve'[TokenA] * reserve'[TokenB] >= reserve[TokenA] * reserve[TokenB]]_vars

=================================================================================
