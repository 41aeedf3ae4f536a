CONSTANTS
    alice = alice
    bob = bob
    relayer = relayer
    usdt = usdt
    eth = eth
    Users = {alice, bob}
    Relayers = {relayer}
    Owner = Owner
    Vault = Vault
    FeeDistributor = FeeDistributor
    NodeRewards = NodeRewards
    Tokens = {usdt, eth}
    Usdt = usdt
    Trades <- TwoTrades
    FeeCap <- NoFeeCap
    MaxGasReimbursePerTrade = 3
    FeeRates = {1000}
    MinScores = {0}
    ViolationPenalty = 1
    RateLimitMaxCalls = 2
    Savings = {0}
    MaxBatch = 2
    DepositAmount = 20
    Funds = 20
    MaxTransactions = 2
    MaxWindow = 0
    NoTx = NoTx
SPECIFICATION Spec
CHECK_DEADLOCK FALSE
INVARIANTS SettledOnce
