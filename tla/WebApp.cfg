CONSTANTS
    me = me
    peer = peer
    near = near
    far = far
    Accounts = {me, peer}
    Me = me
    Peer = peer
    NoOne = NoOne
    Idle = Idle
    Targets = {near, far}
    NoTarget = NoTarget
    Eid <- OneEid
    Mapped = {30184}
    BridgeFee = 1
    Funds = 3
    Pool = 2
    BridgeTyped = {2}
    Expiry = 0
    MaxClock = 1
    MaxSent = 2
    MaxMounts = 2
    Delegators = {peer}
    ActiveSets <- EverybodyActive
    Counts = {2}
    VotingPeriod = 1
    TimelockDelay = 1
    CooldownPeriod = 1
    MaxProposals = 1
    MaxTime = 3
    MaxGovCalls = 2
    TokenA = TokenA
    TokenB = TokenB
    Holding = 10
    Liquidity = 40
    MinLiquidity = 5
    FeeBps = 1000
    FeeCap <- CapOnB
    FeeLeaves = TRUE
    MaxPriceImpactBps = 6000
    VaultTyped <- TypedAmounts
    Traded = {20}
    MaxTrades = 2
    SideBySide <- PoolHandlers
    FirstList <- HalfList
    Lists <- TwoLists
    Scores = {4}
    FirstScore <- FewProofs
    ReserveBps = 1500
    FeeIn = 10
    RewardIn = 20
    OtherPeriods = 10
    Word = 65536
    MaxCalls = 4
    MaxClaims = 1
    Forms = {"section", "widget", "form"}
    NodeCount = 2
    Storage = {"book"}
    MaxOrders = 1
    MaxPlacements = 1
    UrlCount = 3
    UpRelays = {2}
    Backoff = 2
    MaxConnects = 1
    a1 = a1
    b1 = b1
    mine = mine
    Order <- ThreeOrders
    Own = {mine}
    Expiring = {b1}
    Cancellable = {a1}
    MaxCopies <- AskTwice
    MaxOpens = 2
    NoRow = NoRow
    Gone = Gone
SPECIFICATION Spec
CHECK_DEADLOCK FALSE
INVARIANTS TypeOK ReleasedWasLocked CountsAreBallots ClaimedOnce OnlySignedLeave
    BookIsSound RowsBackedByMatches MakerFillsBounded SettlingIsRecorded
PROPERTIES PoolKeepsProduct NothingHangs
