CONSTANTS
    b1 = b1
    s1 = s1
    s2 = s2
    alice = alice
    bob = bob
    P = P
    n1 = n1
    n2 = n2
    OrderIds = {b1, s1, s2}
    Traders = {alice, bob}
    Pairs = {P}
    MaxOrdersPerPair = 3
    MatchNodes = {n1}
    StoreNodes = {n2}
    Orders <- ThreeOrders
    Cancellable = {}
    RestoreLimit = 3
    MaxPosts = 1
    MaxCrashes = 0
    MaxTime = 0
    NoRow = NoRow
    NoCancel = NoCancel
SPECIFICATION LiveSpec
CHECK_DEADLOCK FALSE
PROPERTIES TradesReachStores
