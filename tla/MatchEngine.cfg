CONSTANTS
    b1 = b1
    b2 = b2
    b3 = b3
    s1 = s1
    s2 = s2
    q1 = q1
    alice = alice
    bob = bob
    P = P
    Q = Q
    OrderIds = {b1, b2, b3, s1, s2, q1}
    Traders = {alice, bob}
    Pairs = {P, Q}
    MaxOrdersPerPair = 2
    NoPair = NoPair
    NoTaker = NoTaker
    MaxTime = 2
    Orders <- SixOrders
    Snapshots <- ThreeSnapshots
SPECIFICATION Spec
INVARIANTS TypeOK PriceTimeSorted BookWellFormed SidesBounded
PROPERTIES BestMakerFirst WithinLimits MatchIsOutcome ResubmitEvictsNobody
