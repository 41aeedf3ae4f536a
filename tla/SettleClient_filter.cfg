CONSTANTS
    m1 = m1
    m2 = m2
    u = u
    v = v
    Deals = {m1, m2}
    Mine = {m1, m2}
    Readable = {m1}
    Maker <- MakerOf
    Taker <- TakerOf
    Users = {u}
    NoUser = NoUser
    Slots = {1}
    Old = {m1}
    MaxBlock = 2
    MaxOpens = 2
    NoMatch = NoMatch
SPECIFICATION Spec
CHECK_DEADLOCK FALSE
INVARIANTS SyncFindsUsersTrades
