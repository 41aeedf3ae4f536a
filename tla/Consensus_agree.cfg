CONSTANTS
    n1 = n1
    n2 = n2
    n3 = n3
    n4 = n4
    Nodes = {n1, n2, n3, n4}
    Leader = n1
    Down = {n4}
    Proposals = {p1}
    NoProposal = NoProposal
SPECIFICATION Spec
CHECK_DEADLOCK FALSE
INVARIANTS TypeOK CommitOnce CommitBacked
