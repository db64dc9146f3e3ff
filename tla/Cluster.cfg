CONSTANTS
    n1 = n1
    n2 = n2
    n3 = n3
    Node = {n1, n2, n3}
    None = None
    Setup <- Holds
SPECIFICATION FairSpec
INVARIANTS RingFollowsView
PROPERTIES TablesAgree
CHECK_DEADLOCK FALSE
