SPECIFICATION Spec
CONSTANTS
    p1 = p1
    p2 = p2
    root = root
    child = child
    checkpoint = checkpoint
    main = main
    latest = latest
    Pushers = {p1, p2}
    Snapshots = {root, child, checkpoint}
    Branches = {main, latest}
    None = none
    Chain <- MCChain
    Requests <- MCRequests
    MaxPulls = 1
    MaxFaults = 1
INVARIANTS TypeOK RemoteComplete  ReferrersArrive RetryAccepted
PROPERTIES StaleHeadDetected
CHECK_DEADLOCK FALSE
