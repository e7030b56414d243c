SPECIFICATION Spec
CONSTANTS
    Actors = {p1}
    Targets = {t1}
    Names <- MCNames
    Latest = "latest"
    Blank = ""
    SeqTag <- MCSeqTag
    Requests <- TwoRequests
    Policies <- EagerPolicies
    Forks = {"main"}
    Mounted = {t1}
    ByDigest = FALSE
    Contents = {c1, c2}
    NoTree = NoTree
    Elsewhere = Elsewhere
    MaxSnapshots = 3
    Faults = {"sign", "publish", "crash"}
INVARIANTS
    
    SignedWhenPublished
    
