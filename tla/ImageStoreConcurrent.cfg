SPECIFICATION Spec
CONSTANTS
    Actors = {p1, p2}
    Targets = {t1}
    Names <- MCNames
    Latest = "latest"
    Blank = ""
    SeqTag <- MCSeqTag
    Requests <- PlainOnly
    Policies <- RetainedOnly
    Forks = {"main"}
    Mounted = {t1}
    ByDigest = TRUE
    Contents = {c1, c2}
    NoTree = NoTree
    Elsewhere = Elsewhere
    MaxSnapshots = 2
    Faults = {"crash", "busy"}
INVARIANTS
    TypeOK
    RefsBacked
