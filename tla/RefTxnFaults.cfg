CONSTANTS
    d1 = d1  d2 = d2  main = main  alias = alias  snap = snap
    mainFile = mainFile  snapFile = snapFile  p1 = p1
    Names = {main, alias, snap}
    Paths = {mainFile, snapFile}
    PathOf <- MCPathOf
    Digests = {d1, d2}
    NoRef = NoRef  Blank = Blank  NoDigest = NoDigest  Torn = Torn  NoThread = NoThread
    Threads = {t1, t2}
    Procs = {p1}
    ProcOf <- OneProcess
    Batches <- MCBatches
    Faults = {"prepare", "rename", "rollback", "crash"}
SPECIFICATION FairTxnSpec
INVARIANTS TypeOK HeadsAsExpected
PROPERTIES CallsReturn
