SPECIFICATION Spec
CONSTANTS
    d = d  df = df  e = e  ef = ef
    empty = empty  old = old  new = new  dir = dir  link = link
    Path = {d, df, e, ef}
    Ancestors <- MCAncestors
    Depth <- MCDepth
    Base <- MCBase
    Entry = {empty, old, new, dir, link}
    TypeOf <- MCTypeOf
    Dir0755 = dir
    Absent = Absent
    LogPath = {}
    Redact <- MCRedact
    Clients = {c1, c2}
    Sources <- MCSources
    DirEntry = dir
    NoData = empty
    Old = {old}
    Written = {new}
    LinkEntry = link
    NoPath = NoPath
    NoTree = NoTree
    Unknown = Unknown
    MaxRequests = 2
    MaxSnapshots = 1
INVARIANTS TypeOK SnapshotSeesMount  
SYMMETRY Symmetry
