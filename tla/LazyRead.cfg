CONSTANTS
    d = d  f = f  g = g
    secret = secret  redacted = redacted  empty = empty  dir = dir  link = link
    Path = {d, f, g}
    Ancestors <- MCAncestors
    Depth <- MCDepth
    Entry = {secret, redacted, empty, dir, link}
    TypeOf <- MCTypeOf
    Dir0755 = dir
    Absent = Absent
    LogPath = {f}
    Redact <- MCRedact
    Scans <- MCScans
    Size <- MCSize
    ChunkSize = 2
    MaxInt = 7
    NoPath = NoPath
    MaxChain = 3
    MaxDeaths = 1
SPECIFICATION Spec
INVARIANTS ReadsRecorded DeletedUnread RestoresFromIndexes  
