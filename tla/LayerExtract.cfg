CONSTANTS
    d = d  e = e  f = f
    file = file  secret = secret  redacted = redacted
    dir = dir  dir0755 = dir0755  link = link
    Path = {d, e, f}
    Ancestors <- MCAncestors
    Depth <- MCDepth
    Entry = {file, secret, redacted, dir, dir0755, link}
    TypeOf <- MCTypeOf
    Dir0755 = dir0755
    Absent = Absent
    LogPath = {f}
    Redact <- MCRedact
SPECIFICATION Spec
INVARIANTS TypeOK  RestoredTreeMatches
