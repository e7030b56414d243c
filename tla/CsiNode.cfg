SPECIFICATION FairSpec
CONSTANTS
    Volumes = {v1}
    Handles = {h1, h2}
    Nobody = nobody
    Secrets = {v1}
    MaxDirty = 0
    MaxWrites = 1
    MaxFails = 1
    MaxCrashes = 1
INVARIANTS TypeOK WorkersReachable UnpublishedIsPushed 
  
