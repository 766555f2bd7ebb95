CONSTANTS
    Repos = {r1, r2}
    Manifests = {m1}
    Tags = {}
    Clients = {c1}
    None = None
    Faults = FALSE
    Blobs = {b1}
    BlobsOf <- SharedLayers
    Reapers = {p1}
    BatchSize = 1
    MaxReaperFaults = 0
SPECIFICATION Spec
CHECK_DEADLOCK FALSE
PROPERTIES ReaperSparesStoredManifests
