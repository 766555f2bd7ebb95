CONSTANTS
    Repos = {r1}
    Manifests = {m1, m2}
    Tags = {}
    Clients = {c1, c2}
    None = None
    Faults = TRUE
    Blobs = {b1}
    BlobsOf <- SharedLayers
    Reapers = {p1}
    BatchSize = 2
    MaxReaperFaults = 1
SPECIFICATION Spec
PROPERTIES ImplementsBlobRefs ReaperSparesReferenced UnreferencedIsReaped
