CONSTANTS
    Repos = {r1}
    Manifests = {m1, m2}
    Tags = {t1, t2}
    Clients = {c1, c2}
    None = None
    Faults = TRUE
    Images = {"image", "index"}
    Layers = {"config", "layer"}
    Refs <- MCRefs
    Signatures = {s1}
    Promoters = {a1}
    Signers = {g1}
    MaxPushes = 3
    MaxCallFaults = 1
    Nothing = Nothing
SPECIFICATION TagsSpec
INVARIANTS TagsAreExplained 
