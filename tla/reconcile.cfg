CONSTANTS
    m1 = m1
    m2 = m2
    b1 = b1
    b2 = b2
    Manifests = {m1, m2}
    Blobs = {b1, b2}
    BlobsOf <- Layers
    MaxSurgeries = 1
    SurgeryCounts = {0, 1, 2, 3}
SPECIFICATION Spec
INVARIANTS NoDriftWithoutSurgery QuietPassRepairs
