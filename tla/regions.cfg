CONSTANTS
    Region = {p, s}
    Primary = p
    Writers = {p}
    Manifest = {m1, m2}
    NoTag = none
    Capacity = 1
    Retries = 1
    Threshold = 2
    MaxWrites = 3
    MaxFaults = 1
    Upstreams <- MCUpstreams
    Image = {d1, d2}
    NoImage = none
    Pulls = {p1, p2}
    MaxChanges = 1
SPECIFICATION Spec
INVARIANTS RegionsConverge LayersArriveFirst PushOutlivesMirror IndexIsComplete
PROPERTY HandlersReturn
CHECK_DEADLOCK FALSE
