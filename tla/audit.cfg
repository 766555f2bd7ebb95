CONSTANTS
    Exporters = {loop}
    Tasks = {t1, t2}
    Keys = {k1, k2}
    Fractions = {0, 1}
    MaxRows = 3
    MaxFaults = 1
SPECIFICATION Spec
INVARIANTS BreaksAreExplained OnlyLateRowsAreSkipped
PROPERTIES ExportCatchesUp
