SPECIFICATION Spec
CONSTANTS
    r1 = r1
    r2 = r2
    op = op
    Registered = {"push", "sku"}
    Skus = {0, 1}
    Operators = {op}
    Runs = {r1, r2}
    MaxStamp = 3
    Faults = {"db", "reply", "crash", "overlap", "session"}
SYMMETRY RunSymmetry
INVARIANT TypeOK
INVARIANT OneRunPerJob
PROPERTY NoStartAfterStop
