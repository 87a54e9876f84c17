SPECIFICATION ServiceSpec
CONSTANTS
    Sessions = {x1}
    Requests = {r1, r2}
    Proofs = {r1, r2}
    Absent = Absent
    Nobody = Nobody
    NoRow = NoRow
    MaxSamples = 1
    MaxRestarts = 1
SYMMETRY MCSymmetry
INVARIANT DeferredMintCanBeRetried
CHECK_DEADLOCK FALSE
