SPECIFICATION FairSpec
CONSTANTS
    Sessions = {x1}
    Requests = {r1, r2}
    Proofs = {r1, r2}
    Absent = Absent
    Nobody = Nobody
    NoRow = NoRow
    MaxSamples = 1
    MaxRestarts = 1
PROPERTIES
    EveryRequestAnswered
CHECK_DEADLOCK FALSE
