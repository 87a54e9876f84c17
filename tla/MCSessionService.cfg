SPECIFICATION ServiceSpec
CONSTANTS
    Sessions = {x1}
    Requests = {r1, r2, r3}
    Proofs = {r1, r2, r3}
    Absent = Absent
    Nobody = Nobody
    NoRow = NoRow
    MaxSamples = 1
    MaxRestarts = 1
INVARIANTS
    ServiceTypeOK
    OneProposalPerSession
    RowsAreEarned
    CompletedIsGone
    PauseHolds
SYMMETRY MCSymmetry
CHECK_DEADLOCK FALSE
