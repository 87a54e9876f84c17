SPECIFICATION Spec
CONSTANTS
    ZeroAddress = zero
    MiningAddress = mining
    Accounts = {mining, user, s1, s2, s3}
    Candidates = {s1, s2, s3, zero}
    Recipients = {user, zero}
    Minters = {mining, user, zero}
    Sessions = {x1, x2}
    ProposalIds = {p1, p2}
    Amounts = {1}
    Ceilings = {1, 2}
    TIMELOCK_DELAY = 1
    REQUIRED_APPROVALS = 2
    TOTAL_SIGNERS = 2
    GenesisTime = 1
    MaxBlock = 1
    MaxMints = 2
    MaxApprovals = 4
    MaxOutside = 2
SYMMETRY MCSymmetry
CONSTRAINT MCBounds
ACTION_CONSTRAINT MCMoves
INVARIANTS
    TypeOK
    SessionMintedOnce
    MintsEndorsedAndTimelocked
    SignerCountExact
    BlockCeilingHolds
    SupplyIsAccounted
CHECK_DEADLOCK FALSE
