SPECIFICATION PipelineSpec
CONSTANTS
    ZeroAddress = zero
    MiningAddress = mining
    Accounts = {mining, registry, user, s1, s2, s3}
    Candidates = {s1, s2, s3}
    Recipients = {user}
    Minters = {mining}
    Sessions = {x1}
    ProposalIds = {x1}
    Amounts = {0, 1, 3}
    Ceilings = {2}
    TIMELOCK_DELAY = 2
    REQUIRED_APPROVALS = 2
    TOTAL_SIGNERS = 5
    GenesisTime = 1
    MaxBlock = 4
    Operators = {o1, o2}
    Wallet = user
    RegistryAddress = registry
    NoRow = NoRow
    GrossAmounts = {0, 1, 3}
    DailyCeiling = 2
    DAY = 1
    COMPANY_WALLET = user
    ALERTS_LIMIT = 2
SYMMETRY MCSymmetry
CONSTRAINT MCBounds
INVARIANTS
    PipelineTypeOK
    RowsNeverAheadOfChain
    ConfirmedAfterTimelock
    ReportsBracketChain
PROPERTIES
    ImplementsLedger
CHECK_DEADLOCK FALSE
