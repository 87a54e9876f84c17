SPECIFICATION RegistrySpec
CONSTANTS
    ZeroAddress = zero
    RegistryAddress = registry
    Accounts = {registry, op1}
    NodeOperators = {op1}
    ZeroNode = n0
    NodeIds = {n0, n1}
    Observers = {b1, b2}
    SlashIds = {p1, p2, p3}
    StakeAmounts = {19, 20}
    Endowment = 40
    MIN_STAKE = 20
    VETO_WINDOW = 1
    UINT8_MAX = 3
    GenesisTime = 2
    MaxTime = 3
    MaxVetoed = 1
    MaxOutside = 20
SYMMETRY MCSymmetry
CONSTRAINT MCBounds
INVARIANTS
    RegistryTypeOK
    SlashesConfirmedAndWaited
    VetoedOrExecuted
    SlashedOncePerId
    StakesBacked
CHECK_DEADLOCK FALSE
