SPECIFICATION AccessSpec
CONSTANTS
    w1 = w1
    w2 = w2
    k1 = k1
    k2 = k2
    MaxLost = 1
    Chains = {"Ethereum", "Polygon"}
    Wallets = {w1, w2}
    Secrets = {k1, k2}
    Environments <- MCEnvironments
    None = None
    Invalid = Invalid
    DEFAULT_ADMIN_SESSION_TTL_SECS = 1
    MaxTime = 4
    MaxStarts = 2
    Nonces = {1, 2}
    Logins = {l1, l2}
    Expirations = {None, 2}
    NONCE_TTL = 2
    Ips = {i1}
    Creations = {c1, c2}
    Sessions = {1, 2, 3}
    LIMIT <- MCLimit
    WINDOW <- MCWindow
    MAX_HASHRATE = 1
    Hashrates = {1, 2}
    PER_SIGNAL_BPS = 2500
    MAX_ANOMALY_SCORE_BPS = 10000
    MaxCount = 3
    MaxPages = 2
CONSTRAINT MCBounds
ACTION_CONSTRAINT MCEvents
SYMMETRY Symmetry
INVARIANTS
    AccessTypeOK
    LoginsAreSingle
    AdmissionsEnd
    FlagsAreEarned
    LimitsHold
    CountersExpire
CHECK_DEADLOCK FALSE
