SPECIFICATION Spec
CONSTANTS
    Requests = {r1, r2}
    Miners = {m1, m2}
    Chains <- MCChains
    Treasuries <- MCTreasuries
    Submitters <- MCSubmitters
    Commodities = {"CrudeOil"}
    RawPrices <- MCRawPrices
    OpeningPrice <- MCOpening
    None = None
    NoPrice = NoPrice
    BASE_COEFFICIENT = 10
    PRICE_COEFFICIENT = 1
    USDC_SCALE = 100
    PRICE_SCALE = 100
    CENTS_SCALE = 1
    TARGET_DECIMALS = 2
    MAX_AMOUNT = 1000
    MAX_NONCE_RETRIES = 1
    CACHE_TTL = 2
    MAX_HASHRATE = 4
    REF_HASHRATE = 3
    ESTIMATE_DURATION = 2
    TIMELOCK_DELAY = 1
    LOCK_DURATION = 1
    minStake = 1
    DIVERGENCE_THRESHOLD_BPS = 200
    Difficulties = {6}
    OpeningStakes = {0, 1}
    StakeAmounts = {0, 1, 49}
    EdgeChoices = {1000}
    ReserveRatios = {11000}
    Deposits = {1}
    MaxTime = 3
    MaxFetch = 1
    MaxProofs = 2
    MaxTransactions = 3
    MaxEvents = 1
CONSTRAINT MCBounds
ACTION_CONSTRAINT MCEvents
SYMMETRY Symmetry
INVARIANTS
    EconomyTypeOK
    ReadsAreRecent
    SubmissionsSettle
    BoostMirrorsContract
    RateIsEarned
    EstimatesAgree
CHECK_DEADLOCK FALSE
