SPECIFICATION Spec
CONSTANTS
    OpeningCoins <- MCOpening
    Orders <- MCOrders
    PdaSeeds <- MCSeeds
    Templates <- MCTemplates
    MaxBalance = 3
    Dust = 1
    MAX_CACHED_MODULES = 1
    MaxOrders = 5
    I64_MAX = 7
    U64_MAX = 15
    PERCENT = 2
    Askers = {"a", "b"}
    Funds = 3
    COOLDOWN = 2
    RATE_WINDOW = 2
    MAX_PAYOUTS = 2
    MaxMishaps = 2
    APR = 5
    THRESHOLD = 3
    MaxWrites = 2
    COUNT = 4
    Scenarios <- MCScenarios
    RoundHash <- MCRoundHash
    TICKS = 12
    DELAY = 2
    MaxDisturbed = 1
INVARIANTS FundedIsPaid  NetworkAgrees
PROPERTIES  PayoutsGoOn
CHECK_DEADLOCK FALSE
