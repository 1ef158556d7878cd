SPECIFICATION RecordsSpec
CONSTANTS
    Parts = {"tree", "sync", "receipts", "indexer", "genesis", "registry", "contracts", "host"}
    KEY_BITS = 3
    Keys <- mcKeys
    Values = {1, 2}
    Batches = 2
    Peers = {"p", "q"}
    Boots <- mcBoots
    Pages = 2
    MAX_ATTEMPTS = 2
    Quorum = 2
    LastPeerRound = 3
    MaxCaptures = 3
    MaxCrashes = 1
    P = 101
    U64_MAX = 30
    MIN_TRACE_LENGTH = 2
    Opening <- mcOpening
    FeeTargets = {"pool"}
    FEE = 1
    FeeTo = "pool"
    DUST = 2
    TxOrder <- mcOrder
    MAX_INMEM_RECEIPTS = 4
    N_FULL_PROOF_RECEIPTS = 3
    MAX_STARK_PROOF_RECEIPTS = 2
    MAX_INMEM_STAKING_EVENTS = 1
    MaxReceiptCrashes = 1
    NodeRows <- mcRows
    NODE_WINDOW = 4
    PAGE = 2
    MAX_PAGES = 3
    MaxTicks = 2
    MaxFailedFetches = 1
    MaxIndexerCrashes = 1
    Operators = {"o", "p"}
    Flags <- mcFlags
    Edits <- mcEdits
    ValidNames <- mcNames
    NONE = NONE
    UNITS = 2
    BOND_ATOMS = 3
    MAX_QCH = 50
    MAX_SIGNERS = 4
    MaxSeedCrashes = 1
    MaxUnwritten = 2
    Founding <- mcFounding
    NewEntry <- mcNew
    MaxRegistered = 2
    MaxToolCrashes = 2
    OpeningCoins <- mcCoins
    Orders <- mcOrders
    PdaSeeds = {"k"}
    MaxBalance = 3
    Dust = 2
    MAX_CACHED_MODULES = 1
    MaxOrders = 4
    HostOptions <- mcDaemons
    NodeOptions <- mcNodes
    SignRequests <- mcSignings
    Passphrases = {"p"}
    MAX_SIGNS = 1
    WINDOW = 1
    MaxCounter = 1
    MaxTime = 1
    MaxConns = 3
    MaxBoots = 2
    MaxAsked = 4
    MaxMishaps = 1
INVARIANTS     SigningHostHolds
PROPERTY ContractsKeepToTheirOwn
CHECK_DEADLOCK FALSE
