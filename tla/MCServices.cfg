SPECIFICATION ServicesSpec
CONSTANTS
    Parts = {"epochs", "transport", "store", "log", "limits", "simulate", "keys", "signatures"}
    Order <- mcOrder
    GenesisCommittee = {"a", "b", "c"}
    ConfigPeers = {"b", "c"}
    Dialable = {"d"}
    Self = "a"
    EPOCH_ROUNDS = 2
    DAG_RETENTION = 1
    LastRound = 6
    MaxStops = 1
    SnapshotRounds = {}
    Tasks = {t1, t2}
    Setups <- mcSetups
    NoConn = NoConn
    MaxConns = 3
    MaxFaults = 2
    REKEY_INTERVAL = 1
    CONNECTION_REKEY_FRAMES = 1
    MAX_HANDSHAKES = 1
    MAX_INBOUND = 2
    MAX_PER_IP = 2
    MAX_FRAMES = 1
    MAX_STRIKES = 1
    Addresses = {"x", "y"}
    MetaKeys = {"round"}
    Data = {1, 2}
    Absent = Absent
    MaxIds = 3
    MaxQueue = 3
    MaxOps = 4
    Calls <- mcCalls
    RL_WINDOW = 2
    RL_BAN = 3
    GC_INTERVAL = 1
    MAX_TRACKED = 1
    RPC_LIMIT = 2
    IP_LIMIT = 1
    TXID_LIMIT = 1
    PAYER_LIMIT = 1
    GLOBAL_LIMIT = 2
    MaxCalls = 5
    MaxClock = 6
    Requests = {"r1", "r2", "r3"}
    TxOf <- mcTxOf
    MAX_SIMULATIONS = 2
    SIM_CACHE_MAX = 1
    MaxStates = 1
    MaxHangups = 1
    Replicas = {"m", "n"}
    Envelopes <- mcEnvelopes
    CommitBatches <- mcBatches
    KeyRequests <- mcAsks
    MAX_SIG_CACHE = 1
    MaxCommits = 2
INVARIANTS  SessionsAreExact DatabasesAreExact SignaturesHold RpcIsSound
PROPERTIES RotationGoesOn PreviewsAreAnswered
CHECK_DEADLOCK FALSE
