SPECIFICATION ProgramsSpec
CONSTANTS
  Parts = {"validators"}
  Stakers = {s1, s2}
  Positions = {p1, p2}
  StakeAmounts = {1, 3}
  HARD_CAP = TRUE
  UNBONDING_QUANTOS = 1
  WalletFunds = 3
  EmissionFunds = 2
  MaxQuanto = 3
  INDEX_SCALE = 4
  QUANTO_RATE_SCALE = 4
  RATE_FP = 1
  FEE_MIN = 2
  FEE_MAX = 5
  FEE_DENOMINATOR = 2
  EMISSION_APR = 1
  EMISSION_YEAR = 2
  EMISSION_PRECISION = 4
  Wallets <- mcWallets
  ADMIN_FEE_WALLET = "admin"
  fee_collector = "node"
  OpeningBalances <- mcOpening
  OpeningBaseFee = 3
  FEE_TARGET = 4
  DUST_THRESHOLD = 3
  COMMISSION = 1
  BPS = 4
  QUANTO_EMISSION = 3
  ROUNDS_PER_QUANTO = 2
  MAX_QUANTO_CATCHUP = 1
  Transactions <- mcTransactions
  LedgerWorkloads <- mcNetworks
  ColdAddresses = {"x"}
  HotKeys = {"ka", "kc"}
  Equivocators = {"ka"}
  Committees = {"c"}
  NoCommittee = "none"
  Bond = 2
  Purses <- mcPurses
  WINDOW <- mcWindow
  RELEASE_QUANTOS = 1
  SLASH_WINDOW = 1
  MAX_RETIRED = 2
  MAX_VALIDATORS = 2
  FreezeLength = 2
  Workloads <- mcRotations
  MAX_KM_AUDIT_ENTRIES = 1
  MaxRecoveryOps = 2
  GenesisSigners <- mcGenesisSigners
  GenesisPolicy <- mcGenesisPolicy
  Accounts = {"s1", "s2", "s3"}
  Proposals <- mcProposals
  MAX_TREASURY_PENDING = 2
  TreasuryFunds = 5
  MaxOps = 3
  MaxTreasuryRound = 4
  Holders = {"a", "b"}
  StakeAccounts = {1, 2}
  DelegateAmounts = {2}
  RewardShares = {1}
  Cheats = {"a"}
  PRECISION = 4
  MINIMUM_BONDING_ROUNDS = 1
  SELF_STAKE_UNBONDING_ROUNDS = 1
  MIN_VALIDATOR_STAKE = 2
  HolderFunds = 3
  MaxRewards = 1
  ProposalIds = {1}
  ProposalDeposit = 1
  VOTING_PERIOD <- mcVotingPeriod
  TIMELOCK <- mcTimelock
  MIN_PARTICIPATION <- mcParticipation
  APPROVAL <- mcApproval
  RETENTION = 1
  MAX_VOTES = 2
  Guardians = {"g1", "g2"}
  GuardianThreshold = 2
  GenesisFee = 4
  FEE_FLOOR = 2
  FEE_CAP = 8
  FEE_STEP = 1
  GenesisAlgorithms = {"old"}
  GovWorkloads <- mcBallots
INVARIANT RegistryIsUnique
CHECK_DEADLOCK FALSE
