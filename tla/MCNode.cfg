SPECIFICATION NodeSpec
CONSTANTS
  Parts = {"execution", "mempool"}
  Order <- mcOrder
  Payers = {"rich", "poor"}
  Authors = {"a", "b"}
  OpeningFunds <- mcOpeningFunds
  ROUND_STATE_RETENTION = 1
  BATCH_RETENTION = 2
  DAG_RETENTION = 1
  ROUNDS_PER_QUANTO = 2
  Lead = 0
  MaxRestarts = 1
  MaxLosses = 1
  TxPayers = {"p", "q"}
  LastNonce <- mcLastNonce
  Size <- mcSize
  Limit <- mcLimit
  Tip <- mcTip
  Funds <- mcFunds
  MAX_PER_PAYER = 2
  MAX_PIPELINE_DEPTH = 1
  BYTES_PER_ROUND = 4
  LowFee = 1
  HighFee = 2
  MaxRises = 1
  MaxFailures = 1
  MaxInflight = 2
 
PROPERTIES  EveryRetriedExecutes
CHECK_DEADLOCK FALSE
