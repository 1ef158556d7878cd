SPECIFICATION Spec
CONSTANTS
    Tx = {t1}
    Zero = Zero
    StateCheckpoints = TRUE
    MaxRound = 2
    MaxRoot = 1
    MaxFaults = 2
INVARIANTS
    OneVertexPerRound
PROPERTY ImplementsAuthority
CHECK_DEADLOCK FALSE
