SPECIFICATION Spec
CONSTANTS
    a = a
    b = b
    z = z
    Validators <- MCValidators
    Nobody = Nobody
    Units = {1, 2, 3, 4}
    Owner <- MCOwner
    Byz = {z}
    MaxRound = 0
    Slots <- ByzSlots
    RoundStateRetention = 0
    MaxRoundLookahead = 0
    AtomicStore = TRUE
    Crashing = {a, b}
    MaxRestarts = 1
INVARIANTS
    NoSelfEquivocation EquivocationNeedsFaultyThird 
