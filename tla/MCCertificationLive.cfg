SPECIFICATION Spec
CONSTANTS
    a = a
    b = b
    z = z
    Validators <- MCValidators
    Nobody = Nobody
    Units = {1, 2, 3, 4}
    Owner <- MCOwner
    Byz = {}
    MaxRound = 1
    Slots <- FirstRound
    RoundStateRetention = 2
    MaxRoundLookahead = 1
    AtomicStore = TRUE
    Crashing = {b}
    MaxRestarts = 1
INVARIANTS
    RoundsAreBacked NeverStranded
VIEW WithoutHistory
