SPECIFICATION Spec
CONSTANTS
    Validators <- MCValidators
    Nobody = Nobody
    Units <- MCUnits
    Owner <- MCOwner
    Cert <- MCCert
    Round <- MCRound
    Author <- MCAuthor
    Parents <- MCParents
    Rank <- MCRank
    Leader <- MCLeader
    Networks <- MCNetworks
    Log <- MCLog
    Retention = 10
    MaxRestarts = 0
    MaxLost = 0
INVARIANT SameOrder
