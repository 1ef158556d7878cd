SPECIFICATION Spec
CONSTANTS
    Validators <- MCValidators
    Nobody = Nobody
    Units <- MCUnits
    Owner <- MCOwner
    Cert <- MCCert
    Round <- MCRound
    Author <- MCAuthor
    Parents <- MCParents
    Rank <- MCRank
    Leader <- MCLeader
    Networks <- MCNetworks
    Log <- MCLog
    Retention = 1
    MaxRestarts = 1
    MaxLost = 1
INVARIANTS
    EmittedOnce AncestorsFirst CommittedIsFinal OrderAgreement
