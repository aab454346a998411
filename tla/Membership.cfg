SPECIFICATION FairSpec
CONSTANTS
    ada = ada
    bob = bob
    cyd = cyd
    Users <- MCUsers
    Address <- MCAddress
    OwnedDomain <- MCOwned
    MultiLabelSuffixes <- MCSuffixes
    AdminEmails = {ada, bob}
    MaxChanges = 2
INVARIANTS
    TypeOK
    Ownership
    JoinedByDomain
PROPERTY
    Announced
CHECK_DEADLOCK FALSE
