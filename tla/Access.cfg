SPECIFICATION FairSpec
CONSTANTS
    t1 = t1
    t2 = t2
    t3 = t3
    forged = forged
    None = None
    MaxLabel = 11
    Requests = {r1, r2}
    Users <- MCUsers
    Tokens = {t1, t2, t3, forged}
    OwnerOf <- MCOwnerOf
    Arrivals <- MCArrivals
    MaxRotations = 2
INVARIANTS TypeOK HeadersVouchedFor OwnWorkspace RotationPickedUp
PROPERTY Decided
