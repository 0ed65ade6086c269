SPECIFICATION FairSpec
CONSTANTS
    Requests = {r1, r2, r3}
    Grace = 2
INVARIANTS TypeOK ServesPrepared OnlyStragglersCut
PROPERTIES NoLateConnection Stops
