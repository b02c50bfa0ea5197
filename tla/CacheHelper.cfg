SPECIFICATION FairSpec
CONSTANTS
    i1 = i1  i2 = i2  r1 = r1  r2 = r2  w1 = w1  w2 = w2
    Instance = {i1, i2}
    Reader = {r1, r2}
    Writer = {w1, w2}
    At <- Placement
    MaxVersion = 2
    Absent = {1}
    TouchTTL = 2
    LocalTTL = 2
    ExpireTTL = 3
    MissingTTL = 3
    RedisTTL = 4
    NoEntry = NoEntry
INVARIANTS
    FreshAfterGrace
PROPERTIES
    ImplementsCache
    StaleDiesOut
    WaitersAnswered
