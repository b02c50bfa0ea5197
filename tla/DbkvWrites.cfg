SPECIFICATION Spec
CONSTANTS
    Instance = {i1, i2}
    Caller = {}
    Worker = w
    Session = {s1, s2}
    Key = {k1, k2}
    Format = {int64, bool}
    Value = {v1}
    Stamp = {1, 2}
    Hidden = {k2}
    NoRow = NoRow
    NoMarker = NoMarker
    NoSnapshot = NoSnapshot
    NoInstance = NoInstance
INVARIANT CheckHoldsUntilCommit
 
PROPERTY CacheNeverRegresses
SYMMETRY Permutable
