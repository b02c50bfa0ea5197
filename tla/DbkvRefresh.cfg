SPECIFICATION FairSpec
CONSTANTS
    Instance = {i1}
    Caller = {c1}
    Worker = w
    Session = {s1, s2}
    Key = {k1}
    Format = {int64}
    Value = {v1}
    Stamp = {1, 2, 3}
    Hidden = {}
    NoRow = NoRow
    NoMarker = NoMarker
    NoSnapshot = NoSnapshot
    NoInstance = NoInstance
INVARIANTS
    TypeOK
    MarkerIdentifiesTable
PROPERTIES
    ImplementsStore
    EventuallyCurrent
