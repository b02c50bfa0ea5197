SPECIFICATION FairSpec
CONSTANTS
    a = a  b = b  a1 = a1  a2 = a2  a3 = a3  a4 = a4  b1 = b1  x = x
    Request = {a1, a2, a3, a4, b1, x}
    Key = {a, b}
    KeyOf <- Keys
    NoKey = NoKey
    Limit = 1
    Window = 3
    NoEntry = NoEntry
    Free = Free
INVARIANTS
    TwoQuotasPerWindow
    LimitedOnlyWhenFull
    OneCounterPerWindow
PROPERTY EveryRequestAnswered
