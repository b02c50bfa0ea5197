SPECIFICATION ScriptSpec
CONSTANTS
    o1 = o1
    o2 = o2
    a = a
    b = b
    c = c
    Documented = {o1, o2}
    Component = {a, b, c}
    Broken = Broken
    Absent = Absent
    OperationRefs <- OfOperations
    ComponentRefs <- OfComponents
INVARIANT PrunedExactly
PROPERTY PageIsShown
CHECK_DEADLOCK FALSE
