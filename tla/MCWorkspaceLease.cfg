CONSTANTS
    Sessions = {s1, s2}
    Calls = {c1, c2}
    MaxAsk = 2
    MaxBind = 3
    MaxOp = 2
    MaxHead = 1
    Ttl = 1
    MAX_OPERATIONS = 1
SYMMETRY Symmetry
SPECIFICATION Spec
CHECK_DEADLOCK FALSE
INVARIANTS
    RunningIsFenced
    OneGrantPerCall
    OneOutcome
PROPERTIES
    HandoverIsDeliberate
