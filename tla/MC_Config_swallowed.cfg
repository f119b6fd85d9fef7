\* The dispatcher when an accessor may also raise an unrelated exception:
\* the bare excepts fall through to the next type.
CONSTANTS
    Keys = {k1, k2}
    vFlag = vFlag
    vNumber = vNumber
    vList = vList
    vString = vString
    vTuple = vTuple
    vNone = vNone
    Vals = {vFlag, vNumber, vList, vString, vTuple, vNone}
    TypeOf <- MCTypeOfOp
    Transient = TRUE
    MaxCalls = 2
    NoEntry = NoEntry
SPECIFICATION Spec
INVARIANTS
    TypedDispatch
CHECK_DEADLOCK FALSE
