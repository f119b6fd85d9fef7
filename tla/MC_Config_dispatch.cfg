\* The dispatcher when the accessors fail only on values they cannot convert:
\* get, set and set_from_dict on two keys, one value of each Python type.
CONSTANTS
    Keys = {k1, k2}
    vFlag = vFlag
    vNumber = vNumber
    vList = vList
    vString = vString
    vTuple = vTuple
    vNone = vNone
    Vals = {vFlag, vNumber, vList, vString, vTuple, vNone}
    TypeOf <- MCTypeOfOp
    Transient = FALSE
    MaxCalls = 2
    NoEntry = NoEntry
SPECIFICATION Spec
INVARIANTS
    TypedDispatch
    DictPrefix
CHECK_DEADLOCK FALSE
