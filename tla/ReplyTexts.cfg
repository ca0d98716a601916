SPECIFICATION CallSpec
CONSTANTS
    MaxInt = 15
    Floats <- MCFloats
    Words = {"x", ""}
    Kinds = {"data"}
    Values <- MCValues
    Inputs <- MCInputs
CHECK_DEADLOCK FALSE
INVARIANTS
    SpacedAsPython
    FieldIsRead
    
    TextKept
    ArgumentDeclared
