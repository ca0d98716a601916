SPECIFICATION Spec
CONSTANTS
    b1 = b1
    b2 = b2
    Browsers = {b1, b2}
    MaxSends = 3
    Worlds <- SomeWorlds
    Prefix = 1
    Heads <- PageHeads
    Footer <- PageFooter
CHECK_DEADLOCK FALSE
INVARIANTS
    WholeResponse
PROPERTIES
    NoPieceTwice
    PreparedBeforeTyping
