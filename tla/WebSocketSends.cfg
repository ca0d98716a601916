SPECIFICATION FairSpec
CONSTANTS
    Conns = {c1, c2}
    NoConn = NoConn
    MaxSends = 3
    MaxProbes = 2
    Weathers = {{"dial", "denied", "drop", "slow"}, {"idleDrop"}}
CHECK_DEADLOCK FALSE
INVARIANTS
    OwnAnswer
    AtMostTwice
    NoSocketLeak
    DeniedIsFinal
    DropsBetweenTurnsUnseen
PROPERTIES
    SendsReturn
    ImplementsTarget
