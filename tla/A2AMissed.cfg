SPECIFICATION Spec
CONSTANTS
    Senders = {s1, s2}
    MaxSends = 2
    Faults = {}
CHECK_DEADLOCK FALSE
INVARIANT
    AgentReached
