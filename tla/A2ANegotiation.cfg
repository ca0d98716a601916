SPECIFICATION FairSpec
CONSTANTS
    Senders = {s1, s2}
    MaxSends = 4
    Faults = {"infra", "error", "lost", "message"}
CHECK_DEADLOCK FALSE
INVARIANTS
    SequentialConversation
    PinnedIsSpoken
    ExecutedOnce
PROPERTIES
    ImplementsTarget
    SendsReturn
