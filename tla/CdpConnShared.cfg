SPECIFICATION FairSpec
CONSTANTS
    Callers = {c1, c2}
    NoCaller = NoCaller
    MaxIDs = 3
    MaxInbox = 2
    Faults = {"event", "expire", "hangUp"}
CHECK_DEADLOCK FALSE
INVARIANTS
    OwnReply
    TimeoutIsOwn
PROPERTY
    CallsReturn
