SPECIFICATION Spec
CONSTANTS
    Senders = {s1, s2}
    Configs <- MCConfigs
    Sessions = {"one"}
    NoSession = ""
    Torn = "torn"
CHECK_DEADLOCK FALSE
INVARIANTS
    MessageSent
    StaticSent
    SessionSettled
