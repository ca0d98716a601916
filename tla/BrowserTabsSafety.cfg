SPECIFICATION FairSpec
CONSTANTS
    b1 = b1
    b2 = b2
    b3 = b3
    k1 = k1
    k2 = k2
    Browsers = {b1, b2}
    Keys = {k1}
    KeyOf <- OnePage
    Tabs = {t1, t2, t3}
    NoTab = NoTab
    NoBrowser = NoBrowser
    Faults = {"endpoint", "dial", "navigate", "exchange", "closeAll"}
INVARIANTS
    RefsExact
    HeldTabIsLive
    NoLitter
PROPERTIES
    LitterCleared
    CallsReturn
