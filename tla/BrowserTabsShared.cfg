SPECIFICATION Spec
CONSTANTS
    b1 = b1
    b2 = b2
    b3 = b3
    k1 = k1
    k2 = k2
    Browsers = {b1, b2, b3}
    Keys = {k1, k2}
    KeyOf <- TwoPages
    Tabs = {t1, t2, t3}
    NoTab = NoTab
    NoBrowser = NoBrowser
    Faults = {"dial", "setup", "navigate", "closeTarget", "closeAll"}
SYMMETRY TabSymmetry
PROPERTY
    ImplementsSharedPage
