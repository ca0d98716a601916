--------------------------- MODULE MCBrowserTabs ---------------------------
(* Small instances of BrowserTabs for TLC: three Browsers on one page, and  *)
(* two pages of which one is shared.                                        *)
EXTENDS BrowserTabs, TLC

CONSTANTS b1, b2, b3, k1, k2

OnePage  == [b \in Browsers |-> k1]
TwoPages == [b \in Browsers |-> IF b = b3 THEN k2 ELSE k1]

\* Tab identities are interchangeable.
TabSymmetry == Permutations(Tabs)
=============================================================================
