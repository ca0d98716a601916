SPECIFICATION FairSpec
CONSTANTS
    Senders = {s1, s2}
    Listers = {l1}
    Tools = {t1, t2}
    NoTool = NoTool
    MaxSends = 2
    MaxLists = 1
    MaxDeploys = 1
    Weathers = {{"infra"}, {"infra", "bare", "unlisted"}, {"noResult", "unlisted"}}
CHECK_DEADLOCK FALSE
INVARIANTS
    NoToolsIsNews
    NoToolsIsTrue
PROPERTIES
    CallsReturn
    ImplementsTarget
