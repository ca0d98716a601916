SPECIFICATION Spec
CONSTANTS
    Senders = {s1, s2}
    MaxSends = 2
    NoMessage = 0
    Targets <- AnyTarget
    Hosts <- MCHosts
    Endpoint <- Apex
    Www <- MCWww
    Literal <- MCLiteral
    BlockedHosts <- MCBlocked
    Addrs = {"public", "internal"}
    BlockedNets = {"internal"}
    NoAddr = "none"
    MaxRedirects = 3
    Replies <- Responses
    NoReply = NoReply
    Drops = FALSE
CHECK_DEADLOCK FALSE
INVARIANTS
    OnlyPublic
    StaysOnSite
    AnswersAreReplies
PROPERTY
    ImplementsTarget
