SPECIFICATION Spec
CONSTANTS
    Senders = {s1}
    MaxSends = 1
    NoMessage = 0
    Targets <- TellingTargets
    Hosts <- MCHosts
    Endpoint <- Apex
    Www <- MCWww
    Literal <- MCLiteral
    BlockedHosts = {}
    Addrs = {"public", "internal"}
    BlockedNets = {"internal"}
    NoAddr = "none"
    MaxRedirects = 2
    Replies <- Responses
    NoReply = NoReply
    Drops = TRUE
CHECK_DEADLOCK FALSE
INVARIANT
    ReplyMeansDelivered
