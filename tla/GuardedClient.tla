---------------------------- MODULE GuardedClient ----------------------------
(***************************************************************************)
(* The HTTP client behind the REST, MCP and A2A connectors: net/http as it *)
(* is configured in ssrf/client.go and connector/dial.go.  A request goes  *)
(* from hop to hop; each hop is dialled, after a resolution of its own or  *)
(* on a connection that was kept, and each redirect is checked before the  *)
(* next.  DNS may answer differently at every look, so a resolution is any *)
(* set of addresses.                                                       *)
(*                                                                         *)
(* The connectors start a request with Do, and end it with Done when they  *)
(* have what it came to: a response, or a failure.                         *)
(***************************************************************************)
EXTENDS Naturals, FiniteSets

CONSTANTS
    Senders,       \* who uses the client; each has one request at a time
    Hosts,         \* names, and addresses spelled out
    Endpoint,      \* the host of the configured endpoint
    Www,           \* the pairs <<apex, its www form>>
    Literal,       \* Literal[h]: the address that h spells, if it spells one
    BlockedHosts,  \* names refused whatever they resolve to
    Addrs,
    BlockedNets,   \* the addresses that are internal
    NoAddr,
    MaxRedirects,  \* the number of requests a Send may take: 10 in the code
    Replies,       \* what a server may send besides a redirect
    NoReply,
    Drops          \* may a redirect be one that drops the body: 301, 302, 303?

ASSUME SendersAssumption   == IsFiniteSet(Senders)
ASSUME HostsAssumption     == Endpoint \in Hosts /\ Www \subseteq Hosts \X Hosts
ASSUME LiteralAssumption   == DOMAIN Literal \subseteq Hosts /\ \A h \in DOMAIN Literal : Literal[h] \in Addrs
ASSUME AddrsAssumption     == BlockedNets \subseteq Addrs /\ NoAddr \notin Addrs
ASSUME RedirectsAssumption == MaxRedirects \in Nat \ {0}
ASSUME RepliesAssumption   == NoReply \notin Replies
ASSUME DropsAssumption     == Drops \in BOOLEAN

VARIABLES
    guarded,       \* is it GuardedClient, or PrivateTargetClient?
    at,            \* where each request is
    host,          \* the host of its current hop
    next,          \* the host a redirect points to
    via,           \* how many requests it has taken so far
    carries,       \* does it still carry the payload?
    addr,          \* the address it is connected to
    reply,         \* the response it ended in
    idle           \* idle[h]: the address of the connection kept for h

hopVars    == <<host, next, via, carries>>
clientVars == <<guarded, at, hopVars, addr, reply, idle>>

ClientInit ==
    /\ guarded \in BOOLEAN
    /\ at = [s \in Senders |-> "none"]
    /\ host = [s \in Senders |-> Endpoint]
    /\ next = [s \in Senders |-> Endpoint]
    /\ via = [s \in Senders |-> 0]
    /\ carries = [s \in Senders |-> TRUE]
    /\ addr = [s \in Senders |-> NoAddr]
    /\ reply = [s \in Senders |-> NoReply]
    /\ idle = [h \in Hosts |-> NoAddr]

Goto(s, l) == at' = [at EXCEPT ![s] = l]

\* What the resolver may answer about a host.
Resolutions(h) == IF h \in DOMAIN Literal THEN {{Literal[h]}} ELSE SUBSET Addrs

-----------------------------------------------------------------------------
(* The start of a request, and its connection. *)

Do(s) ==
    /\ at[s] = "none"
    /\ Goto(s, "dial")
    /\ UNCHANGED <<guarded, hopVars, addr, reply, idle>>

\* The request is over: nothing of its hops is left.
LeaveHop(s) ==
    /\ host' = [host EXCEPT ![s] = Endpoint]
    /\ next' = [next EXCEPT ![s] = Endpoint]
    /\ via' = [via EXCEPT ![s] = 0]
    /\ carries' = [carries EXCEPT ![s] = TRUE]
    /\ addr' = [addr EXCEPT ![s] = NoAddr]

Done(s) ==
    /\ Goto(s, "none")
    /\ reply' = [reply EXCEPT ![s] = NoReply]
    /\ UNCHANGED <<guarded, hopVars, addr, idle>>

Fail(s) ==
    /\ Goto(s, "failed")
    /\ LeaveHop(s)
    /\ UNCHANGED <<guarded, reply, idle>>

\* Mutant of Pinned: the dialer trusts the resolution.
PinnedNot(A) == A

\* The addresses a dialer tries: pinControl refuses an internal one, whatever
\* name led to it; the private client has no pinControl.
Pinned(A) == IF guarded THEN A \ BlockedNets ELSE A

Dial(s) ==
    /\ at[s] = "dial"
    /\ \E A \in Resolutions(host[s]) : \E a \in Pinned(A) : addr' = [addr EXCEPT ![s] = a]
    /\ Goto(s, "request")
    /\ UNCHANGED <<guarded, hopVars, reply, idle>>

\* No address, none that may be dialled, or none that answers in time.
DialFails(s) == at[s] = "dial" /\ Fail(s)

\* A kept connection is used without a look at DNS or at the address.
Reuse(s) ==
    /\ at[s] = "dial"
    /\ idle[host[s]] # NoAddr
    /\ addr' = [addr EXCEPT ![s] = idle[host[s]]]
    /\ idle' = [idle EXCEPT ![host[s]] = NoAddr]
    /\ Goto(s, "request")
    /\ UNCHANGED <<guarded, hopVars, reply>>

-----------------------------------------------------------------------------
(* Redirects. *)

Linked(g, h) == g = h \/ <<g, h>> \in Www \/ <<h, g>> \in Www

\* Mutant of SameSite: the rule of the previous hop is not applied.
SameSiteAny(g, h) == g \in Hosts /\ h \in Hosts

SameSite(g, h) == Linked(g, h)

\* Both clients: the cap that replaces net/http's own, then the site.
CheckSameHostRedirect(s) == via[s] < MaxRedirects /\ SameSite(host[s], next[s])

\* The guarded client asks DNS about a hop only after that; the private one
\* goes there at once.
Redirect(s) ==
    /\ at[s] = "redirect"
    /\ CheckSameHostRedirect(s)
    /\ IF guarded THEN Goto(s, "validate") /\ UNCHANGED host
                  ELSE Goto(s, "dial") /\ host' = [host EXCEPT ![s] = next[s]]
    /\ UNCHANGED <<guarded, next, via, carries, addr, reply, idle>>

RefuseRedirect(s) == at[s] = "redirect" /\ ~CheckSameHostRedirect(s) /\ Fail(s)

\* ValidatePublicURL of h, to which DNS answers A.
ValidatePublicURL(h, A) ==
    /\ h \notin DOMAIN Literal => h \notin BlockedHosts /\ A # {}
    /\ A \cap BlockedNets = {}

Validate(s) ==
    /\ at[s] = "validate"
    /\ \E A \in Resolutions(next[s]) : ValidatePublicURL(next[s], A)
    /\ Goto(s, "dial")
    /\ host' = [host EXCEPT ![s] = next[s]]
    /\ UNCHANGED <<guarded, next, via, carries, addr, reply, idle>>

RefuseHop(s) ==
    /\ at[s] = "validate"
    /\ \E A \in Resolutions(next[s]) : ~ValidatePublicURL(next[s], A)
    /\ Fail(s)

-----------------------------------------------------------------------------
(* The server and the network.  A response leaves a connection to keep,     *)
(* until either side closes it; a redirect that turns a POST into a GET     *)
(* drops the payload for good.                                              *)

Keep(s) == idle' = [idle EXCEPT ![host[s]] = addr[s]]

CloseIdle(h) ==
    /\ idle[h] # NoAddr
    /\ idle' = [idle EXCEPT ![h] = NoAddr]
    /\ UNCHANGED <<guarded, at, hopVars, addr, reply>>

Answer(s, r) ==
    /\ at[s] = "request"
    /\ reply' = [reply EXCEPT ![s] = r]
    /\ Goto(s, "response")
    /\ Keep(s)
    /\ LeaveHop(s)
    /\ UNCHANGED guarded

AnswerRedirect(s) ==
    /\ at[s] = "request"
    /\ via' = [via EXCEPT ![s] = @ + 1]
    /\ \E h \in Hosts : next' = [next EXCEPT ![s] = h]
    /\ \E keeps \in IF Drops THEN BOOLEAN ELSE {TRUE} :
          carries' = [carries EXCEPT ![s] = @ /\ keeps]
    /\ Goto(s, "redirect")
    /\ Keep(s)
    /\ UNCHANGED <<guarded, host, addr, reply>>

\* The response is lost, or the client's timeout ends the wait for it.
Lose(s) == at[s] = "request" /\ Fail(s)

ClientStep(s) ==
    \/ Dial(s) \/ DialFails(s) \/ Reuse(s)
    \/ Redirect(s) \/ RefuseRedirect(s) \/ Validate(s) \/ RefuseHop(s)

-----------------------------------------------------------------------------
(* Properties. *)

ClientTypeOK ==
    /\ guarded \in BOOLEAN
    /\ at \in [Senders -> {"none", "dial", "request", "redirect", "validate", "response", "failed"}]
    /\ host \in [Senders -> Hosts]
    /\ next \in [Senders -> Hosts]
    /\ via \in [Senders -> Nat]
    /\ carries \in [Senders -> BOOLEAN]
    /\ addr \in [Senders -> Addrs \cup {NoAddr}]
    /\ reply \in [Senders -> Replies \cup {NoReply}]
    /\ idle \in [Hosts -> Addrs \cup {NoAddr}]

\* The guarded client never has a request on a connection to an internal
\* address - not when DNS has changed since the look, not behind a redirect, not
\* on a connection that was kept - and no redirect takes it to a blocked name.
OnlyPublic ==
    guarded => \A s \in Senders :
        /\ at[s] = "request" => addr[s] \notin BlockedNets
        /\ at[s] \in {"dial", "request"} /\ via[s] > 0 => host[s] \notin BlockedHosts \ DOMAIN Literal

\* The hosts of the endpoint's site: what www steps from it lead to.
Site ==
    {h \in Hosts : \A S \in SUBSET Hosts :
        Endpoint \in S /\ (\A f \in S, g \in Hosts : Linked(f, g) => g \in S) => h \in S}

\* Wherever redirects lead, with either client: what a request carries stays
\* on the endpoint's site, no name outside it is looked up, and a target that
\* redirects for ever is given up on - "without this line a redirect loop is
\* unbounded".
StaysOnSite ==
    \A s \in Senders :
        /\ host[s] \in Site
        /\ at[s] = "validate" => next[s] \in Site
        /\ via[s] <= MaxRedirects
=============================================================================
