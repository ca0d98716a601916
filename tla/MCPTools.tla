------------------------------ MODULE MCPTools ------------------------------
(***************************************************************************)
(* The MCP connector of connector/mcp.go: the cache of discovered tools,   *)
(* which every Send checks, may fill, and picks a tool from in critical    *)
(* sections of their own, and which any DiscoverTools replaces; and what   *)
(* becomes of the server's replies.  Of a list of tools only the first is  *)
(* ever used, so a list is its first tool, or NoTool.                      *)
(*                                                                         *)
(* The server is external: it exposes a tool or none, changes that at any  *)
(* time, and answers, refuses or fails a request.                          *)
(***************************************************************************)
EXTENDS Naturals, FiniteSets

CONSTANTS
    Senders,      \* who calls Send
    Listers,      \* who calls DiscoverTools itself
    Tools,
    NoTool,       \* an empty list
    MaxSends,     \* bound: payloads sent
    MaxLists,     \* bound: calls of DiscoverTools other than a Send's
    MaxDeploys,   \* bound: changes of what the server exposes
    Weathers      \* each a set of faults of the network and the server

(* infra: not an answer: 401, 429, 5xx, 404, malformed, or never sent       *)
(* unlisted: tools/list answered by an error envelope, or without a result  *)
(* bare: the server exposes no tool for a while                             *)
(* noResult: tools/call answered without a result and without an error      *)
FaultKinds == {"infra", "unlisted", "bare", "noResult"}

ASSUME CallersAssumption  == IsFiniteSet(Senders \cup Listers) /\ Senders \cap Listers = {}
ASSUME ToolsAssumption    == NoTool \notin Tools
ASSUME BoundsAssumption   == MaxSends \in Nat /\ MaxLists \in Nat /\ MaxDeploys \in Nat
ASSUME WeathersAssumption == \A w \in Weathers : w \subseteq FaultKinds

VARIABLES
    tools,        \* the first of m.tools
    pc,           \* where each Send or DiscoverTools is
    payload,      \* the payload of each Send; a DiscoverTools has 0
    tool,         \* the tool each Send calls
    reply,        \* the envelope each request came back with
    outcome,      \* how each sender's last call ended
    sends,        \* payloads sent so far
    lists,        \* calls of DiscoverTools so far
    exposes,      \* the first tool the server exposes now
    deploys,      \* how often that has changed
    ran,          \* ran[p]: the tools that ran payload p, or refused it
    emptied,      \* auxiliary: calls during which the cache was left empty
    weather       \* the faults of this behaviour: chosen at the start

callVars   == <<pc, payload, tool, reply, outcome>>
serverVars == <<exposes, deploys, ran>>
countVars  == <<sends, lists, weather>>
vars       == <<tools, callVars, serverVars, countVars, emptied>>

Payloads == 1 .. MaxSends
Callers  == Senders \cup Listers
NoReply  == [kind |-> "none", tool |-> NoTool]

Init ==
    /\ tools = NoTool
    /\ pc = [s \in Callers |-> "idle"]
    /\ payload = [s \in Callers |-> 0]
    /\ tool = [s \in Callers |-> NoTool]
    /\ reply = [s \in Callers |-> NoReply]
    /\ outcome = [s \in Callers |-> "none"]
    /\ sends = 0
    /\ lists = 0
    /\ exposes \in Tools
    /\ deploys = 0
    /\ ran = [p \in Payloads |-> {}]
    /\ emptied = {}
    /\ weather \in Weathers

Set(f, s, v) == [f EXCEPT ![s] = v]

Return(s, o) ==
    /\ outcome' = Set(outcome, s, o)
    /\ pc' = Set(pc, s, "idle")

-----------------------------------------------------------------------------
(* Send and DiscoverTools. *)

\* Mutant of Unknown: a connector that has listed once does not list again.
UnknownAtFirst == tools = NoTool /\ sends = 0

\* Under m.mu: does Send have to discover the tools first?
Unknown == tools = NoTool

Send(s) ==
    /\ pc[s] = "idle"
    /\ sends < MaxSends
    /\ sends' = sends + 1
    /\ payload' = Set(payload, s, sends')
    /\ outcome' = Set(outcome, s, "none")
    /\ emptied' = emptied \ {s}
    /\ pc' = Set(pc, s, IF Unknown THEN "list" ELSE "pick")
    /\ UNCHANGED <<tools, tool, reply, serverVars, lists, weather>>

DiscoverTools(s) ==
    /\ pc[s] = "idle"
    /\ lists < MaxLists
    /\ lists' = lists + 1
    /\ outcome' = Set(outcome, s, "none")
    /\ emptied' = emptied \ {s}
    /\ pc' = Set(pc, s, "list")
    /\ UNCHANGED <<tools, payload, tool, reply, serverVars, sends, weather>>

\* Mutant of IsAnswer: whatever a tools/call comes back with is an answer.
IsAnyCall(s) == pc[s] = "called" \/ reply[s].kind # "infra"

\* rpc: an error for what is not the server's answer, the envelope's result
\* for what is.  A JSON-RPC error is a result, and so is no result at all.
IsAnswer(s) == reply[s].kind # "infra"

RequestFails(s) ==
    /\ pc[s] \in {"listed", "called"}
    /\ ~IsAnswer(s)
    /\ Return(s, "error")
    /\ UNCHANGED <<tools, payload, tool, reply, serverVars, countVars, emptied>>

\* Mutant of Listed: the tools are returned and not cached.
ListedOnly(s) == tools

\* What a list of tools decodes to: nothing, if it is not one.
Listed(s) == IF reply[s].kind = "list" THEN reply[s].tool ELSE NoTool

\* Under m.mu: the cache is replaced, whatever has been stored meanwhile.
Store(s) ==
    /\ pc[s] = "listed"
    /\ IsAnswer(s)
    /\ tools' = Listed(s)
    /\ emptied' = IF tools' = NoTool THEN emptied \cup {r \in Callers : pc[r] # "idle"}
                                     ELSE emptied
    /\ IF payload[s] = 0 THEN Return(s, "tools")
                         ELSE pc' = Set(pc, s, "pick") /\ UNCHANGED outcome
    /\ UNCHANGED <<payload, tool, reply, serverVars, countVars>>

\* Under m.mu: the cache is looked at again, and its first tool picked.
Pick(s) ==
    /\ pc[s] = "pick"
    /\ tools # NoTool
    /\ tool' = Set(tool, s, tools)
    /\ pc' = Set(pc, s, "call")
    /\ UNCHANGED <<tools, payload, reply, outcome, serverVars, countVars, emptied>>

\* Mutant of NoTools: an empty cache is filled again.
NoToolsRetried(s) ==
    /\ pc[s] = "pick"
    /\ tools = NoTool
    /\ pc' = Set(pc, s, "list")
    /\ UNCHANGED <<tools, payload, tool, reply, outcome, serverVars, countVars, emptied>>

NoTools(s) ==
    /\ pc[s] = "pick"
    /\ tools = NoTool
    /\ Return(s, "noTools")
    /\ UNCHANGED <<tools, payload, tool, reply, serverVars, countVars, emptied>>

\* mcpText makes text of whatever the result is.
Receive(s) ==
    /\ pc[s] = "called"
    /\ IsAnswer(s)
    /\ Return(s, "reply")
    /\ UNCHANGED <<tools, payload, tool, reply, serverVars, countVars, emptied>>

-----------------------------------------------------------------------------
(* The server and the network. *)

Answer(s, l, kind, t) ==
    /\ reply' = Set(reply, s, [kind |-> kind, tool |-> t])
    /\ pc' = Set(pc, s, l)

List(s) ==
    /\ pc[s] = "list"
    /\ \/ Answer(s, "listed", "list", exposes)
       \/ "unlisted" \in weather /\ Answer(s, "listed", "error", NoTool)
       \/ "infra" \in weather /\ Answer(s, "listed", "infra", NoTool)
    /\ UNCHANGED <<tools, payload, tool, outcome, serverVars, countVars, emptied>>

\* A tool runs and answers, or refuses; a tool that is no longer exposed is
\* refused by the server; an answered request may still be lost on its way.
Call(s) ==
    /\ pc[s] = "call"
    /\ \/ /\ ran' = [ran EXCEPT ![payload[s]] = @ \cup {tool[s]}]
          /\ \/ tool[s] = exposes /\ Answer(s, "called", "content", NoTool)
             \/ Answer(s, "called", "error", NoTool)
             \/ "infra" \in weather /\ Answer(s, "called", "infra", NoTool)
       \/ /\ UNCHANGED ran
          /\ \/ "infra" \in weather /\ Answer(s, "called", "infra", NoTool)
             \/ "noResult" \in weather /\ Answer(s, "called", "noResult", NoTool)
    /\ UNCHANGED <<tools, payload, tool, outcome, exposes, deploys, countVars, emptied>>

Deploy ==
    /\ deploys < MaxDeploys
    /\ deploys' = deploys + 1
    /\ exposes' \in (IF "bare" \in weather THEN Tools \cup {NoTool} ELSE Tools) \ {exposes}
    /\ UNCHANGED <<tools, callVars, ran, countVars, emptied>>

-----------------------------------------------------------------------------
CallStep(s) ==
    \/ RequestFails(s) \/ Store(s) \/ Pick(s) \/ NoTools(s) \/ Receive(s)
    \/ List(s) \/ Call(s)

Next ==
    \/ \E s \in Senders : Send(s)
    \/ \E l \in Listers : DiscoverTools(l)
    \/ \E c \in Callers : CallStep(c)
    \/ Deploy

Spec == Init /\ [][Next]_vars

(* The HTTP client has a timeout, so a request gets an answer or an error.  *)
FairSpec == Spec /\ \A s \in Callers : WF_vars(CallStep(s))

-----------------------------------------------------------------------------
(* Properties. *)

TypeOK ==
    /\ tools \in Tools \cup {NoTool}
    /\ pc \in [Callers -> {"idle", "list", "listed", "pick", "call", "called"}]
    /\ payload \in [Callers -> 0 .. MaxSends]
    /\ tool \in [Callers -> Tools \cup {NoTool}]
    /\ \A s \in Callers : pc[s] \in {"call", "called"} => tool[s] # NoTool /\ payload[s] > 0
    /\ outcome \in [Callers -> {"none", "reply", "tools", "noTools", "error"}]
    /\ sends \in 0 .. MaxSends
    /\ lists \in 0 .. MaxLists
    /\ deploys \in 0 .. MaxDeploys
    /\ exposes \in Tools \cup {NoTool}
    /\ ran \in [Payloads -> SUBSET Tools]
    /\ emptied \subseteq Callers
    /\ weather \in Weathers

\* "The endpoint answered but exposes no tools" is news: a Send says so only
\* if a list without tools was stored while it was under way, by itself or by
\* a DiscoverTools beside it, and never because of an older one.
NoToolsIsNews == \A s \in Senders : outcome[s] = "noTools" => s \in emptied

\* ... and it is true of the server: one that always exposes a tool, and lists
\* it when asked, is never said to expose none, however discoveries overlap.
NoToolsIsTrue ==
    weather \cap {"bare", "unlisted"} = {} => \A s \in Senders : outcome[s] # "noTools"

\* "A target that answers, even to refuse, is a reply", and nothing else is: a
\* Send that returns text has reached a tool or the server's refusal of it,
\* and one that failed for lack of tools has reached none; nor is a tool called
\* that no list named, when the cache is emptied under a Send.  (A server that
\* leaves out the result and the error makes an empty reply, and is excepted.)
ReplyMeansReached ==
    "noResult" \notin weather => \A s \in Senders :
        /\ outcome[s] = "reply" => ran[payload[s]] # {}
        /\ outcome[s] = "noTools" => ran[payload[s]] = {}
        /\ pc[s] \in {"call", "called"} => tool[s] \in Tools

\* Send keeps the contract of target.go, unless a server leaves out both the
\* result and the error: a reply is returned for a payload that has reached a tool
\* or been refused, each payload once, and everything else ends in an error.
Target == INSTANCE TargetContract WITH
    NoPayload <- 0,
    asking    <- [s \in Senders |-> IF pc[s] = "idle" THEN 0 ELSE payload[s]],
    reached   <- {p \in Payloads : ran[p] # {}},
    returned  <- [s \in Senders |-> IF outcome[s] \in {"none", "reply"} THEN outcome[s] ELSE "error"]

ImplementsTarget == Target!Init /\ [][Target!Next \/ "noResult" \in weather]_(Target!vars)

\* Every call returns, however the cache is emptied under it.
CallsReturn == \A s \in Callers : pc[s] # "idle" ~> pc[s] = "idle"
=============================================================================
