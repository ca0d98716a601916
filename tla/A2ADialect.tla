----------------------------- MODULE A2ADialect -----------------------------
(***************************************************************************)
(* The A2A connector of connector/a2a.go: which generation of the protocol *)
(* it speaks, and which task it continues, both learnt from the agent and  *)
(* kept under a.mu, while requests travel with the lock released.  Several *)
(* senders may be inside Send at once.                                     *)
(*                                                                         *)
(* The agent is external: it speaks a dialect or both, knows no other verb,*)
(* runs each payload it accepts in the task the request names or a new one,*)
(* and may answer with an error, or not at all.                            *)
(***************************************************************************)
EXTENDS Naturals, FiniteSets

CONSTANTS
    Senders,
    MaxSends,     \* bound: payloads sent
    Faults        \* what the agent and the network may do

(* infra: a request that is not executed: 401, 429, 5xx, 404, or never sent *)
(* error: a JSON-RPC error other than method not found                      *)
(* lost: an executed request whose reply is lost or unreadable              *)
(* message: a result that is a Message, not a Task                          *)
(* nullResult: an error envelope that carries "result": null                *)
FaultKinds == {"infra", "error", "lost", "message", "nullResult"}

ASSUME SendersAssumption == IsFiniteSet(Senders)
ASSUME BoundAssumption   == MaxSends \in Nat
ASSUME FaultsAssumption  == Faults \subseteq FaultKinds

Payloads == 1 .. MaxSends
Dialects == {"V03", "V02"}
NoTask   == 0
Tasks    == 1 .. 2 * MaxSends

VARIABLES
    dialect,      \* a.dialect
    taskID,       \* a.taskID: the task id minted here, for 0.2
    serverTaskID, \* a.serverTaskID: the task id the agent named, for 0.3
    pc,           \* where each Send is
    using,        \* the dialect of its exchange
    payload,      \* its payload
    request,      \* the request it composed
    reply,        \* the envelope it received
    outcome,      \* how each sender's last Send ended
    speaks,       \* the dialects of the agent: either, or both
    executed,     \* executed[p]: how often the agent ran payload p
    context,      \* the tasks in which the agent is known to have run payloads
    ids           \* how many task ids have been made up, here or there

connectorVars == <<dialect, taskID, serverTaskID>>
sendVars      == <<pc, using, payload, request, reply, outcome>>
agentVars     == <<speaks, executed, context>>
vars          == <<connectorVars, sendVars, agentVars, ids>>

NoReply == [kind |-> "none", task |-> NoTask]

Init ==
    /\ dialect = "auto"
    /\ taskID = NoTask
    /\ serverTaskID = NoTask
    /\ pc = [s \in Senders |-> "idle"]
    /\ using = [s \in Senders |-> "V03"]
    /\ payload = [s \in Senders |-> 0]
    /\ request = [s \in Senders |-> [verb |-> "V03", task |-> NoTask]]
    /\ reply = [s \in Senders |-> NoReply]
    /\ outcome = [s \in Senders |-> "none"]
    /\ speaks \in (SUBSET Dialects) \ {{}}
    /\ executed = [p \in Payloads |-> 0]
    /\ context = {}
    /\ ids = 0

Sent == Cardinality({p \in Payloads : \E s \in Senders : payload[s] >= p})

Goto(s, l) == pc' = [pc EXCEPT ![s] = l]

Return(s, o) ==
    /\ outcome' = [outcome EXCEPT ![s] = o]
    /\ Goto(s, "idle")

-----------------------------------------------------------------------------
\* Mutant of Send: the current dialect is pinned before it has worked.
SendPinsEarly(s) ==
    /\ pc[s] = "idle"
    /\ Sent < MaxSends
    /\ payload' = [payload EXCEPT ![s] = Sent + 1]
    /\ IF taskID = NoTask
       THEN ids' = ids + 1 /\ taskID' = ids'
       ELSE UNCHANGED <<ids, taskID>>
    /\ dialect' = IF dialect = "auto" THEN "V03" ELSE dialect
    /\ using' = [using EXCEPT ![s] = dialect']
    /\ outcome' = [outcome EXCEPT ![s] = "none"]
    /\ Goto(s, "compose")
    /\ UNCHANGED <<serverTaskID, request, reply, agentVars>>

\* Under a.mu: mint the task id once, and read the dialect.
Send(s) ==
    /\ pc[s] = "idle"
    /\ Sent < MaxSends
    /\ payload' = [payload EXCEPT ![s] = Sent + 1]
    /\ IF taskID = NoTask
       THEN ids' = ids + 1 /\ taskID' = ids'
       ELSE UNCHANGED <<ids, taskID>>
    /\ using' = [using EXCEPT ![s] = IF dialect = "auto" THEN "V03" ELSE dialect]
    /\ outcome' = [outcome EXCEPT ![s] = "none"]
    /\ Goto(s, "compose")
    /\ UNCHANGED <<dialect, serverTaskID, request, reply, agentVars>>

\* body, under a.mu: the task the request continues, if there is one.
Compose(s) ==
    /\ pc[s] = "compose"
    /\ request' = [request EXCEPT ![s] =
          [verb |-> using[s], task |-> IF using[s] = "V02" THEN taskID ELSE serverTaskID]]
    /\ Goto(s, "request")
    /\ UNCHANGED <<connectorVars, using, payload, reply, outcome, agentVars, ids>>

\* Mutant of IsResult: an error envelope reads as an answer.
IsAnything(r) == r.kind \in {"task", "message", "null", "error"}

\* send, on a reply that is no JSON-RPC envelope with a result: an error, and
\* the code of the JSON-RPC error if there is one.  On a result: remember the
\* task first, under a.mu; a Message's id is not one.  Any present result
\* counts, null included.
IsResult(r) == r.kind \in {"task", "message", "null"}

Remember(s) ==
    /\ pc[s] = "reply"
    /\ IsResult(reply[s])
    /\ serverTaskID' = IF serverTaskID = NoTask /\ reply[s].kind = "task"
                       THEN reply[s].task ELSE serverTaskID
    /\ Goto(s, "pin")
    /\ UNCHANGED <<dialect, taskID, using, payload, request, reply, outcome, agentVars, ids>>

\* Under a.mu: the dialect that worked is pinned, whatever is pinned by now.
Pin(s) ==
    /\ pc[s] = "pin"
    /\ dialect' = using[s]
    /\ Return(s, "reply")
    /\ UNCHANGED <<taskID, serverTaskID, using, payload, request, reply, agentVars, ids>>

\* Mutant of EarnsRetry: the dialect in use is compared, no longer a2aAuto.
EarnsRetryPinned(s) == dialect = "V03" /\ using[s] = "V03" /\ reply[s].kind = "methodNotFound"

\* Mutant of EarnsRetry: any failure earns the older dialect.
EarnsRetryAlways(s) == dialect = "auto" /\ ~IsResult(reply[s])

\* The dialect is read again under a.mu: unnegotiated, refused as an unknown
\* verb, and not yet retried is the one case that earns the older dialect.
EarnsRetry(s) ==
    /\ dialect = "auto"
    /\ using[s] = "V03"
    /\ reply[s].kind = "methodNotFound"

\* Mutant of FallBack: the second exchange is in the same dialect.
FallBackNowhere(s) ==
    /\ pc[s] = "reply"
    /\ EarnsRetry(s)
    /\ Goto(s, "compose")
    /\ UNCHANGED <<connectorVars, using, payload, request, reply, outcome, agentVars, ids>>

FallBack(s) ==
    /\ pc[s] = "reply"
    /\ EarnsRetry(s)
    /\ using' = [using EXCEPT ![s] = "V02"]
    /\ Goto(s, "compose")
    /\ UNCHANGED <<connectorVars, payload, request, reply, outcome, agentVars, ids>>

Fail(s) ==
    /\ pc[s] = "reply"
    /\ ~IsResult(reply[s])
    /\ ~EarnsRetry(s)
    /\ Return(s, reply[s].kind)
    /\ UNCHANGED <<connectorVars, using, payload, request, reply, agentVars, ids>>

-----------------------------------------------------------------------------
(* The agent and the network. *)

Answer(s, kind, task) ==
    /\ reply' = [reply EXCEPT ![s] = [kind |-> kind, task |-> task]]
    /\ Goto(s, "reply")

\* The verb is known: run the payload in the named task or in a new one, and
\* answer with it; or, outside any task, with a Message.
Execute(s) ==
    LET named == request[s].task # NoTask
        task  == IF named THEN request[s].task ELSE ids + 1 IN
    /\ pc[s] = "request"
    /\ request[s].verb \in speaks
    /\ executed' = [executed EXCEPT ![payload[s]] = @ + 1]
    /\ \/ /\ ids' = IF named THEN ids ELSE task
          /\ \/ Answer(s, "task", task) /\ context' = context \cup {task}
             \/ "lost" \in Faults /\ Answer(s, "lost", NoTask) /\ UNCHANGED context
       \/ /\ "message" \in Faults
          /\ Answer(s, "message", NoTask)
          /\ UNCHANGED <<context, ids>>
    /\ UNCHANGED <<connectorVars, using, payload, request, outcome, speaks>>

\* The verb is unknown: -32601.
Unknown(s) ==
    /\ pc[s] = "request"
    /\ request[s].verb \notin speaks
    /\ Answer(s, "methodNotFound", NoTask)
    /\ UNCHANGED <<connectorVars, using, payload, request, outcome, agentVars, ids>>

Refuse(s) ==
    /\ pc[s] = "request"
    /\ \/ "infra" \in Faults /\ Answer(s, "infra", NoTask)
       \/ "error" \in Faults /\ Answer(s, "error", NoTask)
       \/ "nullResult" \in Faults /\ Answer(s, "null", NoTask)
    /\ UNCHANGED <<connectorVars, using, payload, request, outcome, agentVars, ids>>

-----------------------------------------------------------------------------
SendStep(s) ==
    \/ Compose(s) \/ Remember(s) \/ Pin(s) \/ FallBack(s) \/ Fail(s)
    \/ Execute(s) \/ Unknown(s) \/ Refuse(s)

Next == \E s \in Senders : Send(s) \/ SendStep(s)

Spec == Init /\ [][Next]_vars

(* The HTTP client has a timeout, so a request gets an answer or an error.  *)
FairSpec == Spec /\ \A s \in Senders : WF_vars(SendStep(s))

-----------------------------------------------------------------------------
(* Properties. *)

TypeOK ==
    /\ dialect \in Dialects \cup {"auto"}
    /\ taskID \in Tasks \cup {NoTask}
    /\ serverTaskID \in Tasks \cup {NoTask}
    /\ pc \in [Senders -> {"idle", "compose", "request", "reply", "pin"}]
    /\ using \in [Senders -> Dialects]
    /\ payload \in [Senders -> 0 .. MaxSends]
    /\ request \in [Senders -> [verb : Dialects, task : Tasks \cup {NoTask}]]
    /\ reply \in [Senders -> [kind : {"none", "task", "message", "null", "methodNotFound",
                                     "error", "lost", "infra"},
                             task : Tasks \cup {NoTask}]]
    /\ outcome \in [Senders -> {"none", "reply", "methodNotFound", "error", "lost", "infra"}]
    /\ speaks \in (SUBSET Dialects) \ {{}}
    /\ executed \in [Payloads -> Nat]
    /\ context \subseteq Tasks
    /\ ids \in 0 .. 2 * MaxSends

\* Whatever order the answers of concurrent Sends come in, a dialect is only
\* ever pinned that the agent speaks.
PinnedIsSpoken == dialect \in {"auto"} \cup speaks

\* The agent runs a payload once at most per Send: falling back to the older
\* dialect never repeats one that was executed, lost replies included.
ExecutedOnce == \A p \in Payloads : executed[p] <= 1

\* Send keeps the contract of target.go; in particular a reply comes from an
\* agent that ran the payload: "an error envelope must not read as an agent that
\* answered".
Target == INSTANCE TargetContract WITH
    NoPayload <- 0,
    asking    <- [s \in Senders |-> IF pc[s] = "idle" THEN 0 ELSE payload[s]],
    reached   <- {p \in Payloads : executed[p] > 0},
    returned  <- [s \in Senders |-> IF outcome[s] \in {"none", "reply"} THEN outcome[s] ELSE "error"]

ImplementsTarget == Target!Spec

\* An agent that speaks either dialect is reached: no Send ends with the
\* agent not knowing the verb.
AgentReached == \A s \in Senders : outcome[s] # "methodNotFound"

\* Only one sender has used the connector: its Sends came one at a time.
Sequential == Cardinality({s \in Senders : payload[s] # 0}) <= 1

\* Sends that do not overlap always reach the agent, whatever was refused, lost
\* or failed on the way to a negotiated dialect; and "the whole conversation is
\* one task": it never answers in a second one, fallback and Messages included.
SequentialConversation == Sequential => AgentReached /\ Cardinality(context) <= 1

\* Every Send returns.
SendsReturn == \A s \in Senders : pc[s] # "idle" ~> pc[s] = "idle"
=============================================================================
