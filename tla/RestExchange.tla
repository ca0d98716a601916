---------------------------- MODULE RestExchange ----------------------------
(***************************************************************************)
(* REST.Send of connector/rest.go over the client it was built with: one   *)
(* request, and the decision whether what came back is the agent's answer. *)
(* A Send keeps no state but the client's; several run at once.            *)
(*                                                                         *)
(* Who writes a response is external: the agent, or something in front of  *)
(* it - a gateway, a login page, a server without an agent.  The code sees *)
(* the status and the body only, so what is in front of an agent may pass  *)
(* for it: it refuses a request as an agent would, or serves a page of its *)
(* own where no field says which shape an answer has.                      *)
(***************************************************************************)
EXTENDS GuardedClient

CONSTANTS
    MaxSends,      \* bound: payloads sent
    NoMessage,
    Targets        \* the targets an instance is about: <<named, front>>

ASSUME BoundAssumption   == MaxSends \in Nat /\ NoMessage \notin 1 .. MaxSends
ASSUME TargetsAssumption == Targets \subseteq BOOLEAN \X SUBSET {"refuses", "pages"}

Payloads == 1 .. MaxSends

VARIABLES
    named,         \* ResponseMapping.MessageField is configured
    front,         \* what may be in front of the agent: it "refuses", serves "pages"
    message,       \* message[s]: the payload that s sends
    sends,         \* how many have been sent
    delivered,     \* the payloads the agent has got
    spoke,         \* spoke[s]: was the last response of s the agent's?
    outcome        \* how each sender's last Send ended

restVars  == <<named, front, message, sends, outcome>>
agentVars == <<delivered, spoke>>
vars      == <<clientVars, restVars, agentVars>>

\* A body is JSON with the named field (whose value may be empty), another JSON
\* object, or anything else.  Behind a failure it is the misleading one.
Responses ==
    [status : {200}, body : {"field", "object", "text"}]
    \cup [status : {400, 401, 403, 404, 405, 413, 422, 429, 502}, body : {"field"}]

ASSUME ResponsesAssumption == Responses \subseteq Replies

Init ==
    /\ ClientInit
    /\ named \in BOOLEAN /\ front \in SUBSET {"refuses", "pages"}
    /\ <<named, front>> \in Targets
    /\ message = [s \in Senders |-> NoMessage]
    /\ sends = 0
    /\ delivered = {}
    /\ spoke = [s \in Senders |-> FALSE]
    /\ outcome = [s \in Senders |-> "none"]

Send(s) ==
    /\ message[s] = NoMessage
    /\ sends < MaxSends
    /\ Do(s)
    /\ sends' = sends + 1
    /\ message' = [message EXCEPT ![s] = sends']
    /\ outcome' = [outcome EXCEPT ![s] = "none"]
    /\ UNCHANGED <<named, front, agentVars>>

Return(s, o) ==
    /\ Done(s)
    /\ outcome' = [outcome EXCEPT ![s] = o]
    /\ message' = [message EXCEPT ![s] = NoMessage]
    /\ UNCHANGED <<named, front, sends, agentVars>>

SendFails(s) == at[s] = "failed" /\ Return(s, "error")

\* Mutant of Verdict: a missing field reads as an empty answer.
VerdictEmpty(r) ==
    CASE r.status \in {401, 403}     -> "auth"
      [] r.status >= 500             -> "error"
      [] r.status \in {429, 404, 405} -> "error"
      [] r.status >= 400             -> "reply"
      [] OTHER                       -> IF named /\ r.body = "text" THEN "error" ELSE "reply"

\* Mutant of Verdict: any status but an authentication failure is an answer.
VerdictAny(r) == IF r.status \in {401, 403} THEN "auth" ELSE "reply"

\* The early returns: what is wrong with the credential, the server, the rate
\* or the path is an error; any other refusal is the agent's; and an answer has
\* the shape that was declared.
Verdict(r) ==
    CASE r.status \in {401, 403} -> "auth"
      [] r.status >= 500         -> "error"
      [] r.status = 429          -> "error"
      [] r.status \in {404, 405} -> "error"
      [] r.status \in 400 .. 499 \ {401, 403, 404, 405, 429} -> "reply"
      [] r.status < 400          -> IF named /\ r.body # "field" THEN "error" ELSE "reply"

Receive(s) == at[s] = "response" /\ Return(s, Verdict(reply[s]))

-----------------------------------------------------------------------------
(* The agent and what is in front of it. *)

\* The agent answers in the shape that was declared, or refuses a payload.
FromAgent(r) ==
    r.status \in {400, 422} \/ (r.status = 200 /\ (named => r.body = "field"))

\* Anything else refuses the caller or the request, or serves a page, which has
\* not the shape that was declared, where one was.
FromOther(r) ==
    \/ r.status \in {401, 403, 404, 405, 429, 502}
    \/ r.status \in {400, 413} /\ "refuses" \in front
    \/ r.status = 200 /\ "pages" \in front /\ (named => r.body # "field")

\* The agent answers what it got.  A GET it serves as well, but the payload is
\* not in it.
AgentAnswers(s) ==
    /\ \E r \in Responses : FromAgent(r) /\ Answer(s, r)
    /\ delivered' = IF carries[s] THEN delivered \cup {message[s]} ELSE delivered
    /\ spoke' = [spoke EXCEPT ![s] = TRUE]
    /\ UNCHANGED restVars

\* Anything else answers for the agent, which may have got the payload before.
OtherAnswers(s) ==
    /\ \E r \in Responses : FromOther(r) /\ Answer(s, r)
    /\ delivered' \in {delivered} \cup (IF carries[s] THEN {delivered \cup {message[s]}} ELSE {})
    /\ spoke' = [spoke EXCEPT ![s] = FALSE]
    /\ UNCHANGED restVars

\* The agent may have got a payload that was never answered.
Lost(s) ==
    /\ Lose(s)
    /\ delivered' \in {delivered} \cup (IF carries[s] THEN {delivered \cup {message[s]}} ELSE {})
    /\ UNCHANGED <<restVars, spoke>>

-----------------------------------------------------------------------------
SendStep(s) ==
    \/ ClientStep(s) /\ UNCHANGED <<restVars, agentVars>>
    \/ Lost(s) \/ Receive(s) \/ SendFails(s)

ServerStep(s) ==
    \/ AnswerRedirect(s) /\ UNCHANGED <<restVars, agentVars>>
    \/ AgentAnswers(s) \/ OtherAnswers(s)

Next ==
    \/ \E s \in Senders : Send(s) \/ SendStep(s) \/ ServerStep(s)
    \/ \E h \in Hosts : CloseIdle(h) /\ UNCHANGED <<restVars, agentVars>>

Spec == Init /\ [][Next]_vars

-----------------------------------------------------------------------------
(* Properties. *)

TypeOK ==
    /\ ClientTypeOK
    /\ <<named, front>> \in Targets
    /\ message \in [Senders -> Payloads \cup {NoMessage}]
    /\ sends \in 0 .. MaxSends
    /\ delivered \subseteq Payloads
    /\ spoke \in [Senders -> BOOLEAN]
    /\ outcome \in [Senders -> {"none", "reply", "error", "auth"}]
    /\ \A s \in Senders : message[s] = NoMessage <=> at[s] = "none"

\* Nothing in front of the agent can pass for it.
Telling == "refuses" \notin front /\ ("pages" \in front => named)

\* What Send returns as a reply was written by the agent, unless what is in
\* front of it may pass for it; what the agent wrote is returned in any case:
\* no refusal of its own is lost as a failure.
AnswersAreReplies ==
    \A s \in Senders :
        /\ outcome[s] = "reply" => spoke[s] \/ ~Telling
        /\ at[s] = "response" /\ spoke[s] => Verdict(reply[s]) = "reply"

\* "Only auth rejections (401/403) are errors; everything else is captured as
\* text and scored."  It does not hold (README, section 4).
OnlyAuthIsError ==
    [][\A s \in Senders :
          at[s] = "response" /\ at'[s] = "none" /\ reply[s].status \notin {401, 403}
          => outcome'[s] = "reply"]_vars

\* "Send delivers one message to the agent and returns its reply": what is
\* returned as a reply answers a message the agent has got.
ReplyMeansDelivered ==
    \A s \in Senders :
        at[s] = "response" /\ Verdict(reply[s]) = "reply" => message[s] \in delivered

\* Send keeps the contract of target.go, unless something in front of the agent
\* can pass for it.
Target == INSTANCE TargetContract WITH
    NoPayload <- NoMessage,
    asking    <- message,
    reached   <- delivered,
    returned  <- [s \in Senders |-> IF outcome[s] = "auth" THEN "error" ELSE outcome[s]]

ImplementsTarget == Target!Init /\ [][Target!Next \/ ~Telling]_(Target!vars)
=============================================================================
