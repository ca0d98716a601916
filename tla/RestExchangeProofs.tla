-------------------------- MODULE RestExchangeProofs --------------------------
(***************************************************************************)
(* Theorems about RestExchange and the GuardedClient it extends, for every *)
(* set of senders, hosts, www pairs, addresses and block lists, every cap  *)
(* on redirects and any number of Sends.                                   *)
(***************************************************************************)
EXTENDS RestExchange, TLAPS, Integers

-----------------------------------------------------------------------------
(* The inductive invariant.                                                *)

\* A request that may still go on is below the cap, and is never off the site.
HopInv(s) ==
    /\ at[s] \in {"none", "response", "failed"} => via[s] = 0
    /\ at[s] \in {"dial", "request", "validate"} => via[s] < MaxRedirects
    /\ via[s] <= MaxRedirects
    /\ host[s] \in Site
    /\ at[s] = "validate" => guarded /\ next[s] \in Site

\* No connection of the guarded client, in use or kept, is to an internal
\* address, and no hop it was redirected to has a blocked name.
PinInv ==
    guarded =>
        /\ \A h \in Hosts : idle[h] \notin BlockedNets
        /\ \A s \in Senders :
              /\ at[s] = "request" => addr[s] \notin BlockedNets
              /\ at[s] \in {"dial", "request"} /\ via[s] > 0 => host[s] \notin BlockedHosts \ DOMAIN Literal

ClientInv == ClientTypeOK /\ (\A s \in Senders : HopInv(s)) /\ PinInv

\* Who wrote a response, as far as the code can tell: the agent's are taken for
\* replies, and what is in front of it is taken for it only where it may pass.
Judged(r, own) ==
    /\ own => Verdict(r) = "reply"
    /\ Verdict(r) = "reply" => own \/ ~Telling

\* A response shows who wrote it, until Send has returned.
AnswerInv(s) ==
    /\ at[s] # "none" => outcome[s] = "none"
    /\ at[s] = "response" => reply[s] \in Responses /\ Judged(reply[s], spoke[s])
    /\ outcome[s] = "reply" => spoke[s] \/ ~Telling

\* Payloads are sent once each, by one sender at a time, and reach the agent
\* while they are being sent or after.
SentInv ==
    /\ delivered \subseteq 1 .. sends
    /\ \A s \in Senders : message[s] # NoMessage => message[s] \in 1 .. sends
    /\ \A r, s \in Senders : message[r] = message[s] /\ message[r] # NoMessage => r = s

\* Where redirects keep the body, what the agent answers it has got.
CarriedInv ==
    ~Drops => \A s \in Senders :
        /\ carries[s]
        /\ at[s] = "response" /\ spoke[s] => message[s] \in delivered

IInv == ClientInv /\ TypeOK /\ (\A s \in Senders : AnswerInv(s)) /\ SentInv /\ CarriedInv

-----------------------------------------------------------------------------
(* The site of the endpoint.                                               *)

\* The endpoint is on it.
LEMMA EndpointOnSite == Endpoint \in Site
BY HostsAssumption DEF Site

\* It is closed under the links between an apex and its www form.
LEMMA SiteClosed ==
    ASSUME NEW g \in Site, NEW h \in Hosts, Linked(g, h)
    PROVE  h \in Site
<1>1. SUFFICES ASSUME NEW S \in SUBSET Hosts, Endpoint \in S,
                      \A f \in S, k \in Hosts : Linked(f, k) => k \in S
               PROVE  h \in S
    BY DEF Site
<1>2. g \in S
    BY <1>1 DEF Site
<1>3. QED
    BY <1>1, <1>2

-----------------------------------------------------------------------------
(* The client keeps its invariant.                                         *)

\* Before the first request nothing is dialled and nothing is kept.
LEMMA ClientInitInv == ClientInit => ClientInv
BY HostsAssumption, AddrsAssumption, RedirectsAssumption, EndpointOnSite
   DEF ClientInit, ClientInv, ClientTypeOK, HopInv, PinInv

\* The end of a request, however it ended, leaves no hop behind.
LEMMA LeaveHopInv ==
    ASSUME ClientInv, NEW s \in Senders, LeaveHop(s), UNCHANGED guarded,
           NEW l \in {"response", "failed"}, Goto(s, l),
           reply' \in [Senders -> Replies \cup {NoReply}],
           idle' \in [Hosts -> Addrs \cup {NoAddr}],
           guarded => \A h \in Hosts : idle'[h] \notin BlockedNets
    PROVE  ClientInv'
<1>1. ClientTypeOK'
    BY HostsAssumption DEF ClientInv, ClientTypeOK, LeaveHop, Goto
<1>2. \A r \in Senders : HopInv(r)'
    BY RedirectsAssumption, EndpointOnSite DEF ClientInv, ClientTypeOK, HopInv, LeaveHop, Goto
<1>3. PinInv'
    BY DEF ClientInv, ClientTypeOK, PinInv, LeaveHop, Goto
<1>4. QED
    BY <1>1, <1>2, <1>3 DEF ClientInv

\* A request begins, or its result is taken.
LEMMA EndsInv ==
    ASSUME ClientInv, NEW s \in Senders, Do(s) \/ (Done(s) /\ at[s] \in {"response", "failed"})
    PROVE  ClientInv'
<1>1. ClientTypeOK'
    BY DEF ClientInv, ClientTypeOK, Do, Done, Goto, hopVars
<1>2. \A r \in Senders : HopInv(r)'
    BY RedirectsAssumption DEF ClientInv, ClientTypeOK, HopInv, Site, Linked, Do, Done, Goto, hopVars
<1>3. via[s] = 0 /\ UNCHANGED <<guarded, host, via, addr, idle>>
    BY DEF ClientInv, HopInv, Do, Done, hopVars
<1>4. \A r \in Senders : r # s => at'[r] = at[r]
    BY DEF ClientInv, ClientTypeOK, Do, Done, Goto
<1>5. at'[s] \in {"none", "dial"}
    BY DEF ClientInv, ClientTypeOK, Do, Done, Goto
<1>6. PinInv'
    BY <1>3, <1>4, <1>5 DEF ClientInv, PinInv
<1>7. QED
    BY <1>1, <1>2, <1>6 DEF ClientInv

\* A request that fails, wherever it is.
LEMMA FailInv ==
    ASSUME ClientInv, NEW s \in Senders, Fail(s)
    PROVE  ClientInv'
BY LeaveHopInv DEF Fail, ClientInv, ClientTypeOK, PinInv

\* A connection, dialled or kept: pinControl sees the address of the one, and
\* has seen that of the other.
LEMMA ConnectInv ==
    ASSUME ClientInv, NEW s \in Senders, Dial(s) \/ Reuse(s)
    PROVE  ClientInv'
<1>1. CASE Dial(s)
  <2>1. PICK A \in Resolutions(host[s]) : \E a \in Pinned(A) : addr' = [addr EXCEPT ![s] = a]
      BY <1>1 DEF Dial
  <2>2. PICK a \in Pinned(A) : addr' = [addr EXCEPT ![s] = a]
      BY <2>1
  <2>3. a \in Addrs /\ (guarded => a \notin BlockedNets)
      BY LiteralAssumption, <2>1, <2>2 DEF Resolutions, Pinned
  <2>4. ClientTypeOK'
      BY <1>1, <2>2, <2>3 DEF ClientInv, ClientTypeOK, Dial, Goto, hopVars
  <2>5. \A r \in Senders : HopInv(r)'
      BY <1>1 DEF ClientInv, ClientTypeOK, HopInv, Site, Linked, Dial, Goto, hopVars
  <2>6. PinInv'
      BY <1>1, <2>2, <2>3 DEF ClientInv, ClientTypeOK, PinInv, Dial, Goto, hopVars
  <2>7. QED
      BY <2>4, <2>5, <2>6 DEF ClientInv
<1>2. CASE Reuse(s)
  <2>1. host[s] \in Hosts
      BY DEF ClientInv, ClientTypeOK
  <2>2. ClientTypeOK'
      BY <1>2, <2>1 DEF ClientInv, ClientTypeOK, Reuse, Goto, hopVars
  <2>3. \A r \in Senders : HopInv(r)'
      BY <1>2 DEF ClientInv, ClientTypeOK, HopInv, Site, Linked, Reuse, Goto, hopVars
  <2>4. PinInv'
      BY <1>2, <2>1, AddrsAssumption DEF ClientInv, ClientTypeOK, PinInv, Reuse, Goto, hopVars
  <2>5. QED
      BY <2>2, <2>3, <2>4 DEF ClientInv
<1>3. QED
    BY <1>1, <1>2

\* A redirect is taken below the cap and to a linked host, and by the guarded
\* client only to a host that is looked at first.
LEMMA RedirectInv ==
    ASSUME ClientInv, NEW s \in Senders, Redirect(s) \/ Validate(s)
    PROVE  ClientInv'
<1>1. CASE Redirect(s)
  <2>1. via[s] < MaxRedirects /\ next[s] \in Site
      BY <1>1, SiteClosed DEF ClientInv, ClientTypeOK, HopInv, Redirect, CheckSameHostRedirect, SameSite
  <2>2. ClientTypeOK'
      BY <1>1 DEF ClientInv, ClientTypeOK, Redirect, Goto
  <2>3. \A r \in Senders : HopInv(r)'
      BY <1>1, <2>1 DEF ClientInv, ClientTypeOK, HopInv, Site, Linked, Redirect, Goto
  <2>4. PinInv'
      BY <1>1 DEF ClientInv, ClientTypeOK, PinInv, Redirect, Goto
  <2>5. QED
      BY <2>2, <2>3, <2>4 DEF ClientInv
<1>2. CASE Validate(s)
  <2>1. PICK A \in Resolutions(next[s]) : ValidatePublicURL(next[s], A)
      BY <1>2 DEF Validate
  <2>2. next[s] \notin BlockedHosts \ DOMAIN Literal
      BY <2>1 DEF ValidatePublicURL
  <2>3. ClientTypeOK'
      BY <1>2 DEF ClientInv, ClientTypeOK, Validate, Goto
  <2>4. \A r \in Senders : HopInv(r)'
      BY <1>2 DEF ClientInv, ClientTypeOK, HopInv, Site, Linked, Validate, Goto
  <2>5. PinInv'
      BY <1>2, <2>2 DEF ClientInv, ClientTypeOK, PinInv, Validate, Goto
  <2>6. QED
      BY <2>3, <2>4, <2>5 DEF ClientInv
<1>3. QED
    BY <1>1, <1>2

\* A response, whoever writes it, ends the request; a redirect counts it.
LEMMA RespondInv ==
    ASSUME ClientInv, NEW s \in Senders,
           AnswerRedirect(s) \/ \E r \in Responses : Answer(s, r)
    PROVE  ClientInv'
<1>1. host[s] \in Hosts /\ (guarded /\ at[s] = "request" => addr[s] \notin BlockedNets)
    BY DEF ClientInv, ClientTypeOK, PinInv
<1>2. CASE \E r \in Responses : Answer(s, r)
  <2>1. PICK r \in Responses : Answer(s, r)
      BY <1>2
  <2>2. r \in Replies
      BY ResponsesAssumption
  <2>3. reply' \in [Senders -> Replies \cup {NoReply}] /\ idle' \in [Hosts -> Addrs \cup {NoAddr}]
      BY <1>1, <2>1, <2>2 DEF ClientInv, ClientTypeOK, Answer, Keep
  <2>4. guarded => \A h \in Hosts : idle'[h] \notin BlockedNets
      BY <1>1, <2>1 DEF ClientInv, ClientTypeOK, PinInv, Answer, Keep
  <2>5. QED
      BY <2>1, <2>3, <2>4, LeaveHopInv DEF Answer
<1>3. CASE AnswerRedirect(s)
  <2>1. PICK h \in Hosts : next' = [next EXCEPT ![s] = h]
      BY <1>3 DEF AnswerRedirect
  <2>2. carries' \in [Senders -> BOOLEAN]
    <3>1. PICK keeps \in BOOLEAN : carries' = [carries EXCEPT ![s] = @ /\ keeps]
        BY <1>3, DropsAssumption DEF AnswerRedirect
    <3>2. QED
        BY <3>1 DEF ClientInv, ClientTypeOK
  <2>3. ClientTypeOK'
      BY <1>1, <1>3, <2>1, <2>2 DEF ClientInv, ClientTypeOK, AnswerRedirect, Goto, Keep
  <2>4. \A r \in Senders : HopInv(r)'
      BY <1>3, RedirectsAssumption DEF ClientInv, ClientTypeOK, HopInv, Site, Linked, AnswerRedirect, Goto
  <2>5. PinInv'
      BY <1>1, <1>3 DEF ClientInv, ClientTypeOK, PinInv, AnswerRedirect, Goto, Keep
  <2>6. QED
      BY <2>3, <2>4, <2>5 DEF ClientInv
<1>4. QED
    BY <1>2, <1>3

\* A kept connection is closed.
LEMMA CloseIdleInv ==
    ASSUME ClientInv, NEW h \in Hosts, CloseIdle(h)
    PROVE  ClientInv'
<1>1. ClientTypeOK'
    BY DEF ClientInv, ClientTypeOK, CloseIdle, hopVars
<1>2. \A r \in Senders : HopInv(r)'
    BY DEF ClientInv, ClientTypeOK, HopInv, Site, Linked, CloseIdle, hopVars
<1>3. PinInv'
    BY AddrsAssumption DEF ClientInv, ClientTypeOK, PinInv, CloseIdle, hopVars
<1>4. QED
    BY <1>1, <1>2, <1>3 DEF ClientInv

-----------------------------------------------------------------------------
(* A Send keeps the rest.                                                  *)

\* A configuration that stays judges as it did.
LEMMA JudgedKept ==
    ASSUME UNCHANGED <<named, front>>
    PROVE  \A r, own : Judged(r, own)' <=> Judged(r, own)
BY DEF Judged, Verdict, Telling

\* The payload of a Send under way is one of those sent.
LEMMA UnderWay ==
    ASSUME IInv, NEW s \in Senders, at[s] # "none"
    PROVE  message[s] \in 1 .. sends /\ message[s] \in Payloads /\ message[s] # NoMessage
BY BoundAssumption DEF IInv, TypeOK, SentInv, Payloads

\* Between the start of a request and its end, the client moves one request, and
\* leaves its response alone.
LEMMA HopStep ==
    ASSUME IInv, NEW s \in Senders, ClientStep(s) \/ AnswerRedirect(s) \/ Lose(s)
    PROVE  /\ ClientInv'
           /\ at[s] \notin {"none", "response"} /\ at'[s] \notin {"none", "response"}
           /\ \A r \in Senders : r # s => at'[r] = at[r]
           /\ ~Drops => \A r \in Senders : carries'[r]
           /\ UNCHANGED reply
<1>1. ClientInv /\ ClientTypeOK /\ CarriedInv
    BY DEF IInv, ClientInv
<1>2. CASE Dial(s) \/ Reuse(s)
    BY <1>1, <1>2, ConnectInv DEF ClientTypeOK, CarriedInv, Dial, Reuse, Goto, hopVars
<1>3. CASE Redirect(s) \/ Validate(s)
    BY <1>1, <1>3, RedirectInv DEF ClientTypeOK, CarriedInv, Redirect, Validate, Goto
<1>4. CASE DialFails(s) \/ RefuseRedirect(s) \/ RefuseHop(s) \/ Lose(s)
  <2>1. Fail(s) /\ at[s] \notin {"none", "response"}
      BY <1>4 DEF DialFails, RefuseRedirect, RefuseHop, Lose
  <2>2. QED
      BY <1>1, <2>1, FailInv DEF ClientTypeOK, CarriedInv, Fail, LeaveHop, Goto
<1>5. CASE AnswerRedirect(s)
  <2>1. PICK keeps \in IF Drops THEN BOOLEAN ELSE {TRUE} :
            carries' = [carries EXCEPT ![s] = @ /\ keeps]
      BY <1>5 DEF AnswerRedirect
  <2>2. ~Drops => \A r \in Senders : carries'[r]
      BY <1>1, <2>1 DEF ClientTypeOK, CarriedInv
  <2>3. QED
      BY <1>1, <1>5, <2>2, RespondInv DEF ClientTypeOK, AnswerRedirect, Goto
<1>6. QED
    BY <1>2, <1>3, <1>4, <1>5 DEF ClientStep

\* Such a step, in which the agent may get the payload, keeps the invariant.
LEMMA HopStepInv ==
    ASSUME IInv, NEW s \in Senders, ClientStep(s) \/ AnswerRedirect(s) \/ Lose(s),
           UNCHANGED <<restVars, spoke>>,
           delivered' = delivered \/ delivered' = delivered \cup {message[s]}
    PROVE  IInv'
<1>1. ClientInv'
    BY HopStep
<1>2. /\ at[s] \notin {"none", "response"} /\ at'[s] \notin {"none", "response"}
      /\ \A r \in Senders : r # s => at'[r] = at[r]
      /\ ~Drops => \A r \in Senders : carries'[r]
      /\ UNCHANGED <<reply, named, front, message, sends, outcome, spoke>>
    BY HopStep DEF restVars
<1>3. message[s] \in 1 .. sends /\ message[s] \in Payloads
    BY <1>2, UnderWay
<1>4. TypeOK'
    BY <1>1, <1>2, <1>3 DEF IInv, ClientInv, TypeOK
<1>5. \A r \in Senders : AnswerInv(r)'
  <2>1. SUFFICES ASSUME NEW r \in Senders
                 PROVE  AnswerInv(r)'
      OBVIOUS
  <2>2. at[r] # "none" => outcome[r] = "none"
      BY DEF IInv, AnswerInv
  <2>3. outcome'[r] = outcome[r] /\ spoke'[r] = spoke[r] /\ reply'[r] = reply[r]
      BY <1>2
  <2>4. Telling' <=> Telling
      BY <1>2 DEF Telling
  <2>5. CASE r = s
      BY <1>2, <2>2, <2>3, <2>5 DEF AnswerInv
  <2>6. CASE r # s
    <3>1. at'[r] = at[r] /\ AnswerInv(r)
        BY <1>2, <2>6 DEF IInv
    <3>2. Judged(reply[r], spoke[r]) <=> Judged(reply[r], spoke[r])'
        BY <2>3, <2>4, JudgedKept, <1>2
    <3>3. QED
        BY <2>3, <2>4, <3>1, <3>2 DEF AnswerInv
  <2>7. QED
      BY <2>5, <2>6
<1>6. SentInv'
    BY <1>2, <1>3 DEF IInv, SentInv
<1>7. CarriedInv'
    BY <1>2 DEF IInv, CarriedInv
<1>8. QED
    BY <1>1, <1>4, <1>5, <1>6, <1>7 DEF IInv

\* A payload not sent before is sent.
LEMMA SendInv ==
    ASSUME IInv, NEW s \in Senders, Send(s)
    PROVE  IInv'
<1>1. ClientInv'
    BY EndsInv DEF IInv, Send
<1>2. /\ at[s] = "none" /\ at' = [at EXCEPT ![s] = "dial"]
      /\ sends' = sends + 1 /\ message' = [message EXCEPT ![s] = sends + 1]
      /\ outcome' = [outcome EXCEPT ![s] = "none"]
      /\ UNCHANGED <<named, front, delivered, spoke, reply, carries>>
    BY DEF Send, Do, Goto, hopVars, agentVars
<1>3. at \in [Senders -> {"none", "dial", "request", "redirect", "validate", "response", "failed"}]
    BY DEF IInv, ClientInv, ClientTypeOK
<1>4. sends \in Nat /\ sends + 1 \in Payloads /\ sends' \in 0 .. MaxSends
    BY <1>2, BoundAssumption DEF IInv, TypeOK, Send, Payloads
<1>5. sends + 1 # NoMessage
    BY <1>4, BoundAssumption DEF Payloads
<1>6. TypeOK'
    BY <1>1, <1>2, <1>3, <1>4, <1>5 DEF IInv, ClientInv, TypeOK
<1>7. \A r \in Senders : AnswerInv(r)'
    BY <1>2, <1>3, JudgedKept DEF IInv, TypeOK, AnswerInv, Telling
<1>8. SentInv'
    BY <1>2, <1>4 DEF IInv, TypeOK, SentInv
<1>9. CarriedInv'
    BY <1>2, <1>3 DEF IInv, TypeOK, CarriedInv
<1>10. QED
    BY <1>1, <1>6, <1>7, <1>8, <1>9 DEF IInv

\* A verdict is one of three.
LEMMA VerdictTyped ==
    ASSUME NEW r \in Responses, named \in BOOLEAN
    PROVE  Verdict(r) \in {"reply", "error", "auth"}
BY DEF Verdict, Responses

\* The configuration of a target is one of those there are.
LEMMA Configured ==
    ASSUME TypeOK
    PROVE  named \in BOOLEAN /\ front \subseteq {"refuses", "pages"}
BY TargetsAssumption DEF TypeOK

\* Who answers is judged as it may be.
LEMMA AnswersJudge ==
    ASSUME TypeOK, NEW r \in Responses
    PROVE  /\ FromAgent(r) => Judged(r, TRUE)
           /\ FromOther(r) => Judged(r, FALSE)
<1>1. named \in BOOLEAN
    BY Configured
<1>2. FromAgent(r) => Judged(r, TRUE)
    BY <1>1 DEF Judged, Verdict, Responses, FromAgent
<1>3. ASSUME FromOther(r), Telling
      PROVE  Verdict(r) # "reply"
    BY <1>1, <1>3 DEF Verdict, Responses, Telling, FromOther
<1>4. QED
    BY <1>2, <1>3 DEF Judged

\* Send returns the verdict on a response, or the failure of the request.
LEMMA ReturnInv ==
    ASSUME IInv, NEW s \in Senders, Receive(s) \/ SendFails(s)
    PROVE  IInv'
<1>1. PICK o : /\ Return(s, o)
               /\ \/ at[s] = "response" /\ o = Verdict(reply[s])
                  \/ at[s] = "failed" /\ o = "error"
  <2>1. CASE Receive(s)
      BY <2>1 DEF Receive
  <2>2. CASE SendFails(s)
      BY <2>2 DEF SendFails
  <2>3. QED
      BY <2>1, <2>2
<1>2. ClientInv'
    BY <1>1, EndsInv DEF IInv, Return
<1>3. o \in {"reply", "error", "auth"}
    BY <1>1, VerdictTyped, Configured DEF IInv, AnswerInv
<1>4. o = "reply" => spoke[s] \/ ~Telling
    BY <1>1 DEF IInv, AnswerInv, Judged
<1>5. /\ at' = [at EXCEPT ![s] = "none"] /\ reply' = [reply EXCEPT ![s] = NoReply]
      /\ outcome' = [outcome EXCEPT ![s] = o] /\ message' = [message EXCEPT ![s] = NoMessage]
      /\ UNCHANGED <<named, front, sends, delivered, spoke, carries>>
    BY <1>1 DEF Return, Done, Goto, hopVars, agentVars
<1>6. at \in [Senders -> {"none", "dial", "request", "redirect", "validate", "response", "failed"}]
      /\ reply \in [Senders -> Replies \cup {NoReply}]
    BY DEF IInv, ClientInv, ClientTypeOK
<1>7. TypeOK'
    BY <1>2, <1>3, <1>5, <1>6 DEF IInv, ClientInv, TypeOK
<1>8. \A r \in Senders : AnswerInv(r)'
    BY <1>4, <1>5, <1>6, JudgedKept DEF IInv, TypeOK, AnswerInv, Telling
<1>9. SentInv'
    BY <1>5 DEF IInv, TypeOK, SentInv
<1>10. CarriedInv'
    BY <1>5, <1>6 DEF IInv, TypeOK, CarriedInv
<1>11. QED
    BY <1>2, <1>7, <1>8, <1>9, <1>10 DEF IInv

\* A response comes, and with it is settled whose it is.
LEMMA AnswersInv ==
    ASSUME IInv, NEW s \in Senders, AgentAnswers(s) \/ OtherAnswers(s)
    PROVE  IInv' /\ at[s] = "request"
<1>1. PICK r \in Responses, b \in BOOLEAN :
          /\ Answer(s, r) /\ spoke' = [spoke EXCEPT ![s] = b]
          /\ Judged(r, b)
          /\ delivered' = delivered \/ delivered' = delivered \cup {message[s]}
          /\ b /\ carries[s] => delivered' = delivered \cup {message[s]}
          /\ UNCHANGED restVars
  <2>1. CASE AgentAnswers(s)
    <3>1. PICK r \in Responses : Answer(s, r) /\ Judged(r, TRUE)
        BY <2>1, AnswersJudge DEF IInv, AgentAnswers
    <3>2. QED
        BY <2>1, <3>1 DEF AgentAnswers
  <2>2. CASE OtherAnswers(s)
    <3>1. PICK r \in Responses : Answer(s, r) /\ Judged(r, FALSE)
        BY <2>2, AnswersJudge DEF IInv, OtherAnswers
    <3>2. delivered' = delivered \/ delivered' = delivered \cup {message[s]}
        BY <2>2 DEF OtherAnswers
    <3>3. spoke' = [spoke EXCEPT ![s] = FALSE] /\ UNCHANGED restVars
        BY <2>2 DEF OtherAnswers
    <3>4. QED
        BY <3>1, <3>2, <3>3
  <2>3. QED
      BY <2>1, <2>2
<1>2. ClientInv'
    BY <1>1, RespondInv DEF IInv
<1>3. /\ at[s] = "request" /\ at' = [at EXCEPT ![s] = "response"]
      /\ reply' = [reply EXCEPT ![s] = r] /\ carries' = [carries EXCEPT ![s] = TRUE]
      /\ UNCHANGED <<named, front, message, sends, outcome>>
    BY <1>1 DEF Answer, Goto, LeaveHop, restVars
<1>4. message[s] \in 1 .. sends /\ message[s] \in Payloads
    BY <1>3, UnderWay
<1>5. at \in [Senders -> {"none", "dial", "request", "redirect", "validate", "response", "failed"}]
      /\ reply \in [Senders -> Replies \cup {NoReply}] /\ carries \in [Senders -> BOOLEAN]
    BY DEF IInv, ClientInv, ClientTypeOK
<1>6. TypeOK'
    BY <1>1, <1>2, <1>3, <1>4, <1>5 DEF IInv, ClientInv, TypeOK
<1>7. \A q \in Senders : AnswerInv(q)'
  <2>1. SUFFICES ASSUME NEW q \in Senders PROVE AnswerInv(q)'
      OBVIOUS
  <2>2. CASE q = s
    <3>1. reply'[q] = r /\ spoke'[q] = b /\ outcome'[q] = "none"
        BY <1>1, <1>3, <1>5, <2>2 DEF IInv, TypeOK, AnswerInv
    <3>2. QED
        BY <1>1, <1>3, <3>1, JudgedKept DEF AnswerInv
  <2>3. CASE q # s
    <3>1. reply'[q] = reply[q] /\ spoke'[q] = spoke[q] /\ at'[q] = at[q]
        BY <1>1, <1>3, <1>5, <2>3 DEF IInv, TypeOK
    <3>2. QED
        BY <1>3, <3>1, JudgedKept DEF IInv, AnswerInv, Telling
  <2>4. QED
      BY <2>2, <2>3
<1>8. SentInv'
    BY <1>1, <1>3, <1>4 DEF IInv, SentInv
<1>9. CarriedInv'
    BY <1>1, <1>3, <1>5 DEF IInv, TypeOK, CarriedInv
<1>10. QED
    BY <1>2, <1>3, <1>6, <1>7, <1>8, <1>9 DEF IInv

\* A kept connection that is closed is nobody's request.
LEMMA CloseInv ==
    ASSUME IInv, NEW h \in Hosts, CloseIdle(h), UNCHANGED <<restVars, agentVars>>
    PROVE  IInv'
<1>1. ClientInv'
    BY CloseIdleInv DEF IInv
<1>2. UNCHANGED <<at, reply, carries, named, front, message, sends, outcome, delivered, spoke>>
    BY DEF CloseIdle, hopVars, restVars, agentVars
<1>3. TypeOK'
    BY <1>1, <1>2 DEF IInv, ClientInv, TypeOK
<1>4. (\A r \in Senders : AnswerInv(r)') /\ SentInv' /\ CarriedInv'
    BY <1>2, JudgedKept DEF IInv, AnswerInv, Telling, SentInv, CarriedInv
<1>5. QED
    BY <1>1, <1>3, <1>4 DEF IInv

-----------------------------------------------------------------------------
(* The theorems.                                                           *)

\* The invariant holds of the client and the server that RestExchange models.
THEOREM Invariance == Spec => []IInv
<1>1. Init => IInv
  <2>1. SUFFICES ASSUME Init PROVE IInv
      OBVIOUS
  <2>2. ClientInv
      BY <2>1, ClientInitInv DEF Init
  <2>3. TypeOK
      BY <2>1, <2>2, BoundAssumption DEF Init, ClientInit, ClientInv, TypeOK
  <2>4. \A s \in Senders : AnswerInv(s)
      BY <2>1 DEF Init, ClientInit, AnswerInv
  <2>5. SentInv /\ CarriedInv
      BY <2>1 DEF Init, ClientInit, SentInv, CarriedInv
  <2>6. QED
      BY <2>2, <2>3, <2>4, <2>5 DEF IInv
<1>2. IInv /\ [Next]_vars => IInv'
  <2>1. SUFFICES ASSUME IInv, [Next]_vars PROVE IInv'
      OBVIOUS
  <2>2. ASSUME NEW s \in Senders, Send(s) PROVE IInv'
      BY <2>1, <2>2, SendInv
  <2>3. ASSUME NEW s \in Senders, SendStep(s) PROVE IInv'
    <3>1. CASE ClientStep(s) /\ UNCHANGED <<restVars, agentVars>>
        BY <2>1, <3>1, HopStepInv DEF agentVars
    <3>2. CASE Lost(s)
        BY <2>1, <3>2, HopStepInv DEF Lost
    <3>3. CASE Receive(s) \/ SendFails(s)
        BY <2>1, <3>3, ReturnInv
    <3>4. QED
        BY <2>3, <3>1, <3>2, <3>3 DEF SendStep
  <2>4. ASSUME NEW s \in Senders, ServerStep(s) PROVE IInv'
    <3>1. CASE AnswerRedirect(s) /\ UNCHANGED <<restVars, agentVars>>
        BY <2>1, <3>1, HopStepInv DEF agentVars
    <3>2. CASE AgentAnswers(s) \/ OtherAnswers(s)
        BY <2>1, <3>2, AnswersInv
    <3>3. QED
        BY <2>4, <3>1, <3>2 DEF ServerStep
  <2>5. ASSUME NEW h \in Hosts, CloseIdle(h) /\ UNCHANGED <<restVars, agentVars>> PROVE IInv'
      BY <2>1, <2>5, CloseInv
  <2>6. CASE UNCHANGED vars
    <3>1. UNCHANGED <<guarded, at, host, next, via, carries, addr, reply, idle,
                      named, front, message, sends, outcome, delivered, spoke>>
        BY <2>6 DEF vars, clientVars, hopVars, restVars, agentVars
    <3>2. ClientInv'
        BY <2>1, <3>1 DEF IInv, ClientInv, ClientTypeOK, HopInv, Site, Linked, PinInv
    <3>3. TypeOK'
        BY <2>1, <3>1, <3>2 DEF IInv, ClientInv, TypeOK
    <3>4. (\A s \in Senders : AnswerInv(s)') /\ SentInv' /\ CarriedInv'
        BY <2>1, <3>1, JudgedKept DEF IInv, AnswerInv, Telling, SentInv, CarriedInv
    <3>5. QED
        BY <3>2, <3>3, <3>4 DEF IInv
  <2>7. QED
      BY <2>1, <2>2, <2>3, <2>4, <2>5, <2>6 DEF Next
<1>3. QED
    BY <1>1, <1>2, PTL DEF Spec

\* Every variable keeps its type, and a sender has a payload under way exactly
\* while it has a request.
THEOREM TypeCorrect == Spec => []TypeOK
<1>1. IInv => TypeOK
    BY DEF IInv
<1>2. QED
    BY <1>1, Invariance, PTL

\* The guarded client is never connected to an internal address and never
\* redirected to a blocked name, whatever DNS answers and when, and however
\* often a connection is kept.
THEOREM PublicOnly == Spec => []OnlyPublic
<1>1. IInv => OnlyPublic
    BY DEF IInv, ClientInv, PinInv, OnlyPublic
<1>2. QED
    BY <1>1, Invariance, PTL

\* No chain of redirects leads off the endpoint's site, and none is longer than
\* the cap, with either client and any number of hosts.
THEOREM OnSite == Spec => []StaysOnSite
<1>1. IInv => StaysOnSite
    BY DEF IInv, ClientInv, HopInv, StaysOnSite
<1>2. QED
    BY <1>1, Invariance, PTL

\* What is returned as a reply the agent wrote, unless what is in front of it
\* refuses as an agent would, or serves a page where no field is named; what the
\* agent wrote is returned.
THEOREM AnswersJudged == Spec => []AnswersAreReplies
<1>1. IInv => AnswersAreReplies
    BY DEF IInv, AnswerInv, Judged, AnswersAreReplies
<1>2. QED
    BY <1>1, Invariance, PTL

\* Where no redirect drops a request's body, and nothing in front of the agent
\* can pass for it, REST.Send keeps the contract of target.go: a payload reaches
\* the agent only while it is sent, and a reply answers a payload it has got.
THEOREM Refinement ==
    ASSUME ~Drops
    PROVE  Spec => ImplementsTarget
<1> DEFINE R(o) == [s \in Senders |-> IF o[s] = "auth" THEN "error" ELSE o[s]]
<1>1. Init => Target!Init
    BY DEF Init, Target!Init
<1>2. IInv /\ [Next]_vars => [Target!Next \/ ~Telling]_(Target!vars)
  <2>1. SUFFICES ASSUME IInv, Telling, [Next]_vars PROVE [Target!Next]_(Target!vars)
      OBVIOUS
  <2>2. TypeOK
      BY <2>1 DEF IInv
  <2>3. ASSUME UNCHANGED <<message, delivered, outcome>> PROVE UNCHANGED Target!vars
      BY <2>3 DEF Target!vars
  <2>4. ASSUME NEW s \in Senders, Send(s) PROVE Target!Ask(s)
    <3>1. /\ message[s] = NoMessage /\ message' = [message EXCEPT ![s] = sends + 1]
          /\ outcome' = [outcome EXCEPT ![s] = "none"] /\ UNCHANGED delivered
        BY <2>4 DEF Send, agentVars
    <3>2. sends + 1 \in Payloads \ delivered /\ \A r \in Senders : message[r] # sends + 1
        BY <2>1, <2>2, <2>4, BoundAssumption DEF IInv, TypeOK, SentInv, Send, Payloads
    <3>3. R(outcome)' = [R(outcome) EXCEPT ![s] = "none"]
        BY <2>2, <3>1 DEF TypeOK
    <3>4. QED
        BY <3>1, <3>2, <3>3 DEF Target!Ask
  <2>5. ASSUME NEW s \in Senders, at[s] # "none", UNCHANGED restVars,
               delivered' = delivered \/ delivered' = delivered \cup {message[s]}
        PROVE  Target!Reach(s) \/ UNCHANGED Target!vars
      BY <2>1, <2>3, <2>5, UnderWay DEF Target!Reach, restVars
  <2>6. ASSUME NEW s \in Senders, Receive(s) \/ SendFails(s) PROVE Target!Reply(s) \/ Target!Fail(s)
    <3>1. PICK o : /\ Return(s, o) /\ at[s] # "none" /\ o \in {"reply", "error", "auth"}
                   /\ o = "reply" => message[s] \in delivered
      <4>1. CASE Receive(s)
        <5>1. Return(s, Verdict(reply[s])) /\ at[s] = "response"
            BY <4>1 DEF Receive
        <5>2. Verdict(reply[s]) \in {"reply", "error", "auth"}
              /\ (Verdict(reply[s]) = "reply" => message[s] \in delivered)
            BY <2>1, <2>2, <5>1, VerdictTyped, Configured DEF IInv, AnswerInv, Judged, CarriedInv
        <5>3. QED
            BY <5>1, <5>2
      <4>2. CASE SendFails(s)
          BY <4>2 DEF SendFails
      <4>3. QED
          BY <2>6, <4>1, <4>2
    <3>2. /\ message[s] # NoMessage /\ message' = [message EXCEPT ![s] = NoMessage]
          /\ outcome' = [outcome EXCEPT ![s] = o] /\ UNCHANGED delivered
        BY <2>1, <3>1, UnderWay DEF Return, agentVars
    <3>3. R(outcome)' = [R(outcome) EXCEPT ![s] = IF o = "auth" THEN "error" ELSE o]
        BY <2>2, <3>2 DEF TypeOK
    <3>4. CASE o = "reply"
        BY <3>1, <3>2, <3>3, <3>4 DEF Target!Reply, Target!Return
    <3>5. CASE o # "reply"
        BY <3>1, <3>2, <3>3, <3>5 DEF Target!Fail, Target!Return
    <3>6. QED
        BY <3>4, <3>5
  <2>7. ASSUME NEW s \in Senders, SendStep(s) PROVE Target!Next \/ UNCHANGED Target!vars
    <3>1. CASE ClientStep(s) /\ UNCHANGED <<restVars, agentVars>>
        BY <2>3, <3>1 DEF restVars, agentVars
    <3>2. CASE Lost(s)
      <4>1. at[s] # "none" /\ UNCHANGED restVars
            /\ (delivered' = delivered \/ delivered' = delivered \cup {message[s]})
          BY <3>2 DEF Lost, Lose
      <4>2. QED
          BY <2>5, <4>1 DEF Target!Next
    <3>3. CASE Receive(s) \/ SendFails(s)
        BY <2>6, <3>3 DEF Target!Next
    <3>4. QED
        BY <2>7, <3>1, <3>2, <3>3 DEF SendStep
  <2>8. ASSUME NEW s \in Senders, ServerStep(s) PROVE Target!Next \/ UNCHANGED Target!vars
    <3>1. CASE AnswerRedirect(s) /\ UNCHANGED <<restVars, agentVars>>
        BY <2>3, <3>1 DEF restVars, agentVars
    <3>2. CASE AgentAnswers(s) \/ OtherAnswers(s)
      <4>1. at[s] # "none" /\ UNCHANGED restVars
          BY <2>1, <3>2, AnswersInv DEF AgentAnswers, OtherAnswers
      <4>2. delivered' = delivered \/ delivered' = delivered \cup {message[s]}
          BY <3>2 DEF AgentAnswers, OtherAnswers
      <4>3. QED
          BY <2>5, <4>1, <4>2 DEF Target!Next
    <3>3. QED
        BY <2>8, <3>1, <3>2 DEF ServerStep
  <2>9. ASSUME NEW h \in Hosts, CloseIdle(h) /\ UNCHANGED <<restVars, agentVars>>
        PROVE  UNCHANGED Target!vars
      BY <2>3, <2>9 DEF restVars, agentVars
  <2>10. CASE UNCHANGED vars
      BY <2>3, <2>10 DEF vars, restVars, agentVars
  <2>11. QED
      BY <2>1, <2>4, <2>7, <2>8, <2>9, <2>10 DEF Next, Target!Next
<1>3. QED
    BY <1>1, <1>2, Invariance, PTL DEF Spec, ImplementsTarget
================================================================================
