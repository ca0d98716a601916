---------------------------- MODULE MCPToolsProofs ----------------------------
(***************************************************************************)
(* Theorems about MCPTools, for all finite sets of senders and listers,    *)
(* any tools, any number of Sends, discoveries and deployments, and any    *)
(* faults.                                                                 *)
(***************************************************************************)
EXTENDS MCPTools, TLAPS

-----------------------------------------------------------------------------
(* The inductive invariant.                                                *)

\* Where a call is says what its reply is, and who makes it what it sends.
Shape ==
    /\ reply \in [Callers -> [kind : {"none", "list", "content", "error", "infra", "noResult"},
                             tool : Tools \cup {NoTool}]]
    /\ \A s \in Callers :
          /\ pc[s] = "listed" => reply[s].kind \in {"list", "error", "infra"}
          /\ pc[s] = "called" => reply[s].kind \in {"content", "error", "infra", "noResult"}
          /\ pc[s] = "pick" => payload[s] > 0
          /\ pc[s] # "idle" => outcome[s] = "none"
          /\ s \in Listers => payload[s] = 0
          /\ s \notin Listers /\ pc[s] # "idle" => payload[s] > 0

\* A Send that is about to find no tool was under way when the last was lost.
News ==
    \A s \in Callers : outcome[s] = "noTools" \/ (pc[s] = "pick" /\ tools = NoTool) => s \in emptied

\* A server that always exposes and lists a tool never empties the cache.
Honest ==
    weather \cap {"bare", "unlisted"} = {} =>
        /\ exposes # NoTool
        /\ \A s \in Callers :
              /\ pc[s] = "listed" => reply[s].kind # "error" /\ (reply[s].kind = "list" => reply[s].tool # NoTool)
              /\ pc[s] = "pick" => tools # NoTool
              /\ outcome[s] # "noTools"

\* Payloads are sent once each, and reach a tool between pick and reply.
Reached ==
    /\ \A p \in Payloads : p > sends => ran[p] = {}
    /\ \A s \in Callers : payload[s] <= sends
    /\ \A r, s \in Callers : payload[r] = payload[s] /\ payload[r] > 0 => r = s
    /\ \A s \in Callers :
          /\ pc[s] \in {"list", "listed", "pick", "call"} /\ payload[s] > 0 => ran[payload[s]] = {}
          /\ pc[s] = "called" /\ reply[s].kind \in {"content", "error"} => ran[payload[s]] # {}
          /\ pc[s] = "called" /\ reply[s].kind = "noResult" => "noResult" \in weather
          /\ outcome[s] \in {"reply", "noTools"} => payload[s] > 0
          /\ outcome[s] = "noTools" => ran[payload[s]] = {}
          /\ outcome[s] = "reply" /\ "noResult" \notin weather => ran[payload[s]] # {}

IInv == TypeOK /\ Shape /\ News /\ Honest /\ Reached

-----------------------------------------------------------------------------
\* Who calls does one thing.
LEMMA Roles ==
    Senders \subseteq Callers /\ Listers \subseteq Callers /\ \A s \in Senders, l \in Listers : s # l
BY CallersAssumption DEF Callers

\* The counters are numbers.
LEMMA Counted ==
    ASSUME TypeOK
    PROVE  sends \in Nat /\ MaxSends \in Nat /\ \A s \in Callers : payload[s] \in Nat
<1>1. MaxSends \in Nat
    BY BoundsAssumption
<1>2. sends \in 0 .. MaxSends /\ payload \in [Callers -> 0 .. MaxSends]
    BY DEF TypeOK
<1>3. QED
    BY <1>1, <1>2

-----------------------------------------------------------------------------
(* Each action keeps the invariant.                                        *)

\* A Send begins, with a payload not sent before.
LEMMA SendInv ==
    ASSUME IInv, NEW s \in Senders, Send(s)
    PROVE  IInv'
<1> s \in Callers
    BY Roles
<1>1. /\ sends' = sends + 1 /\ sends' \in Payloads /\ sends' > 0 /\ sends' > sends
      /\ sends' \in 0 .. MaxSends
  <2>1. sends < MaxSends /\ sends' = sends + 1
      BY DEF Send
  <2>2. QED
      BY <2>1, Counted DEF IInv, Payloads
<1>2. /\ payload' = [payload EXCEPT ![s] = sends'] /\ outcome' = [outcome EXCEPT ![s] = "none"]
      /\ pc[s] = "idle" /\ emptied' = emptied \ {s}
      /\ \/ tools = NoTool /\ pc' = [pc EXCEPT ![s] = "list"]
         \/ tools # NoTool /\ pc' = [pc EXCEPT ![s] = "pick"]
      /\ UNCHANGED <<tools, tool, reply, exposes, deploys, ran, lists, weather>>
    BY DEF Send, Set, Unknown, serverVars
<1>3. TypeOK'
    BY <1>1, <1>2 DEF IInv, TypeOK
<1>4. Shape'
    BY <1>1, <1>2, Roles DEF IInv, TypeOK, Shape
<1>5. News'
    BY DEF IInv, TypeOK, News, Send, Set, Unknown
<1>6. Honest'
    BY DEF IInv, Honest, Send, Set, Unknown, serverVars
<1>7. Reached'
  <2>1. \A r \in Callers : payload[r] # sends'
      BY <1>1, Counted DEF IInv, Reached
  <2>2. ran[sends'] = {}
      BY <1>1 DEF IInv, Reached
  <2>3. \A r \in Callers : payload'[r] = IF r = s THEN sends' ELSE payload[r]
      BY <1>2 DEF IInv, TypeOK
  <2>4. \A r \in Callers : r # s => pc'[r] = pc[r] /\ outcome'[r] = outcome[r]
      BY <1>2 DEF IInv, TypeOK
  <2>5. pc'[s] \in {"list", "pick"} /\ outcome'[s] = "none"
      BY <1>2 DEF IInv, TypeOK
  <2>6. \A p \in Payloads : p > sends' => ran'[p] = {}
      BY <1>1, <1>2, Counted DEF IInv, Reached
  <2>7. \A r \in Callers : payload'[r] <= sends'
      BY <1>1, <2>3, Counted DEF IInv, Reached
  <2>8. \A q, r \in Callers : payload'[q] = payload'[r] /\ payload'[q] > 0 => q = r
      BY <2>1, <2>3 DEF IInv, Reached
  <2>9. UNCHANGED <<ran, reply, weather>>
      BY <1>2
  <2>10. ASSUME NEW r \in Callers
         PROVE  /\ pc'[r] \in {"list", "listed", "pick", "call"} /\ payload'[r] > 0 => ran[payload'[r]] = {}
                /\ pc'[r] = "called" /\ reply[r].kind \in {"content", "error"} => ran[payload'[r]] # {}
                /\ pc'[r] = "called" /\ reply[r].kind = "noResult" => "noResult" \in weather
                /\ outcome'[r] \in {"reply", "noTools"} => payload'[r] > 0
                /\ outcome'[r] = "noTools" => ran[payload'[r]] = {}
                /\ outcome'[r] = "reply" /\ "noResult" \notin weather => ran[payload'[r]] # {}
    <3>1. CASE r = s
        BY <2>2, <2>3, <2>5, <3>1
    <3>2. CASE r # s
        BY <2>3, <2>4, <3>2 DEF IInv, Reached
    <3>3. QED
        BY <3>1, <3>2
  <2>11. QED
      BY <2>6, <2>7, <2>8, <2>9, <2>10 DEF Reached
<1>8. QED
    BY <1>3, <1>4, <1>5, <1>6, <1>7 DEF IInv

\* A discovery of its own begins.
LEMMA DiscoverInv ==
    ASSUME IInv, NEW s \in Listers, DiscoverTools(s)
    PROVE  IInv'
<1> s \in Callers
    BY Roles
<1>1. TypeOK'
    BY BoundsAssumption DEF IInv, TypeOK, DiscoverTools, Set, serverVars
<1>2. Shape'
    BY Roles DEF IInv, TypeOK, Shape, DiscoverTools, Set
<1>3. News'
    BY DEF IInv, TypeOK, News, DiscoverTools, Set
<1>4. Honest'
    BY DEF IInv, Honest, DiscoverTools, Set, serverVars
<1>5. Reached'
  <2>1. \A r \in Callers : r # s => pc'[r] = pc[r] /\ outcome'[r] = outcome[r]
      BY DEF DiscoverTools, Set
  <2>2. pc'[s] = "list" /\ outcome'[s] = "none" /\ payload[s] = 0
      BY DEF IInv, TypeOK, Shape, DiscoverTools, Set
  <2>3. UNCHANGED <<sends, ran, payload, reply, weather>>
      BY DEF DiscoverTools, serverVars
  <2>4. QED
      BY <2>1, <2>2, <2>3, Counted DEF IInv, Reached
<1>6. QED
    BY <1>1, <1>2, <1>3, <1>4, <1>5 DEF IInv

\* A request that failed ends its call.
LEMMA FailsInv ==
    ASSUME IInv, NEW s \in Callers, RequestFails(s)
    PROVE  IInv'
<1>1. TypeOK'
    BY DEF IInv, TypeOK, RequestFails, Return, Set, serverVars, countVars
<1>2. Shape'
    BY DEF IInv, TypeOK, Shape, RequestFails, Return, Set
<1>3. News'
    BY DEF IInv, News, RequestFails, Return, Set
<1>4. Honest'
    BY DEF IInv, Honest, RequestFails, Return, Set, serverVars, countVars
<1>5. Reached'
    BY DEF IInv, TypeOK, Reached, RequestFails, Return, Set, serverVars, countVars
<1>6. QED
    BY <1>1, <1>2, <1>3, <1>4, <1>5 DEF IInv

\* The cache is replaced under whoever is about to pick.
LEMMA StoreInv ==
    ASSUME IInv, NEW s \in Callers, Store(s)
    PROVE  IInv'
<1>1. TypeOK'
  <2>1. tools' \in Tools \cup {NoTool} /\ emptied' \subseteq Callers
      BY DEF IInv, TypeOK, Shape, Store, Listed
  <2>2. /\ pc' \in [Callers -> {"idle", "list", "listed", "pick", "call", "called"}]
        /\ outcome' \in [Callers -> {"none", "reply", "tools", "noTools", "error"}]
        /\ \A r \in Callers : pc'[r] \in {"call", "called"} => pc[r] = pc'[r]
      BY DEF IInv, TypeOK, Store, Return, Set
  <2>3. QED
      BY <2>1, <2>2 DEF IInv, TypeOK, Store, serverVars, countVars
<1>2. Shape'
    BY DEF IInv, TypeOK, Shape, Store, Return, Set
<1>3. News'
    BY DEF IInv, TypeOK, News, Store, Return, Set
<1>4. Honest'
    BY DEF IInv, TypeOK, Shape, Honest, Store, IsAnswer, Listed, Return, Set, serverVars, countVars
<1>5. Reached'
    BY DEF IInv, TypeOK, Reached, Store, Return, Set, serverVars, countVars
<1>6. QED
    BY <1>1, <1>2, <1>3, <1>4, <1>5 DEF IInv

\* The cache is looked at again, and has a tool or none.
LEMMA PickInv ==
    ASSUME IInv, NEW s \in Callers, Pick(s) \/ NoTools(s)
    PROVE  IInv'
<1>1. TypeOK'
  <2>1. CASE Pick(s)
      BY <2>1 DEF IInv, TypeOK, Shape, Pick, Set, serverVars, countVars
  <2>2. CASE NoTools(s)
      BY <2>2 DEF IInv, TypeOK, NoTools, Return, Set, serverVars, countVars
  <2>3. QED
      BY <2>1, <2>2
<1>2. Shape'
    BY DEF IInv, TypeOK, Shape, Pick, NoTools, Return, Set
<1>3. News'
    BY DEF IInv, TypeOK, News, Pick, NoTools, Return, Set
<1>4. Honest'
    BY DEF IInv, TypeOK, Honest, Pick, NoTools, Set, serverVars, countVars
<1>5. Reached'
  <2>1. pc[s] = "pick" /\ payload[s] > 0 /\ UNCHANGED <<payload, reply, ran, sends, weather>>
      BY DEF IInv, Shape, Pick, NoTools, serverVars, countVars
  <2>2. \/ pc' = [pc EXCEPT ![s] = "call"] /\ outcome' = outcome
        \/ pc' = [pc EXCEPT ![s] = "idle"] /\ outcome' = [outcome EXCEPT ![s] = "noTools"]
      BY DEF Pick, NoTools, Return, Set
  <2>3. QED
      BY <2>1, <2>2 DEF IInv, TypeOK, Reached
<1>6. QED
    BY <1>1, <1>2, <1>3, <1>4, <1>5 DEF IInv

\* An answer is returned.
LEMMA ReceiveInv ==
    ASSUME IInv, NEW s \in Callers, Receive(s)
    PROVE  IInv'
<1>1. TypeOK'
    BY DEF IInv, TypeOK, Receive, Return, Set, serverVars, countVars
<1>2. Shape'
    BY DEF IInv, TypeOK, Shape, Receive, Return, Set
<1>3. News'
    BY DEF IInv, News, Receive, Return, Set
<1>4. Honest'
    BY DEF IInv, Honest, Receive, Return, Set, serverVars, countVars
<1>5. Reached'
    BY DEF IInv, TypeOK, Shape, Reached, Receive, IsAnswer, Return, Set, serverVars, countVars
<1>6. QED
    BY <1>1, <1>2, <1>3, <1>4, <1>5 DEF IInv

\* The server lists what it exposes, or does not.
LEMMA ListInv ==
    ASSUME IInv, NEW s \in Callers, List(s)
    PROVE  IInv'
<1>1. TypeOK'
    BY DEF IInv, TypeOK, List, Answer, Set, serverVars, countVars
<1>2. Shape'
    BY BoundsAssumption, ToolsAssumption DEF IInv, TypeOK, Shape, List, Answer, Set
<1>3. News'
    BY DEF IInv, TypeOK, News, List, Answer, Set
<1>4. Honest'
    BY DEF IInv, TypeOK, Shape, Honest, List, Answer, Set, serverVars, countVars
<1>5. Reached'
  <2>1. pc[s] = "list" /\ pc' = [pc EXCEPT ![s] = "listed"]
      BY DEF List, Answer, Set
  <2>2. \A r \in Callers : r # s => reply'[r] = reply[r]
      BY DEF IInv, Shape, List, Answer, Set
  <2>3. UNCHANGED <<sends, ran, payload, outcome, weather>>
      BY DEF List, serverVars, countVars
  <2>4. QED
      BY <2>1, <2>2, <2>3 DEF IInv, Reached
<1>6. QED
    BY <1>1, <1>2, <1>3, <1>4, <1>5 DEF IInv

\* A tool runs a payload that no other call has.
LEMMA CallInv ==
    ASSUME IInv, NEW s \in Callers, Call(s)
    PROVE  IInv'
<1>1. /\ payload[s] \in Payloads /\ tool[s] \in Tools
      /\ pc[s] = "call" /\ pc' = [pc EXCEPT ![s] = "called"]
      /\ UNCHANGED <<tools, payload, tool, outcome, exposes, deploys, sends, lists, weather, emptied>>
    BY DEF IInv, TypeOK, Payloads, Call, Answer, Set, countVars
<1>2. PICK k \in {"content", "error", "infra", "noResult"} :
          /\ reply' = [reply EXCEPT ![s] = [kind |-> k, tool |-> NoTool]]
          /\ k \in {"content", "error"} => ran' = [ran EXCEPT ![payload[s]] = @ \cup {tool[s]}]
          /\ k = "noResult" => "noResult" \in weather
          /\ ran' = ran \/ ran' = [ran EXCEPT ![payload[s]] = @ \cup {tool[s]}]
    BY DEF Call, Answer, Set
<1>3. TypeOK'
    BY <1>1, <1>2 DEF IInv, TypeOK
<1>4. Shape'
    BY <1>1, <1>2 DEF IInv, Shape
<1>5. News'
    BY DEF IInv, TypeOK, News, Call, Answer, Set
<1>6. Honest'
    BY DEF IInv, TypeOK, Shape, Honest, Call, Answer, Set, countVars
<1>7. Reached'
  <2>1. \A p \in Payloads : p # payload[s] => ran'[p] = ran[p]
      BY <1>2 DEF IInv, TypeOK
  <2>2. ASSUME k \in {"content", "error"} PROVE ran'[payload[s]] # {}
    <3>1. ran'[payload[s]] = ran[payload[s]] \cup {tool[s]}
        BY <1>1, <1>2, <2>2 DEF IInv, TypeOK
    <3>2. QED
        BY <3>1
  <2>3. \A r \in Callers : r # s => reply'[r] = reply[r] /\ pc'[r] = pc[r] /\ payload[r] # payload[s]
      BY <1>1, <1>2 DEF IInv, Reached, Payloads
  <2>4. reply'[s].kind = k /\ pc'[s] = "called" /\ outcome[s] = "none"
      BY <1>1, <1>2 DEF IInv, TypeOK, Shape
  <2>5. \A r \in Callers : payload[r] > 0 => payload[r] \in Payloads
      BY DEF IInv, TypeOK, Payloads
  <2>6. payload[s] <= sends
      BY DEF IInv, Reached
  <2>7. \A p \in Payloads : p > sends => ran'[p] = {}
    <3>1. SUFFICES ASSUME NEW p \in Payloads, p > sends PROVE ran'[p] = {}
        OBVIOUS
    <3>2. p # payload[s]
        BY <2>6, <3>1, Counted DEF IInv
    <3>3. QED
        BY <2>1, <3>1, <3>2 DEF IInv, Reached
  <2>8. ASSUME NEW r \in Callers
        PROVE  /\ pc'[r] \in {"list", "listed", "pick", "call"} /\ payload[r] > 0 => ran'[payload[r]] = {}
               /\ pc'[r] = "called" /\ reply'[r].kind \in {"content", "error"} => ran'[payload[r]] # {}
               /\ pc'[r] = "called" /\ reply'[r].kind = "noResult" => "noResult" \in weather
               /\ outcome[r] \in {"reply", "noTools"} => payload[r] > 0
               /\ outcome[r] = "noTools" => ran'[payload[r]] = {}
               /\ outcome[r] = "reply" /\ "noResult" \notin weather => ran'[payload[r]] # {}
    <3>1. CASE r = s
        BY <1>2, <2>2, <2>4, <3>1
    <3>2. CASE r # s
      <4>1. payload[r] > 0 => ran'[payload[r]] = ran[payload[r]]
          BY <2>1, <2>3, <2>5, <3>2
      <4>2. pc[r] = "called" => payload[r] > 0
          BY DEF IInv, TypeOK
      <4>3. QED
          BY <2>3, <3>2, <4>1, <4>2 DEF IInv, Reached
    <3>3. QED
        BY <3>1, <3>2
  <2>9. QED
      BY <1>1, <2>7, <2>8 DEF IInv, Reached
<1>8. QED
    BY <1>3, <1>4, <1>5, <1>6, <1>7 DEF IInv

\* The server changes what it exposes.
LEMMA DeployInv ==
    ASSUME IInv, Deploy
    PROVE  IInv'
<1>1. TypeOK'
    BY BoundsAssumption DEF IInv, TypeOK, Deploy, callVars, countVars
<1>2. Shape'
    BY DEF IInv, Shape, Deploy, callVars
<1>3. News'
    BY DEF IInv, News, Deploy, callVars
<1>4. Honest'
    BY ToolsAssumption DEF IInv, Honest, Deploy, callVars, countVars
<1>5. Reached'
    BY DEF IInv, Reached, Deploy, callVars, countVars
<1>6. QED
    BY <1>1, <1>2, <1>3, <1>4, <1>5 DEF IInv

-----------------------------------------------------------------------------
(* The theorems.                                                           *)

\* The invariant holds of the connector and the server.
THEOREM Invariance == Spec => []IInv
<1>1. Init => IInv
  <2>1. SUFFICES ASSUME Init PROVE IInv
      OBVIOUS
  <2>2. /\ tools = NoTool /\ exposes \in Tools /\ emptied = {} /\ weather \in Weathers
        /\ sends = 0 /\ lists = 0 /\ deploys = 0
      BY <2>1 DEF Init
  <2>3. /\ pc = [s \in Callers |-> "idle"] /\ outcome = [s \in Callers |-> "none"]
        /\ payload = [s \in Callers |-> 0] /\ tool = [s \in Callers |-> NoTool]
        /\ reply = [s \in Callers |-> NoReply] /\ ran = [p \in Payloads |-> {}]
      BY <2>1 DEF Init
  <2>4. 0 \in 0 .. MaxSends /\ 0 \in 0 .. MaxLists /\ 0 \in 0 .. MaxDeploys
      BY BoundsAssumption
  <2>5. TypeOK
      BY <2>2, <2>3, <2>4 DEF TypeOK
  <2>6. Shape
      BY <2>3, Roles DEF Shape, NoReply
  <2>7. News /\ Honest
      BY <2>2, <2>3, ToolsAssumption DEF News, Honest
  <2>8. Reached
      BY <2>2, <2>3 DEF Reached
  <2>9. QED
      BY <2>5, <2>6, <2>7, <2>8 DEF IInv
<1>2. IInv /\ [Next]_vars => IInv'
  <2>1. SUFFICES ASSUME IInv, [Next]_vars PROVE IInv'
      OBVIOUS
  <2>2. ASSUME (\E s \in Senders : Send(s)) \/ (\E l \in Listers : DiscoverTools(l)) PROVE IInv'
      BY <2>1, <2>2, SendInv, DiscoverInv
  <2>3. ASSUME NEW s \in Callers, CallStep(s) PROVE IInv'
      BY <2>1, <2>3, FailsInv, StoreInv, PickInv, ReceiveInv, ListInv, CallInv DEF CallStep
  <2>4. CASE Deploy
      BY <2>1, <2>4, DeployInv
  <2>5. CASE UNCHANGED vars
    <3>1. UNCHANGED <<tools, pc, payload, tool, reply, outcome, sends, lists, exposes, deploys, ran,
                      emptied, weather>>
        BY <2>5 DEF vars, callVars, serverVars, countVars
    <3>2. TypeOK' /\ Shape'
        BY <2>1, <3>1 DEF IInv, TypeOK, Shape
    <3>3. News' /\ Honest' /\ Reached'
        BY <2>1, <3>1 DEF IInv, News, Honest, Reached
    <3>4. QED
        BY <3>2, <3>3 DEF IInv
  <2>6. QED
      BY <2>1, <2>2, <2>3, <2>4, <2>5 DEF Next
<1>3. QED
    BY <1>1, <1>2, PTL DEF Spec

\* Every variable keeps its type.
THEOREM TypeCorrect == Spec => []TypeOK
<1>1. IInv => TypeOK
    BY DEF IInv
<1>2. QED
    BY <1>1, Invariance, PTL

\* A Send that reports no tools was under way when a list without tools was
\* stored.
THEOREM NewsOnly == Spec => []NoToolsIsNews
<1>1. IInv => NoToolsIsNews
    BY Roles DEF IInv, News, NoToolsIsNews
<1>2. QED
    BY <1>1, Invariance, PTL

\* A server that always exposes a tool and lists it is never said to have none.
THEOREM TrueOnly == Spec => []NoToolsIsTrue
<1>1. IInv => NoToolsIsTrue
    BY Roles DEF IInv, Honest, NoToolsIsTrue
<1>2. QED
    BY <1>1, Invariance, PTL

\* What is returned as a reply came from a tool, and only from a tool that the
\* server named.
THEOREM RepliesReached == Spec => []ReplyMeansReached
<1>1. IInv => ReplyMeansReached
    BY Roles DEF IInv, TypeOK, Reached, ReplyMeansReached
<1>2. QED
    BY <1>1, Invariance, PTL

\* MCP.Send keeps the contract of target.go, unless a server leaves out both the
\* result and the error: a reply is returned for a payload that a tool has got or
\* refused, everything else is an error, and discoveries are no part of it.
THEOREM Refinement == Spec => ImplementsTarget
<1> DEFINE A == [s \in Senders |-> IF pc[s] = "idle" THEN 0 ELSE payload[s]]
           R == [s \in Senders |-> IF outcome[s] \in {"none", "reply"} THEN outcome[s] ELSE "error"]
           Known == {p \in Payloads : ran[p] # {}}
           Contract == Target!Next \/ "noResult" \in weather \/ UNCHANGED Target!vars
<1>1. Init => Target!Init
  <2>1. SUFFICES ASSUME Init PROVE Target!Init
      OBVIOUS
  <2>2. Known = {}
      BY <2>1 DEF Init
  <2>3. A = [s \in Senders |-> 0] /\ R = [s \in Senders |-> "none"]
      BY <2>1, Roles DEF Init
  <2>4. QED
      BY <2>2, <2>3 DEF Target!Init
<1>2. IInv /\ [Next]_vars => [Target!Next \/ "noResult" \in weather]_(Target!vars)
  <2>1. SUFFICES ASSUME IInv, [Next]_vars PROVE Contract
      OBVIOUS
  <2>2. ASSUME UNCHANGED <<A, Known, R>> PROVE UNCHANGED Target!vars
      BY <2>2 DEF Target!vars
  <2>3. ASSUME UNCHANGED ran PROVE Known' = Known
      BY <2>3
  <2>4. ASSUME NEW s \in Senders, Send(s) PROVE Target!Ask(s)
    <3>1. /\ pc[s] = "idle" /\ pc'[s] # "idle" /\ payload' = [payload EXCEPT ![s] = sends + 1]
          /\ \A r \in Senders : r # s => pc'[r] = pc[r]
          /\ outcome' = [outcome EXCEPT ![s] = "none"] /\ UNCHANGED ran /\ sends < MaxSends
        BY <2>1, <2>4, Roles DEF IInv, TypeOK, Send, Set, serverVars
    <3>2. sends + 1 \in Payloads /\ sends + 1 > sends /\ sends + 1 > 0
        BY <2>1, <3>1, Counted DEF IInv, Payloads
    <3>3. sends + 1 \notin Known /\ Known' = Known
        BY <2>1, <2>3, <3>1, <3>2 DEF IInv, Reached
    <3>4. A' = [A EXCEPT ![s] = sends + 1] /\ R' = [R EXCEPT ![s] = "none"]
        BY <2>1, <3>1, Roles DEF IInv, TypeOK
    <3>5. A[s] = 0 /\ \A r \in Senders : A[r] # sends + 1
        BY <2>1, <3>1, <3>2, Counted, Roles DEF IInv, Reached
    <3>6. QED
        BY <3>2, <3>3, <3>4, <3>5 DEF Target!Ask
  <2>5. ASSUME NEW l \in Listers, DiscoverTools(l) \/ CallStep(l) PROVE UNCHANGED Target!vars
    <3>1. payload[l] = 0 /\ pc[l] \notin {"pick", "call", "called"}
        BY <2>1, Roles DEF IInv, TypeOK, Shape
    <3>2. DiscoverTools(l) \/ RequestFails(l) \/ Store(l) \/ List(l)
        BY <2>5, <3>1 DEF CallStep, Pick, NoTools, Receive, Call
    <3>3. UNCHANGED <<payload, ran>>
        BY <3>2 DEF DiscoverTools, RequestFails, Store, List, serverVars
    <3>4. \A s \in Senders : pc'[s] = pc[s] /\ outcome'[s] = outcome[s]
        BY <2>1, <3>2, Roles
           DEF IInv, TypeOK, DiscoverTools, RequestFails, Store, List, Answer, Return, Set
    <3>5. QED
        BY <2>2, <2>3, <3>3, <3>4
  <2>6. ASSUME NEW s \in Senders, pc[s] # "idle" PROVE A[s] = payload[s] /\ payload[s] \in Payloads /\ payload[s] # 0
    <3>1. payload[s] > 0 /\ payload[s] \in 0 .. MaxSends
        BY <2>1, <2>6, Roles DEF IInv, TypeOK, Shape
    <3>2. QED
        BY <2>6, <3>1, BoundsAssumption DEF Payloads
  <2>7. ASSUME NEW s \in Senders, pc[s] # "idle", NEW o, Return(s, o), UNCHANGED <<payload, ran>>
        PROVE  /\ A' = [A EXCEPT ![s] = 0] /\ Known' = Known
               /\ R' = [R EXCEPT ![s] = IF o \in {"none", "reply"} THEN o ELSE "error"]
      BY <2>1, <2>3, <2>7, Roles DEF IInv, TypeOK, Return, Set
  <2>8. ASSUME NEW s \in Senders, RequestFails(s) \/ NoTools(s) PROVE Target!Fail(s)
    <3>1. PICK o \in {"error", "noTools"} : pc[s] # "idle" /\ Return(s, o) /\ UNCHANGED <<payload, ran>>
        BY <2>8 DEF RequestFails, NoTools, serverVars
    <3>2. QED
        BY <2>6, <2>7, <3>1 DEF Target!Fail, Target!Return
  <2>9. ASSUME NEW s \in Senders, Receive(s) PROVE Target!Reply(s) \/ "noResult" \in weather
    <3>1. pc[s] = "called" /\ reply[s].kind # "infra" /\ Return(s, "reply") /\ UNCHANGED <<payload, ran>>
        BY <2>9 DEF Receive, IsAnswer, serverVars
    <3>2. ran[payload[s]] # {} \/ "noResult" \in weather
        BY <2>1, <3>1, Roles DEF IInv, Shape, Reached
    <3>3. QED
        BY <2>6, <2>7, <3>1, <3>2 DEF Target!Reply, Target!Return
  <2>10. ASSUME NEW s \in Senders, Store(s) \/ Pick(s) \/ List(s) \/ Call(s)
         PROVE  A' = A /\ R' = R /\ pc[s] # "idle"
    <3>1. pc[s] # "idle" /\ payload[s] # 0
        BY <2>6, <2>10 DEF Store, Pick, List, Call
    <3>2. /\ \A r \in Senders : pc'[r] = "idle" <=> pc[r] = "idle"
          /\ UNCHANGED <<payload, outcome>>
        BY <2>1, <2>10, <3>1, Roles DEF IInv, TypeOK, Store, Pick, List, Call, Answer, Set
    <3>3. QED
        BY <3>1, <3>2
  <2>11. ASSUME NEW s \in Senders, Store(s) \/ Pick(s) \/ List(s) PROVE UNCHANGED Target!vars
      BY <2>2, <2>3, <2>10, <2>11 DEF Store, Pick, List, serverVars
  <2>12. ASSUME NEW s \in Senders, Call(s) PROVE Target!Reach(s) \/ UNCHANGED Target!vars
    <3>1. ran' = ran \/ ran' = [ran EXCEPT ![payload[s]] = @ \cup {tool[s]}]
        BY <2>12 DEF Call
    <3>2. Known' = Known \/ Known' = Known \cup {payload[s]}
        BY <2>1, <2>6, <2>10, <2>12, <3>1 DEF IInv, TypeOK
    <3>3. QED
        BY <2>2, <2>6, <2>10, <2>12, <3>2 DEF Target!Reach
  <2>13. ASSUME Deploy \/ UNCHANGED vars PROVE UNCHANGED Target!vars
    <3>1. UNCHANGED <<pc, payload, outcome, ran>>
        BY <2>13 DEF Deploy, vars, callVars, serverVars
    <3>2. QED
        BY <2>2, <2>3, <3>1
  <2>14. ASSUME NEW s \in Senders, CallStep(s) PROVE Contract
      BY <2>8, <2>9, <2>11, <2>12, <2>14 DEF CallStep, Target!Next
  <2>15. QED
      BY <2>1, <2>4, <2>5, <2>13, <2>14 DEF Next, Callers, Target!Next
<1>3. QED
    BY <1>1, <1>2, Invariance, PTL DEF Spec, ImplementsTarget
-----------------------------------------------------------------------------
(* How far a call can go.                                                  *)

\* From each place, how many steps to the end of a call.
Left(l) ==
    CASE l = "idle" -> 0 [] l = "called" -> 1 [] l = "call" -> 2 [] l = "pick" -> 3
      [] l = "listed" -> 4 [] l = "list" -> 5

LEMMA Lefts ==
    /\ Left("idle") = 0 /\ Left("called") = 1 /\ Left("call") = 2 /\ Left("pick") = 3
    /\ Left("listed") = 4 /\ Left("list") = 5
BY DEF Left

\* How many steps the call of s can still take.
Ahead(s) == Left(pc[s])

LEMMA AheadBounded ==
    ASSUME TypeOK, NEW s \in Callers
    PROVE  Ahead(s) \in 0 .. 5 /\ (Ahead(s) = 0 <=> pc[s] = "idle")
<1>1. pc[s] \in {"idle", "list", "listed", "pick", "call", "called"}
    BY DEF TypeOK
<1>2. QED
    BY <1>1, Lefts DEF Ahead

\* Every step of a call brings it nearer its end, which is at most five steps from
\* its beginning, and no discovery and no deployment beside it takes it further
\* away: a Send never lists the tools twice, however often the cache is emptied.
THEOREM CallsAreBounded ==
    Spec => [][\A s \in Callers : /\ CallStep(s) => Ahead(s)' < Ahead(s)
                                  /\ pc[s] # "idle" => Ahead(s)' <= Ahead(s)]_vars
<1>1. ASSUME TypeOK, NEW s \in Callers, CallStep(s)
      PROVE  Ahead(s)' < Ahead(s) /\ Ahead(s)' \in Nat /\ pc[s] # "idle"
             /\ \A r \in Callers \ {s} : pc'[r] = pc[r]
  <2>1. \/ pc[s] \in {"listed", "called", "pick"} /\ pc' = [pc EXCEPT ![s] = "idle"]
        \/ pc[s] = "list" /\ pc' = [pc EXCEPT ![s] = "listed"]
        \/ pc[s] = "listed" /\ pc' = [pc EXCEPT ![s] = "pick"]
        \/ pc[s] = "pick" /\ pc' = [pc EXCEPT ![s] = "call"]
        \/ pc[s] = "call" /\ pc' = [pc EXCEPT ![s] = "called"]
      BY <1>1 DEF CallStep, RequestFails, Store, Pick, NoTools, Receive, List, Call, Answer,
                  Return, Set
  <2>2. QED
      BY <1>1, <2>1, Lefts DEF Ahead, TypeOK
<1>2. ASSUME TypeOK, Next, NEW s \in Callers, pc[s] # "idle" PROVE Ahead(s)' <= Ahead(s)
  <2>1. Ahead(s) \in Nat
      BY <1>2, AheadBounded
  <2>2. CASE CallStep(s)
      BY <1>1, <1>2, <2>1, <2>2
  <2>3. CASE ~CallStep(s)
    <3>1. pc'[s] = pc[s]
        BY <1>1, <1>2, <2>3 DEF Next, Send, DiscoverTools, Deploy, callVars, Set, Callers, TypeOK
    <3>2. QED
        BY <2>1, <3>1 DEF Ahead
  <2>4. QED
      BY <2>2, <2>3
<1>3. TypeOK /\ Next => \A s \in Callers : /\ CallStep(s) => Ahead(s)' < Ahead(s)
                                           /\ pc[s] # "idle" => Ahead(s)' <= Ahead(s)
    BY <1>1, <1>2
<1>4. QED
    BY <1>3, TypeCorrect, PTL DEF Spec
================================================================================
