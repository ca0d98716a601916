--------------------------- MODULE A2ADialectProofs ---------------------------
(***************************************************************************)
(* Theorems about A2ADialect, for every finite set of senders, any number  *)
(* of Sends, agents of either dialect or both, and any faults - except,    *)
(* where a theorem says so, an error that carries a null result, which the *)
(* code takes for an answer.                                               *)
(***************************************************************************)
EXTENDS A2ADialect, FiniteSetTheorems, TLAPS

-----------------------------------------------------------------------------
(* The inductive invariant.                                                *)

\* Payloads are sent once each, in order.
Sending ==
    /\ \A r, s \in Senders : payload[r] = payload[s] /\ payload[r] > 0 => r = s
    /\ \A p \in Payloads : executed[p] > 0 => \E s \in Senders : payload[s] >= p
    /\ taskID # NoTask => MaxSends > 0
    /\ \A s \in Senders :
          /\ pc[s] # "idle" => payload[s] > 0 /\ taskID # NoTask /\ outcome[s] = "none"
          /\ payload[s] = 0 => outcome[s] = "none"
          /\ pc[s] \in {"request", "reply"} => request[s].verb = using[s]
          /\ pc[s] = "reply" => reply[s].kind # "none"

\* A payload is run in at most one of the exchanges of its Send: not in the one
\* that earns another.
Running ==
    /\ ExecutedOnce
    /\ \A s \in Senders :
          /\ pc[s] \in {"compose", "request"} => executed[payload[s]] = 0
          /\ pc[s] = "reply" /\ reply[s].kind = "methodNotFound" =>
                executed[payload[s]] = 0 /\ using[s] \notin speaks

\* A task id is made up once for the connector, and once for a payload at most.
Known    == {p \in Payloads : executed[p] > 0}
Counting == ids <= (IF taskID = NoTask THEN 0 ELSE 1) + Cardinality(Known)

\* A result comes from an agent that speaks the dialect and ran the payload.
Resulting ==
    "nullResult" \notin Faults =>
        /\ PinnedIsSpoken
        /\ \A s \in Senders :
              pc[s] = "pin" \/ (pc[s] = "reply" /\ IsResult(reply[s])) =>
                  executed[payload[s]] > 0 /\ using[s] \in speaks

\* One sender alone speaks the dialect that is pinned, tries 0.2 only where 0.3
\* is unknown, and stays in the one task that goes with the dialect.
Alone(s) == \A r \in Senders \ {s} : payload[r] = 0

InOneTask(s) ==
    /\ outcome[s] # "methodNotFound"
    /\ dialect = "V02" => "V03" \notin speaks
    /\ pc[s] # "idle" => IF dialect = "auto" THEN using[s] = "V03" \/ "V03" \notin speaks
                                              ELSE using[s] = dialect
    /\ pc[s] = "request" => request[s].task = IF using[s] = "V02" THEN taskID ELSE serverTaskID
    /\ "V03" \notin speaks => context \subseteq {taskID}
    /\ "V03" \in speaks /\ serverTaskID # NoTask => context \subseteq {serverTaskID}
    /\ "V03" \in speaks /\ serverTaskID = NoTask =>
          \/ context = {}
          \/ pc[s] = "reply" /\ reply[s].kind = "task" /\ context = {reply[s].task}

Conversing ==
    /\ (\A s \in Senders : payload[s] = 0) => context = {}
    /\ "nullResult" \notin Faults => \A s \in Senders : Alone(s) => InOneTask(s)

IInv == TypeOK /\ Sending /\ Running /\ Counting /\ Resulting /\ Conversing

-----------------------------------------------------------------------------
(* Counting.                                                               *)

\* No payload of a Send is past the count of those sent.
LEMMA SentBounds ==
    ASSUME TypeOK
    PROVE  Sent \in Nat /\ \A s \in Senders : payload[s] \in Nat /\ payload[s] <= Sent
<1> DEFINE S == {p \in Payloads : \E s \in Senders : payload[s] >= p}
<1>1. MaxSends \in Nat /\ payload \in [Senders -> 0 .. MaxSends]
    BY BoundAssumption DEF TypeOK
<1>2. IsFiniteSet(Payloads) /\ S \subseteq Payloads
    BY <1>1, FS_Interval DEF Payloads
<1> HIDE DEF S
<1>3. IsFiniteSet(S) /\ Cardinality(S) \in Nat
    BY <1>2, FS_Subset, FS_CardinalityType
<1>4. ASSUME NEW s \in Senders PROVE payload[s] <= Cardinality(S)
  <2>1. 1 .. payload[s] \subseteq S
      BY <1>1 DEF S, Payloads
  <2>2. Cardinality(1 .. payload[s]) = payload[s]
      BY <1>1, FS_Interval
  <2>3. QED
      BY <1>3, <2>1, <2>2, FS_Subset
<1>5. QED
    BY <1>1, <1>3, <1>4 DEF Sent, S

\* The payloads that were run are a finite set, within those of the scan.
LEMMA KnownFinite ==
    ASSUME TypeOK
    PROVE  IsFiniteSet(Known) /\ Cardinality(Known) \in Nat /\ Cardinality(Known) <= MaxSends
<1>1. MaxSends \in Nat
    BY BoundAssumption
<1>2. IsFiniteSet(Payloads) /\ Cardinality(Payloads) = MaxSends /\ Known \subseteq Payloads
    BY <1>1, FS_Interval DEF Payloads, Known
<1>3. QED
    BY <1>2, FS_Subset, FS_CardinalityType

\* There is room for another id while one is needed.
LEMMA IdsBounded ==
    ASSUME TypeOK, Sending, Counting
    PROVE  /\ ids \in Nat /\ MaxSends \in Nat
           /\ taskID = NoTask /\ MaxSends > 0 => ids + 1 \in Tasks
           /\ \A p \in Payloads : taskID # NoTask /\ executed[p] = 0 => ids + 1 \in Tasks
<1>1. ids \in Nat /\ MaxSends \in Nat
    BY BoundAssumption DEF TypeOK
<1>2. ids <= (IF taskID = NoTask THEN 0 ELSE 1) + Cardinality(Known)
    BY DEF Counting
<1>3. CASE taskID = NoTask /\ MaxSends > 0
    BY <1>1, <1>2, <1>3, KnownFinite DEF Tasks
<1>4. ASSUME NEW p \in Payloads, taskID # NoTask, executed[p] = 0 PROVE ids + 1 \in Tasks
  <2>1. p \notin Known /\ IsFiniteSet(Known) /\ Known \cup {p} \subseteq Payloads
      BY <1>4, KnownFinite DEF Known
  <2>2. Cardinality(Known \cup {p}) = Cardinality(Known) + 1
      BY <2>1, FS_AddElement
  <2>3. IsFiniteSet(Payloads) /\ Cardinality(Payloads) = MaxSends
      BY <1>1, FS_Interval DEF Payloads
  <2>4. Cardinality(Known) + 1 <= MaxSends
      BY <2>1, <2>2, <2>3, FS_Subset
  <2>5. QED
      BY <1>1, <1>2, <2>4, KnownFinite DEF Tasks
<1>5. QED
    BY <1>1, <1>3, <1>4

\* While a Send runs nobody but its sender can be alone.
LEMMA AloneInside ==
    ASSUME IInv, NEW s \in Senders, pc[s] # "idle", NEW r \in Senders, Alone(r)
    PROVE  r = s
    BY DEF IInv, Sending, Alone

-----------------------------------------------------------------------------
(* Each action keeps the invariant.                                        *)

\* A Send begins, with a payload not sent before.
LEMMA SendInv ==
    ASSUME IInv, NEW s \in Senders, Send(s)
    PROVE  IInv'
<1>1. PICK n \in Payloads :
          /\ n > 0 /\ payload' = [payload EXCEPT ![s] = n]
          /\ \A r \in Senders : payload[r] < n
          /\ executed[n] = 0
  <2>1. Sent + 1 \in Payloads /\ Sent + 1 > 0 /\ \A r \in Senders : payload[r] < Sent + 1
      BY SentBounds, BoundAssumption DEF IInv, Send, Payloads
  <2>2. executed[Sent + 1] = 0
    <3>1. \A r \in Senders : ~(payload[r] >= Sent + 1)
        BY SentBounds DEF IInv
    <3>2. ~(executed[Sent + 1] > 0)
        BY <2>1, <3>1 DEF IInv, Sending
    <3>3. QED
        BY <2>1, <3>2 DEF IInv, TypeOK
  <2>3. QED
      BY <2>1, <2>2 DEF Send
<1>2. /\ pc[s] = "idle" /\ pc' = [pc EXCEPT ![s] = "compose"]
      /\ using' = [using EXCEPT ![s] = IF dialect = "auto" THEN "V03" ELSE dialect]
      /\ outcome' = [outcome EXCEPT ![s] = "none"]
      /\ IF taskID = NoTask THEN ids' = ids + 1 /\ taskID' = ids + 1 ELSE UNCHANGED <<ids, taskID>>
      /\ UNCHANGED <<dialect, serverTaskID, request, reply, speaks, executed, context>>
    BY DEF Send, Goto, agentVars
<1>3. MaxSends > 0 /\ taskID' \in Tasks /\ ids' \in 0 .. 2 * MaxSends
  <2>1. MaxSends \in Nat /\ MaxSends > 0
      BY BoundAssumption DEF Payloads
  <2>2. QED
      BY <1>2, <2>1, IdsBounded DEF IInv, TypeOK, Tasks
<1>4. taskID' # NoTask
    BY <1>3 DEF Tasks, NoTask
<1>5. TypeOK'
  <2>1. payload' \in [Senders -> 0 .. MaxSends]
      BY <1>1 DEF IInv, TypeOK, Payloads
  <2>2. using' \in [Senders -> Dialects]
      BY <1>2 DEF IInv, TypeOK, Dialects
  <2>3. QED
      BY <1>2, <1>3, <2>1, <2>2 DEF IInv, TypeOK
<1>6. Sending'
  <2>1. \A q, r \in Senders : payload'[q] = payload'[r] /\ payload'[q] > 0 => q = r
      BY <1>1, SentBounds DEF IInv, Sending
  <2>2. \A p \in Payloads : executed[p] > 0 => \E r \in Senders : payload'[r] >= p
      BY <1>1, SentBounds DEF IInv, Sending, Payloads
  <2>3. \A r \in Senders :
            /\ pc'[r] # "idle" => payload'[r] > 0 /\ outcome'[r] = "none"
            /\ payload'[r] = 0 => outcome'[r] = "none"
            /\ pc'[r] \in {"request", "reply"} => request[r].verb = using'[r]
            /\ pc'[r] = "reply" => reply[r].kind # "none"
      BY <1>1, <1>2 DEF IInv, TypeOK, Sending
  <2>4. QED
      BY <1>2, <1>3, <1>4, <2>1, <2>2, <2>3 DEF Sending
<1>7. Running'
  <2>1. \A r \in Senders : r # s => payload'[r] = payload[r] /\ pc'[r] = pc[r] /\ using'[r] = using[r]
      BY <1>1, <1>2
  <2>2. payload'[s] = n /\ pc'[s] = "compose"
      BY <1>1, <1>2 DEF IInv, TypeOK
  <2>3. QED
      BY <1>1, <1>2, <2>2 DEF IInv, Running, ExecutedOnce
<1>8. Counting'
  <2>1. Known' = Known
      BY <1>2 DEF Known
  <2>2. QED
      BY <1>2, <1>4, <2>1, IdsBounded, KnownFinite DEF IInv, Counting
<1>9. Resulting'
    BY DEF IInv, Resulting, PinnedIsSpoken, Send, Goto, agentVars
<1>10. Conversing'
  <2>1. ~\A r \in Senders : payload'[r] = 0
      BY <1>1 DEF IInv, TypeOK
  <2>2. SUFFICES ASSUME "nullResult" \notin Faults, NEW r \in Senders, Alone(r)'
                 PROVE  InOneTask(r)'
      BY <2>1 DEF Conversing
  <2>3. r = s /\ Alone(s)
      BY <1>1, <2>2 DEF IInv, TypeOK, Alone
  <2>4. pc'[s] = "compose" /\ outcome'[s] = "none" /\ using'[s] = IF dialect = "auto" THEN "V03" ELSE dialect
      BY <1>2 DEF IInv, TypeOK
  <2>5. "V03" \notin speaks => context \subseteq {taskID'}
    <3>1. CASE taskID = NoTask
      <4>1. payload[s] = 0 \/ payload[s] > 0
          BY SentBounds DEF IInv
      <4>2. QED
          BY <2>2, <2>3, <3>1 DEF IInv, TypeOK, Conversing, InOneTask, Tasks, NoTask
    <3>2. CASE taskID # NoTask
        BY <1>2, <2>2, <2>3, <3>2 DEF IInv, Conversing, InOneTask
    <3>3. QED
        BY <3>1, <3>2
  <2>6. QED
      BY <1>2, <2>2, <2>3, <2>4, <2>5 DEF IInv, Conversing, InOneTask
<1>11. QED
    BY <1>5, <1>6, <1>7, <1>8, <1>9, <1>10 DEF IInv

\* A request is composed.
LEMMA ComposeInv ==
    ASSUME IInv, NEW s \in Senders, Compose(s)
    PROVE  IInv'
<1>1. TypeOK'
    BY DEF IInv, TypeOK, Compose, Goto, connectorVars, agentVars
<1>2. Sending'
    BY DEF IInv, TypeOK, Sending, Compose, Goto, connectorVars, agentVars
<1>3. Running'
    BY DEF IInv, Running, ExecutedOnce, Compose, Goto, agentVars
<1>4. Counting'
    BY DEF IInv, Counting, Known, Compose, connectorVars, agentVars
<1>5. Resulting'
    BY DEF IInv, Resulting, PinnedIsSpoken, Compose, Goto, connectorVars, agentVars
<1>6. Conversing'
    BY DEF IInv, TypeOK, Conversing, InOneTask, Alone, Compose, Goto, connectorVars, agentVars
<1>7. QED
    BY <1>1, <1>2, <1>3, <1>4, <1>5, <1>6 DEF IInv

\* The first task the agent named is remembered.
LEMMA RememberInv ==
    ASSUME IInv, NEW s \in Senders, Remember(s)
    PROVE  IInv'
<1>1. TypeOK'
    BY DEF IInv, TypeOK, Remember, Goto, agentVars
<1>2. Sending'
    BY DEF IInv, Sending, Remember, Goto, agentVars
<1>3. Running'
    BY DEF IInv, Running, ExecutedOnce, Remember, Goto, agentVars
<1>4. Counting'
    BY DEF IInv, Counting, Known, Remember, agentVars
<1>5. Resulting'
    BY DEF IInv, Resulting, PinnedIsSpoken, Remember, Goto, agentVars
<1>6. Conversing'
  <2>1. pc[s] # "idle" /\ UNCHANGED <<payload>> /\ context' = context
      BY DEF Remember, agentVars
  <2>2. SUFFICES ASSUME "nullResult" \notin Faults, NEW r \in Senders, Alone(r) PROVE InOneTask(r)'
      BY <2>1 DEF IInv, Conversing, Alone
  <2>3. r = s /\ InOneTask(s)
      BY <2>1, <2>2, AloneInside DEF IInv, Conversing
  <2>4. pc' = [pc EXCEPT ![s] = "pin"] /\ pc'[s] = "pin" /\ pc[s] = "reply" /\ IsResult(reply[s])
      BY DEF IInv, TypeOK, Remember, Goto
  <2>5. using[s] \in speaks
      BY <2>2, <2>4 DEF IInv, Resulting
  <2>6. /\ serverTaskID' = IF serverTaskID = NoTask /\ reply[s].kind = "task"
                           THEN reply[s].task ELSE serverTaskID
        /\ UNCHANGED <<dialect, taskID, using, payload, request, reply, outcome, speaks, context>>
      BY DEF Remember, agentVars
  <2>7. NoTask \notin context
      BY DEF IInv, TypeOK, Tasks, NoTask
  <2>8. "V03" \in speaks => context \subseteq {serverTaskID'} /\ (serverTaskID' = NoTask => context = {})
      BY <2>3, <2>6, <2>7 DEF InOneTask
  <2>9. InOneTask(s)'
      BY <2>3, <2>4, <2>6, <2>8 DEF InOneTask
  <2>10. QED
      BY <2>3, <2>9
<1>7. QED
    BY <1>1, <1>2, <1>3, <1>4, <1>5, <1>6 DEF IInv

\* The dialect that worked is pinned.
LEMMA PinInv ==
    ASSUME IInv, NEW s \in Senders, Pin(s)
    PROVE  IInv'
<1>1. TypeOK'
    BY DEF IInv, TypeOK, Pin, Return, Goto, agentVars
<1>2. Sending'
    BY DEF IInv, TypeOK, Sending, Pin, Return, Goto, agentVars
<1>3. Running'
    BY DEF IInv, Running, ExecutedOnce, Pin, Return, Goto, agentVars
<1>4. Counting'
    BY DEF IInv, Counting, Known, Pin, agentVars
<1>5. Resulting'
    BY DEF IInv, Resulting, PinnedIsSpoken, Pin, Return, Goto, agentVars
<1>6. Conversing'
    BY DEF IInv, Sending, Conversing, InOneTask, Alone, Pin, Return, Goto, agentVars
<1>7. QED
    BY <1>1, <1>2, <1>3, <1>4, <1>5, <1>6 DEF IInv

\* A refused verb earns the older dialect.
LEMMA FallBackInv ==
    ASSUME IInv, NEW s \in Senders, FallBack(s)
    PROVE  IInv'
<1>1. TypeOK'
  <2>1. using' \in [Senders -> Dialects]
      BY DEF IInv, TypeOK, FallBack, Dialects
  <2>2. QED
      BY <2>1 DEF IInv, TypeOK, FallBack, Goto, connectorVars, agentVars
<1>2. Sending'
    BY DEF IInv, TypeOK, Sending, FallBack, Goto, connectorVars, agentVars
<1>3. Running'
    BY DEF IInv, TypeOK, Running, ExecutedOnce, FallBack, EarnsRetry, Goto, agentVars
<1>4. Counting'
    BY DEF IInv, Counting, Known, FallBack, connectorVars, agentVars
<1>5. Resulting'
    BY
       DEF IInv, Resulting, PinnedIsSpoken, IsResult, FallBack, EarnsRetry, Goto, connectorVars,
           agentVars
<1>6. Conversing'
    BY
       DEF IInv, Running, Conversing, InOneTask, Alone, FallBack, EarnsRetry, Goto, connectorVars,
           agentVars
<1>7. QED
    BY <1>1, <1>2, <1>3, <1>4, <1>5, <1>6 DEF IInv

\* Any other failure ends the Send.
LEMMA FailInv ==
    ASSUME IInv, NEW s \in Senders, Fail(s)
    PROVE  IInv'
<1>1. TypeOK'
  <2>1. pc[s] = "reply" /\ ~IsResult(reply[s]) /\ outcome' = [outcome EXCEPT ![s] = reply[s].kind]
      BY DEF Fail, Return
  <2>2. reply[s].kind \in {"methodNotFound", "error", "lost", "infra"}
      BY <2>1 DEF IInv, TypeOK, Sending, IsResult
  <2>3. outcome' \in [Senders -> {"none", "reply", "methodNotFound", "error", "lost", "infra"}]
      BY <2>1, <2>2 DEF IInv, TypeOK
  <2>4. QED
      BY <2>3 DEF IInv, TypeOK, Fail, Return, Goto, connectorVars, agentVars
<1>2. Sending'
    BY DEF IInv, TypeOK, Sending, Fail, Return, Goto, connectorVars, agentVars
<1>3. Running'
    BY DEF IInv, Running, ExecutedOnce, Fail, Return, Goto, agentVars
<1>4. Counting'
    BY DEF IInv, Counting, Known, Fail, connectorVars, agentVars
<1>5. Resulting'
    BY DEF IInv, Resulting, PinnedIsSpoken, Fail, Return, Goto, connectorVars, agentVars
<1>6. Conversing'
  <2>1. pc[s] # "idle" /\ UNCHANGED <<payload>> /\ context' = context
      BY DEF Fail, agentVars
  <2>2. SUFFICES ASSUME "nullResult" \notin Faults, NEW r \in Senders, Alone(r) PROVE InOneTask(r)'
      BY <2>1 DEF IInv, Conversing, Alone
  <2>3. r = s /\ InOneTask(s)
      BY <2>1, <2>2, AloneInside DEF IInv, Conversing
  <2>4. /\ pc' = [pc EXCEPT ![s] = "idle"] /\ pc'[s] = "idle"
        /\ pc[s] = "reply" /\ ~IsResult(reply[s]) /\ ~EarnsRetry(s)
      BY DEF IInv, TypeOK, Fail, Return, Goto
  <2>5. outcome' = [outcome EXCEPT ![s] = reply[s].kind] /\ outcome'[s] = reply[s].kind
      BY DEF IInv, TypeOK, Fail, Return
  <2>6. reply[s].kind # "methodNotFound"
    <3>1. SUFFICES ASSUME reply[s].kind = "methodNotFound" PROVE FALSE
        OBVIOUS
    <3>2. using[s] \notin speaks
        BY <2>4, <3>1 DEF IInv, Running
    <3>3. /\ speaks # {} /\ speaks \subseteq Dialects
          /\ using[s] \in Dialects /\ dialect \in Dialects \cup {"auto"}
        BY DEF IInv, TypeOK
    <3>4. QED
        BY <2>2, <2>3, <2>4, <3>1, <3>2, <3>3
           DEF IInv, InOneTask, EarnsRetry, Dialects, Resulting, PinnedIsSpoken
  <2>7. QED
      BY <2>3, <2>4, <2>5, <2>6 DEF InOneTask, Fail, connectorVars, agentVars, IsResult
<1>7. QED
    BY <1>1, <1>2, <1>3, <1>4, <1>5, <1>6 DEF IInv

\* The agent runs a payload it has not run before.
LEMMA ExecuteInv ==
    ASSUME IInv, NEW s \in Senders, Execute(s)
    PROVE  IInv'
<1>1. PICK kind, task :
          /\ pc[s] = "request" /\ request[s].verb \in speaks
          /\ executed' = [executed EXCEPT ![payload[s]] = @ + 1]
          /\ reply' = [reply EXCEPT ![s] = [kind |-> kind, task |-> task]]
          /\ \/ kind = "task" /\ context' = context \cup {task}
                /\ task \in {request[s].task, ids + 1} \ {NoTask}
                /\ (request[s].task # NoTask => task = request[s].task)
             \/ kind \in {"lost", "message"} /\ task = NoTask /\ UNCHANGED context
          /\ ids' \in {ids, ids + 1}
    BY DEF IInv, TypeOK, Execute, Answer, NoTask
<1>2. /\ pc' = [pc EXCEPT ![s] = "reply"]
      /\ UNCHANGED <<dialect, taskID, serverTaskID, using, payload, request, outcome, speaks>>
    BY DEF Execute, Answer, Goto, connectorVars
<1>3. /\ payload[s] \in Payloads /\ payload[s] > 0 /\ executed[payload[s]] = 0
       /\ taskID # NoTask /\ outcome[s] = "none" /\ request[s].verb = using[s]
  <2>1. payload[s] > 0 /\ payload[s] \in 0 .. MaxSends
      BY <1>1 DEF IInv, TypeOK, Sending
  <2>2. QED
      BY <1>1, <2>1 DEF IInv, Sending, Running, Payloads
<1>4. ids \in Nat /\ ids + 1 \in Tasks
    BY <1>3, IdsBounded DEF IInv
<1>5. executed' \in [Payloads -> Nat] /\ executed'[payload[s]] = 1
       /\ \A p \in Payloads \ {payload[s]} : executed'[p] = executed[p]
    BY <1>1, <1>3 DEF IInv, TypeOK
<1>6. pc'[s] = "reply" /\ reply'[s] = [kind |-> kind, task |-> task]
    BY <1>1, <1>2 DEF IInv, TypeOK
<1>7. TypeOK'
  <2>1. task \in Tasks \cup {NoTask} /\ (kind = "task" => task \in Tasks)
      BY <1>1, <1>4 DEF IInv, TypeOK
  <2>2. reply' \in [Senders -> [kind : {"none", "task", "message", "null", "methodNotFound",
                                        "error", "lost", "infra"},
                                task : Tasks \cup {NoTask}]]
      BY <1>1, <2>1 DEF IInv, TypeOK
  <2>3. context' \subseteq Tasks
      BY <1>1, <2>1 DEF IInv, TypeOK
  <2>4. ids' \in 0 .. 2 * MaxSends
      BY <1>1, <1>4, BoundAssumption DEF Tasks
  <2>5. QED
      BY <1>2, <1>5, <2>2, <2>3, <2>4 DEF IInv, TypeOK
<1>8. Sending'
  <2>1. \A p \in Payloads : executed'[p] > 0 => \E r \in Senders : payload[r] >= p
      BY <1>5, SentBounds DEF IInv, Sending
  <2>2. \A r \in Senders :
            /\ pc'[r] # "idle" => payload[r] > 0 /\ taskID # NoTask /\ outcome[r] = "none"
            /\ pc'[r] \in {"request", "reply"} => request[r].verb = using[r]
            /\ pc'[r] = "reply" => reply'[r].kind # "none"
      BY <1>1, <1>2 DEF IInv, TypeOK, Sending
  <2>3. QED
      BY <1>2, <2>1, <2>2 DEF IInv, Sending
<1>9. Running'
  <2>1. \A r \in Senders \ {s} : payload[r] # payload[s] /\ pc'[r] = pc[r] /\ reply'[r] = reply[r]
      BY <1>1, <1>2 DEF IInv, Sending
  <2>2. ExecutedOnce'
      BY <1>5 DEF IInv, Running, ExecutedOnce
  <2>3. \A r \in Senders \ {s} :
            pc[r] # "idle" => payload[r] \in Payloads /\ executed'[payload[r]] = executed[payload[r]]
      BY <1>5 DEF IInv, TypeOK, Sending, Payloads
  <2>4. QED
      BY <1>1, <1>2, <1>6, <2>2, <2>3 DEF IInv, Running
<1>10. Counting'
  <2>1. payload[s] \notin Known /\ Known' = Known \cup {payload[s]}
      BY <1>3, <1>5 DEF Known
  <2>2. Cardinality(Known') = Cardinality(Known) + 1
      BY <2>1, KnownFinite, FS_AddElement DEF IInv
  <2>3. QED
      BY <1>1, <1>2, <1>4, <2>2, KnownFinite DEF IInv, Counting
<1>11. Resulting'
  <2>1. SUFFICES ASSUME "nullResult" \notin Faults,  NEW r \in Senders,
                        pc'[r] = "pin" \/ (pc'[r] = "reply" /\ IsResult(reply'[r]))
                 PROVE  executed'[payload[r]] > 0 /\ using[r] \in speaks
      BY <1>2 DEF IInv, Resulting, PinnedIsSpoken
  <2>2. CASE r = s
      BY <1>1, <1>3, <1>5, <2>2
  <2>3. CASE r # s
    <3>1. pc'[r] = pc[r] /\ reply'[r] = reply[r] /\ pc[r] # "idle"
        BY <1>1, <1>2, <2>1, <2>3
    <3>2. payload[r] \in Payloads
        BY <3>1 DEF IInv, TypeOK, Sending, Payloads
    <3>3. executed[payload[r]] > 0 /\ using[r] \in speaks
        BY <2>1, <3>1 DEF IInv, Resulting
    <3>4. QED
        BY <1>5, <3>2, <3>3
  <2>4. QED
      BY <2>2, <2>3
<1>12. Conversing'
  <2>1. pc[s] # "idle" /\ ~\A r \in Senders : payload'[r] = 0
      BY <1>1, <1>2, <1>3
  <2>2. SUFFICES ASSUME "nullResult" \notin Faults, NEW r \in Senders, Alone(r) PROVE InOneTask(r)'
      BY <1>2, <2>1 DEF Conversing, Alone
  <2>3. r = s /\ InOneTask(s)
      BY <2>1, <2>2, AloneInside DEF IInv, Conversing
  <2>4. dialect \in Dialects \cup {"auto"} /\ using[s] \in speaks
      BY <1>1, <1>3 DEF IInv, TypeOK
  <2>5. "V03" \notin speaks => using[s] = "V02"
      BY <2>4 DEF IInv, TypeOK, Dialects
  <2>6. "V03" \in speaks => using[s] = "V03"
      BY <1>1, <2>3, <2>4 DEF InOneTask, Dialects
  <2>7. "V03" \notin speaks => context' \subseteq {taskID}
      BY <1>1, <1>3, <2>3, <2>5 DEF InOneTask
  <2>8. "V03" \in speaks /\ serverTaskID # NoTask => context' \subseteq {serverTaskID}
      BY <1>1, <2>3 DEF InOneTask
  <2>9. "V03" \in speaks /\ serverTaskID = NoTask => context' = {} \/ (kind = "task" /\ context' = {task})
      BY <1>1, <2>3 DEF InOneTask
  <2>10. InOneTask(s)'
      BY <1>2, <1>6, <2>1, <2>3, <2>7, <2>8, <2>9 DEF InOneTask
  <2>11. QED
      BY <2>3, <2>10
<1>13. QED
    BY <1>7, <1>8, <1>9, <1>10, <1>11, <1>12 DEF IInv

\* The agent, or something before it, does not run the payload.
LEMMA RefuseInv ==
    ASSUME IInv, NEW s \in Senders, Unknown(s) \/ Refuse(s)
    PROVE  IInv'
<1>1. TypeOK'
  <2>1. PICK kind \in {"methodNotFound", "infra", "error", "null"} :
            reply' = [reply EXCEPT ![s] = [kind |-> kind, task |-> NoTask]]
      BY DEF Unknown, Refuse, Answer
  <2>2. reply' \in [Senders -> [kind : {"none", "task", "message", "null", "methodNotFound",
                                        "error", "lost", "infra"},
                                task : Tasks \cup {NoTask}]]
      BY <2>1 DEF IInv, TypeOK
  <2>3. pc' = [pc EXCEPT ![s] = "reply"]
      BY DEF Unknown, Refuse, Answer, Goto
  <2>4. UNCHANGED <<dialect, taskID, serverTaskID, using, payload, request, outcome, speaks,
                    executed, context, ids>>
      BY DEF Unknown, Refuse, connectorVars, agentVars
  <2>5. QED
      BY <2>2, <2>3, <2>4 DEF IInv, TypeOK
<1>2. Sending'
    BY DEF IInv, TypeOK, Sending, Unknown, Refuse, Answer, Goto, connectorVars, agentVars
<1>3. Running'
    BY DEF IInv, TypeOK, Sending, Running, ExecutedOnce, Unknown, Refuse, Answer, Goto, agentVars
<1>4. Counting'
    BY DEF IInv, Counting, Known, Unknown, Refuse, connectorVars, agentVars
<1>5. Resulting'
    BY SentBounds, IdsBounded
       DEF IInv, TypeOK, Running, Resulting, PinnedIsSpoken, IsResult, Unknown, Refuse, Answer,
           Goto, connectorVars, agentVars
<1>6. Conversing'
    BY DEF IInv, Sending, Conversing, InOneTask, Alone, Unknown, Refuse, connectorVars, agentVars
<1>7. QED
    BY <1>1, <1>2, <1>3, <1>4, <1>5, <1>6 DEF IInv

-----------------------------------------------------------------------------
(* The invariant, and what follows from it.                                *)

\* The inductive invariant holds in every state of every run.
THEOREM Invariance == Spec => []IInv
<1>1. Init => IInv
  <2>1. SUFFICES ASSUME Init PROVE IInv
      OBVIOUS
  <2>2. MaxSends \in Nat /\ Known = {} /\ Cardinality(Known) = 0
    <3>1. Known = {}
        BY <2>1 DEF Init, Known
    <3>2. QED
        BY <3>1, BoundAssumption, FS_EmptySet
  <2>3. TypeOK
      BY <2>1, <2>2 DEF Init, TypeOK, NoReply, Dialects
  <2>4. Sending /\ Running
      BY <2>1 DEF Init, Sending, Running, ExecutedOnce
  <2>5. Counting
      BY <2>1, <2>2 DEF Init, Counting
  <2>6. Resulting /\ Conversing
      BY <2>1 DEF Init, Resulting, PinnedIsSpoken, Conversing, InOneTask
  <2>7. QED
      BY <2>3, <2>4, <2>5, <2>6 DEF IInv
<1>2. IInv /\ [Next]_vars => IInv'
  <2>1. SUFFICES ASSUME IInv, [Next]_vars PROVE IInv'
      OBVIOUS
  <2>2. CASE Next
    <3>1. PICK s \in Senders : Send(s) \/ SendStep(s)
        BY <2>2 DEF Next
    <3>2. CASE Send(s)
        BY <2>1, <3>2, SendInv
    <3>3. CASE SendStep(s)
        BY <2>1, <3>3, ComposeInv, RememberInv, PinInv, FallBackInv, FailInv, ExecuteInv, RefuseInv
           DEF SendStep
    <3>4. QED
        BY <3>1, <3>2, <3>3
  <2>3. CASE UNCHANGED vars
      BY <2>1, <2>3
         DEF vars, connectorVars, sendVars, agentVars, IInv, TypeOK, Sending, Running,
             ExecutedOnce, Counting, Known, Resulting, PinnedIsSpoken, Conversing, Alone,
             InOneTask
  <2>4. QED
      BY <2>1, <2>2, <2>3
<1>3. QED
    BY <1>1, <1>2, PTL DEF Spec

\* The variables have their types; in particular both sides never need more
\* task ids than the payloads, and the one minted here, account for.
THEOREM TypeCorrect == Spec => []TypeOK
<1>1. IInv => TypeOK
    BY DEF IInv
<1>2. QED
    BY <1>1, Invariance, PTL

\* A2AConnector.Send: falling back to the older dialect never repeats a payload
\* that the agent ran, with any number of Sends inside and any replies lost.
THEOREM OnceOnly == Spec => []ExecutedOnce
<1>1. IInv => ExecutedOnce
    BY DEF IInv, Running
<1>2. QED
    BY <1>1, Invariance, PTL

\* A2AConnector.Send pins a dialect the agent speaks or none, if no agent
\* answers an error with a null result.
THEOREM PinnedSpoken ==
    ASSUME "nullResult" \notin Faults
    PROVE  Spec => []PinnedIsSpoken
<1>1. IInv => PinnedIsSpoken
    BY DEF IInv, Resulting
<1>2. QED
    BY <1>1, Invariance, PTL

\* Sends that come one at a time always reach the agent, and only in one task.
THEOREM OneTask ==
    ASSUME "nullResult" \notin Faults
    PROVE  Spec => []SequentialConversation
<1> DEFINE S == {s \in Senders : payload[s] # 0}
<1>1. ASSUME IInv, Sequential PROVE AgentReached /\ Cardinality(context) <= 1
  <2>1. IsFiniteSet(S) /\ Cardinality(S) \in Nat /\ Cardinality(S) <= 1
      BY <1>1, SendersAssumption, FS_Subset, FS_CardinalityType DEF Sequential
  <2>2. CASE Cardinality(S) = 0
    <3>1. \A s \in Senders : payload[s] = 0
        BY <2>1, <2>2, FS_EmptySet
    <3>2. AgentReached
        BY <1>1, <3>1 DEF IInv, Sending, AgentReached
    <3>3. context = {} /\ Cardinality(context) = 0
        BY <1>1, <3>1, FS_EmptySet DEF IInv, Conversing
    <3>4. QED
        BY <3>2, <3>3
  <2>3. CASE Cardinality(S) = 1
    <3>1. PICK s \in Senders : S = {s}
        BY <2>1, <2>3, FS_Singleton
    <3>2. Alone(s) /\ InOneTask(s) /\ \A r \in Senders \ {s} : payload[r] = 0
        BY <1>1, <3>1 DEF IInv, Conversing, Alone
    <3>3. AgentReached
        BY <1>1, <3>2 DEF IInv, Sending, InOneTask, AgentReached
    <3>4. PICK k : context \subseteq {k}
        BY <3>2 DEF InOneTask
    <3>5. IsFiniteSet({k}) /\ Cardinality({k}) = 1
        BY FS_Singleton
    <3>6. QED
        BY <3>3, <3>4, <3>5, FS_Subset
  <2>4. QED
      BY <2>1, <2>2, <2>3
<1>2. IInv => SequentialConversation
    BY <1>1 DEF SequentialConversation
<1>3. QED
    BY <1>2, Invariance, PTL

\* A2AConnector.Send keeps the contract of target.go: a reply is returned for a
\* payload the agent ran, and everything else ends in an error.
THEOREM Refinement ==
    ASSUME "nullResult" \notin Faults
    PROVE  Spec => ImplementsTarget
<1> DEFINE A == [s \in Senders |-> IF pc[s] = "idle" THEN 0 ELSE payload[s]]
           R == [s \in Senders |-> IF outcome[s] \in {"none", "reply"} THEN outcome[s] ELSE "error"]
<1>1. Init => Target!Init
  <2>1. ASSUME Init PROVE {p \in Payloads : executed[p] > 0} = {}
      BY <2>1 DEF Init
  <2>2. ASSUME Init PROVE A = [s \in Senders |-> 0] /\ R = [s \in Senders |-> "none"]
      BY <2>2 DEF Init
  <2>3. QED
      BY <2>1, <2>2 DEF Target!Init
<1>2. IInv /\ [Next]_vars => [Target!Next]_(Target!vars)
  <2>1. SUFFICES ASSUME IInv, [Next]_vars PROVE [Target!Next]_(Target!vars)
      OBVIOUS
  <2>2. TypeOK
      BY <2>1 DEF IInv
  <2>3. ASSUME A' = A, Known' = Known, R' = R PROVE UNCHANGED Target!vars
      BY <2>3 DEF Target!vars, Known
  <2>4. ASSUME NEW s \in Senders, pc[s] # "idle", NEW l, pc' = [pc EXCEPT ![s] = l], l # "idle",
               UNCHANGED <<payload, outcome>>
        PROVE  A' = A /\ R' = R
      BY <2>4
  <2>5. ASSUME NEW s \in Senders, Send(s) PROVE Target!Ask(s)
    <3>1. /\ pc[s] = "idle" /\ pc' = [pc EXCEPT ![s] = "compose"]
          /\ payload' = [payload EXCEPT ![s] = Sent + 1]
          /\ outcome' = [outcome EXCEPT ![s] = "none"] /\ executed' = executed
        BY <2>5 DEF Send, Goto, agentVars
    <3>2. Sent + 1 \in Payloads /\ Sent + 1 > 0 /\ \A r \in Senders : payload[r] < Sent + 1
        BY <2>2, <2>5, SentBounds, BoundAssumption DEF Send, Payloads
    <3>3. Sent + 1 \notin Known
        BY <2>1, SentBounds DEF IInv, Sending, Known
    <3>4. A' = [A EXCEPT ![s] = Sent + 1] /\ R' = [R EXCEPT ![s] = "none"]
        BY <2>2, <3>1 DEF TypeOK
    <3>5. A[s] = 0 /\ \A r \in Senders : A[r] # Sent + 1
        BY <2>2, <3>1, SentBounds
    <3>6. Known' = Known
        BY <3>1 DEF Known
    <3>7. QED
        BY <3>2, <3>3, <3>4, <3>5, <3>6 DEF Target!Ask, Known
  <2>6. ASSUME NEW s \in Senders, Compose(s) \/ Remember(s) \/ FallBack(s) \/ Unknown(s) \/ Refuse(s)
        PROVE  UNCHANGED Target!vars
    <3>1. PICK l : pc[s] # "idle" /\ pc' = [pc EXCEPT ![s] = l] /\ l # "idle"
        BY <2>6 DEF Compose, Remember, FallBack, Unknown, Refuse, Answer, Goto
    <3>2. UNCHANGED <<payload, outcome, executed>>
        BY <2>6 DEF Compose, Remember, FallBack, Unknown, Refuse, agentVars
    <3>3. Known' = Known
        BY <3>2 DEF Known
    <3>4. QED
        BY <2>3, <3>1, <3>2, <3>3
  <2>7. ASSUME NEW s \in Senders, Execute(s) PROVE Target!Reach(s)
    <3>1. /\ pc[s] = "request" /\ pc' = [pc EXCEPT ![s] = "reply"]
          /\ executed' = [executed EXCEPT ![payload[s]] = @ + 1]
          /\ UNCHANGED <<payload, outcome>>
        BY <2>7 DEF Execute, Answer, Goto
    <3>2. payload[s] \in Payloads /\ payload[s] # 0
      <4>1. payload[s] > 0 /\ payload[s] \in 0 .. MaxSends
          BY <2>1, <3>1 DEF IInv, TypeOK, Sending
      <4>2. QED
          BY <4>1 DEF Payloads
    <3>3. A' = A /\ R' = R /\ A[s] = payload[s]
        BY <3>1
    <3>4. Known' = Known \cup {payload[s]}
        BY <2>2, <3>1, <3>2 DEF TypeOK, Known
    <3>5. QED
        BY <3>2, <3>3, <3>4 DEF Target!Reach, Known
  <2>8. ASSUME NEW s \in Senders, NEW o, Return(s, o), pc[s] # "idle", UNCHANGED <<payload, executed>>
        PROVE  /\ A[s] = payload[s] /\ A[s] # 0 /\ A' = [A EXCEPT ![s] = 0] /\ Known' = Known
               /\ R' = [R EXCEPT ![s] = IF o \in {"none", "reply"} THEN o ELSE "error"]
    <3>1. pc' = [pc EXCEPT ![s] = "idle"] /\ outcome' = [outcome EXCEPT ![s] = o]
        BY <2>8 DEF Return, Goto
    <3>2. A[s] = payload[s] /\ A[s] # 0
        BY <2>1, <2>8 DEF IInv, Sending
    <3>3. A' = [A EXCEPT ![s] = 0] /\ R' = [R EXCEPT ![s] = IF o \in {"none", "reply"} THEN o ELSE "error"]
        BY <2>2, <2>8, <3>1 DEF TypeOK
    <3>4. QED
        BY <2>8, <3>2, <3>3 DEF Known
  <2>9. ASSUME NEW s \in Senders, Pin(s) PROVE Target!Reply(s)
    <3>1. pc[s] = "pin" /\ Return(s, "reply") /\ UNCHANGED <<payload, executed>>
        BY <2>9 DEF Pin, agentVars
    <3>2. executed[payload[s]] > 0
        BY <2>1, <3>1 DEF IInv, Resulting
    <3>3. payload[s] \in Payloads
      <4>1. payload[s] > 0 /\ payload[s] \in 0 .. MaxSends
          BY <2>1, <3>1 DEF IInv, TypeOK, Sending
      <4>2. QED
          BY <4>1 DEF Payloads
    <3>4. QED
        BY <2>8, <3>1, <3>2, <3>3 DEF Target!Reply, Target!Return
  <2>10. ASSUME NEW s \in Senders, Fail(s) PROVE Target!Fail(s)
    <3>1. /\ pc[s] = "reply" /\ ~IsResult(reply[s]) /\ Return(s, reply[s].kind)
          /\ UNCHANGED <<payload, executed>>
        BY <2>10 DEF Fail, agentVars
    <3>2. reply[s].kind \notin {"none", "reply"}
        BY <2>1, <3>1 DEF IInv, TypeOK, Sending
    <3>3. QED
        BY <2>8, <3>1, <3>2 DEF Target!Fail, Target!Return
  <2>11. CASE UNCHANGED vars
      BY <2>3, <2>11 DEF vars, sendVars, agentVars, Known
  <2>12. ASSUME NEW s \in Senders, Send(s) \/ SendStep(s)
         PROVE  Target!Next \/ UNCHANGED Target!vars
      BY <2>5, <2>6, <2>7, <2>9, <2>10, <2>12 DEF SendStep, Target!Next
  <2>13. QED
      BY <2>1, <2>11, <2>12 DEF Next
<1>3. QED
    BY <1>1, <1>2, Invariance, PTL DEF Spec, ImplementsTarget, Target!Spec
-----------------------------------------------------------------------------
(* How far a Send can go.                                                  *)

\* From each place, how many steps to the end of a Send.
Left(l) ==
    CASE l = "idle" -> 0 [] l = "pin" -> 1 [] l = "reply" -> 2 [] l = "request" -> 3
      [] l = "compose" -> 4

LEMMA Lefts ==
    Left("idle") = 0 /\ Left("pin") = 1 /\ Left("reply") = 2 /\ Left("request") = 3 /\ Left("compose") = 4
BY DEF Left

\* How many steps the Send of s can still take: three more where it can still try
\* the older dialect.
Ahead(s) ==
    Left(pc[s]) + IF using[s] = "V03" /\ pc[s] \in {"compose", "request", "reply"} THEN 3 ELSE 0

LEMMA AheadBounded ==
    ASSUME TypeOK, NEW s \in Senders
    PROVE  Ahead(s) \in 0 .. 7 /\ (Ahead(s) = 0 <=> pc[s] = "idle")
<1>1. /\ pc[s] \in {"idle", "compose", "request", "reply", "pin"}
      /\ using[s] \in Dialects
    BY DEF TypeOK
<1>2. QED
    BY <1>1, Lefts DEF Ahead

\* Every step of a Send brings it nearer its end, which is at most seven steps from
\* its beginning, and no Send beside it takes it further away: it tries each
\* dialect once at most, however the dialect is renegotiated under it.
THEOREM SendsAreBounded ==
    Spec => [][\A s \in Senders : /\ SendStep(s) => Ahead(s)' < Ahead(s)
                                  /\ pc[s] # "idle" => Ahead(s)' <= Ahead(s)]_vars
<1>1. ASSUME TypeOK, NEW s \in Senders, SendStep(s)
      PROVE  Ahead(s)' < Ahead(s) /\ Ahead(s)' \in Int /\ pc[s] # "idle"
             /\ \A r \in Senders \ {s} : pc'[r] = pc[r] /\ using'[r] = using[r]
  <2> USE DEF TypeOK, Goto, Return
  <2>1. CASE Compose(s)
      BY <1>1, <2>1, Lefts DEF Compose, Ahead
  <2>2. CASE Remember(s) \/ Pin(s)
      BY <1>1, <2>2, Lefts DEF Remember, Pin, Ahead
  <2>3. CASE FallBack(s)
      BY <1>1, <2>3, Lefts DEF FallBack, EarnsRetry, Ahead, Dialects
  <2>4. CASE Fail(s)
      BY <1>1, <2>4, Lefts DEF Fail, Ahead
  <2>5. CASE Execute(s) \/ Unknown(s) \/ Refuse(s)
    <3>1. /\ pc[s] = "request" /\ pc' = [pc EXCEPT ![s] = "reply"] /\ using' = using
        BY <2>5 DEF Execute, Unknown, Refuse, Answer
    <3>2. QED
        BY <1>1, <3>1, Lefts DEF Ahead
  <2>6. QED
      BY <1>1, <2>1, <2>2, <2>3, <2>4, <2>5 DEF SendStep
<1>2. ASSUME TypeOK, Next, NEW s \in Senders, pc[s] # "idle" PROVE Ahead(s)' <= Ahead(s)
  <2>1. PICK r \in Senders : Send(r) \/ SendStep(r)
      BY <1>2 DEF Next
  <2>2. Ahead(s) \in Int
      BY <1>2, AheadBounded
  <2>3. CASE r = s
    <3>1. SendStep(s)
        BY <1>2, <2>1, <2>3 DEF Send
    <3>2. QED
        BY <1>1, <1>2, <2>2, <3>1
  <2>4. CASE r # s
    <3>1. pc'[s] = pc[s] /\ using'[s] = using[s]
        BY <1>1, <1>2, <2>1, <2>4 DEF Send, Goto, TypeOK
    <3>2. Ahead(s)' = Ahead(s)
        BY <3>1 DEF Ahead
    <3>3. QED
        BY <2>2, <3>2
  <2>5. QED
      BY <2>3, <2>4
<1>3. TypeOK /\ Next => \A s \in Senders : /\ SendStep(s) => Ahead(s)' < Ahead(s)
                                           /\ pc[s] # "idle" => Ahead(s)' <= Ahead(s)
    BY <1>1, <1>2
<1>4. QED
    BY <1>3, TypeCorrect, PTL DEF Spec
===============================================================================
