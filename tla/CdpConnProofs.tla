---------------------------- MODULE CdpConnProofs ----------------------------
(***************************************************************************)
(* Theorems about CdpConn, for every finite set of callers, any number of  *)
(* calls, ids remembered and unread messages, and any faults.              *)
(***************************************************************************)
EXTENDS CdpConn, SequenceTheorems, TLAPS

-----------------------------------------------------------------------------
(* The inductive invariant.                                                *)

\* No two callers have the same id.
Ids ==
    /\ \A c \in Callers : pc[c] # "idle" => id[c] > 0
    /\ \A c, d \in Callers : id[c] = id[d] /\ id[c] > 0 => c = d

\* A command or message with the id of a call is that call's.
Theirs(m) == \A c \in Callers : m.id = id[c] /\ m.id > 0 => m.by = c

Messages ==
    /\ \A q \in asked : Theirs(q)
    /\ \A i \in 1 .. Len(inbox) : Theirs(inbox[i])

\* A caller alone on the socket reads under the deadline of its own call.
Deadlines ==
    \A c \in Callers :
        pc[c] = "read" /\ (\A d \in Callers \ {c} : id[d] = 0) => deadline = id[c]

IInv == TypeOK /\ Ids /\ Messages /\ Deadlines /\ OwnReply /\ TimeoutIsOwn

-----------------------------------------------------------------------------
\* The counters are numbers, and the inbox is a sequence.
LEMMA Typed ==
    ASSUME TypeOK
    PROVE  /\ MaxIDs \in Nat
           /\ \A c \in Callers : id[c] \in Nat
           /\ \A q \in asked : q.id \in Nat /\ q.id > 0
           /\ \A i \in 1 .. Len(inbox) : inbox[i].id \in Nat
           /\ inbox \in Seq([id : 0 .. MaxIDs, by : Callers \cup {NoCaller}, kind : Kinds])
<1>1. MaxIDs \in Nat
    BY BoundsAssumption
<1>2. inbox \in Seq([id : 0 .. MaxIDs, by : Callers \cup {NoCaller}, kind : Kinds])
    BY DEF TypeOK
<1>3. \A i \in 1 .. Len(inbox) : inbox[i] \in [id : 0 .. MaxIDs, by : Callers \cup {NoCaller}, kind : Kinds]
    BY <1>2, ElementOfSeq
<1>4. QED
    BY <1>1, <1>3 DEF TypeOK, IDs

-----------------------------------------------------------------------------
(* Each action keeps the invariant.                                        *)

\* A call takes an id that no command or message has.
LEMMA CallInv ==
    ASSUME IInv, NEW c \in Callers, Call(c)
    PROVE  IInv'
<1> DEFINE i == CHOOSE i \in Fresh : TRUE
<1>1. /\ i \in Fresh /\ id' = [id EXCEPT ![c] = i] /\ late' = late \ {i}
      /\ pc' = [pc EXCEPT ![c] = "write"] /\ outcome' = [outcome EXCEPT ![c] = [how |-> "none"]]
      /\ UNCHANGED <<wire, deadline, inbox, asked>>
    BY DEF Call, wireVars
<1> HIDE DEF i
<1>2. /\ i \in IDs /\ i \in 0 .. MaxIDs /\ i > 0 /\ i # deadline /\ \A d \in Callers : id[d] # i
      /\ \A q \in asked : q.id # i
      /\ \A k \in 1 .. Len(inbox) : inbox[k].id # i
    BY <1>1, BoundsAssumption DEF Fresh, IDs, IInv, TypeOK
<1>3. TypeOK'
  <2>1. [how |-> "none"] \in Outcomes
      BY DEF Outcomes
  <2>2. QED
      BY <1>1, <1>2, <2>1 DEF IInv, TypeOK
<1>4. Ids'
    BY <1>1, <1>2 DEF IInv, TypeOK, Ids
<1>5. Messages'
  <2>1. ASSUME NEW m, m.id # i, Theirs(m) PROVE Theirs(m)'
      BY <1>1, <2>1 DEF IInv, TypeOK, Theirs
  <2>2. QED
      BY <1>1, <1>2, <2>1 DEF IInv, Messages
<1>6. Deadlines'
    BY <1>1, <1>2 DEF IInv, TypeOK, Deadlines
<1>7. OwnReply'
    BY DEF IInv, OwnReply, Call
<1>8. TimeoutIsOwn'
    BY <1>1, <1>2 DEF IInv, TypeOK, TimeoutIsOwn
<1>9. QED
    BY <1>3, <1>4, <1>5, <1>6, <1>7, <1>8 DEF IInv

\* A command is Chrome's to answer, or the write fails.
LEMMA WriteInv ==
    ASSUME IInv, NEW c \in Callers, Write(c) \/ WriteFails(c)
    PROVE  IInv'
<1>1. TypeOK'
  <2>1. CASE Write(c)
    <3>1. id[c] \in IDs
        BY <2>1, BoundsAssumption DEF IInv, TypeOK, Ids, IDs, Write
    <3>2. asked' \subseteq [id : IDs, by : Callers]
        BY <2>1, <3>1 DEF IInv, TypeOK, Write
    <3>3. QED
        BY <2>1, <3>2 DEF IInv, TypeOK, Write, wireVars
  <2>2. CASE WriteFails(c)
    <3>1. outcome' = [outcome EXCEPT ![c] = [how |-> "failed"]] /\ pc' = [pc EXCEPT ![c] = "idle"]
          /\ UNCHANGED <<id, late, wire, deadline, inbox, asked>>
        BY <2>2 DEF WriteFails, Return, wireVars
    <3>2. [how |-> "failed"] \in Outcomes
        BY DEF Outcomes
    <3>3. QED
        BY <3>1, <3>2 DEF IInv, TypeOK
  <2>3. QED
      BY <2>1, <2>2
<1>2. Ids'
    BY DEF IInv, TypeOK, Ids, Write, WriteFails, Return
<1>3. Messages'
    BY DEF IInv, Ids, Messages, Theirs, Write, WriteFails, wireVars
<1>4. Deadlines'
    BY DEF IInv, TypeOK, Deadlines, Write, WriteFails, Return, wireVars
<1>5. OwnReply'
  <2>1. CASE Write(c)
      BY <2>1 DEF IInv, OwnReply, Write
  <2>2. CASE WriteFails(c)
    <3>1. outcome' = [outcome EXCEPT ![c] = [how |-> "failed"]] /\ outcome'[c].how = "failed"
        BY <2>2 DEF IInv, TypeOK, WriteFails, Return
    <3>2. \A d \in Callers \ {c} : outcome'[d] = outcome[d]
        BY <3>1 DEF IInv, TypeOK
    <3>3. QED
        BY <3>1, <3>2 DEF IInv, OwnReply
  <2>3. QED
      BY <2>1, <2>2
<1>6. TimeoutIsOwn'
  <2>1. /\ id' = id
        /\ outcome' = outcome \/ outcome' = [outcome EXCEPT ![c] = [how |-> "failed"]]
      BY DEF Write, WriteFails, Return
  <2>2. ASSUME NEW d \in Callers, outcome'[d].how = "timeout" PROVE outcome'[d] = outcome[d]
    <3>1. [how |-> "failed"].how # "timeout"
        OBVIOUS
    <3>2. QED
        BY <2>1, <2>2, <3>1 DEF IInv, TypeOK
  <2>3. QED
      BY <2>1, <2>2 DEF IInv, TimeoutIsOwn
<1>7. QED
    BY <1>1, <1>2, <1>3, <1>4, <1>5, <1>6 DEF IInv

\* The socket's deadline is that of the call that set it last.
LEMMA ArmInv ==
    ASSUME IInv, NEW c \in Callers, Arm(c)
    PROVE  IInv'
<1>1. TypeOK'
    BY DEF IInv, TypeOK, Arm
<1>2. Ids'
    BY DEF IInv, Ids, Arm
<1>3. Messages'
    BY DEF IInv, Messages, Theirs, Arm
<1>4. Deadlines'
    BY DEF IInv, Ids, Deadlines, Arm
<1>5. OwnReply'
    BY DEF IInv, OwnReply, Arm
<1>6. TimeoutIsOwn'
    BY DEF IInv, TimeoutIsOwn, Arm
<1>7. QED
    BY <1>1, <1>2, <1>3, <1>4, <1>5, <1>6 DEF IInv

\* A message is read, by the call it answers or by another.
LEMMA ReadInv ==
    ASSUME IInv, NEW c \in Callers, Discard(c) \/ Receive(c)
    PROVE  IInv'
<1>1. /\ inbox # <<>> /\ inbox' = Tail(inbox) /\ pc[c] = "read"
      /\ UNCHANGED <<id, late, wire, deadline, asked>>
      /\ \/ UNCHANGED <<pc, outcome>>
         \/ /\ Head(inbox).id = id[c]
            /\ pc' = [pc EXCEPT ![c] = "idle"]
            /\ \/ outcome' = [outcome EXCEPT ![c] = [how |-> "value", of |-> Head(inbox).by]]
               \/ outcome' = [outcome EXCEPT ![c] = [how |-> "failed"]]
    BY DEF Discard, Receive, Return, callVars
<1>2. /\ Len(inbox) \in Nat \ {0} /\ Head(inbox) = inbox[1] /\ Len(Tail(inbox)) = Len(inbox) - 1
      /\ Head(inbox) \in [id : 0 .. MaxIDs, by : Callers \cup {NoCaller}, kind : Kinds]
      /\ Tail(inbox) \in Seq([id : 0 .. MaxIDs, by : Callers \cup {NoCaller}, kind : Kinds])
      /\ \A i \in 1 .. Len(Tail(inbox)) : Tail(inbox)[i] = inbox[i + 1]
  <2>1. inbox \in Seq([id : 0 .. MaxIDs, by : Callers \cup {NoCaller}, kind : Kinds])
      BY Typed DEF IInv
  <2>2. Len(inbox) \in Nat \ {0}
      BY <1>1
  <2>3. Head(inbox) = inbox[1]
      OBVIOUS
  <2>4. QED
      BY <1>1, <2>1, <2>2, <2>3, HeadTailProperties
<1>3. TypeOK'
  <2>1. [how |-> "value", of |-> Head(inbox).by] \in Outcomes /\ [how |-> "failed"] \in Outcomes
      BY <1>2 DEF Outcomes
  <2>2. outcome' \in [Callers -> Outcomes] /\ pc' \in [Callers -> {"idle", "write", "arm", "read"}]
      BY <1>1, <2>1 DEF IInv, TypeOK
  <2>3. QED
      BY <1>1, <2>2 DEF IInv, TypeOK
<1>4. Ids'
    BY DEF IInv, TypeOK, Ids, Discard, Receive, Return, callVars
<1>5. Messages'
  <2>1. \A i \in 1 .. Len(inbox') : i + 1 \in 1 .. Len(inbox) /\ inbox'[i] = inbox[i + 1]
      BY <1>1
  <2>2. \A i \in 1 .. Len(inbox') : Theirs(inbox[i + 1])
      BY <2>1 DEF IInv, Messages
  <2>3. QED
      BY <1>1 DEF IInv, Messages, Theirs
<1>6. Deadlines'
    BY DEF IInv, Ids, Deadlines, Discard, Receive, callVars
<1>7. OwnReply'
  <2>1. Theirs(Head(inbox)) /\ id[c] > 0
      BY <1>1 DEF IInv, Ids, Messages
  <2>2. Head(inbox).id = id[c] => Head(inbox).by = c
      BY <2>1 DEF Theirs
  <2>3. ASSUME NEW d \in Callers, outcome'[d].how = "value" PROVE outcome'[d].of = d
    <3>1. CASE outcome'[d] = outcome[d]
        BY <2>3, <3>1 DEF IInv, OwnReply
    <3>2. CASE outcome'[d] # outcome[d]
      <4>1. d = c /\ Head(inbox).id = id[c]
          BY <1>1, <3>2 DEF IInv, TypeOK
      <4>2. outcome'[c] = [how |-> "value", of |-> Head(inbox).by] \/ outcome'[c] = [how |-> "failed"]
          BY <1>1, <3>2 DEF IInv, TypeOK
      <4>3. QED
          BY <2>2, <2>3, <4>1, <4>2
    <3>3. QED
        BY <3>1, <3>2
  <2>4. QED
      BY <2>3 DEF OwnReply
<1>8. TimeoutIsOwn'
    BY BoundsAssumption, HeadTailProperties
       DEF IInv, TypeOK, Deadlines, TimeoutIsOwn, Discard, Receive, Return, callVars
<1>9. QED
    BY <1>3, <1>4, <1>5, <1>6, <1>7, <1>8 DEF IInv

\* A read fails.
LEMMA ReadFailsInv ==
    ASSUME IInv, NEW c \in Callers, ReadTimeout(c) \/ ReadFails(c) \/ TornRead(c)
    PROVE  IInv'
<1>1. PICK own \in BOOLEAN :
          /\ pc[c] = "read" /\ pc' = [pc EXCEPT ![c] = "idle"]
          /\ wire' \in {"open", "unreadable", "gone"}
          /\ UNCHANGED <<id, late, deadline, inbox, asked>>
          /\ \/ outcome' = [outcome EXCEPT ![c] = [how |-> "failed"]]
             \/ /\ deadline \in late /\ (own <=> id[c] \in late)
                /\ outcome' = [outcome EXCEPT ![c] = [how |-> "timeout", own |-> own]]
  <2>1. CASE ReadTimeout(c)
    <3>1. PICK own \in BOOLEAN : own <=> id[c] \in late
        OBVIOUS
    <3>2. outcome' = [outcome EXCEPT ![c] = [how |-> "timeout", own |-> own]]
        BY <2>1, <3>1 DEF ReadTimeout, Return
    <3>3. QED
        BY <2>1, <3>1 DEF ReadTimeout, Return
  <2>2. CASE ReadFails(c) \/ TornRead(c)
      BY <2>2 DEF IInv, TypeOK, ReadFails, TornRead, Return, wireVars
  <2>3. QED
      BY <2>1, <2>2
<1>2. TypeOK'
  <2>1. [how |-> "timeout", own |-> own] \in Outcomes /\ [how |-> "failed"] \in Outcomes
      BY DEF Outcomes
  <2>2. outcome' \in [Callers -> Outcomes]
      BY <1>1, <2>1 DEF IInv, TypeOK
  <2>3. QED
      BY <1>1, <2>2 DEF IInv, TypeOK
<1>3. Ids'
    BY DEF IInv, TypeOK, Ids, ReadTimeout, ReadFails, TornRead, Return
<1>4. Messages'
    BY DEF IInv, Messages, Theirs, ReadTimeout, ReadFails, TornRead, wireVars
<1>5. Deadlines'
    BY DEF IInv, Ids, Deadlines, ReadTimeout, ReadFails, TornRead, Return, wireVars
<1>6. OwnReply'
  <2>1. ASSUME NEW d \in Callers, outcome'[d].how = "value" PROVE outcome'[d] = outcome[d]
    <3>1. [how |-> "failed"].how # "value" /\ [how |-> "timeout", own |-> own].how # "value"
        OBVIOUS
    <3>2. QED
        BY <1>1, <2>1, <3>1 DEF IInv, TypeOK
  <2>2. QED
      BY <2>1 DEF IInv, OwnReply
<1>7. TimeoutIsOwn'
  <2>1. SUFFICES ASSUME NEW d \in Callers, outcome'[d].how = "timeout", \A e \in Callers \ {d} : id[e] = 0
                 PROVE  outcome'[d].own
      BY <1>1 DEF TimeoutIsOwn
  <2>2. CASE d = c
    <3>1. deadline \in late /\ (own <=> id[c] \in late) /\ outcome'[d] = [how |-> "timeout", own |-> own]
        BY <1>1, <2>1, <2>2 DEF IInv, TypeOK
    <3>2. own
        BY <1>1, <2>1, <2>2, <3>1 DEF IInv, Deadlines
    <3>3. QED
        BY <3>1, <3>2
  <2>3. CASE d # c
    <3>1. outcome'[d] = outcome[d]
        BY <1>1, <2>3 DEF IInv, TypeOK
    <3>2. QED
        BY <2>1, <3>1 DEF IInv, TimeoutIsOwn
  <2>4. QED
      BY <2>2, <2>3
<1>8. QED
    BY <1>2, <1>3, <1>4, <1>5, <1>6, <1>7 DEF IInv

\* Chrome answers a command it has received.
LEMMA AnswerInv ==
    ASSUME IInv, NEW q \in asked, NEW kind \in Kinds, Answer(q, kind)
    PROVE  IInv'
<1>1. TypeOK'
  <2>1. IDs \subseteq 0 .. MaxIDs
      BY BoundsAssumption DEF IDs
  <2>2. [id |-> q.id, by |-> q.by, kind |-> kind] \in [id : 0 .. MaxIDs, by : Callers \cup {NoCaller}, kind : Kinds]
      BY <2>1 DEF IInv, TypeOK
  <2>3. QED
      BY <2>2 DEF IInv, TypeOK, Answer, callVars
<1>2. Ids'
    BY DEF IInv, Ids, Answer, callVars
<1>3. Messages'
  <2>1. UNCHANGED id /\ asked' = asked \ {q} /\ Theirs(q)
        /\ inbox' = Append(inbox, [id |-> q.id, by |-> q.by, kind |-> kind])
      BY DEF IInv, Messages, Answer, callVars
  <2>2. ASSUME NEW m, Theirs(m) PROVE Theirs(m)'
      BY <2>1, <2>2 DEF Theirs
  <2>3. Theirs([id |-> q.id, by |-> q.by, kind |-> kind])
      BY <2>1 DEF Theirs
  <2>4. QED
      BY <2>1, <2>2, <2>3 DEF IInv, Messages
<1>4. Deadlines'
    BY DEF IInv, Deadlines, Answer, callVars
<1>5. OwnReply'
    BY DEF IInv, OwnReply, Answer, callVars
<1>6. TimeoutIsOwn'
    BY DEF IInv, TimeoutIsOwn, Answer, callVars
<1>7. QED
    BY <1>1, <1>2, <1>3, <1>4, <1>5, <1>6 DEF IInv

\* An event is nobody's.
LEMMA EventInv ==
    ASSUME IInv, EmitEvent
    PROVE  IInv'
<1>1. TypeOK'
    BY BoundsAssumption DEF IInv, TypeOK, Kinds, EmitEvent, Event, Kinds, callVars
<1>2. Ids'
    BY DEF IInv, Ids, EmitEvent, callVars
<1>3. Messages'
    BY Typed DEF IInv, Messages, Theirs, EmitEvent, Event, callVars
<1>4. Deadlines'
    BY DEF IInv, Deadlines, EmitEvent, callVars
<1>5. OwnReply'
    BY DEF IInv, OwnReply, EmitEvent, callVars
<1>6. TimeoutIsOwn'
    BY DEF IInv, TimeoutIsOwn, EmitEvent, callVars
<1>7. QED
    BY <1>1, <1>2, <1>3, <1>4, <1>5, <1>6 DEF IInv

\* A deadline passes.
LEMMA ExpireInv ==
    ASSUME IInv, NEW i \in IDs, Expire(i)
    PROVE  IInv'
<1>1. TypeOK'
    BY DEF IInv, TypeOK, Ids, Expire, wireVars
<1>2. Ids'
    BY DEF IInv, Ids, Expire
<1>3. Messages'
    BY DEF IInv, Messages, Theirs, Expire, wireVars
<1>4. Deadlines'
    BY DEF IInv, Deadlines, Expire, wireVars
<1>5. OwnReply'
    BY DEF IInv, OwnReply, Expire
<1>6. TimeoutIsOwn'
    BY DEF IInv, TimeoutIsOwn, Expire
<1>7. QED
    BY <1>1, <1>2, <1>3, <1>4, <1>5, <1>6 DEF IInv

\* The socket closes.
LEMMA GoneInv ==
    ASSUME IInv, Gone
    PROVE  IInv'
<1>1. TypeOK'
    BY DEF IInv, TypeOK, Gone, callVars
<1>2. Ids'
    BY DEF IInv, Ids, Gone, callVars
<1>3. Messages'
    BY DEF IInv, Messages, Theirs, Gone, callVars
<1>4. Deadlines'
    BY DEF IInv, Deadlines, Gone, callVars
<1>5. OwnReply'
    BY DEF IInv, OwnReply, Gone, callVars
<1>6. TimeoutIsOwn'
    BY DEF IInv, TimeoutIsOwn, Gone, callVars
<1>7. QED
    BY <1>1, <1>2, <1>3, <1>4, <1>5, <1>6 DEF IInv

-----------------------------------------------------------------------------
(* The theorems.                                                           *)

\* The invariant holds of every set of callers on one socket.
THEOREM Invariance == Spec => []IInv
<1>1. Init => IInv
  <2>1. SUFFICES ASSUME Init PROVE IInv
      OBVIOUS
  <2>2. deadline = 0 /\ late = {} /\ wire = "open" /\ asked = {} /\ inbox = <<>>
      BY <2>1 DEF Init
  <2>3. /\ pc = [c \in Callers |-> "idle"] /\ id = [c \in Callers |-> 0]
        /\ outcome = [c \in Callers |-> [how |-> "none"]]
      BY <2>1 DEF Init
  <2>4. 0 \in 0 .. MaxIDs /\ [how |-> "none"] \in Outcomes
      BY BoundsAssumption DEF Outcomes
  <2>5. inbox \in Seq([id : 0 .. MaxIDs, by : Callers \cup {NoCaller}, kind : Kinds]) /\ Len(inbox) = 0
      BY <2>2
  <2>6. TypeOK
      BY <2>2, <2>3, <2>4 DEF TypeOK
  <2>7. Ids /\ Messages
      BY <2>2, <2>3 DEF Ids, Messages
  <2>8. Deadlines /\ OwnReply /\ TimeoutIsOwn
      BY <2>3 DEF Deadlines, OwnReply, TimeoutIsOwn
  <2>9. QED
      BY <2>6, <2>7, <2>8 DEF IInv
<1>2. IInv /\ [Next]_vars => IInv'
  <2>1. SUFFICES ASSUME IInv, [Next]_vars PROVE IInv'
      OBVIOUS
  <2>2. ASSUME NEW c \in Callers, Call(c) PROVE IInv'
      BY <2>1, <2>2, CallInv
  <2>3. ASSUME NEW c \in Callers, CallerStep(c) PROVE IInv'
      BY <2>1, <2>3, WriteInv, ArmInv, ReadInv, ReadFailsInv DEF CallerStep
  <2>4. CASE \E i \in IDs : Expire(i)
      BY <2>1, <2>4, ExpireInv
  <2>5. CASE \E q \in asked, kind \in Kinds : Answer(q, kind)
      BY <2>1, <2>5, AnswerInv
  <2>6. CASE EmitEvent \/ Gone
      BY <2>1, <2>6, EventInv, GoneInv
  <2>7. CASE UNCHANGED vars
    <3>1. UNCHANGED <<pc, id, deadline, late, outcome, wire, asked, inbox>>
        BY <2>7 DEF vars, callVars, wireVars
    <3>2. TypeOK' /\ Ids' /\ Messages'
        BY <2>1, <3>1 DEF IInv, TypeOK, Ids, Messages, Theirs
    <3>3. Deadlines' /\ OwnReply' /\ TimeoutIsOwn'
        BY <2>1, <3>1 DEF IInv, Deadlines, OwnReply, TimeoutIsOwn
    <3>4. QED
        BY <3>2, <3>3 DEF IInv
  <2>8. QED
      BY <2>1, <2>2, <2>3, <2>4, <2>5, <2>6, <2>7 DEF Next
<1>3. QED
    BY <1>1, <1>2, PTL DEF Spec

\* Every variable keeps its type.
THEOREM TypeCorrect == Spec => []TypeOK
<1>1. IInv => TypeOK
    BY DEF IInv
<1>2. QED
    BY <1>1, Invariance, PTL

\* Nobody is handed the reply to another's command, however many callers read
\* from one socket.
THEOREM RepliesAreOwn == Spec => []OwnReply
<1>1. IInv => OwnReply
    BY DEF IInv
<1>2. QED
    BY <1>1, Invariance, PTL

\* A caller alone on the socket times out on its own deadline.
THEOREM TimeoutsAreOwn == Spec => []TimeoutIsOwn
<1>1. IInv => TimeoutIsOwn
    BY DEF IInv
<1>2. QED
    BY <1>1, Invariance, PTL
===============================================================================
