-------------------------- MODULE WebSocketConnProofs --------------------------
(***************************************************************************)
(* Theorems about WebSocketConn, for every supply of sockets, any number   *)
(* of Sends and probes, and every set of faults.                           *)
(***************************************************************************)
EXTENDS WebSocketConn, SequenceTheorems, TLAPS

-----------------------------------------------------------------------------
(* The inductive invariant.                                                *)

\* The open sockets are the connector's and the probe's, and a closed one has
\* nothing under way.
Sockets ==
    /\ conn # NoConn => socket[conn] # "closed" /\ conn # probe
    /\ probe # NoConn => socket[probe] # "closed"
    /\ NoSocketLeak
    /\ \A c \in Conns : socket[c] = "closed" => owed[c] = <<>> /\ frames[c] = <<>>

\* Between turns nothing is under way on the connector's socket; in a turn it is
\* the payload of this Send, or its answer.
Turn ==
    /\ pc \in {"write", "read"} => conn # NoConn
    /\ conn # NoConn /\ pc # "read" => owed[conn] = <<>> /\ frames[conn] = <<>>
    /\ pc = "read" => \/ owed[conn] = <<>> /\ frames[conn] \in {<<>>, <<sends>>}
                      \/ owed[conn] = <<sends>> /\ frames[conn] = <<>>

\* How a Send has ended is not known before it has.
Ends ==
    /\ pc # "idle" => sends > 0 /\ outcome.how = "none" /\ denials = 0
    /\ OwnAnswer
    /\ DeniedIsFinal

\* The payload under way has been received at most once per attempt.
Deliveries ==
    \A m \in Payloads :
        /\ received[m] <= 2
        /\ m > sends => received[m] = 0
        /\ m = sends => received[m] <= attempt + 1
        /\ m = sends /\ pc \in {"connect", "write"} => received[m] <= attempt

\* Where a socket drops between turns only, an attempt that fails was the first
\* one and its payload was lost, and the second has a socket that is up.
IdleDrops ==
    weather = {"idleDrop"} =>
        /\ outcome.how # "error"
        /\ \A m \in Payloads : received[m] <= 1
        /\ pc \in {"connect", "write"} => received[sends] = 0
        /\ pc = "connect" /\ attempt = 1 => conn = NoConn
        /\ pc = "write" /\ attempt = 1 => socket[conn] = "up"
        /\ pc = "read" /\ socket[conn] = "down" => attempt = 0 /\ received[sends] = 0

IInv == TypeOK /\ Sockets /\ Turn /\ Ends /\ Deliveries /\ IdleDrops

-----------------------------------------------------------------------------
(* Sequences with at most one element.                                     *)

\* What Append, Head and Tail are on them.
LEMMA AtMostOne ==
    ASSUME NEW m
    PROVE  /\ Append(<<>>, m) = <<m>>
           /\ Head(<<m>>) = m /\ Tail(<<m>>) = <<>> /\ <<m>> # <<>>
OBVIOUS

\* What is written on a socket, and what is read of it, are payloads.
LEMMA Queued ==
    ASSUME TypeOK, NEW c \in Conns
    PROVE  /\ \A m \in Payloads \cup {Probe} : Append(owed[c], m) \in Seq(Payloads \cup {Probe})
           /\ owed[c] # <<>> => /\ Tail(owed[c]) \in Seq(Payloads \cup {Probe})
                               /\ Append(frames[c], Head(owed[c])) \in Seq(Payloads \cup {Probe})
           /\ frames[c] # <<>> => /\ Tail(frames[c]) \in Seq(Payloads \cup {Probe})
                                 /\ Head(frames[c]) \in Payloads \cup {Probe}
BY DEF TypeOK

-----------------------------------------------------------------------------
(* Each action keeps the invariant.                                        *)

\* A turn begins.
LEMMA SendInv ==
    ASSUME IInv, Send
    PROVE  IInv'
<1>1. TypeOK'
    BY BoundsAssumption DEF IInv, TypeOK, Send, wireVars, probeVars
<1>2. Sockets'
    BY DEF IInv, Sockets, NoSocketLeak, Send, wireVars, probeVars
<1>3. Turn'
    BY DEF IInv, Turn, Send, wireVars
<1>4. Ends'
    BY DEF IInv, TypeOK, Ends, OwnAnswer, DeniedIsFinal, Send
<1>5. Deliveries'
    BY DEF IInv, TypeOK, Deliveries, Payloads, Send, wireVars
<1>6. IdleDrops'
    BY BoundsAssumption DEF IInv, TypeOK, Deliveries, IdleDrops, Payloads, Send, wireVars
<1>7. QED
    BY <1>1, <1>2, <1>3, <1>4, <1>5, <1>6 DEF IInv

\* The live socket is used again.
LEMMA ReuseInv ==
    ASSUME IInv, Reuse
    PROVE  IInv'
<1>1. TypeOK'
    BY DEF IInv, TypeOK, Reuse, wireVars, probeVars
<1>2. Sockets'
    BY DEF IInv, Sockets, NoSocketLeak, Reuse, wireVars, probeVars
<1>3. Turn'
    BY DEF IInv, Turn, Reuse, wireVars
<1>4. Ends'
    BY DEF IInv, Ends, OwnAnswer, DeniedIsFinal, Reuse
<1>5. Deliveries'
    BY DEF IInv, Deliveries, Reuse, wireVars
<1>6. IdleDrops'
    BY DEF IInv, IdleDrops, Reuse, wireVars
<1>7. QED
    BY <1>1, <1>2, <1>3, <1>4, <1>5, <1>6 DEF IInv

\* A new socket has nothing under way.
LEMMA DialInv ==
    ASSUME IInv, NEW c \in Conns, Dial(c)
    PROVE  IInv'
<1>1. TypeOK'
    BY DEF IInv, TypeOK, Dial, probeVars
<1>2. Sockets'
    BY ConnsAssumption DEF IInv, TypeOK, Sockets, NoSocketLeak, Dial, Fresh, probeVars
<1>3. Turn'
    BY ConnsAssumption DEF IInv, Sockets, Turn, Dial, Fresh
<1>4. Ends'
    BY DEF IInv, Ends, OwnAnswer, DeniedIsFinal, Dial
<1>5. Deliveries'
    BY DEF IInv, Deliveries, Dial
<1>6. IdleDrops'
    BY DEF IInv, TypeOK, IdleDrops, Dial
<1>7. QED
    BY <1>1, <1>2, <1>3, <1>4, <1>5, <1>6 DEF IInv

\* A dial that fails, or is denied, leaves no socket.
LEMMA DialFailsInv ==
    ASSUME IInv, DialFails \/ DialDenied
    PROVE  IInv'
<1>1. TypeOK'
    BY DEF IInv, TypeOK, DialFails, DialDenied, Retry, Return, wireVars, probeVars
<1>2. Sockets'
    BY DEF IInv, Sockets, NoSocketLeak, DialFails, DialDenied, wireVars, probeVars
<1>3. Turn'
    BY DEF Turn, DialFails, DialDenied, Retry, Return
<1>4. Ends'
    BY DEF IInv, Ends, OwnAnswer, DeniedIsFinal, DialFails, DialDenied, Retry, Return
<1>5. Deliveries'
  <2>1. UNCHANGED <<received, sends>> /\ pc = "connect"
      BY DEF DialFails, DialDenied, wireVars
  <2>2. attempt' \in 0 .. 1 /\ attempt' >= attempt /\ (pc' # "idle" => attempt' >= attempt)
      BY DEF IInv, TypeOK, DialFails, DialDenied, Retry
  <2>3. \A m \in Payloads : received[m] \in Nat
      BY DEF IInv, TypeOK
  <2>4. QED
      BY <2>1, <2>2 DEF IInv, TypeOK, Deliveries
<1>6. IdleDrops'
    BY DEF IdleDrops, DialFails, DialDenied
<1>7. QED
    BY <1>1, <1>2, <1>3, <1>4, <1>5, <1>6 DEF IInv

\* The payload is written, or lost.
LEMMA WriteInv ==
    ASSUME IInv, Write
    PROVE  IInv'
<1>1. /\ conn \in Conns /\ sends \in Payloads /\ sends # Probe
      /\ \/ /\ socket[conn] = "up"
            /\ owed' = [owed EXCEPT ![conn] = Append(@, sends)]
            /\ received' = [received EXCEPT ![sends] = @ + 1]
         \/ socket[conn] # "up" /\ UNCHANGED <<owed, received>>
      /\ pc = "write" /\ pc' = "read"
      /\ UNCHANGED <<conn, attempt, sends, outcome, denials, socket, frames, probe, asked, probes, weather>>
  <2>1. conn \in Conns /\ sends \in Payloads /\ sends # Probe
      BY DEF IInv, TypeOK, Turn, Ends, Payloads, Probe, Write
  <2>2. QED
      BY <2>1 DEF Write, Deliver, probeVars
<1>2. TypeOK'
  <2>1. owed' \in [Conns -> Seq(Payloads \cup {Probe})]
    <3>1. Append(owed[conn], sends) \in Seq(Payloads \cup {Probe})
        BY <1>1, Queued DEF IInv
    <3>2. QED
        BY <1>1, <3>1 DEF IInv, TypeOK
  <2>2. received' \in [Payloads -> Nat]
      BY <1>1 DEF IInv, TypeOK
  <2>3. QED
      BY <1>1, <2>1, <2>2 DEF IInv, TypeOK
<1>3. Sockets'
    BY DEF IInv, TypeOK, Sockets, NoSocketLeak, Write, Deliver, probeVars
<1>4. Turn'
    BY DEF IInv, TypeOK, Turn, Write, Deliver
<1>5. Ends'
    BY DEF IInv, Ends, OwnAnswer, DeniedIsFinal, Write
<1>6. Deliveries'
    BY <1>1, BoundsAssumption DEF IInv, TypeOK, Deliveries
<1>7. IdleDrops'
    BY <1>1 DEF IInv, TypeOK, Sockets, IdleDrops
<1>8. QED
    BY <1>2, <1>3, <1>4, <1>5, <1>6, <1>7 DEF IInv

\* A failed write or read closes the socket.
LEMMA FailsInv ==
    ASSUME IInv, WriteFails \/ ReadFails
    PROVE  IInv'
<1>1. TypeOK'
  <2>1. conn \in Conns /\ CloseSocket(conn) /\ conn' = NoConn /\ pc' \in {"idle", "connect"} /\ attempt' \in 0 .. 1
      BY DEF IInv, TypeOK, Turn, WriteFails, ReadFails, Retry, Return
  <2>2. outcome' = outcome \/ outcome' = [how |-> "error"]
      BY DEF WriteFails, ReadFails, Retry, Return
  <2>3. UNCHANGED <<sends, denials, received, probe, asked, probes, weather>>
      BY DEF WriteFails, ReadFails, probeVars
  <2>4. QED
      BY <2>1, <2>2, <2>3 DEF IInv, TypeOK, CloseSocket
<1>2. Sockets'
  <2>1. conn \in Conns /\ CloseSocket(conn) /\ conn' = NoConn /\ UNCHANGED probe
      BY DEF IInv, TypeOK, Turn, WriteFails, ReadFails, probeVars
  <2>2. socket'[conn] = "closed" /\ owed'[conn] = <<>> /\ frames'[conn] = <<>>
      BY <2>1 DEF IInv, TypeOK, CloseSocket
  <2>3. \A c \in Conns \ {conn} : socket'[c] = socket[c] /\ owed'[c] = owed[c] /\ frames'[c] = frames[c]
      BY <2>1 DEF IInv, TypeOK, CloseSocket
  <2>4. QED
      BY <2>1, <2>2, <2>3, ConnsAssumption DEF IInv, TypeOK, Sockets, NoSocketLeak
<1>3. Turn'
    BY DEF Turn, WriteFails, ReadFails, Retry, Return
<1>4. Ends'
    BY DEF IInv, Ends, OwnAnswer, DeniedIsFinal, WriteFails, ReadFails, Retry, Return
<1>5. Deliveries'
  <2>1. UNCHANGED <<received, sends>>
      BY DEF WriteFails, ReadFails
  <2>2. attempt' \in 0 .. 1 /\ attempt' >= attempt /\ (pc' # "idle" => attempt = 0 /\ attempt' = 1)
      BY DEF IInv, TypeOK, WriteFails, ReadFails, Retry, Return
  <2>3. \A m \in Payloads : received[m] \in Nat
      BY DEF IInv, TypeOK
  <2>4. QED
      BY <2>1, <2>2 DEF IInv, TypeOK, Deliveries
<1>6. IdleDrops'
    BY DEF IInv, TypeOK, Sockets, IdleDrops, WriteFails, ReadFails, Retry
<1>7. QED
    BY <1>1, <1>2, <1>3, <1>4, <1>5, <1>6 DEF IInv

\* The message read is the answer to the payload under way.
LEMMA ReadInv ==
    ASSUME IInv, Read
    PROVE  IInv'
<1>1. TypeOK'
    BY DEF IInv, TypeOK, Turn, Read, Return, probeVars
<1>2. Sockets'
    BY DEF IInv, Sockets, NoSocketLeak, Read, probeVars
<1>3. Turn'
    BY Queued DEF IInv, TypeOK, Turn, Read
<1>4. Ends'
    BY DEF IInv, Turn, Ends, OwnAnswer, DeniedIsFinal, Read, Return
<1>5. Deliveries'
    BY DEF IInv, Deliveries, Read, Return
<1>6. IdleDrops'
    BY DEF IInv, IdleDrops, Read, Return
<1>7. QED
    BY <1>1, <1>2, <1>3, <1>4, <1>5, <1>6 DEF IInv

\* Close closes what there is.
LEMMA CloseInv ==
    ASSUME IInv, Close
    PROVE  IInv'
<1>1. TypeOK'
    BY DEF IInv, TypeOK, Close, CloseSocket, probeVars
<1>2. Sockets'
    BY DEF IInv, TypeOK, Sockets, NoSocketLeak, Close, CloseSocket, probeVars
<1>3. Turn'
    BY DEF Turn, Close
<1>4. Ends'
    BY DEF IInv, Ends, OwnAnswer, DeniedIsFinal, Close
<1>5. Deliveries'
    BY DEF IInv, Deliveries, Close
<1>6. IdleDrops'
    BY DEF IInv, IdleDrops, Close
<1>7. QED
    BY <1>1, <1>2, <1>3, <1>4, <1>5, <1>6 DEF IInv

\* The probe has a socket of its own.
LEMMA ProbeInv ==
    ASSUME IInv, (\E c \in Conns : ProbeDial(c)) \/ ProbeWrite \/ ProbeEnd
    PROVE  IInv'
<1>1. TypeOK'
  <2>1. CASE \E c \in Conns : ProbeDial(c)
    <3>1. PICK c \in Conns : ProbeDial(c)
        BY <2>1
    <3>2. probes' \in 0 .. MaxProbes
        BY <3>1, BoundsAssumption DEF IInv, TypeOK, ProbeDial
    <3>3. QED
        BY <3>1, <3>2 DEF IInv, TypeOK, ProbeDial, sendVars
  <2>2. CASE ProbeWrite
    <3>1. probe \in Conns
        BY <2>2 DEF IInv, TypeOK, ProbeWrite
    <3>2. Append(owed[probe], Probe) \in Seq(Payloads \cup {Probe})
        BY <3>1, Queued DEF IInv
    <3>3. owed' \in [Conns -> Seq(Payloads \cup {Probe})] /\ UNCHANGED received
        BY <2>2, <3>2 DEF IInv, TypeOK, ProbeWrite, Deliver
    <3>4. QED
        BY <2>2, <3>3 DEF IInv, TypeOK, ProbeWrite, sendVars
  <2>3. CASE ProbeEnd
      BY <2>3 DEF IInv, TypeOK, ProbeEnd, CloseSocket, sendVars
  <2>4. QED
      BY <2>1, <2>2, <2>3
<1>2. Sockets'
  <2>1. CASE \E c \in Conns : ProbeDial(c)
      BY <2>1, ConnsAssumption DEF IInv, TypeOK, Sockets, NoSocketLeak, ProbeDial, Fresh, sendVars
  <2>2. CASE ProbeWrite
      BY <2>2, ConnsAssumption DEF IInv, TypeOK, Sockets, NoSocketLeak, ProbeWrite, Deliver, sendVars
  <2>3. CASE ProbeEnd
      BY <2>3, ConnsAssumption DEF IInv, TypeOK, Sockets, NoSocketLeak, ProbeEnd, CloseSocket, sendVars
  <2>4. QED
      BY <2>1, <2>2, <2>3
<1>3. Turn'
    BY
       DEF IInv, TypeOK, Sockets, Turn, ProbeDial, ProbeWrite, ProbeEnd, Deliver, CloseSocket,
           sendVars
<1>4. Ends'
    BY DEF IInv, Ends, OwnAnswer, DeniedIsFinal, ProbeDial, ProbeWrite, ProbeEnd, sendVars
<1>5. Deliveries'
  <2>1. UNCHANGED <<received, sends, attempt, pc>>
      BY DEF ProbeDial, ProbeWrite, ProbeEnd, Deliver, sendVars
  <2>2. QED
      BY <2>1 DEF IInv, Deliveries
<1>6. IdleDrops'
    BY
       DEF IInv, TypeOK, Sockets, Turn, Ends, Deliveries, IdleDrops, ProbeDial, ProbeWrite,
           ProbeEnd, Fresh, Deliver, CloseSocket, sendVars
<1>7. QED
    BY <1>1, <1>2, <1>3, <1>4, <1>5, <1>6 DEF IInv

\* The gateway answers on the socket the payload came on.
LEMMA AnswerInv ==
    ASSUME IInv, NEW c \in Conns, Answer(c)
    PROVE  IInv'
<1>1. TypeOK'
    BY Queued DEF IInv, TypeOK, Answer, sendVars, probeVars
<1>2. Sockets'
    BY DEF IInv, Sockets, NoSocketLeak, Answer, sendVars, probeVars
<1>3. Turn'
  <2>1. CASE c = conn
    <3>1. pc = "read" /\ owed[conn] = <<sends>> /\ frames[conn] = <<>> /\ owed[c] # <<>>
        BY <2>1, ConnsAssumption DEF IInv, Turn, Answer
    <3>2. frames'[conn] = <<sends>> /\ owed'[conn] = <<>>
        BY <2>1, <3>1 DEF IInv, TypeOK, Answer
    <3>3. QED
        BY <3>2 DEF IInv, Turn, Answer, sendVars
  <2>2. CASE c # conn
      BY <2>2 DEF IInv, Turn, Answer, sendVars
  <2>3. QED
      BY <2>1, <2>2
<1>4. Ends'
    BY DEF IInv, Ends, OwnAnswer, DeniedIsFinal, Answer, sendVars
<1>5. Deliveries'
    BY DEF IInv, Deliveries, Answer, sendVars
<1>6. IdleDrops'
    BY DEF IInv, IdleDrops, Answer, sendVars
<1>7. QED
    BY <1>1, <1>2, <1>3, <1>4, <1>5, <1>6 DEF IInv

\* A socket drops.
LEMMA DropInv ==
    ASSUME IInv, NEW c \in Conns, Drop(c)
    PROVE  IInv'
<1>1. TypeOK'
    BY DEF IInv, TypeOK, Drop, sendVars, probeVars
<1>2. Sockets'
    BY DEF IInv, Sockets, NoSocketLeak, Drop, sendVars, probeVars
<1>3. Turn'
    BY DEF IInv, Turn, Drop, sendVars
<1>4. Ends'
    BY DEF IInv, Ends, OwnAnswer, DeniedIsFinal, Drop, sendVars
<1>5. Deliveries'
    BY DEF IInv, Deliveries, Drop, sendVars
<1>6. IdleDrops'
    BY DEF IInv, IdleDrops, Drop, sendVars
<1>7. QED
    BY <1>1, <1>2, <1>3, <1>4, <1>5, <1>6 DEF IInv

-----------------------------------------------------------------------------
(* The theorems.                                                           *)

\* The invariant holds of the connector, its probes and the gateway.
THEOREM Invariance == Spec => []IInv
<1>1. Init => IInv
  <2>1. SUFFICES ASSUME Init PROVE IInv
      OBVIOUS
  <2>2. TypeOK
    <3>1. <<>> \in Seq(Payloads \cup {Probe})
        OBVIOUS
    <3>2. 0 \in 0 .. MaxSends /\ 0 \in 0 .. MaxProbes
        BY BoundsAssumption
    <3>3. outcome \in [how : {"none", "error", "denied"}]
        BY <2>1 DEF Init
    <3>4. owed \in [Conns -> Seq(Payloads \cup {Probe})]
        BY <2>1 DEF Init
    <3>5. frames \in [Conns -> Seq(Payloads \cup {Probe})]
        BY <2>1 DEF Init
    <3>6. received \in [Payloads -> Nat]
        BY <2>1 DEF Init
    <3>7. conn \in Conns \cup {NoConn} /\ probe \in Conns \cup {NoConn}
        BY <2>1 DEF Init
    <3>8. pc \in {"idle", "connect", "write", "read"} /\ attempt \in 0 .. 1 /\ sends \in 0 .. MaxSends
        BY <2>1, <3>2 DEF Init
    <3>9. socket \in [Conns -> {"closed", "up", "down"}]
        BY <2>1 DEF Init
    <3>10. denials \in Nat /\ asked \in BOOLEAN /\ probes \in 0 .. MaxProbes /\ weather \in Weathers
        BY <2>1, <3>2 DEF Init
    <3>11. QED
        BY <3>7, <3>8, <3>9, <3>10, <3>3, <3>4, <3>5, <3>6 DEF TypeOK
  <2>3. Sockets /\ Turn /\ Ends
      BY <2>1 DEF Init, Sockets, NoSocketLeak, Turn, Ends, OwnAnswer, DeniedIsFinal
  <2>4. Deliveries /\ IdleDrops
      BY <2>1 DEF Init, Deliveries, IdleDrops
  <2>5. QED
      BY <2>2, <2>3, <2>4 DEF IInv
<1>2. IInv /\ [Next]_vars => IInv'
  <2>1. SUFFICES ASSUME IInv, [Next]_vars PROVE IInv'
      OBVIOUS
  <2>2. CASE Send \/ Close
      BY <2>1, <2>2, SendInv, CloseInv
  <2>3. CASE SendStep
      BY <2>1, <2>3, ReuseInv, DialInv, DialFailsInv, WriteInv, FailsInv, ReadInv DEF SendStep
  <2>4. CASE (\E c \in Conns : ProbeDial(c)) \/ ProbeWrite \/ ProbeEnd
      BY <2>1, <2>4, ProbeInv
  <2>5. CASE \E c \in Conns : Answer(c) \/ Drop(c)
      BY <2>1, <2>5, AnswerInv, DropInv
  <2>6. CASE UNCHANGED vars
    <3>1. UNCHANGED <<conn, pc, attempt, sends, outcome, denials, socket, owed, frames, received,
                      probe, asked, probes, weather>>
        BY <2>6 DEF vars, sendVars, wireVars, probeVars
    <3>2. TypeOK' /\ Sockets'
        BY <2>1, <3>1 DEF IInv, TypeOK, Sockets, NoSocketLeak
    <3>3. Turn' /\ Ends'
        BY <2>1, <3>1 DEF IInv, Turn, Ends, OwnAnswer, DeniedIsFinal
    <3>4. Deliveries' /\ IdleDrops'
        BY <2>1, <3>1 DEF IInv, Deliveries, IdleDrops
    <3>5. QED
        BY <3>2, <3>3, <3>4 DEF IInv
  <2>7. QED
      BY <2>1, <2>2, <2>3, <2>4, <2>5, <2>6 DEF Next
<1>3. QED
    BY <1>1, <1>2, PTL DEF Spec

\* Every variable keeps its type.
THEOREM TypeCorrect == Spec => []TypeOK
<1>1. IInv => TypeOK
    BY DEF IInv
<1>2. QED
    BY <1>1, Invariance, PTL

\* However late answers come and sockets drop, the reply of a Send answers the
\* payload of that Send.
THEOREM AnswersAreOwn == Spec => []OwnAnswer
<1>1. IInv => OwnAnswer
    BY DEF IInv, Ends
<1>2. QED
    BY <1>1, Invariance, PTL

\* No payload is received more than twice.
THEOREM RetriedOnce == Spec => []AtMostTwice
<1>1. IInv => AtMostTwice
    BY DEF IInv, Deliveries, AtMostTwice
<1>2. QED
    BY <1>1, Invariance, PTL

\* No socket is forgotten open, by Send, Close or a probe.
THEOREM NoneLeaked == Spec => []NoSocketLeak
<1>1. IInv => NoSocketLeak
    BY DEF IInv, Sockets
<1>2. QED
    BY <1>1, Invariance, PTL

\* A handshake that is denied ends its Send.
THEOREM DenialEnds == Spec => []DeniedIsFinal
<1>1. IInv => DeniedIsFinal
    BY DEF IInv, Ends
<1>2. QED
    BY <1>1, Invariance, PTL

\* A socket that drops between turns only costs no Send its reply and delivers
\* no payload twice.
THEOREM RepairUnseen == Spec => []DropsBetweenTurnsUnseen
<1>1. IInv => DropsBetweenTurnsUnseen
    BY DEF IInv, IdleDrops, DropsBetweenTurnsUnseen
<1>2. QED
    BY <1>1, Invariance, PTL

-----------------------------------------------------------------------------
(* The contract of a target.                                               *)

\* What the gateway owes, or has sent, in a turn, it owes to the payload.
Heard == pc = "read" /\ (owed[conn] # <<>> \/ frames[conn] # <<>>) => received[sends] > 0

\* Nothing is owed for a payload that was lost.
LEMMA HeardKept ==
    ASSUME IInv, Heard, [Next]_vars
    PROVE  Heard'
<1>1. CASE Send \/ Close \/ Reuse \/ (\E c \in Conns : Dial(c)) \/ DialFails \/ DialDenied
    BY <1>1 DEF Heard, Send, Close, Reuse, Dial, DialFails, DialDenied, Retry, Return
<1>2. CASE WriteFails \/ Read \/ ReadFails
    BY <1>2 DEF Heard, WriteFails, Read, ReadFails, Retry, Return
<1>3. CASE Write
  <2>1. sends \in Payloads /\ sends # Probe /\ received \in [Payloads -> Nat] /\ UNCHANGED <<conn, sends>>
      BY <1>3 DEF IInv, TypeOK, Ends, Payloads, Probe, Write
  <2>2. CASE socket[conn] = "up"
    <3>1. received' = [received EXCEPT ![sends] = @ + 1]
        BY <1>3, <2>1, <2>2 DEF Write, Deliver
    <3>2. QED
        BY <2>1, <3>1 DEF Heard
  <2>3. CASE socket[conn] # "up"
    <3>1. UNCHANGED <<owed, frames>> /\ owed[conn] = <<>> /\ frames[conn] = <<>>
        BY <1>3, <2>3 DEF IInv, Turn, Write, Deliver
    <3>2. QED
        BY <2>1, <3>1 DEF Heard
  <2>4. QED
      BY <2>2, <2>3
<1>4. CASE (\E c \in Conns : ProbeDial(c)) \/ ProbeWrite \/ ProbeEnd
  <2>1. UNCHANGED <<pc, conn, sends, received>>
      BY <1>4 DEF ProbeDial, ProbeWrite, ProbeEnd, Deliver, sendVars
  <2>2. pc = "read" => conn \in Conns /\ conn # probe
      BY DEF IInv, TypeOK, Sockets, Turn
  <2>3. pc = "read" => owed'[conn] = owed[conn] /\ frames'[conn] = frames[conn]
      BY <1>4, <2>2 DEF IInv, TypeOK, ProbeDial, ProbeWrite, ProbeEnd, Deliver, CloseSocket
  <2>4. QED
      BY <2>1, <2>3 DEF Heard
<1>5. ASSUME NEW c \in Conns, Answer(c) \/ Drop(c) PROVE Heard'
  <2>1. UNCHANGED <<pc, conn, sends, received>>
      BY <1>5 DEF Answer, Drop, sendVars
  <2>2. CASE c = conn
    <3>1. owed'[conn] = <<>> \/ owed[conn] # <<>>
        BY <1>5, <2>2 DEF IInv, TypeOK, Answer, Drop
    <3>2. frames'[conn] = frames[conn] \/ owed[conn] # <<>>
        BY <1>5, <2>2 DEF Answer, Drop
    <3>3. QED
        BY <2>1, <3>1, <3>2 DEF Heard
  <2>3. CASE c # conn
    <3>1. pc = "read" => conn \in Conns
        BY DEF IInv, TypeOK, Turn
    <3>2. pc = "read" => owed'[conn] = owed[conn] /\ frames'[conn] = frames[conn]
        BY <1>5, <2>3, <3>1 DEF IInv, TypeOK, Answer, Drop
    <3>3. QED
        BY <2>1, <3>2 DEF Heard
  <2>4. QED
      BY <2>2, <2>3
<1>6. CASE UNCHANGED vars
    BY <1>6 DEF Heard, vars, sendVars, wireVars
<1>7. QED
    BY <1>1, <1>2, <1>3, <1>4, <1>5, <1>6 DEF Next, SendStep

\* WebSocket.Send keeps the contract of target.go: a reply is returned for a
\* payload that the gateway has received, everything else is an error, and no
\* payload is received but in the turn of its own Send.
THEOREM Refinement == Spec => ImplementsTarget
<1> DEFINE Asking  == IF pc = "idle" THEN 0 ELSE sends
           Reached == {m \in Payloads : received[m] > 0}
           Told    == IF outcome.how = "denied" THEN "error" ELSE outcome.how
<1>1. Init => Heard /\ Target!Init
  <2>1. SUFFICES ASSUME Init PROVE Heard /\ Target!Init
      OBVIOUS
  <2>2. Reached = {} /\ Asking = 0 /\ Told = "none" /\ Heard
      BY <2>1 DEF Init, Heard
  <2>3. QED
      BY <2>2 DEF Target!Init
<1>2. IInv /\ Heard /\ [Next]_vars => [Target!Next]_(Target!vars)
  <2>1. SUFFICES ASSUME IInv, Heard, [Next]_vars PROVE [Target!Next]_(Target!vars)
      OBVIOUS
  <2>2. ASSUME UNCHANGED <<Asking, Reached, Told>> PROVE UNCHANGED Target!vars
      BY <2>2 DEF Target!vars
  <2>3. ASSUME UNCHANGED <<pc, sends, received, outcome>> PROVE UNCHANGED Target!vars
    <3>1. UNCHANGED <<Asking, Reached, Told>>
        BY <2>3
    <3>2. QED
        BY <2>2, <3>1
  <2>4. ASSUME Send PROVE Target!Ask("caller")
    <3>1. /\ Asking = 0 /\ Asking' = sends + 1 /\ Told' = "none" /\ received' = received
        BY <2>4 DEF Send, wireVars
    <3>2. sends + 1 \in Payloads /\ sends + 1 > sends /\ sends + 1 # 0
        BY <2>1, <2>4, BoundsAssumption DEF IInv, TypeOK, Send, Payloads
    <3>3. sends + 1 \notin Reached /\ Reached' = Reached
        BY <2>1, <3>1, <3>2 DEF IInv, Deliveries
    <3>4. QED
        BY <3>1, <3>2, <3>3 DEF Target!Ask
  <2>5. ASSUME pc # "idle" PROVE Asking = sends /\ sends # 0 /\ outcome.how = "none"
      BY <2>1, <2>5 DEF IInv, TypeOK, Ends
  <2>6. ASSUME Write PROVE Target!Reach("caller") \/ UNCHANGED Target!vars
    <3>1. pc = "write" /\ pc' = "read" /\ UNCHANGED <<sends, outcome>>
        BY <2>6 DEF Write
    <3>2. UNCHANGED <<Asking, Told>> /\ Asking = sends /\ sends # 0
        BY <2>5, <3>1
    <3>3. Reached' = Reached \cup {sends} \/ Reached' = Reached
      <4>1. sends \in Payloads /\ sends # Probe /\ received \in [Payloads -> Nat]
          BY <2>1, <3>1 DEF IInv, TypeOK, Ends, Payloads, Probe
      <4>2. received' = received \/ received' = [received EXCEPT ![sends] = @ + 1]
          BY <2>6, <4>1 DEF Write, Deliver
      <4>3. QED
          BY <4>1, <4>2
    <3>4. QED
        BY <2>2, <3>2, <3>3 DEF Target!Reach
  <2>7. ASSUME pc # "idle", pc' = "idle", UNCHANGED <<sends, received>>, outcome'.how \in {"error", "denied"}
        PROVE  Target!Fail("caller")
    <3>1. Asking = sends /\ sends # 0 /\ Asking' = 0 /\ Told' = "error" /\ Reached' = Reached
        BY <2>5, <2>7
    <3>2. QED
        BY <3>1 DEF Target!Fail, Target!Return
  <2>8. ASSUME Read PROVE Target!Reply("caller")
    <3>1. /\ pc = "read" /\ pc' = "idle" /\ frames[conn] # <<>> /\ outcome'.how = "reply"
          /\ UNCHANGED <<sends, received>>
        BY <2>8 DEF Read, Return
    <3>2. sends \in Payloads /\ received[sends] > 0
        BY <2>1, <3>1 DEF IInv, TypeOK, Ends, Payloads, Heard
    <3>3. Asking \in Reached /\ Asking # 0 /\ Asking' = 0 /\ Told' = "reply" /\ Reached' = Reached
        BY <2>5, <3>1, <3>2
    <3>4. QED
        BY <3>3 DEF Target!Reply, Target!Return
  <2>9. ASSUME pc # "idle", Retry, UNCHANGED <<sends, received>>
        PROVE  Target!Fail("caller") \/ UNCHANGED Target!vars
    <3>1. CASE attempt = 0
      <4>1. UNCHANGED <<Asking, Reached, Told>>
          BY <2>9, <3>1 DEF Retry
      <4>2. QED
          BY <2>2, <4>1
    <3>2. CASE attempt # 0
        BY <2>7, <2>9, <3>2 DEF Retry, Return
    <3>3. QED
        BY <3>1, <3>2
  <2>10. ASSUME DialDenied PROVE Target!Fail("caller")
      BY <2>7, <2>10 DEF DialDenied, Return, wireVars
  <2>11. ASSUME DialFails \/ WriteFails \/ ReadFails PROVE Target!Fail("caller") \/ UNCHANGED Target!vars
      BY <2>9, <2>11 DEF DialFails, WriteFails, ReadFails, wireVars
  <2>12. ASSUME Reuse \/ \E c \in Conns : Dial(c) PROVE UNCHANGED Target!vars
    <3>1. UNCHANGED <<Asking, Reached, Told>>
        BY <2>12 DEF Reuse, Dial, wireVars
    <3>2. QED
        BY <2>2, <3>1
  <2>13. ASSUME Close \/ ProbeWrite \/ ProbeEnd \/ \E c \in Conns : ProbeDial(c) \/ Answer(c) \/ Drop(c)
         PROVE  UNCHANGED Target!vars
      BY <2>3, <2>13 DEF Close, ProbeWrite, ProbeEnd, ProbeDial, Answer, Drop, Deliver, sendVars
  <2>14. CASE UNCHANGED vars
      BY <2>3, <2>14 DEF vars, sendVars, wireVars
  <2>15. QED
      BY <2>1, <2>4, <2>6, <2>8, <2>10, <2>11, <2>12, <2>13, <2>14 DEF Next, SendStep, Target!Next
<1>3. IInv /\ Heard /\ [Next]_vars => Heard'
    BY HeardKept
<1>4. QED
    BY <1>1, <1>2, <1>3, Invariance, PTL DEF Spec, ImplementsTarget, Target!Spec
-----------------------------------------------------------------------------
(* How far a Send can go.                                                  *)

\* How many steps the Send under way can still take: three in each attempt.
Ahead ==
    LET left == CASE pc = "connect" -> 3 [] pc = "write" -> 2 [] pc = "read" -> 1 IN
    IF pc = "idle" THEN 0 ELSE IF attempt = 0 THEN 3 + left ELSE left

LEMMA AheadBounded == ASSUME TypeOK PROVE Ahead \in 0 .. 6 /\ (Ahead = 0 <=> pc = "idle")
BY DEF TypeOK, Ahead

\* Every step of a Send brings it nearer its end, which is at most six steps from
\* its beginning, and nothing that the gateway, the network or a probe does takes
\* it further away: the loop of Send is bounded whatever fails in it.
THEOREM SendsAreBounded ==
    Spec => [][/\ SendStep => Ahead' < Ahead
               /\ pc # "idle" => Ahead' <= Ahead]_vars
<1>1. ASSUME TypeOK, SendStep PROVE Ahead' < Ahead
  <2>1. CASE Reuse \/ (\E c \in Conns : Dial(c)) \/ Write
      BY <1>1, <2>1 DEF Reuse, Dial, Write, TypeOK, Ahead
  <2>2. CASE DialFails \/ WriteFails \/ ReadFails
      BY <1>1, <2>2 DEF DialFails, WriteFails, ReadFails, Retry, Return, TypeOK, Ahead
  <2>3. CASE DialDenied \/ Read
      BY <1>1, <2>3 DEF DialDenied, Read, Return, TypeOK, Ahead
  <2>4. QED
      BY <1>1, <2>1, <2>2, <2>3 DEF SendStep
<1>2. ASSUME TypeOK, Next, pc # "idle" PROVE Ahead' <= Ahead
  <2>1. SendStep \/ UNCHANGED <<pc, attempt>>
      BY <1>2 DEF Next, Send, Close, ProbeDial, ProbeWrite, ProbeEnd, Answer, Drop, sendVars
  <2>2. Ahead \in Int
      BY <1>2, AheadBounded
  <2>3. CASE UNCHANGED <<pc, attempt>>
    <3>1. Ahead' = Ahead
        BY <2>3 DEF Ahead
    <3>2. QED
        BY <2>2, <3>1
  <2>4. CASE SendStep
    <3>1. Ahead' < Ahead /\ Ahead' \in Int
        BY <1>1, <1>2, <2>4 DEF SendStep, Reuse, Dial, DialFails, DialDenied, Write, WriteFails,
                                Read, ReadFails, Retry, Return, TypeOK, Ahead
    <3>2. QED
        BY <2>2, <3>1
  <2>5. QED
      BY <2>1, <2>3, <2>4
<1>3. TypeOK /\ Next => (SendStep => Ahead' < Ahead) /\ (pc # "idle" => Ahead' <= Ahead)
    BY <1>1, <1>2
<1>4. QED
    BY <1>3, TypeCorrect, PTL DEF Spec
==============================================================================
