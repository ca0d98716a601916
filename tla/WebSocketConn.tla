--------------------------- MODULE WebSocketConn ---------------------------
(***************************************************************************)
(* The WebSocket connector of connector/websocket.go: one persistent       *)
(* socket carries the whole conversation; a Send that meets a dead socket  *)
(* re-dials and resends once; SendWithoutAuth probes on a socket of its    *)
(* own.  Send and Close hold w.mu from entry to return, so at most one of  *)
(* them is under way and pc is its position; the probe takes no lock.      *)
(*                                                                         *)
(* The gateway at the other end is external: it answers each payload it    *)
(* receives with one message on the same socket, at its own pace.          *)
(***************************************************************************)
EXTENDS Naturals, Sequences

CONSTANTS
    Conns,        \* identities of sockets; a closed one is used again
    NoConn,       \* nil *websocket.Conn
    MaxSends,     \* bound: payloads sent
    MaxProbes,    \* bound: probes sent
    Weathers      \* each a set of faults of the network and the gateway

FaultKinds == {"dial", "denied", "idleDrop", "drop", "slow"}

ASSUME ConnsAssumption    == NoConn \notin Conns
ASSUME BoundsAssumption   == MaxSends \in Nat /\ MaxProbes \in Nat
ASSUME WeathersAssumption == \A w \in Weathers : w \subseteq FaultKinds

Payloads == 1 .. MaxSends
Probe    == 0                    \* the probe's payload, and its answer

VARIABLES
    conn,         \* w.conn
    pc,           \* where the Send under way is
    attempt,      \* its loop variable
    sends,        \* payloads sent so far; the last one is the current one
    outcome,      \* how the last Send ended
    socket,       \* socket[c]: "closed" by us, "up", or "down" at the far end
    owed,         \* owed[c]: payloads the gateway has to answer on c
    frames,       \* frames[c]: answers under way to us on c
    received,     \* received[m]: how often the gateway received payload m
    denials,      \* auxiliary: handshakes of this Send rejected with 401/403
    probe,        \* the probe's socket
    asked,        \* whether the probe's payload has been written
    probes,       \* probes sent so far
    weather       \* the faults of this behaviour: chosen at the start

sendVars  == <<conn, pc, attempt, sends, outcome, denials>>
wireVars  == <<socket, owed, frames, received>>
probeVars == <<probe, asked, probes>>
vars      == <<sendVars, wireVars, probeVars, weather>>

Init ==
    /\ conn = NoConn
    /\ pc = "idle"
    /\ attempt = 0
    /\ sends = 0
    /\ outcome = [how |-> "none"]
    /\ socket = [c \in Conns |-> "closed"]
    /\ owed = [c \in Conns |-> <<>>]
    /\ frames = [c \in Conns |-> <<>>]
    /\ received = [m \in Payloads |-> 0]
    /\ denials = 0
    /\ probe = NoConn
    /\ asked = FALSE
    /\ probes = 0
    /\ weather \in Weathers

Fresh(c) == socket[c] = "closed"

\* Closing c on our side: whatever was under way to us is never read.
CloseSocket(c) ==
    /\ socket' = [socket EXCEPT ![c] = "closed"]
    /\ frames' = [frames EXCEPT ![c] = <<>>]
    /\ owed' = [owed EXCEPT ![c] = <<>>]

\* A write on a socket that is down may still succeed; the payload is lost.
Deliver(c, m) ==
    IF socket[c] = "up"
    THEN /\ owed' = [owed EXCEPT ![c] = Append(@, m)]
         /\ received' = IF m = Probe THEN received ELSE [received EXCEPT ![m] = @ + 1]
    ELSE UNCHANGED <<owed, received>>

Return(o) ==
    /\ pc' = "idle"
    /\ outcome' = o

\* Mutant of Retry: the attempt is not counted.
RetryUncounted == pc' = "connect" /\ UNCHANGED <<attempt, outcome>>

\* Mutant of Retry: every failure is final.
RetryNever == Return([how |-> "error"]) /\ UNCHANGED attempt

\* The end of an attempt that failed: once more, or an error.
Retry ==
    IF attempt = 0
    THEN /\ attempt' = 1
         /\ pc' = "connect"
         /\ UNCHANGED outcome
    ELSE /\ Return([how |-> "error"])
         /\ UNCHANGED attempt

-----------------------------------------------------------------------------
(* Send and Close. *)

Send ==
    /\ pc = "idle"
    /\ sends < MaxSends
    /\ sends' = sends + 1
    /\ attempt' = 0
    /\ denials' = 0
    /\ outcome' = [how |-> "none"]
    /\ pc' = "connect"
    /\ UNCHANGED <<conn, wireVars, probeVars, weather>>

\* connect returns the live connection.
Reuse ==
    /\ pc = "connect"
    /\ conn # NoConn
    /\ pc' = "write"
    /\ UNCHANGED <<conn, attempt, sends, outcome, denials, wireVars, probeVars, weather>>

Dial(c) ==
    /\ pc = "connect"
    /\ conn = NoConn
    /\ Fresh(c)
    /\ socket' = [socket EXCEPT ![c] = "up"]
    /\ conn' = c
    /\ pc' = "write"
    /\ UNCHANGED <<attempt, sends, outcome, denials, owed, frames, received, probeVars, weather>>

DialFails ==
    /\ pc = "connect"
    /\ conn = NoConn
    /\ "dial" \in weather
    /\ Retry
    /\ UNCHANGED <<conn, sends, denials, wireVars, probeVars, weather>>

\* Mutant of DialDenied: a denial is an attempt like any other.
DialDeniedRetried ==
    /\ pc = "connect"
    /\ conn = NoConn
    /\ "denied" \in weather
    /\ denials' = denials + 1
    /\ Retry
    /\ UNCHANGED <<conn, sends, wireVars, probeVars, weather>>

\* A handshake rejected with 401 or 403 ends the Send at once.
DialDenied ==
    /\ pc = "connect"
    /\ conn = NoConn
    /\ "denied" \in weather
    /\ denials' = denials + 1
    /\ Return([how |-> "denied"])
    /\ UNCHANGED <<conn, attempt, sends, wireVars, probeVars, weather>>

Write ==
    /\ pc = "write"
    /\ Deliver(conn, sends)
    /\ pc' = "read"
    /\ UNCHANGED <<conn, attempt, sends, outcome, denials, socket, frames, probeVars, weather>>

\* Mutant of WriteFails: nothing was sent, so the attempt is not counted.
WriteFailsUncounted ==
    /\ pc = "write"
    /\ socket[conn] = "down" \/ "slow" \in weather
    /\ CloseSocket(conn)
    /\ conn' = NoConn
    /\ pc' = "connect"
    /\ UNCHANGED <<attempt, sends, outcome, denials, received, probeVars, weather>>

\* The socket is down, or the write deadline passes: reset, and once more.
WriteFails ==
    /\ pc = "write"
    /\ socket[conn] = "down" \/ "slow" \in weather
    /\ CloseSocket(conn)
    /\ conn' = NoConn
    /\ Retry
    /\ UNCHANGED <<sends, denials, received, probeVars, weather>>

\* ReadMessage returns the next message on the socket: that is the reply.
Read ==
    /\ pc = "read"
    /\ frames[conn] # <<>>
    /\ frames' = [frames EXCEPT ![conn] = Tail(@)]
    /\ Return([how |-> "reply", to |-> Head(frames[conn])])
    /\ UNCHANGED <<conn, attempt, sends, denials, socket, owed, received, probeVars, weather>>

\* Mutant of ReadFails: a socket that only timed out is used again.
ReadFailsKept ==
    /\ pc = "read"
    /\ socket[conn] = "down" \/ "slow" \in weather
    /\ Retry
    /\ UNCHANGED <<conn, sends, denials, wireVars, probeVars, weather>>

\* Mutant of ReadFails: the socket is forgotten and not closed.
ReadFailsLeaked ==
    /\ pc = "read"
    /\ socket[conn] = "down" \/ "slow" \in weather
    /\ conn' = NoConn
    /\ Retry
    /\ UNCHANGED <<sends, denials, wireVars, probeVars, weather>>

\* Mutant of ReadFails: the failure comes back as text, as it does of a probe.
ReadFailsAsText ==
    /\ pc = "read"
    /\ socket[conn] = "down" \/ "slow" \in weather
    /\ CloseSocket(conn)
    /\ conn' = NoConn
    /\ Return([how |-> "reply", to |-> sends])
    /\ UNCHANGED <<attempt, sends, denials, received, probeVars, weather>>

\* The socket is down, or the read deadline passes: reset, and once more.
ReadFails ==
    /\ pc = "read"
    /\ socket[conn] = "down" \/ "slow" \in weather
    /\ CloseSocket(conn)
    /\ conn' = NoConn
    /\ Retry
    /\ UNCHANGED <<sends, denials, received, probeVars, weather>>

Close ==
    /\ pc = "idle"
    /\ conn # NoConn
    /\ CloseSocket(conn)
    /\ conn' = NoConn
    /\ UNCHANGED <<pc, attempt, sends, outcome, denials, received, probeVars, weather>>

-----------------------------------------------------------------------------
(* SendWithoutAuth: a fresh socket, one write, one read, closed on return.  *)
(* Every failure comes back as text with no error; a failed dial leaves no  *)
(* trace here.                                                              *)

ProbeDial(c) ==
    /\ probe = NoConn
    /\ probes < MaxProbes
    /\ Fresh(c)
    /\ probe' = c
    /\ asked' = FALSE
    /\ probes' = probes + 1
    /\ socket' = [socket EXCEPT ![c] = "up"]
    /\ UNCHANGED <<sendVars, owed, frames, received, weather>>

ProbeWrite ==
    /\ probe # NoConn
    /\ ~asked
    /\ Deliver(probe, Probe)
    /\ asked' = TRUE
    /\ UNCHANGED <<sendVars, socket, frames, probe, probes, weather>>

\* With the answer, or after a failed write, a failed read or a deadline.
ProbeEnd ==
    /\ probe # NoConn
    /\ \/ asked /\ frames[probe] # <<>>
       \/ socket[probe] = "down" \/ "slow" \in weather
    /\ CloseSocket(probe)
    /\ probe' = NoConn
    /\ UNCHANGED <<sendVars, received, asked, probes, weather>>

-----------------------------------------------------------------------------
(* The gateway and the network. *)

Answer(c) ==
    /\ socket[c] = "up"
    /\ owed[c] # <<>>
    /\ frames' = [frames EXCEPT ![c] = Append(@, Head(owed[c]))]
    /\ owed' = [owed EXCEPT ![c] = Tail(@)]
    /\ UNCHANGED <<sendVars, socket, received, probeVars, weather>>

Drop(c) ==
    /\ socket[c] = "up"
    /\ "drop" \in weather \/ ("idleDrop" \in weather /\ pc = "idle" /\ c = conn)
    /\ socket' = [socket EXCEPT ![c] = "down"]
    /\ owed' = [owed EXCEPT ![c] = <<>>]
    /\ UNCHANGED <<sendVars, frames, received, probeVars, weather>>

-----------------------------------------------------------------------------
SendStep ==
    \/ Reuse \/ (\E c \in Conns : Dial(c)) \/ DialFails \/ DialDenied
    \/ Write \/ WriteFails \/ Read \/ ReadFails

Next ==
    \/ Send \/ SendStep \/ Close
    \/ \E c \in Conns : ProbeDial(c) \/ Answer(c) \/ Drop(c)
    \/ ProbeWrite \/ ProbeEnd

Spec == Init /\ [][Next]_vars

(* Dials, writes and reads carry deadlines, and the gateway answers.        *)
FairSpec ==
    /\ Spec
    /\ WF_vars(SendStep)
    /\ \A c \in Conns : WF_vars(Answer(c))

-----------------------------------------------------------------------------
(* Properties. *)

TypeOK ==
    /\ conn \in Conns \cup {NoConn}
    /\ pc \in {"idle", "connect", "write", "read"}
    /\ attempt \in 0 .. 1
    /\ sends \in 0 .. MaxSends
    /\ outcome \in [how : {"none", "error", "denied"}]
                     \cup [how : {"reply"}, to : Payloads \cup {Probe}]
    /\ socket \in [Conns -> {"closed", "up", "down"}]
    /\ owed \in [Conns -> Seq(Payloads \cup {Probe})]
    /\ frames \in [Conns -> Seq(Payloads \cup {Probe})]
    /\ received \in [Payloads -> Nat]
    /\ denials \in Nat
    /\ probe \in Conns \cup {NoConn}
    /\ asked \in BOOLEAN
    /\ probes \in 0 .. MaxProbes
    /\ weather \in Weathers

\* A reply is the gateway's answer to the payload of this very Send: late
\* answers to an earlier one die with the socket they would have come on.
OwnAnswer == outcome.how = "reply" => outcome.to = sends

\* The gateway receives a payload twice at most: one retry, no more.
AtMostTwice == \A m \in Payloads : received[m] <= 2

\* Every socket we have not closed is the connector's or the probe's.
NoSocketLeak == \A c \in Conns : socket[c] # "closed" => c \in {conn, probe}

\* A Send that was denied once has failed for good.
DeniedIsFinal == denials > 0 => outcome.how = "denied"

\* A socket that only ever drops between turns is never seen by the caller:
\* each Send gets its reply, and the gateway gets each payload once.
DropsBetweenTurnsUnseen ==
    weather = {"idleDrop"} => /\ outcome.how # "error"
                              /\ \A m \in Payloads : received[m] <= 1

\* Send keeps the contract of target.go: a reply is returned for a payload that
\* the gateway has received, on the first socket or the second, and everything
\* else ends in an error; and none is sent but in its own turn, probes included.
Target == INSTANCE TargetContract WITH
    Senders   <- {"caller"},
    NoPayload <- 0,
    asking    <- [s \in {"caller"} |-> IF pc = "idle" THEN 0 ELSE sends],
    reached   <- {m \in Payloads : received[m] > 0},
    returned  <- [s \in {"caller"} |-> IF outcome.how = "denied" THEN "error" ELSE outcome.how]

ImplementsTarget == Target!Spec

\* Every Send returns.
SendsReturn == pc # "idle" ~> pc = "idle"
=============================================================================
