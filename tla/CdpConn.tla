------------------------------ MODULE CdpConn ------------------------------
(***************************************************************************)
(* cdpConn.call and cdpConn.evaluate of connector/browser.go: commands and *)
(* replies over one DevTools WebSocket, correlated by an integer id.  The  *)
(* socket belongs to a tab that several Browsers share, so several calls   *)
(* may be inside it at once.                                               *)
(*                                                                         *)
(* External parts, modelled from how the code uses them: Chrome answers a  *)
(* command it has received, in any order, once, with events in between; a  *)
(* failed read makes every later read on the socket fail while writes go   *)
(* on; two goroutines reading one socket at once may tear a message.       *)
(*                                                                         *)
(* Calls never end: c.nextID only grows, and the code compares ids for     *)
(* equality alone, so an id that nothing remembers is as good as a new one *)
(* and is given out again.  What is bounded is how many are remembered.    *)
(***************************************************************************)
EXTENDS Naturals, Sequences, FiniteSets

CONSTANTS
    Callers,      \* goroutines that call into this connection
    NoCaller,
    MaxIDs,       \* bound: ids remembered at once
    MaxInbox,     \* bound: messages received and not yet read
    Faults        \* what the environment may do beyond answering in time

FaultKinds == {"event", "expire", "hangUp"}

ASSUME CallersAssumption == IsFiniteSet(Callers) /\ NoCaller \notin Callers
ASSUME BoundsAssumption  == MaxIDs \in Nat /\ MaxInbox \in Nat
ASSUME FaultsAssumption  == Faults \subseteq FaultKinds

\* An answer holds a value of the page, or call or evaluate makes an error of
\* it: the command refused, an exception raised, no value at all.
Kinds == {"value", "error"}
Event == [id |-> 0, by |-> NoCaller, kind |-> "value"]

IDs == 1 .. MaxIDs

VARIABLES
    pc,           \* where each caller's call is; "idle" when none
    id,           \* the local variable id of each call
    deadline,     \* the call whose ctx deadline is set on the socket's reads
    late,         \* the calls whose own ctx deadline has passed
    outcome,      \* how each caller's last call ended
    wire,         \* the socket
    asked,        \* commands Chrome has received and not answered
    inbox         \* messages from Chrome not yet read

callVars == <<pc, id, late, outcome>>
wireVars == <<wire, deadline, inbox>>
vars     == <<callVars, wireVars, asked>>

Init ==
    /\ pc = [c \in Callers |-> "idle"]
    /\ id = [c \in Callers |-> 0]
    /\ deadline = 0
    /\ late = {}
    /\ outcome = [c \in Callers |-> [how |-> "none"]]
    /\ wire = "open"
    /\ asked = {}
    /\ inbox = <<>>

Return(c, o) ==
    /\ pc' = [pc EXCEPT ![c] = "idle"]
    /\ outcome' = [outcome EXCEPT ![c] = o]

\* The ids that no call, command, message or deadline bears.
Fresh ==
    {i \in IDs : /\ i # deadline
                 /\ \A c \in Callers : id[c] # i
                 /\ \A q \in asked : q.id # i
                 /\ \A k \in DOMAIN inbox : inbox[k].id # i}

-----------------------------------------------------------------------------
\* The id is taken under c.mu, and is nobody else's.
Call(c) ==
    /\ pc[c] = "idle"
    /\ Fresh # {}
    /\ LET i == CHOOSE i \in Fresh : TRUE IN
       /\ id' = [id EXCEPT ![c] = i]
       /\ late' = late \ {i}
    /\ pc' = [pc EXCEPT ![c] = "write"]
    /\ outcome' = [outcome EXCEPT ![c] = [how |-> "none"]]
    /\ UNCHANGED <<wireVars, asked>>

\* WriteJSON: also on a socket whose reads have failed.
Write(c) ==
    /\ pc[c] = "write"
    /\ wire \in {"open", "unreadable"}
    /\ asked' = asked \cup {[id |-> id[c], by |-> c]}
    /\ pc' = [pc EXCEPT ![c] = "arm"]
    /\ UNCHANGED <<id, late, outcome, wireVars>>

WriteFails(c) ==
    /\ pc[c] = "write"
    /\ wire = "gone"
    /\ Return(c, [how |-> "failed"])
    /\ UNCHANGED <<id, late, wireVars, asked>>

\* Mutant of Arm: the read deadline is set once per connection.
ArmOnce(c) ==
    /\ pc[c] = "arm"
    /\ deadline' = IF deadline = 0 THEN id[c] ELSE deadline
    /\ pc' = [pc EXCEPT ![c] = "read"]
    /\ UNCHANGED <<id, late, outcome, wire, inbox, asked>>

\* Mutant of Arm: no read deadline.
ArmNever(c) ==
    /\ pc[c] = "arm"
    /\ pc' = [pc EXCEPT ![c] = "read"]
    /\ UNCHANGED <<id, late, outcome, wireVars, asked>>

\* SetReadDeadline is the connection's, not the call's: the last one counts.
Arm(c) ==
    /\ pc[c] = "arm"
    /\ deadline' = id[c]
    /\ pc' = [pc EXCEPT ![c] = "read"]
    /\ UNCHANGED <<id, late, outcome, wire, inbox, asked>>

\* ReadJSON yields a message that is not the reply to this command.
Discard(c) ==
    /\ pc[c] = "read"
    /\ wire = "open"
    /\ inbox # <<>>
    /\ Head(inbox).id # id[c]
    /\ inbox' = Tail(inbox)
    /\ UNCHANGED <<callVars, wire, deadline, asked>>

\* Mutant of Receive: whatever has an id is taken for the reply.
ReceiveAny(c) ==
    /\ pc[c] = "read"
    /\ wire = "open"
    /\ inbox # <<>>
    /\ Head(inbox).id # 0
    /\ inbox' = Tail(inbox)
    /\ Return(c, IF Head(inbox).kind = "value"
                 THEN [how |-> "value", of |-> Head(inbox).by]
                 ELSE [how |-> "failed"])
    /\ UNCHANGED <<id, late, wire, deadline, asked>>

\* ReadJSON yields the reply: call returns, and evaluate with it.
Receive(c) ==
    /\ pc[c] = "read"
    /\ wire = "open"
    /\ inbox # <<>>
    /\ Head(inbox).id = id[c]
    /\ inbox' = Tail(inbox)
    /\ Return(c, IF Head(inbox).kind = "value"
                 THEN [how |-> "value", of |-> Head(inbox).by]
                 ELSE [how |-> "failed"])
    /\ UNCHANGED <<id, late, wire, deadline, asked>>

\* The deadline on the socket has passed: the read fails, and all later ones.
ReadTimeout(c) ==
    /\ pc[c] = "read"
    /\ wire = "open"
    /\ deadline \in late
    /\ wire' = "unreadable"
    /\ Return(c, [how |-> "timeout", own |-> id[c] \in late])
    /\ UNCHANGED <<id, late, deadline, inbox, asked>>

ReadFails(c) ==
    /\ pc[c] = "read"
    /\ wire # "open"
    /\ Return(c, [how |-> "failed"])
    /\ UNCHANGED <<id, late, wireVars, asked>>

\* Two reads of one socket at once: a frame is torn between them.
TornRead(c) ==
    /\ pc[c] = "read"
    /\ wire = "open"
    /\ \E d \in Callers \ {c} : pc[d] = "read"
    /\ inbox # <<>>
    /\ wire' = "unreadable"
    /\ Return(c, [how |-> "failed"])
    /\ UNCHANGED <<id, late, deadline, inbox, asked>>

-----------------------------------------------------------------------------
(* The environment: Chrome, time, and whoever releases the tab.             *)

Answer(q, kind) ==
    /\ wire = "open"
    /\ Len(inbox) < MaxInbox
    /\ asked' = asked \ {q}
    /\ inbox' = Append(inbox, [id |-> q.id, by |-> q.by, kind |-> kind])
    /\ UNCHANGED <<callVars, wire, deadline>>

EmitEvent ==
    /\ "event" \in Faults
    /\ wire = "open"
    /\ Len(inbox) < MaxInbox
    /\ inbox' = Append(inbox, Event)
    /\ UNCHANGED <<callVars, wire, deadline, asked>>

\* The deadline of a call's context passes: while the call is under way, or
\* later, when other calls may still be reading under it.
Expire(i) ==
    /\ "expire" \in Faults
    /\ i \notin late
    /\ i = deadline \/ \E c \in Callers : pc[c] # "idle" /\ id[c] = i
    /\ late' = late \cup {i}
    /\ UNCHANGED <<pc, id, outcome, wireVars, asked>>

\* Chrome hangs up, or another holder's release closes the socket.
Gone ==
    /\ "hangUp" \in Faults
    /\ wire # "gone"
    /\ wire' = "gone"
    /\ UNCHANGED <<callVars, deadline, inbox, asked>>

-----------------------------------------------------------------------------
CallerStep(c) ==
    \/ Write(c) \/ WriteFails(c) \/ Arm(c)
    \/ Discard(c) \/ Receive(c) \/ ReadTimeout(c) \/ ReadFails(c) \/ TornRead(c)

Next ==
    \/ \E c \in Callers : Call(c) \/ CallerStep(c)
    \/ \E i \in IDs : Expire(i)
    \/ \E q \in asked, kind \in Kinds : Answer(q, kind)
    \/ EmitEvent
    \/ Gone

Spec == Init /\ [][Next]_vars

(* Go runs a caller that can move, and time passes: a context that has a    *)
(* deadline reaches it.  Once the socket's deadline has passed only what is *)
(* already buffered can still be read, so the failing read comes, however   *)
(* many events there are.  Nothing is assumed of Chrome.                    *)
FairSpec ==
    /\ Spec
    /\ \A c \in Callers : WF_vars(CallerStep(c)) /\ WF_vars(ReadTimeout(c))
    /\ \A i \in IDs : WF_vars(Expire(i))

-----------------------------------------------------------------------------
(* Properties. *)

Outcomes ==
    [how : {"none", "failed"}]
        \cup [how : {"value"}, of : Callers \cup {NoCaller}]
        \cup [how : {"timeout"}, own : BOOLEAN]

TypeOK ==
    /\ pc \in [Callers -> {"idle", "write", "arm", "read"}]
    /\ id \in [Callers -> 0 .. MaxIDs]
    /\ deadline \in 0 .. MaxIDs
    /\ late \subseteq IDs
    /\ outcome \in [Callers -> Outcomes]
    /\ wire \in {"open", "unreadable", "gone"}
    /\ asked \subseteq [id : IDs, by : Callers]
    /\ inbox \in Seq([id : 0 .. MaxIDs, by : Callers \cup {NoCaller}, kind : Kinds])

\* A value that evaluate hands a Browser is the page's answer to the command
\* of that same Browser, whoever else is on the socket.
OwnReply ==
    \A c \in Callers : outcome[c].how = "value" => outcome[c].of = c

\* A caller that has had the socket to itself times out on the deadline of
\* that very call, and never on one an earlier call left behind.
TimeoutIsOwn ==
    \A c \in Callers :
        (outcome[c].how = "timeout" /\ \A d \in Callers \ {c} : id[d] = 0) => outcome[c].own

\* Every call returns, by its reply, by the deadline on the socket, or because
\* the socket failed; unless other calls move that deadline on for ever.
CallsReturn ==
    \A c \in Callers :
        \/ []<>(pc[c] = "idle")
        \/ []<>(\E d \in Callers \ {c} : pc[d] = "arm")

\* Every call gives up when its own timeout has passed, if not before.  It does
\* not hold (README, section 4).
CallsGiveUp == \A c \in Callers : pc[c] # "idle" ~> pc[c] = "idle"
=============================================================================
