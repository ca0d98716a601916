---------------------------- MODULE TargetContract ----------------------------
(***************************************************************************)
(* What target.go promises of every connector's Send: a payload goes to    *)
(* the target while it is being sent and at no other time; a reply is      *)
(* returned only for a payload the target has got; anything else that      *)
(* ends a Send is an error.                                                *)
(***************************************************************************)
EXTENDS Naturals

CONSTANTS
    Senders,      \* who calls Send
    Payloads,     \* the messages of a scan, each sent once
    NoPayload

VARIABLES
    asking,       \* asking[s]: the payload that s is sending
    reached,      \* the payloads the target has got
    returned      \* returned[s]: how the last Send of s ended

vars == <<asking, reached, returned>>

Init ==
    /\ asking = [s \in Senders |-> NoPayload]
    /\ reached = {}
    /\ returned = [s \in Senders |-> "none"]

Ask(s) ==
    /\ asking[s] = NoPayload
    /\ \E p \in Payloads \ reached :
          /\ \A r \in Senders : asking[r] # p
          /\ asking' = [asking EXCEPT ![s] = p]
    /\ returned' = [returned EXCEPT ![s] = "none"]
    /\ UNCHANGED reached

Reach(s) ==
    /\ asking[s] # NoPayload
    /\ reached' = reached \cup {asking[s]}
    /\ UNCHANGED <<asking, returned>>

Return(s, outcome) ==
    /\ asking[s] # NoPayload
    /\ asking' = [asking EXCEPT ![s] = NoPayload]
    /\ returned' = [returned EXCEPT ![s] = outcome]
    /\ UNCHANGED reached

Reply(s) == asking[s] \in reached /\ Return(s, "reply")

Fail(s) == Return(s, "error")

Next == \E s \in Senders : Ask(s) \/ Reach(s) \/ Reply(s) \/ Fail(s)

Spec == Init /\ [][Next]_vars
=============================================================================
