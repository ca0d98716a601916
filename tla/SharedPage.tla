----------------------------- MODULE SharedPage -----------------------------
(***************************************************************************)
(* What the tab registry of connector/browser.go promises a scan: a page   *)
(* has at most one conversation at a time; every Browser pointed at it     *)
(* takes part in that one; the conversation lasts exactly as long as       *)
(* somebody takes part, unless the scan ends every conversation at once.   *)
(* Dialling, locking, lost races and releases are not visible here.        *)
(***************************************************************************)
CONSTANTS
    Browsers, Keys, KeyOf,
    Tabs,         \* identities of conversations
    NoTab         \* no conversation

VARIABLES
    convo,        \* convo[k]: the conversation on page k
    members       \* members[k]: who takes part in it

pageVars == <<convo, members>>

Init ==
    /\ convo = [k \in Keys |-> NoTab]
    /\ members = [k \in Keys |-> {}]

\* The first participant opens a conversation no other page is showing.
Start(b, t) ==
    /\ convo[KeyOf[b]] = NoTab
    /\ \A k \in Keys : convo[k] # t
    /\ convo' = [convo EXCEPT ![KeyOf[b]] = t]
    /\ members' = [members EXCEPT ![KeyOf[b]] = {b}]

\* Later ones enter the conversation that is there.
Enter(b) ==
    /\ convo[KeyOf[b]] # NoTab
    /\ b \notin members[KeyOf[b]]
    /\ members' = [members EXCEPT ![KeyOf[b]] = @ \cup {b}]
    /\ UNCHANGED convo

\* One of several leaves: the conversation goes on for the others.
Leave(b) ==
    /\ b \in members[KeyOf[b]]
    /\ members[KeyOf[b]] # {b}
    /\ members' = [members EXCEPT ![KeyOf[b]] = @ \ {b}]
    /\ UNCHANGED convo

\* The last one leaves: the conversation is over.
End(b) ==
    /\ members[KeyOf[b]] = {b}
    /\ convo' = [convo EXCEPT ![KeyOf[b]] = NoTab]
    /\ members' = [members EXCEPT ![KeyOf[b]] = {}]

\* The scan ends them all.
Disband ==
    /\ convo' = [k \in Keys |-> NoTab]
    /\ members' = [k \in Keys |-> {}]

Next ==
    \/ \E b \in Browsers :
          \/ \E t \in Tabs : Start(b, t)
          \/ Enter(b) \/ Leave(b) \/ End(b)
    \/ Disband

Spec == Init /\ [][Next]_pageVars
=============================================================================
