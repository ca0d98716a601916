---------------------------- MODULE BrowserTabs ----------------------------
(***************************************************************************)
(* The shared-tab registry of connector/browser.go: every Browser value    *)
(* that a scan builds for one page on one Chrome holds ONE reference-      *)
(* counted tab, found through the package-level map liveTabs.              *)
(*                                                                         *)
(* A Browser runs one Send or Close at a time (it holds b.mu from entry to *)
(* return), so pc[b] is both its position and the state of b.mu: "idle"    *)
(* means unlocked.  Every step that waits for Chrome is a step of its own; *)
(* every section under liveTabsMu that does not wait is one action.        *)
(***************************************************************************)
EXTENDS Naturals, FiniteSets

CONSTANTS
    Browsers,     \* the Browser connectors of a scan
    Keys,         \* the map keys: cdp_url + "\x00" + endpoint
    KeyOf,        \* the key each Browser is configured with
    Tabs,         \* identities of browserTab values and of their Chrome pages
    NoTab,        \* nil *browserTab
    NoBrowser,    \* liveTabsMu unlocked
    Faults        \* the failures the environment may produce

FaultKinds == {"endpoint", "dial", "setup", "navigate", "exchange",
               "closeTarget", "closeAll"}

ASSUME BrowsersAssumption == IsFiniteSet(Browsers) /\ NoBrowser \notin Browsers
ASSUME TabsAssumption     == NoTab \notin Tabs
ASSUME KeyOfAssumption    == KeyOf \in [Browsers -> Keys]
ASSUME FaultsAssumption   == Faults \subseteq FaultKinds

VARIABLES
    liveTabs,     \* liveTabs[k]: the published tab of key k
    refs,         \* refs[t]: browserTab.refs
    liveTabsMu,   \* who keeps the map lock across a wait
    tab,          \* tab[b]: b.tab
    sent,         \* sent[b]: b.sent
    own,          \* own[b]: the local variable `tab' of ensureSession or Close
    pc,           \* pc[b]: where b's Send or Close is
    page,         \* page[t]: the page in Chrome behind tab t
    conn,         \* conn[t]: the DevTools socket of tab t
    sweep,        \* sweep[t]: what CloseAllBrowsers still has to do about t
    swept         \* auxiliary: the tabs CloseAllBrowsers took out of liveTabs

mapVars    == <<liveTabs, refs, liveTabsMu>>
browserVars == <<tab, sent, own, pc>>
chromeVars == <<page, conn>>
sweepVars  == <<sweep, swept>>
vars       == <<mapVars, browserVars, chromeVars, sweepVars>>

Opening   == {"attach", "navigate", "publish"}     \* own[b] not yet shared
Discarding == {"discardPage", "discardSocket"}      \* ensureSession's release
Closing   == {"closePage", "closeSocket"}           \* Close's release, lock held
Locations == {"idle", "ensure", "dial", "exchange", "drop"}
                \cup Opening \cup Discarding \cup Closing

-----------------------------------------------------------------------------
(* A tab nothing refers to is garbage, and its identity may be used again. *)

Referenced(t) ==
    \/ \E b \in Browsers : tab[b] = t \/ own[b] = t
    \/ \E k \in Keys : liveTabs[k] = t
    \/ sweep[t] # "none"

Fresh(t) == page[t] = "gone" /\ ~Referenced(t)

Free == liveTabsMu = NoBrowser

Init ==
    /\ liveTabs = [k \in Keys |-> NoTab]
    /\ refs = [t \in Tabs |-> 0]
    /\ liveTabsMu = NoBrowser
    /\ tab = [b \in Browsers |-> NoTab]
    /\ sent = [b \in Browsers |-> FALSE]
    /\ own = [b \in Browsers |-> NoTab]
    /\ pc = [b \in Browsers |-> "idle"]
    /\ page = [t \in Tabs |-> "gone"]
    /\ conn = [t \in Tabs |-> "closed"]
    /\ sweep = [t \in Tabs |-> "none"]
    /\ swept = {}

Goto(b, l) == pc' = [pc EXCEPT ![b] = l]

-----------------------------------------------------------------------------
(* Send: ensureSession, then one evaluate in the page. *)

\* Send takes b.mu; ensureSession returns at once when b.tab is set.
Send(b) ==
    /\ pc[b] = "idle"
    /\ Goto(b, IF tab[b] # NoTab THEN "exchange" ELSE "ensure")
    /\ UNCHANGED <<mapVars, tab, sent, own, chromeVars, sweepVars>>

\* No CDP URL, or the endpoint does not pass the address policy.
RefuseEndpoint(b) ==
    /\ pc[b] = "ensure"
    /\ "endpoint" \in Faults
    /\ Goto(b, "idle")
    /\ UNCHANGED <<mapVars, tab, sent, own, chromeVars, sweepVars>>

\* Mutant of Join: the tab is shared and not counted.
JoinUncounted(b) ==
    LET t == liveTabs[KeyOf[b]] IN
    /\ pc[b] = "ensure"
    /\ Free
    /\ t # NoTab
    /\ tab' = [tab EXCEPT ![b] = t]
    /\ Goto(b, "exchange")
    /\ UNCHANGED <<mapVars, sent, own, chromeVars, sweepVars>>

\* The tab of this key is already open: share it.
Join(b) ==
    LET t == liveTabs[KeyOf[b]] IN
    /\ pc[b] = "ensure"
    /\ Free
    /\ t # NoTab
    /\ refs' = [refs EXCEPT ![t] = @ + 1]
    /\ tab' = [tab EXCEPT ![b] = t]
    /\ Goto(b, "exchange")
    /\ UNCHANGED <<liveTabs, liveTabsMu, sent, own, chromeVars, sweepVars>>

\* No tab of this key yet: open one, with the map unlocked.
Miss(b) ==
    /\ pc[b] = "ensure"
    /\ Free
    /\ liveTabs[KeyOf[b]] = NoTab
    /\ Goto(b, "dial")
    /\ UNCHANGED <<mapVars, tab, sent, own, chromeVars, sweepVars>>

\* dialCDP fails before Chrome has created a page.
DialFails(b) ==
    /\ pc[b] = "dial"
    /\ "dial" \in Faults
    /\ Goto(b, "idle")
    /\ UNCHANGED <<mapVars, tab, sent, own, chromeVars, sweepVars>>

\* dialCDP: the socket is open and Chrome executes Target.createTarget.
CreateTarget(b, t) ==
    /\ pc[b] = "dial"
    /\ Fresh(t)
    /\ own' = [own EXCEPT ![b] = t]
    /\ page' = [page EXCEPT ![t] = "blank"]
    /\ conn' = [conn EXCEPT ![t] = "open"]
    /\ swept' = swept \ {t}
    /\ Goto(b, "attach")
    /\ UNCHANGED <<mapVars, tab, sent, sweep>>

\* dialCDP: a reply to createTarget is lost, or attachToTarget,
\* Runtime.enable or Page.enable fails.  Only the socket is closed.
SetupFails(b) ==
    /\ pc[b] = "attach"
    /\ "setup" \in Faults
    /\ conn' = [conn EXCEPT ![own[b]] = "closed"]
    /\ own' = [own EXCEPT ![b] = NoTab]
    /\ Goto(b, "idle")
    /\ UNCHANGED <<mapVars, tab, sent, page, sweepVars>>

\* dialCDP returns and ensureSession builds the browserTab with refs: 1.
Attached(b) ==
    /\ pc[b] = "attach"
    /\ refs' = [refs EXCEPT ![own[b]] = 1]
    /\ Goto(b, "navigate")
    /\ UNCHANGED <<liveTabs, liveTabsMu, tab, sent, own, chromeVars, sweepVars>>

Navigated(b) ==
    /\ pc[b] = "navigate"
    /\ page' = [page EXCEPT ![own[b]] = "shown"]
    /\ Goto(b, "publish")
    /\ UNCHANGED <<mapVars, tab, sent, own, conn, sweepVars>>

\* Mutant of NavigateFails: it is tried again, for ever.
NavigateRetried(b) ==
    /\ pc[b] = "navigate"
    /\ "navigate" \in Faults
    /\ Goto(b, "attach")
    /\ UNCHANGED <<mapVars, tab, sent, own, chromeVars, sweepVars>>

NavigateFails(b) ==
    /\ pc[b] = "navigate"
    /\ "navigate" \in Faults
    /\ Goto(b, "discardPage")
    /\ UNCHANGED <<mapVars, tab, sent, own, chromeVars, sweepVars>>

\* Mutant of Publish: the map is not looked at again.
PublishUnchecked(b) ==
    LET k == KeyOf[b] IN
    /\ pc[b] = "publish"
    /\ Free
    /\ liveTabs' = [liveTabs EXCEPT ![k] = own[b]]
    /\ tab' = [tab EXCEPT ![b] = own[b]]
    /\ own' = [own EXCEPT ![b] = NoTab]
    /\ Goto(b, "exchange")
    /\ UNCHANGED <<refs, liveTabsMu, sent, chromeVars, sweepVars>>

\* Still nobody else's tab under this key: publish our own.
Publish(b) ==
    LET k == KeyOf[b] IN
    /\ pc[b] = "publish"
    /\ Free
    /\ liveTabs[k] = NoTab
    /\ liveTabs' = [liveTabs EXCEPT ![k] = own[b]]
    /\ tab' = [tab EXCEPT ![b] = own[b]]
    /\ own' = [own EXCEPT ![b] = NoTab]
    /\ Goto(b, "exchange")
    /\ UNCHANGED <<refs, liveTabsMu, sent, chromeVars, sweepVars>>

\* Mutant of LoseRace: the tab just opened is forgotten.
LoseRaceForgets(b) ==
    LET t == liveTabs[KeyOf[b]] IN
    /\ pc[b] = "publish"
    /\ Free
    /\ t # NoTab
    /\ refs' = [refs EXCEPT ![t] = @ + 1]
    /\ tab' = [tab EXCEPT ![b] = t]
    /\ own' = [own EXCEPT ![b] = NoTab]
    /\ Goto(b, "exchange")
    /\ UNCHANGED <<liveTabs, liveTabsMu, sent, chromeVars, sweepVars>>

\* Another Browser published first: share its tab and discard our own.
LoseRace(b) ==
    LET t == liveTabs[KeyOf[b]] IN
    /\ pc[b] = "publish"
    /\ Free
    /\ t # NoTab
    /\ refs' = [refs EXCEPT ![t] = @ + 1]
    /\ tab' = [tab EXCEPT ![b] = t]
    /\ Goto(b, "discardPage")
    /\ UNCHANGED <<liveTabs, liveTabsMu, sent, own, chromeVars, sweepVars>>

\* evaluate answers out.OK; b.sent is set whether or not the reply is empty.
ExchangeOK(b) ==
    /\ pc[b] = "exchange"
    /\ page[tab[b]] = "shown"
    /\ conn[tab[b]] = "open"
    /\ sent' = [sent EXCEPT ![b] = TRUE]
    /\ Goto(b, "idle")
    /\ UNCHANGED <<mapVars, tab, own, chromeVars, sweepVars>>

\* evaluate fails, because the tab is not usable or for a reason of Chrome's
\* or the page's; a read deadline that passes leaves the socket unreadable.
ExchangeFails(b) ==
    LET t == tab[b] IN
    /\ pc[b] = "exchange"
    /\ \/ "exchange" \in Faults
       \/ page[t] # "shown"
       \/ conn[t] # "open"
    /\ \/ conn' = conn
       \/ /\ "exchange" \in Faults
          /\ conn[t] = "open"
          /\ conn' = [conn EXCEPT ![t] = "stale"]
    /\ Goto(b, "idle")
    /\ UNCHANGED <<mapVars, tab, sent, own, page, sweepVars>>

-----------------------------------------------------------------------------
(* browserTab.release, shared by ensureSession, Close and CloseAllBrowsers: *)
(* ask Chrome to close the page, ignore the answer, close the socket.  The  *)
(* request is written even on a socket whose reads fail, and not at all on  *)
(* one that is closed.                                                      *)

\* Mutant of AskedToClose: release closes the socket alone.
NeverAsked(t) == page' = page

AskedToClose(t) ==
    \/ /\ conn[t] # "closed"
       /\ page' = [page EXCEPT ![t] = "gone"]
    \/ /\ conn[t] = "closed" \/ "closeTarget" \in Faults
       /\ page' = page

ReleasePage(b) ==
    /\ pc[b] \in {"discardPage", "closePage"}
    /\ AskedToClose(own[b])
    /\ Goto(b, IF pc[b] = "discardPage" THEN "discardSocket" ELSE "closeSocket")
    /\ UNCHANGED <<mapVars, tab, sent, own, conn, sweepVars>>

\* ensureSession's release returns: with an error after a failed navigation,
\* and to Send with the other Browser's tab after a lost race.
DiscardSocket(b) ==
    /\ pc[b] = "discardSocket"
    /\ conn' = [conn EXCEPT ![own[b]] = "closed"]
    /\ own' = [own EXCEPT ![b] = NoTab]
    /\ Goto(b, IF tab[b] # NoTab THEN "exchange" ELSE "idle")
    /\ UNCHANGED <<mapVars, tab, sent, page, sweepVars>>

\* Close's release returns and the deferred unlocks run.
CloseSocket(b) ==
    /\ pc[b] = "closeSocket"
    /\ conn' = [conn EXCEPT ![own[b]] = "closed"]
    /\ own' = [own EXCEPT ![b] = NoTab]
    /\ liveTabsMu' = NoBrowser
    /\ Goto(b, "idle")
    /\ UNCHANGED <<liveTabs, refs, tab, sent, page, sweepVars>>

-----------------------------------------------------------------------------
(* Close. *)

\* Under b.mu: forget the tab before the map lock is taken.
Close(b) ==
    /\ pc[b] = "idle"
    /\ tab[b] # NoTab
    /\ own' = [own EXCEPT ![b] = tab[b]]
    /\ tab' = [tab EXCEPT ![b] = NoTab]
    /\ sent' = [sent EXCEPT ![b] = FALSE]
    /\ Goto(b, "drop")
    /\ UNCHANGED <<mapVars, chromeVars, sweepVars>>

\* Under liveTabsMu: give up one of several references.
DropShared(b) ==
    LET t == own[b] IN
    /\ pc[b] = "drop"
    /\ Free
    /\ refs[t] > 1
    /\ refs' = [refs EXCEPT ![t] = @ - 1]
    /\ own' = [own EXCEPT ![b] = NoTab]
    /\ Goto(b, "idle")
    /\ UNCHANGED <<liveTabs, liveTabsMu, tab, sent, chromeVars, sweepVars>>

\* Mutant of DropLast: the entry of the Browser's key is deleted, whoever's.
DropByKey(b) ==
    LET t == own[b] IN
    /\ pc[b] = "drop"
    /\ Free
    /\ refs[t] <= 1
    /\ refs' = [refs EXCEPT ![t] = @ - 1]
    /\ liveTabs' = [liveTabs EXCEPT ![KeyOf[b]] = NoTab]
    /\ liveTabsMu' = b
    /\ Goto(b, "closePage")
    /\ UNCHANGED <<tab, sent, own, chromeVars, sweepVars>>

\* Under liveTabsMu: the last reference.  The entries holding this very tab
\* are deleted and the lock is kept until release returns.
DropLast(b) ==
    LET t == own[b] IN
    /\ pc[b] = "drop"
    /\ Free
    /\ refs[t] <= 1
    /\ refs' = [refs EXCEPT ![t] = @ - 1]
    /\ liveTabs' = [k \in Keys |-> IF liveTabs[k] = t THEN NoTab ELSE liveTabs[k]]
    /\ liveTabsMu' = b
    /\ Goto(b, "closePage")
    /\ UNCHANGED <<tab, sent, own, chromeVars, sweepVars>>

-----------------------------------------------------------------------------
(* CloseAllBrowsers: empty the map under the lock, release after it.  The   *)
(* tabs of several calls may be awaiting release at once.                   *)

Live == {t \in Tabs : \E k \in Keys : liveTabs[k] = t}

CloseAll ==
    /\ "closeAll" \in Faults
    /\ Free
    /\ Live # {}
    /\ liveTabs' = [k \in Keys |-> NoTab]
    /\ sweep' = [t \in Tabs |-> IF t \in Live THEN "page" ELSE sweep[t]]
    /\ swept' = swept \cup Live
    /\ UNCHANGED <<refs, liveTabsMu, browserVars, chromeVars>>

SweepPage(t) ==
    /\ sweep[t] = "page"
    /\ AskedToClose(t)
    /\ sweep' = [sweep EXCEPT ![t] = "socket"]
    /\ UNCHANGED <<mapVars, browserVars, conn, swept>>

SweepSocket(t) ==
    /\ sweep[t] = "socket"
    /\ conn' = [conn EXCEPT ![t] = "closed"]
    /\ sweep' = [sweep EXCEPT ![t] = "none"]
    /\ UNCHANGED <<mapVars, browserVars, page, swept>>

-----------------------------------------------------------------------------
(* What a started call does next: the steps that need the map lock ...      *)
LockStep(b) ==
    Join(b) \/ Miss(b) \/ Publish(b) \/ LoseRace(b) \/ DropShared(b) \/ DropLast(b)

(* ... and those that do not. *)
CallStep(b) ==
    \/ RefuseEndpoint(b) \/ DialFails(b) \/ SetupFails(b) \/ Attached(b)
    \/ \E t \in Tabs : CreateTarget(b, t)
    \/ Navigated(b) \/ NavigateFails(b)
    \/ ExchangeOK(b) \/ ExchangeFails(b)
    \/ ReleasePage(b) \/ DiscardSocket(b) \/ CloseSocket(b)

SweepStep(t) == SweepPage(t) \/ SweepSocket(t)

Next ==
    \/ \E b \in Browsers : Send(b) \/ Close(b) \/ LockStep(b) \/ CallStep(b)
    \/ CloseAll
    \/ \E t \in Tabs : SweepStep(t)

Spec == Init /\ [][Next]_vars

(* Every call to Chrome has a deadline, so a started call moves on; sync.   *)
(* Mutex hands a starving waiter the lock, so a lock that is free again and *)
(* again is obtained.  Starting a Send, Close or CloseAll is never forced.  *)
Fairness ==
    /\ \A b \in Browsers : WF_vars(CallStep(b)) /\ SF_vars(LockStep(b))
    /\ \A t \in Tabs : WF_vars(SweepStep(t))

FairSpec == Spec /\ Fairness

-----------------------------------------------------------------------------
(* Properties. *)

\* The type invariant: every variable holds a value the program could give it.
TypeOK ==
    /\ liveTabs \in [Keys -> Tabs \cup {NoTab}]
    /\ refs \in [Tabs -> Nat]
    /\ liveTabsMu \in Browsers \cup {NoBrowser}
    /\ tab \in [Browsers -> Tabs \cup {NoTab}]
    /\ sent \in [Browsers -> BOOLEAN]
    /\ own \in [Browsers -> Tabs \cup {NoTab}]
    /\ pc \in [Browsers -> Locations]
    /\ page \in [Tabs -> {"gone", "blank", "shown"}]
    /\ conn \in [Tabs -> {"closed", "open", "stale"}]
    /\ sweep \in [Tabs -> {"none", "page", "socket"}]
    /\ swept \subseteq Tabs

\* A Browser owes one decrement of t.refs from the moment it joins the tab
\* until Close has decremented, which is after b.tab is already nil.
Holds(b, t) == tab[b] = t \/ (pc[b] = "drop" /\ own[b] = t)

Holders(t) == {b \in Browsers : Holds(b, t)}

\* The reference count of a tab that anybody holds, or that is published, is
\* the number of Browsers still to Close it, and a published tab has one at
\* least: joins, lost races, CloseAll and the window inside Close included.
RefsExact ==
    \A t \in Tabs :
        (t \in Live \/ Holders(t) # {}) => /\ refs[t] = Cardinality(Holders(t))
                                           /\ refs[t] > 0

\* A Browser whose tab was not taken by CloseAllBrowsers holds the tab that is
\* published under its key, and that page is on screen: no other Browser's
\* Close, lost race or failed navigation ever takes it away.
HeldTabIsLive ==
    \A b \in Browsers :
        tab[b] \notin swept \cup {NoTab} =>
            /\ liveTabs[KeyOf[b]] = tab[b]
            /\ page[tab[b]] = "shown"
            /\ conn[tab[b]] # "closed"

\* A page in Chrome is always somebody's to close: a Browser holds it or is
\* opening or releasing it, or CloseAllBrowsers is about to release it.
NoLitter ==
    \A t \in Tabs : page[t] # "gone" => Referenced(t)

\* Every Send and every Close returns, however the others interleave with it
\* and although Close keeps the map lock while it talks to Chrome.
CallsReturn == \A b \in Browsers : pc[b] # "idle" ~> pc[b] = "idle"

\* A page nobody holds any more is closed in the end, whoever let go of it.
LitterCleared ==
    \A t \in Tabs :
        (page[t] # "gone" /\ Holders(t) = {}) ~> (page[t] = "gone" \/ Holders(t) # {})

\* The Browsers taking part in the tab that is published under key k.
Members ==
    [k \in Keys |-> {b \in Browsers : /\ KeyOf[b] = k
                                      /\ liveTabs[k] # NoTab
                                      /\ Holds(b, liveTabs[k])}]

Shared == INSTANCE SharedPage WITH convo <- liveTabs, members <- Members

\* The registry implements SharedPage: one conversation per page, entered by
\* every Browser that comes, ended by the last to leave or by the scan.
ImplementsSharedPage == Shared!Spec

-----------------------------------------------------------------------------
(* Why the properties hold: an inductive invariant, in named parts.         *)

\* b is the only one that can reach own[b].
Alone(b) == pc[b] \in Opening \cup Discarding \cup Closing

\* The local and the shared variable of a call follow its position, and the
\* map lock is kept exactly while a Close releases its tab.
CallShape ==
    \A b \in Browsers :
        /\ own[b] # NoTab <=> Alone(b) \/ pc[b] = "drop"
        /\ tab[b] # NoTab => pc[b] \in {"idle", "exchange"} \cup Discarding
        /\ pc[b] = "exchange" => tab[b] # NoTab
        /\ pc[b] \in Closing <=> liveTabsMu = b

\* A tab being opened, discarded or closed is reachable through nobody else.
OwnTabs ==
    \A b \in Browsers : Alone(b) =>
        /\ \A c \in Browsers : ~Holds(c, own[b])
        /\ \A c \in Browsers : Alone(c) /\ c # b => own[c] # own[b]
        /\ \A k \in Keys : liveTabs[k] # own[b]

\* A tab being opened is new, counted once, and shown before it is published.
OpeningTabs ==
    \A b \in Browsers : pc[b] \in Opening =>
        /\ own[b] \notin swept
        /\ conn[own[b]] = "open"
        /\ pc[b] # "attach" => refs[own[b]] = 1
        /\ pc[b] = "publish" => page[own[b]] = "shown"

\* A published tab is usable, under one key only, and somebody holds it.
LiveTabs ==
    \A k \in Keys : liveTabs[k] # NoTab =>
        /\ liveTabs[k] \notin swept
        /\ page[liveTabs[k]] = "shown"
        /\ conn[liveTabs[k]] # "closed"
        /\ \E b \in Browsers : Holds(b, liveTabs[k])
        /\ \A j \in Keys : liveTabs[j] = liveTabs[k] => j = k

\* A tab that is held is published under its holder's key unless swept.
HeldTabs ==
    \A b \in Browsers, t \in Tabs :
        Holds(b, t) => t \in swept \/ liveTabs[KeyOf[b]] = t

\* The count of a held tab is the number of its holders.
Counts ==
    \A t \in Tabs : (\E b \in Browsers : Holds(b, t)) => refs[t] = Cardinality(Holders(t))

\* Only a tab taken by CloseAllBrowsers awaits its release.
SweptTabs == \A t \in Tabs : sweep[t] # "none" => t \in swept

\* The inductive invariant: whatever half-fails, what a Browser holds, what is
\* published, what is being opened or closed and who is counted stay in step.
IInv ==
    /\ TypeOK /\ CallShape /\ OwnTabs /\ OpeningTabs
    /\ LiveTabs /\ HeldTabs /\ Counts /\ SweptTabs

\* When Chrome executes every closeTarget and no dialCDP fails half way: a
\* page whose socket is closed, or whose release has asked Chrome, is gone.
PageFollowsSocket ==
    /\ \A t \in Tabs : conn[t] = "closed" \/ sweep[t] = "socket" => page[t] = "gone"
    /\ \A b \in Browsers :
          pc[b] \in {"discardSocket", "closeSocket"} => page[own[b]] = "gone"
=============================================================================
