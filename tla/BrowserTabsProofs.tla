------------------------- MODULE BrowserTabsProofs -------------------------
(***************************************************************************)
(* Theorems about BrowserTabs, for every finite set of Browsers, every set *)
(* of keys and tabs, every assignment of keys and every set of faults.     *)
(***************************************************************************)
EXTENDS BrowserTabs, FiniteSetTheorems, TLAPS

USE DEF Opening, Discarding, Closing, Locations

-----------------------------------------------------------------------------
(* What the parts of the invariant say together.                           *)

\* The Browsers that hold a tab are a finite set.
LEMMA HoldersFinite == \A t : IsFiniteSet(Holders(t))
BY BrowsersAssumption, FS_Subset DEF Holders

\* Every Browser is configured with a key of the map.
LEMMA KeyInKeys == \A b \in Browsers : KeyOf[b] \in Keys
BY KeyOfAssumption

\* A tab that a call opens, discards or closes is a tab nobody else can reach.
LEMMA AloneTab ==
    ASSUME IInv, NEW b \in Browsers, Alone(b)
    PROVE  /\ own[b] \in Tabs
           /\ \A c \in Browsers : ~Holds(c, own[b]) /\ liveTabs[KeyOf[c]] # own[b]
           /\ \A c \in Browsers \ {b} : Alone(c) => own[c] # own[b]
BY KeyInKeys DEF IInv, TypeOK, CallShape, OwnTabs

\* A tab that is being given up with others still counted is held by another.
LEMMA SharedTab ==
    ASSUME IInv, NEW b \in Browsers, DropShared(b)
    PROVE  \E c \in Browsers \ {b} : Holds(c, own[b])
<1>1. own[b] \in Tabs /\ b \in Holders(own[b])
    BY DEF DropShared, IInv, TypeOK, CallShape, Holders, Holds
<1>2. refs[own[b]] = Cardinality(Holders(own[b])) /\ refs[own[b]] > 1
    BY <1>1 DEF DropShared, IInv, Counts, Holders
<1>3. Holders(own[b]) # {b}
  <2>1. Cardinality({b}) = 1
      BY FS_Singleton
  <2>2. QED
      BY <1>2, <2>1
<1>4. QED
    BY <1>1, <1>3 DEF Holders

\* A tab that is given up by the last reference is held by nobody else.
LEMMA LastTab ==
    ASSUME IInv, NEW b \in Browsers, DropLast(b)
    PROVE  \A c \in Browsers \ {b} : ~Holds(c, own[b])
<1> DEFINE H == Holders(own[b])
<1>1. own[b] \in Tabs /\ b \in H
    BY DEF DropLast, IInv, TypeOK, CallShape, Holders, Holds
<1>2. Cardinality(H) <= 1
    BY <1>1 DEF DropLast, IInv, Counts, Holders
<1>3. IsFiniteSet(H \ {b}) /\ Cardinality(H \ {b}) = Cardinality(H) - 1
    BY <1>1, HoldersFinite, FS_RemoveElement
<1>4. Cardinality(H) \in Nat /\ Cardinality(H \ {b}) \in Nat
    BY <1>3, HoldersFinite, FS_CardinalityType
<1>5. H \ {b} = {}
    BY <1>2, <1>3, <1>4, FS_EmptySet
<1>6. QED
    BY <1>5 DEF Holders

-----------------------------------------------------------------------------
(* Who holds what after a step.                                            *)

\* A call that neither takes up a shared tab nor gives up a reference leaves
\* every holding as it is; Close only moves its own from b.tab to its local.
LEMMA OwnStepHolds ==
    ASSUME IInv, NEW b \in Browsers, Send(b) \/ Close(b) \/ Miss(b) \/ CallStep(b)
    PROVE  \A c \in Browsers, t \in Tabs : Holds(c, t)' <=> Holds(c, t)
BY TabsAssumption
   DEF Send, Close, Miss, CallStep, RefuseEndpoint, DialFails, SetupFails, Attached,
       CreateTarget, Navigated, NavigateFails, ExchangeOK, ExchangeFails, ReleasePage,
       DiscardSocket, CloseSocket, Goto, IInv, TypeOK, CallShape, Alone, Holds

\* Joining, first or after a lost race, adds one holding of a tab of this key.
LEMMA EnterHolds ==
    ASSUME IInv, NEW b \in Browsers, Join(b) \/ LoseRace(b)
    PROVE  /\ liveTabs[KeyOf[b]] \in Tabs /\ ~Holds(b, liveTabs[KeyOf[b]])
           /\ \A c \in Browsers, t \in Tabs :
                  Holds(c, t)' <=> Holds(c, t) \/ (c = b /\ t = liveTabs[KeyOf[b]])
<1>1. liveTabs[KeyOf[b]] \in Tabs
    BY KeyInKeys DEF Join, LoseRace, IInv, TypeOK
<1>2. tab[b] = NoTab /\ pc[b] # "drop" /\ pc'[b] # "drop"
    BY DEF Join, LoseRace, Goto, IInv, TypeOK, CallShape
<1>3. QED
    BY <1>1, <1>2, TabsAssumption DEF Join, LoseRace, Goto, IInv, TypeOK, Holds

\* Giving up a reference takes away one holding, that of the local tab.
LEMMA DropHolds ==
    ASSUME IInv, NEW b \in Browsers, DropShared(b) \/ DropLast(b)
    PROVE  /\ own[b] \in Tabs /\ Holds(b, own[b])
           /\ \A c \in Browsers, t \in Tabs :
                  Holds(c, t)' <=> Holds(c, t) /\ ~(c = b /\ t = own[b])
<1>1. own[b] \in Tabs /\ Holds(b, own[b]) /\ tab[b] = NoTab /\ pc'[b] # "drop"
    BY DEF DropShared, DropLast, Goto, IInv, TypeOK, CallShape, Holds
<1>2. QED
    BY <1>1, TabsAssumption DEF DropShared, DropLast, Goto, IInv, TypeOK, Holds

\* A step that changes neither who holds what nor the count of a held tab.
LEMMA CountsFrame ==
    ASSUME IInv,
           \A c \in Browsers, t \in Tabs : Holds(c, t)' <=> Holds(c, t),
           \A t \in Tabs : (\E c \in Browsers : Holds(c, t)) => refs'[t] = refs[t]
    PROVE  Counts'
<1>1. \A t \in Tabs : Holders(t)' = Holders(t)
    BY DEF Holders
<1>2. QED
    BY <1>1 DEF IInv, Counts

-----------------------------------------------------------------------------
(* The invariant is inductive.                                             *)

\* It holds initially: no Browser holds anything.
LEMMA InitInv == Init => IInv
<1> SUFFICES ASSUME Init PROVE IInv
    OBVIOUS
<1>1. TypeOK
    BY DEF Init, TypeOK
<1>2. \A b \in Browsers, t \in Tabs : ~Holds(b, t)
    BY TabsAssumption DEF Init, Holds
<1>3. CallShape /\ OwnTabs /\ OpeningTabs
    BY BrowsersAssumption DEF Init, CallShape, OwnTabs, OpeningTabs, Alone
<1>4. LiveTabs /\ HeldTabs /\ Counts /\ SweptTabs
    BY <1>2 DEF Init, LiveTabs, HeldTabs, Counts, SweptTabs
<1>5. QED
    BY <1>1, <1>3, <1>4 DEF IInv

\* The steps of a call that leave the map and every holding as they are.
LEMMA OwnStepInv ==
    ASSUME IInv, NEW b \in Browsers, Send(b) \/ Close(b) \/ Miss(b) \/ CallStep(b)
    PROVE  IInv'
<1> USE DEF Send, Close, Miss, CallStep, RefuseEndpoint, DialFails, SetupFails, Attached,
        CreateTarget, Navigated, NavigateFails, ExchangeOK, ExchangeFails, ReleasePage,
        AskedToClose, DiscardSocket, CloseSocket, mapVars, chromeVars, sweepVars, Goto
<1>1. TypeOK'
  <2>1. liveTabs' = liveTabs /\ sweep' = sweep /\ swept' \subseteq Tabs
      BY DEF IInv, TypeOK
  <2>2. refs' \in [Tabs -> Nat] /\ liveTabsMu' \in Browsers \cup {NoBrowser}
      BY DEF IInv, TypeOK
  <2>3. /\ tab' \in [Browsers -> Tabs \cup {NoTab}]
        /\ own' \in [Browsers -> Tabs \cup {NoTab}]
        /\ pc' \in [Browsers -> Locations]
      BY DEF IInv, TypeOK
  <2>4. sent' \in [Browsers -> BOOLEAN]
      BY DEF IInv, TypeOK
  <2>5. page' \in [Tabs -> {"gone", "blank", "shown"}]
      BY DEF IInv, TypeOK
  <2>6. conn' \in [Tabs -> {"closed", "open", "stale"}]
      BY DEF IInv, TypeOK
  <2>7. QED
      BY <2>1, <2>2, <2>3, <2>4, <2>5, <2>6 DEF IInv, TypeOK
<1>2. \A c \in Browsers, t \in Tabs : Holds(c, t)' <=> Holds(c, t)
    BY OwnStepHolds
<1>3. CallShape'
    BY TabsAssumption, BrowsersAssumption DEF IInv, TypeOK, CallShape, Alone
<1>4. OwnTabs'
    BY <1>2, TabsAssumption DEF IInv, TypeOK, CallShape, OwnTabs, Alone, Fresh, Referenced, Holds
<1>5. OpeningTabs'
    BY TabsAssumption DEF IInv, TypeOK, CallShape, OwnTabs, OpeningTabs, SweptTabs, Alone,
                          Fresh, Referenced, Holds
<1>6. LiveTabs'
    BY <1>2 DEF IInv, TypeOK, CallShape, OwnTabs, LiveTabs, Alone, Fresh, Referenced
<1>7. HeldTabs' /\ SweptTabs'
    BY <1>2 DEF IInv, TypeOK, HeldTabs, SweptTabs, Fresh, Referenced, Holds
<1>8. Counts'
    BY <1>2, CountsFrame DEF IInv, TypeOK, OwnTabs, CallShape, Alone
<1>9. QED
    BY <1>1, <1>3, <1>4, <1>5, <1>6, <1>7, <1>8 DEF IInv

\* A step of CloseAllBrowsers's releases.
LEMMA SweepStepInv ==
    ASSUME IInv, NEW u \in Tabs, SweepStep(u)
    PROVE  IInv'
<1> USE DEF SweepStep, SweepPage, SweepSocket, AskedToClose, mapVars, browserVars
<1>1. TypeOK'
    BY DEF IInv, TypeOK
<1>2. \A c \in Browsers, t \in Tabs : Holds(c, t)' <=> Holds(c, t)
    BY DEF Holds
<1>3. CallShape'
    BY DEF IInv, CallShape, Alone
<1>4. OwnTabs'
    BY DEF IInv, OwnTabs, Alone, Holds
<1>5. OpeningTabs' /\ LiveTabs'
    BY TabsAssumption DEF IInv, TypeOK, CallShape, OpeningTabs, LiveTabs, SweptTabs, Alone, Holds
<1>6. HeldTabs' /\ SweptTabs'
    BY DEF IInv, TypeOK, HeldTabs, SweptTabs, Holds
<1>7. Counts'
    BY <1>2, CountsFrame
<1>8. QED
    BY <1>1, <1>3, <1>4, <1>5, <1>6, <1>7 DEF IInv
\* CloseAllBrowsers takes every published tab out of the map at once.
LEMMA CloseAllInv ==
    ASSUME IInv, CloseAll
    PROVE  IInv'
<1> USE DEF CloseAll, Live, browserVars, chromeVars
<1>1. TypeOK'
    BY DEF IInv, TypeOK
<1>2. \A c \in Browsers, t \in Tabs : Holds(c, t)' <=> Holds(c, t)
    BY DEF Holds
<1>3. CallShape' /\ OwnTabs' /\ LiveTabs'
    BY <1>2, TabsAssumption DEF IInv, TypeOK, CallShape, OwnTabs, LiveTabs, Alone
<1>4. OpeningTabs'
    BY DEF IInv, TypeOK, OwnTabs, OpeningTabs, Alone
<1>5. HeldTabs' /\ SweptTabs'
    BY <1>2, KeyInKeys DEF IInv, TypeOK, HeldTabs, SweptTabs
<1>6. Counts'
    BY <1>2, CountsFrame
<1>7. QED
    BY <1>1, <1>3, <1>4, <1>5, <1>6 DEF IInv

\* Joining the published tab: one more holder, one more reference.
LEMMA EnterInv ==
    ASSUME IInv, NEW b \in Browsers, Join(b) \/ LoseRace(b)
    PROVE  IInv'
<1> DEFINE u == liveTabs[KeyOf[b]]
<1> USE DEF Join, LoseRace, mapVars, chromeVars, sweepVars, Goto
<1>1. u \in Tabs /\ ~Holds(b, u)
    BY EnterHolds
<1>2. \A c \in Browsers, t \in Tabs : Holds(c, t)' <=> Holds(c, t) \/ (c = b /\ t = u)
    BY EnterHolds
<1>3. TypeOK'
    BY <1>1 DEF IInv, TypeOK
<1>4. CallShape'
    BY <1>1, TabsAssumption, BrowsersAssumption DEF IInv, TypeOK, CallShape, Alone
<1>5. OwnTabs'
  <2>1. \A c \in Browsers : Alone(c)' <=> Alone(c)
      BY DEF IInv, TypeOK, Alone
  <2>2. \A c \in Browsers : Alone(c) => own[c] \in Tabs \ {u}
      BY AloneTab
  <2>3. own' = own /\ liveTabs' = liveTabs
      OBVIOUS
  <2>4. QED
      BY <1>2, <2>1, <2>2, <2>3 DEF IInv, OwnTabs
<1>6. OpeningTabs'
  <2>1. \A c \in Browsers : pc'[c] \in Opening => pc'[c] = pc[c] /\ own[c] \in Tabs \ {u}
      BY AloneTab DEF IInv, TypeOK, Alone
  <2>2. \A t \in Tabs \ {u} : refs'[t] = refs[t]
      BY <1>1 DEF IInv, TypeOK
  <2>3. QED
      BY <2>1, <2>2 DEF IInv, OpeningTabs
<1>7. LiveTabs'
    BY <1>1, <1>2 DEF IInv, TypeOK, LiveTabs
<1>8. HeldTabs' /\ SweptTabs'
    BY <1>1, <1>2 DEF IInv, HeldTabs, SweptTabs
<1>9. Counts'
  <2>1. \A t \in Tabs \ {u} : Holders(t)' = Holders(t) /\ refs'[t] = refs[t]
      BY <1>1, <1>2 DEF IInv, TypeOK, Holders
  <2>2. Holders(u)' = Holders(u) \cup {b} /\ b \notin Holders(u)
      BY <1>1, <1>2 DEF Holders
  <2>3. Cardinality(Holders(u)') = Cardinality(Holders(u)) + 1
      BY <2>2, HoldersFinite, FS_AddElement
  <2>4. refs'[u] = refs[u] + 1 /\ refs[u] = Cardinality(Holders(u))
      BY <1>1, KeyInKeys DEF IInv, TypeOK, LiveTabs, Counts
  <2>5. QED
      BY <1>2, <2>1, <2>3, <2>4 DEF IInv, Counts
<1>10. QED
    BY <1>3, <1>4, <1>5, <1>6, <1>7, <1>8, <1>9 DEF IInv

\* Publishing a tab: its opener, counted when it was opened, is its holder.
LEMMA PublishInv ==
    ASSUME IInv, NEW b \in Browsers, Publish(b)
    PROVE  IInv'
<1> USE DEF Publish, mapVars, browserVars, chromeVars, sweepVars, Goto
<1>0. PICK u \in Tabs : u = own[b]
    BY DEF IInv, TypeOK, CallShape, Alone
<1>1. u \in Tabs /\ ~Holds(b, u)
    BY <1>0, TabsAssumption, KeyOfAssumption DEF IInv, TypeOK, CallShape, OwnTabs, Alone, Holds
<1>2. \A c \in Browsers, t \in Tabs : Holds(c, t)' <=> Holds(c, t) \/ (c = b /\ t = u)
    BY <1>0, <1>1, TabsAssumption DEF IInv, TypeOK, CallShape, Alone, Holds
<1>3. TypeOK'
    BY <1>0, <1>1 DEF IInv, TypeOK
<1>4. CallShape'
    BY <1>0, <1>1, TabsAssumption, BrowsersAssumption DEF IInv, TypeOK, CallShape, Alone
<1>5. OwnTabs'
  <2>1. \A c \in Browsers : Alone(c)' <=> Alone(c) /\ c # b
      BY <1>0 DEF IInv, TypeOK, Alone
  <2>2. \A c \in Browsers : Alone(c) /\ c # b => own[c] \in Tabs \ {u}
      BY <1>0, AloneTab DEF Alone
  <2>3. \A c \in Browsers : own'[c] # own[c] => c = b
      BY <1>0 DEF IInv, TypeOK
  <2>4. liveTabs' = [liveTabs EXCEPT ![KeyOf[b]] = u]
      BY <1>0
  <2>5. QED
      BY <1>0, <1>2, <2>1, <2>2, <2>3, <2>4, KeyInKeys DEF IInv, TypeOK, OwnTabs
<1>6. OpeningTabs'
  <2>1. \A c \in Browsers : pc[c] \in Opening /\ c # b => own[c] # u
      BY <1>0, KeyOfAssumption DEF IInv, OwnTabs, Alone
  <2>2. QED
      BY <1>0, <1>1, <2>1 DEF IInv, TypeOK, OpeningTabs
<1>7. LiveTabs'
    BY <1>0, <1>1, <1>2, KeyOfAssumption DEF IInv, TypeOK, CallShape, OwnTabs, OpeningTabs, LiveTabs, Alone
<1>8. HeldTabs' /\ SweptTabs'
  <2>1. \A c \in Browsers, t \in Tabs : Holds(c, t) => t \in swept \/ KeyOf[c] # KeyOf[b]
      BY <1>0, TabsAssumption DEF IInv, HeldTabs
  <2>2. QED
      BY <1>0, <1>1, <1>2, <2>1, KeyOfAssumption DEF IInv, TypeOK, HeldTabs, SweptTabs
<1>9. Counts'
  <2>1. \A t \in Tabs \ {u} : Holders(t)' = Holders(t) /\ refs'[t] = refs[t]
      BY <1>0, <1>1, <1>2 DEF IInv, TypeOK, Holders
  <2>2. Holders(u)' = {b} /\ refs'[u] = 1
    <3>1. \A c \in Browsers : ~Holds(c, u)
        BY <1>0 DEF IInv, OwnTabs, Alone
    <3>2. refs'[u] = 1
        BY <1>0 DEF IInv, OpeningTabs
    <3>3. QED
        BY <1>0, <1>1, <1>2, <3>1, <3>2 DEF Holders
  <2>3. Cardinality(Holders(u)') = 1
      BY <1>0, <2>2, FS_Singleton
  <2>4. QED
      BY <1>0, <1>1, <1>2, <2>1, <2>2, <2>3 DEF IInv, Counts
<1>10. QED
    BY <1>3, <1>4, <1>5, <1>6, <1>7, <1>8, <1>9 DEF IInv

\* Giving up one of several references leaves another holder.
LEMMA DropSharedInv ==
    ASSUME IInv, NEW b \in Browsers, DropShared(b)
    PROVE  IInv'
<1> USE DEF DropShared, mapVars, chromeVars, sweepVars, Goto
<1>0. PICK u \in Tabs : u = own[b]
    BY DropHolds
<1>1. u \in Tabs /\ Holds(b, u)
    BY <1>0, DropHolds
<1>2. \A c \in Browsers, t \in Tabs : Holds(c, t)' <=> Holds(c, t) /\ ~(c = b /\ t = u)
    BY <1>0, DropHolds
<1>3. \E c \in Browsers \ {b} : Holds(c, u)
    BY <1>0, SharedTab
<1>4. TypeOK'
    BY <1>0, <1>1 DEF IInv, TypeOK
<1>5. CallShape'
    BY BrowsersAssumption DEF IInv, TypeOK, CallShape, Alone
<1>6. OwnTabs'
  <2>1. \A c \in Browsers : Alone(c)' => Alone(c) /\ own'[c] = own[c] /\ own[c] \in Tabs
      BY AloneTab DEF IInv, TypeOK, Alone
  <2>2. QED
      BY <1>2, <2>1 DEF IInv, OwnTabs
<1>7. OpeningTabs'
    BY <1>0, <1>1 DEF IInv, TypeOK, OwnTabs, OpeningTabs, Alone
<1>8. LiveTabs'
    BY <1>2, <1>3, TabsAssumption DEF IInv, TypeOK, LiveTabs
<1>9. HeldTabs' /\ SweptTabs'
    BY <1>2 DEF IInv, HeldTabs, SweptTabs
<1>10. Counts'
  <2>1. \A t \in Tabs \ {u} : Holders(t)' = Holders(t) /\ refs'[t] = refs[t]
      BY <1>0, <1>2 DEF IInv, TypeOK, Holders
  <2>2. Holders(u)' = Holders(u) \ {b} /\ b \in Holders(u)
      BY <1>1, <1>2 DEF Holders
  <2>3. Cardinality(Holders(u)') = Cardinality(Holders(u)) - 1
      BY <2>2, HoldersFinite, FS_RemoveElement
  <2>4. refs'[u] = refs[u] - 1 /\ refs[u] = Cardinality(Holders(u))
      BY <1>0, <1>1 DEF IInv, TypeOK, Counts
  <2>5. QED
      BY <1>2, <2>1, <2>3, <2>4 DEF IInv, Counts
<1>11. QED
    BY <1>4, <1>5, <1>6, <1>7, <1>8, <1>9, <1>10 DEF IInv

\* Giving up the last reference leaves no holder and no entry in the map.
LEMMA DropLastInv ==
    ASSUME IInv, NEW b \in Browsers, DropLast(b)
    PROVE  IInv'
<1> DEFINE u == own[b]
<1> USE DEF DropLast, chromeVars, sweepVars, Goto
<1>1. u \in Tabs /\ Holds(b, u)
    BY DropHolds
<1>2. \A c \in Browsers, t \in Tabs : Holds(c, t)' <=> Holds(c, t) /\ ~(c = b /\ t = u)
    BY DropHolds
<1>3. \A c \in Browsers : ~Holds(c, u)'
    BY <1>1, <1>2, LastTab
<1>4. refs[u] \in Nat \ {0}
  <2>1. refs[u] = Cardinality(Holders(u)) /\ Holders(u) # {}
      BY <1>1 DEF IInv, Counts, Holders
  <2>2. QED
      BY <2>1, HoldersFinite, FS_EmptySet, FS_CardinalityType
<1>5. TypeOK'
    BY <1>1, <1>4 DEF IInv, TypeOK
<1>6. CallShape'
    BY <1>1, TabsAssumption, BrowsersAssumption DEF IInv, TypeOK, CallShape, Alone, Free
<1>7. OwnTabs'
    BY <1>1, <1>2, <1>3, TabsAssumption DEF IInv, TypeOK, CallShape, OwnTabs, Alone
<1>8. OpeningTabs'
    BY <1>1 DEF IInv, TypeOK, OwnTabs, OpeningTabs, Alone
<1>9. LiveTabs'
    BY <1>2, TabsAssumption DEF IInv, TypeOK, LiveTabs
<1>10. HeldTabs' /\ SweptTabs'
    BY <1>2, <1>3, KeyInKeys DEF IInv, HeldTabs, SweptTabs
<1>11. Counts'
  <2>1. \A t \in Tabs \ {u} : Holders(t)' = Holders(t) /\ refs'[t] = refs[t]
      BY <1>2 DEF IInv, TypeOK, Holders
  <2>2. QED
      BY <1>2, <1>3, <2>1 DEF IInv, Counts
<1>12. QED
    BY <1>5, <1>6, <1>7, <1>8, <1>9, <1>10, <1>11 DEF IInv

\* Every step keeps the invariant.
LEMMA NextInv == IInv /\ [Next]_vars => IInv'
<1> SUFFICES ASSUME IInv, [Next]_vars PROVE IInv'
    OBVIOUS
<1>1. ASSUME NEW b \in Browsers, Send(b) \/ Close(b) \/ CallStep(b) PROVE IInv'
    BY <1>1, OwnStepInv
<1>2. ASSUME NEW b \in Browsers, LockStep(b) PROVE IInv'
  <2>1. CASE Miss(b)
      BY <2>1, OwnStepInv
  <2>2. CASE Join(b) \/ LoseRace(b)
      BY <2>2, EnterInv
  <2>3. CASE Publish(b)
      BY <2>3, PublishInv
  <2>4. CASE DropShared(b)
      BY <2>4, DropSharedInv
  <2>5. CASE DropLast(b)
      BY <2>5, DropLastInv
  <2>6. QED
      BY <1>2, <2>1, <2>2, <2>3, <2>4, <2>5 DEF LockStep
<1>3. CASE CloseAll
    BY <1>3, CloseAllInv
<1>4. ASSUME NEW t \in Tabs, SweepStep(t) PROVE IInv'
    BY <1>4, SweepStepInv
<1>5. CASE UNCHANGED vars
    BY <1>5 DEF vars, mapVars, browserVars, chromeVars, sweepVars, IInv, TypeOK, CallShape,
       OwnTabs, OpeningTabs, LiveTabs, HeldTabs, Counts, SweptTabs, Alone, Holds, Holders
<1>6. QED
    BY <1>1, <1>2, <1>3, <1>4, <1>5 DEF Next

\* The inductive invariant holds of every behaviour of the registry.
THEOREM Invariance == Spec => []IInv
BY InitInv, NextInv, PTL DEF Spec

\* Every variable keeps a value the program could give it; in particular no
\* reference count ever becomes negative.
THEOREM TypeCorrect == Spec => []TypeOK
<1>1. IInv => TypeOK
    BY DEF IInv
<1>2. QED
    BY <1>1, Invariance, PTL

\* The count of a tab that is published or held is the number of Browsers that
\* have still to Close it, whatever joins, races and sweeps interleave.
THEOREM ReferencesExact == Spec => []RefsExact
<1>1. ASSUME IInv PROVE RefsExact
  <2> SUFFICES ASSUME NEW t \in Tabs, t \in Live \/ Holders(t) # {}
               PROVE  refs[t] = Cardinality(Holders(t)) /\ refs[t] > 0
      BY DEF RefsExact
  <2>1. \E b \in Browsers : Holds(b, t)
      BY <1>1, TabsAssumption DEF IInv, LiveTabs, Live, Holders
  <2>2. refs[t] = Cardinality(Holders(t)) /\ Holders(t) # {}
      BY <1>1, <2>1 DEF IInv, Counts, Holders
  <2>3. Cardinality(Holders(t)) \in Nat /\ Cardinality(Holders(t)) # 0
      BY <2>2, HoldersFinite, FS_EmptySet, FS_CardinalityType
  <2>4. QED
      BY <2>2, <2>3
<1>2. QED
    BY <1>1, Invariance, PTL

\* No other Browser's Close, lost race or failed navigation takes the page
\* away from a Browser that holds it.
THEOREM HeldTabStaysLive == Spec => []HeldTabIsLive
<1>1. ASSUME IInv PROVE HeldTabIsLive
  <2> SUFFICES ASSUME NEW b \in Browsers, tab[b] \notin swept \cup {NoTab}
               PROVE  /\ liveTabs[KeyOf[b]] = tab[b]
                      /\ page[tab[b]] = "shown"
                      /\ conn[tab[b]] # "closed"
      BY DEF HeldTabIsLive
  <2>1. tab[b] \in Tabs /\ Holds(b, tab[b])
      BY <1>1 DEF IInv, TypeOK, Holds
  <2>2. liveTabs[KeyOf[b]] = tab[b]
      BY <1>1, <2>1 DEF IInv, HeldTabs
  <2>3. QED
      BY <1>1, <2>2, KeyInKeys DEF IInv, LiveTabs
<1>2. QED
    BY <1>1, Invariance, PTL

-----------------------------------------------------------------------------
(* The registry implements SharedPage. *)

\* A step after which everybody holds what he held, with the map unchanged.
LEMMA ViewFrame ==
    ASSUME liveTabs' = liveTabs,
           \A c \in Browsers, k \in Keys :
               liveTabs[k] # NoTab => (Holds(c, liveTabs[k])' <=> Holds(c, liveTabs[k]))
    PROVE  UNCHANGED Shared!pageVars
BY DEF Shared!pageVars, Members

\* At first no page has a conversation.
LEMMA InitView == Init => Shared!Init
BY DEF Init, Shared!Init, Members

\* Joining the published tab, first or after a lost race, is Enter.
LEMMA EnterView ==
    ASSUME IInv, NEW b \in Browsers, Join(b) \/ LoseRace(b)
    PROVE  Shared!Enter(b)
<1> USE DEF Join, LoseRace, mapVars, browserVars, chromeVars, sweepVars, Goto
<1>1. tab[b] = NoTab /\ pc[b] # "drop" /\ pc'[b] # "drop" /\ liveTabs[KeyOf[b]] # NoTab
    BY DEF IInv, TypeOK, CallShape
<1>2. /\ liveTabs' = liveTabs /\ own' = own
      /\ tab' = [tab EXCEPT ![b] = liveTabs[KeyOf[b]]]
      /\ \A c \in Browsers \ {b} : pc'[c] = pc[c]
    BY DEF IInv, TypeOK
<1>3. \A k \in Keys : liveTabs[k] = liveTabs[KeyOf[b]] /\ liveTabs[k] # NoTab => k = KeyOf[b]
    BY KeyInKeys DEF IInv, LiveTabs
<1>4. b \notin Members[KeyOf[b]]
    BY <1>1, KeyInKeys DEF Members, Holds
<1>5. \A c \in Browsers, k \in Keys : liveTabs[k] # NoTab /\ KeyOf[c] = k =>
          (Holds(c, liveTabs[k])' <=> Holds(c, liveTabs[k]) \/ c = b)
    BY <1>1, <1>2, <1>3 DEF IInv, TypeOK, Holds
<1>6. Members' = [Members EXCEPT ![KeyOf[b]] = @ \cup {b}]
  <2>1. \A k \in Keys : Members'[k] = IF k = KeyOf[b] THEN Members[k] \cup {b} ELSE Members[k]
      BY <1>1, <1>2, <1>5 DEF Members
  <2>2. QED
      BY <2>1, KeyInKeys DEF Members
<1>7. QED
    BY <1>1, <1>2, <1>4, <1>6 DEF Shared!Enter

\* Publishing a tab is Start.
LEMMA StartView ==
    ASSUME IInv, NEW b \in Browsers, Publish(b)
    PROVE  \E t \in Tabs : Shared!Start(b, t)
<1> USE DEF Publish, mapVars, browserVars, chromeVars, sweepVars, Goto
<1>0. PICK u \in Tabs : u = own[b]
    BY AloneTab DEF Alone
<1>1. liveTabs[KeyOf[b]] = NoTab /\ (\A k \in Keys : liveTabs[k] # u)
    BY <1>0 DEF IInv, OwnTabs, Alone
<1>2. /\ liveTabs' = [liveTabs EXCEPT ![KeyOf[b]] = u]
      /\ tab' = [tab EXCEPT ![b] = u]
      /\ own' = [own EXCEPT ![b] = NoTab]
      /\ pc[b] # "drop" /\ pc'[b] # "drop"
      /\ \A c \in Browsers \ {b} : pc'[c] = pc[c]
    BY <1>0 DEF IInv, TypeOK
<1>3. \A c \in Browsers : ~Holds(c, u)
    BY <1>0 DEF IInv, OwnTabs, Alone
<1>4. \A c \in Browsers : Holds(c, u)' <=> c = b
    BY <1>2, <1>3, TabsAssumption DEF IInv, TypeOK, Holds
<1>5. \A c \in Browsers \ {b}, t \in Tabs : Holds(c, t)' <=> Holds(c, t)
    BY <1>2 DEF IInv, TypeOK, Holds
<1> HIDE DEF Publish
<1>6. \A k \in Keys : Members'[k] = IF k = KeyOf[b] THEN {b} ELSE Members[k]
  <2>1. ASSUME NEW k \in Keys, k # KeyOf[b] PROVE Members'[k] = Members[k]
    <3>1. liveTabs'[k] = liveTabs[k] /\ (liveTabs[k] # NoTab => liveTabs[k] \in Tabs)
        BY <1>2, <2>1 DEF IInv, TypeOK
    <3>2. QED
        BY <1>5, <2>1, <3>1 DEF Members
  <2>2. liveTabs'[KeyOf[b]] = u /\ u # NoTab
      BY <1>2, KeyInKeys, TabsAssumption DEF IInv, TypeOK
  <2>3. Members'[KeyOf[b]] = {b}
      BY <1>4, <2>2, KeyInKeys DEF Members
  <2>4. QED
      BY <2>1, <2>3
<1>7. Members' = [Members EXCEPT ![KeyOf[b]] = {b}]
    BY <1>6, KeyInKeys DEF Members
<1>8. Shared!Start(b, u)
    BY <1>1, <1>2, <1>7 DEF Shared!Start
<1>9. QED
    BY <1>8

\* Giving up one of several references is Leave, and of a swept tab a stutter.
LEMMA LeaveView ==
    ASSUME IInv, NEW b \in Browsers, DropShared(b)
    PROVE  Shared!Leave(b) \/ UNCHANGED Shared!pageVars
<1> USE DEF DropShared, mapVars, browserVars, chromeVars, sweepVars, Goto
<1>0. PICK u \in Tabs : u = own[b]
    BY DropHolds
<1>1. Holds(b, u) /\ liveTabs' = liveTabs
    BY <1>0, DropHolds
<1>2. \A c \in Browsers, t \in Tabs : Holds(c, t)' <=> Holds(c, t) /\ ~(c = b /\ t = u)
    BY <1>0, DropHolds
<1> HIDE DEF DropShared
<1>3. CASE liveTabs[KeyOf[b]] = u
  <2>1. PICK c \in Browsers \ {b} : Holds(c, u)
      BY <1>0, SharedTab
  <2>2. KeyOf[c] = KeyOf[b]
      BY <1>3, <2>1, KeyInKeys, TabsAssumption DEF IInv, LiveTabs, HeldTabs
  <2>3. u # NoTab /\ b \in Members[KeyOf[b]] /\ c \in Members[KeyOf[b]]
      BY <1>1, <1>3, <2>1, <2>2, KeyInKeys, TabsAssumption DEF Members
  <2>4. \A k \in Keys : liveTabs[k] = u => k = KeyOf[b]
      BY <1>3, <2>3, KeyInKeys DEF IInv, LiveTabs
  <2>5. \A k \in Keys : Members'[k] = IF k = KeyOf[b] THEN Members[k] \ {b} ELSE Members[k]
    <3>1. \A k \in Keys : liveTabs[k] # NoTab => liveTabs[k] \in Tabs
        BY DEF IInv, TypeOK
    <3>2. Members'[KeyOf[b]] = Members[KeyOf[b]] \ {b}
        BY <1>1, <1>2, <1>3, <2>3, KeyInKeys DEF Members
    <3>3. ASSUME NEW k \in Keys, k # KeyOf[b] PROVE Members'[k] = Members[k]
      <4>1. liveTabs'[k] = liveTabs[k] /\ liveTabs[k] # u
          BY <1>1, <2>4, <3>3
      <4>2. QED
          BY <1>2, <3>1, <4>1 DEF Members
    <3>4. QED
        BY <3>2, <3>3
  <2>6. Members' = [Members EXCEPT ![KeyOf[b]] = @ \ {b}]
      BY <2>5, KeyInKeys DEF Members
  <2>7. QED
      BY <1>1, <2>1, <2>3, <2>6 DEF Shared!Leave
<1>4. CASE liveTabs[KeyOf[b]] # u
  <2>1. \A k \in Keys : liveTabs[k] # u
    <3>1. u \in swept
        BY <1>1, <1>4 DEF IInv, HeldTabs
    <3>2. QED
        BY <3>1, TabsAssumption DEF IInv, LiveTabs
  <2>2. QED
      BY <1>1, <1>2, <2>1, ViewFrame DEF IInv, TypeOK
<1>5. QED
    BY <1>3, <1>4

\* Giving up the last reference is End, and of a swept tab a stutter.
LEMMA EndView ==
    ASSUME IInv, NEW b \in Browsers, DropLast(b)
    PROVE  Shared!End(b) \/ UNCHANGED Shared!pageVars
<1> USE DEF DropLast, mapVars, browserVars, chromeVars, sweepVars, Goto
<1>0. PICK u \in Tabs : u = own[b]
    BY DropHolds
<1>1. Holds(b, u)
    BY <1>0, DropHolds
<1>2. \A c \in Browsers, t \in Tabs : Holds(c, t)' <=> Holds(c, t) /\ ~(c = b /\ t = u)
    BY <1>0, DropHolds
<1>3. \A c \in Browsers \ {b} : ~Holds(c, u)
    BY <1>0, LastTab
<1> HIDE DEF DropLast
<1>4. CASE liveTabs[KeyOf[b]] = u
  <2>1. \A k \in Keys : liveTabs[k] = u => k = KeyOf[b]
      BY <1>4, KeyInKeys, TabsAssumption DEF IInv, LiveTabs
  <2>2. Members[KeyOf[b]] = {b}
      BY <1>1, <1>3, <1>4, KeyInKeys, TabsAssumption DEF Members
  <2>3. liveTabs' = [liveTabs EXCEPT ![KeyOf[b]] = NoTab]
      BY <1>0, <1>4, <2>1, KeyInKeys DEF IInv, TypeOK, DropLast
  <2>4. \A k \in Keys : Members'[k] = IF k = KeyOf[b] THEN {} ELSE Members[k]
    <3>1. \A k \in Keys : liveTabs[k] # NoTab => liveTabs[k] \in Tabs
        BY DEF IInv, TypeOK
    <3>2. Members'[KeyOf[b]] = {}
        BY <2>3, KeyInKeys DEF IInv, TypeOK, Members
    <3>3. \A k \in Keys \ {KeyOf[b]} : liveTabs'[k] = liveTabs[k] /\ liveTabs[k] # u
        BY <2>1, <2>3 DEF IInv, TypeOK
    <3>4. \A k \in Keys \ {KeyOf[b]} : Members'[k] = Members[k]
        BY <1>2, <3>1, <3>3 DEF Members
    <3>5. QED
        BY <3>2, <3>4
  <2>5. Members' = [Members EXCEPT ![KeyOf[b]] = {}]
      BY <2>4, KeyInKeys DEF Members
  <2>6. QED
      BY <2>2, <2>3, <2>5 DEF Shared!End
<1>5. CASE liveTabs[KeyOf[b]] # u
  <2>1. \A k \in Keys : liveTabs[k] # u
    <3>1. u \in swept
        BY <1>1, <1>5 DEF IInv, HeldTabs
    <3>2. QED
        BY <3>1, TabsAssumption DEF IInv, LiveTabs
  <2>2. liveTabs' = liveTabs
      BY <1>0, <2>1 DEF IInv, TypeOK, DropLast
  <2>3. QED
      BY <1>2, <2>1, <2>2, ViewFrame DEF IInv, TypeOK
<1>6. QED
    BY <1>4, <1>5

\* CloseAllBrowsers is Disband.
LEMMA DisbandView == ASSUME CloseAll PROVE Shared!Disband
<1>1. liveTabs' = [k \in Keys |-> NoTab]
    BY DEF CloseAll
<1>2. Members' = [k \in Keys |-> {}]
    BY <1>1 DEF Members
<1>3. QED
    BY <1>1, <1>2 DEF Shared!Disband

\* Every other step leaves the map and every holding as it is.
LEMMA StutterView ==
    ASSUME IInv,
           \/ \E b \in Browsers : Send(b) \/ Close(b) \/ Miss(b) \/ CallStep(b)
           \/ \E t \in Tabs : SweepStep(t)
           \/ UNCHANGED vars
    PROVE  UNCHANGED Shared!pageVars
<1> USE DEF mapVars, browserVars, chromeVars, sweepVars
<1>1. liveTabs' = liveTabs
    BY DEF Send, Close, Miss, CallStep, RefuseEndpoint, DialFails, SetupFails, Attached, CreateTarget,
       Navigated, NavigateFails, ExchangeOK, ExchangeFails, ReleasePage, DiscardSocket, CloseSocket,
       SweepStep, SweepPage, SweepSocket, vars
<1>2. \A c \in Browsers, t \in Tabs : Holds(c, t)' <=> Holds(c, t)
  <2>1. CASE \E b \in Browsers : Send(b) \/ Close(b) \/ Miss(b) \/ CallStep(b)
      BY <2>1, OwnStepHolds
  <2>2. CASE (\E t \in Tabs : SweepStep(t)) \/ UNCHANGED vars
      BY <2>2 DEF SweepStep, SweepPage, SweepSocket, vars, Holds
  <2>3. QED
      BY <2>1, <2>2
<1>3. QED
    BY <1>1, <1>2, ViewFrame DEF IInv, TypeOK

\* The registry implements SharedPage: a page has one conversation at a time,
\* everybody who comes enters it, and it ends with the last one or the scan.
THEOREM Refinement == Spec => ImplementsSharedPage
<1>1. ASSUME IInv, [Next]_vars PROVE [Shared!Next]_(Shared!pageVars)
  <2>1. ASSUME NEW b \in Browsers, LockStep(b) PROVE Shared!Next \/ UNCHANGED Shared!pageVars
    <3>1. CASE Join(b) \/ LoseRace(b)
        BY <1>1, <3>1, EnterView DEF Shared!Next
    <3>2. CASE Publish(b)
        BY <1>1, <3>2, StartView DEF Shared!Next
    <3>3. CASE DropShared(b)
        BY <1>1, <3>3, LeaveView DEF Shared!Next
    <3>4. CASE DropLast(b)
        BY <1>1, <3>4, EndView DEF Shared!Next
    <3>5. CASE Miss(b)
        BY <1>1, <3>5, StutterView
    <3>6. QED
        BY <2>1, <3>1, <3>2, <3>3, <3>4, <3>5 DEF LockStep
  <2>2. CASE CloseAll
      BY <2>2, DisbandView DEF Shared!Next
  <2>3. QED
      BY <1>1, <2>1, <2>2, StutterView DEF Next
<1>2. QED
    BY <1>1, InitView, Invariance, PTL DEF Spec, ImplementsSharedPage, Shared!Spec

-----------------------------------------------------------------------------
(* No page is left behind while Chrome executes every closeTarget and no    *)
(* dialCDP fails between createTarget and its return.                       *)

Clean == Faults \cap {"setup", "closeTarget"} = {}

\* A step keeps PageFollowsSocket ...
LEMMA FollowStep ==
    ASSUME Clean, IInv, IInv', PageFollowsSocket, [Next]_vars
    PROVE  PageFollowsSocket'
<1> USE DEF mapVars, browserVars, chromeVars, sweepVars, Goto
<1>1. ASSUME NEW b \in Browsers, CallStep(b) PROVE PageFollowsSocket'
  <2>1. CASE ReleasePage(b)
      BY <1>1, <2>1, AloneTab
         DEF ReleasePage, AskedToClose, Clean, PageFollowsSocket, IInv, TypeOK, Alone
  <2>2. CASE DiscardSocket(b) \/ CloseSocket(b)
      BY <1>1, <2>2, AloneTab
         DEF DiscardSocket, CloseSocket, PageFollowsSocket, IInv, TypeOK, Alone
  <2>3. ASSUME NEW t \in Tabs, CreateTarget(b, t) PROVE PageFollowsSocket'
      BY <2>3 DEF CreateTarget, Fresh, Referenced, PageFollowsSocket, IInv, TypeOK, CallShape, Alone
  <2>4. CASE SetupFails(b)
      BY <2>4 DEF SetupFails, Clean
  <2>5. CASE RefuseEndpoint(b) \/ DialFails(b) \/ Attached(b) \/ Navigated(b)
                 \/ NavigateFails(b) \/ ExchangeOK(b) \/ ExchangeFails(b)
      BY <2>5, AloneTab
         DEF RefuseEndpoint, DialFails, Attached, Navigated, NavigateFails, ExchangeOK,
             ExchangeFails, PageFollowsSocket, IInv, TypeOK, CallShape, OpeningTabs, SweptTabs, Alone
  <2>6. QED
      BY <1>1, <2>1, <2>2, <2>3, <2>4, <2>5 DEF CallStep
<1>2. ASSUME NEW b \in Browsers, Send(b) \/ Close(b) \/ LockStep(b) PROVE PageFollowsSocket'
    BY <1>2 DEF Send, Close, LockStep, Join, Miss, Publish, LoseRace, DropShared, DropLast,
                PageFollowsSocket, IInv, TypeOK, LiveTabs, CallShape, Alone
<1>3. ASSUME NEW u \in Tabs, SweepStep(u) PROVE PageFollowsSocket'
    BY <1>3, AloneTab DEF SweepStep, SweepPage, SweepSocket, AskedToClose, Clean,
                PageFollowsSocket, IInv, TypeOK, Alone
<1>4. CASE CloseAll
    BY <1>4 DEF CloseAll, Live, PageFollowsSocket, IInv, TypeOK
<1>5. CASE UNCHANGED vars
    BY <1>5 DEF vars, PageFollowsSocket
<1>6. QED
    BY <1>1, <1>2, <1>3, <1>4, <1>5 DEF Next

\* ... and NoLitter.
LEMMA LitterStep ==
    ASSUME Clean, IInv, PageFollowsSocket, NoLitter, [Next]_vars
    PROVE  NoLitter'
<1> USE DEF mapVars, browserVars, chromeVars, sweepVars, Goto
<1>1. ASSUME NEW b \in Browsers, CallStep(b) PROVE NoLitter'
    BY <1>1, TabsAssumption
       DEF CallStep, RefuseEndpoint, DialFails, SetupFails, Attached, CreateTarget,
           Navigated, NavigateFails, ExchangeOK, ExchangeFails, ReleasePage, AskedToClose,
           DiscardSocket, CloseSocket, Clean, PageFollowsSocket, NoLitter, Referenced,
           IInv, TypeOK, CallShape, Alone
<1>2. ASSUME NEW b \in Browsers, Send(b) \/ Close(b) \/ Join(b) \/ Miss(b) \/ Publish(b) \/ LoseRace(b) \/ DropLast(b)
      PROVE  NoLitter'
    BY <1>2, KeyInKeys, TabsAssumption
       DEF Send, Close, Join, Miss, Publish, LoseRace, DropLast, NoLitter, Referenced,
           IInv, TypeOK, CallShape, Alone
<1>3. ASSUME NEW b \in Browsers, DropShared(b) PROVE NoLitter'
  <2>1. PICK c \in Browsers \ {b} : Holds(c, own[b])
      BY <1>3, SharedTab
  <2>2. tab'[c] = own[b] \/ own'[c] = own[b]
      BY <1>3, <2>1 DEF DropShared, Holds, IInv, TypeOK
  <2>3. QED
      BY <1>3, <2>1, <2>2 DEF DropShared, NoLitter, Referenced, IInv, TypeOK
<1>4. ASSUME NEW u \in Tabs, SweepStep(u) PROVE NoLitter'
    BY <1>4 DEF SweepStep, SweepPage, SweepSocket, AskedToClose, Clean, PageFollowsSocket,
                NoLitter, Referenced, IInv, TypeOK
<1>5. CASE CloseAll
    BY <1>5 DEF CloseAll, Live, NoLitter, Referenced, IInv, TypeOK
<1>6. CASE UNCHANGED vars
    BY <1>6 DEF vars, NoLitter, Referenced
<1>7. QED
    BY <1>1, <1>2, <1>3, <1>4, <1>5, <1>6 DEF Next, LockStep

\* A page in Chrome is always somebody's to close: lost races, failed
\* navigations, Closes and CloseAllBrowsers leave no orphan.
THEOREM LitterFree == ASSUME Clean PROVE Spec => []NoLitter
<1>1. Init => PageFollowsSocket /\ NoLitter
    BY DEF Init, PageFollowsSocket, NoLitter
<1>2. IInv /\ IInv' /\ PageFollowsSocket /\ NoLitter /\ [Next]_vars
          => PageFollowsSocket' /\ NoLitter'
    BY FollowStep, LitterStep
<1>3. QED
    BY <1>1, <1>2, Invariance, PTL DEF Spec
-----------------------------------------------------------------------------
(* How far a call can go.                                                  *)

\* From each place, how many steps to the end of a call.
Left(l) ==
    CASE l = "idle" -> 0
      [] l \in {"exchange", "closeSocket"} -> 1
      [] l \in {"discardSocket", "closePage"} -> 2
      [] l \in {"discardPage", "drop"} -> 3
      [] l = "publish" -> 4
      [] l = "navigate" -> 5
      [] l = "attach" -> 6
      [] l = "dial" -> 7
      [] l = "ensure" -> 8

LEMMA Lefts ==
    /\ Left("idle") = 0
    /\ Left("exchange") = 1 /\ Left("closeSocket") = 1
    /\ Left("discardSocket") = 2 /\ Left("closePage") = 2
    /\ Left("discardPage") = 3 /\ Left("drop") = 3
    /\ Left("publish") = 4 /\ Left("navigate") = 5 /\ Left("attach") = 6
    /\ Left("dial") = 7 /\ Left("ensure") = 8
BY DEF Left

\* How many steps the Send or Close of b can still take.
Ahead(b) == Left(pc[b])

CallPlaces == {"ensure", "dial", "attach", "navigate", "publish", "discardPage",
               "discardSocket", "exchange", "drop", "closePage", "closeSocket"}

LEMMA AheadBounded ==
    ASSUME TypeOK, NEW b \in Browsers
    PROVE  Ahead(b) \in 0 .. 8 /\ (Ahead(b) = 0 <=> pc[b] = "idle")
<1>1. pc[b] \in {"idle"} \cup CallPlaces
    BY DEF TypeOK, Locations, Opening, Discarding, Closing, CallPlaces
<1>2. QED
    BY <1>1, Lefts DEF Ahead, CallPlaces

\* The steps of a call lead nearer its end.
LEMMA CallMoves ==
    ASSUME TypeOK, NEW b \in Browsers, CallStep(b) \/ LockStep(b)
    PROVE  \E m \in {"idle"} \cup CallPlaces : pc' = [pc EXCEPT ![b] = m] /\ Left(m) < Left(pc[b])
<1> USE Lefts DEF CallPlaces, Goto
<1>1. CASE Join(b) \/ Miss(b) \/ RefuseEndpoint(b)
    BY <1>1 DEF Join, Miss, RefuseEndpoint
<1>2. CASE DialFails(b) \/ \E t \in Tabs : CreateTarget(b, t)
    BY <1>2 DEF DialFails, CreateTarget
<1>3. CASE SetupFails(b) \/ Attached(b) \/ Navigated(b) \/ NavigateFails(b)
    BY <1>3 DEF SetupFails, Attached, Navigated, NavigateFails
<1>4. CASE Publish(b) \/ LoseRace(b) \/ DropShared(b) \/ DropLast(b)
    BY <1>4 DEF Publish, LoseRace, DropShared, DropLast
<1>5. CASE ExchangeOK(b) \/ ExchangeFails(b) \/ ReleasePage(b) \/ DiscardSocket(b) \/ CloseSocket(b)
    BY <1>5 DEF ExchangeOK, ExchangeFails, ReleasePage, DiscardSocket, CloseSocket
<1>6. QED
    BY <1>1, <1>2, <1>3, <1>4, <1>5 DEF CallStep, LockStep

\* Every step of a Send or a Close brings it nearer its end, which is at most eight
\* steps from its beginning, and no other Browser and no sweep takes it further
\* away: a lost race and a failed navigation are not tried again.
THEOREM CallsAreBounded ==
    Spec => [][\A b \in Browsers : /\ CallStep(b) \/ LockStep(b) => Ahead(b)' < Ahead(b)
                                   /\ pc[b] # "idle" => Ahead(b)' <= Ahead(b)]_vars
<1>1. ASSUME TypeOK, NEW b \in Browsers, CallStep(b) \/ LockStep(b)
      PROVE  Ahead(b)' < Ahead(b) /\ Ahead(b)' \in Int /\ \A c \in Browsers \ {b} : pc'[c] = pc[c]
  <2>1. PICK m \in {"idle"} \cup CallPlaces : pc' = [pc EXCEPT ![b] = m] /\ Left(m) < Left(pc[b])
      BY <1>1, CallMoves
  <2>2. Left(m) \in Int
      BY Lefts DEF CallPlaces
  <2>3. QED
      BY <1>1, <2>1, <2>2 DEF Ahead, TypeOK
<1>2. ASSUME TypeOK, Next, NEW b \in Browsers, pc[b] # "idle" PROVE Ahead(b)' <= Ahead(b)
  <2>1. Ahead(b) \in Int
      BY <1>2, AheadBounded
  <2>2. CASE CallStep(b) \/ LockStep(b)
      BY <1>1, <1>2, <2>1, <2>2
  <2>3. CASE ~(CallStep(b) \/ LockStep(b))
    <3>1. pc'[b] = pc[b]
        BY <1>1, <1>2, <2>3 DEF Next, Send, Close, CloseAll, SweepStep, SweepPage, SweepSocket,
                                browserVars, Goto, TypeOK
    <3>2. QED
        BY <2>1, <3>1 DEF Ahead
  <2>4. QED
      BY <2>2, <2>3
<1>3. TypeOK /\ Next => \A b \in Browsers : /\ CallStep(b) \/ LockStep(b) => Ahead(b)' < Ahead(b)
                                            /\ pc[b] # "idle" => Ahead(b)' <= Ahead(b)
    BY <1>1, <1>2
<1>4. QED
    BY <1>3, TypeCorrect, PTL DEF Spec
=============================================================================
