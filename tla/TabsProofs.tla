------------------------------ MODULE TabsProofs ------------------------------
(* What holds of the tabs for any number of tabs, clients, terminals and    *)
(* sessions. However tabs are opened, switched and closed while calls and   *)
(* callbacks are under way, no two tabs come to share a client or a         *)
(* terminal, and the component uses those of the tab in view. As long as    *)
(* nothing that Note lists has happened, each client is moreover in the tab *)
(* it was made for, and the component and its tabs show what their clients  *)
(* are in and leave none behind.                                            *)
EXTENDS Tabs, TLAPS

View ==
  [client : ClientId \cup {None}, terminal : TerminalId \cup {None},
   connected : BOOLEAN, active : BOOLEAN, info : SessionId \cup {None}]

OfClients == [ClientId -> SessionId \cup {None}]

Calls ==
  [kind : {"none", "spawn", "join"}, client : ClientId \cup {None},
   session : SessionId \cup {None}]

\* The shape of the state, as far as the tabs depend on it.
ShapeOK ==
  /\ tabs \in Seq(TabId)
  /\ view \in [TabId -> View]
  /\ comp \in View
  /\ call \in Calls
  /\ session \in OfClients /\ previous \in OfClients /\ recovering \in OfClients

\* No tab is twice in the list.
Distinct == \A m, n \in DOMAIN tabs : tabs[m] = tabs[n] => m = n

\* Why a new terminal is nobody else's: what the tabs keep is not disposed.
TerminalsKept ==
  /\ terminals \subseteq TerminalId
  /\ \A t \in Open : view[t].terminal \in terminals \cup {None}

TabsInv == ShapeOK /\ Distinct /\ TerminalsKept /\ TabsKeepApart

-----------------------------------------------------------------------------

LEMMA OpenTabs ==
  ASSUME ShapeOK
  PROVE  /\ Open \subseteq TabId
         /\ tabs = <<>> <=> Open = {}
         /\ \A t : t \in Open <=> \E n \in DOMAIN tabs : tabs[n] = t
<1>1. tabs \in Seq(TabId)
  BY DEF ShapeOK
<1>2. \A t : t \in Open <=> \E n \in DOMAIN tabs : tabs[n] = t
  BY DEF Open, ToSet
<1>3. tabs # <<>> => 1 \in DOMAIN tabs
  BY <1>1
<1> QED BY <1>1, <1>2, <1>3

LEMMA BlankView == Blank \in View /\ Blank.client = None /\ Blank.terminal = None
BY DEF Blank, View

LEMMA ShownView ==
  ASSUME NEW r \in View, NEW s \in SessionId \cup {None}
  PROVE  /\ Shown(r, s) \in View
         /\ Shown(r, s).client = r.client /\ Shown(r, s).terminal = r.terminal
BY DEF Shown, View

LEMMA HiddenView ==
  ASSUME NEW r \in View
  PROVE  /\ Hidden(r) \in View
         /\ Hidden(r).client = r.client /\ Hidden(r).terminal = r.terminal
BY DEF Hidden, View

LEMMA OpenSame ==
  ASSUME tabs' = tabs
  PROVE  Open' = Open
BY DEF Open, ToSet

\* Steps that leave the list of tabs and every tab's client and terminal alone.
LEMMA OnlyMarks ==
  ASSUME TabsInv, UNCHANGED <<tabs, active, terminals>>, ShapeOK',
         \A t \in TabId : /\ view'[t].client = view[t].client
                          /\ view'[t].terminal = view[t].terminal,
         comp'.client = comp.client, comp'.terminal = comp.terminal
  PROVE  TabsInv'
<1>1. Open' = Open /\ Open \subseteq TabId
  BY OpenSame, OpenTabs DEF TabsInv
<1>2. Distinct'
  BY DEF TabsInv, Distinct
<1>3. TerminalsKept'
  BY <1>1 DEF TabsInv, TerminalsKept
<1>4. TabsKeepApart'
  BY <1>1 DEF TabsInv, TabsKeepApart
<1> QED BY <1>2, <1>3, <1>4 DEF TabsInv

\* Copying the component to its tab does too, if it changed only in marks.
LEMMA SyncMarks ==
  ASSUME TabsInv, NEW r \in View, r.client = comp.client,
         r.terminal = comp.terminal, Sync(r)
  PROVE  /\ view' \in [TabId -> View] /\ comp' \in View
         /\ \A t \in TabId : /\ view'[t].client = view[t].client
                             /\ view'[t].terminal = view[t].terminal
         /\ comp'.client = comp.client /\ comp'.terminal = comp.terminal
<1>1. view \in [TabId -> View] /\ comp' = r
  BY DEF TabsInv, ShapeOK, Sync
<1>2. active # None => active \in TabId /\ comp.client = view[active].client
                       /\ comp.terminal = view[active].terminal
  BY OpenTabs DEF TabsInv, TabsKeepApart
<1>3. view' = IF active = None THEN view ELSE [view EXCEPT ![active] = r]
  BY DEF Sync, Synced
<1> QED BY <1>1, <1>2, <1>3

\* The callbacks of the clients change what a tab shows, not what it has.
LEMMA CallbackStep ==
  ASSUME TabsInv, NEW k \in ClientId,
         \/ Opens(k) \/ Fails(k) \/ RetryTimerFires(k) \/ Closes(k)
         \/ Recovered(k) \/ Exits(k) \/ SessionClosed(k) \/ Left(k)
  PROVE  TabsInv'
<1> DEFINE Kept ==
      /\ view' \in [TabId -> View] /\ comp' \in View
      /\ \A t \in TabId : /\ view'[t].client = view[t].client
                          /\ view'[t].terminal = view[t].terminal
      /\ comp'.client = comp.client /\ comp'.terminal = comp.terminal
<1>v. /\ view \in [TabId -> View] /\ comp \in View
      /\ tabs \in Seq(TabId)
      /\ session \in OfClients /\ previous \in OfClients
      /\ recovering \in OfClients
      /\ call \in Calls
  BY DEF TabsInv, ShapeOK
<1>i. Idle \in Calls
  BY DEF Idle, Calls
<1>0. ASSUME Kept, UNCHANGED <<tabs, active, terminals>>,
             call' \in {call, Idle},
             session' \in OfClients, previous' \in OfClients,
             recovering' \in OfClients
      PROVE  TabsInv'
  <2>1. ShapeOK'
    BY <1>0, <1>v, <1>i DEF ShapeOK
  <2> QED BY <1>0, <2>1, OnlyMarks
<1>u. ASSUME UNCHANGED <<view, comp>>
      PROVE  Kept
  BY <1>u, <1>v
<1>s. ASSUME NEW r \in View, r.client = comp.client,
             r.terminal = comp.terminal, Sync(r)
      PROVE  Kept
  BY <1>s, SyncMarks
<1>1. CASE Opens(k)
  <2>1. Kept
    <3>1. CASE UNCHANGED <<view, comp>>
      BY <3>1, <1>u
    <3>2. CASE Sync([comp EXCEPT !.connected = TRUE])
      <4>1. /\ [comp EXCEPT !.connected = TRUE] \in View
            /\ [comp EXCEPT !.connected = TRUE].client = comp.client
            /\ [comp EXCEPT !.connected = TRUE].terminal = comp.terminal
        BY <1>v DEF View
      <4> QED BY <1>s, <3>2, <4>1
    <3>3. ASSUME view' = [t \in TabId |->
                            IF t \in Target(k)
                              THEN [view[t] EXCEPT !.connected = TRUE]
                              ELSE view[t]],
                 comp' = IF Faces(k) THEN [comp EXCEPT !.connected = TRUE]
                                     ELSE comp
          PROVE  Kept
      BY <1>v, <3>3 DEF View
    <3> QED BY <1>1, <3>1, <3>2, <3>3 DEF Opens, Update
  <2>2. recovering' \in OfClients
    BY <1>1, <1>v DEF Opens, OfClients
  <2> HIDE DEF Kept
  <2> QED BY <1>0, <1>1, <1>v, <2>1, <2>2 DEF Opens
<1>2. CASE Fails(k) \/ RetryTimerFires(k)
  <2>1. Kept
    BY <1>2, <1>u DEF Fails, RetryTimerFires, ui
  <2> HIDE DEF Kept
  <2> QED BY <1>0, <1>2, <1>v, <2>1 DEF Fails, RetryTimerFires, ui
<1>3. CASE Closes(k)
  <2>1. Kept
    <3> DEFINE b == recovering[k] # None
               Off(r) == [r EXCEPT !.connected = b, !.active = FALSE]
    <3>1. /\ view' = [t \in TabId |-> IF t \in Target(k) THEN Off(view[t])
                                                        ELSE view[t]]
          /\ comp' = IF FaceOfLoss(k) THEN Off(comp) ELSE comp
      BY <1>3 DEF Closes, Update
    <3>2. b \in BOOLEAN
      OBVIOUS
    <3>3. \A r \in View : /\ Off(r) \in View /\ Off(r).client = r.client
                          /\ Off(r).terminal = r.terminal
      <4> HIDE DEF b
      <4> QED BY <3>2 DEF View
    <3> HIDE DEF Off
    <3>4. \A t \in TabId : view'[t] \in {view[t], Off(view[t])}
      BY <3>1
    <3>5. \A t \in TabId : /\ view'[t] \in View
                           /\ view'[t].client = view[t].client
                           /\ view'[t].terminal = view[t].terminal
      BY <1>v, <3>3, <3>4
    <3>6. view' \in [TabId -> View]
      BY <3>1, <3>5
    <3>7. comp' \in {comp, Off(comp)}
      BY <3>1
    <3>8. comp' \in View /\ comp'.client = comp.client
                         /\ comp'.terminal = comp.terminal
      BY <1>v, <3>3, <3>7
    <3> QED BY <3>5, <3>6, <3>8
  <2>2. /\ session' \in OfClients /\ previous' \in OfClients
        /\ recovering' \in OfClients
    BY <1>3, <1>v DEF Closes, OfClients
  <2>3. call' \in {call, Idle} /\ UNCHANGED <<tabs, active, terminals>>
    BY <1>3 DEF Closes
  <2> HIDE DEF Kept
  <2> QED BY <1>0, <2>1, <2>2, <2>3
<1>4. CASE Recovered(k)
  <2>1. Kept
    <3> DEFINE On(r) == [r EXCEPT !.connected = TRUE]
               Back(r) == On(Shown(r, recovering[k]))
    <3>0. \A r \in View : /\ On(r) \in View /\ On(r).client = r.client
                          /\ On(r).terminal = r.terminal
      BY DEF View
    <3>1. \A r \in View : /\ Shown(r, recovering[k]) \in View
                          /\ Shown(r, recovering[k]).client = r.client
                          /\ Shown(r, recovering[k]).terminal = r.terminal
      BY <1>v, ShownView DEF OfClients
    <3>2. \A r \in View : /\ Back(r) \in View /\ Back(r).client = r.client
                          /\ Back(r).terminal = r.terminal
      <4> HIDE DEF On
      <4> QED BY <3>0, <3>1
    <3>3. \/ /\ view' = [t \in TabId |-> IF t \in Target(k) THEN Back(view[t])
                                                           ELSE view[t]]
             /\ comp' = IF Faces(k) THEN Back(comp) ELSE comp
          \/ /\ view' = [t \in TabId |-> IF t \in Target(k) THEN On(view[t])
                                                           ELSE view[t]]
             /\ comp' = IF Faces(k) THEN On(comp) ELSE comp
      BY <1>4 DEF Recovered, Update
    <3> HIDE DEF On, Back
    <3>4. \A t \in TabId : view'[t] \in {view[t], On(view[t]), Back(view[t])}
      BY <3>3
    <3>5. \A t \in TabId : /\ view'[t] \in View
                           /\ view'[t].client = view[t].client
                           /\ view'[t].terminal = view[t].terminal
      BY <1>v, <3>0, <3>2, <3>4
    <3>6. view' \in [TabId -> View]
      BY <3>3, <3>5
    <3>7. comp' \in {comp, On(comp), Back(comp)}
      BY <3>3
    <3>8. comp' \in View /\ comp'.client = comp.client
                         /\ comp'.terminal = comp.terminal
      BY <1>v, <3>0, <3>2, <3>7
    <3> QED BY <3>5, <3>6, <3>8
  <2>2. /\ session' \in OfClients /\ previous' \in OfClients
        /\ recovering' \in OfClients
    BY <1>4, <1>v DEF Recovered, OfClients
  <2>3. call' \in {call, Idle} /\ UNCHANGED <<tabs, active, terminals>>
    BY <1>4 DEF Recovered
  <2> HIDE DEF Kept
  <2> QED BY <1>0, <2>1, <2>2, <2>3
<1>5. CASE Exits(k) \/ SessionClosed(k)
  <2>1. Kept
    <3>1. /\ \E ts : view' = [t \in TabId |-> IF t \in ts THEN Hidden(view[t])
                                                         ELSE view[t]]
          /\ comp' \in {comp, Hidden(comp)}
      BY <1>5 DEF Exits, SessionClosed, Update
    <3>2. \A t \in TabId : view'[t] \in {view[t], Hidden(view[t])}
      BY <3>1
    <3>3. \A t \in TabId : /\ view'[t] \in View
                           /\ view'[t].client = view[t].client
                           /\ view'[t].terminal = view[t].terminal
      BY <1>v, <3>2, HiddenView
    <3>4. view' \in [TabId -> View]
      BY <3>1, <3>3
    <3>5. comp' \in View /\ comp'.client = comp.client
                         /\ comp'.terminal = comp.terminal
      BY <1>v, <3>1, HiddenView
    <3> QED BY <3>3, <3>4, <3>5
  <2>2. session' \in OfClients
    BY <1>5, <1>v DEF Exits, SessionClosed, Ended, OfClients
  <2>3. UNCHANGED <<call, tabs, active, terminals, previous, recovering>>
    BY <1>5 DEF Exits, SessionClosed
  <2> HIDE DEF Kept
  <2> QED BY <1>0, <1>v, <2>1, <2>2, <2>3
<1>6. CASE Left(k)
  <2>1. Kept
    BY <1>6, <1>u DEF Left, ui
  <2>2. session' \in OfClients
    BY <1>6, <1>v DEF Left, OfClients
  <2>3. UNCHANGED <<call, tabs, active, terminals, previous, recovering>>
    BY <1>6 DEF Left, ui
  <2> HIDE DEF Kept
  <2> QED BY <1>0, <1>v, <2>1, <2>2, <2>3
<1> QED BY <1>1, <1>2, <1>3, <1>4, <1>5, <1>6

-----------------------------------------------------------------------------
(* The methods of the element. *)

\* A list without its i-th element.
LEMMA RemovedAt ==
  ASSUME NEW S, NEW q \in Seq(S), NEW i \in 1..Len(q)
  PROVE  /\ RemoveAt(q, i) \in Seq(S)
         /\ Len(RemoveAt(q, i)) = Len(q) - 1
         /\ \A j \in 1..(Len(q) - 1) :
              RemoveAt(q, i)[j] = IF j < i THEN q[j] ELSE q[j + 1]
<1> DEFINE a == SubSeq(q, 1, i - 1)
           b == SubSeq(q, i + 1, Len(q))
<1>1. /\ a \in Seq(S) /\ Len(a) = i - 1
      /\ \A j \in 1..(i - 1) : a[j] = q[j]
  OBVIOUS
<1>2. /\ b \in Seq(S) /\ Len(b) = Len(q) - i
      /\ \A j \in 1..(Len(q) - i) : b[j] = q[i + j]
  OBVIOUS
<1>3. RemoveAt(q, i) = a \o b
  BY DEF RemoveAt
<1> HIDE DEF a, b
<1> QED BY <1>1, <1>2, <1>3

\* The place of an open tab is the only one it has.
LEMMA PlaceOfTab ==
  ASSUME ShapeOK, Distinct, NEW t \in Open
  PROVE  /\ Place(t) \in 1..Len(tabs) /\ tabs[Place(t)] = t
         /\ \A n \in 1..Len(tabs) : tabs[n] = t => n = Place(t)
<1>1. tabs \in Seq(TabId)
  BY DEF ShapeOK
<1>2. \E n \in DOMAIN tabs : tabs[n] = t
  BY OpenTabs
<1>3. Place(t) \in DOMAIN tabs /\ tabs[Place(t)] = t
  BY <1>2 DEF Place
<1> QED BY <1>1, <1>3 DEF Distinct

LEMMA CreateTabStep ==
  ASSUME TabsInv, NEW t \in TabId, CreateTab(t)
  PROVE  TabsInv'
<1>1. /\ tabs \in Seq(TabId) /\ view \in [TabId -> View] /\ t \notin Open
      /\ Open \subseteq TabId
  BY OpenTabs DEF TabsInv, ShapeOK, CreateTab, FreeTab
<1>2. /\ tabs' = Append(tabs, t) /\ view' = [view EXCEPT ![t] = Blank]
      /\ active' = t /\ comp' = Blank /\ terminals' = terminals
  BY DEF CreateTab
<1>3. /\ tabs' \in Seq(TabId) /\ Len(tabs') = Len(tabs) + 1
      /\ tabs'[Len(tabs) + 1] = t
      /\ \A n \in 1..Len(tabs) : tabs'[n] = tabs[n]
  BY <1>1, <1>2
<1>4. ShapeOK'
  BY <1>1, <1>2, <1>3, BlankView DEF TabsInv, ShapeOK, CreateTab, clients
<1>5. Open' = Open \cup {t}
  <2>1. \A u : u \in Open' <=> \E n \in 1..(Len(tabs) + 1) : tabs'[n] = u
    BY <1>3 DEF Open, ToSet
  <2>2. \A u : u \in Open <=> \E n \in 1..Len(tabs) : tabs[n] = u
    BY <1>1 DEF Open, ToSet
  <2> QED BY <1>1, <1>3, <2>1, <2>2
<1>6. Distinct'
  <2>1. \A n \in 1..Len(tabs) : tabs[n] # t
    BY <1>1 DEF Open, ToSet
  <2> QED BY <1>1, <1>3, <2>1 DEF TabsInv, Distinct
<1>7. TerminalsKept'
  BY <1>1, <1>2, <1>5, BlankView DEF TabsInv, TerminalsKept
<1>8. TabsKeepApart'
  <2>1. tabs' # <<>>
    BY <1>3
  <2> QED BY <1>1, <1>2, <1>5, <2>1, BlankView DEF TabsInv, TabsKeepApart
<1> QED BY <1>4, <1>6, <1>7, <1>8 DEF TabsInv

LEMMA SwitchTabStep ==
  ASSUME TabsInv, NEW t \in TabId, SwitchTab(t)
  PROVE  TabsInv'
<1>1. /\ Open' = Open /\ Open \subseteq TabId /\ t \in Open
      /\ tabs # <<>>
  BY OpenSame, OpenTabs DEF TabsInv, SwitchTab
<1>2. /\ active' = t /\ comp' = view[t]
      /\ UNCHANGED <<tabs, view, call, terminals, session, previous, recovering>>
  BY DEF SwitchTab, SwitchTo, clients
<1>3. ShapeOK'
  BY <1>1, <1>2 DEF TabsInv, ShapeOK
<1>4. Distinct' /\ TerminalsKept'
  BY <1>1, <1>2 DEF TabsInv, Distinct, TerminalsKept
<1>5. TabsKeepApart'
  BY <1>1, <1>2 DEF TabsInv, TabsKeepApart
<1> QED BY <1>3, <1>4, <1>5 DEF TabsInv

\* Closing a tab takes it out of the list, and brings another one into view if it
\* was the one shown.
LEMMA ClosedTab ==
  ASSUME TabsInv, NEW t \in TabId, CloseTab(t)
  PROVE  /\ t \in Open /\ Open' = Open \ {t}
         /\ tabs' \in Seq(TabId) /\ Distinct'
         /\ tabs' = <<>> <=> active' = None
         /\ tabs' # <<>> => active' \in Open'
         /\ \/ t # active /\ UNCHANGED <<active, comp>>
            \/ t = active /\ active' = None /\ comp' = Blank
            \/ t = active /\ active' \in Open' /\ comp' = view[active']
<1> DEFINE i == Place(t)
<1>0. /\ tabs \in Seq(TabId) /\ view \in [TabId -> View] /\ comp \in View
      /\ t \in Open /\ Open \subseteq TabId
  BY OpenTabs DEF TabsInv, ShapeOK, CloseTab
<1>1. /\ i \in 1..Len(tabs) /\ tabs[i] = t
      /\ \A n \in 1..Len(tabs) : tabs[n] = t => n = i
  BY <1>0, PlaceOfTab DEF TabsInv
<1>2. /\ tabs' = RemoveAt(tabs, i) /\ NextInView(t)
  BY DEF CloseTab
<1> HIDE DEF i
<1>3. /\ tabs' \in Seq(TabId) /\ Len(tabs') = Len(tabs) - 1
      /\ \A j \in 1..(Len(tabs) - 1) :
           tabs'[j] = IF j < i THEN tabs[j] ELSE tabs[j + 1]
  BY <1>0, <1>1, <1>2, RemovedAt
<1>d. \A m, n \in 1..Len(tabs) : tabs[m] = tabs[n] => m = n
  BY <1>0 DEF TabsInv, Distinct
<1>4. Open' = Open \ {t}
  <2>1. \A u : u \in Open' <=> \E n \in 1..(Len(tabs) - 1) : tabs'[n] = u
    BY <1>0, <1>3 DEF Open, ToSet
  <2>2. \A u : u \in Open <=> \E n \in 1..Len(tabs) : tabs[n] = u
    BY <1>0 DEF Open, ToSet
  <2>3. ASSUME NEW u \in Open', u \notin Open \ {t}
        PROVE  FALSE
    <3>1. PICK n \in 1..(Len(tabs) - 1) : tabs'[n] = u
      BY <2>1, <2>3
    <3>2. u = tabs[IF n < i THEN n ELSE n + 1]
      BY <1>3, <3>1
    <3>3. (IF n < i THEN n ELSE n + 1) \in 1..Len(tabs)
      BY <1>0, <3>1
    <3>4. (IF n < i THEN n ELSE n + 1) # i
      BY <1>1
    <3> QED BY <1>1, <2>2, <2>3, <3>2, <3>3, <3>4
  <2>4. ASSUME NEW u \in Open \ {t}
        PROVE  u \in Open'
    <3>1. PICK n \in 1..Len(tabs) : tabs[n] = u
      BY <2>2, <2>4
    <3>2. n # i
      BY <1>1, <2>4, <3>1
    <3>3. CASE n < i
      BY <1>0, <1>1, <1>3, <2>1, <3>1, <3>3
    <3>4. CASE n > i
      <4>1. n - 1 \in 1..(Len(tabs) - 1) /\ ~(n - 1 < i)
        BY <1>0, <1>1, <3>4
      <4>2. tabs'[n - 1] = tabs[(n - 1) + 1]
        BY <1>3, <4>1
      <4> QED BY <2>1, <3>1, <4>1, <4>2
    <3> QED BY <1>1, <3>2, <3>3, <3>4
  <2> QED BY <2>3, <2>4
<1>5. Distinct'
  <2> SUFFICES ASSUME NEW m \in 1..(Len(tabs) - 1), NEW n \in 1..(Len(tabs) - 1),
                      tabs'[m] = tabs'[n]
               PROVE  m = n
    BY <1>0, <1>3 DEF Distinct
  <2> DEFINE Was(j) == IF j < i THEN j ELSE j + 1
  <2>1. Was(m) \in 1..Len(tabs) /\ Was(n) \in 1..Len(tabs)
    BY <1>0
  <2>2. tabs'[m] = tabs[Was(m)] /\ tabs'[n] = tabs[Was(n)]
    BY <1>3
  <2>3. Was(m) = Was(n)
    BY <1>d, <2>1, <2>2
  <2> QED BY <1>1, <2>3
<1>6. active \in Open /\ tabs # <<>>
  BY <1>0, OpenTabs DEF TabsInv, TabsKeepApart
<1>7. CASE t # active
  <2>1. active' = active /\ comp' = comp
    BY <1>2, <1>7 DEF NextInView
  <2>2. active' \in Open' /\ active' # None
    BY <1>0, <1>4, <1>6, <1>7, <2>1, TabsAssumption
  <2>3. tabs' # <<>>
    BY <2>2 DEF Open, ToSet
  <2> QED BY <1>0, <1>3, <1>4, <1>5, <1>7, <2>1, <2>2, <2>3
<1>8. CASE t = active /\ Len(tabs) = 1
  <2>1. active' = None /\ comp' = Blank
    BY <1>2, <1>8 DEF NextInView
  <2>2. tabs' = <<>>
    BY <1>0, <1>3, <1>8
  <2> QED BY <1>0, <1>3, <1>4, <1>5, <1>8, <2>1, <2>2
<1>9. CASE t = active /\ Len(tabs) # 1
  <2> DEFINE m == IF i = 1 THEN 2 ELSE i - 1
  <2>0. Len(tabs) \in Nat /\ i \in 1..Len(tabs) /\ Len(tabs) # 1
    BY <1>0, <1>1, <1>9
  <2>1. m \in 1..Len(tabs) /\ m # i
    <3>1. CASE i = 1
      <4>1. m = 2
        BY <3>1
      <4>2. Len(tabs) >= 2
        <5>1. \A n \in Nat : 1 \in 1..n /\ n # 1 => n >= 2
          OBVIOUS
        <5> QED BY <2>0, <3>1, <5>1
      <4> HIDE DEF m
      <4> QED BY <2>0, <3>1, <4>1, <4>2
    <3>2. CASE i # 1
      <4>1. m = i - 1
        BY <3>2
      <4> QED BY <2>0, <3>2, <4>1
    <3> QED BY <3>1, <3>2
  <2>2. active' = tabs[m] /\ comp' = view[tabs[m]]
    BY <1>2, <1>9 DEF NextInView, SwitchTo, i
  <2>3. tabs[m] \in Open /\ tabs[m] # t
    BY <1>0, <1>1, <2>1 DEF Open, ToSet
  <2>4. Len(tabs') # 0
    BY <1>0, <1>1, <1>3, <1>9
  <2>5. tabs' # <<>> /\ tabs[m] # None
    BY <1>0, <2>3, <2>4, TabsAssumption
  <2> QED BY <1>0, <1>3, <1>4, <1>5, <1>9, <2>2, <2>3, <2>5
<1> QED BY <1>7, <1>8, <1>9

LEMMA CloseTabStep ==
  ASSUME TabsInv, NEW t \in TabId, CloseTab(t)
  PROVE  TabsInv'
<1>1. /\ view \in [TabId -> View] /\ comp \in View
      /\ Open \subseteq TabId /\ active \in Open \cup {None}
  BY OpenTabs DEF TabsInv, ShapeOK, TabsKeepApart
<1>2. /\ view' = [view EXCEPT ![t] = Blank]
      /\ terminals' = terminals \ {view[t].terminal}
      /\ UNCHANGED <<call, session, previous, recovering>>
  BY DEF CloseTab, Released
<1>3. /\ t \in Open /\ Open' = Open \ {t}
      /\ tabs' \in Seq(TabId) /\ Distinct'
      /\ IF tabs' = <<>> THEN active' = None ELSE active' \in Open'
  BY ClosedTab
<1>4. \/ t # active /\ UNCHANGED <<active, comp>>
      \/ t = active /\ active' = None /\ comp' = Blank
      \/ t = active /\ active' \in Open' /\ comp' = view[active']
  BY ClosedTab
<1>5. ShapeOK'
  <2>1. comp' \in View
    BY <1>1, <1>3, <1>4, BlankView
  <2> QED BY <1>1, <1>2, <1>3, <2>1, BlankView DEF TabsInv, ShapeOK
<1>6. \A u \in Open' : view'[u] = view[u]
  BY <1>1, <1>2, <1>3
<1>7. TerminalsKept'
  BY <1>1, <1>2, <1>3, <1>6 DEF TabsInv, TerminalsKept, TabsKeepApart
<1>8. TabsKeepApart'
  <2>1. active' # None => /\ comp'.client = view'[active'].client
                          /\ comp'.terminal = view'[active'].terminal
    <3>1. active' # None => active' \in Open'
      BY <1>3
    <3> QED BY <1>3, <1>4, <1>6, <3>1 DEF TabsInv, TabsKeepApart
  <2>2. \A u, v \in Open' : u # v =>
          /\ view'[u].client = None \/ view'[u].client # view'[v].client
          /\ view'[u].terminal = None \/ view'[u].terminal # view'[v].terminal
    BY <1>3, <1>6 DEF TabsInv, TabsKeepApart
  <2> QED BY <1>3, <2>1, <2>2 DEF TabsKeepApart
<1> QED BY <1>3, <1>5, <1>7, <1>8 DEF TabsInv

\* A new client is nobody's.
LEMMA ConnectStep ==
  ASSUME TabsInv, NEW k \in ClientId, Connect(k)
  PROVE  TabsInv'
<1>1. /\ tabs \in Seq(TabId) /\ view \in [TabId -> View] /\ comp \in View
      /\ Open' = Open /\ Open \subseteq TabId
  BY OpenTabs, OpenSame DEF TabsInv, ShapeOK, Connect
<1>2. /\ comp' = [comp EXCEPT !.client = k]
      /\ view' = IF active = None THEN view
                 ELSE [view EXCEPT ![active] = [view[active] EXCEPT !.client = k]]
      /\ UNCHANGED <<tabs, active, call, terminals, recovering>>
  BY DEF Connect, Synced
<1>3. \A t \in Open : view[t].client # k
  BY DEF Connect, FreeClient, Holders
<1>4. active # None => active \in Open
  BY DEF TabsInv, TabsKeepApart
<1>5. \A r \in View : /\ [r EXCEPT !.client = k] \in View
                      /\ [r EXCEPT !.client = k].client = k
                      /\ [r EXCEPT !.client = k].terminal = r.terminal
  BY DEF View
<1>6. /\ view' \in [TabId -> View] /\ comp' \in View
      /\ comp'.client = k /\ comp'.terminal = comp.terminal
      /\ active # None => view'[active].client = k
      /\ \A t \in TabId : /\ view'[t].terminal = view[t].terminal
                          /\ t # active => view'[t] = view[t]
  BY <1>1, <1>2, <1>4, <1>5
<1>7. session' \in OfClients /\ previous' \in OfClients
  BY DEF TabsInv, ShapeOK, OfClients, Connect
<1>8. ShapeOK'
  BY <1>1, <1>2, <1>6, <1>7 DEF TabsInv, ShapeOK
<1>9. Distinct' /\ TerminalsKept'
  BY <1>1, <1>2, <1>6 DEF TabsInv, Distinct, TerminalsKept
<1>10. TabsKeepApart'
  <2>1. \A t, u \in Open : t # u =>
          view'[t].client = None \/ view'[t].client # view'[u].client
    <3> SUFFICES ASSUME NEW t \in Open, NEW u \in Open, t # u
                 PROVE  view'[t].client = None \/ view'[t].client # view'[u].client
      OBVIOUS
    <3>1. view[t].client = None \/ view[t].client # view[u].client
      BY DEF TabsInv, TabsKeepApart
    <3>2. t \in TabId /\ u \in TabId
      BY <1>1
    <3>3. CASE t # active /\ u # active
      BY <1>6, <3>1, <3>2, <3>3
    <3>4. CASE t = active
      BY <1>3, <1>6, <3>2, <3>4, TabsAssumption
    <3>5. CASE u = active
      BY <1>3, <1>6, <3>2, <3>5, TabsAssumption
    <3> QED BY <3>3, <3>4, <3>5
  <2>2. \A t, u \in Open : t # u =>
          view'[t].terminal = None \/ view'[t].terminal # view'[u].terminal
    BY <1>1, <1>6 DEF TabsInv, TabsKeepApart
  <2> QED BY <1>1, <1>2, <1>4, <1>6, <2>1, <2>2 DEF TabsInv, TabsKeepApart
<1> QED BY <1>8, <1>9, <1>10 DEF TabsInv

\* The component, when what it has changes, takes its tab along.
LEMMA SyncStep ==
  ASSUME TabsInv, NEW r \in View, Sync(r), UNCHANGED <<tabs, active>>,
         NEW T \in SUBSET TerminalId, terminals' = terminals \cup T,
         r.client \in {comp.client, None},
         r.terminal \in {comp.terminal} \cup (T \ terminals),
         r.terminal \in terminals' \cup {None, comp.terminal},
         ShapeOK'
  PROVE  TabsInv'
<1>1. /\ view \in [TabId -> View] /\ Open' = Open /\ Open \subseteq TabId
      /\ comp' = r
      /\ view' = IF active = None THEN view ELSE [view EXCEPT ![active] = r]
  BY OpenTabs, OpenSame DEF TabsInv, ShapeOK, Sync, Synced
<1>2. active # None => /\ active \in Open /\ comp.client = view[active].client
                       /\ comp.terminal = view[active].terminal
  BY DEF TabsInv, TabsKeepApart
<1>3. \A t \in Open : view'[t] = IF t = active THEN r ELSE view[t]
  BY <1>1, TabsAssumption
<1>4. \A t \in Open : view[t].terminal \in terminals \cup {None}
  BY DEF TabsInv, TerminalsKept
<1>5. Distinct'
  BY DEF TabsInv, Distinct
<1>6. TerminalsKept'
  BY <1>1, <1>2, <1>3, <1>4 DEF TabsInv, TerminalsKept
<1>7. \A t, u \in Open : t # u =>
        /\ view'[t].client = None \/ view'[t].client # view'[u].client
        /\ view'[t].terminal = None \/ view'[t].terminal # view'[u].terminal
  <2> SUFFICES ASSUME NEW t \in Open, NEW u \in Open, t # u
               PROVE  /\ view'[t].client = None \/ view'[t].client # view'[u].client
                      /\ view'[t].terminal = None
                           \/ view'[t].terminal # view'[u].terminal
    OBVIOUS
  <2>1. /\ view[t].client = None \/ view[t].client # view[u].client
        /\ view[t].terminal = None \/ view[t].terminal # view[u].terminal
    BY DEF TabsInv, TabsKeepApart
  <2>2. None \notin T
    BY TabsAssumption
  <2>3. CASE t # active /\ u # active
    BY <1>3, <2>1, <2>3
  <2>4. CASE t = active
    <3>1. view'[t] = r /\ view'[u] = view[u] /\ active # None
      BY <1>1, <1>3, <2>4, TabsAssumption
    <3> QED BY <1>2, <1>4, <2>1, <2>2, <2>4, <3>1
  <2>5. CASE u = active
    <3>1. view'[u] = r /\ view'[t] = view[t] /\ active # None
      BY <1>1, <1>3, <2>5, TabsAssumption
    <3> QED BY <1>2, <1>4, <2>1, <2>2, <2>5, <3>1
  <2> QED BY <2>3, <2>4, <2>5
<1>8. TabsKeepApart'
  BY <1>1, <1>2, <1>3, <1>7 DEF TabsInv, TabsKeepApart
<1> QED BY <1>5, <1>6, <1>8 DEF TabsInv

LEMMA AskClientCalls ==
  ASSUME comp \in View, NEW kind \in {"none", "spawn", "join"},
         NEW s \in SessionId \cup {None}, AskClient(kind, s)
  PROVE  call' \in Calls
BY DEF AskClient, View, Calls, Idle

\* What Sync does to the shape of the state.
LEMMA SyncShape ==
  ASSUME ShapeOK, NEW r \in View, Sync(r), active # None => active \in TabId
  PROVE  view' \in [TabId -> View] /\ comp' \in View
BY DEF ShapeOK, Sync, Synced

\* disconnect, and the moment a terminal is ready: a new terminal is nobody's.
LEMMA DisconnectStep ==
  ASSUME TabsInv, Disconnect
  PROVE  TabsInv'
<1> DEFINE r == [comp EXCEPT !.client = None, !.connected = FALSE, !.active = FALSE,
                             !.info = None]
<1>1. comp \in View /\ (active # None => active \in TabId)
  BY OpenTabs DEF TabsInv, ShapeOK, TabsKeepApart
<1>2. r \in View /\ r.client = None /\ r.terminal = comp.terminal
  BY <1>1 DEF View
<1>3. /\ Sync(r)
      /\ UNCHANGED <<tabs, active, call, terminals, session, previous, recovering>>
  BY DEF Disconnect
<1> HIDE DEF r
<1>4. ShapeOK'
  BY <1>1, <1>2, <1>3, SyncShape DEF TabsInv, ShapeOK
<1>5. terminals' = terminals \cup {} /\ {} \in SUBSET TerminalId
  BY <1>3
<1> QED BY <1>2, <1>3, <1>4, <1>5, SyncStep

LEMMA TerminalReadyStep ==
  ASSUME TabsInv, NEW x \in TerminalId, TerminalReady(x)
  PROVE  TabsInv'
<1> DEFINE r == [comp EXCEPT !.terminal = x]
<1>1. /\ comp \in View /\ (active # None => active \in TabId) /\ call \in Calls
  BY OpenTabs DEF TabsInv, ShapeOK, TabsKeepApart
<1>2. r \in View /\ r.client = comp.client /\ r.terminal = x
  BY <1>1 DEF View
<1>3. /\ Sync(r) /\ x \notin terminals /\ terminals' = terminals \cup {x}
      /\ AskClient(call.kind, call.session)
      /\ UNCHANGED <<tabs, active, session, previous, recovering>>
  BY DEF TerminalReady, clients
<1> HIDE DEF r
<1>4. call' \in Calls
  BY <1>1, <1>3, AskClientCalls DEF Calls
<1>5. ShapeOK'
  BY <1>1, <1>2, <1>3, <1>4, SyncShape DEF TabsInv, ShapeOK
<1>6. {x} \in SUBSET TerminalId
  OBVIOUS
<1> QED BY <1>2, <1>3, <1>5, <1>6, SyncStep

\* Calls, and their refusal, leave the tabs alone; leave and kill hide a session.
LEMMA CallStep ==
  ASSUME TabsInv,
         Spawn \/ Refused \/ Leave \/ Kill \/ \E s \in SessionId : Join(s)
  PROVE  TabsInv'
<1>1. comp \in View /\ view \in [TabId -> View] /\ call \in Calls
  BY DEF TabsInv, ShapeOK
<1>2. CASE Leave \/ Kill
  <2>1. /\ Sync(Hidden(comp))
        /\ UNCHANGED <<tabs, active, call, terminals, session, previous, recovering>>
    BY <1>2 DEF Leave, Kill, clients
  <2>2. /\ Hidden(comp) \in View /\ Hidden(comp).client = comp.client
        /\ Hidden(comp).terminal = comp.terminal
    BY <1>1, HiddenView
  <2>3. /\ view' \in [TabId -> View] /\ comp' \in View
        /\ \A t \in TabId : /\ view'[t].client = view[t].client
                            /\ view'[t].terminal = view[t].terminal
        /\ comp'.client = comp.client /\ comp'.terminal = comp.terminal
    BY <2>1, <2>2, SyncMarks
  <2>4. ShapeOK'
    BY <2>1, <2>3 DEF TabsInv, ShapeOK
  <2> QED BY <2>1, <2>3, <2>4, OnlyMarks
<1>3. ASSUME UNCHANGED <<ui, terminals, clients>>, call' \in Calls
      PROVE  TabsInv'
  <2>1. ShapeOK'
    BY <1>3 DEF TabsInv, ShapeOK, ui, clients
  <2> QED BY <1>3, <2>1, OnlyMarks DEF ui, clients
<1>4. ASSUME NEW kind \in {"spawn", "join"}, NEW s \in SessionId \cup {None},
             Start(kind, s)
      PROVE  TabsInv'
  <2>1. CASE comp.terminal # None
    BY <1>1, <1>3, <1>4, <2>1, AskClientCalls DEF Start
  <2>2. CASE comp.terminal = None
    <3>1. call' = [kind |-> kind, client |-> None, session |-> s]
      BY <1>4, <2>2 DEF Start
    <3>2. call' \in Calls
      BY <3>1 DEF Calls
    <3> QED BY <1>3, <1>4, <3>2 DEF Start
  <2> QED BY <2>1, <2>2
<1>5. CASE Refused
  BY <1>3, <1>5 DEF Refused, Idle, Calls
<1>6. CASE Spawn
  BY <1>4, <1>6 DEF Spawn
<1>7. CASE \E s \in SessionId : Join(s)
  BY <1>4, <1>7 DEF Join
<1> QED BY <1>2, <1>5, <1>6, <1>7

\* An answer that arrives after a switch is shown in another tab than it was asked
\* for, but brings neither client nor terminal with it.
LEMMA GrantedStep ==
  ASSUME TabsInv, NEW s \in SessionId, Granted(s)
  PROVE  TabsInv'
<1> DEFINE k == call.client
           ts == IF call.kind = "spawn" THEN Holders(k)
                 ELSE IF target[k] # None THEN Target(k) ELSE Holders(k)
           before == [t \in TabId |-> IF t \in ts THEN Shown(view[t], s)
                                                  ELSE view[t]]
           r == Shown(comp, s)
<1>1. /\ comp \in View /\ view \in [TabId -> View] /\ call \in Calls
      /\ active # None => /\ active \in TabId
                          /\ comp.client = view[active].client
                          /\ comp.terminal = view[active].terminal
  BY OpenTabs DEF TabsInv, ShapeOK, TabsKeepApart
<1>2. k \in ClientId
  BY <1>1 DEF Granted, Calls
<1>3. /\ comp' = r
      /\ view' = IF active = None THEN before ELSE [before EXCEPT ![active] = r]
      /\ call' = Idle /\ session' = [session EXCEPT ![k] = s]
      /\ previous' \in {previous, [previous EXCEPT ![k] = None]}
      /\ UNCHANGED <<tabs, active, terminals, recovering>>
  BY DEF Granted, Synced
<1>4. r \in View /\ r.client = comp.client /\ r.terminal = comp.terminal
  BY <1>1, ShownView
<1>5. \A t \in TabId : /\ before[t] \in View
                       /\ before[t].client = view[t].client
                       /\ before[t].terminal = view[t].terminal
  <2>1. \A t \in TabId : before[t] \in {view[t], Shown(view[t], s)}
    OBVIOUS
  <2> HIDE DEF before
  <2> QED BY <1>1, <2>1, ShownView
<1>6. before \in [TabId -> View]
  <2>1. before = [t \in TabId |-> before[t]]
    OBVIOUS
  <2> HIDE DEF before
  <2> QED BY <1>5, <2>1
<1> HIDE DEF k, ts, before, r
<1>7. /\ view' \in [TabId -> View]
      /\ \A t \in TabId : /\ view'[t].client = view[t].client
                          /\ view'[t].terminal = view[t].terminal
  BY <1>1, <1>3, <1>4, <1>5, <1>6
<1>8. ShapeOK'
  <2>1. session' \in OfClients /\ previous' \in OfClients
    BY <1>2, <1>3 DEF TabsInv, ShapeOK, OfClients
  <2>2. call' \in Calls
    BY <1>3 DEF Idle, Calls
  <2> QED BY <1>3, <1>4, <1>7, <2>1, <2>2 DEF TabsInv, ShapeOK
<1> QED BY <1>3, <1>4, <1>7, <1>8, OnlyMarks

-----------------------------------------------------------------------------

LEMMA TabsInitially == TabsInit => TabsInv
<1> SUFFICES ASSUME TabsInit PROVE TabsInv
  OBVIOUS
<1>1. PICK t \in TabId :
        /\ tabs = <<t>> /\ active = t
        /\ view = [u \in TabId |-> Blank] /\ comp = Blank
        /\ call = Idle /\ terminals = {}
        /\ session = [k \in ClientId |-> None]
        /\ previous = [k \in ClientId |-> None]
        /\ recovering = [k \in ClientId |-> None]
  BY DEF TabsInit
<1>2. tabs \in Seq(TabId) /\ tabs # <<>> /\ Open = {t}
  BY <1>1 DEF Open, ToSet
<1>3. ShapeOK
  BY <1>1, <1>2, BlankView DEF ShapeOK, Idle, Calls, OfClients
<1>4. Distinct
  BY <1>1 DEF Distinct
<1>5. TerminalsKept
  BY <1>1, <1>2, BlankView DEF TerminalsKept
<1>6. TabsKeepApart
  BY <1>1, <1>2, BlankView DEF TabsKeepApart
<1> QED BY <1>3, <1>4, <1>5, <1>6 DEF TabsInv

LEMMA TabsStep == TabsInv /\ [TabsNext]_vars => TabsInv'
<1> SUFFICES ASSUME TabsInv, [TabsNext]_vars PROVE TabsInv'
  OBVIOUS
<1>1. CASE UNCHANGED vars
  <2>1. ShapeOK'
    BY <1>1 DEF vars, ui, clients, TabsInv, ShapeOK
  <2> QED BY <1>1, <2>1, OnlyMarks DEF vars, ui, clients
<1>2. CASE \E t \in TabId : CreateTab(t) \/ SwitchTab(t) \/ CloseTab(t)
  BY <1>2, CreateTabStep, SwitchTabStep, CloseTabStep
<1>3. CASE \E k \in ClientId : Connect(k)
  BY <1>3, ConnectStep
<1>4. CASE Disconnect \/ \E x \in TerminalId : TerminalReady(x)
  BY <1>4, DisconnectStep, TerminalReadyStep
<1>5. CASE Spawn \/ Refused \/ Leave \/ Kill \/ \E s \in SessionId : Join(s)
  BY <1>5, CallStep
<1>6. CASE \E s \in SessionId : Granted(s)
  BY <1>6, GrantedStep
<1>7. CASE \E k \in ClientId :
             \/ Opens(k) \/ Fails(k) \/ RetryTimerFires(k) \/ Closes(k)
             \/ Recovered(k) \/ Exits(k) \/ SessionClosed(k) \/ Left(k)
  BY <1>7, CallbackStep
<1> QED BY <1>1, <1>2, <1>3, <1>4, <1>5, <1>6, <1>7 DEF TabsNext

\* However tabs are opened, switched and closed while spawn() and join() are
\* awaited and clients call back, no two tabs have the same client or terminal,
\* there is an open one in view unless none is left, and the component uses its
\* client and terminal (createTab, switchTab, closeTab, syncStateToActiveTab).
THEOREM TabsStayApart == TabsSpec => []TabsKeepApart
<1>1. TabsInv => TabsKeepApart
  BY DEF TabsInv
<1> QED BY <1>1, TabsInitially, TabsStep, PTL DEF TabsSpec

-----------------------------------------------------------------------------
(* While nothing disturbs the element (Note), what it shows is true: for    *)
(* that, each client has to be in the tab it was made for, each session     *)
(* where it can be answered, and an awaited call in the tab in view.        *)

Links == {"closed", "dialing", "up", "retrying", "redialing", "closing"}
Living == {"dialing", "up", "retrying", "redialing"}

LinksOK ==
  /\ link \in [ClientId -> Links]
  /\ target \in [ClientId -> TabId \cup {None}]
  /\ leaving \in OfClients
  /\ disturbed \in BOOLEAN

\* A client that may still call back belongs to the tab it was made for, unless it
\* was told to close; no other client that may call back was made for that tab.
ClientsPlaced ==
  /\ \A k \in ClientId :
       /\ link[k] # "closed" => target[k] # None
       /\ link[k] \in Living => Holders(k) = {target[k]}
       /\ link[k] = "closing" => Holders(k) = {}
       /\ \A l \in ClientId :
            link[k] # "closed" /\ link[l] # "closed" /\ target[k] = target[l] => k = l
  /\ \A t \in Open : view[t].client # None => target[view[t].client] = t

\* A session needs a connection, is recovered when there is none, and is left only
\* by a client that is in it and whose tab does not show it any more.
SessionPlaced(k) ==
  /\ session[k] # None \/ recovering[k] # None \/ leaving[k] # None =>
       link[k] \in {"up", "closing"}
  /\ recovering[k] # None => session[k] = None /\ leaving[k] = None
  /\ leaving[k] # None => /\ leaving[k] = session[k]
                          /\ \A t \in Holders(k) : ~view[t].active
  /\ session[k] # None \/ previous[k] # None \/ recovering[k] # None =>
       \A t \in Holders(k) : view[t].terminal # None

SessionsPlaced == \A k \in ClientId : SessionPlaced(k)

\* A call is about the tab in view: it waits for the first terminal of the tab, or
\* for its client, which has no session.
CallPlaced ==
  /\ active = None => comp = Blank
  /\ Busy => active # None
  /\ Busy /\ call.client = None => comp.terminal = None
  /\ call.client # None =>
       /\ comp.terminal # None
       /\ session[call.client] = None /\ recovering[call.client] = None
       /\ link[call.client] \in {"up", "closing"}
       /\ link[call.client] = "up" => comp.client = call.client

Settled ==
  /\ ClientsPlaced /\ SessionsPlaced /\ CallPlaced
  /\ ComponentShowsActiveTab /\ TabShowsItsClient /\ NothingIsLeftBehind

Undisturbed == ~disturbed => Settled

Calm == TabsInv /\ LinksOK /\ ~disturbed /\ Settled

\* What the steps below use of such a state.
LEMMA CalmState ==
  ASSUME Calm
  PROVE  /\ tabs \in Seq(TabId) /\ view \in [TabId -> View] /\ comp \in View
         /\ call \in Calls /\ Open \subseteq TabId
         /\ session \in OfClients /\ previous \in OfClients
         /\ recovering \in OfClients /\ leaving \in OfClients
         /\ link \in [ClientId -> Links] /\ target \in [ClientId -> TabId \cup {None}]
         /\ active # None => active \in Open /\ comp = view[active]
         /\ active = None => comp = Blank
<1>1. Open \subseteq TabId
  BY OpenTabs DEF Calm, TabsInv
<1> QED BY <1>1 DEF Calm, TabsInv, ShapeOK, LinksOK, TabsKeepApart, Settled,
                     ComponentShowsActiveTab, CallPlaced

\* A client is in at most one tab.
LEMMA OneHolder ==
  ASSUME Calm, NEW t \in Open, view[t].client # None
  PROVE  /\ view[t].client \in ClientId /\ Holders(view[t].client) = {t}
         /\ target[view[t].client] = t
<1>1. view[t].client \in ClientId
  BY CalmState DEF View
<1>2. \A u \in Open : view[u].client = view[t].client => u = t
  BY DEF Calm, TabsInv, TabsKeepApart
<1>3. target[view[t].client] = t
  BY DEF Calm, Settled, ClientsPlaced
<1> QED BY <1>1, <1>2, <1>3 DEF Holders

\* A client that may call back does so to its tab, which the component shows if it
\* is the one in view.
LEMMA PlaceOfClient ==
  ASSUME Calm, NEW k \in ClientId, link[k] # "closed"
  PROVE  /\ target[k] \in TabId
         /\ Faces(k) <=> active = target[k]
         /\ link[k] \in Living =>
              /\ target[k] \in Open /\ view[target[k]].client = k
              /\ Holders(k) = {target[k]} /\ Target(k) = {target[k]}
<1>1. target[k] \in TabId
  BY CalmState DEF Calm, Settled, ClientsPlaced
<1>2. Faces(k) <=> active = target[k]
  BY <1>1, TabsAssumption DEF Faces
<1>3. link[k] \in Living => Holders(k) = {target[k]}
  BY DEF Calm, Settled, ClientsPlaced
<1> QED BY <1>1, <1>2, <1>3 DEF Holders, Target

LEMMA CalmNow ==
  ASSUME TabsInv, LinksOK, Undisturbed, ~disturbed
  PROVE  Calm
BY DEF Calm, Undisturbed

\* The fields that follow no other.
LEMMA LinksStep ==
  ASSUME TabsInv, LinksOK, TabsNext
  PROVE  LinksOK'
<1>0. /\ link \in [ClientId -> Links] /\ target \in [ClientId -> TabId \cup {None}]
      /\ leaving \in OfClients /\ disturbed \in BOOLEAN
      /\ session \in OfClients /\ recovering \in OfClients
      /\ active \in TabId \cup {None}
  BY OpenTabs DEF LinksOK, TabsInv, ShapeOK, TabsKeepApart
<1>1. CASE \E t \in TabId : CreateTab(t) \/ SwitchTab(t)
  BY <1>0, <1>1 DEF LinksOK, CreateTab, SwitchTab, Note, clients
<1>2. CASE \E t \in TabId : CloseTab(t)
  BY <1>0, <1>2 DEF LinksOK, CloseTab, Note, Released, Disconnecting, Links
<1>3. CASE \E k \in ClientId : Connect(k)
  <2>1. PICK k \in ClientId : Connect(k)
    BY <1>3
  <2>2. /\ link' = [link EXCEPT ![k] = "dialing"]
        /\ target' = [target EXCEPT ![k] = active]
        /\ leaving' = [leaving EXCEPT ![k] = None]
        /\ disturbed' \in BOOLEAN
    BY <2>1, <1>0 DEF Connect, Note
  <2> QED BY <1>0, <2>2 DEF LinksOK, Links, OfClients
<1>4. CASE Disconnect \/ Spawn \/ Kill \/ Refused
             \/ \E s \in SessionId : Join(s) \/ Granted(s)
  BY <1>0, <1>4 DEF LinksOK, Disconnect, Disconnecting, Spawn, Kill, Refused, Join,
                    Granted, Start, clients, Links
<1>5. CASE Leave
  <2> DEFINE k == comp.client
             in == IF recovering[k] # None THEN recovering[k] ELSE session[k]
  <2>1. k \in ClientId
    BY <1>5 DEF Leave, TabsInv, ShapeOK, View
  <2>2. leaving' \in {leaving, [leaving EXCEPT ![k] = in]}
    BY <1>5 DEF Leave
  <2>3. in \in SessionId \cup {None}
    BY <1>0, <2>1 DEF OfClients
  <2>4. UNCHANGED <<link, target>> /\ disturbed' \in BOOLEAN
    BY <1>0, <1>5 DEF Leave, Note
  <2> HIDE DEF k, in
  <2> QED BY <1>0, <2>1, <2>2, <2>3, <2>4 DEF LinksOK, OfClients
<1>6. CASE \E x \in TerminalId : TerminalReady(x)
  BY <1>0, <1>6 DEF LinksOK, TerminalReady, clients
<1>7. ASSUME NEW k \in ClientId,
             Opens(k) \/ Fails(k) \/ RetryTimerFires(k) \/ Recovered(k)
      PROVE  LinksOK'
  <2>1. /\ \E after \in Links : link' = [link EXCEPT ![k] = after] \/ link' = link
        /\ UNCHANGED <<target, leaving, disturbed>>
    BY <1>7 DEF Opens, Fails, RetryTimerFires, Recovered, Links
  <2> QED BY <1>0, <2>1 DEF LinksOK
<1>8. ASSUME NEW k \in ClientId,
             Closes(k) \/ Exits(k) \/ SessionClosed(k) \/ Left(k)
      PROVE  LinksOK'
  <2>1. /\ link' = link \/ \E after \in Links : link' = [link EXCEPT ![k] = after]
        /\ UNCHANGED target /\ disturbed' \in BOOLEAN
    BY <1>0, <1>8 DEF Closes, Exits, SessionClosed, Left, Links, Note
  <2>2. leaving' = leaving \/ leaving' = [leaving EXCEPT ![k] = None]
    BY <1>0, <1>8 DEF Closes, Exits, SessionClosed, Left, Ended, OfClients
  <2> QED BY <1>0, <2>1, <2>2 DEF LinksOK, OfClients
<1> QED BY <1>1, <1>2, <1>3, <1>4, <1>5, <1>6, <1>7, <1>8 DEF TabsNext

\* Most steps leave every tab its client and its terminal, and let a client only go
\* on trying or give up.
LEMMA PlacesKept ==
  ASSUME Calm, LinksOK', UNCHANGED <<tabs, terminals, target>>,
         \A t \in TabId : /\ view'[t].client = view[t].client
                          /\ view'[t].terminal = view[t].terminal,
         \A k \in ClientId : \/ link'[k] \in {link[k], "closed"}
                             \/ link[k] \in Living /\ link'[k] \in Living
  PROVE  /\ ClientsPlaced' /\ NothingIsLeftBehind' /\ Open' = Open
         /\ \A k \in ClientId : Holders(k)' = Holders(k)
<1>1. Open' = Open /\ Open \subseteq TabId
  BY CalmState, OpenSame
<1>2. \A k \in ClientId : Holders(k)' = Holders(k)
  BY <1>1 DEF Holders
<1>3. ClientsPlaced'
  <2>1. ASSUME NEW k \in ClientId
        PROVE  /\ link'[k] # "closed" => link[k] # "closed"
               /\ link'[k] \in Living => link[k] \in Living
               /\ link'[k] = "closing" => link[k] = "closing"
    BY DEF Living
  <2>2. ASSUME NEW k \in ClientId
        PROVE  /\ link'[k] # "closed" => target'[k] # None
               /\ link'[k] \in Living => Holders(k)' = {target'[k]}
               /\ link'[k] = "closing" => Holders(k)' = {}
    BY <1>2, <2>1 DEF Calm, Settled, ClientsPlaced
  <2>3. \A k, l \in ClientId :
          link'[k] # "closed" /\ link'[l] # "closed" /\ target'[k] = target'[l]
            => k = l
    BY <2>1 DEF Calm, Settled, ClientsPlaced
  <2>4. \A t \in Open : view'[t].client # None => target'[view'[t].client] = t
    BY <1>1 DEF Calm, Settled, ClientsPlaced
  <2> QED BY <1>1, <2>2, <2>3, <2>4 DEF ClientsPlaced
<1>4. NothingIsLeftBehind'
  <2>1. \A k \in ClientId : link'[k] \notin {"closed", "closing"} => Holders(k)' # {}
    BY <1>3 DEF LinksOK, Links, Living, ClientsPlaced
  <2>2. {view'[t].terminal : t \in Open} = {view[t].terminal : t \in Open}
    BY <1>1
  <2>3. terminals = {view[t].terminal : t \in Open} \ {None}
    BY DEF Calm, Settled, NothingIsLeftBehind
  <2> QED BY <1>1, <2>1, <2>2, <2>3 DEF NothingIsLeftBehind
<1> QED BY <1>1, <1>2, <1>3, <1>4

\* A callback that changes what one tab shows changes what the component shows
\* if it is the one in view.
LEMMA FaceOfTab ==
  ASSUME Calm, NEW ts \in SUBSET Open, NEW F \in [View -> View],
         NEW face \in BOOLEAN, face <=> active \in ts,
         view' = [t \in TabId |-> IF t \in ts THEN F[view[t]] ELSE view[t]],
         comp' = IF face THEN F[comp] ELSE comp, UNCHANGED <<tabs, active>>
  PROVE  ComponentShowsActiveTab' /\ (active' = None => comp' = Blank)
<1>1. /\ view \in [TabId -> View] /\ Open \subseteq TabId
      /\ active # None => active \in Open /\ comp = view[active]
      /\ active = None => comp = Blank
  BY CalmState
<1>2. None \notin Open
  BY <1>1, TabsAssumption
<1> QED BY <1>1, <1>2 DEF ComponentShowsActiveTab

-----------------------------------------------------------------------------
(* The callbacks of the clients. *)

\* An attempt that fails, or that is made again.
LEMMA AttemptCalm ==
  ASSUME Calm, LinksOK', NEW k \in ClientId, Fails(k) \/ RetryTimerFires(k)
  PROVE  Settled'
<1>1. /\ link[k] \in {"dialing", "redialing", "retrying"}
      /\ \E after \in {"retrying", "closed", "redialing"} :
           link' = [link EXCEPT ![k] = after]
      /\ UNCHANGED <<tabs, view, active, comp, call, terminals, target, session,
                     previous, recovering, leaving, disturbed>>
  BY DEF Fails, RetryTimerFires, ui
<1>2. \A l \in ClientId : \/ link'[l] = link[l]
                          \/ l = k /\ link'[l] \in {"retrying", "closed", "redialing"}
  BY <1>1, CalmState
<1>3. /\ ClientsPlaced' /\ NothingIsLeftBehind' /\ Open' = Open
      /\ \A l \in ClientId : Holders(l)' = Holders(l)
  BY <1>1, <1>2, PlacesKept DEF Living
<1>4. session[k] = None /\ recovering[k] = None /\ leaving[k] = None
  BY <1>1 DEF Calm, Settled, SessionsPlaced, SessionPlaced
<1>5. SessionsPlaced'
  <2> SUFFICES ASSUME NEW l \in ClientId
               PROVE  SessionPlaced(l)'
    BY DEF SessionsPlaced
  <2> QED BY <1>1, <1>2, <1>3, <1>4 DEF Calm, Settled, SessionsPlaced, SessionPlaced
<1>6. CallPlaced'
  <2>1. call.client # None => call.client \in ClientId /\ call.client # k
    BY <1>1, CalmState DEF Calls, Calm, Settled, CallPlaced
  <2> QED BY <1>1, <1>2, <2>1 DEF Calm, Settled, CallPlaced, Busy
<1>7. ComponentShowsActiveTab'
  BY <1>1 DEF Calm, Settled, ComponentShowsActiveTab
<1>8. TabShowsItsClient'
  <2>1. \A t \in Open : view[t].client # None => view[t].client \in ClientId
    BY OneHolder
  <2> QED BY <1>1, <1>2, <1>3, <2>1 DEF Calm, Settled, TabShowsItsClient
<1> QED BY <1>3, <1>5, <1>6, <1>7, <1>8 DEF Settled

LEMMA OpensCalm ==
  ASSUME Calm, LinksOK', NEW k \in ClientId, Opens(k)
  PROVE  Settled'
<1> DEFINE t0 == target[k]
           On == [r \in View |-> [r EXCEPT !.connected = TRUE]]
           ts == IF previous[k] = None THEN {t0} ELSE {}
           face == previous[k] = None /\ active = t0
<1>0. /\ view \in [TabId -> View] /\ comp \in View /\ Open \subseteq TabId
      /\ active # None => comp = view[active]
  BY CalmState
<1>1. /\ link[k] \in {"dialing", "redialing"}
      /\ link' = [link EXCEPT ![k] = "up"]
      /\ recovering' = [recovering EXCEPT ![k] = previous[k]]
      /\ UNCHANGED <<tabs, active, call, terminals, target, session, previous, leaving>>
  BY DEF Opens
<1>2. \A l \in ClientId : /\ link'[l] = IF l = k THEN "up" ELSE link[l]
                          /\ recovering'[l] = IF l = k THEN previous[k]
                                                       ELSE recovering[l]
  BY <1>1, CalmState DEF OfClients
<1>3. /\ t0 \in Open /\ view[t0].client = k /\ Holders(k) = {t0} /\ Target(k) = {t0}
      /\ Faces(k) <=> active = t0
  BY <1>1, PlaceOfClient DEF Living
<1>4. \A r \in View : /\ On[r] \in View /\ On[r].client = r.client
                      /\ On[r].terminal = r.terminal /\ On[r].connected
                      /\ On[r].active = r.active /\ On[r].info = r.info
  BY DEF View
<1>5. /\ view' = [t \in TabId |-> IF t \in ts THEN On[view[t]] ELSE view[t]]
      /\ comp' = IF face THEN On[comp] ELSE comp
  <2>1. CASE previous[k] # None
    BY <1>0, <1>1, <2>1 DEF Opens
  <2>2. CASE previous[k] = None /\ link[k] = "dialing" /\ t0 = active /\ active # None
    <3>1. /\ comp' = [comp EXCEPT !.connected = TRUE]
          /\ view' = [view EXCEPT ![active] = [comp EXCEPT !.connected = TRUE]]
      BY <2>2 DEF Opens, Sync, Synced
    <3> QED BY <1>0, <2>2, <3>1
  <2>3. CASE previous[k] = None /\ ~(link[k] = "dialing" /\ t0 = active /\ active # None)
    <3>1. /\ view' = [t \in TabId |-> IF t \in Target(k)
                                        THEN [view[t] EXCEPT !.connected = TRUE]
                                        ELSE view[t]]
          /\ comp' = IF Faces(k) THEN [comp EXCEPT !.connected = TRUE] ELSE comp
      BY <2>3 DEF Opens, Update
    <3> QED BY <1>0, <1>3, <2>3, <3>1
  <2> QED BY <2>1, <2>2, <2>3
<1>6. On \in [View -> View] /\ ts \in SUBSET Open /\ face \in BOOLEAN
      /\ (face <=> active \in ts)
  BY <1>3, <1>4
<1>v. \A t \in TabId : view'[t] = IF t \in ts THEN On[view[t]] ELSE view[t]
  BY <1>5
<1>t. ts = {} \/ ts = {t0}
  OBVIOUS
<1>n. ts = {} <=> previous[k] # None
  OBVIOUS
<1> HIDE DEF On, ts, face, t0
<1>7. ComponentShowsActiveTab' /\ (active' = None => comp' = Blank)
  BY <1>1, <1>5, <1>6, FaceOfTab
<1>8. \A t \in TabId : /\ view'[t].client = view[t].client
                       /\ view'[t].terminal = view[t].terminal
                       /\ view'[t].active = view[t].active
                       /\ view'[t].info = view[t].info
  BY <1>0, <1>4, <1>v
<1>9. /\ ClientsPlaced' /\ NothingIsLeftBehind' /\ Open' = Open
      /\ \A l \in ClientId : Holders(l)' = Holders(l)
  <2>1. \A l \in ClientId : \/ link'[l] = link[l]
                            \/ link[l] \in Living /\ link'[l] \in Living
    BY <1>1, <1>2 DEF Living
  <2> QED BY <1>1, <1>8, <2>1, PlacesKept
<1>10. session[k] = None /\ recovering[k] = None /\ leaving[k] = None
  BY <1>1 DEF Calm, Settled, SessionsPlaced, SessionPlaced
<1>11. SessionsPlaced'
  <2> SUFFICES ASSUME NEW l \in ClientId
               PROVE  SessionPlaced(l)'
    BY DEF SessionsPlaced
  <2>1. \A t \in Holders(l) : /\ view'[t].active = view[t].active
                              /\ view'[t].terminal = view[t].terminal
    BY <1>0, <1>8 DEF Holders
  <2> QED BY <1>1, <1>2, <1>9, <1>10, <2>1 DEF Calm, Settled, SessionsPlaced, SessionPlaced
<1>12. CallPlaced'
  <2>1. call.client # None => call.client \in ClientId /\ call.client # k
    BY <1>1, CalmState DEF Calls, Calm, Settled, CallPlaced
  <2>2. comp'.client = comp.client /\ comp'.terminal = comp.terminal
    BY <1>0, <1>4, <1>5
  <2> QED BY <1>1, <1>2, <1>7, <2>1, <2>2 DEF Calm, Settled, CallPlaced, Busy
<1>13. TabShowsItsClient'
  <2> SUFFICES ASSUME NEW t \in Open, NEW l, l = view[t].client
               PROVE  /\ l = None => ~view'[t].connected /\ ~view[t].active
                      /\ l # None =>
                           /\ view'[t].connected
                                <=> link'[l] = "up" /\ recovering'[l] = None
                           /\ view[t].active => session[l] = view[t].info
                                                  /\ link'[l] = "up"
    BY <1>0, <1>1, <1>8, <1>9 DEF TabShowsItsClient
  <2>1. l # None => l \in ClientId /\ Holders(l) = {t}
    BY OneHolder
  <2>2. CASE l = k
    <3>1. t = t0 /\ l # None
      BY <1>3, <2>1, <2>2, TabsAssumption
    <3>2. ~view[t].connected /\ ~view[t].active
      BY <1>1, <2>2, <3>1 DEF Calm, Settled, TabShowsItsClient
    <3>3. view'[t].connected <=> previous[k] = None
      BY <1>0, <1>4, <1>v, <1>t, <1>n, <3>1, <3>2
    <3> QED BY <1>2, <2>2, <3>1, <3>2, <3>3
  <2>3. CASE l # k
    <3>1. t # t0
      BY <1>3, <2>3
    <3>2. view'[t] = view[t]
      BY <1>0, <1>v, <1>t, <3>1
    <3> QED BY <1>2, <2>1, <2>3, <3>2 DEF Calm, Settled, TabShowsItsClient
  <2> QED BY <2>2, <2>3
<1> QED BY <1>7, <1>9, <1>11, <1>12, <1>13 DEF Settled

\* What a callback of a client does to the views, if it changes neither client nor
\* terminal of a tab.
LEMMA CallbackViews ==
  ASSUME Calm, NEW ts \in SUBSET Open, NEW F \in [View -> View],
         NEW face \in BOOLEAN, face <=> active \in ts,
         view' = [t \in TabId |-> IF t \in ts THEN F[view[t]] ELSE view[t]],
         comp' = IF face THEN F[comp] ELSE comp, UNCHANGED <<tabs, active>>,
         \A r \in View : F[r].client = r.client /\ F[r].terminal = r.terminal
  PROVE  /\ ComponentShowsActiveTab' /\ (active' = None => comp' = Blank)
         /\ comp'.client = comp.client /\ comp'.terminal = comp.terminal
         /\ \A t \in TabId : /\ view'[t] = IF t \in ts THEN F[view[t]] ELSE view[t]
                             /\ view'[t].client = view[t].client
                             /\ view'[t].terminal = view[t].terminal
<1>1. view \in [TabId -> View] /\ comp \in View
  BY CalmState
<1>2. \A t \in TabId : view'[t] = IF t \in ts THEN F[view[t]] ELSE view[t]
  OBVIOUS
<1> QED BY <1>1, <1>2, FaceOfTab

LEMMA ClosesCalm ==
  ASSUME Calm, LinksOK', NEW k \in ClientId, Closes(k), ~disturbed'
  PROVE  Settled'
<1> DEFINE t0 == target[k]
           Off == [r \in View |-> [r EXCEPT !.connected = FALSE, !.active = FALSE]]
           ts == {t0} \cap Open
           face == active = t0
<1>0. /\ view \in [TabId -> View] /\ comp \in View /\ Open \subseteq TabId
      /\ active # None => active \in Open
  BY CalmState
<1>1. /\ link[k] \in {"up", "closing"} /\ recovering[k] = None
      /\ link'[k] \in {"retrying", "closed"} /\ (link[k] = "closing" => link'[k] = "closed")
      /\ \A l \in ClientId \ {k} : link'[l] = link[l]
      /\ call' = IF call.client = k THEN Idle ELSE call
      /\ UNCHANGED <<tabs, active, terminals, target>>
  BY CalmState DEF Closes, Note
<1>2. \A l \in ClientId :
        /\ session'[l] = IF l = k THEN None ELSE session[l]
        /\ leaving'[l] = IF l = k THEN None ELSE leaving[l]
        /\ recovering'[l] = recovering[l]
        /\ previous'[l] = IF l = k /\ session[k] # None THEN session[k] ELSE previous[l]
  BY <1>1, CalmState DEF Closes, OfClients
<1>3. /\ t0 \in TabId
      /\ Faces(k) <=> active = t0
      /\ link[k] = "up" => t0 \in Open /\ view[t0].client = k /\ Holders(k) = {t0}
      /\ link[k] = "closing" => Holders(k) = {}
  BY <1>1, PlaceOfClient DEF Living, Calm, Settled, ClientsPlaced
<1>4. \A r \in View : /\ Off[r] \in View /\ Off[r].client = r.client
                      /\ Off[r].terminal = r.terminal /\ ~Off[r].connected
                      /\ ~Off[r].active
  BY DEF View
<1>5. /\ view' = [t \in TabId |-> IF t \in ts THEN Off[view[t]] ELSE view[t]]
      /\ comp' = IF face THEN Off[comp] ELSE comp
  BY <1>0, <1>1, <1>3 DEF Closes, Update, FaceOfLoss, Target
<1>6. Off \in [View -> View] /\ ts \in SUBSET Open /\ face \in BOOLEAN
      /\ (face <=> active \in ts)
  BY <1>0, <1>3, <1>4, TabsAssumption
<1>t. \A t : t \in ts <=> t = t0 /\ t \in Open
  OBVIOUS
<1> HIDE DEF Off, ts, face, t0
<1>7. /\ ComponentShowsActiveTab' /\ (active' = None => comp' = Blank)
      /\ comp'.client = comp.client /\ comp'.terminal = comp.terminal
      /\ \A t \in TabId : /\ view'[t] = IF t \in ts THEN Off[view[t]] ELSE view[t]
                          /\ view'[t].client = view[t].client
                          /\ view'[t].terminal = view[t].terminal
  BY <1>1, <1>4, <1>5, <1>6, CallbackViews
<1>9. /\ ClientsPlaced' /\ NothingIsLeftBehind' /\ Open' = Open
      /\ \A l \in ClientId : Holders(l)' = Holders(l)
  <2>1. \A l \in ClientId : \/ link'[l] \in {link[l], "closed"}
                            \/ link[l] \in Living /\ link'[l] \in Living
    BY <1>1 DEF Living
  <2> QED BY <1>1, <1>7, <2>1, PlacesKept
<1>11. SessionsPlaced'
  <2> SUFFICES ASSUME NEW l \in ClientId
               PROVE  SessionPlaced(l)'
    BY DEF SessionsPlaced
  <2>1. \A t \in Holders(l) : /\ view'[t].active => view[t].active
                              /\ view'[t].terminal = view[t].terminal
    BY <1>0, <1>4, <1>7 DEF Holders
  <2> QED BY <1>1, <1>2, <1>9, <2>1 DEF Calm, Settled, SessionsPlaced, SessionPlaced
<1>12. CallPlaced'
  <2>1. call.client # None => call.client \in ClientId
    BY CalmState DEF Calls
  <2>2. CASE call.client = k
    BY <1>1, <1>7, <2>2 DEF CallPlaced, Busy, Idle
  <2>3. CASE call.client # k
    BY <1>1, <1>2, <1>7, <2>1, <2>3 DEF Calm, Settled, CallPlaced, Busy
  <2> QED BY <2>2, <2>3
<1>13. TabShowsItsClient'
  <2> SUFFICES ASSUME NEW t \in Open, NEW l, l = view[t].client
               PROVE  /\ l = None => ~view'[t].connected /\ ~view'[t].active
                      /\ l # None =>
                           /\ view'[t].connected
                                <=> link'[l] = "up" /\ recovering'[l] = None
                           /\ view'[t].active => session'[l] = view'[t].info
                                                   /\ link'[l] = "up"
    BY <1>0, <1>7, <1>9 DEF TabShowsItsClient
  <2>1. l # None => l \in ClientId /\ Holders(l) = {t} /\ target[l] = t
    BY OneHolder
  <2>2. CASE l = k
    <3>1. t = t0 /\ l # None
      BY <2>1, <2>2, TabsAssumption DEF t0
    <3>2. ~view'[t].connected /\ ~view'[t].active
      BY <1>0, <1>4, <1>7, <1>t, <3>1
    <3> QED BY <1>1, <2>2, <3>1, <3>2
  <2>3. CASE t = t0 /\ l # k
    <3>1. ~view'[t].connected /\ ~view'[t].active
      BY <1>0, <1>4, <1>7, <1>t, <2>3
    <3>2. l # None => link[l] = "closed"
      BY <1>1, <2>1, <2>3 DEF Calm, Settled, ClientsPlaced, t0
    <3> QED BY <1>1, <2>1, <2>3, <3>1, <3>2
  <2>4. CASE t # t0 /\ l # k
    <3>1. view'[t] = view[t]
      BY <1>0, <1>7, <1>t, <2>4
    <3> QED BY <1>1, <1>2, <2>1, <2>4, <3>1 DEF Calm, Settled, TabShowsItsClient
  <2> QED BY <2>2, <2>3, <2>4
<1> QED BY <1>7, <1>9, <1>11, <1>12, <1>13 DEF Settled

\* The answer to recoverSession's join, as it changes what the tab shows.
LEMMA RecoveryShown ==
  ASSUME Calm, LinksOK', NEW k \in ClientId, Recovered(k), NEW F \in [View -> View],
         \A r \in View : /\ F[r].client = r.client /\ F[r].terminal = r.terminal
                         /\ F[r].connected,
         view' = [t \in TabId |-> IF t \in {target[k]} THEN F[view[t]] ELSE view[t]],
         comp' = IF active = target[k] THEN F[comp] ELSE comp,
         NEW s \in SessionId \cup {None},
         \A r \in View : s = None => /\ F[r].active = r.active
                                            /\ F[r].info = r.info,
         \A r \in View : s # None => F[r].info = s,
         \A l \in ClientId : session'[l] = IF l = k THEN s ELSE session[l]
  PROVE  Settled'
<1> DEFINE t0 == target[k]
           ts == {t0}
           face == active = t0
<1>0. /\ view \in [TabId -> View] /\ comp \in View /\ Open \subseteq TabId
  BY CalmState
<1>1. /\ link[k] = "up" /\ recovering[k] # None
      /\ recovering' = [recovering EXCEPT ![k] = None]
      /\ previous' = [previous EXCEPT ![k] = None]
      /\ UNCHANGED <<tabs, active, call, terminals, link, target, leaving>>
  BY DEF Recovered
<1>2. \A l \in ClientId :
        /\ recovering'[l] = IF l = k THEN None ELSE recovering[l]
        /\ previous'[l] = IF l = k THEN None ELSE previous[l]
  BY <1>1, CalmState DEF OfClients
<1>3. t0 \in Open /\ view[t0].client = k /\ Holders(k) = {t0}
  BY <1>1, PlaceOfClient DEF Living
<1>4. /\ ts \in SUBSET Open /\ face \in BOOLEAN /\ (face <=> active \in ts)
      /\ view' = [t \in TabId |-> IF t \in ts THEN F[view[t]] ELSE view[t]]
      /\ comp' = IF face THEN F[comp] ELSE comp
  BY <1>3
<1>t. \A t : t \in ts <=> t = t0
  OBVIOUS
<1> HIDE DEF t0, ts, face
<1>5. /\ ComponentShowsActiveTab' /\ (active' = None => comp' = Blank)
      /\ comp'.client = comp.client /\ comp'.terminal = comp.terminal
      /\ \A t \in TabId : /\ view'[t] = IF t = t0 THEN F[view[t]] ELSE view[t]
                          /\ view'[t].client = view[t].client
                          /\ view'[t].terminal = view[t].terminal
  BY <1>1, <1>4, <1>t, CallbackViews
<1>6. /\ ClientsPlaced' /\ NothingIsLeftBehind' /\ Open' = Open
      /\ \A l \in ClientId : Holders(l)' = Holders(l)
  BY <1>1, <1>5, PlacesKept
<1>7. session[k] = None /\ leaving[k] = None
  BY <1>1 DEF Calm, Settled, SessionsPlaced, SessionPlaced
<1>8. SessionsPlaced'
  <2> SUFFICES ASSUME NEW l \in ClientId
               PROVE  SessionPlaced(l)'
    BY DEF SessionsPlaced
  <2>h. Holders(l)' = Holders(l) /\ UNCHANGED <<link, leaving>>
    BY <1>1, <1>6
  <2>1. \A t \in Holders(l) : view'[t].terminal = view[t].terminal
    BY <1>0, <1>5 DEF Holders
  <2>2. CASE l = k
    <3>0. recovering[l] # None
      BY <1>1, <2>2
    <3>1. \A t \in Holders(l) : view'[t].terminal # None
      BY ONLY <2>1, <3>0, Calm, l \in ClientId DEF Calm, Settled, SessionsPlaced, SessionPlaced
    <3>2. link[l] = "up" /\ recovering'[l] = None /\ leaving[l] = None
      BY <1>1, <1>2, <1>7, <2>2
    <3> QED BY ONLY <2>h, <3>1, <3>2 DEF SessionPlaced
  <2>3. CASE l # k
    <3>1. \A t \in Holders(l) : view'[t] = view[t]
      BY <1>0, <1>3, <1>5, <2>3 DEF Holders
    <3>2. /\ session'[l] = session[l] /\ recovering'[l] = recovering[l]
          /\ previous'[l] = previous[l]
      BY <1>2, <2>3
    <3>3. SessionPlaced(l)
      BY DEF Calm, Settled, SessionsPlaced
    <3> QED BY ONLY <2>h, <3>1, <3>2, <3>3 DEF SessionPlaced
  <2> QED BY <2>2, <2>3
<1>9. CallPlaced'
  <2>1. call.client # None => call.client \in ClientId /\ call.client # k
    BY <1>1, CalmState DEF Calls, Calm, Settled, CallPlaced
  <2> QED BY <1>1, <1>2, <1>5, <2>1 DEF Calm, Settled, CallPlaced, Busy
<1>10. TabShowsItsClient'
  <2> SUFFICES ASSUME NEW t \in Open, NEW l, l = view[t].client
               PROVE  /\ l = None => ~view'[t].connected /\ ~view'[t].active
                      /\ l # None =>
                           /\ view'[t].connected
                                <=> link[l] = "up" /\ recovering'[l] = None
                           /\ view'[t].active => session'[l] = view'[t].info
                                                   /\ link[l] = "up"
    BY <1>0, <1>1, <1>5, <1>6 DEF TabShowsItsClient
  <2>1. l # None => l \in ClientId /\ Holders(l) = {t}
    BY OneHolder
  <2>2. CASE l = k
    <3>1. t = t0 /\ l # None
      BY <1>3, <2>1, <2>2, TabsAssumption
    <3>2. view'[t] = F[view[t]] /\ view[t] \in View
      BY <1>0, <1>5, <3>1
    <3>3. view[t].active => session[k] = view[t].info
      BY <1>3, <3>1, TabsAssumption DEF Calm, Settled, TabShowsItsClient
    <3> QED BY <1>1, <1>2, <1>7, <2>2, <3>1, <3>2, <3>3
  <2>3. CASE l # k
    <3>1. view'[t] = view[t]
      BY <1>0, <1>3, <1>5, <2>3
    <3> QED BY <1>1, <1>2, <2>1, <2>3, <3>1 DEF Calm, Settled, TabShowsItsClient
  <2> QED BY <2>2, <2>3
<1> QED BY <1>5, <1>6, <1>8, <1>9, <1>10 DEF Settled

LEMMA RecoveredCalm ==
  ASSUME Calm, LinksOK', NEW k \in ClientId, Recovered(k)
  PROVE  Settled'
<1> DEFINE t0 == target[k]
           On(r) == [r EXCEPT !.connected = TRUE]
           s == recovering[k]
           Plain == [r \in View |-> On(r)]
           Back == [r \in View |-> On(Shown(r, s))]
<1>0. /\ view \in [TabId -> View] /\ comp \in View /\ session \in OfClients
      /\ s \in SessionId /\ s # None /\ link[k] = "up"
  BY CalmState DEF Recovered, OfClients
<1>1. Target(k) = {t0} /\ (Faces(k) <=> active = t0)
  BY <1>0, PlaceOfClient DEF Living
<1>2. session[k] = None
  BY DEF Recovered, Calm, Settled, SessionsPlaced, SessionPlaced
<1>3. CASE /\ session' = [session EXCEPT ![k] = s]
           /\ Update(Target(k), Faces(k), LAMBDA r : On(Shown(r, s)))
  <2>1. /\ view' = [t \in TabId |-> IF t \in {t0} THEN On(Shown(view[t], s)) ELSE view[t]]
        /\ comp' = IF active = t0 THEN On(Shown(comp, s)) ELSE comp
    BY <1>1, <1>3 DEF Update
  <2>2. /\ view' = [t \in TabId |-> IF t \in {t0} THEN Back[view[t]] ELSE view[t]]
        /\ comp' = IF active = t0 THEN Back[comp] ELSE comp
    BY <1>0, <2>1
  <2>3. \A r \in View : /\ Back[r] \in View /\ Back[r].client = r.client
                        /\ Back[r].terminal = r.terminal /\ Back[r].connected
                        /\ Back[r].info = s
    BY <1>0 DEF View, Shown
  <2>4. Back \in [View -> View]
    BY <2>3
  <2>5. \A l \in ClientId : session'[l] = IF l = k THEN s ELSE session[l]
    BY <1>0, <1>3 DEF OfClients
  <2> HIDE DEF Back, s
  <2> QED BY <1>0, <2>2, <2>3, <2>4, <2>5, RecoveryShown
<1>4. CASE UNCHANGED session /\ Update(Target(k), Faces(k), LAMBDA r : On(r))
  <2>1. /\ view' = [t \in TabId |-> IF t \in {t0} THEN On(view[t]) ELSE view[t]]
        /\ comp' = IF active = t0 THEN On(comp) ELSE comp
    BY <1>1, <1>4 DEF Update
  <2>2. /\ view' = [t \in TabId |-> IF t \in {t0} THEN Plain[view[t]] ELSE view[t]]
        /\ comp' = IF active = t0 THEN Plain[comp] ELSE comp
    BY <1>0, <2>1
  <2>3. \A r \in View : /\ Plain[r] \in View /\ Plain[r].client = r.client
                        /\ Plain[r].terminal = r.terminal /\ Plain[r].connected
                        /\ Plain[r].active = r.active /\ Plain[r].info = r.info
    BY DEF View
  <2>4. Plain \in [View -> View]
    BY <2>3
  <2>5. \A l \in ClientId : session'[l] = IF l = k THEN None ELSE session[l]
    BY <1>2, <1>4
  <2> HIDE DEF Plain
  <2> QED BY <2>2, <2>3, <2>4, <2>5, RecoveryShown
<1> QED BY <1>3, <1>4 DEF Recovered, Update


\* A session that ends is hidden in the tab of its client.
LEMMA EndShown ==
  ASSUME Calm, LinksOK', NEW k \in ClientId, Ended(k), NEW ts, NEW face \in BOOLEAN,
         ts \subseteq Holders(k), face <=> active \in ts,
         \A t \in Holders(k) \ ts : view[t].info # session[k],
         view' = [t \in TabId |-> IF t \in ts THEN Hidden(view[t]) ELSE view[t]],
         comp' = IF face THEN Hidden(comp) ELSE comp,
         UNCHANGED <<tabs, active, call, terminals, link, target, previous,
                     recovering>>
  PROVE  Settled'
<1> DEFINE F == [r \in View |-> Hidden(r)]
<1>0. /\ view \in [TabId -> View] /\ comp \in View /\ Open \subseteq TabId
  BY CalmState
<1>1. /\ link[k] = "up" /\ session[k] # None
      /\ \A l \in ClientId : /\ session'[l] = IF l = k THEN None ELSE session[l]
                             /\ l # k => leaving'[l] = leaving[l]
      /\ leaving'[k] = IF leaving[k] = session[k] THEN None ELSE leaving[k]
  BY CalmState DEF Ended, OfClients
<1>2. leaving'[k] = None
  BY <1>1 DEF Calm, Settled, SessionsPlaced, SessionPlaced
<1>3. Holders(k) \subseteq Open /\ \A t \in Holders(k) : view[t].client = k
  BY DEF Holders
<1>4. /\ F \in [View -> View] /\ ts \in SUBSET Open
      /\ \A r \in View : /\ F[r].client = r.client /\ F[r].terminal = r.terminal
                         /\ F[r].connected = r.connected /\ ~F[r].active
      /\ view' = [t \in TabId |-> IF t \in ts THEN F[view[t]] ELSE view[t]]
      /\ comp' = IF face THEN F[comp] ELSE comp
  BY <1>0, <1>3 DEF Hidden, View
<1> HIDE DEF F
<1>5. /\ ComponentShowsActiveTab' /\ (active' = None => comp' = Blank)
      /\ comp'.client = comp.client /\ comp'.terminal = comp.terminal
      /\ \A t \in TabId : /\ view'[t] = IF t \in ts THEN F[view[t]] ELSE view[t]
                          /\ view'[t].client = view[t].client
                          /\ view'[t].terminal = view[t].terminal
  BY ONLY <1>4, CallbackViews, Calm, face \in BOOLEAN, face <=> active \in ts,
          UNCHANGED <<tabs, active>>
<1>6. /\ ClientsPlaced' /\ NothingIsLeftBehind' /\ Open' = Open
      /\ \A l \in ClientId : Holders(l)' = Holders(l)
  BY ONLY <1>5, PlacesKept, Calm, LinksOK', UNCHANGED <<tabs, terminals, target, link>>
<1>7. SessionsPlaced'
  <2> SUFFICES ASSUME NEW l \in ClientId
               PROVE  SessionPlaced(l)'
    BY DEF SessionsPlaced
  <2>h. Holders(l)' = Holders(l) /\ UNCHANGED <<link, previous, recovering>>
    BY <1>6
  <2>1. \A t \in Holders(l) : view'[t].terminal = view[t].terminal
    BY <1>0, <1>5 DEF Holders
  <2>2. \A t \in Holders(l) : view'[t].active => view[t].active
    BY <1>0, <1>4, <1>5 DEF Holders
  <2>3. SessionPlaced(l)
    BY DEF Calm, Settled, SessionsPlaced
  <2>4. /\ session'[l] \in {None, session[l]}
        /\ leaving'[l] = None \/ (leaving'[l] = leaving[l] /\ session'[l] = session[l])
    BY <1>1, <1>2
  <2> QED BY ONLY <2>h, <2>1, <2>2, <2>3, <2>4 DEF SessionPlaced
<1>8. CallPlaced'
  <2>1. call.client # None => call.client \in ClientId /\ call.client # k
    BY <1>1, CalmState DEF Calls, Calm, Settled, CallPlaced
  <2> QED BY <1>1, <1>5, <2>1 DEF Calm, Settled, CallPlaced, Busy
<1>9. TabShowsItsClient'
  <2> SUFFICES ASSUME NEW t \in Open, NEW l, l = view[t].client
               PROVE  /\ l = None => ~view'[t].connected /\ ~view'[t].active
                      /\ l # None =>
                           /\ view'[t].connected
                                <=> link[l] = "up" /\ recovering[l] = None
                           /\ view'[t].active => session'[l] = view'[t].info
                                                   /\ link[l] = "up"
    BY <1>0, <1>5, <1>6 DEF TabShowsItsClient
  <2>1. /\ l = None => ~view[t].connected /\ ~view[t].active
        /\ l # None =>
             /\ l \in ClientId
             /\ view[t].connected <=> link[l] = "up" /\ recovering[l] = None
             /\ view[t].active => session[l] = view[t].info /\ link[l] = "up"
    BY OneHolder DEF Calm, Settled, TabShowsItsClient
  <2>2. CASE l = k
    <3>1. t \in Holders(k) /\ l # None
      BY <2>2, TabsAssumption DEF Holders
    <3>2. view[t] \in View /\ view'[t] = IF t \in ts THEN F[view[t]] ELSE view[t]
      BY <1>0, <1>5
    <3>3. view'[t].connected = view[t].connected /\ ~view'[t].active
      BY <1>4, <2>1, <2>2, <3>1, <3>2
    <3> QED BY ONLY <2>1, <3>1, <3>3
  <2>3. CASE l # k
    <3>1. view'[t] = view[t]
      BY <1>0, <1>3, <1>5, <2>3
    <3> QED BY <1>1, <2>1, <2>3, <3>1
  <2> QED BY <2>2, <2>3
<1> QED BY <1>5, <1>6, <1>7, <1>8, <1>9 DEF Settled

LEMMA EndCalm ==
  ASSUME Calm, LinksOK', NEW k \in ClientId, Exits(k) \/ SessionClosed(k), ~disturbed'
  PROVE  Settled'
<1>0. /\ view \in [TabId -> View] /\ comp \in View /\ Open \subseteq TabId
      /\ active # None => active \in Open /\ comp = view[active]
  BY CalmState
<1>1. /\ Ended(k)
      /\ UNCHANGED <<tabs, active, call, terminals, link, target, previous, recovering>>
  BY DEF Exits, SessionClosed
<1>2. CASE Exits(k)
  <2> DEFINE ts == Holders(k)
             face == active \in Holders(k)
  <2>1. /\ view' = [t \in TabId |-> IF t \in ts THEN Hidden(view[t]) ELSE view[t]]
        /\ comp' = IF face THEN Hidden(comp) ELSE comp
    BY <1>2 DEF Exits, Update
  <2>2. ts \subseteq Holders(k) /\ face \in BOOLEAN /\ (face <=> active \in ts)
        /\ \A t \in Holders(k) \ ts : view[t].info # session[k]
    OBVIOUS
  <2> HIDE DEF ts, face
  <2> QED BY <1>1, <2>1, <2>2, EndShown
<1>3. CASE SessionClosed(k)
  <2> DEFINE ts == {t \in Holders(k) : view[t].info = session[k]}
             face == comp.info = session[k]
  <2>1. /\ view' = [t \in TabId |-> IF t \in ts THEN Hidden(view[t]) ELSE view[t]]
        /\ comp' = IF face THEN Hidden(comp) ELSE comp
    BY <1>3 DEF SessionClosed, Update
  <2>2. face => active \in Holders(k)
    BY <1>3 DEF SessionClosed, Note
  <2>3. None \notin Holders(k)
    BY <1>0, TabsAssumption DEF Holders
  <2>4. ts \subseteq Holders(k) /\ face \in BOOLEAN /\ (face <=> active \in ts)
        /\ \A t \in Holders(k) \ ts : view[t].info # session[k]
    BY <1>0, <2>2, <2>3
  <2> HIDE DEF ts, face
  <2> QED BY <1>1, <2>1, <2>4, EndShown
<1> QED BY <1>2, <1>3

\* The client, once it has left, has no session; its tab shows none any more.
LEMMA LeftCalm ==
  ASSUME Calm, LinksOK', NEW k \in ClientId, Left(k)
  PROVE  Settled'
<1>1. /\ link[k] = "up" /\ leaving[k] # None /\ recovering[k] = None
      /\ UNCHANGED <<tabs, view, active, comp, call, terminals, link, target, previous,
                     recovering, disturbed>>
  BY DEF Left, ui
<1>2. leaving[k] = session[k] /\ \A t \in Holders(k) : ~view[t].active
  BY <1>1 DEF Calm, Settled, SessionsPlaced, SessionPlaced
<1>3. \A l \in ClientId :
        /\ session'[l] = IF l = k THEN None ELSE session[l]
        /\ leaving'[l] = IF l = k THEN None ELSE leaving[l]
  BY <1>2, CalmState DEF Left, OfClients
<1>4. /\ ClientsPlaced' /\ NothingIsLeftBehind' /\ Open' = Open
      /\ \A l \in ClientId : Holders(l)' = Holders(l)
  BY <1>1, PlacesKept
<1>5. SessionsPlaced'
  BY <1>1, <1>3, <1>4 DEF Calm, Settled, SessionsPlaced, SessionPlaced
<1>6. CallPlaced'
  <2>1. call.client # None => call.client \in ClientId
    BY CalmState DEF Calls
  <2> QED BY <1>1, <1>3, <2>1 DEF Calm, Settled, CallPlaced, Busy
<1>7. ComponentShowsActiveTab'
  BY <1>1 DEF Calm, Settled, ComponentShowsActiveTab
<1>8. TabShowsItsClient'
  <2> SUFFICES ASSUME NEW t \in Open, NEW l, l = view[t].client
               PROVE  l # None => (view[t].active => session'[l] = view[t].info)
    BY <1>1, <1>4 DEF Calm, Settled, TabShowsItsClient
  <2>1. l # None => l \in ClientId /\ t \in Holders(l)
    BY OneHolder
  <2> QED BY <1>2, <1>3, <2>1 DEF Calm, Settled, TabShowsItsClient
<1> QED BY <1>4, <1>5, <1>6, <1>7, <1>8 DEF Settled

-----------------------------------------------------------------------------
(* The calls. *)

\* Where the calls are made: the component has a client only in a tab.
LEMMA InView ==
  ASSUME Calm, comp.client # None
  PROVE  /\ active \in Open /\ active # None /\ comp = view[active]
         /\ comp.client \in ClientId /\ Holders(comp.client) = {active}
         /\ target[comp.client] = active
         /\ comp.connected <=> link[comp.client] = "up" /\ recovering[comp.client] = None
         /\ comp.active => session[comp.client] = comp.info /\ link[comp.client] = "up"
<1>1. active \in Open /\ active # None /\ comp = view[active]
  BY CalmState, BlankView
<1> QED BY <1>1, OneHolder DEF Calm, Settled, TabShowsItsClient

\* leave() and kill() hide the session of the tab in view.
LEMMA HideCalm ==
  ASSUME Calm, LinksOK', Leave \/ Kill, ~disturbed'
  PROVE  Settled'
<1>0. /\ view \in [TabId -> View] /\ comp \in View /\ Open \subseteq TabId
      /\ active # None => active \in Open /\ comp = view[active]
      /\ active = None => comp = Blank
  BY CalmState
<1>1. /\ Sync(Hidden(comp)) /\ comp.info # None
      /\ UNCHANGED <<tabs, active, call, terminals, link, target, session, previous,
                     recovering>>
  BY DEF Leave, Kill, clients
<1>2. active # None
  BY <1>0, <1>1 DEF Blank
<1>3. /\ comp' = Hidden(comp) /\ view' = [view EXCEPT ![active] = Hidden(comp)]
  BY <1>1, <1>2 DEF Sync, Synced
<1>4. /\ Hidden(comp).client = comp.client /\ Hidden(comp).terminal = comp.terminal
      /\ Hidden(comp).connected = comp.connected /\ ~Hidden(comp).active
  BY <1>0 DEF Hidden, View
<1>5. \A t \in TabId : /\ view'[t].client = view[t].client
                       /\ view'[t].terminal = view[t].terminal
                       /\ view'[t].connected = view[t].connected
                       /\ t = active => ~view'[t].active
                       /\ t # active => view'[t] = view[t]
  BY <1>0, <1>2, <1>3, <1>4
<1> HIDE DEF Hidden
<1>6. /\ ClientsPlaced' /\ NothingIsLeftBehind' /\ Open' = Open
      /\ \A l \in ClientId : Holders(l)' = Holders(l)
  BY <1>1, <1>5, PlacesKept
<1>7. \A l \in ClientId :
        \/ leaving'[l] = leaving[l]
        \/ /\ leaving'[l] = session[l] /\ link[l] = "up" /\ recovering[l] = None
           /\ Holders(l) = {active}
  <2>1. CASE UNCHANGED leaving
    BY <2>1
  <2>2. CASE Leave /\ leaving' # leaving
    <3>1. /\ comp.client # None /\ recovering[comp.client] = None
          /\ link[comp.client] = "up"
          /\ leaving' = [leaving EXCEPT ![comp.client] = session[comp.client]]
      BY <2>2 DEF Leave, Note
    <3>2. comp.client \in ClientId /\ Holders(comp.client) = {active}
      BY <3>1, InView
    <3> QED BY <3>1, <3>2, CalmState DEF OfClients
  <2> QED BY <2>1, <2>2 DEF Kill, clients
<1>8. SessionsPlaced'
  <2> SUFFICES ASSUME NEW l \in ClientId
               PROVE  SessionPlaced(l)'
    BY DEF SessionsPlaced
  <2>h. Holders(l)' = Holders(l) /\ UNCHANGED <<link, session, previous, recovering>>
    BY <1>1, <1>6
  <2>1. \A t \in Holders(l) : /\ view'[t].terminal = view[t].terminal
                              /\ view'[t].active => view[t].active
                              /\ t = active => ~view'[t].active
    BY <1>0, <1>5 DEF Holders
  <2>2. SessionPlaced(l)
    BY DEF Calm, Settled, SessionsPlaced
  <2>3. CASE leaving'[l] = leaving[l]
    BY ONLY <2>h, <2>1, <2>2, <2>3 DEF SessionPlaced
  <2>4. CASE /\ leaving'[l] = session[l] /\ link[l] = "up" /\ recovering[l] = None
             /\ Holders(l) = {active}
    BY ONLY <2>h, <2>1, <2>2, <2>4 DEF SessionPlaced
  <2> QED BY <1>7, <2>3, <2>4
<1>9. CallPlaced'
  BY <1>1, <1>2, <1>3, <1>4 DEF Calm, Settled, CallPlaced, Busy
<1>10. ComponentShowsActiveTab'
  BY <1>0, <1>1, <1>2, <1>3 DEF ComponentShowsActiveTab
<1>11. TabShowsItsClient'
  <2> SUFFICES ASSUME NEW t \in Open, NEW l, l = view[t].client
               PROVE  /\ l = None => ~view'[t].connected /\ ~view'[t].active
                      /\ l # None =>
                           /\ view'[t].connected
                                <=> link[l] = "up" /\ recovering[l] = None
                           /\ view'[t].active => session[l] = view'[t].info
                                                   /\ link[l] = "up"
    BY <1>0, <1>1, <1>5, <1>6 DEF TabShowsItsClient
  <2>1. /\ l = None => ~view[t].connected /\ ~view[t].active
        /\ l # None =>
             /\ view[t].connected <=> link[l] = "up" /\ recovering[l] = None
             /\ view[t].active => session[l] = view[t].info /\ link[l] = "up"
    BY DEF Calm, Settled, TabShowsItsClient
  <2>2. t \in TabId
    BY <1>0
  <2>3. view'[t].connected = view[t].connected /\ (~view'[t].active \/ view'[t] = view[t])
    BY <1>5, <2>2
  <2> QED BY ONLY <2>1, <2>3
<1> QED BY <1>6, <1>8, <1>9, <1>10, <1>11 DEF Settled

\* What AskClient makes of the tab in view, once it has a terminal.
LEMMA AskedInView ==
  ASSUME Calm, NEW kind, NEW s, AskClient(kind, s),
         comp.client # None => session[comp.client] # None
                                 \/ recovering[comp.client] = None
  PROVE  \/ call' = Idle
         \/ /\ call'.client = comp.client /\ comp.client # None
            /\ call'.client \in ClientId /\ call' # Idle
            /\ session[comp.client] = None /\ recovering[comp.client] = None
            /\ link[comp.client] = "up" /\ active # None
<1>1. CASE /\ comp.client # None /\ link[comp.client] = "up"
           /\ session[comp.client] = None
  <2>1. call' = [kind |-> kind, client |-> comp.client, session |-> s]
    BY <1>1 DEF AskClient
  <2>2. call' # Idle
    BY <1>1, <2>1 DEF Idle
  <2> QED BY <1>1, <2>1, <2>2, InView
<1> QED BY <1>1 DEF AskClient

LEMMA StartCalm ==
  ASSUME Calm, LinksOK', NEW kind \in {"spawn", "join"}, NEW s, Start(kind, s)
  PROVE  Settled'
<1>1. /\ ~Busy /\ comp.client # None /\ comp.connected
      /\ UNCHANGED <<tabs, view, active, comp, terminals, link, target, session,
                     previous, recovering, leaving, disturbed>>
  BY DEF Start, ui, clients
<1>2. active # None /\ recovering[comp.client] = None
  BY <1>1, InView
<1>3. /\ ClientsPlaced' /\ NothingIsLeftBehind' /\ Open' = Open
      /\ \A l \in ClientId : Holders(l)' = Holders(l)
  BY <1>1, PlacesKept
<1>4. SessionsPlaced'
  BY <1>1, <1>3 DEF Calm, Settled, SessionsPlaced, SessionPlaced
<1>5. CallPlaced'
  <2>1. CASE comp.terminal # None
    <3>1. AskClient(kind, s)
      BY <2>1 DEF Start
    <3> QED BY <1>1, <1>2, <2>1, <3>1, AskedInView DEF CallPlaced, Busy, Idle
  <2>2. CASE comp.terminal = None
    <3>1. call' = [kind |-> kind, client |-> None, session |-> s]
      BY <2>2 DEF Start
    <3> QED BY <1>1, <1>2, <2>2, <3>1 DEF CallPlaced, Busy, Idle
  <2> QED BY <2>1, <2>2
<1>6. ComponentShowsActiveTab'
  BY <1>1 DEF Calm, Settled, ComponentShowsActiveTab
<1>7. TabShowsItsClient'
  BY <1>1, <1>3 DEF Calm, Settled, TabShowsItsClient
<1> QED BY <1>3, <1>4, <1>5, <1>6, <1>7 DEF Settled

LEMMA RefusedCalm ==
  ASSUME Calm, LinksOK', Refused
  PROVE  Settled'
<1>1. /\ call' = Idle
      /\ UNCHANGED <<tabs, view, active, comp, terminals, link, target, session,
                     previous, recovering, leaving, disturbed>>
  BY DEF Refused, ui, clients
<1>2. /\ ClientsPlaced' /\ NothingIsLeftBehind' /\ Open' = Open
      /\ \A l \in ClientId : Holders(l)' = Holders(l)
  BY <1>1, PlacesKept
<1>3. SessionsPlaced'
  BY <1>1, <1>2 DEF Calm, Settled, SessionsPlaced, SessionPlaced
<1>4. CallPlaced'
  BY <1>1 DEF Calm, Settled, CallPlaced, Busy, Idle
<1>5. ComponentShowsActiveTab'
  BY <1>1 DEF Calm, Settled, ComponentShowsActiveTab
<1>6. TabShowsItsClient'
  BY <1>1, <1>2 DEF Calm, Settled, TabShowsItsClient
<1> QED BY <1>2, <1>3, <1>4, <1>5, <1>6 DEF Settled

\* The call that waits for a terminal gets it in the tab in view, which has none.
LEMMA TerminalReadyCalm ==
  ASSUME Calm, LinksOK', NEW x \in TerminalId, TerminalReady(x)
  PROVE  Settled'
<1> DEFINE r == [comp EXCEPT !.terminal = x]
<1>0. /\ view \in [TabId -> View] /\ comp \in View /\ Open \subseteq TabId
      /\ active # None => active \in Open /\ comp = view[active]
      /\ x # None
  BY CalmState, TabsAssumption
<1>1. /\ Busy /\ call.client = None /\ x \notin terminals
      /\ terminals' = terminals \cup {x}
      /\ Sync(r) /\ AskClient(call.kind, call.session)
      /\ UNCHANGED <<tabs, active, link, target, session, previous, recovering, leaving,
                     disturbed>>
  BY DEF TerminalReady, clients
<1>2. active # None /\ active \in Open /\ comp = view[active] /\ comp.terminal = None
  BY <1>0, <1>1 DEF Calm, Settled, CallPlaced
<1>3. comp' = r /\ view' = [view EXCEPT ![active] = r]
  BY <1>1, <1>2 DEF Sync, Synced
<1>4. /\ r.terminal = x /\ r.client = comp.client /\ r.connected = comp.connected
      /\ r.active = comp.active /\ r.info = comp.info
  BY <1>0 DEF View
<1> HIDE DEF r
<1>5. /\ \A t \in TabId : /\ view'[t].client = view[t].client
                          /\ view'[t].connected = view[t].connected
                          /\ view'[t].active = view[t].active
                          /\ view'[t].info = view[t].info
                          /\ view'[t].terminal = IF t = active THEN x
                                                 ELSE view[t].terminal
  BY <1>0, <1>2, <1>3, <1>4
<1>6. Open' = Open /\ \A l \in ClientId : Holders(l)' = Holders(l)
  BY <1>0, <1>1, <1>5, OpenSame DEF Holders
<1>7. ClientsPlaced'
  BY <1>0, <1>1, <1>5, <1>6 DEF Calm, Settled, ClientsPlaced
<1>8. SessionsPlaced'
  <2> SUFFICES ASSUME NEW l \in ClientId
               PROVE  /\ leaving[l] # None =>
                           /\ leaving[l] = session[l]
                           /\ \A t \in Holders(l) : ~view'[t].active
                      /\ session[l] # None \/ previous[l] # None
                             \/ recovering[l] # None
                           => \A t \in Holders(l) : view'[t].terminal # None
    BY <1>1, <1>6 DEF Calm, Settled, SessionsPlaced, SessionPlaced
  <2>1. \A t \in Holders(l) : /\ view'[t].active = view[t].active
                              /\ view[t].terminal # None => view'[t].terminal # None
    BY <1>0, <1>5 DEF Holders
  <2> QED BY <2>1 DEF Calm, Settled, SessionsPlaced, SessionPlaced
<1>9. CallPlaced'
  <2>1. comp.client # None => recovering[comp.client] = None
    BY <1>2, InView DEF Calm, Settled, SessionsPlaced, SessionPlaced
  <2> QED BY <1>0, <1>1, <1>2, <1>3, <1>4, <2>1, AskedInView DEF CallPlaced, Busy, Idle
<1>10. ComponentShowsActiveTab'
  BY <1>0, <1>1, <1>2, <1>3 DEF ComponentShowsActiveTab
<1>11. TabShowsItsClient'
  BY <1>0, <1>1, <1>5, <1>6 DEF Calm, Settled, TabShowsItsClient
<1>12. NothingIsLeftBehind'
  <2>1. terminals = {view[t].terminal : t \in Open} \ {None}
        /\ \A l \in ClientId : link[l] \notin {"closed", "closing"} => Holders(l) # {}
    BY DEF Calm, Settled, NothingIsLeftBehind
  <2>2. ASSUME NEW y
        PROVE  y \in {view'[t].terminal : t \in Open} \ {None} <=> y \in terminals'
    <3>1. ASSUME NEW t \in Open, y = view'[t].terminal, y # None
          PROVE  y \in terminals'
      <4>1. t = active \/ y = view[t].terminal
        BY <1>0, <1>5, <3>1
      <4> QED BY <1>0, <1>1, <1>2, <1>5, <2>1, <3>1, <4>1
    <3>2. ASSUME y \in terminals
          PROVE  \E t \in Open : y = view'[t].terminal /\ y # None
      <4>1. PICK t \in Open : y = view[t].terminal /\ y # None
        BY <2>1, <3>2
      <4>2. t # active /\ t \in TabId
        BY <1>0, <1>2, <4>1
      <4> QED BY <1>5, <4>1, <4>2
    <3>3. x = view'[active].terminal
      BY <1>0, <1>2, <1>5
    <3> QED BY <1>0, <1>1, <1>2, <3>1, <3>2, <3>3
  <2>3. terminals' = {view'[t].terminal : t \in Open} \ {None}
    BY <2>2
  <2> QED BY <1>1, <1>6, <2>1, <2>3 DEF NothingIsLeftBehind
<1> QED BY <1>7, <1>8, <1>9, <1>10, <1>11, <1>12 DEF Settled

\* An answer finds its client in the tab in view.
LEMMA GrantedCalm ==
  ASSUME Calm, LinksOK', NEW s \in SessionId, Granted(s)
  PROVE  Settled'
<1> DEFINE k == call.client
           ts == IF call.kind = "spawn" THEN Holders(k)
                 ELSE IF target[k] # None THEN Target(k) ELSE Holders(k)
           before == [t \in TabId |-> IF t \in ts THEN Shown(view[t], s)
                                                  ELSE view[t]]
           r == Shown(comp, s)
<1>0. /\ view \in [TabId -> View] /\ comp \in View /\ Open \subseteq TabId
      /\ s # None
  BY CalmState, TabsAssumption
<1>1. /\ k # None /\ link[k] = "up" /\ k = comp.client
      /\ session[k] = None /\ recovering[k] = None /\ comp.terminal # None
  BY DEF Granted, Calm, Settled, CallPlaced
<1>2. /\ active \in Open /\ active # None /\ comp = view[active] /\ k \in ClientId
      /\ Holders(k) = {active} /\ target[k] = active
  BY <1>1, InView
<1>3. ts = {active}
  BY <1>2 DEF Target
<1>4. /\ comp' = r /\ view' = [before EXCEPT ![active] = r]
      /\ call' = Idle
      /\ session' = [session EXCEPT ![k] = s]
      /\ previous' \in {previous, [previous EXCEPT ![k] = None]}
      /\ UNCHANGED <<tabs, active, terminals, link, target, recovering, leaving,
                     disturbed>>
  BY <1>2 DEF Granted, Synced
<1>5. view' = [view EXCEPT ![active] = r]
  BY <1>0, <1>3, <1>4
<1>6. /\ r.client = comp.client /\ r.terminal = comp.terminal
      /\ r.connected = comp.connected /\ r.info = s
  BY <1>0 DEF Shown, View
<1> HIDE DEF r, before, ts
<1>7. \A t \in TabId : /\ view'[t].client = view[t].client
                       /\ view'[t].terminal = view[t].terminal
                       /\ view'[t].connected = view[t].connected
                       /\ view'[t] = IF t = active THEN r ELSE view[t]
  BY <1>0, <1>2, <1>5, <1>6
<1>8. /\ ClientsPlaced' /\ NothingIsLeftBehind' /\ Open' = Open
      /\ \A l \in ClientId : Holders(l)' = Holders(l)
  BY <1>4, <1>7, PlacesKept
<1>9. \A l \in ClientId : /\ session'[l] = IF l = k THEN s ELSE session[l]
                          /\ previous'[l] \in {None, previous[l]}
  BY <1>4, CalmState DEF OfClients
<1> HIDE DEF k
<1>10. SessionsPlaced'
  <2> SUFFICES ASSUME NEW l \in ClientId
               PROVE  SessionPlaced(l)'
    BY DEF SessionsPlaced
  <2>h. Holders(l)' = Holders(l) /\ UNCHANGED <<link, recovering, leaving>>
    BY <1>4, <1>8
  <2>1. \A t \in Holders(l) : /\ view'[t].terminal = view[t].terminal
                              /\ t # active => view'[t] = view[t]
    BY <1>0, <1>7 DEF Holders
  <2>2. SessionPlaced(l)
    BY DEF Calm, Settled, SessionsPlaced
  <2>3. CASE l = k
    <3>1. /\ link[l] = "up" /\ recovering[l] = None /\ leaving[l] = None
          /\ Holders(l) = {active} /\ view[active].terminal # None
      BY <1>1, <1>2, <2>2, <2>3 DEF SessionPlaced
    <3> QED BY ONLY <2>h, <2>1, <3>1 DEF SessionPlaced
  <2>4. CASE l # k
    <3>1. session'[l] = session[l] /\ previous'[l] \in {None, previous[l]}
      BY <1>9, <2>4
    <3>2. \A t \in Holders(l) : view'[t] = view[t]
      BY <1>0, <1>2, <1>7, <2>4 DEF Holders
    <3> QED BY ONLY <2>h, <2>2, <3>1, <3>2 DEF SessionPlaced
  <2> QED BY <2>3, <2>4
<1>11. CallPlaced'
  BY <1>2, <1>4 DEF CallPlaced, Busy, Idle
<1>12. ComponentShowsActiveTab'
  BY <1>0, <1>2, <1>4, <1>5 DEF ComponentShowsActiveTab
<1>13. TabShowsItsClient'
  <2> SUFFICES ASSUME NEW t \in Open, NEW l, l = view[t].client
               PROVE  /\ l = None => ~view'[t].connected /\ ~view'[t].active
                      /\ l # None =>
                           /\ view'[t].connected
                                <=> link[l] = "up" /\ recovering[l] = None
                           /\ view'[t].active => session'[l] = view'[t].info
                                                   /\ link[l] = "up"
    BY <1>0, <1>4, <1>7, <1>8 DEF TabShowsItsClient
  <2>1. /\ l = None => ~view[t].connected /\ ~view[t].active
        /\ l # None =>
             /\ l \in ClientId
             /\ view[t].connected <=> link[l] = "up" /\ recovering[l] = None
             /\ view[t].active => session[l] = view[t].info /\ link[l] = "up"
    BY OneHolder DEF Calm, Settled, TabShowsItsClient
  <2>2. t \in TabId
    BY <1>0
  <2>3. CASE t = active
    <3>1. l = k /\ view'[t].connected = view[t].connected /\ view'[t].info = s
      BY <1>1, <1>2, <1>6, <1>7, <2>2, <2>3
    <3> QED BY <1>1, <1>9, <2>1, <3>1
  <2>4. CASE t # active
    <3>1. l # k /\ view'[t] = view[t]
      BY <1>2, <1>7, <2>2, <2>4 DEF Holders
    <3> QED BY <1>9, <2>1, <3>1
  <2> QED BY <2>3, <2>4
<1> QED BY <1>8, <1>10, <1>11, <1>12, <1>13 DEF Settled

\* disconnect() takes the client from the tab in view; all it may do is close.
LEMMA DisconnectCalm ==
  ASSUME Calm, LinksOK', Disconnect
  PROVE  Settled'
<1> DEFINE r == [comp EXCEPT !.client = None, !.connected = FALSE, !.active = FALSE,
                             !.info = None]
<1>k. PICK k : k = comp.client
  OBVIOUS
<1>0. /\ view \in [TabId -> View] /\ comp \in View /\ Open \subseteq TabId
  BY CalmState
<1>1. /\ k # None /\ Disconnecting(k) /\ Sync(r)
      /\ UNCHANGED <<tabs, active, call, terminals, target, session, previous,
                     recovering, leaving, disturbed>>
  BY <1>k DEF Disconnect
<1>2. /\ active \in Open /\ active # None /\ comp = view[active] /\ k \in ClientId
      /\ Holders(k) = {active}
  BY <1>k, <1>1, InView
<1>3. comp' = r /\ view' = [view EXCEPT ![active] = r]
  BY <1>1, <1>2 DEF Sync, Synced
<1>4. /\ r.client = None /\ r.terminal = comp.terminal
      /\ ~r.connected /\ ~r.active
  BY <1>0 DEF View
<1>5. /\ \A l \in ClientId : l # k => link'[l] = link[l]
      /\ link'[k] \in {"closed", "closing"}
      /\ link[k] # "closing" /\ (link[k] = "up" => link'[k] = "closing")
  <2>1. link[k] # "closing"
    BY <1>2 DEF Calm, Settled, ClientsPlaced
  <2> QED BY <1>1, <1>2, <2>1, CalmState DEF Disconnecting
<1> HIDE DEF r
<1>6. \A t \in TabId : /\ view'[t].terminal = view[t].terminal
                       /\ view'[t] = IF t = active THEN r ELSE view[t]
  BY <1>0, <1>2, <1>3, <1>4
<1>7. /\ Open' = Open /\ Holders(k)' = {}
      /\ \A l \in ClientId : l # k => Holders(l)' = Holders(l)
  <2>1. Open' = Open
    BY <1>1, OpenSame
  <2>2. \A t \in Open : view'[t] = IF t = active THEN r ELSE view[t]
    BY <1>0, <1>6
  <2>3. \A t \in Open : view'[t].client # k
    BY <1>1, <1>2, <1>4, <2>2 DEF Holders
  <2>4. ASSUME NEW l \in ClientId, l # k
        PROVE  Holders(l)' = Holders(l)
    BY <1>2, <1>k, <1>4, <2>1, <2>2, <2>4, TabsAssumption DEF Holders
  <2> QED BY <2>1, <2>3, <2>4 DEF Holders
<1>8. ClientsPlaced'
  <2>1. ASSUME NEW l \in ClientId
        PROVE  /\ link'[l] # "closed" => target[l] # None /\ link[l] # "closed"
               /\ link'[l] \in Living => Holders(l)' = {target[l]}
               /\ link'[l] = "closing" => Holders(l)' = {}
    <3>1. /\ link[l] # "closed" => target[l] # None
          /\ link[l] \in Living => Holders(l) = {target[l]}
          /\ link[l] = "closing" => Holders(l) = {}
      BY DEF Calm, Settled, ClientsPlaced
    <3>2. CASE l = k
      <4>1. link[k] = "closed" => link'[k] = "closed"
        BY <1>1, <1>2, CalmState DEF Disconnecting
      <4> QED BY <1>5, <1>7, <3>1, <3>2, <4>1 DEF Living
    <3>3. CASE l # k
      BY <1>5, <1>7, <3>1, <3>3
    <3> QED BY <3>2, <3>3
  <2>2. \A l, m \in ClientId :
          link'[l] # "closed" /\ link'[m] # "closed" /\ target[l] = target[m]
            => l = m
    BY <2>1 DEF Calm, Settled, ClientsPlaced
  <2>3. \A t \in Open : view'[t].client # None => target[view'[t].client] = t
    BY <1>0, <1>4, <1>6 DEF Calm, Settled, ClientsPlaced
  <2> QED BY <1>1, <1>7, <2>1, <2>2, <2>3 DEF ClientsPlaced
<1>9. SessionsPlaced'
  <2> SUFFICES ASSUME NEW l \in ClientId
               PROVE  SessionPlaced(l)'
    BY DEF SessionsPlaced
  <2>1. SessionPlaced(l)
    BY DEF Calm, Settled, SessionsPlaced
  <2>2. CASE l = k
    <3>1. Holders(l)' = {} /\ (link[l] \in {"up", "closing"} => link'[l] = "closing")
      BY <1>5, <1>7, <2>2
    <3> QED BY ONLY <1>1, <2>1, <3>1 DEF SessionPlaced
  <2>3. CASE l # k
    <3>1. Holders(l)' = Holders(l) /\ link'[l] = link[l]
      BY <1>5, <1>7, <2>3
    <3>2. \A t \in Holders(l) : view'[t] = view[t]
      BY <1>0, <1>2, <1>6, <1>k, <2>3 DEF Holders
    <3> QED BY ONLY <1>1, <2>1, <3>1, <3>2 DEF SessionPlaced
  <2> QED BY <2>2, <2>3
<1>10. CallPlaced'
  <2>1. call.client # None => call.client \in ClientId
    BY CalmState DEF Calls
  <2> QED BY <1>1, <1>2, <1>3, <1>4, <1>5, <1>k, <2>1
        DEF Calm, Settled, CallPlaced, Busy
<1>11. ComponentShowsActiveTab'
  BY <1>0, <1>1, <1>2, <1>3 DEF ComponentShowsActiveTab
<1>12. TabShowsItsClient'
  <2> SUFFICES ASSUME NEW t \in Open, NEW l, l = view'[t].client
               PROVE  /\ l = None => ~view'[t].connected /\ ~view'[t].active
                      /\ l # None =>
                           /\ view'[t].connected
                                <=> link'[l] = "up" /\ recovering[l] = None
                           /\ view'[t].active => session[l] = view'[t].info
                                                   /\ link'[l] = "up"
    BY <1>1, <1>7 DEF TabShowsItsClient
  <2>1. view'[t] = IF t = active THEN r ELSE view[t]
    BY <1>0, <1>6
  <2>2. CASE t = active
    BY <1>4, <2>1, <2>2
  <2>3. CASE t # active
    <3>1. /\ l = None => ~view[t].connected /\ ~view[t].active
          /\ l # None =>
               /\ l \in ClientId
               /\ view[t].connected <=> link[l] = "up" /\ recovering[l] = None
               /\ view[t].active => session[l] = view[t].info /\ link[l] = "up"
      BY <2>1, <2>3, OneHolder DEF Calm, Settled, TabShowsItsClient
    <3>2. l # k
      BY <1>2, <2>1, <2>3 DEF Holders
    <3> QED BY <1>5, <2>1, <2>3, <3>1, <3>2
  <2> QED BY <2>2, <2>3
<1>13. NothingIsLeftBehind'
  <2>1. \A l \in ClientId : link'[l] \notin {"closed", "closing"} => Holders(l)' # {}
    BY <1>5, <1>7 DEF Calm, Settled, NothingIsLeftBehind
  <2>2. {view'[t].terminal : t \in Open} = {view[t].terminal : t \in Open}
    BY <1>0, <1>6
  <2>3. terminals = {view[t].terminal : t \in Open} \ {None}
    BY DEF Calm, Settled, NothingIsLeftBehind
  <2> QED BY <1>1, <1>7, <2>1, <2>2, <2>3 DEF NothingIsLeftBehind
<1> QED BY <1>8, <1>9, <1>10, <1>11, <1>12, <1>13 DEF Settled


\* connect() gives the tab in view a client, in place of one that will not call back.
LEMMA ConnectCalm ==
  ASSUME Calm, LinksOK', NEW k \in ClientId, Connect(k), ~disturbed'
  PROVE  Settled'
<1>0. /\ view \in [TabId -> View] /\ comp \in View /\ Open \subseteq TabId
      /\ \A r \in View : /\ [r EXCEPT !.client = k].client = k
                         /\ [r EXCEPT !.client = k].terminal = r.terminal
                         /\ [r EXCEPT !.client = k].connected = r.connected
                         /\ [r EXCEPT !.client = k].active = r.active
                         /\ [r EXCEPT !.client = k].info = r.info
  BY CalmState DEF View
<1>1. /\ link[k] = "closed" /\ Holders(k) = {} /\ k # call.client /\ k # None
      /\ comp' = [comp EXCEPT !.client = k]
      /\ active # None /\ \A o \in ClientId : target[o] = active => link[o] = "closed"
      /\ UNCHANGED <<tabs, active, call, terminals, recovering>>
  BY TabsAssumption DEF Connect, FreeClient, Note
<1>2. /\ active \in Open /\ comp = view[active]
      /\ view' = [view EXCEPT ![active] = [view[active] EXCEPT !.client = k]]
  BY <1>1, CalmState DEF Connect, Synced
<1>3. \A l \in ClientId :
        /\ link'[l] = IF l = k THEN "dialing" ELSE link[l]
        /\ target'[l] = IF l = k THEN active ELSE target[l]
        /\ session'[l] = IF l = k THEN None ELSE session[l]
        /\ previous'[l] = IF l = k THEN None ELSE previous[l]
        /\ leaving'[l] = IF l = k THEN None ELSE leaving[l]
  BY CalmState DEF Connect, OfClients
<1>4. \A t \in Open : /\ view'[t].client = IF t = active THEN k ELSE view[t].client
                      /\ view'[t].terminal = view[t].terminal
                      /\ view'[t].connected = view[t].connected
                      /\ view'[t].active = view[t].active
                      /\ view'[t].info = view[t].info
                      /\ view[t].client # k
  BY <1>0, <1>1, <1>2 DEF Holders
<1>5. Open' = Open
  BY <1>1, OpenSame
<1>6. /\ Holders(k)' = {active}
      /\ \A l \in ClientId : /\ l # k => Holders(l)' = Holders(l) \ {active}
                             /\ link[l] \in Living => active \notin Holders(l)
  <2>1. Holders(k)' = {active}
    BY <1>2, <1>4, <1>5 DEF Holders
  <2>2. ASSUME NEW l \in ClientId, l # k
        PROVE  Holders(l)' = Holders(l) \ {active}
    BY <1>2, <1>4, <1>5, <2>2 DEF Holders
  <2>3. ASSUME NEW l \in ClientId, link[l] \in Living
        PROVE  active \notin Holders(l)
    BY <1>1, <2>3 DEF Calm, Settled, ClientsPlaced, Living
  <2> QED BY <2>1, <2>2, <2>3
<1>7. ClientsPlaced'
  <2>1. ASSUME NEW l \in ClientId
        PROVE  /\ link'[l] # "closed" => target'[l] # None
               /\ link'[l] \in Living => Holders(l)' = {target'[l]}
               /\ link'[l] = "closing" => Holders(l)' = {}
    <3>1. CASE l = k
      BY <1>1, <1>3, <1>6, <3>1
    <3>2. CASE l # k
      <4>1. /\ link[l] # "closed" => target[l] # None
            /\ link[l] \in Living => Holders(l) = {target[l]}
            /\ link[l] = "closing" => Holders(l) = {}
        BY DEF Calm, Settled, ClientsPlaced
      <4>2. link[l] \in Living => Holders(l)' = Holders(l)
        BY <1>6, <3>2
      <4> QED BY <1>3, <1>6, <3>2, <4>1, <4>2
    <3> QED BY <3>1, <3>2
  <2>2. \A l, m \in ClientId :
          link'[l] # "closed" /\ link'[m] # "closed" /\ target'[l] = target'[m]
            => l = m
    BY <1>1, <1>3 DEF Calm, Settled, ClientsPlaced
  <2>3. ASSUME NEW t \in Open, view'[t].client # None
        PROVE  target'[view'[t].client] = t
    <3>1. CASE t = active
      BY <1>3, <1>4, <3>1
    <3>2. CASE t # active
      BY <1>3, <1>4, <2>3, <3>2, OneHolder
    <3> QED BY <3>1, <3>2
  <2> QED BY <1>5, <2>1, <2>2, <2>3 DEF ClientsPlaced
<1>8. SessionsPlaced'
  <2> SUFFICES ASSUME NEW l \in ClientId
               PROVE  SessionPlaced(l)'
    BY DEF SessionsPlaced
  <2>1. SessionPlaced(l)
    BY DEF Calm, Settled, SessionsPlaced
  <2>2. CASE l = k
    <3>1. link[l] = "closed"
      BY <1>1, <2>2
    <3>2. session'[l] = None /\ previous'[l] = None /\ leaving'[l] = None
      BY <1>3, <2>2
    <3> QED BY ONLY <1>1, <2>1, <3>1, <3>2 DEF SessionPlaced
  <2>3. CASE l # k
    <3>1. /\ session'[l] = session[l] /\ previous'[l] = previous[l]
          /\ leaving'[l] = leaving[l] /\ link'[l] = link[l]
      BY <1>3, <2>3
    <3>2. \A t \in Holders(l)' : /\ t \in Holders(l)
                                 /\ view'[t].terminal = view[t].terminal
                                 /\ view'[t].active = view[t].active
      BY <1>4, <1>6, <2>3 DEF Holders
    <3> QED BY ONLY <1>1, <2>1, <3>1, <3>2 DEF SessionPlaced
  <2> QED BY <2>2, <2>3
<1>9. CallPlaced'
  <2>1. call.client # None => /\ call.client \in ClientId /\ call.client # k
                              /\ link[call.client] # "up"
    <3>1. comp.client # None => link[comp.client] \in {"retrying", "closed"}
      BY DEF Connect
    <3> QED BY <1>1, <3>1, CalmState DEF Calls, Calm, Settled, CallPlaced
  <2>2. comp'.terminal = comp.terminal
    BY <1>0, <1>1
  <2> QED BY <1>1, <1>3, <2>1, <2>2 DEF Calm, Settled, CallPlaced, Busy
<1>10. ComponentShowsActiveTab'
  BY <1>0, <1>1, <1>2 DEF ComponentShowsActiveTab
<1>11. TabShowsItsClient'
  <2> SUFFICES ASSUME NEW t \in Open, NEW l, l = view'[t].client
               PROVE  /\ l = None => ~view'[t].connected /\ ~view'[t].active
                      /\ l # None =>
                           /\ view'[t].connected
                                <=> link'[l] = "up" /\ recovering[l] = None
                           /\ view'[t].active => session'[l] = view'[t].info
                                                   /\ link'[l] = "up"
    BY <1>1, <1>5 DEF TabShowsItsClient
  <2>1. /\ view[t].client = None => ~view[t].connected /\ ~view[t].active
        /\ view[t].client # None =>
             /\ view[t].client \in ClientId /\ target[view[t].client] = t
             /\ view[t].connected <=> /\ link[view[t].client] = "up"
                                      /\ recovering[view[t].client] = None
             /\ view[t].active => /\ session[view[t].client] = view[t].info
                                  /\ link[view[t].client] = "up"
    BY OneHolder DEF Calm, Settled, TabShowsItsClient
  <2>2. CASE t = active
    <3>1. ~view[t].connected /\ ~view[t].active
      BY <1>1, <2>1, <2>2
    <3> QED BY <1>1, <1>3, <1>4, <2>2, <3>1
  <2>3. CASE t # active
    <3>1. l = view[t].client /\ l # k
      BY <1>4, <2>3
    <3> QED BY <1>3, <1>4, <2>1, <3>1
  <2> QED BY <2>2, <2>3
<1>12. NothingIsLeftBehind'
  <2>1. ASSUME NEW l \in ClientId, link'[l] \notin {"closed", "closing"}
        PROVE  Holders(l)' # {}
    <3>1. CASE l = k
      BY <1>6, <3>1
    <3>2. CASE l # k
      <4>1. link[l] \in Living
        BY <1>3, <2>1, <3>2, CalmState DEF Links, Living
      <4>2. Holders(l) # {}
        BY <4>1 DEF Calm, Settled, ClientsPlaced
      <4> QED BY <1>6, <3>2, <4>1, <4>2
    <3> QED BY <3>1, <3>2
  <2>2. {view'[t].terminal : t \in Open} = {view[t].terminal : t \in Open}
    BY <1>4
  <2>3. terminals = {view[t].terminal : t \in Open} \ {None}
    BY DEF Calm, Settled, NothingIsLeftBehind
  <2> QED BY <1>1, <1>5, <2>1, <2>2, <2>3 DEF NothingIsLeftBehind
<1> QED BY <1>7, <1>8, <1>9, <1>10, <1>11, <1>12 DEF Settled

\* A tab is created, or switched to, while no call is awaited.
LEMMA CreateTabCalm ==
  ASSUME Calm, LinksOK', NEW t \in TabId, CreateTab(t), ~disturbed'
  PROVE  Settled'
<1>0. view \in [TabId -> View] /\ Open \subseteq TabId
  BY CalmState
<1>1. /\ t \notin Open /\ \A k \in ClientId : link[k] # "closed" => target[k] # t
      /\ tabs' = Append(tabs, t) /\ view' = [view EXCEPT ![t] = Blank]
      /\ active' = t /\ comp' = Blank /\ call = Idle /\ t # None
      /\ UNCHANGED <<call, terminals, link, target, session, previous, recovering,
                     leaving>>
  BY TabsAssumption DEF CreateTab, FreeTab, Note, Busy, clients
<1>2. Open' = Open \cup {t}
  <2>1. tabs \in Seq(TabId)
    BY CalmState
  <2>2. /\ DOMAIN tabs = 1..Len(tabs) /\ DOMAIN tabs' = 1..(Len(tabs) + 1)
        /\ tabs'[Len(tabs) + 1] = t
        /\ \A n \in 1..Len(tabs) : tabs'[n] = tabs[n]
    BY <1>1, <2>1
  <2>3. \A u : u \in Open' <=> \E n \in 1..(Len(tabs) + 1) : tabs'[n] = u
    BY <2>2 DEF Open, ToSet
  <2>4. \A u : u \in Open <=> \E n \in 1..Len(tabs) : tabs[n] = u
    BY <2>2 DEF Open, ToSet
  <2> QED BY <2>1, <2>2, <2>3, <2>4
<1>3. view'[t] = Blank /\ \A u \in Open : u # t /\ view'[u] = view[u]
  BY <1>0, <1>1
<1>4. \A k \in ClientId : Holders(k)' = Holders(k)
  BY <1>2, <1>3, BlankView, TabsAssumption DEF Holders
<1>5. ClientsPlaced'
  <2>1. \A u \in Open' : view'[u].client # None => target[view'[u].client] = u
    BY <1>2, <1>3, BlankView DEF Calm, Settled, ClientsPlaced
  <2> QED BY <1>1, <1>4, <2>1 DEF Calm, Settled, ClientsPlaced
<1>6. SessionsPlaced'
  <2>1. \A k \in ClientId : \A u \in Holders(k) : view'[u] = view[u]
    BY <1>3 DEF Holders
  <2> QED BY <1>1, <1>4, <2>1 DEF Calm, Settled, SessionsPlaced, SessionPlaced
<1>7. CallPlaced'
  BY <1>1 DEF CallPlaced, Busy, Idle
<1>8. ComponentShowsActiveTab'
  BY <1>1, <1>3 DEF ComponentShowsActiveTab
<1>9. TabShowsItsClient'
  <2>1. ~Blank.connected /\ ~Blank.active /\ Blank.client = None
    BY DEF Blank
  <2> QED BY <1>1, <1>2, <1>3, <2>1 DEF Calm, Settled, TabShowsItsClient
<1>10. NothingIsLeftBehind'
  <2>1. {view'[u].terminal : u \in Open'} \ {None} = {view[u].terminal : u \in Open} \ {None}
    BY <1>2, <1>3, BlankView
  <2> QED BY <1>1, <1>4, <2>1 DEF Calm, Settled, NothingIsLeftBehind
<1> QED BY <1>5, <1>6, <1>7, <1>8, <1>9, <1>10 DEF Settled

LEMMA SwitchTabCalm ==
  ASSUME Calm, LinksOK', NEW t \in TabId, SwitchTab(t), ~disturbed'
  PROVE  Settled'
<1>1. /\ t \in Open /\ active' = t /\ comp' = view[t] /\ call = Idle /\ t # None
      /\ UNCHANGED <<tabs, view, call, terminals, link, target, session, previous,
                     recovering, leaving>>
  BY TabsAssumption DEF SwitchTab, SwitchTo, Note, Busy, clients
<1>2. /\ ClientsPlaced' /\ NothingIsLeftBehind' /\ Open' = Open
      /\ \A l \in ClientId : Holders(l)' = Holders(l)
  BY <1>1, PlacesKept
<1>3. SessionsPlaced'
  BY <1>1, <1>2 DEF Calm, Settled, SessionsPlaced, SessionPlaced
<1>4. CallPlaced'
  BY <1>1 DEF CallPlaced, Busy, Idle
<1>5. ComponentShowsActiveTab'
  BY <1>1 DEF ComponentShowsActiveTab
<1>6. TabShowsItsClient'
  BY <1>1, <1>2 DEF Calm, Settled, TabShowsItsClient
<1> QED BY <1>2, <1>3, <1>4, <1>5, <1>6 DEF Settled

\* A closed tab's client may only close, and its terminal is disposed.
LEMMA CloseTabCalm ==
  ASSUME Calm, LinksOK', NEW t \in TabId, CloseTab(t), ~disturbed'
  PROVE  Settled'
<1>k. PICK k : k = view[t].client
  OBVIOUS
<1>0. /\ view \in [TabId -> View] /\ Open \subseteq TabId
      /\ active # None => active \in Open /\ comp = view[active]
  BY CalmState
<1>1. /\ t \in Open /\ Open' = Open \ {t}
      /\ view' = [view EXCEPT ![t] = Blank]
      /\ terminals' = terminals \ {view[t].terminal}
      /\ t = active => call = Idle
      /\ UNCHANGED <<call, target, session, previous, recovering, leaving>>
      /\ k = None => UNCHANGED link
      /\ k # None => Disconnecting(k)
      /\ active' # None => active' \in Open'
  BY <1>k, ClosedTab DEF CloseTab, Released, Note, Busy, Calm
<1>2. \/ t # active /\ UNCHANGED <<active, comp>>
      \/ t = active /\ active' = None /\ comp' = Blank
      \/ t = active /\ active' \in Open' /\ comp' = view[active'] /\ active' # None
  <2>1. None \notin Open
    BY <1>0, TabsAssumption
  <2> QED BY <1>1, <2>1, ClosedTab DEF Calm
<1>3. k # None => k \in ClientId /\ Holders(k) = {t}
  BY <1>1, <1>k, OneHolder
<1>4. \A u \in Open' : u \in Open /\ u # t /\ view'[u] = view[u]
  BY <1>0, <1>1
<1>5. \A l \in ClientId :
        IF l = k
        THEN /\ Holders(l) = {t} /\ Holders(l)' = {}
             /\ link'[l] \in {"closed", "closing"} /\ link[l] # "closing"
             /\ link[l] = "up" => link'[l] = "closing"
             /\ link[l] = "closed" => link'[l] = "closed"
        ELSE Holders(l)' = Holders(l) /\ t \notin Holders(l) /\ link'[l] = link[l]
  <2> SUFFICES ASSUME NEW l \in ClientId
               PROVE  IF l = k
                      THEN /\ Holders(l) = {t} /\ Holders(l)' = {}
                           /\ link'[l] \in {"closed", "closing"} /\ link[l] # "closing"
                           /\ link[l] = "up" => link'[l] = "closing"
                           /\ link[l] = "closed" => link'[l] = "closed"
                      ELSE /\ Holders(l)' = Holders(l) /\ t \notin Holders(l)
                           /\ link'[l] = link[l]
    OBVIOUS
  <2>1. Holders(l)' = Holders(l) \ {t}
    BY <1>1, <1>4 DEF Holders
  <2>2. CASE l = k
    <3>1. k # None
      BY <2>2, TabsAssumption
    <3>2. Holders(l) = {t} /\ Holders(l)' = {}
      BY <1>3, <2>1, <2>2, <3>1
    <3>3. link[l] # "closing"
      BY <3>2 DEF Calm, Settled, ClientsPlaced
    <3>4. link'[l] = IF link[l] = "up" THEN "closing" ELSE "closed"
      BY <1>1, <2>2, <3>1, CalmState DEF Disconnecting
    <3> QED BY <2>2, <3>2, <3>3, <3>4
  <2>3. CASE l # k
    <3>1. t \notin Holders(l)
      BY <1>k, <2>3 DEF Holders
    <3>2. link'[l] = link[l]
      BY <1>1, <2>3, CalmState DEF Disconnecting
    <3> QED BY <2>1, <2>3, <3>1, <3>2
  <2> QED BY <2>2, <2>3
<1>6. ClientsPlaced'
  <2>1. ASSUME NEW l \in ClientId
        PROVE  /\ link'[l] # "closed" => target[l] # None /\ link[l] # "closed"
               /\ link'[l] \in Living => Holders(l)' = {target[l]}
               /\ link'[l] = "closing" => Holders(l)' = {}
    <3>1. /\ link[l] # "closed" => target[l] # None
          /\ link[l] \in Living => Holders(l) = {target[l]}
          /\ link[l] = "closing" => Holders(l) = {}
      BY DEF Calm, Settled, ClientsPlaced
    <3> QED BY <1>5, <3>1 DEF Living
  <2>2. \A l, m \in ClientId :
          link'[l] # "closed" /\ link'[m] # "closed" /\ target[l] = target[m]
            => l = m
    BY <2>1 DEF Calm, Settled, ClientsPlaced
  <2>3. \A u \in Open' : view'[u].client # None => target[view'[u].client] = u
    BY <1>4 DEF Calm, Settled, ClientsPlaced
  <2> QED BY <1>1, <2>1, <2>2, <2>3 DEF ClientsPlaced
<1>7. SessionsPlaced'
  <2> SUFFICES ASSUME NEW l \in ClientId
               PROVE  SessionPlaced(l)'
    BY DEF SessionsPlaced
  <2>1. SessionPlaced(l)
    BY DEF Calm, Settled, SessionsPlaced
  <2>2. CASE l = k
    <3>1. Holders(l)' = {} /\ (link[l] \in {"up", "closing"} => link'[l] = "closing")
      BY <1>5, <2>2
    <3> QED BY ONLY <1>1, <2>1, <3>1 DEF SessionPlaced
  <2>3. CASE l # k
    <3>1. Holders(l)' = Holders(l) /\ link'[l] = link[l]
      BY <1>5, <2>3
    <3>2. \A u \in Holders(l) : view'[u] = view[u]
      BY <1>1, <1>4, <1>5, <2>3 DEF Holders
    <3> QED BY ONLY <1>1, <2>1, <3>1, <3>2 DEF SessionPlaced
  <2> QED BY <2>2, <2>3
<1>8. CallPlaced'
  <2>1. CASE t = active
    BY <1>1, <1>2, <2>1 DEF CallPlaced, Busy, Idle
  <2>2. CASE t # active
    <3>1. call.client # None => call.client \in ClientId /\ call.client # k
      <4>1. call.client # None => call.client \in ClientId
        BY CalmState DEF Calls
      <4>2. ASSUME call.client # None, call.client = k
            PROVE  FALSE
        <5>1. link[k] \in {"up", "closing"} /\ (link[k] = "up" => comp.client = k)
          BY <4>2 DEF Calm, Settled, CallPlaced
        <5>2. comp.client = k
          BY <1>5, <4>1, <4>2, <5>1
        <5>3. Holders(k) = {active}
          BY <4>2, <5>2, InView
        <5> QED BY <1>3, <2>2, <4>2, <5>3
      <4> QED BY <4>1, <4>2
    <3> QED BY <1>1, <1>2, <1>5, <2>2, <3>1 DEF Calm, Settled, CallPlaced, Busy
  <2> QED BY <2>1, <2>2
<1>9. ComponentShowsActiveTab'
  BY <1>0, <1>1, <1>2, <1>4 DEF ComponentShowsActiveTab
<1>10. TabShowsItsClient'
  <2> SUFFICES ASSUME NEW u \in Open', NEW l, l = view[u].client
               PROVE  /\ l = None => ~view[u].connected /\ ~view[u].active
                      /\ l # None =>
                           /\ view[u].connected
                                <=> link'[l] = "up" /\ recovering[l] = None
                           /\ view[u].active => session[l] = view[u].info
                                                  /\ link'[l] = "up"
    BY <1>1, <1>4 DEF TabShowsItsClient
  <2>1. u \in Open /\ u # t
    BY <1>4
  <2>2. /\ l = None => ~view[u].connected /\ ~view[u].active
        /\ l # None =>
             /\ l \in ClientId /\ Holders(l) = {u}
             /\ view[u].connected <=> link[l] = "up" /\ recovering[l] = None
             /\ view[u].active => session[l] = view[u].info /\ link[l] = "up"
    BY <2>1, OneHolder DEF Calm, Settled, TabShowsItsClient
  <2>3. l # None => l # k
    BY <1>3, <2>1, <2>2
  <2> QED BY <1>5, <2>2, <2>3
<1>11. NothingIsLeftBehind'
  <2>1. \A l \in ClientId : link'[l] \notin {"closed", "closing"} => Holders(l)' # {}
    BY <1>5 DEF Calm, Settled, NothingIsLeftBehind
  <2>2. terminals = {view[u].terminal : u \in Open} \ {None}
    BY DEF Calm, Settled, NothingIsLeftBehind
  <2>3. \A u \in Open \ {t} : view[u].terminal = None
                                \/ view[u].terminal # view[t].terminal
    BY <1>1 DEF Calm, TabsInv, TabsKeepApart
  <2>4. terminals' = {view[u].terminal : u \in Open \ {t}} \ {None}
    BY <1>1, <2>2, <2>3
  <2>5. {view'[u].terminal : u \in Open'} = {view[u].terminal : u \in Open \ {t}}
    BY <1>1, <1>4
  <2> QED BY <2>1, <2>4, <2>5 DEF NothingIsLeftBehind
<1> QED BY <1>6, <1>7, <1>8, <1>9, <1>10, <1>11 DEF Settled

-----------------------------------------------------------------------------

LEMMA UndisturbedInitially == TabsInit => LinksOK /\ Undisturbed
<1> SUFFICES ASSUME TabsInit PROVE LinksOK /\ Undisturbed
  OBVIOUS
<1>1. PICK t \in TabId :
        /\ tabs = <<t>> /\ active = t
        /\ view = [u \in TabId |-> Blank] /\ comp = Blank
        /\ call = Idle /\ terminals = {}
        /\ link = [k \in ClientId |-> "closed"]
        /\ target = [k \in ClientId |-> None]
        /\ session = [k \in ClientId |-> None]
        /\ previous = [k \in ClientId |-> None]
        /\ recovering = [k \in ClientId |-> None]
        /\ leaving = [k \in ClientId |-> None]
        /\ disturbed = FALSE
  BY DEF TabsInit
<1>2. Open = {t} /\ t # None /\ view[t] = Blank /\ Blank.client = None
      /\ Blank.terminal = None /\ ~Blank.connected /\ ~Blank.active
  BY <1>1, TabsAssumption DEF Open, ToSet, Blank
<1>3. LinksOK
  BY <1>1 DEF LinksOK, Links, OfClients
<1>4. ClientsPlaced /\ NothingIsLeftBehind
  BY <1>1, <1>2 DEF ClientsPlaced, NothingIsLeftBehind, Living
<1>5. SessionsPlaced
  BY <1>1 DEF SessionsPlaced, SessionPlaced
<1>6. CallPlaced
  BY <1>1, <1>2 DEF CallPlaced, Busy, Idle
<1>7. ComponentShowsActiveTab /\ TabShowsItsClient
  BY <1>1, <1>2 DEF ComponentShowsActiveTab, TabShowsItsClient
<1> QED BY <1>3, <1>4, <1>5, <1>6, <1>7 DEF Undisturbed, Settled

LEMMA UndisturbedStep ==
  TabsInv /\ LinksOK /\ Undisturbed /\ [TabsNext]_vars => LinksOK' /\ Undisturbed'
<1> SUFFICES ASSUME TabsInv, LinksOK, Undisturbed, [TabsNext]_vars
             PROVE  LinksOK' /\ Undisturbed'
  OBVIOUS
<1>1. CASE UNCHANGED vars
  <2>1. /\ Open' = Open /\ \A k \in ClientId : Holders(k)' = Holders(k)
        /\ UNCHANGED <<tabs, view, active, comp, call, terminals, link, target, session,
                       previous, recovering, leaving, disturbed>>
    BY <1>1, OpenSame DEF vars, ui, clients, Holders
  <2>2. LinksOK'
    BY <2>1 DEF LinksOK
  <2>3. ASSUME ~disturbed'
        PROVE  Settled'
    <3>1. Calm
      BY <2>1, <2>3, CalmNow
    <3>2. ClientsPlaced' /\ NothingIsLeftBehind'
      BY <2>1, <2>2, <3>1, PlacesKept
    <3>3. SessionsPlaced'
      BY <2>1, <3>1 DEF Calm, Settled, SessionsPlaced, SessionPlaced
    <3>4. CallPlaced'
      BY <2>1, <3>1 DEF Calm, Settled, CallPlaced, Busy
    <3>5. ComponentShowsActiveTab' /\ TabShowsItsClient'
      BY <2>1, <3>1 DEF Calm, Settled, ComponentShowsActiveTab, TabShowsItsClient
    <3> QED BY <3>2, <3>3, <3>4, <3>5 DEF Settled
  <2> QED BY <2>2, <2>3 DEF Undisturbed
<1>2. ASSUME TabsNext
      PROVE  LinksOK' /\ Undisturbed'
  <2>1. LinksOK'
    BY <1>2, LinksStep
  <2>2. disturbed => disturbed'
    BY <1>2 DEF TabsNext, CreateTab, SwitchTab, CloseTab, Connect, Disconnect, Spawn,
                Join, Start, Leave, Kill, Refused, Granted, TerminalReady, Opens, Fails,
                RetryTimerFires, Closes, Recovered, Exits, SessionClosed, Left, Note,
                clients
  <2> SUFFICES ASSUME ~disturbed'
               PROVE  Settled'
    BY <2>1 DEF Undisturbed
  <2>3. Calm
    BY <2>2, CalmNow DEF LinksOK
  <2>4. CASE \E t \in TabId : CreateTab(t) \/ SwitchTab(t) \/ CloseTab(t)
    BY <2>1, <2>3, <2>4, CreateTabCalm, SwitchTabCalm, CloseTabCalm
  <2>5. CASE \E k \in ClientId : Connect(k)
    BY <2>1, <2>3, <2>5, ConnectCalm
  <2>6. CASE Disconnect \/ Leave \/ Kill \/ Refused
    BY <2>1, <2>3, <2>6, DisconnectCalm, HideCalm, RefusedCalm
  <2>7. CASE Spawn \/ \E s \in SessionId : Join(s)
    BY <2>1, <2>3, <2>7, StartCalm DEF Spawn, Join
  <2>8. CASE \E s \in SessionId : Granted(s)
    BY <2>1, <2>3, <2>8, GrantedCalm
  <2>9. CASE \E x \in TerminalId : TerminalReady(x)
    BY <2>1, <2>3, <2>9, TerminalReadyCalm
  <2>10. CASE \E k \in ClientId :
                \/ Opens(k) \/ Fails(k) \/ RetryTimerFires(k) \/ Closes(k)
                \/ Recovered(k) \/ Exits(k) \/ SessionClosed(k) \/ Left(k)
    BY <2>1, <2>3, <2>10, OpensCalm, AttemptCalm, ClosesCalm, RecoveredCalm, EndCalm,
       LeftCalm
  <2> QED BY <1>2, <2>4, <2>5, <2>6, <2>7, <2>8, <2>9, <2>10 DEF TabsNext
<1> QED BY <1>1, <1>2

LEMMA UndisturbedAlways == TabsSpec => []Undisturbed
<1> DEFINE Inv == TabsInv /\ LinksOK /\ Undisturbed
<1>1. TabsInit => Inv
  BY TabsInitially, UndisturbedInitially
<1>2. Inv /\ [TabsNext]_vars => Inv'
  BY TabsStep, UndisturbedStep
<1>3. Inv => Undisturbed
  OBVIOUS
<1> QED BY <1>1, <1>2, <1>3, PTL DEF TabsSpec

\* As long as the user does none of what Note lists, the fields of the component are
\* those its active tab keeps, whatever the clients of the other tabs report
\* (syncStateToActiveTab, updateTab and the handlers of setupClientHandlers).
THEOREM ComponentIsItsTab == TabsSpec => []ComponentShowsActiveTab
<1>1. Undisturbed => ComponentShowsActiveTab
  BY DEF Undisturbed, Settled, ComponentShowsActiveTab
<1> QED BY <1>1, UndisturbedAlways, PTL

\* As long as that is so, a tab counts as connected just when its own client is, and
\* has a session in view only if that client is in it.
THEOREM TabsShowTheirClients == TabsSpec => []TabShowsItsClient
<1>1. Undisturbed => TabShowsItsClient
  BY DEF Undisturbed, Settled, TabShowsItsClient
<1> QED BY <1>1, UndisturbedAlways, PTL

\* As long as that is so, closing tabs and connections leaves no client behind that
\* is connected or will connect again, and no terminal (closeTab, connect).
THEOREM ClosedTabsLeaveNothing == TabsSpec => []NothingIsLeftBehind
<1>1. Undisturbed => NothingIsLeftBehind
  BY DEF Undisturbed, Settled, NothingIsLeftBehind
<1> QED BY <1>1, UndisturbedAlways, PTL
=============================================================================
