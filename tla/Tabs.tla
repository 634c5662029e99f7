-------------------------------- MODULE Tabs --------------------------------
(* The tabs of the element <lit-shell-terminal> (ui/lit-shell-terminal.ts,  *)
(* with show-tabs): the component has one client, terminal and session in   *)
(* view, which it copies from and to the active tab, while the clients of   *)
(* all tabs call back and calls of spawn() and join() wait for their        *)
(* answers.  A client (client/terminal-client.ts) is reduced to what the    *)
(* element sees of it.                                                      *)
(*                                                                          *)
(* One action is one call of the element's methods or one callback, with    *)
(* the promise continuations it sets off: they are microtasks.              *)
EXTENDS Naturals, Sequences, FiniteSets, SequencesExt

CONSTANTS TabId, ClientId, SessionId, TerminalId,   \* bounds: ids in use
          None

ASSUME TabsAssumption ==
  None \notin TabId \cup ClientId \cup SessionId \cup TerminalId

VARIABLES
  tabs,        \* this.tabs, in their order
  view,        \* what each tab keeps
  active,      \* this.activeTabId
  comp,        \* the same fields of the component
  call,        \* the spawn() or join() being awaited (one at a time: a bound)
  terminals,   \* terminals made and not disposed
  \* Each client.
  link, target, session, previous,
  recovering,  \* the session that recoverSession asks to join
  leaving,     \* the session it has asked to leave
  disturbed    \* an observer's: one of the cases at Note has happened

ui == <<tabs, view, active, comp>>
clients == <<link, target, session, previous, recovering, leaving>>
vars == <<ui, call, terminals, clients, disturbed>>

Blank == [client |-> None, terminal |-> None, connected |-> FALSE,
          active |-> FALSE, info |-> None]
Idle == [kind |-> "none", client |-> None, session |-> None]

Open == ToSet(tabs)
Busy == call # Idle

\* The tab whose client it is; the tab it was made for, and whether the component
\* shows that one.
Holders(k) == {t \in Open : view[t].client = k}
Target(k) == {target[k]} \cap Open
Faces(k) == target[k] \in {None, active}

Update(ts, face, F(_)) ==
  /\ view' = [t \in TabId |-> IF t \in ts THEN F(view[t]) ELSE view[t]]
  /\ comp' = IF face THEN F(comp) ELSE comp

Shown(r, s) == [r EXCEPT !.active = TRUE, !.info = s]
Hidden(r) == [r EXCEPT !.active = FALSE, !.info = None]

\* syncStateToActiveTab.
Synced(v, r) == IF active = None THEN v ELSE [v EXCEPT ![active] = r]
Sync(r) == comp' = r /\ view' = Synced(view, r)

\* The first tab is there before anything else.
TabsInit ==
  \E t \in TabId :
    /\ tabs = <<t>> /\ active = t
    /\ view = [u \in TabId |-> Blank] /\ comp = Blank
    /\ call = Idle /\ terminals = {}
    /\ link = [k \in ClientId |-> "closed"]
    /\ target = [k \in ClientId |-> None]
    /\ session = [k \in ClientId |-> None]
    /\ previous = [k \in ClientId |-> None]
    /\ recovering = [k \in ClientId |-> None]
    /\ leaving = [k \in ClientId |-> None]
    /\ disturbed = FALSE

\* Bound: clients and tabs are named again once nothing refers to them.
FreeClient(k) ==
  /\ link[k] = "closed" /\ Holders(k) = {}
  /\ k \notin {comp.client, call.client}

FreeTab(t) == t \notin Open /\ \A k \in ClientId : link[k] # "closed" => target[k] # t

\* Bound: and so are sessions.
New(s) ==
  /\ \A k \in ClientId : s \notin {session[k], previous[k], recovering[k], leaving[k]}
  /\ s # comp.info /\ \A t \in Open : s # view[t].info

\* The cases after which the three invariants below claim nothing, for in each the
\* code may show or keep what is wrong.  All are actions of the model, and
\* TabsKeepApart is claimed through them.  Two need nothing unusual of the user:
\* a connection ends during the recovery of its session, lost or by disconnect()
\* (Closes), and a session ends that a tab in the background shares with the one
\* in view (SessionClosed), which README.md:196 offers.  In the others the user is
\* quicker than the element: a tab is created, switched to, or closed in view while
\* its spawn() or join() is awaited; a tab connects while a former client of its
\* own waits to retry, dials or only has yet to close, or there is no tab to
\* connect; a session is left that is still being recovered.
Note(b) == disturbed' = (disturbed \/ b)

-----------------------------------------------------------------------------
(* The element's methods. *)

\* Mutant: the client of the former tab stays.
MutSwitchTo(t) == active' = t /\ comp' = [view[t] EXCEPT !.client = comp.client]

SwitchTo(t) == active' = t /\ comp' = view[t]

\* The new tab is switched to.
CreateTab(t) ==
  /\ FreeTab(t)
  /\ tabs' = Append(tabs, t)
  /\ view' = [view EXCEPT ![t] = Blank]
  /\ active' = t /\ comp' = Blank
  /\ Note(Busy)
  /\ UNCHANGED <<call, terminals, clients>>

SwitchTab(t) ==
  /\ t \in Open /\ t # active
  /\ SwitchTo(t)
  /\ Note(Busy)
  /\ UNCHANGED <<tabs, view, call, terminals, clients>>

\* client.disconnect(): only a connection that was up tells its handlers.
Disconnecting(k) ==
  link' = [link EXCEPT ![k] = IF @ = "up" THEN "closing" ELSE "closed"]

Place(t) == CHOOSE n \in DOMAIN tabs : tabs[n] = t

\* The tab before a closed one, or the first, comes into view.
NextInView(t) ==
  IF t # active THEN UNCHANGED <<active, comp>>
  ELSE IF Len(tabs) = 1 THEN active' = None /\ comp' = Blank
  ELSE SwitchTo(IF Place(t) = 1 THEN tabs[2] ELSE tabs[Place(t) - 1])

\* Mutant: a closed tab's client goes on.
MutReleased(t) == terminals' = terminals \ {view[t].terminal} /\ UNCHANGED link

Released(t) ==
  /\ terminals' = terminals \ {view[t].terminal}
  /\ IF view[t].client = None THEN UNCHANGED link
                              ELSE Disconnecting(view[t].client)

CloseTab(t) ==
  /\ t \in Open
  /\ tabs' = RemoveAt(tabs, Place(t))
  /\ Released(t)
  /\ view' = [view EXCEPT ![t] = Blank]
  /\ NextInView(t)
  /\ Note(Busy /\ t = active)
  /\ UNCHANGED <<call, target, session, previous, recovering, leaving>>

\* A client of the component that is not disconnected only waits; otherwise a new
\* one takes its place, whatever the former one still does.
Connect(k) ==
  /\ comp.client # None => link[comp.client] \in {"retrying", "closed"}
  /\ FreeClient(k)
  /\ link' = [link EXCEPT ![k] = "dialing"]
  /\ target' = [target EXCEPT ![k] = active]
  /\ session' = [session EXCEPT ![k] = None]
  /\ previous' = [previous EXCEPT ![k] = None]
  /\ leaving' = [leaving EXCEPT ![k] = None]
  /\ comp' = [comp EXCEPT !.client = k]
  /\ view' = Synced(view, [view[active] EXCEPT !.client = k])
  /\ Note(active = None
            \/ \E o \in ClientId : target[o] = active /\ link[o] # "closed")
  /\ UNCHANGED <<tabs, active, call, terminals, recovering>>

Disconnect ==
  /\ comp.client # None
  /\ Disconnecting(comp.client)
  /\ Sync([comp EXCEPT !.client = None, !.connected = FALSE, !.active = FALSE,
                       !.info = None])
  /\ UNCHANGED <<tabs, active, call, terminals, target, session, previous,
                 recovering, leaving, disturbed>>

\* spawn() and join(): the client is asked once there is a terminal; a refusal of
\* its own, like a session already active, ends the call.
AskClient(kind, s) ==
  LET k == comp.client
  IN call' = IF k # None /\ link[k] = "up" /\ session[k] = None
               THEN [kind |-> kind, client |-> k, session |-> s] ELSE Idle

Start(kind, s) ==
  /\ ~Busy
  /\ comp.client # None /\ comp.connected
  /\ IF comp.terminal # None
       THEN AskClient(kind, s)
       ELSE call' = [kind |-> kind, client |-> None, session |-> s]
  /\ UNCHANGED <<ui, terminals, clients, disturbed>>

Spawn == Start("spawn", None)
Join(s) == Start("join", s)

\* initTerminalUI goes on after a render, in whichever tab is active then.
TerminalReady(x) ==
  /\ Busy /\ call.client = None
  /\ x \notin terminals
  /\ terminals' = terminals \cup {x}
  /\ Sync([comp EXCEPT !.terminal = x])
  /\ AskClient(call.kind, call.session)
  /\ UNCHANGED <<tabs, active, clients, disturbed>>

\* leave() and kill(): the session is out of view at once.  The server lets a
\* client leave the session it is in, or has asked to join again.
Leave ==
  /\ comp.client # None /\ comp.info # None
  /\ LET k == comp.client
         in == IF recovering[k] # None THEN recovering[k] ELSE session[k]
     IN leaving' = IF link[k] = "up" /\ comp.info = in
                     THEN [leaving EXCEPT ![k] = in] ELSE leaving
  /\ Sync(Hidden(comp))
  /\ Note(recovering[comp.client] # None)
  /\ UNCHANGED <<tabs, active, call, terminals, link, target, session, previous,
                 recovering>>

Kill ==
  /\ comp.info # None
  /\ Sync(Hidden(comp))
  /\ UNCHANGED <<tabs, active, call, terminals, clients, disturbed>>

-----------------------------------------------------------------------------
(* What the clients report. *)

\* onConnect: a former session is joined again before the tab counts as connected.
\* connect() goes on after the first one.
Opens(k) ==
  /\ link[k] \in {"dialing", "redialing"}
  /\ link' = [link EXCEPT ![k] = "up"]
  /\ recovering' = [recovering EXCEPT ![k] = previous[k]]
  /\ LET On(r) == [r EXCEPT !.connected = TRUE]
     IN IF previous[k] # None
          THEN UNCHANGED <<view, comp>>
          ELSE IF link[k] = "dialing" /\ target[k] = active /\ active # None
            THEN Sync(On(comp))
            ELSE Update(Target(k), Faces(k), On)
  /\ UNCHANGED <<tabs, active, call, terminals, target, session, previous,
                 leaving, disturbed>>

\* An attempt that fails says nothing but its error; it may be the last.
Fails(k) ==
  /\ link[k] \in {"dialing", "redialing"}
  /\ \E after \in {"retrying", "closed"} : link' = [link EXCEPT ![k] = after]
  /\ UNCHANGED <<ui, call, terminals, target, session, previous, recovering,
                 leaving, disturbed>>

RetryTimerFires(k) ==
  /\ link[k] = "retrying"
  /\ link' = [link EXCEPT ![k] = "redialing"]
  /\ UNCHANGED <<ui, call, terminals, target, session, previous, recovering,
                 leaving, disturbed>>

\* Mutant: a lost connection is shown wherever the component looks.
MutFaceOfLoss(k) == TRUE

FaceOfLoss(k) == Faces(k)

\* onDisconnect, after the client has put its session by and rejected its
\* requests.  A recovery that was under way then goes on as in its catch and
\* finally: the session is forgotten, and the tab counts as connected.
Closes(k) ==
  /\ link[k] \in {"up", "closing"}
  /\ \E after \in IF link[k] = "up" THEN {"retrying", "closed"} ELSE {"closed"} :
       link' = [link EXCEPT ![k] = after]
  /\ previous' = [previous EXCEPT ![k] = IF recovering[k] # None THEN None
                                         ELSE IF session[k] # None THEN session[k]
                                         ELSE @]
  /\ session' = [session EXCEPT ![k] = None]
  /\ leaving' = [leaving EXCEPT ![k] = None]
  /\ recovering' = [recovering EXCEPT ![k] = None]
  /\ call' = IF call.client = k THEN Idle ELSE call
  /\ LET Off(r) == [r EXCEPT !.connected = recovering[k] # None, !.active = FALSE]
     IN Update(Target(k), FaceOfLoss(k), Off)
  /\ Note(recovering[k] # None)
  /\ UNCHANGED <<tabs, active, terminals, target>>

\* The awaited answer: onSpawned shows it in the tab that has the client, onJoined
\* in the one it was made for; then spawn() or join() puts it in view and copies it
\* to the tab that is active now.
Granted(s) ==
  LET k == call.client
      ts == IF call.kind = "spawn" THEN Holders(k)
            ELSE IF target[k] # None THEN Target(k) ELSE Holders(k)
  IN /\ k # None /\ link[k] = "up"
     /\ IF call.kind = "spawn" THEN New(s) ELSE s = call.session
     /\ session' = [session EXCEPT ![k] = s]
     /\ previous' = IF call.kind = "spawn" THEN [previous EXCEPT ![k] = None]
                                           ELSE previous
     /\ call' = Idle
     /\ LET before == [t \in TabId |-> IF t \in ts THEN Shown(view[t], s)
                                                   ELSE view[t]]
        IN /\ comp' = Shown(comp, s)
           /\ view' = Synced(before, Shown(comp, s))
     /\ UNCHANGED <<tabs, active, terminals, link, target, recovering, leaving,
                    disturbed>>

Refused ==
  /\ call.client # None /\ link[call.client] = "up"
  /\ call' = Idle
  /\ UNCHANGED <<ui, terminals, clients, disturbed>>

\* Mutant: the recovered session is not shown.
MutRecovered(k) ==
  /\ link[k] = "up" /\ recovering[k] # None
  /\ recovering' = [recovering EXCEPT ![k] = None]
  /\ session' = [session EXCEPT ![k] = recovering[k]]
  /\ previous' = [previous EXCEPT ![k] = None]
  /\ UNCHANGED <<ui, call, terminals, link, target, leaving, disturbed>>

\* recoverSession's join is answered: with the session, or not.
Recovered(k) ==
  /\ link[k] = "up" /\ recovering[k] # None
  /\ recovering' = [recovering EXCEPT ![k] = None]
  /\ previous' = [previous EXCEPT ![k] = None]
  /\ LET On(r) == [r EXCEPT !.connected = TRUE]
         Back(r) == On(Shown(r, recovering[k]))
     IN \/ /\ session' = [session EXCEPT ![k] = recovering[k]]
           /\ Update(Target(k), Faces(k), Back)
        \/ /\ UNCHANGED session
           /\ Update(Target(k), Faces(k), On)
  /\ UNCHANGED <<tabs, active, call, terminals, link, target, leaving, disturbed>>

\* The session ends; a request to leave it will be refused.
Ended(k) ==
  /\ link[k] = "up" /\ session[k] # None
  /\ session' = [session EXCEPT ![k] = None]
  /\ leaving' = [leaving EXCEPT ![k] = IF @ = session[k] THEN None ELSE @]

\* onExit: by the tab that has the client.
Exits(k) ==
  /\ Ended(k)
  /\ Update(Holders(k), active \in Holders(k), Hidden)
  /\ UNCHANGED <<tabs, active, call, terminals, link, target, previous,
                 recovering, disturbed>>

\* onSessionClosed: the component looks only at the session's identifier, so it
\* may hide what its own tab still shows.
SessionClosed(k) ==
  /\ Ended(k)
  /\ Update({t \in Holders(k) : view[t].info = session[k]},
            comp.info = session[k], Hidden)
  /\ Note(comp.info = session[k] /\ active \notin Holders(k))
  /\ UNCHANGED <<tabs, active, call, terminals, link, target, previous,
                 recovering>>

\* left: only the client takes note.
Left(k) ==
  /\ link[k] = "up" /\ leaving[k] # None /\ recovering[k] = None
  /\ leaving' = [leaving EXCEPT ![k] = None]
  /\ session' = [session EXCEPT ![k] = IF @ = leaving[k] THEN None ELSE @]
  /\ UNCHANGED <<ui, call, terminals, link, target, previous, recovering,
                 disturbed>>

-----------------------------------------------------------------------------

TabsNext ==
  \/ \E t \in TabId : CreateTab(t) \/ SwitchTab(t) \/ CloseTab(t)
  \/ \E k \in ClientId : Connect(k)
  \/ Disconnect \/ Spawn \/ Leave \/ Kill \/ Refused
  \/ \E s \in SessionId : Join(s) \/ Granted(s)
  \/ \E x \in TerminalId : TerminalReady(x)
  \/ \E k \in ClientId :
       \/ Opens(k) \/ Fails(k) \/ RetryTimerFires(k) \/ Closes(k)
       \/ Recovered(k) \/ Exits(k) \/ SessionClosed(k) \/ Left(k)

TabsSpec == TabsInit /\ [][TabsNext]_vars

-----------------------------------------------------------------------------
(* Properties. *)

\* However tabs are switched during calls, no two of them have the same client or
\* terminal, there is an open one in view, and the component uses what is its.
TabsKeepApart ==
  /\ IF tabs = <<>> THEN active = None ELSE active \in Open
  /\ \A t, u \in Open : t # u =>
       /\ view[t].client = None \/ view[t].client # view[u].client
       /\ view[t].terminal = None \/ view[t].terminal # view[u].terminal
  /\ active # None =>
       /\ comp.client = view[active].client
       /\ comp.terminal = view[active].terminal

\* Short of the cases at Note, the component shows exactly what its active tab
\* keeps, whatever the clients of the other tabs report.
ComponentShowsActiveTab == ~disturbed /\ active # None => comp = view[active]

\* Short of the cases at Note, every tab shows the state of its own client:
\* connected when it is and has recovered what it can, and a session only if the
\* client is in it.
TabShowsItsClient ==
  ~disturbed =>
    \A t \in Open : LET v == view[t]
                        k == v.client
                    IN /\ k = None => ~v.connected /\ ~v.active
                       /\ k # None =>
                            /\ v.connected <=> link[k] = "up" /\ recovering[k] = None
                            /\ v.active => session[k] = v.info /\ link[k] = "up"

\* Short of the cases at Note, nothing outlives its tab: a client that is connected
\* or may connect again, and a terminal not disposed, belong to a tab.
NothingIsLeftBehind ==
  ~disturbed =>
    /\ \A k \in ClientId :
         link[k] \notin {"closed", "closing"} => Holders(k) # {}
    /\ terminals = {view[t].terminal : t \in Open} \ {None}

\* What the README promises: each tab has a session of its own connection.
TabsHaveOwnSessions ==
  \A t \in Open : view[t].active =>
    view[t].client # None /\ session[view[t].client] = view[t].info
=============================================================================
