------------------------ MODULE SessionManagerProofs ------------------------
(* What holds of the session manager for any number of sessions and clients *)
(* and any limits: every call preserves MgrInv, and the manager implements  *)
(* the safety part of SessionLifecycle.                                     *)
EXTENDS SessionManager, FiniteSetTheorems, TLAPS

-----------------------------------------------------------------------------
(* The effect of each call, field by field: n is what the call makes of m.  *)
(* The proofs below use these, and do not unfold nested EXCEPTs.            *)

ClearEffect(n, m, S) ==
  /\ n \in Manager
  /\ n.live = m.live
  /\ n.clients = m.clients
  /\ n.owner = m.owner
  /\ n.accepting = m.accepting
  /\ n.tmux = m.tmux
  /\ n.orphaned = m.orphaned
  /\ n.pty = m.pty
  /\ n.index = m.index
  /\ n.timer = m.timer \ S
  /\ n.armed = [s \in SessionId |->
                  IF s \in S \cap m.timer /\ m.armed[s] > 0
                    THEN m.armed[s] - 1 ELSE m.armed[s]]

Leaving(m, gone, s) == IF s \in m.live THEN m.clients[s] \cap gone[s] ELSE {}
Emptied(m, gone) ==
  {s \in m.live : Leaving(m, gone, s) # {} /\ m.clients[s] \ gone[s] = {}}

DetachEffect(n, m, gone) ==
  /\ n \in Manager
  /\ n.live = m.live
  /\ n.clients = [s \in SessionId |-> m.clients[s] \ Leaving(m, gone, s)]
  /\ n.owner = m.owner
  /\ n.accepting = m.accepting
  /\ n.tmux = m.tmux
  /\ n.orphaned = m.orphaned \cup Emptied(m, gone)
  /\ n.pty = m.pty
  /\ n.index = [c \in ClientId |->
                  {s \in m.index[c] : c \notin Leaving(m, gone, s)}]
  /\ n.timer = m.timer \cup (Emptied(m, gone) \ m.tmux)
  /\ n.armed = [s \in SessionId |-> IF s \in Emptied(m, gone) \ m.tmux
                                    THEN m.armed[s] + 1 ELSE m.armed[s]]

CloseEffect(n, m, dead) ==
  /\ n \in Manager
  /\ n.live = m.live \ dead
  /\ n.clients = [s \in SessionId |-> IF s \in dead THEN {} ELSE m.clients[s]]
  /\ n.owner = [s \in SessionId |-> IF s \in dead THEN NoClient ELSE m.owner[s]]
  /\ n.accepting = m.accepting \ dead
  /\ n.tmux = m.tmux \ dead
  /\ n.orphaned = m.orphaned \ dead
  /\ n.pty = [s \in SessionId |-> IF s \in dead /\ m.pty[s] = "running"
                                  THEN AfterKill(s) ELSE m.pty[s]]
  /\ n.index = [c \in ClientId |->
                  {s \in m.index[c] : s \in dead => c \notin m.clients[s]}]
  /\ n.timer = m.timer \ dead
  /\ n.armed = [s \in SessionId |->
                  IF s \in dead \cap m.timer /\ m.armed[s] > 0
                    THEN m.armed[s] - 1 ELSE m.armed[s]]

AddEffect(n, m, t, c) ==
  /\ n \in Manager
  /\ n.live = m.live
  /\ n.clients = [m.clients EXCEPT ![t] = m.clients[t] \cup {c}]
  /\ \A s \in SessionId \ {t} : n.owner[s] = m.owner[s]
  /\ n.accepting = m.accepting
  /\ n.tmux = m.tmux
  /\ n.orphaned = m.orphaned \ {t}
  /\ n.pty = m.pty
  /\ n.index = [m.index EXCEPT ![c] = m.index[c] \cup {t}]
  /\ n.timer = IF t \in m.orphaned THEN m.timer \ {t} ELSE m.timer
  /\ n.armed = IF t \in m.orphaned
                 THEN [s \in SessionId |->
                         IF s \in {t} \cap m.timer /\ m.armed[s] > 0
                           THEN m.armed[s] - 1 ELSE m.armed[s]]
                 ELSE m.armed

CreateEffect(n, m, t, c, tmux) ==
  /\ n \in Manager
  /\ n.live = m.live \cup {t}
  /\ n.clients = [m.clients EXCEPT ![t] = {c}]
  /\ n.owner = [m.owner EXCEPT ![t] = c]
  /\ n.accepting \ {t} = m.accepting \ {t}
  /\ n.tmux = IF tmux THEN m.tmux \cup {t} ELSE m.tmux \ {t}
  /\ n.orphaned = m.orphaned \ {t}
  /\ n.pty = [m.pty EXCEPT ![t] = "running"]
  /\ n.index = [m.index EXCEPT ![c] = m.index[c] \cup {t}]
  /\ n.timer = m.timer
  /\ n.armed = m.armed

CleanupEffect(n, m) ==
  /\ n \in Manager
  /\ n.live = {}
  /\ n.clients = [s \in SessionId |-> {}]
  /\ n.owner = [s \in SessionId |-> NoClient]
  /\ n.accepting = m.accepting \ m.live
  /\ n.tmux = m.tmux \ m.live
  /\ n.orphaned = m.orphaned \ m.live
  /\ n.pty = [s \in SessionId |-> IF s \in m.live /\ m.pty[s] = "running"
                                  THEN AfterKill(s) ELSE m.pty[s]]
  /\ n.index = [c \in ClientId |-> {}]
  /\ n.timer = {}
  /\ n.armed = [s \in SessionId |-> 0]

-----------------------------------------------------------------------------

LEMMA ClearFields ==
  ASSUME NEW m \in Manager, NEW S
  PROVE  ClearEffect(ClearOrphanTimers(m, S), m, S)
<1>1. [s \in SessionId |-> IF s \in S \cap m.timer /\ m.armed[s] > 0
                             THEN m.armed[s] - 1 ELSE m.armed[s]]
        \in [SessionId -> Nat]
  BY DEF Manager
<1> QED BY <1>1 DEF Manager, ClearOrphanTimers, ClearEffect

LEMMA DetachFields ==
  ASSUME NEW m \in Manager, NEW gone \in [SessionId -> SUBSET ClientId]
  PROVE  DetachEffect(Detach(m, gone), m, gone)
<1> DEFINE clients == [s \in SessionId |-> m.clients[s] \ Leaving(m, gone, s)]
           index == [c \in ClientId |->
                       {s \in m.index[c] : c \notin Leaving(m, gone, s)}]
           emptied == Emptied(m, gone)
           armed == [s \in SessionId |-> IF s \in emptied \ m.tmux
                                           THEN m.armed[s] + 1 ELSE m.armed[s]]
           n == Detach(m, gone)
<1>1. clients \in [SessionId -> SUBSET ClientId]
  BY DEF Manager, Leaving
<1>2. index \in [ClientId -> SUBSET SessionId]
  BY DEF Manager
<1>3. armed \in [SessionId -> Nat]
  BY DEF Manager
<1>4. emptied \subseteq SessionId
  BY DEF Manager, Emptied
<1>5. n = [m EXCEPT !.clients = clients, !.index = index,
                    !.orphaned = m.orphaned \cup emptied,
                    !.timer = m.timer \cup (emptied \ m.tmux),
                    !.armed = armed]
  BY DEF Manager, Detach, HandleOrphaned, Leaving, Emptied
<1> HIDE DEF clients, index, armed, emptied, n
<1>6. n \in Manager
  BY <1>1, <1>2, <1>3, <1>4, <1>5 DEF Manager
<1>7. /\ n.live = m.live /\ n.clients = clients /\ n.owner = m.owner
      /\ n.accepting = m.accepting /\ n.tmux = m.tmux
      /\ n.orphaned = m.orphaned \cup emptied /\ n.pty = m.pty
      /\ n.index = index /\ n.timer = m.timer \cup (emptied \ m.tmux)
      /\ n.armed = armed
  BY <1>5 DEF Manager
<1> QED BY <1>6, <1>7 DEF DetachEffect, clients, index, armed, emptied, n

LEMMA CloseFields ==
  ASSUME NEW m \in Manager, NEW S
  PROVE  CloseEffect(CloseSessions(m, S), m, S \cap m.live)
<1> DEFINE dead == S \cap m.live
           quiet == ClearOrphanTimers(m, dead)
           clients == [s \in SessionId |-> IF s \in dead THEN {}
                                          ELSE quiet.clients[s]]
           owner == [s \in SessionId |-> IF s \in dead THEN NoClient
                                        ELSE quiet.owner[s]]
           index == [c \in ClientId |->
                       {s \in quiet.index[c] :
                          s \in dead => c \notin quiet.clients[s]}]
           pty == [s \in SessionId |->
                     IF s \in dead /\ quiet.pty[s] = "running"
                       THEN AfterKill(s) ELSE quiet.pty[s]]
           n == CloseSessions(m, S)
<1>1. ClearEffect(quiet, m, dead)
  BY ClearFields
<1>2. n = KillPty(Deregister(quiet, dead), dead)
  BY DEF CloseSessions
<1> HIDE DEF dead, quiet, n
<1>3. /\ clients \in [SessionId -> SUBSET ClientId]
      /\ owner \in [SessionId -> ClientId \cup {NoClient}]
      /\ index \in [ClientId -> SUBSET SessionId]
      /\ pty \in [SessionId -> Process]
  BY <1>1 DEF Manager, ClearEffect, Process, AfterKill
<1>4. n = [quiet EXCEPT !.live = quiet.live \ dead, !.clients = clients,
                        !.owner = owner,
                        !.accepting = quiet.accepting \ dead,
                        !.tmux = quiet.tmux \ dead,
                        !.orphaned = quiet.orphaned \ dead,
                        !.index = index, !.pty = pty]
  BY <1>1, <1>2 DEF Manager, KillPty, Deregister, ClearEffect
<1> HIDE DEF clients, owner, index, pty
<1>5. n \in Manager
  BY <1>1, <1>3, <1>4 DEF Manager, ClearEffect
<1>6. /\ n.live = quiet.live \ dead /\ n.clients = clients
      /\ n.owner = owner /\ n.accepting = quiet.accepting \ dead
      /\ n.tmux = quiet.tmux \ dead /\ n.orphaned = quiet.orphaned \ dead
      /\ n.pty = pty /\ n.index = index /\ n.timer = quiet.timer
      /\ n.armed = quiet.armed
  BY <1>1, <1>4 DEF Manager, ClearEffect
<1>7. CloseEffect(n, m, dead)
  BY <1>1, <1>5, <1>6 DEF ClearEffect, CloseEffect, clients, owner, index, pty
<1> QED BY <1>7 DEF dead, n

LEMMA AddFields ==
  ASSUME NEW m \in Manager, NEW t \in SessionId, NEW c \in ClientId, NEW resume
  PROVE  AddEffect(AddClient(m, t, c, resume), m, t, c)
<1> DEFINE q == IF t \in m.orphaned THEN ClearOrphanTimers(m, {t}) ELSE m
           clients == [m.clients EXCEPT ![t] = m.clients[t] \cup {c}]
           owner == [m.owner EXCEPT ![t] = IF resume THEN c ELSE m.owner[t]]
           index == [m.index EXCEPT ![c] = m.index[c] \cup {t}]
           timer == IF t \in m.orphaned THEN m.timer \ {t} ELSE m.timer
           armed == IF t \in m.orphaned
                      THEN [s \in SessionId |->
                              IF s \in {t} \cap m.timer /\ m.armed[s] > 0
                                THEN m.armed[s] - 1 ELSE m.armed[s]]
                      ELSE m.armed
           n == AddClient(m, t, c, resume)
<1>1. /\ q \in Manager
      /\ q.live = m.live /\ q.clients = m.clients /\ q.owner = m.owner
      /\ q.accepting = m.accepting /\ q.tmux = m.tmux
      /\ q.orphaned = m.orphaned /\ q.pty = m.pty /\ q.index = m.index
      /\ q.timer = timer /\ q.armed = armed
  <2>1. CASE t \in m.orphaned
    <3>1. q = ClearOrphanTimers(m, {t})
      BY <2>1
    <3> HIDE DEF q
    <3> QED BY <2>1, <3>1, ClearFields DEF ClearEffect
  <2>2. CASE t \notin m.orphaned
    BY <2>2
  <2> QED BY <2>1, <2>2
<1>2. /\ clients \in [SessionId -> SUBSET ClientId]
      /\ owner \in [SessionId -> ClientId \cup {NoClient}]
      /\ index \in [ClientId -> SUBSET SessionId]
      /\ \A s \in SessionId \ {t} : owner[s] = m.owner[s]
  BY DEF Manager
<1>3. n = [q EXCEPT !.orphaned = q.orphaned \ {t},
                    !.clients[t] = q.clients[t] \cup {c},
                    !.owner[t] = IF resume THEN c ELSE q.owner[t],
                    !.index[c] = q.index[c] \cup {t}]
  BY DEF AddClient
<1> HIDE DEF n, q
<1>4. n = [q EXCEPT !.orphaned = m.orphaned \ {t}, !.clients = clients,
                    !.owner = owner, !.index = index]
  BY <1>1, <1>3 DEF Manager
<1> HIDE DEF clients, owner, index
<1>5. n \in Manager
  BY <1>1, <1>2, <1>4 DEF Manager
<1>6. /\ n.live = m.live /\ n.clients = clients /\ n.owner = owner
      /\ n.accepting = m.accepting /\ n.tmux = m.tmux
      /\ n.orphaned = m.orphaned \ {t} /\ n.pty = m.pty
      /\ n.index = index /\ n.timer = timer /\ n.armed = armed
  BY <1>1, <1>4 DEF Manager
<1> QED BY <1>2, <1>5, <1>6 DEF AddEffect, n, clients, index

LEMMA CreateFields ==
  ASSUME NEW m \in Manager, NEW t \in SessionId, NEW c \in ClientId,
         NEW share, NEW tmux
  PROVE  CreateEffect(CreateSession(m, t, c, share, tmux), m, t, c, tmux)
<1> DEFINE n == CreateSession(m, t, c, share, tmux)
<1>1. n \in Manager
  <2>1. /\ m.live \cup {t} \in SUBSET SessionId
        /\ [m.clients EXCEPT ![t] = {c}] \in [SessionId -> SUBSET ClientId]
        /\ [m.owner EXCEPT ![t] = c] \in [SessionId -> ClientId \cup {NoClient}]
        /\ (IF share THEN m.accepting \cup {t} ELSE m.accepting \ {t})
             \in SUBSET SessionId
        /\ (IF tmux THEN m.tmux \cup {t} ELSE m.tmux \ {t}) \in SUBSET SessionId
        /\ m.orphaned \ {t} \in SUBSET SessionId
    BY DEF Manager
  <2>2. [m.pty EXCEPT ![t] = "running"]
          \in [SessionId -> Process]
    BY DEF Manager, Process
  <2>3. [m.index EXCEPT ![c] = m.index[c] \cup {t}]
          \in [ClientId -> SUBSET SessionId]
    BY DEF Manager
  <2> QED BY <2>1, <2>2, <2>3 DEF Manager, CreateSession
<1> QED BY <1>1 DEF Manager, CreateSession, CreateEffect

-----------------------------------------------------------------------------
(* Every call preserves the invariant.                                      *)

LEMMA FiniteParts ==
  ASSUME NEW m \in Manager
  PROVE  /\ IsFiniteSet(m.live)
         /\ \A s \in SessionId : IsFiniteSet(m.clients[s])
<1>1. /\ m.live \subseteq SessionId
      /\ \A s \in SessionId : m.clients[s] \subseteq ClientId
  BY DEF Manager
<1> QED BY <1>1, ConstantsAssumption, FS_Subset

\* A smaller set of live sessions, and clients that only leave, stay within
\* the limits.
LEMMA FewerWithinLimits ==
  ASSUME NEW m \in Manager, WithinLimits(m), NEW n \in Manager,
         n.live \subseteq m.live,
         \A s \in SessionId : n.clients[s] \subseteq m.clients[s]
  PROVE  WithinLimits(n)
<1>1. Cardinality(n.live) <= MaxSessionsTotal
  <2>1. IsFiniteSet(m.live)
    BY FiniteParts
  <2>2. /\ Cardinality(n.live) <= Cardinality(m.live)
        /\ Cardinality(m.live) \in Nat /\ Cardinality(n.live) \in Nat
    BY <2>1, FS_Subset, FS_CardinalityType
  <2> QED BY <2>2, ConstantsAssumption DEF WithinLimits
<1>2. ASSUME NEW s \in SessionId
      PROVE  Cardinality(n.clients[s]) <= MaxClientsPerSession
  <2>1. IsFiniteSet(m.clients[s])
    BY FiniteParts
  <2>2. /\ Cardinality(n.clients[s]) <= Cardinality(m.clients[s])
        /\ Cardinality(m.clients[s]) \in Nat
        /\ Cardinality(n.clients[s]) \in Nat
    BY <2>1, FS_Subset, FS_CardinalityType
  <2> QED BY <2>2, ConstantsAssumption DEF WithinLimits
<1> QED BY <1>1, <1>2 DEF WithinLimits

LEMMA EmptyInv == MgrInv(EmptyManager)
<1> DEFINE m == EmptyManager
<1>1. m \in Manager
  BY DEF EmptyManager, Manager, Process
<1>2. WithinLimits(m)
  BY FS_EmptySet, ConstantsAssumption DEF EmptyManager, WithinLimits
<1>3. /\ ClearedWhenAbsent(m) /\ IndexMirrorsMembership(m)
      /\ OrphanedIsEmpty(m) /\ OneReaperPerOrphan(m) /\ ProcessIffSession(m)
  BY DEF EmptyManager, ClearedWhenAbsent, IndexMirrorsMembership,
         OrphanedIsEmpty, OneReaperPerOrphan, ProcessIffSession
<1> QED BY <1>1, <1>2, <1>3 DEF MgrInv

\* removeClient and removeClientFromAllSessions.
LEMMA DetachInv ==
  ASSUME NEW m, MgrInv(m), NEW gone \in [SessionId -> SUBSET ClientId]
  PROVE  MgrInv(Detach(m, gone))
<1> DEFINE n == Detach(m, gone)
<1>m. m \in Manager
  BY DEF MgrInv
<1>n. DetachEffect(n, m, gone)
  BY <1>m, DetachFields
<1> HIDE DEF n
<1>1. ClearedWhenAbsent(n)
  BY <1>m, <1>n DEF DetachEffect, Emptied, MgrInv, ClearedWhenAbsent, Manager
<1>2. IndexMirrorsMembership(n)
  BY <1>m, <1>n DEF DetachEffect, Leaving, MgrInv, IndexMirrorsMembership, Manager
<1>3. OrphanedIsEmpty(n)
  <2>1. \A s \in SessionId : s \in n.live =>
           (n.clients[s] = {} <=> s \in m.orphaned \/ s \in Emptied(m, gone))
    BY <1>m, <1>n DEF DetachEffect, Emptied, Leaving, MgrInv, OrphanedIsEmpty,
                      Manager
  <2>2. n.live \subseteq SessionId /\ n.orphaned \subseteq n.live
    BY <1>m, <1>n DEF DetachEffect, Emptied, MgrInv, OrphanedIsEmpty, Manager
  <2> QED BY <1>n, <2>1, <2>2 DEF DetachEffect, OrphanedIsEmpty
<1>4. OneReaperPerOrphan(n)
  <2>1. Emptied(m, gone) \cap m.orphaned = {}
    BY <1>m DEF Emptied, Leaving, MgrInv, OrphanedIsEmpty
  <2> QED BY <1>m, <1>n, <2>1 DEF DetachEffect, MgrInv, OneReaperPerOrphan, Manager
<1>5. WithinLimits(n)
  <2>1. n \in Manager /\ n.live = m.live
        /\ \A s \in SessionId : n.clients[s] \subseteq m.clients[s]
    BY <1>n DEF DetachEffect
  <2> QED BY <1>m, <2>1, FewerWithinLimits DEF MgrInv
<1>6. ProcessIffSession(n)
  BY <1>n DEF DetachEffect, MgrInv, ProcessIffSession
<1>7. n \in Manager
  BY <1>n DEF DetachEffect
<1> QED BY <1>1, <1>2, <1>3, <1>4, <1>5, <1>6, <1>7 DEF MgrInv, n

LEMMA RemoveFromAllInv ==
  ASSUME NEW m, MgrInv(m), NEW D \in SUBSET ClientId
  PROVE  MgrInv(RemoveFromAll(m, D))
BY DetachInv DEF RemoveFromAll

LEMMA RemoveClientInv ==
  ASSUME NEW m, MgrInv(m), NEW t \in SessionId, NEW c \in ClientId
  PROVE  MgrInv(RemoveClient(m, t, c))
BY DetachInv DEF RemoveClient

\* closeSession, whatever the reason.
LEMMA CloseSessionsInv ==
  ASSUME NEW m, MgrInv(m), NEW S
  PROVE  MgrInv(CloseSessions(m, S))
<1> DEFINE dead == S \cap m.live
           n == CloseSessions(m, S)
<1>m. m \in Manager
  BY DEF MgrInv
<1>n. CloseEffect(n, m, dead)
  BY <1>m, CloseFields
<1>d. dead \subseteq m.live
  OBVIOUS
<1> HIDE DEF n, dead
<1>1. ClearedWhenAbsent(n)
  BY <1>m, <1>n DEF CloseEffect, MgrInv, ClearedWhenAbsent, Manager
<1>2. IndexMirrorsMembership(n)
  BY <1>m, <1>n DEF CloseEffect, MgrInv, IndexMirrorsMembership, Manager
<1>3. OrphanedIsEmpty(n)
  BY <1>m, <1>n DEF CloseEffect, MgrInv, OrphanedIsEmpty, Manager
<1>4. OneReaperPerOrphan(n)
  BY <1>m, <1>n DEF CloseEffect, MgrInv, OneReaperPerOrphan, OrphanedIsEmpty,
                    Manager
<1>5. WithinLimits(n)
  <2>1. n \in Manager /\ n.live \subseteq m.live
        /\ \A s \in SessionId : n.clients[s] \subseteq m.clients[s]
    BY <1>n DEF CloseEffect
  <2> QED BY <1>m, <2>1, FewerWithinLimits DEF MgrInv
<1>6. ProcessIffSession(n)
  BY <1>m, <1>n, <1>d
     DEF CloseEffect, MgrInv, ProcessIffSession, AfterKill, Manager
<1>7. n \in Manager
  BY <1>n DEF CloseEffect
<1> QED BY <1>1, <1>2, <1>3, <1>4, <1>5, <1>6, <1>7 DEF MgrInv, n

\* createSession, once its two throws are passed.
LEMMA CreateInv ==
  ASSUME NEW m, MgrInv(m), NEW t \in SessionId, NEW c \in ClientId,
         NEW share, NEW tmux, MayCreate(m, t)
  PROVE  MgrInv(CreateSession(m, t, c, share, tmux))
<1> DEFINE n == CreateSession(m, t, c, share, tmux)
<1>m. m \in Manager /\ t \notin m.live
  BY DEF MgrInv, MayCreate
<1>n. CreateEffect(n, m, t, c, tmux)
  BY <1>m, CreateFields
<1>z. /\ m.clients[t] = {} /\ t \notin m.timer /\ t \notin m.orphaned
      /\ \A d \in ClientId : t \notin m.index[d]
  BY <1>m DEF MgrInv, ClearedWhenAbsent, IndexMirrorsMembership,
              OneReaperPerOrphan, OrphanedIsEmpty
<1> HIDE DEF n
<1>1. ClearedWhenAbsent(n)
  BY <1>m, <1>n DEF CreateEffect, MgrInv, ClearedWhenAbsent, Manager
<1>2. IndexMirrorsMembership(n)
  BY <1>m, <1>n, <1>z DEF CreateEffect, MgrInv, IndexMirrorsMembership, Manager
<1>3. OrphanedIsEmpty(n)
  <2>1. /\ n.live = m.live \cup {t} /\ n.orphaned = m.orphaned \ {t}
        /\ \A s \in SessionId :
             n.clients[s] = IF s = t THEN {c} ELSE m.clients[s]
    BY <1>m, <1>n DEF CreateEffect, Manager
  <2>2. m.orphaned = {s \in m.live : m.clients[s] = {}}
        /\ m.live \subseteq SessionId
    BY <1>m DEF MgrInv, OrphanedIsEmpty, Manager
  <2> QED BY <1>m, <2>1, <2>2 DEF OrphanedIsEmpty
<1>4. OneReaperPerOrphan(n)
  BY <1>m, <1>n, <1>z DEF CreateEffect, MgrInv, OneReaperPerOrphan, Manager
<1>5. WithinLimits(n)
  <2>1. Cardinality(n.live) <= MaxSessionsTotal
    <3>1. IsFiniteSet(m.live)
      BY <1>m, FiniteParts
    <3>2. n.live = m.live \cup {t}
      BY <1>n DEF CreateEffect
    <3>3. /\ Cardinality(n.live) = Cardinality(m.live) + 1
          /\ Cardinality(m.live) \in Nat
      BY <1>m, <3>1, <3>2, FS_AddElement, FS_CardinalityType
    <3> QED BY <3>3, ConstantsAssumption DEF MayCreate, CanCreateSession
  <2>2. \A s \in SessionId : Cardinality(n.clients[s]) <= MaxClientsPerSession
    <3>1. Cardinality({c}) = 1
      BY FS_Singleton
    <3>2. \A s \in SessionId : n.clients[s] = IF s = t THEN {c} ELSE m.clients[s]
      BY <1>m, <1>n DEF CreateEffect, Manager
    <3> QED BY <3>1, <3>2, ConstantsAssumption DEF MgrInv, WithinLimits
  <2> QED BY <2>1, <2>2 DEF WithinLimits
<1>6. ProcessIffSession(n)
  BY <1>m, <1>n DEF CreateEffect, MgrInv, ProcessIffSession, Manager
<1>7. n \in Manager
  BY <1>n DEF CreateEffect
<1> QED BY <1>1, <1>2, <1>3, <1>4, <1>5, <1>6, <1>7 DEF MgrInv, n

\* addClient, once its three refusals are passed.
LEMMA AddInv ==
  ASSUME NEW m, MgrInv(m), NEW t \in SessionId, NEW c \in ClientId,
         NEW resume, CanAddClient(m, t, resume)
  PROVE  MgrInv(AddClient(m, t, c, resume))
<1> DEFINE n == AddClient(m, t, c, resume)
<1>m. m \in Manager /\ t \in m.live
  BY DEF MgrInv, CanAddClient
<1>n. AddEffect(n, m, t, c)
  BY <1>m, AddFields
<1> HIDE DEF n
<1>1. ClearedWhenAbsent(n)
  BY <1>m, <1>n DEF AddEffect, MgrInv, ClearedWhenAbsent, Manager
<1>2. IndexMirrorsMembership(n)
  BY <1>m, <1>n DEF AddEffect, MgrInv, IndexMirrorsMembership, Manager
<1>3. OrphanedIsEmpty(n)
  BY <1>m, <1>n DEF AddEffect, MgrInv, OrphanedIsEmpty, Manager
<1>4. OneReaperPerOrphan(n)
  <2>1. CASE t \in m.orphaned
    BY <1>m, <1>n, <2>1 DEF AddEffect, MgrInv, OneReaperPerOrphan, Manager
  <2>2. CASE t \notin m.orphaned
    BY <1>m, <1>n, <2>2 DEF AddEffect, MgrInv, OneReaperPerOrphan, Manager
  <2> QED BY <2>1, <2>2
<1>5. WithinLimits(n)
  <2>1. IsFiniteSet(m.clients[t])
    BY <1>m, FiniteParts
  <2>2. /\ Cardinality(m.clients[t]) \in Nat
        /\ Cardinality(m.clients[t]) < MaxClientsPerSession
    BY <2>1, FS_CardinalityType DEF CanAddClient
  <2>3. Cardinality(m.clients[t] \cup {c})
          = IF c \in m.clients[t] THEN Cardinality(m.clients[t])
                                  ELSE Cardinality(m.clients[t]) + 1
    BY <2>1, FS_AddElement
  <2>4. n.clients[t] = m.clients[t] \cup {c}
    BY <1>m, <1>n DEF AddEffect, Manager
  <2>5. Cardinality(n.clients[t]) <= MaxClientsPerSession
    BY <2>2, <2>3, <2>4, ConstantsAssumption
  <2> QED BY <1>m, <1>n, <2>5 DEF AddEffect, MgrInv, WithinLimits, Manager
<1>6. ProcessIffSession(n)
  BY <1>n DEF AddEffect, MgrInv, ProcessIffSession
<1>7. n \in Manager
  BY <1>n DEF AddEffect
<1> QED BY <1>1, <1>2, <1>3, <1>4, <1>5, <1>6, <1>7 DEF MgrInv, n

\* Under the invariant a timer that fires finds its session empty, so that the
\* callback does what closeSession does: the handle it clears has fired.
LEMMA FireIsClose ==
  ASSUME NEW m, MgrInv(m), NEW t \in SessionId, m.armed[t] > 0
  PROVE  /\ t \in m.orphaned /\ t \in m.live /\ t \notin m.tmux
         /\ FireOrphanTimer(m, t) = CloseSessions(m, {t})
<1> DEFINE fired == [m EXCEPT !.armed[t] = m.armed[t] - 1]
           n == CloseSessions(fired, {t})
           k == CloseSessions(m, {t})
<1>m. m \in Manager
  BY DEF MgrInv
<1>1. /\ t \in m.timer /\ t \in m.orphaned /\ t \in m.live /\ t \notin m.tmux
      /\ m.clients[t] = {} /\ m.armed[t] = 1
  BY <1>m DEF MgrInv, OneReaperPerOrphan, OrphanedIsEmpty
<1>2. [m.armed EXCEPT ![t] = m.armed[t] - 1] \in [SessionId -> Nat]
  BY <1>m, <1>1 DEF Manager
<1>3. fired \in Manager
  BY <1>m, <1>2 DEF Manager
<1>4. /\ fired.live = m.live /\ fired.clients = m.clients
      /\ fired.owner = m.owner /\ fired.accepting = m.accepting
      /\ fired.tmux = m.tmux /\ fired.orphaned = m.orphaned
      /\ fired.pty = m.pty /\ fired.index = m.index /\ fired.timer = m.timer
      /\ fired.armed = [m.armed EXCEPT ![t] = m.armed[t] - 1]
  BY <1>m DEF Manager
<1>5. FireOrphanTimer(m, t) = n
  BY <1>1 DEF FireOrphanTimer
<1>6. CloseEffect(k, m, {t} \cap m.live)
  BY <1>m, CloseFields
<1> HIDE DEF fired
<1>7. CloseEffect(n, fired, {t} \cap fired.live)
  BY <1>3, CloseFields
<1> HIDE DEF n, k
<1>8. /\ n \in Manager /\ k \in Manager
      /\ n.live = k.live /\ n.clients = k.clients /\ n.owner = k.owner
      /\ n.accepting = k.accepting /\ n.tmux = k.tmux
      /\ n.orphaned = k.orphaned /\ n.pty = k.pty /\ n.index = k.index
      /\ n.timer = k.timer
  BY <1>4, <1>6, <1>7 DEF CloseEffect
<1>9. n.armed = k.armed
  <2>1. \A s \in SessionId : n.armed[s] = k.armed[s]
    BY <1>m, <1>1, <1>4, <1>6, <1>7 DEF CloseEffect, Manager
  <2> QED BY <1>8, <2>1 DEF Manager
<1>10. n = k
  BY <1>8, <1>9 DEF Manager
<1> QED BY <1>1, <1>5, <1>10 DEF k

LEMMA FireInv ==
  ASSUME NEW m, MgrInv(m), NEW t \in SessionId, m.armed[t] > 0
  PROVE  MgrInv(FireOrphanTimer(m, t))
<1>1. FireOrphanTimer(m, t) = CloseSessions(m, {t})
  BY FireIsClose
<1>2. MgrInv(CloseSessions(m, {t}))
  BY CloseSessionsInv
<1> QED BY <1>1, <1>2

LEMMA CleanupFields ==
  ASSUME NEW m, MgrInv(m)
  PROVE  CleanupEffect(Cleanup(m), m)
<1> DEFINE q == ClearOrphanTimers(m, SessionId)
           k == CloseSessions(q, m.live)
           index == [c \in ClientId |-> {}]
           n == Cleanup(m)
<1>m. m \in Manager
  BY DEF MgrInv
<1>1. ClearEffect(q, m, SessionId)
  BY <1>m, ClearFields
<1>2. q.timer = {} /\ q.armed = [s \in SessionId |-> 0]
  BY <1>m, <1>1 DEF ClearEffect, MgrInv, OneReaperPerOrphan, Manager
<1>3. n = [k EXCEPT !.index = index]
  BY DEF Cleanup
<1>4. q \in Manager /\ q.live = m.live
  BY <1>1 DEF ClearEffect
<1> HIDE DEF q
<1>5. CloseEffect(k, q, m.live \cap q.live)
  BY <1>4, CloseFields
<1> HIDE DEF k, n
<1>6. CloseEffect(k, q, m.live)
  <2>1. m.live \cap q.live = m.live
    BY <1>4
  <2> QED BY <1>5, <2>1
<1>7. /\ n \in Manager
      /\ n.live = k.live /\ n.clients = k.clients /\ n.owner = k.owner
      /\ n.accepting = k.accepting /\ n.tmux = k.tmux
      /\ n.orphaned = k.orphaned /\ n.pty = k.pty /\ n.index = index
      /\ n.timer = k.timer /\ n.armed = k.armed
  <2>1. k \in Manager
    BY <1>6 DEF CloseEffect
  <2> QED BY <1>3, <2>1 DEF Manager
<1>8. /\ n.clients = [s \in SessionId |-> {}]
      /\ n.owner = [s \in SessionId |-> NoClient]
  BY <1>m, <1>1, <1>6, <1>7 DEF ClearEffect, CloseEffect, MgrInv,
                                ClearedWhenAbsent
<1>9. n.armed = [s \in SessionId |-> 0] /\ n.timer = {}
  BY <1>2, <1>6, <1>7 DEF CloseEffect
<1>10. /\ n.live = {}
       /\ n.accepting = m.accepting \ m.live
       /\ n.tmux = m.tmux \ m.live
       /\ n.orphaned = m.orphaned \ m.live
  BY <1>1, <1>6, <1>7 DEF ClearEffect, CloseEffect
<1>11. n.pty = [s \in SessionId |-> IF s \in m.live /\ m.pty[s] = "running"
                                   THEN AfterKill(s) ELSE m.pty[s]]
  BY <1>1, <1>6, <1>7 DEF ClearEffect, CloseEffect
<1> QED BY <1>7, <1>8, <1>9, <1>10, <1>11 DEF CleanupEffect, n

\* cleanup() leaves an empty manager.
LEMMA CleanupInv ==
  ASSUME NEW m, MgrInv(m)
  PROVE  MgrInv(Cleanup(m))
<1> DEFINE n == Cleanup(m)
<1>m. m \in Manager
  BY DEF MgrInv
<1>n. CleanupEffect(n, m)
  BY CleanupFields
<1> HIDE DEF n
<1>1. ClearedWhenAbsent(n) /\ n.orphaned = {}
  BY <1>m, <1>n DEF CleanupEffect, MgrInv, ClearedWhenAbsent, OrphanedIsEmpty,
                    Manager
<1>2. IndexMirrorsMembership(n) /\ OrphanedIsEmpty(n) /\ OneReaperPerOrphan(n)
  BY <1>n, <1>1 DEF CleanupEffect, IndexMirrorsMembership, OrphanedIsEmpty,
                    OneReaperPerOrphan
<1>3. WithinLimits(n)
  BY <1>n, FS_EmptySet, ConstantsAssumption DEF CleanupEffect, WithinLimits
<1>4. ProcessIffSession(n)
  BY <1>m, <1>n DEF CleanupEffect, MgrInv, ProcessIffSession, AfterKill, Manager
<1>5. n \in Manager
  BY <1>n DEF CleanupEffect
<1> QED BY <1>1, <1>2, <1>3, <1>4, <1>5 DEF MgrInv, n

-----------------------------------------------------------------------------
(* The theorems.                                                            *)

\* Every step of the manager, a public call or a timer, preserves the invariant.
LEMMA MgrStep == ManagerInv /\ [MgrNext]_mgr => ManagerInv'
<1> USE DEF ManagerInv
<1> SUFFICES ASSUME MgrInv(mgr), [MgrNext]_mgr
             PROVE  MgrInv(mgr')
  OBVIOUS
<1>1. ASSUME NEW s \in SessionId, NEW c \in ClientId, NEW share \in BOOLEAN,
             NEW tmux \in BOOLEAN, Create(s, c, share, tmux)
      PROVE  MgrInv(mgr')
  BY <1>1, CreateInv DEF Create
<1>2. ASSUME NEW s \in SessionId, NEW c \in ClientId, NEW resume \in BOOLEAN,
             Join(s, c, resume)
      PROVE  MgrInv(mgr')
  BY <1>2, AddInv DEF Join
<1>3. ASSUME NEW s \in SessionId, NEW c \in ClientId, Leave(s, c)
      PROVE  MgrInv(mgr')
  BY <1>3, RemoveClientInv DEF Leave
<1>4. ASSUME NEW c \in ClientId, Disconnect(c)
      PROVE  MgrInv(mgr')
  BY <1>4, RemoveFromAllInv DEF Disconnect
<1>5. ASSUME NEW s \in SessionId, NEW slow \in SUBSET ClientId,
             BroadcastDrops(s, slow)
      PROVE  MgrInv(mgr')
  BY <1>5, RemoveFromAllInv DEF BroadcastDrops
<1>6. ASSUME NEW s \in SessionId, Close(s)
      PROVE  MgrInv(mgr')
  BY <1>6, CloseSessionsInv DEF Close
<1>7. ASSUME NEW s \in SessionId, OrphanTimeout(s)
      PROVE  MgrInv(mgr')
  BY <1>7, FireInv DEF OrphanTimeout
<1>8. CASE CleanupAll
  BY <1>8, CleanupInv DEF CleanupAll
<1>9. CASE UNCHANGED mgr
  BY <1>9
<1> QED BY <1>1, <1>2, <1>3, <1>4, <1>5, <1>6, <1>7, <1>8, <1>9 DEF MgrNext

\* The inductive invariant holds in every reachable state of the manager.
THEOREM ManagerInvariant == MgrSafe => []ManagerInv
<1>1. MgrInit => ManagerInv
  BY EmptyInv DEF MgrInit, ManagerInv
<1> QED BY <1>1, MgrStep, PTL DEF MgrSafe

\* The manager's state always has the shape of its maps and sets.
THEOREM ManagerTypeCorrect == MgrSafe => []MgrTypeOK
<1>1. ManagerInv => MgrTypeOK
  BY DEF ManagerInv, MgrInv, MgrTypeOK
<1> QED BY <1>1, ManagerInvariant, PTL

\* clientToSessions and the sessions' client maps never disagree.
THEOREM ManagerIndexInStep == MgrSafe => []IndexInStep
<1>1. ManagerInv => IndexInStep
  BY DEF ManagerInv, MgrInv, IndexInStep
<1> QED BY <1>1, ManagerInvariant, PTL

\* Exactly the orphans that tmux does not keep have a timer, and one each.
THEOREM ManagerReapersExact == MgrSafe => []ReapersExact
<1>1. ManagerInv => ReapersExact
  BY DEF ManagerInv, MgrInv, ReapersExact
<1> QED BY <1>1, ManagerInvariant, PTL

\* Both limits hold for any number of sessions and clients.
THEOREM ManagerLimitsKept == MgrSafe => []LimitsKept
<1>1. ManagerInv => LimitsKept
  BY DEF ManagerInv, MgrInv, LimitsKept
<1> QED BY <1>1, ManagerInvariant, PTL

\* No session is without its process, and no process runs on without a session
\* but one that could not be killed.
THEOREM ManagerProcessesAccounted == MgrSafe => []ProcessesAccounted
<1>1. ManagerInv => ProcessesAccounted
  BY DEF ManagerInv, MgrInv, ProcessesAccounted
<1> QED BY <1>1, ManagerInvariant, PTL

-----------------------------------------------------------------------------
(* What each call looks like through the refinement mapping.                *)

\* Clients that leave abandon the sessions they empty.
LEMMA DetachSeen ==
  ASSUME NEW m, MgrInv(m), NEW gone \in [SessionId -> SUBSET ClientId],
         NEW n, n = Detach(m, gone)
  PROVE  /\ \A s \in Emptied(m, gone) :
              s \in SessionId /\ Status(m)[s] = "attached"
         /\ Status(n) = [s \in SessionId |-> IF s \in Emptied(m, gone)
                                              THEN "orphaned" ELSE Status(m)[s]]
         /\ n.tmux = m.tmux
         /\ Running(n) = Running(m)
<1>m. m \in Manager
  BY DEF MgrInv
<1>n. DetachEffect(n, m, gone)
  BY <1>m, DetachFields
<1>1. ASSUME NEW s \in Emptied(m, gone)
      PROVE  s \in m.live /\ s \notin m.orphaned /\ s \in SessionId
  BY <1>m DEF Emptied, Leaving, MgrInv, OrphanedIsEmpty, Manager
<1>2. ASSUME NEW s \in Emptied(m, gone)
      PROVE  s \in SessionId /\ Status(m)[s] = "attached"
  BY <1>1 DEF Status
<1>3. Status(n) = [s \in SessionId |-> IF s \in Emptied(m, gone)
                                        THEN "orphaned" ELSE Status(m)[s]]
  BY <1>n, <1>1 DEF DetachEffect, Status
<1> QED BY <1>n, <1>2, <1>3 DEF DetachEffect, Running

\* Closing ends the sessions that exist, and their processes.
LEMMA CloseSeen ==
  ASSUME NEW m, MgrInv(m), NEW S, NEW n, n = CloseSessions(m, S)
  PROVE  /\ \A s \in S \cap m.live :
              s \in SessionId /\ Status(m)[s] # "absent"
         /\ Status(n) = [s \in SessionId |-> IF s \in S \cap m.live
                                              THEN "absent" ELSE Status(m)[s]]
         /\ n.tmux = m.tmux \ (S \cap m.live)
         /\ Running(n) = Running(m) \ ((S \cap m.live) \ Unkillable)
<1>m. m \in Manager
  BY DEF MgrInv
<1> DEFINE dead == S \cap m.live
<1>n. CloseEffect(n, m, dead)
  BY <1>m, CloseFields
<1>d. dead \subseteq m.live /\ m.live \subseteq SessionId
  BY <1>m DEF Manager
<1> HIDE DEF dead
<1>1. \A s \in dead : s \in SessionId /\ Status(m)[s] # "absent"
  BY <1>d DEF Status
<1>2. Status(n) = [s \in SessionId |-> IF s \in dead
                                        THEN "absent" ELSE Status(m)[s]]
  BY <1>n DEF CloseEffect, Status
<1>3. Running(n) = Running(m) \ (dead \ Unkillable)
  BY <1>n, <1>d DEF CloseEffect, Running, AfterKill, MgrInv, ProcessIffSession
<1>4. n.tmux = m.tmux \ dead
  BY <1>n DEF CloseEffect
<1> QED BY <1>1, <1>2, <1>3, <1>4 DEF dead

\* Cleaning up ends every session.
LEMMA CleanupSeen ==
  ASSUME NEW m, MgrInv(m), NEW n, n = Cleanup(m)
  PROVE  /\ m.live \subseteq SessionId
         /\ \A s \in m.live : Status(m)[s] # "absent"
         /\ Status(n) = [s \in SessionId |-> IF s \in m.live
                                              THEN "absent" ELSE Status(m)[s]]
         /\ n.tmux = m.tmux \ m.live
         /\ Running(n) = Running(m) \ (m.live \ Unkillable)
<1>m. m \in Manager
  BY DEF MgrInv
<1>n. CleanupEffect(n, m)
  BY CleanupFields
<1>1. Status(n) = [s \in SessionId |-> IF s \in m.live
                                        THEN "absent" ELSE Status(m)[s]]
  BY <1>n DEF CleanupEffect, Status
<1>3. m.live \subseteq SessionId
  BY <1>m DEF Manager
<1>2. Running(n) = Running(m) \ (m.live \ Unkillable)
  BY <1>n, <1>3
     DEF CleanupEffect, Running, AfterKill, MgrInv, ProcessIffSession
<1>4. \A s \in m.live : Status(m)[s] # "absent"
  BY <1>3 DEF Status
<1> QED BY <1>n, <1>1, <1>2, <1>3, <1>4 DEF CleanupEffect

\* A new session is attached and runs.
LEMMA CreateSeen ==
  ASSUME NEW m, MgrInv(m), NEW t \in SessionId, NEW c \in ClientId,
         NEW share, NEW tmux, MayCreate(m, t),
         NEW n, n = CreateSession(m, t, c, share, tmux)
  PROVE  /\ Status(m)[t] = "absent"
         /\ {s \in SessionId : Status(m)[s] # "absent"} = m.live
         /\ Cardinality(m.live) < MaxSessionsTotal
         /\ Status(n) = [Status(m) EXCEPT ![t] = "attached"]
         /\ n.tmux = IF tmux THEN m.tmux \cup {t} ELSE m.tmux
         /\ Running(n) = Running(m) \cup {t}
<1>m. m \in Manager /\ t \notin m.live
  BY DEF MgrInv, MayCreate
<1>n. CreateEffect(n, m, t, c, tmux)
  BY <1>m, CreateFields
<1>z. t \notin m.tmux /\ t \notin m.orphaned
  BY <1>m DEF MgrInv, ClearedWhenAbsent
<1>1. Status(m)[t] = "absent"
  BY <1>m DEF Status
<1>2. {s \in SessionId : Status(m)[s] # "absent"} = m.live
  BY <1>m DEF Status, Manager
<1>3. Cardinality(m.live) < MaxSessionsTotal
  BY DEF MayCreate, CanCreateSession
<1>4. Status(n) = [Status(m) EXCEPT ![t] = "attached"]
  BY <1>n, <1>z DEF CreateEffect, Status
<1>5. n.tmux = IF tmux THEN m.tmux \cup {t} ELSE m.tmux
  <2>1. m.tmux \ {t} = m.tmux
    BY <1>z
  <2>2. n.tmux = IF tmux THEN m.tmux \cup {t} ELSE m.tmux \ {t}
    BY <1>n DEF CreateEffect
  <2> QED BY <2>1, <2>2
<1>6. Running(n) = Running(m) \cup {t}
  BY <1>m, <1>n DEF CreateEffect, Running, Manager
<1> QED BY <1>1, <1>2, <1>3, <1>4, <1>5, <1>6

\* Whoever joins an orphan adopts it; joining an attached session shows nothing.
LEMMA AddSeen ==
  ASSUME NEW m, MgrInv(m), NEW t \in SessionId, NEW c \in ClientId,
         NEW resume, CanAddClient(m, t, resume),
         NEW n, n = AddClient(m, t, c, resume)
  PROVE  /\ t \in m.orphaned => /\ Status(m)[t] = "orphaned"
                                /\ Status(n) = [Status(m) EXCEPT ![t] = "attached"]
         /\ t \notin m.orphaned => Status(n) = Status(m)
         /\ n.tmux = m.tmux
         /\ Running(n) = Running(m)
<1>m. m \in Manager /\ t \in m.live
  BY DEF MgrInv, CanAddClient
<1>n. AddEffect(n, m, t, c)
  BY <1>m, AddFields
<1>1. CASE t \in m.orphaned
  BY <1>m, <1>n, <1>1 DEF AddEffect, Status, Running
<1>2. CASE t \notin m.orphaned
  <2>1. n.orphaned = m.orphaned /\ n.live = m.live
    BY <1>n, <1>2 DEF AddEffect
  <2> QED BY <1>n, <1>2, <2>1 DEF AddEffect, Status, Running
<1> QED BY <1>1, <1>2

-----------------------------------------------------------------------------

\* Removing clients is Abandon, or nothing.
LEMMA DetachStep ==
  ASSUME ManagerInv, NEW gone \in [SessionId -> SUBSET ClientId],
         mgr' = Detach(mgr, gone)
  PROVE  [Lifecycle!Next]_(Lifecycle!vars)
<1> DEFINE S == Emptied(mgr, gone)
<1>1. /\ \A s \in S : s \in SessionId /\ Status(mgr)[s] = "attached"
      /\ Status(mgr') = [s \in SessionId |-> IF s \in S THEN "orphaned"
                                                       ELSE Status(mgr)[s]]
      /\ mgr'.tmux = mgr.tmux
      /\ Running(mgr') = Running(mgr)
  BY DetachSeen DEF ManagerInv
<1> HIDE DEF S
<1>2. CASE S = {}
  <2>1. Status(mgr') = Status(mgr)
    BY <1>1, <1>2 DEF Status
  <2> QED BY <1>1, <2>1 DEF Lifecycle!vars
<1>3. CASE S # {}
  <2>1. Lifecycle!Abandon(S)
    BY <1>1, <1>3 DEF Lifecycle!Abandon
  <2>2. S \in SUBSET SessionId
    BY <1>1
  <2> QED BY <2>1, <2>2 DEF Lifecycle!Next
<1> QED BY <1>2, <1>3

\* Closing sessions is End, or nothing if none of them exists.
LEMMA CloseStep ==
  ASSUME ManagerInv, NEW S, mgr' = CloseSessions(mgr, S)
  PROVE  [Lifecycle!Next]_(Lifecycle!vars)
<1> DEFINE dead == S \cap mgr.live
<1>1. /\ \A s \in dead : s \in SessionId /\ Status(mgr)[s] # "absent"
      /\ Status(mgr') = [s \in SessionId |-> IF s \in dead THEN "absent"
                                                          ELSE Status(mgr)[s]]
      /\ mgr'.tmux = mgr.tmux \ dead
      /\ Running(mgr') = Running(mgr) \ (dead \ Unkillable)
  BY CloseSeen DEF ManagerInv
<1> HIDE DEF dead
<1>2. CASE dead = {}
  <2>1. Status(mgr') = Status(mgr)
    BY <1>1, <1>2 DEF Status
  <2> QED BY <1>1, <1>2, <2>1 DEF Lifecycle!vars
<1>3. CASE dead # {}
  <2>1. Lifecycle!End(dead)
    BY <1>1, <1>3 DEF Lifecycle!End, Lifecycle!Existing
  <2>2. dead \in SUBSET SessionId
    BY <1>1
  <2> QED BY <2>1, <2>2 DEF Lifecycle!Next
<1> QED BY <1>2, <1>3

\* Cleaning up is End of all sessions, or nothing if there is none.
LEMMA CleanupStep ==
  ASSUME ManagerInv, mgr' = Cleanup(mgr)
  PROVE  [Lifecycle!Next]_(Lifecycle!vars)
<1>1. /\ mgr.live \subseteq SessionId
      /\ \A s \in mgr.live : Status(mgr)[s] # "absent"
      /\ Status(mgr') = [s \in SessionId |-> IF s \in mgr.live THEN "absent"
                                                          ELSE Status(mgr)[s]]
      /\ mgr'.tmux = mgr.tmux \ mgr.live
      /\ Running(mgr') = Running(mgr) \ (mgr.live \ Unkillable)
  BY CleanupSeen DEF ManagerInv
<1>2. CASE mgr.live = {}
  <2>1. Status(mgr') = Status(mgr)
    BY <1>1, <1>2 DEF Status
  <2> QED BY <1>1, <1>2, <2>1 DEF Lifecycle!vars
<1>3. CASE mgr.live # {}
  <2>1. Lifecycle!End(mgr.live)
    BY <1>1, <1>3 DEF Lifecycle!End, Lifecycle!Existing
  <2> QED BY <1>1, <2>1 DEF Lifecycle!Next
<1> QED BY <1>2, <1>3

\* The instance has a name of its own for the cardinality of a set.
LEMMA SameCardinality ==
  ASSUME NEW S
  PROVE  Lifecycle!Cardinality(S) = Cardinality(S)
BY DEF Cardinality, Lifecycle!Cardinality, IsFiniteSet, Lifecycle!IsFiniteSet

\* Creating a session is Open.
LEMMA CreateStep ==
  ASSUME ManagerInv, NEW s \in SessionId, NEW c \in ClientId, NEW share,
         NEW tmux, MayCreate(mgr, s),
         mgr' = CreateSession(mgr, s, c, share, tmux)
  PROVE  [Lifecycle!Next]_(Lifecycle!vars)
<1>1. /\ Status(mgr)[s] = "absent"
      /\ {t \in SessionId : Status(mgr)[t] # "absent"} = mgr.live
      /\ Cardinality(mgr.live) < MaxSessionsTotal
      /\ Status(mgr') = [Status(mgr) EXCEPT ![s] = "attached"]
      /\ mgr'.tmux = IF tmux THEN mgr.tmux \cup {s} ELSE mgr.tmux
      /\ Running(mgr') = Running(mgr) \cup {s}
  BY CreateSeen DEF ManagerInv
<1>2. CASE tmux
  <2>1. Lifecycle!Open(s, TRUE)
    BY <1>1, <1>2, SameCardinality DEF Lifecycle!Open, Lifecycle!Existing
  <2> QED BY <2>1 DEF Lifecycle!Next
<1>3. CASE ~tmux
  <2>1. Lifecycle!Open(s, FALSE)
    BY <1>1, <1>3, SameCardinality DEF Lifecycle!Open, Lifecycle!Existing
  <2> QED BY <2>1 DEF Lifecycle!Next
<1> QED BY <1>2, <1>3

\* Every step of the manager is a step of the lifecycle or leaves it alone.
LEMMA LifecycleStep ==
  ASSUME ManagerInv, [MgrNext]_mgr
  PROVE  [Lifecycle!Next]_(Lifecycle!vars)
<1>1. ASSUME NEW s \in SessionId, NEW c \in ClientId, NEW share \in BOOLEAN,
             NEW tmux \in BOOLEAN, Create(s, c, share, tmux)
      PROVE  [Lifecycle!Next]_(Lifecycle!vars)
  BY <1>1, CreateStep DEF Create
<1>2. ASSUME NEW s \in SessionId, NEW c \in ClientId, NEW resume \in BOOLEAN,
             Join(s, c, resume)
      PROVE  [Lifecycle!Next]_(Lifecycle!vars)
  <2>c. CanAddClient(mgr, s, resume) /\ mgr' = AddClient(mgr, s, c, resume)
    BY <1>2 DEF Join
  <2>1. /\ s \in mgr.orphaned =>
             /\ Status(mgr)[s] = "orphaned"
             /\ Status(mgr') = [Status(mgr) EXCEPT ![s] = "attached"]
        /\ s \notin mgr.orphaned => Status(mgr') = Status(mgr)
        /\ mgr'.tmux = mgr.tmux
        /\ Running(mgr') = Running(mgr)
    BY <2>c, AddSeen DEF ManagerInv
  <2>2. CASE s \in mgr.orphaned
    <3>1. Lifecycle!Adopt(s)
      BY <2>1, <2>2 DEF Lifecycle!Adopt
    <3> QED BY <3>1 DEF Lifecycle!Next
  <2>3. CASE s \notin mgr.orphaned
    BY <2>1, <2>3 DEF Lifecycle!vars
  <2> QED BY <2>2, <2>3
<1>3. ASSUME NEW s \in SessionId, NEW c \in ClientId, Leave(s, c)
      PROVE  [Lifecycle!Next]_(Lifecycle!vars)
  BY <1>3, DetachStep DEF Leave, RemoveClient
<1>4. ASSUME NEW D \in SUBSET ClientId, mgr' = RemoveFromAll(mgr, D)
      PROVE  [Lifecycle!Next]_(Lifecycle!vars)
  BY <1>4, DetachStep DEF RemoveFromAll
<1>5. ASSUME NEW c \in ClientId, Disconnect(c)
      PROVE  [Lifecycle!Next]_(Lifecycle!vars)
  BY <1>4, <1>5 DEF Disconnect
<1>6. ASSUME NEW s \in SessionId, NEW slow \in SUBSET ClientId,
             BroadcastDrops(s, slow)
      PROVE  [Lifecycle!Next]_(Lifecycle!vars)
  BY <1>4, <1>6 DEF BroadcastDrops
<1>7. ASSUME NEW s \in SessionId, Close(s)
      PROVE  [Lifecycle!Next]_(Lifecycle!vars)
  BY <1>7, CloseStep DEF Close
<1>8. ASSUME NEW s \in SessionId, OrphanTimeout(s)
      PROVE  [Lifecycle!Next]_(Lifecycle!vars)
  <2>1. mgr' = CloseSessions(mgr, {s})
    BY <1>8, FireIsClose DEF OrphanTimeout, ManagerInv
  <2> QED BY <2>1, CloseStep
<1>9. CASE CleanupAll
  BY <1>9, CleanupStep DEF CleanupAll
<1>10. CASE UNCHANGED mgr
  BY <1>10 DEF Lifecycle!vars, Status, Running
<1> QED BY <1>1, <1>2, <1>3, <1>5, <1>6, <1>7, <1>8, <1>9, <1>10 DEF MgrNext

\* The manager implements the safety part of the lifecycle: its maps, marks and
\* timers never show a session that was abandoned while somebody was in it,
\* adopted when it was not an orphan, or opened beyond the limit, and its
\* process starts and ends with it, unless it cannot be killed.
THEOREM ManagerImplementsLifecycle == MgrSafe => Lifecycle!Safe
<1>1. MgrInit => Lifecycle!Init
  BY DEF MgrInit, EmptyManager, Lifecycle!Init, Status, Running
<1>2. ManagerInv /\ [MgrNext]_mgr => [Lifecycle!Next]_(Lifecycle!vars)
  BY LifecycleStep
<1> QED BY <1>1, <1>2, ManagerInvariant, PTL DEF MgrSafe, Lifecycle!Safe
=============================================================================
