------------------------ MODULE TerminalServerProofs ------------------------
(* The terminal server calls the session manager only in ways that keep its *)
(* invariant, for any number of connections, sessions and any limits: no    *)
(* interleaving of handlers, PTY events, timers, slow clients and shutdown  *)
(* leaves a session without its reaper or a process without its session.    *)
EXTENDS TerminalServer, SessionManagerProofs

-----------------------------------------------------------------------------

LEMMA SlowAreClients ==
  ASSUME NEW slow \in SUBSET SlowClients
  PROVE  slow \in SUBSET ClientId
BY ServerAssumption

\* An identifier that was never issued belongs to no session.
LEMMA FreshMayBeCreated ==
  ASSUME ManagerInv, CanCreateSession(mgr), NEW s \in SessionId \ Issued
  PROVE  MayCreate(mgr, s)
<1>1. mgr.pty[s] = "none"
  BY DEF Issued
<1>2. s \notin mgr.live
  BY <1>1 DEF ManagerInv, MgrInv, ProcessIffSession
<1> QED BY <1>2 DEF MayCreate

\* onExit: the process has exited before its session is closed, if that was not
\* closed already.
LEMMA ExitInv ==
  ASSUME NEW m, MgrInv(m), NEW t \in SessionId
  PROVE  MgrInv(CloseSessions([m EXCEPT !.pty[t] = "exited"], {t}))
<1> DEFINE e == [m EXCEPT !.pty[t] = "exited"]
           n == CloseSessions(e, {t})
           k == CloseSessions(m, {t})
<1>m. m \in Manager
  BY DEF MgrInv
<1>k. MgrInv(k) /\ CloseEffect(k, m, {t} \cap m.live)
  BY <1>m, CloseSessionsInv, CloseFields
<1>e. /\ e \in Manager
      /\ e.live = m.live /\ e.clients = m.clients /\ e.owner = m.owner
      /\ e.accepting = m.accepting /\ e.tmux = m.tmux
      /\ e.orphaned = m.orphaned /\ e.index = m.index /\ e.timer = m.timer
      /\ e.armed = m.armed /\ e.pty = [m.pty EXCEPT ![t] = "exited"]
  BY <1>m DEF Manager, Process
<1> HIDE DEF e, k
<1>n. CloseEffect(n, e, {t} \cap m.live)
  BY <1>e, CloseFields
<1> HIDE DEF n
<1>1. /\ n \in Manager /\ k \in Manager
      /\ n.live = k.live /\ n.clients = k.clients /\ n.owner = k.owner
      /\ n.accepting = k.accepting /\ n.tmux = k.tmux
      /\ n.orphaned = k.orphaned /\ n.index = k.index /\ n.timer = k.timer
      /\ n.armed = k.armed
  BY <1>e, <1>k, <1>n DEF CloseEffect
<1>2. /\ ClearedWhenAbsent(n) /\ IndexMirrorsMembership(n)
      /\ OrphanedIsEmpty(n) /\ OneReaperPerOrphan(n) /\ WithinLimits(n)
  BY <1>1, <1>k DEF MgrInv, ClearedWhenAbsent, IndexMirrorsMembership,
                    OrphanedIsEmpty, OneReaperPerOrphan, WithinLimits
<1>3. ProcessIffSession(n)
  <2>1. \A s \in SessionId : n.pty[s] = IF s = t THEN "exited" ELSE m.pty[s]
    BY <1>m, <1>e, <1>n DEF CloseEffect, Manager
  <2>2. n.live = m.live \ {t}
    BY <1>e, <1>n DEF CloseEffect
  <2> QED BY <2>1, <2>2 DEF MgrInv, ProcessIffSession
<1> QED BY <1>1, <1>2, <1>3 DEF MgrInv, n, e

\* Whatever a request handler does to the manager keeps the invariant.
LEMMA HandlerStep ==
  ASSUME ManagerInv, NEW c \in ClientId, NEW r \in Request,
         HandleIncomingMessage(c, r)
  PROVE  ManagerInv'
<1> USE DEF ManagerInv
<1>0. PICK slow \in SUBSET SlowClients :
        \/ HandleSpawn(c, r, slow)
        \/ HandleFailedSpawn(c, r, slow)
        \/ HandleJoin(c, r, slow)
        \/ HandleLeave(c, r, slow)
        \/ HandleClose(c, r, slow)
        \/ HandleData(c, r, slow)
        \/ HandleRefused(c, r, slow)
  BY DEF HandleIncomingMessage
<1>s. slow \in SUBSET ClientId
  BY SlowAreClients
<1>r. r.kind # "spawn" => r.session \in SessionId
  BY DEF Request, JoinRequest
<1>1. CASE HandleSpawn(c, r, slow)
  <2>1. PICK s \in SessionId \ Issued :
          mgr' = RemoveFromAll(
                   CreateSession(mgr, s, c, r.options.share, r.options.tmux),
                   slow)
    BY <1>1 DEF HandleSpawn, StartSession
  <2>2. MayCreate(mgr, s)
    BY <1>1, FreshMayBeCreated DEF HandleSpawn, StartSession
  <2>3. MgrInv(CreateSession(mgr, s, c, r.options.share, r.options.tmux))
    BY <2>2, CreateInv
  <2> QED BY <1>s, <2>1, <2>3, RemoveFromAllInv
<1>7. CASE HandleFailedSpawn(c, r, slow)
  <2>1. PICK s \in SessionId \ Issued :
          mgr' = RemoveFromAll(
                   CloseSessions(
                     CreateSession(mgr, s, c, r.options.share, r.options.tmux),
                     {s}),
                   slow)
    BY <1>7 DEF HandleFailedSpawn, StartSession
  <2>2. MayCreate(mgr, s)
    BY <1>7, FreshMayBeCreated DEF HandleFailedSpawn
  <2> DEFINE n == CreateSession(mgr, s, c, r.options.share, r.options.tmux)
  <2>3. MgrInv(n)
    BY <2>2, CreateInv
  <2> HIDE DEF n
  <2>4. MgrInv(CloseSessions(n, {s}))
    BY <2>3, CloseSessionsInv
  <2> QED BY <1>s, <2>1, <2>4, RemoveFromAllInv DEF n
<1>2. CASE HandleJoin(c, r, slow)
  <2>1. /\ r.session \in SessionId
        /\ CanAddClient(mgr, r.session, r.token)
        /\ mgr' = RemoveFromAll(AddClient(mgr, r.session, c, r.token), slow)
    BY <1>2, <1>r DEF HandleJoin, MayJoin
  <2>2. MgrInv(AddClient(mgr, r.session, c, r.token))
    BY <2>1, AddInv
  <2> QED BY <1>s, <2>1, <2>2, RemoveFromAllInv
<1>3. CASE HandleLeave(c, r, slow)
  <2>1. /\ r.session \in SessionId
        /\ mgr' = RemoveFromAll(RemoveClient(mgr, r.session, c), slow)
    BY <1>3, <1>r DEF HandleLeave
  <2>2. MgrInv(RemoveClient(mgr, r.session, c))
    BY <2>1, RemoveClientInv
  <2> QED BY <1>s, <2>1, <2>2, RemoveFromAllInv
<1>4. CASE HandleClose(c, r, slow)
  <2>1. MgrInv(RemoveFromAll(mgr, slow))
    BY <1>s, RemoveFromAllInv
  <2> QED BY <1>4, <2>1, CloseSessionsInv DEF HandleClose
<1>5. CASE HandleData(c, r, slow)
  BY <1>5, <1>s, RemoveFromAllInv DEF HandleData
<1>6. CASE HandleRefused(c, r, slow)
  BY <1>6, <1>s, RemoveFromAllInv DEF HandleRefused
<1> QED BY <1>0, <1>1, <1>2, <1>3, <1>4, <1>5, <1>6, <1>7

\* A connection's own events: only a request, a queued request and the close of
\* its socket reach the manager.
LEMMA ConnectionStep ==
  ASSUME ManagerInv, NEW c \in ClientId, queue \in [ClientId -> Seq(Request)],
         \/ Connect(c)
         \/ \E answer \in BOOLEAN : AuthorizeSettles(c, answer)
         \/ QueueRequest(c)
         \/ PreAuthLimit(c)
         \/ OversizedFrame(c)
         \/ Serve(c)
         \/ Drain(c)
         \/ CloseEvent(c)
  PROVE  ManagerInv'
<1>1. CASE Connect(c)
  BY <1>1 DEF Connect, ManagerInv
<1>2. CASE \E answer \in BOOLEAN : AuthorizeSettles(c, answer)
  BY <1>2 DEF AuthorizeSettles, ManagerInv
<1>3. CASE QueueRequest(c)
  BY <1>3 DEF QueueRequest, ManagerInv
<1>4. CASE PreAuthLimit(c)
  BY <1>4 DEF PreAuthLimit, ManagerInv
<1>5. CASE OversizedFrame(c)
  BY <1>5 DEF OversizedFrame, ManagerInv
<1>6. CASE Serve(c)
  BY <1>6, HandlerStep DEF Serve, RequestsOf
<1>7. CASE Drain(c)
  <2>1. Head(queue[c]) \in Request
    BY <1>7 DEF Drain, Draining
  <2> QED BY <1>7, <2>1, HandlerStep DEF Drain
<1>8. CASE CloseEvent(c)
  BY <1>8, RemoveFromAllInv DEF CloseEvent, ManagerInv
<1> QED BY <1>1, <1>2, <1>3, <1>4, <1>5, <1>6, <1>7, <1>8

\* What sessions, timers and the server do on their own.
LEMMA SessionStep ==
  ASSUME ManagerInv, NEW s \in SessionId,
         PtyOutput(s) \/ PtyExit(s) \/ OrphanTimerFires(s) \/ GoIdle(s)
  PROVE  ManagerInv'
<1> USE DEF ManagerInv
<1>1. CASE PtyOutput(s)
  BY <1>1, SlowAreClients, RemoveFromAllInv DEF PtyOutput
<1>2. CASE PtyExit(s)
  <2>1. PICK slow \in SUBSET SlowClients :
          mgr' = CloseSessions([RemoveFromAll(mgr, slow) EXCEPT
                                  !.pty[s] = "exited"], {s})
    BY <1>2 DEF PtyExit
  <2> DEFINE m == RemoveFromAll(mgr, slow)
  <2>2. MgrInv(m)
    BY SlowAreClients, RemoveFromAllInv
  <2> HIDE DEF m
  <2>3. MgrInv(CloseSessions([m EXCEPT !.pty[s] = "exited"], {s}))
    BY <2>2, ExitInv
  <2> QED BY <2>1, <2>3 DEF m
<1>3. CASE OrphanTimerFires(s)
  BY <1>3, FireInv DEF OrphanTimerFires
<1>4. CASE GoIdle(s)
  BY <1>4 DEF GoIdle
<1> QED BY <1>1, <1>2, <1>3, <1>4

\* What is queued are requests: the only thing of the server's own state that
\* the manager's invariant depends on.
ServerInv == ManagerInv /\ queue \in [ClientId -> Seq(Request)]

LEMMA QueueStep ==
  ASSUME queue \in [ClientId -> Seq(Request)], [ServerNext]_vars
  PROVE  queue' \in [ClientId -> Seq(Request)]
<1>e. <<>> \in Seq(Request)
  OBVIOUS
<1>1. ASSUME NEW c \in ClientId, QueueRequest(c)
      PROVE  queue' \in [ClientId -> Seq(Request)]
  <2>1. PICK r \in Request : queue' = [queue EXCEPT ![c] = Append(queue[c], r)]
    BY <1>1 DEF QueueRequest, RequestsOf
  <2>2. Append(queue[c], r) \in Seq(Request)
    OBVIOUS
  <2> QED BY <2>1, <2>2
<1>2. ASSUME NEW c \in ClientId, Drain(c)
      PROVE  queue' \in [ClientId -> Seq(Request)]
  <2>1. queue[c] # <<>> /\ queue' = [queue EXCEPT ![c] = Tail(queue[c])]
    BY <1>2 DEF Drain, Draining
  <2>2. Tail(queue[c]) \in Seq(Request)
    BY <2>1
  <2> QED BY <2>1, <2>2
<1>3. ASSUME NEW C, RejectGate(C)
      PROVE  queue' \in [ClientId -> Seq(Request)]
  BY <1>3, <1>e DEF RejectGate
<1>4. ASSUME NEW c \in ClientId, NEW answer \in BOOLEAN,
             AuthorizeSettles(c, answer)
      PROVE  queue' \in [ClientId -> Seq(Request)]
  BY <1>3, <1>4 DEF AuthorizeSettles
<1>5. ASSUME NEW loads \in BOOLEAN, RuntimeSettles(loads)
      PROVE  queue' \in [ClientId -> Seq(Request)]
  BY <1>3, <1>5 DEF RuntimeSettles
<1>6. ASSUME NEW c \in ClientId, PreAuthLimit(c)
      PROVE  queue' \in [ClientId -> Seq(Request)]
  BY <1>3, <1>6 DEF PreAuthLimit
<1>7. ASSUME NEW c \in ClientId,
             Connect(c) \/ OversizedFrame(c) \/ Serve(c) \/ CloseEvent(c)
      PROVE  queue' \in [ClientId -> Seq(Request)]
  BY <1>7 DEF Connect, OversizedFrame, Serve, CloseEvent
<1>8. ASSUME NEW s \in SessionId,
             PtyOutput(s) \/ PtyExit(s) \/ OrphanTimerFires(s) \/ GoIdle(s)
      PROVE  queue' \in [ClientId -> Seq(Request)]
  BY <1>8 DEF PtyOutput, PtyExit, OrphanTimerFires, GoIdle, unchangedByPty
<1>9. CASE CleanupSessions \/ Shutdown
  BY <1>9 DEF CleanupSessions, Shutdown, unchangedByPty
<1>10. CASE UNCHANGED vars
  BY <1>10 DEF vars, connVars
<1> QED BY <1>1, <1>2, <1>4, <1>5, <1>6, <1>7, <1>8, <1>9, <1>10 DEF ServerNext

LEMMA ServerStep == ServerInv /\ [ServerNext]_vars => ServerInv'
<1> SUFFICES ASSUME ServerInv, [ServerNext]_vars
             PROVE  ManagerInv'
  BY QueueStep DEF ServerInv
<1> USE DEF ServerInv
<1>1. ASSUME NEW c \in ClientId,
             \/ Connect(c)
             \/ \E answer \in BOOLEAN : AuthorizeSettles(c, answer)
             \/ QueueRequest(c)
             \/ PreAuthLimit(c)
             \/ OversizedFrame(c)
             \/ Serve(c)
             \/ Drain(c)
             \/ CloseEvent(c)
      PROVE  ManagerInv'
  BY <1>1, ConnectionStep
<1>2. ASSUME NEW loads \in BOOLEAN, RuntimeSettles(loads)
      PROVE  ManagerInv'
  BY <1>2 DEF RuntimeSettles, ManagerInv
<1>3. ASSUME NEW s \in SessionId,
             PtyOutput(s) \/ PtyExit(s) \/ OrphanTimerFires(s) \/ GoIdle(s)
      PROVE  ManagerInv'
  BY <1>3, SessionStep
<1>4. CASE CleanupSessions
  <2>1. PICK slow \in SUBSET SlowClients :
          mgr' = CloseSessions(RemoveFromAll(mgr, slow), idle)
    BY <1>4 DEF CleanupSessions
  <2>2. MgrInv(RemoveFromAll(mgr, slow))
    BY SlowAreClients, RemoveFromAllInv DEF ManagerInv
  <2> QED BY <2>1, <2>2, CloseSessionsInv DEF ManagerInv
<1>5. CASE Shutdown
  BY <1>5, CleanupInv DEF Shutdown, ManagerInv
<1>6. CASE UNCHANGED vars
  BY <1>6 DEF vars, ManagerInv
<1> QED BY <1>1, <1>2, <1>3, <1>4, <1>5, <1>6 DEF ServerNext

\* In every reachable state of the server the manager's invariant holds.
THEOREM ServerKeepsManagerInv == ServerSafe => []ManagerInv
<1>1. ServerInit => ServerInv
  BY EmptyInv DEF ServerInit, MgrInit, ServerInv, ManagerInv
<1>2. ServerInv => ManagerInv
  BY DEF ServerInv
<1> QED BY <1>1, <1>2, ServerStep, PTL DEF ServerSafe

\* However handlers, timers, drops and shutdown interleave, an orphan without
\* tmux has exactly one timer and no other session has any.
THEOREM ServerReapersExact == ServerSafe => []ReapersExact
<1>1. ManagerInv => ReapersExact
  BY DEF ManagerInv, MgrInv, ReapersExact
<1> QED BY <1>1, ServerKeepsManagerInv, PTL

\* However they interleave, a process runs exactly while its session exists,
\* unless it cannot be killed.
THEOREM ServerProcessesAccounted == ServerSafe => []ProcessesAccounted
<1>1. ManagerInv => ProcessesAccounted
  BY DEF ManagerInv, MgrInv, ProcessesAccounted
<1> QED BY <1>1, ServerKeepsManagerInv, PTL

-----------------------------------------------------------------------------
(* The orphan timer. *)

\* The callback ends its own session and no other.
LEMMA FireEndsOne ==
  ASSUME ManagerInv, NEW t \in SessionId, OrphanTimerFires(t)
  PROVE  mgr.live \ mgr'.live = {t} /\ t \in mgr.orphaned \ mgr.tmux
<1>1. /\ mgr \in Manager /\ t \in mgr.live /\ t \in mgr.orphaned \ mgr.tmux
      /\ mgr' = CloseSessions(mgr, {t})
  BY FireIsClose DEF OrphanTimerFires, ManagerInv, MgrInv
<1>2. CloseEffect(mgr', mgr, {t} \cap mgr.live)
  BY <1>1, CloseFields
<1>3. mgr'.live = mgr.live \ ({t} \cap mgr.live)
  BY <1>2 DEF CloseEffect
<1> QED BY <1>1, <1>3

\* Only the callback gives a session the reason "orphan_timeout".
LEMMA TimerStep ==
  ASSUME ManagerInv, [ServerNext]_vars, NEW s \in SessionId,
         ended[s] = "none", ended'[s] = "orphan_timeout"
  PROVE  s \in mgr.orphaned \ mgr.tmux
<1>1. ASSUME NEW m, NEW S, NEW reason, Closing(m, S, reason)
      PROVE  s \in S /\ reason = "orphan_timeout"
  BY <1>1 DEF Closing
<1>2. ended' # ended
  OBVIOUS
<1>3. ASSUME NEW c \in ClientId, NEW r, HandleIncomingMessage(c, r)
      PROVE  FALSE
  <2>1. PICK slow \in SUBSET SlowClients :
          \/ HandleSpawn(c, r, slow)
          \/ HandleFailedSpawn(c, r, slow)
          \/ HandleJoin(c, r, slow)
          \/ HandleLeave(c, r, slow)
          \/ HandleClose(c, r, slow)
          \/ HandleData(c, r, slow)
          \/ HandleRefused(c, r, slow)
    BY <1>3 DEF HandleIncomingMessage
  <2>2. CASE HandleClose(c, r, slow)
    BY <1>1, <2>2 DEF HandleClose
  <2>3. CASE HandleFailedSpawn(c, r, slow)
    BY <1>1, <2>3 DEF HandleFailedSpawn
  <2> QED BY <1>2, <2>1, <2>2, <2>3 DEF HandleSpawn, HandleJoin, HandleLeave,
                                  HandleData, HandleRefused
<1>4. ASSUME NEW c \in ClientId, Serve(c) \/ Drain(c)
      PROVE  FALSE
  BY <1>3, <1>4 DEF Serve, Drain
<1>5. ASSUME NEW c \in ClientId,
             \/ Connect(c)
             \/ \E answer \in BOOLEAN : AuthorizeSettles(c, answer)
             \/ QueueRequest(c)
             \/ PreAuthLimit(c)
             \/ OversizedFrame(c)
             \/ CloseEvent(c)
      PROVE  FALSE
  BY <1>2, <1>5 DEF Connect, AuthorizeSettles, QueueRequest, PreAuthLimit,
                    OversizedFrame, CloseEvent
<1>6. ASSUME NEW loads \in BOOLEAN, RuntimeSettles(loads)
      PROVE  FALSE
  BY <1>2, <1>6 DEF RuntimeSettles
<1>7. ASSUME NEW t \in SessionId, PtyOutput(t) \/ PtyExit(t) \/ GoIdle(t)
      PROVE  FALSE
  BY <1>1, <1>2, <1>7 DEF PtyOutput, PtyExit, GoIdle
<1>8. ASSUME NEW t \in SessionId, OrphanTimerFires(t)
      PROVE  s \in mgr.orphaned \ mgr.tmux
  <2>1. mgr.live \ mgr'.live = {t} /\ t \in mgr.orphaned \ mgr.tmux
    BY <1>8, FireEndsOne
  <2>2. s \in mgr.live \ mgr'.live
    BY <1>1, <1>8 DEF OrphanTimerFires
  <2> QED BY <2>1, <2>2
<1>9. CASE CleanupSessions \/ Shutdown
  BY <1>1, <1>9 DEF CleanupSessions, Shutdown
<1>10. CASE UNCHANGED vars
  BY <1>2, <1>10 DEF vars
<1> QED BY <1>4, <1>5, <1>6, <1>7, <1>8, <1>9, <1>10 DEF ServerNext

\* The orphan timer never takes a session somebody has come back to, nor one
\* that tmux keeps.
THEOREM ServerTimerTakesOnlyOrphans == ServerSafe => TimerTakesOnlyOrphans
<1>1. ManagerInv /\ [ServerNext]_vars
        => [\A s \in SessionId :
              ended[s] = "none" /\ ended'[s] = "orphan_timeout"
                => s \in mgr.orphaned \ mgr.tmux]_vars
  BY TimerStep
<1> QED BY <1>1, ServerKeepsManagerInv, PTL DEF ServerSafe, TimerTakesOnlyOrphans
=============================================================================
