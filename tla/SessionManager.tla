--------------------------- MODULE SessionManager ---------------------------
(* The session manager of the server (src/server/session-manager.ts): which *)
(* sessions exist, who is in each, the reverse index from client to         *)
(* sessions, and the timers that reap orphaned sessions.                    *)
(*                                                                          *)
(* The manager is one JavaScript object whose public calls run to           *)
(* completion, so its whole state is the record `mgr` and every call is an  *)
(* operator from a record to a record.  Handlers of the terminal server     *)
(* that make several calls in one turn compose these operators.             *)
EXTENDS Naturals, FiniteSets

CONSTANTS SessionId,             \* session identifiers
          ClientId,              \* client identifiers
          NoClient,              \* the owner of an absent session
          MaxClientsPerSession,  \* option maxClientsPerSession
          MaxSessionsTotal,      \* option maxSessionsTotal
          Unkillable             \* sessions whose process's kill() throws

ASSUME ConstantsAssumption ==
  /\ NoClient \notin ClientId
  /\ IsFiniteSet(SessionId)
  /\ IsFiniteSet(ClientId)
  /\ MaxClientsPerSession \in Nat \ {0}
  /\ MaxSessionsTotal \in Nat \ {0}
  /\ Unkillable \subseteq SessionId

VARIABLE mgr

\* The process of the latest session with an identifier.  A stray one runs on
\* although its session is gone.
Process == {"none", "running", "killed", "stray", "exited"}

(* sessions, and per session: clients, owner, accepting, useTmux, orphanedAt *)
(* and pty; clientToSessions; orphanTimers (the map) and, apart from it, the *)
(* number of setTimeout callbacks the runtime still holds for a session, so  *)
(* that a timer whose handle was lost stays visible.                         *)
Manager ==
  [live      : SUBSET SessionId,
   clients   : [SessionId -> SUBSET ClientId],
   owner     : [SessionId -> ClientId \cup {NoClient}],
   accepting : SUBSET SessionId,
   tmux      : SUBSET SessionId,
   orphaned  : SUBSET SessionId,
   pty       : [SessionId -> Process],
   index     : [ClientId -> SUBSET SessionId],
   timer     : SUBSET SessionId,
   armed     : [SessionId -> Nat]]

EmptyManager ==
  [live      |-> {},
   clients   |-> [s \in SessionId |-> {}],
   owner     |-> [s \in SessionId |-> NoClient],
   accepting |-> {},
   tmux      |-> {},
   orphaned  |-> {},
   pty       |-> [s \in SessionId |-> "none"],
   index     |-> [c \in ClientId |-> {}],
   timer     |-> {},
   armed     |-> [s \in SessionId |-> 0]]

-----------------------------------------------------------------------------
(* The calls, as functions of the manager's state. *)

CanCreateSession(m) == Cardinality(m.live) < MaxSessionsTotal

\* The two early throws of createSession: the cap, and an identifier in use.
MayCreate(m, s) == CanCreateSession(m) /\ s \notin m.live

CreateSession(m, s, c, share, tmux) ==
  [m EXCEPT !.live = @ \cup {s},
            !.clients[s] = {c},
            !.owner[s] = c,
            !.accepting = IF share THEN @ \cup {s} ELSE @ \ {s},
            !.tmux = IF tmux THEN @ \cup {s} ELSE @ \ {s},
            !.orphaned = @ \ {s},
            !.pty[s] = "running",
            !.index[c] = @ \cup {s}]

\* clearTimeout and forgetting the handle.  Without a handle in the map there
\* is nothing to clear; clearing a timer that already fired is a no-op.
ClearOrphanTimers(m, S) ==
  [m EXCEPT !.timer = @ \ S,
            !.armed = [s \in SessionId |->
                         IF s \in S \cap m.timer /\ m.armed[s] > 0
                           THEN m.armed[s] - 1 ELSE m.armed[s]]]

\* Mutant: an orphaned session is open to anybody.
MutCanJoinSession(m, s, ownerResume) ==
  s \in m.accepting \/ ownerResume \/ m.clients[s] = {}

CanJoinSession(m, s, ownerResume) == s \in m.accepting \/ ownerResume

\* Mutant: the size test is off by one.
MutCanAddClient(m, s, ownerResume) ==
  /\ s \in m.live
  /\ CanJoinSession(m, s, ownerResume)
  /\ Cardinality(m.clients[s]) <= MaxClientsPerSession

\* Every condition under which addClient answers true.  The size test counts a
\* client that is already a member as one more, as the code does.
CanAddClient(m, s, ownerResume) ==
  /\ s \in m.live
  /\ CanJoinSession(m, s, ownerResume)
  /\ Cardinality(m.clients[s]) < MaxClientsPerSession

\* Mutant: the timer stays armed when somebody comes back.
MutAddClientKeepsTimer(m, s, c, ownerResume) ==
  [m EXCEPT !.orphaned = @ \ {s},
            !.clients[s] = @ \cup {c},
            !.owner[s] = IF ownerResume THEN c ELSE @,
            !.index[c] = @ \cup {s}]

AddClient(m, s, c, ownerResume) ==
  LET woken == IF s \in m.orphaned THEN ClearOrphanTimers(m, {s}) ELSE m
  IN [woken EXCEPT !.orphaned = @ \ {s},
                   !.clients[s] = @ \cup {c},
                   !.owner[s] = IF ownerResume THEN c ELSE @,
                   !.index[c] = @ \cup {s}]

\* Mutant: the orphan is marked and no timer is armed.
MutHandleOrphanedNoTimer(m, S) == [m EXCEPT !.orphaned = @ \cup S]

\* Mutant: tmux sessions get a timer too.
MutHandleOrphanedTmux(m, S) ==
  [m EXCEPT !.orphaned = @ \cup S,
            !.timer = @ \cup S,
            !.armed = [s \in SessionId |-> IF s \in S THEN m.armed[s] + 1
                                                    ELSE m.armed[s]]]

\* handleOrphanedSession for every session of S: tmux sessions get no timer.
HandleOrphaned(m, S) ==
  LET timed == S \ m.tmux
  IN [m EXCEPT !.orphaned = @ \cup S,
               !.timer = @ \cup timed,
               !.armed = [s \in SessionId |->
                            IF s \in timed THEN m.armed[s] + 1
                                           ELSE m.armed[s]]]

\* Mutant: clients leave the sessions' maps and stay in the reverse index.
MutDetach(m, gone) ==
  LET left(s) == IF s \in m.live THEN m.clients[s] \cap gone[s] ELSE {}
  IN HandleOrphaned(
       [m EXCEPT !.clients = [s \in SessionId |-> m.clients[s] \ left(s)]],
       {s \in m.live : left(s) # {} /\ m.clients[s] \ gone[s] = {}})

\* removeClient for every session s and every client of gone[s] that is in s;
\* the sessions it empties become orphans.  Removals commute, so one operator
\* stands for any sequence of them within a turn.
Detach(m, gone) ==
  LET left(s) == IF s \in m.live THEN m.clients[s] \cap gone[s] ELSE {}
      emptied == {s \in m.live : left(s) # {} /\ m.clients[s] \ gone[s] = {}}
  IN HandleOrphaned(
       [m EXCEPT
          !.clients = [s \in SessionId |-> m.clients[s] \ left(s)],
          !.index = [c \in ClientId |->
                       {s \in m.index[c] : c \notin left(s)}]],
       emptied)

RemoveClient(m, s, c) ==
  Detach(m, [t \in SessionId |-> IF t = s THEN {c} ELSE {}])

\* removeClientFromAllSessions looks the sessions up in the index.
RemoveFromAll(m, D) ==
  Detach(m, [s \in SessionId |-> {c \in D : s \in m.index[c]}])

\* closeSession drops the session from both maps, marks and owner with it.
Deregister(m, dead) ==
  [m EXCEPT
     !.live = @ \ dead,
     !.clients = [s \in SessionId |-> IF s \in dead THEN {} ELSE m.clients[s]],
     !.owner = [s \in SessionId |-> IF s \in dead THEN NoClient ELSE m.owner[s]],
     !.accepting = @ \ dead,
     !.tmux = @ \ dead,
     !.orphaned = @ \ dead,
     !.index = [c \in ClientId |->
                  {s \in m.index[c] : s \in dead => c \notin m.clients[s]}]]

\* If kill() throws, that is logged and the process runs on.
AfterKill(s) == IF s \in Unkillable THEN "stray" ELSE "killed"

\* pty.kill(); a process that has exited by itself stays exited.
KillPty(m, dead) ==
  [m EXCEPT !.pty = [s \in SessionId |->
                       IF s \in dead /\ m.pty[s] = "running"
                         THEN AfterKill(s) ELSE m.pty[s]]]

\* Mutant: the process of a closed session is not killed.
MutCloseSessionsNoKill(m, S) ==
  LET dead == S \cap m.live
  IN Deregister(ClearOrphanTimers(m, dead), dead)

\* closeSession for every session of S that exists.
CloseSessions(m, S) ==
  LET dead == S \cap m.live
  IN KillPty(Deregister(ClearOrphanTimers(m, dead), dead), dead)

\* The callback of an orphan timer.
FireOrphanTimer(m, s) ==
  LET fired == [m EXCEPT !.armed[s] = @ - 1]
  IN IF m.clients[s] = {} THEN CloseSessions(fired, {s}) ELSE fired

Cleanup(m) ==
  [CloseSessions(ClearOrphanTimers(m, SessionId), m.live)
     EXCEPT !.index = [c \in ClientId |-> {}]]

-----------------------------------------------------------------------------
(* The manager on its own: its public calls in any order, from any caller,  *)
(* and the timers it arms.                                                  *)

MgrInit == mgr = EmptyManager

Create(s, c, share, tmux) ==
  /\ MayCreate(mgr, s)
  /\ mgr' = CreateSession(mgr, s, c, share, tmux)

Join(s, c, ownerResume) ==
  /\ CanAddClient(mgr, s, ownerResume)
  /\ mgr' = AddClient(mgr, s, c, ownerResume)

Leave(s, c) ==
  /\ s \in mgr.live
  /\ c \in mgr.clients[s]
  /\ mgr' = RemoveClient(mgr, s, c)

Disconnect(c) ==
  /\ mgr.index[c] # {}
  /\ mgr' = RemoveFromAll(mgr, {c})

\* A broadcast finds some recipients over their output limit: each of them is
\* removed from every session it is in, not only from this one.
BroadcastDrops(s, slow) ==
  /\ s \in mgr.live
  /\ slow # {}
  /\ slow \subseteq mgr.clients[s]
  /\ mgr' = RemoveFromAll(mgr, slow)

Close(s) ==
  /\ s \in mgr.live
  /\ mgr' = CloseSessions(mgr, {s})

OrphanTimeout(s) ==
  /\ mgr.armed[s] > 0
  /\ mgr' = FireOrphanTimer(mgr, s)

CleanupAll == mgr' = Cleanup(mgr)

MgrNext ==
  \/ \E s \in SessionId, c \in ClientId, share \in BOOLEAN, tmux \in BOOLEAN :
       Create(s, c, share, tmux)
  \/ \E s \in SessionId, c \in ClientId, ownerResume \in BOOLEAN :
       Join(s, c, ownerResume)
  \/ \E s \in SessionId, c \in ClientId : Leave(s, c)
  \/ \E c \in ClientId : Disconnect(c)
  \/ \E s \in SessionId, slow \in SUBSET ClientId : BroadcastDrops(s, slow)
  \/ \E s \in SessionId : Close(s)
  \/ \E s \in SessionId : OrphanTimeout(s)
  \/ CleanupAll

MgrSafe == MgrInit /\ [][MgrNext]_mgr

\* The runtime fires an armed timer that nobody clears; no call is owed.
MgrSpec == MgrSafe /\ \A s \in SessionId : WF_mgr(OrphanTimeout(s))

-----------------------------------------------------------------------------
(* Properties.  Each is stated of a record, so that the terminal server,    *)
(* which keeps the same record, can state it too.                           *)

\* The manager's state has the shape of its maps and sets.
MgrTypeOK == mgr \in Manager

\* An absent session has left nothing behind: no client, owner, flag or orphan
\* mark that a later session or a late timer could see.
ClearedWhenAbsent(m) ==
  \A s \in SessionId \ m.live :
    /\ m.clients[s] = {}
    /\ m.owner[s] = NoClient
    /\ s \notin m.accepting \cup m.tmux \cup m.orphaned

\* clientToSessions and the sessions' client maps say the same: every path
\* that touches one (create, join, leave, disconnect, slow drop, close,
\* cleanup) keeps the other in step, so a disconnect reaches every session the
\* client is in and the per-client session count is right.
IndexMirrorsMembership(m) ==
  \A s \in SessionId, c \in ClientId :
    c \in m.clients[s] <=> s \in m.index[c]

\* A session is marked orphaned exactly while it exists and nobody is in it.
OrphanedIsEmpty(m) == m.orphaned = {s \in m.live : m.clients[s] = {}}

\* One reaper is armed for every orphan that tmux does not keep, with its
\* handle in the map, and none for any other session: no timer survives a
\* rejoin or a close, is armed twice, or loses its handle.
OneReaperPerOrphan(m) ==
  /\ m.timer = m.orphaned \ m.tmux
  /\ \A s \in SessionId : m.armed[s] = (IF s \in m.timer THEN 1 ELSE 0)

\* Neither the sessions nor the clients of one session exceed their limits.
WithinLimits(m) ==
  /\ Cardinality(m.live) <= MaxSessionsTotal
  /\ \A s \in SessionId : Cardinality(m.clients[s]) <= MaxClientsPerSession

\* A process runs exactly while its session is registered: closing never
\* forgets a session without killing its process, and the only process that
\* outlives its session is one whose kill() threw.
ProcessIffSession(m) ==
  \A s \in SessionId :
    /\ m.pty[s] = "running" <=> s \in m.live
    /\ m.pty[s] = "stray" => s \in Unkillable

\* The inductive invariant: the above hold together, and only together are
\* they preserved (a reaper is exact only if membership and the orphan marks
\* are, and an absent identifier can be used again only if it is cleared).
MgrInv(m) ==
  /\ m \in Manager
  /\ ClearedWhenAbsent(m)
  /\ IndexMirrorsMembership(m)
  /\ OrphanedIsEmpty(m)
  /\ OneReaperPerOrphan(m)
  /\ WithinLimits(m)
  /\ ProcessIffSession(m)

\* The state forms of the properties above, for the runs and the theorems.
ManagerInv == MgrInv(mgr)
IndexInStep == IndexMirrorsMembership(mgr)
ReapersExact == OrphanedIsEmpty(mgr) /\ OneReaperPerOrphan(mgr)
LimitsKept == WithinLimits(mgr)
ProcessesAccounted == ProcessIffSession(mgr)

\* A session as the abstract specification sees it.
Status(m) ==
  [s \in SessionId |-> IF s \notin m.live THEN "absent"
                       ELSE IF s \in m.orphaned THEN "orphaned"
                       ELSE "attached"]

Running(m) == {s \in SessionId : m.pty[s] \in {"running", "stray"}}

\* The manager implements SessionLifecycle: the orphan mark, the timers and
\* the two maps together behave like a session that is absent, attached or
\* orphaned, whose process lives as long as it does, or longer if it cannot be
\* killed, and which, without tmux, does not stay orphaned for ever.
Lifecycle == INSTANCE SessionLifecycle WITH
  Session     <- SessionId,
  MaxSessions <- MaxSessionsTotal,
  Stubborn    <- Unkillable,
  status      <- Status(mgr),
  persistent  <- mgr.tmux,
  running     <- Running(mgr)

ImplementsLifecycle == Lifecycle!Spec
=============================================================================
