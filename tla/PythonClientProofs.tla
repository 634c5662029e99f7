------------------------- MODULE PythonClientProofs -------------------------
(* What holds of the Python client for any number of sessions, requests,    *)
(* attempts and messages on the way: connect() and the reconnect loop share *)
(* one connection, which is announced only when it can be used and only     *)
(* with the session rejoined; disconnect() is final; answers that come in   *)
(* order are told apart by it.                                              *)
EXTENDS PythonClient, TLAPS

-----------------------------------------------------------------------------
(* The connection: who may change it. *)

Holding == {"dialing", "closing", "dialed", "joining", "joined", "refused", "failed"}
Places == Holding \cup {"idle", "canceling", "locking", "sleeping"}

ConnectionTypeOK ==
  /\ open \in BOOLEAN /\ announced \in BOOLEAN /\ notified \in BOOLEAN
  /\ recovering \in BOOLEAN /\ requested \in BOOLEAN /\ recoveryPending \in BOOLEAN
  /\ alive \in BOOLEAN
  /\ pc \in [Connector -> Places]
  /\ pc["user"] # "sleeping" /\ pc["loop"] # "canceling"
  /\ stale \in [Connector -> BOOLEAN]
  /\ lock \in Connector \cup {Nobody, Closer}

\* The lock does exclude, and nobody holds it over a connection in use.
LockInv ==
  /\ \A c \in Connector : lock = c <=> pc[c] \in Holding
  /\ lock # Nobody => ~announced
  /\ lock = Closer => ~open
  /\ \A c \in Connector : pc[c] \in {"dialing", "closing", "failed"} => ~open

\* Only disconnect() makes a connector stale that is not done.
StaleInv ==
  /\ \A c \in Connector : pc[c] # "idle" /\ stale[c] => requested
  /\ requested => /\ ~open /\ session = NoSession /\ ~recoveryPending
                  /\ pc["loop"] = "idle" /\ pc["user"] \notin {"dialing", "joining"}

ConnectionInv ==
  /\ ConnectionTypeOK
  /\ LockInv
  /\ StaleInv
  /\ UnannouncedHasAKeeper
  /\ announced <=> ~notified
  /\ announced => open

Request == [id : RequestId, kind : {"spawn", "join", "list"},
            by : Connector \cup {"app"}]

\* Whose requests are pending: the application's on an announced connection, and
\* before that at most the join of the connector that waits for it.
PendingInv ==
  /\ pending \in Seq(Request)
  /\ ~open => pending = <<>>
  /\ announced => \A n \in DOMAIN pending : pending[n].by = "app"
  /\ ~announced => /\ Len(pending) <= 1
                   /\ \A n \in DOMAIN pending :
                        /\ pending[n].by \in Connector
                        /\ pc[pending[n].by] = "joining"

UpMessage == [type : {"spawn", "join", "list", "leave", "close"},
              session : SessionId \cup {NoSession}, id : RequestId \cup {Unasked}]
DownMessage == [type : {"spawned", "joined", "sessionList", "left", "ended", "error"},
                session : SessionId \cup {NoSession}, id : RequestId \cup {Unasked}]

WireTypeOK ==
  /\ up \in Seq(UpMessage) /\ down \in Seq(DownMessage)
  /\ session \in SessionId \cup {NoSession}
  /\ leaving \subseteq SessionId /\ member \subseteq SessionId
  /\ live \subseteq SessionId /\ used \subseteq SessionId
  /\ ids \in BOOLEAN

\* What is on the wire without a connection, and on one whose session nobody has
\* begun to recover.
Quiet == up = <<>> /\ down = <<>> /\ member = {}

RecoveryInv ==
  /\ ~open => Quiet /\ ~alive /\ ~recovering
  /\ ~announced => leaving = {}
  /\ recovering => /\ ~announced
                   /\ \/ \E c \in Connector : pc[c] \in {"joining", "joined", "refused"}
                      \/ recoveryPending /\ Quiet

-----------------------------------------------------------------------------
(* The session. *)

Ends(msg, s) == msg.type \in {"ended", "left"} /\ msg.session = s

\* The client is in s on the server, unless a message after the i-th on the way
\* says that it is not any more.
InOrTold(s, i) ==
  s \in member \/ \E j \in DOMAIN down : j > i /\ Ends(down[j], s)

SessionInv ==
  /\ recoveryPending => session # NoSession
  /\ ~open /\ session # NoSession => recoveryPending
  /\ announced => ~recoveryPending
  /\ \A c \in Connector : pc[c] = "joined" /\ open => ~recoveryPending
  /\ alive => \A i \in DOMAIN down :
       down[i].type \in {"spawned", "joined"} => InOrTold(down[i].session, i)
  /\ alive /\ session # NoSession /\ ~recoveryPending => InOrTold(session, 0)

-----------------------------------------------------------------------------
(* The order of answers. *)

\* While no request was given up on this connection and no error came unasked:
\* no identifier is pending twice;
OneByOne ==
  \A n, m \in DOMAIN pending : pending[n].id = pending[m].id => n = m

\* what is on the way to the server and back belongs to what is pending, each
\* once, and nothing that is pending is forgotten;
AskedOnce ==
  \A a \in DOMAIN up :
    IF up[a].id = Unasked THEN up[a].type \in {"leave", "close"}
    ELSE /\ \E n \in DOMAIN pending : pending[n].id = up[a].id
                                        /\ pending[n].kind = up[a].type
         /\ \A b \in DOMAIN up : up[b].id = up[a].id => a = b
         /\ \A i \in DOMAIN down : down[i].id # up[a].id

Answers(msg, n) ==
  /\ pending[n].id = msg.id
  /\ msg.type \in {"error", Answer(pending[n].kind)}

AnsweredOnce ==
  \A i \in DOMAIN down :
    IF down[i].id = Unasked THEN down[i].type \in {"ended", "left"}
    ELSE /\ \E n \in DOMAIN pending : Answers(down[i], n)
         /\ \A j \in DOMAIN down : down[j].id = down[i].id => i = j

NoneForgotten ==
  alive => \A n \in DOMAIN pending :
    \/ \E a \in DOMAIN up : up[a].id = pending[n].id
    \/ \E i \in DOMAIN down : down[i].id = pending[n].id

\* and requests are answered in their order.
AskedInTurn ==
  \A m, n \in DOMAIN pending : n < m =>
    \A a, b \in DOMAIN up :
      up[a].id = pending[m].id /\ up[b].id = pending[n].id => b < a

AnsweredInTurn ==
  \A m, n \in DOMAIN pending : n < m =>
    \A i \in DOMAIN down : down[i].id = pending[m].id =>
      \E j \in DOMAIN down : j < i /\ down[j].id = pending[n].id

OrderInv ==
  /\ OneByOne
  /\ AskedOnce /\ AnsweredOnce /\ NoneForgotten
  /\ AskedInTurn /\ AnsweredInTurn

AnswersInv == order \in {"kept", "skewed"} /\ (order = "kept" => OrderInv)

-----------------------------------------------------------------------------
(* ConnectionInv is kept. *)

ConnectionState == <<open, announced, notified, recovering, requested, session,
                     recoveryPending, alive>>

LEMMA TwoConnectors ==
  /\ Connector = {"user", "loop"}
  /\ Nobody \notin Connector /\ Closer \notin Connector /\ Closer # Nobody
BY DEF Connector, Nobody, Closer

LEMMA ConnectionInitially == PyInit => ConnectionInv
BY DEF PyInit, ConnectionInv, ConnectionTypeOK, LockInv, StaleInv,
       UnannouncedHasAKeeper, Holding, Places, Connector, Nobody, Closer

\* The steps that leave who connects, and how far, alone.
LEMMA ConnectionUntouched ==
  ASSUME ConnectionInv, UNCHANGED <<open, announced, notified, requested, pc, stale,
                                    lock>>,
         recovering' \in BOOLEAN, alive' \in BOOLEAN, recoveryPending' \in BOOLEAN,
         requested => session' = NoSession /\ ~recoveryPending'
  PROVE  ConnectionInv'
BY DEF ConnectionInv, ConnectionTypeOK, LockInv, StaleInv, UnannouncedHasAKeeper

\* A connector that stops leaves no connection behind that is not announced.
LEMMA StopKeeps ==
  ASSUME ConnectionInv, NEW c \in Connector, lock \in {c, Nobody},
         UNCHANGED <<open, requested, alive>>,
         recovering' \in BOOLEAN, recoveryPending' \in BOOLEAN,
         session' = NoSession \/ session' = session,
         recoveryPending' => recoveryPending \/ session # NoSession,
         announced' \in BOOLEAN, announced' <=> ~notified', notified' \in BOOLEAN,
         open <=> announced',
         pc' \in [Connector -> Places],
         \A d \in Connector : d # c => pc'[d] = pc[d],
         pc'[c] = "idle" \/ (c = "loop" /\ pc'[c] = "sleeping" /\ pc[c] # "idle"),
         Release(c), UNCHANGED stale
  PROVE  ConnectionInv'
<1> USE TwoConnectors DEF Places
<1>1. lock' = Nobody
  BY DEF Release
<1>2. ConnectionTypeOK'
  BY <1>1 DEF ConnectionInv, ConnectionTypeOK
<1>3. LockInv'
  BY <1>1 DEF ConnectionInv, ConnectionTypeOK, LockInv, Holding
<1>4. StaleInv'
  BY DEF ConnectionInv, ConnectionTypeOK, StaleInv, Holding
<1> QED BY <1>2, <1>3, <1>4 DEF ConnectionInv, UnannouncedHasAKeeper

LEMMA FailsKeeps ==
  ASSUME ConnectionInv, NEW c \in Connector, lock \in {c, Nobody}, ~open, pc[c] # "idle",
         UNCHANGED <<open, announced, notified, requested, alive, session>>,
         recovering' \in BOOLEAN, recoveryPending' \in BOOLEAN,
         recoveryPending' => recoveryPending \/ session # NoSession,
         Fails(c, pc)
  PROVE  ConnectionInv'
<1> USE TwoConnectors DEF Places
<1>1. /\ pc' \in [Connector -> Places]
      /\ \A d \in Connector : d # c => pc'[d] = pc[d]
      /\ pc'[c] = "idle" \/ (c = "loop" /\ pc'[c] = "sleeping" /\ pc[c] # "idle")
  BY DEF Fails, ConnectionInv, ConnectionTypeOK
<1> QED BY <1>1, StopKeeps DEF Fails, ConnectionInv, ConnectionTypeOK

LEMMA AnnounceKeeps ==
  ASSUME ConnectionInv, NEW c \in Connector, lock \in {c, Nobody}, ~announced,
         pc[c] # "idle", Announce(c),
         recovering' \in BOOLEAN, recoveryPending' \in BOOLEAN,
         session' = NoSession \/ session' = session,
         recoveryPending' => recoveryPending
  PROVE  ConnectionInv'
<1> USE TwoConnectors DEF Places
<1>1. Stale(c) => ~open
  BY DEF Stale, ConnectionInv, StaleInv
<1>2. /\ announced' \in BOOLEAN /\ notified' \in BOOLEAN /\ (announced' <=> ~notified')
      /\ open <=> announced'
  BY <1>1 DEF Announce, ConnectionInv, ConnectionTypeOK
<1>3. /\ pc' \in [Connector -> Places]
      /\ \A d \in Connector : d # c => pc'[d] = pc[d]
      /\ pc'[c] = "idle"
  BY DEF Announce, Stop, ConnectionInv, ConnectionTypeOK
<1>4. /\ Release(c) /\ UNCHANGED <<stale, open, requested, alive>>
  BY DEF Announce, Stop, wire
<1> QED BY <1>2, <1>3, <1>4, StopKeeps

LEMMA CompleteKeeps ==
  ASSUME ConnectionInv, NEW c \in Connector, lock \in {c, Nobody}, ~announced,
         pc[c] # "idle", Complete(c)
  PROVE  ConnectionInv'
<1> USE TwoConnectors DEF Places
<1>1. CASE ~recoveryPending /\ Announce(c) /\ UNCHANGED <<recovering, activity, requests>>
  BY <1>1, AnnounceKeeps DEF activity, ConnectionInv, ConnectionTypeOK
<1>2. CASE /\ recoveryPending /\ open /\ recovering' = TRUE
           /\ pc' = [pc EXCEPT ![c] = "joining"] /\ lock' = c
           /\ UNCHANGED <<open, announced, notified, requested, activity, stale,
                          alive>>
  <2>1. ConnectionTypeOK'
    BY <1>2 DEF ConnectionInv, ConnectionTypeOK, Holding, activity
  <2>2. LockInv'
    BY <1>2 DEF ConnectionInv, ConnectionTypeOK, LockInv, Holding
  <2>3. StaleInv'
    BY <1>2 DEF ConnectionInv, ConnectionTypeOK, StaleInv, activity
  <2> QED BY <1>2, <2>1, <2>2, <2>3 DEF ConnectionInv, UnannouncedHasAKeeper
<1>3. CASE /\ recoveryPending /\ ~open /\ recovering' = FALSE /\ Fails(c, pc)
           /\ UNCHANGED <<open, announced, notified, requested, activity, wire>>
  BY <1>3, FailsKeeps DEF activity, wire, ConnectionInv, ConnectionTypeOK
<1> QED BY <1>1, <1>2, <1>3 DEF Complete

LEMMA HoldLockKeeps ==
  ASSUME ConnectionInv, NEW c \in Connector, lock = Nobody, pc[c] # "idle",
         HoldLock(c)
  PROVE  ConnectionInv'
<1> USE TwoConnectors DEF Places
<1>1. CASE open /\ ~announced /\ Complete(c)
  BY <1>1, CompleteKeeps
<1>2. ASSUME open => announced, Stop(c),
             UNCHANGED <<open, phase, activity, wire>>
      PROVE  ConnectionInv'
  <2>1. /\ pc' \in [Connector -> Places]
        /\ \A d \in Connector : d # c => pc'[d] = pc[d]
        /\ pc'[c] = "idle"
    BY <1>2 DEF Stop, ConnectionInv, ConnectionTypeOK
  <2>2. Release(c) /\ UNCHANGED stale
    BY <1>2 DEF Stop
  <2> QED BY <1>2, <2>1, <2>2, StopKeeps
          DEF phase, activity, wire, ConnectionInv, ConnectionTypeOK
<1>3. CASE /\ ~open /\ ~Stale(c)
           /\ pc' = [pc EXCEPT ![c] = "dialing"] /\ lock' = c
           /\ UNCHANGED <<stale, open, phase, activity, wire>>
  <2>1. ConnectionTypeOK'
    BY <1>3 DEF ConnectionInv, ConnectionTypeOK, Holding, phase, activity, wire
  <2>2. LockInv'
    BY <1>3 DEF ConnectionInv, ConnectionTypeOK, LockInv, Holding, phase
  <2>3. StaleInv'
    BY <1>3 DEF ConnectionInv, ConnectionTypeOK, StaleInv, Stale, phase, activity
  <2> QED BY <1>3, <2>1, <2>2, <2>3
          DEF ConnectionInv, UnannouncedHasAKeeper, phase
<1> QED BY <1>1, <1>2, <1>3 DEF HoldLock

\* Closing the connection, whatever becomes of a recovery that was under way.
LEMMA CloseKeeps ==
  ASSUME ConnectionInv, CloseTransport, notified', recoveryPending' \in BOOLEAN,
         requested' \in BOOLEAN,
         NEW p, pc' = FailJoins(p),
         p \in [Connector -> Places],
         p["user"] # "sleeping" /\ p["loop"] # "canceling",
         lock' \in Connector \cup {Nobody, Closer},
         \A c \in Connector : lock' = c <=> p[c] \in Holding,
         stale' \in [Connector -> BOOLEAN],
         \A c \in Connector : p[c] # "idle" /\ stale'[c] => requested',
         requested' => /\ session' = NoSession /\ ~recoveryPending'
                       /\ p["loop"] = "idle" /\ p["user"] # "dialing"
  PROVE  ConnectionInv'
<1> USE TwoConnectors DEF Places
<1>1. /\ pc' \in [Connector -> Places]
      /\ \A c \in Connector : pc'[c] = p[c] \/ (p[c] = "joining" /\ pc'[c] = "failed")
      /\ \A c \in Connector : pc'[c] # "joining"
  BY DEF FailJoins, Holding
<1>2. /\ ~open' /\ ~announced' /\ ~recovering' /\ ~alive'
      /\ open' \in BOOLEAN /\ announced' \in BOOLEAN /\ recovering' \in BOOLEAN
      /\ alive' \in BOOLEAN
  BY DEF CloseTransport
<1>3. ConnectionTypeOK'
  BY <1>1, <1>2 DEF ConnectionTypeOK, ConnectionInv
<1>4. LockInv'
  BY <1>1, <1>2 DEF LockInv, Holding
<1>5. StaleInv'
  BY <1>1, <1>2 DEF StaleInv
<1> QED BY <1>2, <1>3, <1>4, <1>5 DEF ConnectionInv, UnannouncedHasAKeeper

\* A cancelled connector is gone, or has the lock and no connection.
LEMMA CancelledOrClosing ==
  ASSUME ConnectionInv, NEW c \in Connector, NEW at \in Cancelled(c)
  PROVE  /\ at \in {"idle", "closing"}
         /\ at = "closing" => /\ pc[c] \in {"dialing", "closing"}
                              /\ lock = c /\ ~open /\ Kept(c, at) = c
         /\ at = "idle" => Kept(c, at) = IF lock = c THEN Nobody ELSE lock
BY TwoConnectors DEF Cancelled, Kept, ConnectionInv, LockInv, Holding

\* connect(), and the loop that wakes up.
LEMMA CallsKeepConnection ==
  ASSUME ConnectionInv, ConnectCalled \/ ReconnectTaskGone \/ LoopWakes
  PROVE  ConnectionInv'
<1> USE TwoConnectors DEF Places
<1>1. ASSUME ConnectCalled  PROVE ConnectionInv'
  <2>0. /\ UNCHANGED <<open, announced, notified, recoveryPending, session, alive>>
        /\ ~requested' /\ requested' \in BOOLEAN /\ pc["user"] = "idle"
        /\ stale' = [stale EXCEPT !["user"] = FALSE]
    BY <1>1 DEF ConnectCalled, activity, wire
  <2>1. CASE /\ pc["loop"] = "idle" /\ ~announced
             /\ \/ lock = Nobody /\ lock' = "user"
                   /\ pc' = [pc EXCEPT !["user"] = "dialing"]
                \/ lock # Nobody /\ lock' = lock
                   /\ pc' = [pc EXCEPT !["user"] = "locking"]
             /\ UNCHANGED recovering
    <3>1. lock \in {Nobody, Closer} /\ ~open
      BY <2>0, <2>1 DEF ConnectionInv, ConnectionTypeOK, LockInv, Holding,
                        UnannouncedHasAKeeper
    <3>2. ConnectionTypeOK'
      BY <2>0, <2>1 DEF ConnectionInv, ConnectionTypeOK, Holding
    <3>3. LockInv'
      BY <2>0, <2>1, <3>1 DEF ConnectionInv, ConnectionTypeOK, LockInv, Holding
    <3>4. StaleInv'
      BY <2>0, <2>1 DEF ConnectionInv, ConnectionTypeOK, StaleInv
    <3> QED BY <2>0, <2>1, <3>1, <3>2, <3>3, <3>4
            DEF ConnectionInv, UnannouncedHasAKeeper
  <2>2. ASSUME pc["loop"] # "idle", NEW at \in Cancelled("loop"),
               pc' = [pc EXCEPT !["user"] = "canceling", !["loop"] = at],
               lock' = Kept("loop", at), recovering' \in BOOLEAN
        PROVE  ConnectionInv'
    <3>1. /\ at \in {"idle", "closing"}
          /\ at = "closing" => lock = "loop" /\ ~open /\ lock' = "loop"
          /\ at = "idle" => lock' = IF lock = "loop" THEN Nobody ELSE lock
      BY <2>2, CancelledOrClosing
    <3>2. ConnectionTypeOK'
      BY <2>0, <2>2, <3>1 DEF ConnectionInv, ConnectionTypeOK, Holding
    <3>3. LockInv'
      BY <2>0, <2>2, <3>1 DEF ConnectionInv, ConnectionTypeOK, LockInv, Holding
    <3>4. StaleInv'
      BY <2>0, <2>2, <3>1 DEF ConnectionInv, ConnectionTypeOK, StaleInv
    <3> QED BY <2>0, <2>2, <3>1, <3>2, <3>3, <3>4
            DEF ConnectionInv, ConnectionTypeOK, UnannouncedHasAKeeper
  <2>3. recovering' \in BOOLEAN
    BY <1>1 DEF ConnectCalled, ConnectionInv, ConnectionTypeOK
  <2> QED BY <1>1, <2>1, <2>2, <2>3 DEF ConnectCalled
<1>2. ASSUME NEW c \in Connector, pc[c] \in {"canceling", "sleeping"}, TakeLock(c)
      PROVE  ConnectionInv'
  <2>1. CASE lock = Nobody /\ HoldLock(c)
    BY <1>2, <2>1, HoldLockKeeps
  <2>2. CASE /\ pc' = [pc EXCEPT ![c] = "locking"]
             /\ UNCHANGED <<open, phase, activity, stale, lock, wire>>
    <3>1. ConnectionTypeOK'
      BY <1>2, <2>2 DEF ConnectionInv, ConnectionTypeOK, Holding, phase, activity, wire
    <3>2. LockInv'
      BY <1>2, <2>2 DEF ConnectionInv, ConnectionTypeOK, LockInv, Holding, phase
    <3>3. StaleInv'
      BY <1>2, <2>2 DEF ConnectionInv, ConnectionTypeOK, StaleInv, Holding, phase,
                        activity
    <3>4. UnannouncedHasAKeeper'
      BY <1>2, <2>2 DEF ConnectionInv, ConnectionTypeOK, UnannouncedHasAKeeper, phase
    <3> QED BY <2>2, <3>1, <3>2, <3>3, <3>4 DEF ConnectionInv, phase
  <2> QED BY <1>2, <2>1, <2>2 DEF TakeLock, MayLock
<1>3. ASSUME LoopWakes, Stale("loop")  PROVE ConnectionInv'
  BY <1>3 DEF LoopWakes, Stale, ConnectionInv, ConnectionTypeOK, StaleInv
<1> QED BY <1>1, <1>2, <1>3 DEF ReconnectTaskGone, LoopWakes

\* A connector's own steps.
LEMMA AttemptsKeepConnection ==
  ASSUME ConnectionInv, NEW c \in Connector,
         LockHandedOver(c) \/ DialSucceeds(c) \/ DialFails(c) \/ AttemptClosed(c)
           \/ AttemptResumes(c) \/ RecoveryResumes(c) \/ RecoveryTimesOut(c)
  PROVE  ConnectionInv'
<1> USE TwoConnectors DEF Places
<1>1. CASE LockHandedOver(c)
  BY <1>1, HoldLockKeeps DEF LockHandedOver
<1>2. CASE DialSucceeds(c)
  <2>1. ~requested /\ lock = c
    BY <1>2 DEF DialSucceeds, Stale, ConnectionInv, LockInv, Holding
  <2>2. ConnectionTypeOK'
    BY <1>2 DEF DialSucceeds, ConnectionInv, ConnectionTypeOK, Holding, activity
  <2>3. LockInv'
    BY <1>2, <2>1 DEF DialSucceeds, ConnectionInv, ConnectionTypeOK, LockInv, Holding
  <2>4. StaleInv'
    BY <1>2, <2>1 DEF DialSucceeds, ConnectionInv, ConnectionTypeOK, StaleInv
  <2> QED BY <1>2, <2>1, <2>2, <2>3, <2>4
          DEF DialSucceeds, ConnectionInv, LockInv, UnannouncedHasAKeeper
<1>3. CASE DialFails(c)
  BY <1>3, FailsKeeps DEF DialFails, ConnectionInv, ConnectionTypeOK, LockInv, Holding,
                          phase, activity, wire
<1>4. CASE AttemptResumes(c)
  <2>1. /\ pc[c] = "dialed" /\ lock = c /\ ~announced
    BY <1>4 DEF AttemptResumes, ConnectionInv, LockInv, Holding
  <2>2. CASE Complete(c)
    BY <2>1, <2>2, CompleteKeeps
  <2>3. CASE Stale(c) /\ Stop(c) /\ UNCHANGED <<open, phase, activity, wire>>
    <3>1. ~open
      BY <2>1, <2>3 DEF Stale, ConnectionInv, StaleInv
    <3>2. /\ pc' \in [Connector -> Places]
          /\ \A d \in Connector : d # c => pc'[d] = pc[d]
          /\ pc'[c] = "idle"
      BY <2>3 DEF Stop, ConnectionInv, ConnectionTypeOK
    <3>3. Release(c) /\ UNCHANGED stale
      BY <2>3 DEF Stop
    <3> QED BY <2>1, <2>3, <3>1, <3>2, <3>3, StopKeeps
            DEF phase, activity, wire, ConnectionInv, ConnectionTypeOK
  <2> QED BY <1>4, <2>2, <2>3 DEF AttemptResumes
<1>5. CASE RecoveryResumes(c)
  <2>1. /\ pc[c] \in {"joined", "refused", "failed"} /\ lock = c /\ ~announced
        /\ pc[c] = "failed" => ~open
    BY <1>5 DEF RecoveryResumes, ConnectionInv, LockInv, Holding
  <2>2. CASE recovering' = FALSE /\ Announce(c) /\ UNCHANGED <<activity, requests>>
    BY <2>1, <2>2, AnnounceKeeps DEF activity, ConnectionInv, ConnectionTypeOK
  <2>3. CASE recovering' = FALSE /\ Announce(c) /\ ClearSession
    BY <2>1, <2>3, AnnounceKeeps DEF ClearSession
  <2>4. CASE /\ recovering' = FALSE /\ pc[c] = "failed"
             /\ recoveryPending' = (recoveryPending \/ session # NoSession)
             /\ Fails(c, pc)
             /\ UNCHANGED <<open, announced, notified, requested, session, wire>>
    BY <2>1, <2>4, FailsKeeps DEF wire, ConnectionInv, ConnectionTypeOK
  <2> QED BY <1>5, <2>2, <2>3, <2>4 DEF RecoveryResumes
<1>6. CASE RecoveryTimesOut(c)
  <2>1. /\ pc[c] = "joining" /\ lock = c /\ ~announced /\ notified /\ ~requested
    BY <1>6 DEF RecoveryTimesOut, ConnectionInv, LockInv, StaleInv, Holding
  <2>2. PICK q \in {"idle", "sleeping"} :
          /\ pc' = [FailJoins(pc) EXCEPT ![c] = q]
          /\ q = "sleeping" => c = "loop"
    BY <1>6 DEF RecoveryTimesOut, Fails, FailJoins
  <2> DEFINE p == [pc EXCEPT ![c] = q]
  <2>3. pc' = FailJoins(p)
    BY <2>2 DEF FailJoins, ConnectionInv, ConnectionTypeOK
  <2>4. /\ p \in [Connector -> Places]
        /\ p["user"] # "sleeping" /\ p["loop"] # "canceling"
    BY <2>2 DEF ConnectionInv, ConnectionTypeOK
  <2>5. lock' = Nobody /\ \A d \in Connector : p[d] \notin Holding
    BY <1>6, <2>1, <2>2 DEF RecoveryTimesOut, Fails, Release, ConnectionInv,
                            ConnectionTypeOK, LockInv, Holding
  <2>6. \A d \in Connector : ~(p[d] # "idle" /\ stale'[d])
    BY <1>6, <2>1 DEF RecoveryTimesOut, Fails, ConnectionInv, ConnectionTypeOK, StaleInv
  <2>7. /\ CloseTransport /\ notified' /\ ~requested' /\ requested' \in BOOLEAN
        /\ recoveryPending' \in BOOLEAN /\ stale' \in [Connector -> BOOLEAN]
    BY <1>6, <2>1 DEF RecoveryTimesOut, Fails, ConnectionInv, ConnectionTypeOK
  <2> HIDE DEF p
  <2> QED BY <2>3, <2>4, <2>5, <2>6, <2>7, CloseKeeps
<1>7. CASE AttemptClosed(c)
  <2>1. /\ lock = c /\ ~open /\ ~announced
        /\ pc' \in [Connector -> Places]
        /\ \A d \in Connector : d # c => pc'[d] = pc[d]
        /\ pc'[c] = "idle"
    BY <1>7 DEF AttemptClosed, Stop, ConnectionInv, ConnectionTypeOK, LockInv, Holding
  <2>2. /\ Release(c)
        /\ UNCHANGED <<stale, open, phase, activity, wire>>
    BY <1>7 DEF AttemptClosed, Stop
  <2> QED BY <2>1, <2>2, StopKeeps
          DEF phase, activity, wire, ConnectionInv, ConnectionTypeOK
<1> QED BY <1>1, <1>2, <1>3, <1>4, <1>5, <1>6, <1>7

\* Cancelling, losing and giving up a connection, and coming back for it.
LEMMA ClosingKeepsConnection ==
  ASSUME ConnectionInv,
         ConnectCancelled \/ ForgottenAttemptClosed \/ RemoteDisconnect
           \/ ScheduleReconnect \/ DisconnectCalled
  PROVE  ConnectionInv'
<1> USE TwoConnectors DEF Places
<1>1. CASE ConnectCancelled
  <2>1. /\ pc["user"] # "idle" /\ UNCHANGED <<notified, requested, session, stale>>
    BY <1>1 DEF ConnectCancelled
  <2>a. PICK at \in Cancelled("user") :
          /\ lock' = Kept("user", at)
          /\ \/ /\ open /\ ~announced /\ CloseTransport
                /\ pc' = FailJoins([pc EXCEPT !["user"] = at])
                /\ recoveryPending' = (session # NoSession)
             \/ /\ ~(open /\ ~announced) /\ pc' = [pc EXCEPT !["user"] = at]
                /\ UNCHANGED <<open, announced, recovering, recoveryPending, wire>>
    BY <1>1 DEF ConnectCancelled, Release, Cancelled, Kept
  <2>b. /\ at \in {"idle", "closing"}
        /\ at = "closing" => lock = "user" /\ ~open /\ lock' = "user"
        /\ at = "idle" => lock' = IF lock = "user" THEN Nobody ELSE lock
    BY <2>a, CancelledOrClosing
  <2> DEFINE p == [pc EXCEPT !["user"] = at]
  <2>2. /\ p \in [Connector -> Places]
        /\ p["user"] = at /\ p["loop"] = pc["loop"]
        /\ p["user"] # "sleeping" /\ p["loop"] # "canceling"
    BY <2>b DEF ConnectionInv, ConnectionTypeOK, Holding
  <2>3. /\ lock' \in Connector \cup {Nobody, Closer}
        /\ \A c \in Connector : lock' = c <=> p[c] \in Holding
    BY <2>b, <2>2 DEF ConnectionInv, ConnectionTypeOK, LockInv, Holding
  <2>4. \A c \in Connector : p[c] # "idle" /\ stale[c] => requested
    BY <2>1, <2>b, <2>2 DEF ConnectionInv, StaleInv
  <2> HIDE DEF p
  <2>5. CASE /\ open /\ ~announced /\ CloseTransport /\ pc' = FailJoins(p)
             /\ recoveryPending' = (session # NoSession)
    BY <2>1, <2>2, <2>3, <2>4, <2>5, CloseKeeps
       DEF ConnectionInv, ConnectionTypeOK, StaleInv
  <2>6. CASE /\ ~(open /\ ~announced) /\ pc' = p
             /\ UNCHANGED <<open, announced, recovering, recoveryPending, wire>>
    <3>1. ConnectionTypeOK'
      BY <2>1, <2>2, <2>3, <2>6 DEF ConnectionInv, ConnectionTypeOK, wire
    <3>2. LockInv'
      BY <2>1, <2>2, <2>3, <2>6, <2>b DEF ConnectionInv, ConnectionTypeOK, LockInv
    <3>3. StaleInv'
      BY <2>1, <2>2, <2>4, <2>6, <2>b DEF ConnectionInv, StaleInv
    <3> QED BY <2>1, <2>6, <3>1, <3>2, <3>3 DEF ConnectionInv, UnannouncedHasAKeeper
  <2> QED BY <2>a, <2>5, <2>6 DEF p
<1>2. CASE RemoteDisconnect
  BY <1>2, CloseKeeps DEF RemoteDisconnect, ConnectionInv, ConnectionTypeOK, LockInv,
                          StaleInv
<1>3. CASE ScheduleReconnect
  <2>1. /\ UNCHANGED <<open, phase, activity, lock, wire>>
        /\ \/ /\ ~requested /\ pc["loop"] = "idle"
              /\ pc' = [pc EXCEPT !["loop"] = "sleeping"]
              /\ stale' = [stale EXCEPT !["loop"] = FALSE]
           \/ UNCHANGED <<pc, stale>>
    BY <1>3 DEF ScheduleReconnect, MaySchedule
  <2>2. ConnectionTypeOK'
    BY <2>1 DEF ConnectionInv, ConnectionTypeOK, phase, activity, wire
  <2>3. LockInv'
    BY <2>1 DEF ConnectionInv, ConnectionTypeOK, LockInv, Holding, phase
  <2>4. StaleInv'
    BY <2>1 DEF ConnectionInv, ConnectionTypeOK, StaleInv, phase, activity
  <2> QED BY <2>1, <2>2, <2>3, <2>4
          DEF ConnectionInv, ConnectionTypeOK, UnannouncedHasAKeeper, phase
<1>4. CASE DisconnectCalled
  <2>a. PICK at \in IF pc["user"] \in {"dialing", "closing"} THEN Cancelled("user")
                                                            ELSE {pc["user"]} :
          /\ pc' = FailJoins([pc EXCEPT !["loop"] = "idle", !["user"] = at])
          /\ \/ lock # "loop" /\ lock' = Kept("user", at)
             \/ lock = "loop" /\ lock' \in {Nobody, Closer}
    BY <1>4 DEF DisconnectCalled
  <2> DEFINE p == [pc EXCEPT !["loop"] = "idle", !["user"] = at]
  <2>1. /\ pc' = FailJoins(p) /\ CloseTransport /\ requested' /\ requested' \in BOOLEAN
        /\ session' = NoSession /\ ~recoveryPending' /\ recoveryPending' \in BOOLEAN
        /\ stale' \in [Connector -> BOOLEAN]
    BY <1>4, <2>a DEF DisconnectCalled, ClearSession
  <2>b. /\ at \in Places \ {"dialing", "sleeping"}
        /\ lock # "loop" => /\ lock' \in Connector \cup {Nobody, Closer}
                            /\ lock' = "user" <=> at \in Holding
                            /\ lock' # "loop"
        /\ lock = "loop" => /\ lock' \in {Nobody, Closer}
                            /\ at \notin Holding
    <3>1. CASE pc["user"] \in {"dialing", "closing"}
      <4>1. at \in Cancelled("user") /\ lock = "user"
        BY <2>a, <3>1 DEF ConnectionInv, LockInv, Holding
      <4> QED BY <2>a, <4>1, CancelledOrClosing DEF Holding
    <3>2. CASE pc["user"] \notin {"dialing", "closing"}
      <4>1. at = pc["user"]
        BY <2>a, <3>2
      <4> QED BY <2>a, <3>2, <4>1
              DEF Kept, ConnectionInv, ConnectionTypeOK, LockInv, Holding
    <3> QED BY <3>1, <3>2
  <2>2. notified'
    BY <1>4 DEF DisconnectCalled, ConnectionInv
  <2>3. /\ p \in [Connector -> Places]
        /\ p["loop"] = "idle" /\ p["user"] = at
    BY <2>b DEF ConnectionInv, ConnectionTypeOK
  <2>4. /\ lock' \in Connector \cup {Nobody, Closer}
        /\ \A c \in Connector : lock' = c <=> p[c] \in Holding
    BY <2>a, <2>b, <2>3 DEF ConnectionInv, ConnectionTypeOK, Holding
  <2>5. p["user"] \notin {"sleeping", "dialing"} /\ p["loop"] # "canceling"
    BY <2>b, <2>3
  <2> HIDE DEF p
  <2> QED BY <2>1, <2>2, <2>3, <2>4, <2>5, CloseKeeps
<1>5. CASE ForgottenAttemptClosed
  <2>1. /\ lock = Closer /\ lock' = Nobody /\ ~open
        /\ UNCHANGED <<open, phase, activity, pc, stale, wire>>
    BY <1>5 DEF ForgottenAttemptClosed, ConnectionInv, LockInv
  <2>2. ConnectionTypeOK'
    BY <2>1 DEF ConnectionInv, ConnectionTypeOK, phase, activity, wire
  <2>3. LockInv'
    BY <2>1 DEF ConnectionInv, LockInv, Holding, phase
  <2>4. StaleInv'
    BY <2>1 DEF ConnectionInv, StaleInv, phase, activity
  <2> QED BY <2>1, <2>2, <2>3, <2>4 DEF ConnectionInv, UnannouncedHasAKeeper, phase
<1> QED BY <1>1, <1>2, <1>3, <1>4, <1>5

\* The application's calls, and what the server does.
LEMMA CallingKeepsConnection ==
  ASSUME ConnectionInv,
         \/ Calling
         \/ ServerAnswers
         \/ \E s \in SessionId : SessionEnds(s)
         \/ ConnectionBreaks
         \/ UNCHANGED vars
  PROVE  ConnectionInv'
<1>1. /\ UNCHANGED <<open, announced, notified, recovering, requested, pc, stale, lock>>
      /\ \/ UNCHANGED <<session, recoveryPending>>
         \/ session' = NoSession /\ ~recoveryPending' /\ recoveryPending' \in BOOLEAN
      /\ alive' = alive \/ alive' = FALSE
  BY DEF Calling, SpawnCalled, ListSessionsCalled, KillCalled, JoinCalled, LeaveCalled,
         LeaveSent, RequestTimesOut, ServerAnswers, SessionEnds, ConnectionBreaks,
         ClearSession, vars, phase, activity, tasks, wire
<1>2. recovering' \in BOOLEAN /\ alive' \in BOOLEAN /\ recoveryPending' \in BOOLEAN
  BY <1>1 DEF ConnectionInv, ConnectionTypeOK
<1>3. requested => session' = NoSession /\ ~recoveryPending'
  BY <1>1 DEF ConnectionInv, StaleInv
<1> QED BY <1>1, <1>2, <1>3, ConnectionUntouched

\* A message: an answer lets the connector that waits for it go on.
LEMMA ReceiveKeepsConnection ==
  ASSUME ConnectionInv, PendingInv, Receive
  PROVE  ConnectionInv'
<1> USE TwoConnectors DEF Places
<1>1. UNCHANGED <<open, announced, notified, recovering, requested, stale, lock, alive>>
  BY DEF Receive, phase
<1>2. ~requested
  BY DEF Receive, ConnectionInv, StaleInv
<1>3. recoveryPending' \in BOOLEAN
  BY DEF Receive, Settle, Forget, ClearSession, ConnectionInv, ConnectionTypeOK
<1>4. CASE UNCHANGED pc
  BY <1>1, <1>2, <1>3, <1>4, ConnectionUntouched DEF ConnectionInv, ConnectionTypeOK
<1>5. ASSUME NEW c \in Connector, pc[c] = "joining",
             NEW q \in {"joined", "refused"}, pc' = [pc EXCEPT ![c] = q]
      PROVE  ConnectionInv'
  <2>1. ConnectionTypeOK'
    BY <1>1, <1>3, <1>5 DEF ConnectionInv, ConnectionTypeOK, Holding
  <2>2. LockInv'
    BY <1>1, <1>5 DEF ConnectionInv, ConnectionTypeOK, LockInv, Holding
  <2>3. StaleInv'
    BY <1>1, <1>2, <1>5 DEF ConnectionInv, ConnectionTypeOK, StaleInv
  <2>4. UnannouncedHasAKeeper'
    BY <1>1, <1>5 DEF ConnectionInv, ConnectionTypeOK, LockInv, Holding,
                      UnannouncedHasAKeeper
  <2> QED BY <1>1, <2>1, <2>2, <2>3, <2>4 DEF ConnectionInv
<1>6. \/ UNCHANGED pc
      \/ \E n \in DOMAIN pending : \E q \in {"joined", "refused"} :
           /\ pending[n].by # "app"
           /\ pc' = [pc EXCEPT ![pending[n].by] = q]
  BY DEF Receive, Settle, SettledBy, First, Forget
<1>7. \A n \in DOMAIN pending : pending[n].by # "app" =>
        pending[n].by \in Connector /\ pc[pending[n].by] = "joining"
  BY DEF PendingInv, ConnectionInv, ConnectionTypeOK
<1> QED BY <1>4, <1>5, <1>6, <1>7

LEMMA ConnectionStep ==
  ASSUME ConnectionInv, PendingInv, [PyNext]_vars
  PROVE  ConnectionInv'
BY CallsKeepConnection, AttemptsKeepConnection, ClosingKeepsConnection,
   CallingKeepsConnection, ReceiveKeepsConnection DEF PyNext, Connecting

-----------------------------------------------------------------------------
(* PendingInv is kept. *)

\* What Except makes of a sequence.
Without(q, n) == SubSeq(q, 1, n - 1) \o SubSeq(q, n + 1, Len(q))

LEMMA Removed ==
  ASSUME NEW S, NEW q \in Seq(S), NEW n \in 1..Len(q)
  PROVE  /\ Without(q, n) \in Seq(S) /\ Len(Without(q, n)) = Len(q) - 1
         /\ \A k \in 1..(Len(q) - 1) :
              Without(q, n)[k] = IF k < n THEN q[k] ELSE q[k + 1]
<1> DEFINE a == SubSeq(q, 1, n - 1)
           b == SubSeq(q, n + 1, Len(q))
<1>1. /\ a \in Seq(S) /\ Len(a) = n - 1
      /\ \A k \in 1..(n - 1) : a[k] = q[k]
  OBVIOUS
<1>2. /\ b \in Seq(S) /\ Len(b) = Len(q) - n
      /\ \A k \in 1..(Len(q) - n) : b[k] = q[n + k]
  OBVIOUS
<1>3. Without(q, n) = a \o b
  BY DEF Without
<1> HIDE DEF a, b
<1>4. a \o b \in Seq(S) /\ Len(a \o b) = Len(q) - 1
  <2>1. a \in Seq(S) /\ b \in Seq(S)
    BY <1>1, <1>2
  <2>2. a \o b \in Seq(S) /\ Len(a \o b) = Len(a) + Len(b)
    BY ONLY <2>1
  <2> QED BY <1>1, <1>2, <2>2
<1>5. ASSUME NEW k \in 1..(Len(q) - 1)
      PROVE  (a \o b)[k] = IF k < n THEN q[k] ELSE q[k + 1]
  <2>1. CASE k < n
    BY <1>1, <1>2, <2>1
  <2>2. CASE ~(k < n)
    <3>1. (a \o b)[k] = b[k - (n - 1)] /\ k - (n - 1) \in 1..(Len(q) - n)
      BY <1>1, <1>2, <2>2
    <3> QED BY <1>2, <2>2, <3>1
  <2> QED BY <2>1, <2>2
<1> QED BY <1>3, <1>4, <1>5

LEMMA RequestRemoved ==
  ASSUME PendingInv, NEW n \in DOMAIN pending, pending' = Except(n)
  PROVE  /\ pending' \in Seq(Request) /\ Len(pending') = Len(pending) - 1
         /\ \A k \in DOMAIN pending' : \E m \in DOMAIN pending : pending'[k] = pending[m]
<1>1. /\ pending \in Seq(Request) /\ n \in 1..Len(pending)
  BY DEF PendingInv
<1>2. /\ pending' \in Seq(Request) /\ Len(pending') = Len(pending) - 1
      /\ \A k \in 1..(Len(pending) - 1) :
           pending'[k] = IF k < n THEN pending[k] ELSE pending[k + 1]
  BY <1>1, Removed DEF Except, Without
<1>3. ASSUME NEW k \in DOMAIN pending'
      PROVE  \E m \in DOMAIN pending : pending'[k] = pending[m]
  <2>1. k \in 1..(Len(pending) - 1) /\ k \in 1..Len(pending) /\ k + 1 \in 1..Len(pending)
    BY <1>1, <1>2
  <2> QED BY <1>1, <1>2, <2>1
<1> QED BY <1>2, <1>3

LEMMA NonePending == ASSUME pending' = <<>>  PROVE PendingInv'
<1>1. /\ <<>> \in Seq(Request) /\ Len(<<>>) = 0 /\ DOMAIN <<>> = {}
  OBVIOUS
<1> QED BY <1>1 DEF PendingInv

\* On a connection that is not announced only the join of its connector is.
LEMMA NothingToAnnounce ==
  ASSUME ConnectionInv, PendingInv, ~announced, \A c \in Connector : pc[c] # "joining"
  PROVE  pending = <<>>
<1>1. DOMAIN pending = {} /\ pending \in Seq(Request)
  BY DEF PendingInv
<1> QED BY <1>1

\* A holder of the lock is the only one that can be joining.
LEMMA OnlyHolderJoins ==
  ASSUME ConnectionInv, NEW c \in Connector, lock \in {c, Nobody}, pc[c] # "joining"
  PROVE  \A d \in Connector : pc[d] # "joining"
BY TwoConnectors DEF ConnectionInv, LockInv, Holding

LEMMA PendingUntouched ==
  ASSUME ConnectionInv, PendingInv, UNCHANGED <<pending, announced>>, open => open',
         \A c \in Connector : pc[c] = "joining" => pc'[c] = "joining"
  PROVE  PendingInv'
BY DEF PendingInv

LEMMA GiveUpKeeps ==
  ASSUME ConnectionInv, PendingInv, NEW c \in Connector, GiveUp(c),
         UNCHANGED <<open, announced>>,
         \A d \in Connector : d # c /\ pc[d] = "joining" => pc'[d] = "joining"
  PROVE  PendingInv'
<1> USE TwoConnectors
<1>1. CASE PendingOf(c) = {}
  <2>1. pending' = pending
    BY <1>1 DEF GiveUp, requests
  <2>2. \A n \in DOMAIN pending : pending[n].by # c
    BY <1>1 DEF PendingOf
  <2> QED BY <2>1, <2>2 DEF PendingInv
<1>2. ASSUME NEW n \in PendingOf(c), pending' = Except(n)
      PROVE  PendingInv'
  <2>1. n \in DOMAIN pending /\ pending[n].by = c /\ pending \in Seq(Request)
    BY <1>2 DEF PendingOf, PendingInv
  <2>2. ~announced /\ Len(pending) <= 1
    BY <2>1 DEF PendingInv, Connector
  <2>3. pending' \in Seq(Request) /\ Len(pending') = Len(pending) - 1
    BY <1>2, <2>1, RequestRemoved
  <2>4. Len(pending') = 0
    BY <2>1, <2>2, <2>3
  <2>5. pending' = <<>>
    BY <2>3, <2>4
  <2> QED BY <2>5, NonePending
<1> QED BY <1>1, <1>2 DEF GiveUp

LEMMA AskedBy ==
  ASSUME NEW kind \in {"spawn", "join", "list"}, NEW s, NEW by \in Connector \cup {"app"},
         PendingInv, Ask(kind, s, by)
  PROVE  /\ pending' \in Seq(Request) /\ Len(pending') = Len(pending) + 1
         /\ pending'[Len(pending) + 1].by = by
         /\ \A k \in 1..Len(pending) : pending'[k] = pending[k]
<1>1. PICK i \in FreeIds : pending' = Append(pending, [id |-> i, kind |-> kind, by |-> by])
  BY DEF Ask
<1>2. [id |-> i, kind |-> kind, by |-> by] \in Request
  BY <1>1 DEF Request, FreeIds
<1> QED BY <1>1, <1>2 DEF PendingInv

\* A connector's attempt.
LEMMA CompleteKeepsPending ==
  ASSUME ConnectionInv, PendingInv, NEW c \in Connector, lock \in {c, Nobody}, ~announced,
         pc[c] # "joining", Complete(c)
  PROVE  PendingInv'
<1> USE TwoConnectors
<1>1. pending = <<>>
  BY OnlyHolderJoins, NothingToAnnounce
<1>2. CASE UNCHANGED pending
  BY <1>1, <1>2, NonePending
<1>3. ASSUME open, pc' = [pc EXCEPT ![c] = "joining"], UNCHANGED <<open, announced>>,
             Ask("join", session, c)
      PROVE  PendingInv'
  <2>1. /\ pending' \in Seq(Request) /\ Len(pending') = 1 /\ pending'[1].by = c
    BY <1>1, <1>3, AskedBy
  <2>2. pc'[c] = "joining"
    BY <1>3 DEF ConnectionInv, ConnectionTypeOK
  <2>3. \A n \in DOMAIN pending' : n = 1
    BY <2>1
  <2> QED BY <1>3, <2>1, <2>2, <2>3 DEF PendingInv
<1> QED BY <1>2, <1>3 DEF Complete, requests

LEMMA HoldLockKeepsPending ==
  ASSUME ConnectionInv, PendingInv, NEW c \in Connector, lock = Nobody, HoldLock(c)
  PROVE  PendingInv'
<1> USE TwoConnectors
<1>1. \A d \in Connector : pc[d] # "joining"
  BY DEF ConnectionInv, LockInv, Holding
<1>2. CASE open /\ ~announced /\ Complete(c)
  BY <1>1, <1>2, CompleteKeepsPending
<1>3. CASE UNCHANGED <<open, phase, requests>>
  BY <1>1, <1>3, PendingUntouched DEF phase, requests
<1> QED BY <1>2, <1>3 DEF HoldLock

LEMMA AttemptsKeepPending ==
  ASSUME ConnectionInv, PendingInv, NEW c \in Connector,
         LockHandedOver(c) \/ DialSucceeds(c) \/ DialFails(c) \/ AttemptClosed(c)
           \/ AttemptResumes(c) \/ RecoveryResumes(c) \/ RecoveryTimesOut(c)
  PROVE  PendingInv'
<1> USE TwoConnectors
<1>1. CASE LockHandedOver(c)
  BY <1>1, HoldLockKeepsPending DEF LockHandedOver
<1>2. CASE pc[c] \in Holding \ {"joining"} /\ UNCHANGED pending
  <2>1. pending = <<>>
    BY <1>2, OnlyHolderJoins, NothingToAnnounce DEF ConnectionInv, LockInv
  <2> QED BY <1>2, <2>1, NonePending
<1>3. CASE pc[c] = "dialed" /\ Complete(c)
  BY <1>3, CompleteKeepsPending DEF ConnectionInv, LockInv, Holding
<1>4. CASE CloseTransport
  BY <1>4, NonePending DEF CloseTransport
<1> QED BY <1>1, <1>2, <1>3, <1>4
        DEF DialSucceeds, DialFails, AttemptClosed, AttemptResumes, RecoveryResumes,
            RecoveryTimesOut, Holding, requests

LEMMA PendingStep ==
  ASSUME ConnectionInv, PendingInv, [PyNext]_vars
  PROVE  PendingInv'
<1> USE TwoConnectors
<1>1. CASE ConnectCalled
  <2>1. \/ /\ UNCHANGED pending /\ pc["loop"] = "idle"
           /\ \E at \in {"dialing", "locking"} : pc' = [pc EXCEPT !["user"] = at]
        \/ /\ GiveUp("loop") /\ pc["user"] = "idle"
    BY <1>1 DEF ConnectCalled, requests
  <2>2. UNCHANGED <<open, announced>> /\ pc["user"] = "idle"
    BY <1>1 DEF ConnectCalled
  <2> QED BY <2>1, <2>2, GiveUpKeeps, PendingUntouched DEF ConnectionInv, ConnectionTypeOK
<1>2. ASSUME NEW c \in Connector, pc[c] \in {"canceling", "sleeping"}, TakeLock(c)
      PROVE  PendingInv'
  <2>1. CASE lock = Nobody /\ HoldLock(c)
    BY <2>1, HoldLockKeepsPending
  <2>2. CASE pc' = [pc EXCEPT ![c] = "locking"] /\ UNCHANGED <<open, phase, requests>>
    BY <1>2, <2>2, PendingUntouched DEF ConnectionInv, ConnectionTypeOK, phase, requests
  <2> QED BY <1>2, <2>1, <2>2 DEF TakeLock, MayLock
<1>3. CASE LoopWakes /\ Stop("loop") /\ UNCHANGED <<open, phase, requests>>
  BY <1>3, PendingUntouched
     DEF LoopWakes, Stop, ConnectionInv, ConnectionTypeOK, phase, requests
<1>4. CASE ConnectCancelled
  <2>1. CASE CloseTransport
    BY <2>1, NonePending DEF CloseTransport
  <2>2. CASE /\ GiveUp("user") /\ UNCHANGED <<open, announced>>
             /\ \E at \in Cancelled("user") : pc' = [pc EXCEPT !["user"] = at]
    BY <2>2, GiveUpKeeps DEF ConnectionInv, ConnectionTypeOK
  <2> QED BY <1>4, <2>1, <2>2 DEF ConnectCancelled
<1>5. CASE RemoteDisconnect \/ DisconnectCalled
  BY <1>5, NonePending DEF RemoteDisconnect, DisconnectCalled, CloseTransport
<1>6. CASE ScheduleReconnect
  BY <1>6, PendingUntouched
     DEF ScheduleReconnect, MaySchedule, ConnectionInv, ConnectionTypeOK, phase, requests
<1>7. CASE Calling
  <2>1. UNCHANGED <<open, announced, pc>>
    BY <1>7 DEF Calling, SpawnCalled, ListSessionsCalled, KillCalled, JoinCalled,
                LeaveCalled, LeaveSent, RequestTimesOut, phase, tasks
  <2>2. ASSUME announced, NEW kind \in {"spawn", "join", "list"}, NEW s,
               Ask(kind, s, "app")
        PROVE  PendingInv'
    <3>1. /\ pending' \in Seq(Request) /\ Len(pending') = Len(pending) + 1
          /\ pending'[Len(pending) + 1].by = "app"
          /\ \A k \in 1..Len(pending) : pending'[k] = pending[k]
      BY <2>2, AskedBy
    <3>2. \A n \in DOMAIN pending' : n \in 1..Len(pending) \/ n = Len(pending) + 1
      BY <3>1 DEF PendingInv
    <3>3. \A n \in DOMAIN pending' : pending'[n].by = "app"
      BY <2>2, <3>1, <3>2 DEF PendingInv
    <3> QED BY <2>1, <2>2, <3>1, <3>3 DEF PendingInv, ConnectionInv
  <2>3. CASE UNCHANGED pending
    BY <2>1, <2>3, PendingUntouched
  <2>4. ASSUME NEW n \in DOMAIN pending, RequestTimesOut(n)
        PROVE  PendingInv'
    <3>1. /\ pending' \in Seq(Request) /\ Len(pending') = Len(pending) - 1
          /\ \A k \in DOMAIN pending' : \E m \in DOMAIN pending : pending'[k] = pending[m]
      BY <2>4, RequestRemoved DEF RequestTimesOut
    <3>2. announced /\ open
      BY <2>4 DEF RequestTimesOut, PendingOf, PendingInv, ConnectionInv, Connector
    <3> QED BY <2>1, <3>1, <3>2 DEF PendingInv
  <2> QED BY <1>7, <2>2, <2>3, <2>4
          DEF Calling, SpawnCalled, ListSessionsCalled, KillCalled, JoinCalled, Call,
              LeaveCalled, LeaveSent, IsConnected, requests
<1>8. CASE Receive
  <2>1. UNCHANGED <<open, announced>> /\ open
    BY <1>8 DEF Receive, phase
  <2>2. CASE Forget(Head(down))
    BY <2>1, <2>2, PendingUntouched DEF Forget, requests
  <2>3. ASSUME NEW n \in DOMAIN pending, pending' = Except(n),
               announced => pc' = pc
        PROVE  PendingInv'
    <3>1. /\ pending' \in Seq(Request) /\ Len(pending') = Len(pending) - 1
          /\ \A k \in DOMAIN pending' : \E m \in DOMAIN pending : pending'[k] = pending[m]
      BY <2>3, RequestRemoved
    <3>2. CASE announced
      BY <2>1, <3>1, <3>2 DEF PendingInv
    <3>3. CASE ~announced
      <4>1. Len(pending') = 0
        BY <2>3, <3>1, <3>3 DEF PendingInv
      <4>2. pending' = <<>>
        BY <3>1, <4>1
      <4> QED BY <4>2, NonePending
    <3> QED BY <3>2, <3>3 DEF ConnectionInv, ConnectionTypeOK
  <2>4. CASE Settle(Head(down))
    <3>1. PICK n \in SettledBy(Head(down)) :
            /\ pending' = Except(n)
            /\ pending[n].by = "app" => pc' = pc
      BY <2>4 DEF Settle
    <3>2. n \in DOMAIN pending
      BY DEF SettledBy, First
    <3> QED BY <2>3, <3>1, <3>2 DEF PendingInv
  <2> QED BY <1>8, <2>2, <2>4 DEF Receive
<1>9. CASE \/ ServerAnswers \/ ForgottenAttemptClosed
           \/ \E s \in SessionId : SessionEnds(s)
           \/ ConnectionBreaks
           \/ UNCHANGED vars
  BY <1>9, PendingUntouched DEF ServerAnswers, ForgottenAttemptClosed, SessionEnds, ConnectionBreaks, vars,
     phase, requests, tasks
<1> QED BY <1>1, <1>2, <1>3, <1>4, <1>5, <1>6, <1>7, <1>8, <1>9, AttemptsKeepPending
        DEF PyNext, Connecting, ReconnectTaskGone, LoopWakes

-----------------------------------------------------------------------------
(* What is on the way keeps its type. *)

LEMMA SendKeeps ==
  ASSUME WireTypeOK, NEW msg \in UpMessage, Send(msg)
  PROVE  up' \in Seq(UpMessage)
BY DEF WireTypeOK, Send

LEMMA AskKeeps ==
  ASSUME WireTypeOK, NEW kind \in {"spawn", "join", "list"},
         NEW s \in SessionId \cup {NoSession}, NEW by, Ask(kind, s, by)
  PROVE  up' \in Seq(UpMessage)
<1>1. PICK i \in FreeIds : Send(Message(kind, s, i))
  BY DEF Ask
<1>2. Message(kind, s, i) \in UpMessage
  BY <1>1 DEF Message, UpMessage, FreeIds
<1> QED BY <1>1, <1>2, SendKeeps

LEMMA ReplyKeeps ==
  ASSUME WireTypeOK, up # <<>>, NEW msg \in DownMessage, Reply(msg)
  PROVE  up' \in Seq(UpMessage) /\ down' \in Seq(DownMessage)
BY DEF WireTypeOK, Reply

LEMMA NothingOnTheWay ==
  <<>> \in Seq(UpMessage) /\ <<>> \in Seq(DownMessage)
OBVIOUS

LEMMA CompleteKeepsWire ==
  ASSUME WireTypeOK, NEW c \in Connector, Complete(c)
  PROVE  WireTypeOK'
<1>1. CASE UNCHANGED <<activity, wire, server>>
  BY <1>1 DEF WireTypeOK, activity, wire, server
<1>2. CASE /\ Ask("join", session, c)
           /\ UNCHANGED <<activity, down, member, server>>
  <2>1. up' \in Seq(UpMessage)
    BY <1>2, AskKeeps DEF WireTypeOK
  <2> QED BY <1>2, <2>1 DEF WireTypeOK, activity, server
<1> QED BY <1>1, <1>2 DEF Complete, Announce

LEMMA HoldLockKeepsWire ==
  ASSUME WireTypeOK, NEW c \in Connector, HoldLock(c)
  PROVE  WireTypeOK'
BY CompleteKeepsWire DEF HoldLock, WireTypeOK, activity, wire, server

LEMMA TakeLockKeepsWire ==
  ASSUME WireTypeOK, NEW c \in Connector, TakeLock(c)
  PROVE  WireTypeOK'
BY HoldLockKeepsWire DEF TakeLock, WireTypeOK, activity, wire, server

LEMMA CloseKeepsWire ==
  ASSUME WireTypeOK, CloseTransport, session' \in {session, NoSession}, UNCHANGED server
  PROVE  WireTypeOK'
BY NothingOnTheWay DEF WireTypeOK, CloseTransport, server

LEMMA CallingKeepsWire ==
  ASSUME WireTypeOK, Calling
  PROVE  WireTypeOK'
<1>1. /\ UNCHANGED <<down, member, server>>
      /\ session' \in {session, NoSession}
  BY DEF Calling, SpawnCalled, ListSessionsCalled, KillCalled, JoinCalled, LeaveCalled,
         LeaveSent, RequestTimesOut, ClearSession, activity, wire
<1>2. leaving' \subseteq SessionId
  BY DEF Calling, SpawnCalled, ListSessionsCalled, KillCalled, JoinCalled, LeaveCalled,
         LeaveSent, RequestTimesOut, ClearSession, activity, WireTypeOK
<1>3. up' \in Seq(UpMessage)
  <2>1. ASSUME NEW type \in {"leave", "close"}, NEW s \in SessionId \cup {NoSession},
               Send(Message(type, s, Unasked))
        PROVE  up' \in Seq(UpMessage)
    <3>1. Message(type, s, Unasked) \in UpMessage
      BY DEF Message, UpMessage
    <3> QED BY <2>1, <3>1, SendKeeps
  <2>2. CASE SpawnCalled
    BY <2>2, AskKeeps DEF SpawnCalled
  <2>3. CASE ListSessionsCalled
    BY <2>3, AskKeeps DEF ListSessionsCalled
  <2>4. CASE KillCalled
    BY <2>1, <2>4 DEF KillCalled, WireTypeOK
  <2>5. ASSUME NEW s \in SessionId, JoinCalled(s) \/ LeaveCalled(s) \/ LeaveSent(s)
        PROVE  up' \in Seq(UpMessage)
    BY <2>1, <2>5, AskKeeps DEF JoinCalled, LeaveCalled, LeaveSent, wire, WireTypeOK
  <2>6. ASSUME NEW n, RequestTimesOut(n)  PROVE up' \in Seq(UpMessage)
    BY <2>6 DEF RequestTimesOut, wire, WireTypeOK
  <2> QED BY <2>2, <2>3, <2>4, <2>5, <2>6 DEF Calling
<1> QED BY <1>1, <1>2, <1>3 DEF WireTypeOK, server

LEMMA ServerKeepsWire ==
  ASSUME WireTypeOK, ServerAnswers
  PROVE  WireTypeOK'
<1>1. up # <<>> /\ Head(up) \in UpMessage
  BY DEF WireTypeOK, ServerAnswers
<1>2. /\ Head(up).session \in SessionId \cup {NoSession}
      /\ Head(up).id \in RequestId \cup {Unasked}
  BY <1>1 DEF UpMessage
<1>3. \E msg \in DownMessage : Reply(msg)
  <2>1. \A type \in {"spawned", "joined", "sessionList", "left", "ended", "error"},
          s \in SessionId \cup {NoSession}, i \in RequestId \cup {Unasked} :
            Message(type, s, i) \in DownMessage
    BY DEF Message, DownMessage
  <2> QED BY <1>2, <2>1 DEF ServerAnswers, Grant, Refuse
<1>4. up' \in Seq(UpMessage) /\ down' \in Seq(DownMessage)
  BY <1>1, <1>3, ReplyKeeps
<1>5. UNCHANGED <<activity, ids>>
  BY DEF ServerAnswers
<1>6. /\ member' \subseteq SessionId /\ live' \subseteq SessionId
      /\ used' \subseteq SessionId
  BY DEF ServerAnswers, Grant, Refuse, WireTypeOK
<1> QED BY <1>4, <1>5, <1>6 DEF WireTypeOK, activity

LEMMA ReceiveKeepsWire ==
  ASSUME WireTypeOK, PendingInv, Receive
  PROVE  WireTypeOK' /\ Head(down) \in DownMessage /\ down' \in Seq(DownMessage)
<1>1. /\ Head(down) \in DownMessage /\ down' \in Seq(DownMessage)
  BY DEF Receive, WireTypeOK
<1>2. Head(down).session \in SessionId \cup {NoSession}
  BY <1>1 DEF DownMessage
<1>3. session' \in SessionId \cup {NoSession}
  BY <1>2 DEF Receive, Settle, Forget, ClearSession, WireTypeOK
<1>4. UNCHANGED <<up, member, leaving, server>>
  BY DEF Receive, Settle, Forget
<1> QED BY <1>1, <1>3, <1>4 DEF WireTypeOK, server

LEMMA WireTypeStep ==
  ASSUME WireTypeOK, PendingInv, [PyNext]_vars
  PROVE  WireTypeOK'
<1> USE TwoConnectors
<1>1. CASE UNCHANGED <<activity, wire, server>>
  BY <1>1 DEF WireTypeOK, activity, wire, server
<1>2. ASSUME NEW c \in Connector, Connecting(c)  PROVE WireTypeOK'
  <2>1. CASE LockHandedOver(c) \/ AttemptResumes(c)
    BY <1>1, <2>1, HoldLockKeepsWire, CompleteKeepsWire DEF LockHandedOver, AttemptResumes
  <2>2. CASE DialSucceeds(c)
    BY <2>2, NothingOnTheWay DEF DialSucceeds, WireTypeOK, activity, server
  <2>3. CASE RecoveryResumes(c)
    <3>1. UNCHANGED <<wire, server, leaving>> /\ session' \in {session, NoSession}
      BY <2>3 DEF RecoveryResumes, Announce, ClearSession, activity
    <3> QED BY <3>1 DEF WireTypeOK, wire, server
  <2>4. CASE RecoveryTimesOut(c)
    BY <2>4, CloseKeepsWire DEF RecoveryTimesOut
  <2> QED BY <1>1, <1>2, <2>1, <2>2, <2>3, <2>4 DEF Connecting, DialFails, AttemptClosed
<1>3. CASE ConnectCancelled
  <2>1. CASE UNCHANGED <<session, leaving, wire, server>>
    BY <2>1 DEF WireTypeOK, wire, server
  <2>2. CASE CloseTransport
    BY <1>3, <2>2, CloseKeepsWire DEF ConnectCancelled
  <2> QED BY <1>3, <2>1, <2>2 DEF ConnectCancelled
<1>4. CASE RemoteDisconnect \/ DisconnectCalled
  BY <1>4, CloseKeepsWire DEF RemoteDisconnect, DisconnectCalled, ClearSession
<1>5. CASE \/ ConnectCalled \/ ReconnectTaskGone \/ LoopWakes \/ ScheduleReconnect
           \/ ForgottenAttemptClosed
  BY <1>1, <1>5, TakeLockKeepsWire
     DEF ConnectCalled, ReconnectTaskGone, LoopWakes, ScheduleReconnect,
         ForgottenAttemptClosed
<1>6. CASE Receive
  BY <1>6, ReceiveKeepsWire
<1>7. ASSUME NEW s \in SessionId, SessionEnds(s)  PROVE WireTypeOK'
  <2>1. Message("ended", s, Unasked) \in DownMessage
    BY DEF Message, DownMessage
  <2>2. down' \in Seq(DownMessage)
    BY <1>7, <2>1 DEF SessionEnds, WireTypeOK
  <2> QED BY <1>7, <2>2 DEF SessionEnds, WireTypeOK, activity
<1>8. CASE ConnectionBreaks
  BY <1>8, NothingOnTheWay DEF ConnectionBreaks, WireTypeOK, activity, server
<1> QED BY <1>1, <1>2, <1>3, <1>4, <1>5, <1>6, <1>7, <1>8, CallingKeepsWire,
           ServerKeepsWire DEF PyNext, vars

-----------------------------------------------------------------------------
(* RecoveryInv is kept. *)

\* The steps that leave the connection and the recovery alone.
LEMMA RecoveryUntouched ==
  ASSUME RecoveryInv, UNCHANGED <<open, announced, recovering, recoveryPending, wire>>,
         ~announced => leaving' = {},
         \A c \in Connector : pc[c] \in {"joining", "joined", "refused"} =>
                                pc'[c] \in {"joining", "joined", "refused"}
  PROVE  RecoveryInv'
BY DEF RecoveryInv, Quiet, wire

LEMMA CloseKeepsRecovery == ASSUME CloseTransport  PROVE RecoveryInv'
BY DEF CloseTransport, RecoveryInv, Quiet

\* Who holds the lock is the only one that recovers.
LEMMA OnlyHolderRecovers ==
  ASSUME ConnectionInv, NEW c \in Connector, lock \in {c, Nobody}, pc[c] \notin Holding
                                                   \/ pc[c] \in {"dialing", "dialed", "failed"}
  PROVE  \A d \in Connector : pc[d] \notin {"joining", "joined", "refused"}
BY TwoConnectors DEF ConnectionInv, LockInv, Holding

LEMMA CompleteKeepsRecovery ==
  ASSUME ConnectionInv, RecoveryInv, NEW c \in Connector, Complete(c), ~announced,
         \A d \in Connector : pc[d] \notin {"joining", "joined", "refused"}
  PROVE  RecoveryInv'
<1> USE TwoConnectors
<1>1. CASE ~recoveryPending /\ Announce(c) /\ UNCHANGED <<recovering, activity, requests>>
  <2>1. ~recovering
    BY <1>1 DEF RecoveryInv
  <2>2. UNCHANGED <<open, alive, up, down, member, leaving, recovering>>
    BY <1>1 DEF Announce, activity, wire
  <2> QED BY <2>1, <2>2 DEF RecoveryInv, Quiet, ConnectionInv
<1>2. CASE /\ recoveryPending /\ open /\ pc' = [pc EXCEPT ![c] = "joining"]
           /\ UNCHANGED <<open, announced, activity>>
  <2>1. pc'[c] = "joining"
    BY <1>2 DEF ConnectionInv, ConnectionTypeOK
  <2> QED BY <1>2, <2>1 DEF RecoveryInv, activity
<1>3. CASE recovering' = FALSE /\ UNCHANGED <<open, announced, activity, wire>>
  BY <1>3 DEF RecoveryInv, Quiet, activity, wire
<1> QED BY <1>1, <1>2, <1>3 DEF Complete

LEMMA HoldLockKeepsRecovery ==
  ASSUME ConnectionInv, RecoveryInv, NEW c \in Connector, HoldLock(c),
         \A d \in Connector : pc[d] \notin {"joining", "joined", "refused"}
  PROVE  RecoveryInv'
BY CompleteKeepsRecovery, RecoveryUntouched DEF HoldLock, phase, activity, RecoveryInv

LEMMA AttemptsKeepRecovery ==
  ASSUME ConnectionInv, RecoveryInv, NEW c \in Connector, Connecting(c)
  PROVE  RecoveryInv'
<1> USE TwoConnectors
<1>1. CASE LockHandedOver(c)
  <2>1. \A d \in Connector : pc[d] \notin {"joining", "joined", "refused"}
    BY <1>1 DEF LockHandedOver, ConnectionInv, LockInv, Holding
  <2> QED BY <1>1, <2>1, HoldLockKeepsRecovery DEF LockHandedOver
<1>2. CASE DialSucceeds(c)
  <2>1. ~announced /\ leaving = {}
    BY <1>2 DEF DialSucceeds, ConnectionInv, LockInv, Holding, RecoveryInv
  <2> QED BY <1>2, <2>1
          DEF DialSucceeds, RecoveryInv, Quiet, activity, ConnectionInv, ConnectionTypeOK
<1>3. CASE DialFails(c)
  <2>1. UNCHANGED <<open, phase, activity, wire>> /\ ~open
    BY <1>3 DEF DialFails, ConnectionInv, LockInv
  <2> QED BY <2>1 DEF RecoveryInv, Quiet, phase, activity, wire
<1>4. CASE AttemptResumes(c)
  <2>1. pc[c] = "dialed" /\ lock = c /\ ~announced
    BY <1>4 DEF AttemptResumes, ConnectionInv, LockInv, Holding
  <2>2. \A d \in Connector : pc[d] \notin {"joining", "joined", "refused"}
    BY <2>1, OnlyHolderRecovers
  <2>3. CASE Complete(c)
    BY <2>1, <2>2, <2>3, CompleteKeepsRecovery
  <2>4. CASE UNCHANGED <<open, phase, activity, wire>>
    BY <2>2, <2>4, RecoveryUntouched DEF phase, activity, RecoveryInv
  <2> QED BY <1>4, <2>3, <2>4 DEF AttemptResumes
<1>5. CASE RecoveryResumes(c)
  <2>1. /\ UNCHANGED <<open, wire, leaving>> /\ recovering' = FALSE
        /\ announced => announced'
    BY <1>5 DEF RecoveryResumes, Announce, ClearSession, activity, wire
  <2> QED BY <2>1 DEF RecoveryInv, Quiet, wire, ConnectionInv, ConnectionTypeOK
<1>6. CASE RecoveryTimesOut(c)
  BY <1>6, CloseKeepsRecovery DEF RecoveryTimesOut
<1>7. CASE AttemptClosed(c)
  BY <1>7, RecoveryUntouched DEF AttemptClosed, Stop, ConnectionInv, ConnectionTypeOK,
                                 RecoveryInv, phase, activity
<1> QED BY <1>1, <1>2, <1>3, <1>4, <1>5, <1>6, <1>7 DEF Connecting

LEMMA RecoveryStep ==
  ASSUME ConnectionInv, PendingInv, WireTypeOK, RecoveryInv, [PyNext]_vars
  PROVE  RecoveryInv'
<1> USE TwoConnectors
<1>1. CASE ConnectCalled
  <2>1. /\ UNCHANGED <<open, announced, leaving, wire, recoveryPending>>
        /\ pc["user"] = "idle"
        /\ \/ /\ recovering' = recovering
              /\ pc["loop"] \notin {"joining", "joined", "refused", "failed"}
           \/ recovering' = FALSE
    BY <1>1 DEF ConnectCalled, activity, ConnectionInv, ConnectionTypeOK
  <2>2. CASE recovering' = FALSE
    BY <2>1, <2>2 DEF RecoveryInv, Quiet, wire
  <2>3. CASE /\ recovering' = recovering
             /\ pc["loop"] \notin {"joining", "joined", "refused", "failed"}
    <3>1. \A c \in Connector : pc[c] \notin {"joining", "joined", "refused"}
      BY <2>1, <2>3
    <3> QED BY <2>1, <2>3, <3>1, RecoveryUntouched DEF RecoveryInv
  <2> QED BY <2>1, <2>2, <2>3
<1>2. ASSUME NEW c \in Connector, pc[c] \in {"canceling", "sleeping"}, TakeLock(c)
      PROVE  RecoveryInv'
  <2>1. CASE lock = Nobody /\ HoldLock(c)
    <3>1. \A d \in Connector : pc[d] \notin {"joining", "joined", "refused"}
      BY <2>1 DEF ConnectionInv, LockInv, Holding
    <3> QED BY <2>1, <3>1, HoldLockKeepsRecovery
  <2>2. CASE /\ pc' = [pc EXCEPT ![c] = "locking"]
             /\ UNCHANGED <<open, phase, activity, wire>>
    BY <1>2, <2>2, RecoveryUntouched
       DEF ConnectionInv, ConnectionTypeOK, RecoveryInv, phase, activity
  <2> QED BY <1>2, <2>1, <2>2 DEF TakeLock, MayLock
<1>3. CASE LoopWakes /\ Stop("loop") /\ UNCHANGED <<open, phase, activity, wire>>
  BY <1>3, RecoveryUntouched
     DEF LoopWakes, Stop, ConnectionInv, ConnectionTypeOK, RecoveryInv, phase, activity
<1>4. CASE ConnectCancelled
  <2>1. CASE /\ open => announced
             /\ UNCHANGED <<open, announced, recovering, recoveryPending, leaving, wire>>
    <3>1. ~recovering
      BY <2>1 DEF RecoveryInv
    <3> QED BY <2>1, <3>1 DEF RecoveryInv, Quiet, wire
  <2> QED BY <1>4, <2>1, CloseKeepsRecovery DEF ConnectCancelled
<1>5. CASE RemoteDisconnect \/ DisconnectCalled
  BY <1>5, CloseKeepsRecovery DEF RemoteDisconnect, DisconnectCalled
<1>6. CASE ScheduleReconnect
  BY <1>6, RecoveryUntouched DEF ScheduleReconnect, MaySchedule, ConnectionInv,
     ConnectionTypeOK, RecoveryInv, phase, activity
<1>7. CASE Calling
  <2>1. UNCHANGED <<open, announced, recovering, pc, alive, down, member>>
    BY <1>7 DEF Calling, SpawnCalled, ListSessionsCalled, KillCalled, JoinCalled,
                LeaveCalled, LeaveSent, RequestTimesOut, phase, tasks, wire
  <2>2. CASE announced
    BY <2>1, <2>2 DEF RecoveryInv, ConnectionInv
  <2>3. CASE ~announced /\ \E n \in DOMAIN pending : RequestTimesOut(n)
    BY <2>3, RecoveryUntouched DEF RequestTimesOut, RecoveryInv, phase, activity, tasks
  <2>4. CASE ~announced /\ \E s \in SessionId : LeaveSent(s)
    BY <2>4 DEF LeaveSent, RecoveryInv
  <2> QED BY <1>7, <2>2, <2>3, <2>4
          DEF Calling, SpawnCalled, ListSessionsCalled, KillCalled, JoinCalled,
              LeaveCalled, Call, IsConnected, ConnectionInv, ConnectionTypeOK
<1>8. CASE Receive
  <2>1. /\ UNCHANGED <<open, announced, recovering, leaving>> /\ open /\ down # <<>>
    BY <1>8 DEF Receive, Settle, Forget, phase
  <2>2. \A c \in Connector : pc[c] \in {"joining", "joined", "refused"} =>
                               pc'[c] \in {"joining", "joined", "refused"}
    BY <1>8 DEF Receive, Settle, Forget, ConnectionInv, ConnectionTypeOK
  <2> QED BY <2>1, <2>2 DEF RecoveryInv, Quiet
<1>9. CASE ServerAnswers
  <2>1. ~Quiet /\ alive
    BY <1>9 DEF Quiet, ServerAnswers
  <2>2. UNCHANGED <<open, announced, recovering, leaving, pc>>
    BY <1>9 DEF ServerAnswers, phase, activity, tasks
  <2> QED BY <2>1, <2>2 DEF RecoveryInv
<1>10. CASE (\E s \in SessionId : SessionEnds(s)) \/ ConnectionBreaks
  <2>1. /\ UNCHANGED <<open, announced, recovering, recoveryPending, leaving, pc>>
        /\ alive' = alive \/ alive' = FALSE
    BY <1>10 DEF SessionEnds, ConnectionBreaks, phase, activity, tasks
  <2>2. Quiet => Quiet'
    BY <1>10 DEF SessionEnds, ConnectionBreaks, Quiet
  <2> QED BY <2>1, <2>2 DEF RecoveryInv
<1>11. CASE UNCHANGED vars \/ ForgottenAttemptClosed
  BY <1>11, RecoveryUntouched
     DEF ForgottenAttemptClosed, vars, phase, activity, tasks, RecoveryInv
<1> QED BY <1>1, <1>2, <1>3, <1>4, <1>5, <1>6, <1>7, <1>8, <1>9, <1>10, <1>11,
           AttemptsKeepRecovery DEF PyNext, ReconnectTaskGone, LoopWakes

-----------------------------------------------------------------------------
(* SessionInv is kept. *)

\* The part of SessionInv that does not look at what is on the way, and the part
\* that does.
ToRecover ==
  /\ recoveryPending => session # NoSession
  /\ ~open /\ session # NoSession => recoveryPending
  /\ announced => ~recoveryPending
  /\ \A c \in Connector : pc[c] = "joined" /\ open => ~recoveryPending

Rejoined ==
  /\ alive => \A i \in DOMAIN down :
       down[i].type \in {"spawned", "joined"} => InOrTold(down[i].session, i)
  /\ alive /\ session # NoSession /\ ~recoveryPending => InOrTold(session, 0)

LEMMA SessionParts == SessionInv <=> ToRecover /\ Rejoined
BY DEF SessionInv, ToRecover, Rejoined

LEMMA CloseToRecover ==
  ASSUME CloseTransport,
         \/ session' = session /\ recoveryPending' = (session # NoSession)
         \/ ClearSession
  PROVE  SessionInv'
BY DEF CloseTransport, ClearSession, SessionInv

LEMMA ToRecoverUntouched ==
  ASSUME ToRecover, UNCHANGED <<open, announced>>,
         UNCHANGED <<session, recoveryPending>> \/ ClearSession,
         \A c \in Connector : pc'[c] = "joined" => pc[c] = "joined"
  PROVE  ToRecover'
BY DEF ToRecover, ClearSession

LEMMA RejoinedUntouched ==
  ASSUME Rejoined, UNCHANGED <<alive, down, member>>,
         UNCHANGED <<session, recoveryPending>> \/ ClearSession
  PROVE  Rejoined'
BY DEF Rejoined, InOrTold, ClearSession

\* The server says whom it takes out of a session, and takes in who it says.
LEMMA TellKeeps ==
  ASSUME WireTypeOK, Rejoined, UNCHANGED <<alive, session, recoveryPending>>,
         NEW msg, down' = Append(down, msg),
         \A s : s \in member => s \in member' \/ Ends(msg, s),
         msg.type \in {"spawned", "joined"} => msg.session \in member'
  PROVE  Rejoined'
<1>1. /\ down \in Seq(DownMessage)
      /\ DOMAIN down' = 1..(Len(down) + 1) /\ DOMAIN down = 1..Len(down)
      /\ down'[Len(down) + 1] = msg
      /\ \A j \in 1..Len(down) : down'[j] = down[j]
  BY DEF WireTypeOK
<1>2. ASSUME NEW s, NEW i \in 0..Len(down), InOrTold(s, i)
      PROVE  InOrTold(s, i)'
  <2>1. CASE s \in member'
    BY <2>1 DEF InOrTold
  <2>2. CASE s \in member /\ Ends(msg, s)
    <3>1. Len(down) + 1 \in DOMAIN down' /\ Len(down) + 1 > i
      BY <1>1
    <3> QED BY <1>1, <2>2, <3>1 DEF InOrTold, Ends
  <2>3. CASE \E j \in DOMAIN down : j > i /\ Ends(down[j], s)
    <3>1. PICK j \in DOMAIN down : j > i /\ Ends(down[j], s)
      BY <2>3
    <3>2. j \in DOMAIN down' /\ down'[j] = down[j]
      BY <1>1, <3>1
    <3> QED BY <3>1, <3>2 DEF InOrTold, Ends
  <2> QED BY <1>2, <2>1, <2>2, <2>3 DEF InOrTold
<1>3. ASSUME alive', NEW i \in DOMAIN down', down'[i].type \in {"spawned", "joined"}
      PROVE  InOrTold(down[i].session, i)'
  <2>1. CASE i = Len(down) + 1
    BY <1>1, <1>3, <2>1 DEF InOrTold
  <2>2. CASE i \in 1..Len(down)
    <3>1. InOrTold(down[i].session, i) /\ i \in 0..Len(down) /\ down'[i] = down[i]
      BY <1>1, <1>3, <2>2 DEF Rejoined
    <3>2. \A s : s = down[i].session => InOrTold(s, i)'
      BY <1>2, <3>1
    <3> QED BY <3>1, <3>2 DEF InOrTold
  <2> QED BY <1>1, <1>3, <2>1, <2>2
<1>4. ASSUME alive', session' # NoSession, ~recoveryPending'
      PROVE  InOrTold(session, 0)'
  <2>1. InOrTold(session, 0) /\ 0 \in 0..Len(down)
    BY <1>1, <1>4 DEF Rejoined
  <2>2. \A s : s = session => InOrTold(s, 0)'
    BY <1>2, <2>1
  <2> QED BY <2>2 DEF InOrTold
<1> QED BY <1>3, <1>4 DEF Rejoined

LEMMA ServerKeepsSession ==
  ASSUME WireTypeOK, Rejoined, ServerAnswers
  PROVE  Rejoined'
<1>1. UNCHANGED <<alive, session, recoveryPending>>
  BY DEF ServerAnswers, activity
<1>2. ASSUME NEW type, NEW s, NEW i, Reply(Message(type, s, i)),
             \/ type \in {"spawned", "joined"} /\ member' = member \cup {s}
             \/ type \in {"left", "ended"} /\ member' = member \ {s}
             \/ type \in {"sessionList", "error"} /\ member' = member
      PROVE  Rejoined'
  <2> DEFINE msg == Message(type, s, i)
  <2>1. /\ down' = Append(down, msg) /\ msg.type = type /\ msg.session = s
    BY <1>2 DEF Reply, Message
  <2>2. \A t : t \in member => t \in member' \/ Ends(msg, t)
    BY <1>2, <2>1 DEF Ends
  <2>3. msg.type \in {"spawned", "joined"} => msg.session \in member'
    BY <1>2, <2>1
  <2> HIDE DEF msg
  <2> QED BY <1>1, <2>1, <2>2, <2>3, TellKeeps
<1> QED BY <1>2 DEF ServerAnswers, Grant, Refuse

\* What Forget and Settle do with the message they take.
LEMMA ReceiveKeepsSession ==
  ASSUME ConnectionInv, PendingInv, WireTypeOK, SessionInv, Receive
  PROVE  SessionInv'
<1> DEFINE msg == Head(down)
<1>1. /\ open /\ UNCHANGED <<open, announced, alive, member>> /\ ~requested
      /\ msg \in DownMessage /\ down' = Tail(down) /\ down # <<>>
      /\ ToRecover /\ Rejoined
  BY ReceiveKeepsWire, SessionParts DEF Receive, phase, ConnectionInv, StaleInv
<1>2. /\ DOMAIN down = 1..Len(down) /\ Len(down) \in Nat \ {0}
      /\ DOMAIN down' = 1..(Len(down) - 1) /\ msg = down[1]
      /\ \A j \in 1..(Len(down) - 1) : down'[j] = down[j + 1]
  BY <1>1 DEF WireTypeOK
<1> HIDE DEF msg
<1>3. ASSUME NEW s, NEW i \in Nat, NEW k \in Nat, InOrTold(s, k),
             k = i + 1 \/ (k = 0 /\ i = 0 /\ ~Ends(msg, s))
      PROVE  InOrTold(s, i)'
  <2>1. CASE s \in member
    BY <1>1, <2>1 DEF InOrTold
  <2>2. ASSUME NEW j \in DOMAIN down, j > k, Ends(down[j], s)
        PROVE  InOrTold(s, i)'
    <3>0. j # 1 \/ k = i + 1
      BY <1>2, <1>3, <2>2
    <3>1. j > 1 /\ j - 1 > i
      BY <1>2, <1>3, <2>2, <3>0
    <3>2. j - 1 \in DOMAIN down' /\ down'[j - 1] = down[(j - 1) + 1] /\ (j - 1) + 1 = j
      BY <1>2, <3>1
    <3> QED BY <2>2, <3>1, <3>2 DEF InOrTold, Ends
  <2> QED BY <1>3, <2>1, <2>2 DEF InOrTold
<1>4. ASSUME alive', NEW i \in DOMAIN down', down'[i].type \in {"spawned", "joined"}
      PROVE  InOrTold(down[i].session, i)'
  <2>1. i \in Nat /\ i + 1 \in DOMAIN down /\ down'[i] = down[i + 1]
    BY <1>2
  <2>2. InOrTold(down[i + 1].session, i + 1)
    BY <1>1, <1>4, <2>1 DEF Rejoined
  <2>3. \A s : s = down[i + 1].session => InOrTold(s, i)'
    BY <1>3, <2>1, <2>2, i + 1 \in Nat
  <2> QED BY <2>1, <2>3 DEF InOrTold
<1>5. \/ /\ msg.type \in {"spawned", "joined"}
         /\ session' = msg.session /\ ~recoveryPending'
      \/ ClearSession
      \/ /\ UNCHANGED <<session, recoveryPending>>
         /\ ~Ends(msg, session)
  <2>1. CASE Settle(msg)
    <3>1. PICK n \in DOMAIN pending : msg.type \in {"error", Answer(pending[n].kind)}
      BY <2>1 DEF Settle, SettledBy, First
    <3>2. pending[n] \in Request
      BY <3>1 DEF PendingInv
    <3>3. msg.type \notin {"ended", "left"}
      BY <3>1, <3>2 DEF Answer, Request
    <3> QED BY <2>1, <3>3 DEF Settle, Ends
  <2>2. CASE Forget(msg)
    BY <2>2 DEF Forget, Ends
  <2> QED BY <2>1, <2>2 DEF Receive, msg
<1>6. ASSUME alive', session' # NoSession, ~recoveryPending'
      PROVE  InOrTold(session, 0)'
  <2>1. CASE msg.type \in {"spawned", "joined"} /\ session' = msg.session
    <3>1. InOrTold(msg.session, 1)
      BY <1>1, <1>2, <1>6, <2>1 DEF Rejoined
    <3>2. \A s : s = msg.session => InOrTold(s, 0)'
      BY <1>3, <3>1
    <3> QED BY <2>1, <3>2 DEF InOrTold
  <2>2. CASE UNCHANGED <<session, recoveryPending>> /\ ~Ends(msg, session)
    <3>1. InOrTold(session, 0)
      BY <1>1, <1>6, <2>2 DEF Rejoined
    <3>2. \A s : s = session => InOrTold(s, 0)'
      BY <1>3, <2>2, <3>1
    <3> QED BY <2>2, <3>2 DEF InOrTold
  <2> QED BY <1>5, <1>6, <2>1, <2>2 DEF ClearSession
<1>7. ToRecover'
  <2>1. CASE session' = msg.session /\ ~recoveryPending'
    BY <1>1, <2>1 DEF ToRecover
  <2>2. CASE ClearSession
    BY <1>1, <2>2 DEF ToRecover, ClearSession
  <2>3. CASE UNCHANGED <<session, recoveryPending>>
    <3>1. \A c \in Connector : pc'[c] = "joined" => pc[c] = "joined" \/ ~recoveryPending'
      BY <2>3 DEF Receive, Settle, Forget, ConnectionInv, ConnectionTypeOK
    <3> QED BY <1>1, <2>3, <3>1 DEF ToRecover
  <2> QED BY <1>5, <2>1, <2>2, <2>3
<1> QED BY <1>4, <1>6, <1>7, SessionParts DEF SessionInv, Rejoined, ToRecover

LEMMA CompleteKeepsSession ==
  ASSUME ConnectionInv, SessionInv, NEW c \in Connector, Complete(c)
  PROVE  SessionInv'
<1> USE TwoConnectors
<1>0. ToRecover /\ Rejoined
  BY SessionParts
<1>1. UNCHANGED <<open, session, recoveryPending, alive, down, member>>
  BY DEF Complete, Announce, activity, wire
<1>2. \A d \in Connector : pc'[d] = "joined" => pc[d] = "joined"
  BY DEF Complete, Announce, Stop, Fails, ConnectionInv, ConnectionTypeOK
<1>3. announced' = announced \/ ~recoveryPending
  BY DEF Complete
<1>4. ToRecover'
  BY <1>0, <1>1, <1>2, <1>3 DEF ToRecover
<1> QED BY <1>0, <1>1, <1>4, RejoinedUntouched, SessionParts
        DEF SessionInv, ToRecover, Rejoined

LEMMA SessionUntouched ==
  ASSUME SessionInv, UNCHANGED <<open, announced, alive, down, member>>,
         UNCHANGED <<session, recoveryPending>> \/ ClearSession,
         \A c \in Connector : pc'[c] = "joined" => pc[c] = "joined"
  PROVE  SessionInv'
<1>1. ToRecover' /\ Rejoined'
  BY SessionParts, ToRecoverUntouched, RejoinedUntouched
<1> QED BY <1>1 DEF SessionInv, ToRecover, Rejoined

LEMMA HoldLockKeepsSession ==
  ASSUME ConnectionInv, SessionInv, NEW c \in Connector, HoldLock(c)
  PROVE  SessionInv'
<1>1. CASE UNCHANGED <<open, phase, activity, wire>>
  <2>1. \A d \in Connector : pc'[d] = "joined" => pc[d] = "joined" \/ Complete(c)
    BY DEF HoldLock, Stop, ConnectionInv, ConnectionTypeOK
  <2> QED BY <1>1, <2>1, SessionUntouched, CompleteKeepsSession DEF phase, activity, wire
<1> QED BY <1>1, CompleteKeepsSession DEF HoldLock

LEMMA AttemptsKeepSession ==
  ASSUME ConnectionInv, RecoveryInv, SessionInv, NEW c \in Connector, Connecting(c)
  PROVE  SessionInv'
<1> USE TwoConnectors
<1>0. ToRecover /\ Rejoined
  BY SessionParts
<1>1. CASE LockHandedOver(c)
  BY <1>1, HoldLockKeepsSession DEF LockHandedOver
<1>2. CASE DialSucceeds(c)
  <2>1. \A d \in Connector : pc'[d] # "joined"
    BY <1>2 DEF DialSucceeds, ConnectionInv, ConnectionTypeOK, LockInv, Holding
  <2>2. /\ ~open /\ open' /\ ~announced' /\ down' = <<>>
        /\ UNCHANGED <<session, recoveryPending>>
    BY <1>2 DEF DialSucceeds, ConnectionInv, LockInv, activity
  <2> QED BY <1>0, <2>1, <2>2 DEF SessionInv, ToRecover
<1>3. CASE DialFails(c)
  <2>1. \A d \in Connector : pc'[d] = "joined" => pc[d] = "joined"
    BY <1>3 DEF DialFails, Fails, ConnectionInv, ConnectionTypeOK
  <2> QED BY <1>3, <2>1, SessionUntouched DEF DialFails, phase, activity, wire
<1>4. CASE AttemptResumes(c)
  <2>1. CASE Stop(c) /\ UNCHANGED <<open, phase, activity, wire>>
    <3>1. \A d \in Connector : pc'[d] = "joined" => pc[d] = "joined"
      BY <2>1 DEF Stop, ConnectionInv, ConnectionTypeOK
    <3> QED BY <2>1, <3>1, SessionUntouched DEF phase, activity, wire
  <2> QED BY <1>4, <2>1, CompleteKeepsSession DEF AttemptResumes
<1>5. CASE RecoveryResumes(c)
  <2>1. \A d \in Connector : pc'[d] = "joined" => pc[d] = "joined"
    BY <1>5 DEF RecoveryResumes, Announce, Stop, Fails, ConnectionInv, ConnectionTypeOK
  <2>2. UNCHANGED <<open, alive, down, member>>
    BY <1>5 DEF RecoveryResumes, Announce, wire
  <2>3. CASE pc[c] = "joined" /\ Announce(c) /\ UNCHANGED activity
    <3>1. announced' = announced \/ open
      BY <2>3 DEF Announce
    <3>2. ToRecover'
      BY <1>0, <2>1, <2>2, <2>3, <3>1 DEF ToRecover, activity
    <3>3. Rejoined'
      BY <1>0, <2>2, <2>3, RejoinedUntouched DEF activity
    <3> QED BY <3>2, <3>3 DEF SessionInv, ToRecover, Rejoined
  <2>4. CASE ClearSession
    <3>1. ToRecover'
      BY <2>4 DEF ToRecover, ClearSession
    <3>2. Rejoined'
      BY <1>0, <2>2, <2>4, RejoinedUntouched
    <3> QED BY <3>1, <3>2 DEF SessionInv, ToRecover, Rejoined
  <2>5. CASE /\ pc[c] = "failed" /\ UNCHANGED <<announced, session>>
             /\ recoveryPending' = (recoveryPending \/ session # NoSession)
    <3>1. ~open /\ ~alive /\ ~announced
      BY <2>5 DEF ConnectionInv, LockInv, RecoveryInv
    <3> QED BY <1>0, <2>1, <2>2, <2>5, <3>1 DEF SessionInv, ToRecover
  <2> QED BY <1>5, <2>3, <2>4, <2>5 DEF RecoveryResumes
<1>6. CASE RecoveryTimesOut(c)
  BY <1>6, CloseToRecover DEF RecoveryTimesOut
<1>7. CASE AttemptClosed(c)
  <2>1. \A d \in Connector : pc'[d] = "joined" => pc[d] = "joined"
    BY <1>7 DEF AttemptClosed, Stop, ConnectionInv, ConnectionTypeOK
  <2> QED BY <1>7, <2>1, SessionUntouched DEF AttemptClosed, phase, activity, wire
<1> QED BY <1>1, <1>2, <1>3, <1>4, <1>5, <1>6, <1>7 DEF Connecting

LEMMA SessionStep ==
  ASSUME ConnectionInv, PendingInv, WireTypeOK, RecoveryInv, SessionInv, [PyNext]_vars
  PROVE  SessionInv'
<1> USE TwoConnectors
<1>0. ToRecover /\ Rejoined
  BY SessionParts
<1>1. CASE ConnectCalled
  <2>1. \A c \in Connector : pc'[c] = "joined" => pc[c] = "joined"
    BY <1>1 DEF ConnectCalled, Cancelled, ConnectionInv, ConnectionTypeOK
  <2> QED BY <1>1, <2>1, SessionUntouched DEF ConnectCalled, activity, wire
<1>2. ASSUME NEW c \in Connector, TakeLock(c)  PROVE SessionInv'
  <2>1. CASE pc' = [pc EXCEPT ![c] = "locking"] /\ UNCHANGED <<open, phase, activity, wire>>
    <3>1. \A d \in Connector : pc'[d] = "joined" => pc[d] = "joined"
      BY <2>1 DEF ConnectionInv, ConnectionTypeOK
    <3> QED BY <2>1, <3>1, SessionUntouched DEF phase, activity, wire
  <2> QED BY <1>2, <2>1, HoldLockKeepsSession DEF TakeLock
<1>3. CASE LoopWakes /\ Stop("loop") /\ UNCHANGED <<open, phase, activity, wire>>
  <2>1. \A d \in Connector : pc'[d] = "joined" => pc[d] = "joined"
    BY <1>3 DEF Stop, ConnectionInv, ConnectionTypeOK
  <2> QED BY <1>3, <2>1, SessionUntouched DEF phase, activity, wire
<1>4. CASE ConnectCancelled
  <2>1. CASE /\ \E at \in Cancelled("user") : pc' = [pc EXCEPT !["user"] = at]
             /\ UNCHANGED <<open, announced, session, recoveryPending, wire>>
    <3>1. \A d \in Connector : pc'[d] = "joined" => pc[d] = "joined"
      BY <2>1 DEF Cancelled, ConnectionInv, ConnectionTypeOK
    <3> QED BY <2>1, <3>1, SessionUntouched DEF wire
  <2> QED BY <1>4, <2>1, CloseToRecover DEF ConnectCancelled
<1>5. CASE RemoteDisconnect \/ DisconnectCalled
  BY <1>5, CloseToRecover DEF RemoteDisconnect, DisconnectCalled
<1>6. CASE ScheduleReconnect
  <2>1. \A d \in Connector : pc'[d] = "joined" => pc[d] = "joined"
    BY <1>6 DEF ScheduleReconnect, ConnectionInv, ConnectionTypeOK
  <2> QED BY <1>6, <2>1, SessionUntouched DEF ScheduleReconnect, phase, activity, wire
<1>7. CASE Calling
  <2>1. /\ UNCHANGED <<open, announced, alive, down, member, pc>>
        /\ UNCHANGED <<session, recoveryPending>> \/ ClearSession
    BY <1>7 DEF Calling, SpawnCalled, ListSessionsCalled, KillCalled, JoinCalled,
                LeaveCalled, LeaveSent, RequestTimesOut, phase, activity, tasks, wire
  <2> QED BY <2>1, SessionUntouched
<1>8. CASE ServerAnswers
  <2>1. UNCHANGED <<open, announced, session, recoveryPending, pc>>
    BY <1>8 DEF ServerAnswers, phase, activity, tasks
  <2>2. ToRecover' /\ Rejoined'
    BY <1>0, <1>8, <2>1, ToRecoverUntouched, ServerKeepsSession
  <2> QED BY <2>2 DEF SessionInv, ToRecover, Rejoined
<1>9. ASSUME NEW s \in SessionId, SessionEnds(s)  PROVE SessionInv'
  <2>1. /\ UNCHANGED <<open, announced, session, recoveryPending, pc, alive>>
        /\ member' = member \ {s}
    BY <1>9 DEF SessionEnds, phase, activity, tasks
  <2>2. CASE s \in member /\ alive
    <3> DEFINE msg == Message("ended", s, Unasked)
    <3>1. down' = Append(down, msg) /\ Ends(msg, s) /\ msg.type = "ended"
      BY <1>9, <2>2 DEF SessionEnds, Ends, Message
    <3> HIDE DEF msg
    <3>2. Rejoined'
      BY <1>0, <2>1, <3>1, TellKeeps
    <3> QED BY <1>0, <2>1, <3>2, ToRecoverUntouched DEF SessionInv, ToRecover, Rejoined
  <2>3. CASE ~(s \in member /\ alive)
    <3>1. Rejoined'
      BY <1>0, <1>9, <2>1, <2>3 DEF SessionEnds, Rejoined, InOrTold
    <3> QED BY <1>0, <2>1, <3>1, ToRecoverUntouched DEF SessionInv, ToRecover, Rejoined
  <2> QED BY <2>2, <2>3
<1>10. CASE ConnectionBreaks
  BY <1>10 DEF ConnectionBreaks, SessionInv, phase, activity, tasks
<1>11. CASE UNCHANGED vars \/ ForgottenAttemptClosed
  BY <1>11, SessionUntouched DEF ForgottenAttemptClosed, vars, phase, activity, tasks, wire
<1> QED BY <1>1, <1>2, <1>3, <1>4, <1>5, <1>6, <1>7, <1>8, <1>9, <1>10, <1>11,
           AttemptsKeepSession, ReceiveKeepsSession
        DEF PyNext, ReconnectTaskGone, LoopWakes

-----------------------------------------------------------------------------
(* AnswersInv is kept. *)

LEMMA RequestsHaveIds ==
  ASSUME PendingInv
  PROVE  /\ DOMAIN pending = 1..Len(pending) /\ Len(pending) \in Nat
         /\ \A n \in DOMAIN pending : pending[n].id # Unasked /\ pending[n] \in Request
<1>1. pending \in Seq(Request)
  BY DEF PendingInv
<1>2. \A r \in Request : r.id # Unasked
  BY DEF Request, RequestId, Unasked
<1> QED BY <1>1, <1>2

LEMMA EmptyInOrder ==
  ASSUME pending' = <<>>, up' = <<>>, down' = <<>>
  PROVE  OrderInv'
BY DEF OrderInv, OneByOne, AskedOnce, AnsweredOnce, NoneForgotten, AskedInTurn,
       AnsweredInTurn

LEMMA AnswersUntouched ==
  ASSUME AnswersInv, UNCHANGED <<pending, order, alive, up, down>>
  PROVE  AnswersInv'
BY DEF AnswersInv, OrderInv, OneByOne, AskedOnce, AnsweredOnce, NoneForgotten,
       AskedInTurn, AnsweredInTurn, Answers

LEMMA CloseInOrder == ASSUME CloseTransport  PROVE AnswersInv'
BY EmptyInOrder DEF CloseTransport, AnswersInv

\* A new request comes last, and so does its message.
LEMMA AskInOrder ==
  ASSUME PendingInv, WireTypeOK, AnswersInv, UNCHANGED <<alive, down, order>>,
         NEW kind \in {"spawn", "join", "list"}, NEW s, NEW by, Ask(kind, s, by)
  PROVE  AnswersInv'
<1> SUFFICES ASSUME OrderInv  PROVE OrderInv'
  BY DEF AnswersInv
<1>1. PICK i \in FreeIds : /\ pending' = Append(pending, [id |-> i, kind |-> kind, by |-> by])
                           /\ Send(Message(kind, s, i))
  BY DEF Ask
<1> DEFINE r == [id |-> i, kind |-> kind, by |-> by]
           msg == Message(kind, s, i)
           P == Len(pending)
           U == Len(up)
<1>2. /\ \A n \in DOMAIN pending : pending[n].id # i
      /\ \A a \in DOMAIN up : up[a].id # i
      /\ \A j \in DOMAIN down : down[j].id # i
      /\ i # Unasked
  BY DEF FreeIds, RequestId, Unasked
<1>3. /\ P \in Nat /\ DOMAIN pending = 1..P /\ DOMAIN pending' = 1..(P + 1)
      /\ pending'[P + 1] = r /\ \A n \in 1..P : pending'[n] = pending[n]
  BY <1>1 DEF PendingInv
<1>4. /\ U \in Nat /\ DOMAIN up = 1..U
      /\ \A a \in 1..U : up'[a] = up[a]
      /\ \/ DOMAIN up' = 1..U /\ ~alive
         \/ DOMAIN up' = 1..(U + 1) /\ up'[U + 1] = msg
  BY <1>1 DEF Send, WireTypeOK
<1>5. msg.id = i /\ msg.type = kind /\ r.id = i /\ r.kind = kind
  BY DEF Message
<1>6. \A n \in DOMAIN pending : pending[n].id # Unasked
  BY RequestsHaveIds
<1> HIDE DEF r, msg, P, U
<1>7. /\ DOMAIN pending \subseteq DOMAIN pending'
      /\ \A n \in DOMAIN pending : pending'[n] = pending[n]
      /\ P + 1 \in DOMAIN pending' /\ pending'[P + 1].id = i /\ pending'[P + 1].kind = kind
      /\ \A n \in DOMAIN pending' : n \in DOMAIN pending \/ n = P + 1
      /\ \A n \in DOMAIN pending : n < P + 1
  BY <1>3, <1>5
<1>8. /\ DOMAIN up \subseteq DOMAIN up'
      /\ \A a \in DOMAIN up : up'[a] = up[a]
      /\ alive => U + 1 \in DOMAIN up' /\ up'[U + 1].id = i /\ up'[U + 1].type = kind
      /\ \A a \in DOMAIN up' : a \in DOMAIN up \/ (a = U + 1 /\ up'[a].id = i
                                                      /\ up'[a].type = kind)
      /\ \A a \in DOMAIN up : a < U + 1
  BY <1>4, <1>5
<1>9. OneByOne'
  BY <1>2, <1>7 DEF OrderInv, OneByOne
<1>10. AskedOnce'
  BY <1>2, <1>7, <1>8 DEF OrderInv, AskedOnce
<1>11. AnsweredOnce'
  <2>1. ASSUME NEW j \in DOMAIN down, NEW n \in DOMAIN pending, Answers(down[j], n)
        PROVE  Answers(down[j], n)'
    BY <1>7, <2>1 DEF Answers
  <2> QED BY <1>7, <2>1 DEF OrderInv, AnsweredOnce
<1>12. NoneForgotten'
  BY <1>7, <1>8 DEF OrderInv, NoneForgotten
<1>a. ASSUME NEW m \in DOMAIN pending', NEW n \in DOMAIN pending', n < m
      PROVE  n \in DOMAIN pending /\ (m \in DOMAIN pending \/ m = P + 1)
  BY <1>3, <1>7, <1>a
<1>13. AskedInTurn'
  <2> SUFFICES ASSUME NEW m \in DOMAIN pending', NEW n \in DOMAIN pending', n < m,
                      NEW a \in DOMAIN up', NEW b \in DOMAIN up',
                      up'[a].id = pending'[m].id, up'[b].id = pending'[n].id
               PROVE  b < a
    BY DEF AskedInTurn
  <2>1. n \in DOMAIN pending /\ b \in DOMAIN up /\ up[b].id = pending[n].id
    BY <1>2, <1>7, <1>8, <1>a
  <2>2. CASE m \in DOMAIN pending
    <3>1. a \in DOMAIN up /\ up[a].id = pending[m].id
      BY <1>2, <1>7, <1>8, <2>2
    <3> QED BY <2>1, <2>2, <3>1 DEF OrderInv, AskedInTurn
  <2>3. CASE m = P + 1
    BY <1>2, <1>7, <1>8, <2>1, <2>3
  <2> QED BY <1>a, <2>2, <2>3
<1>14. AnsweredInTurn'
  <2> SUFFICES ASSUME NEW m \in DOMAIN pending', NEW n \in DOMAIN pending', n < m,
                      NEW j \in DOMAIN down, down[j].id = pending'[m].id
               PROVE  \E k \in DOMAIN down : k < j /\ down[k].id = pending'[n].id
    BY DEF AnsweredInTurn
  <2>1. n \in DOMAIN pending /\ m \in DOMAIN pending
    BY <1>2, <1>7, <1>a
  <2>2. pending'[m] = pending[m] /\ pending'[n] = pending[n]
    BY <1>7, <2>1
  <2> QED BY <2>1, <2>2 DEF OrderInv, AnsweredInTurn
<1> QED BY <1>9, <1>10, <1>11, <1>12, <1>13, <1>14 DEF OrderInv

\* A message that asks for no answer.
LEMMA SendInOrder ==
  ASSUME PendingInv, WireTypeOK, AnswersInv, UNCHANGED <<pending, alive, down, order>>,
         NEW type \in {"leave", "close"}, NEW s, Send(Message(type, s, Unasked))
  PROVE  AnswersInv'
<1> SUFFICES ASSUME OrderInv  PROVE OrderInv'
  BY DEF AnswersInv
<1> DEFINE msg == Message(type, s, Unasked)
           U == Len(up)
<1>1. msg.id = Unasked /\ msg.type = type
  BY DEF Message
<1>2. /\ U \in Nat /\ DOMAIN up = 1..U
      /\ \A a \in 1..U : up'[a] = up[a]
      /\ \/ DOMAIN up' = 1..U
         \/ DOMAIN up' = 1..(U + 1) /\ up'[U + 1] = msg
  BY DEF Send, WireTypeOK
<1>3. \A n \in DOMAIN pending : pending[n].id # Unasked
  BY RequestsHaveIds
<1> HIDE DEF msg, U
<1>4. /\ DOMAIN up \subseteq DOMAIN up'
      /\ \A a \in DOMAIN up : up'[a] = up[a]
      /\ \A a \in DOMAIN up' : \/ a \in DOMAIN up
                               \/ up'[a].id = Unasked /\ up'[a].type = type
  BY <1>1, <1>2
<1>5. AskedOnce'
  BY <1>4 DEF OrderInv, AskedOnce
<1>6. NoneForgotten'
  BY <1>4 DEF OrderInv, NoneForgotten
<1>7. AskedInTurn'
  BY <1>3, <1>4 DEF OrderInv, AskedInTurn
<1> QED BY <1>5, <1>6, <1>7
        DEF OrderInv, OneByOne, AnsweredOnce, AnsweredInTurn, Answers

\* What is left of a sequence keeps its order: o says where each element was.
Thinned(r, q, gone, o) ==
  /\ o \in [DOMAIN r -> DOMAIN q \ {gone}]
  /\ \A k \in DOMAIN r : r[k] = q[o[k]]
  /\ \A k, l \in DOMAIN r : (k < l <=> o[k] < o[l]) /\ (k = l <=> o[k] = o[l])
  /\ \A m \in DOMAIN q : m # gone => \E k \in DOMAIN r : o[k] = m

LEMMA WithoutThins ==
  ASSUME NEW S, NEW q \in Seq(S), NEW n \in 1..Len(q)
  PROVE  \E o : Thinned(Without(q, n), q, n, o)
<1> DEFINE r == Without(q, n)
           o == [k \in 1..(Len(q) - 1) |-> IF k < n THEN k ELSE k + 1]
<1>0. /\ r \in Seq(S) /\ Len(r) = Len(q) - 1
      /\ \A k \in 1..(Len(q) - 1) : r[k] = IF k < n THEN q[k] ELSE q[k + 1]
  BY Removed
<1>a. r = Without(q, n)
  OBVIOUS
<1> HIDE DEF r
<1>1. /\ Len(q) \in Nat /\ DOMAIN q = 1..Len(q) /\ DOMAIN r = 1..(Len(q) - 1)
      /\ \A k \in 1..(Len(q) - 1) : r[k] = IF k < n THEN q[k] ELSE q[k + 1]
  BY <1>0
<1>2. \A k \in 1..(Len(q) - 1) : o[k] = IF k < n THEN k ELSE k + 1
  OBVIOUS
<1>3. o \in [1..(Len(q) - 1) -> 1..Len(q)]
  BY <1>1
<1> HIDE DEF o
<1>4. ASSUME NEW m \in 1..Len(q), m # n
      PROVE  \E k \in 1..(Len(q) - 1) : o[k] = m
  <2>1. CASE m < n
    <3>1. m \in 1..(Len(q) - 1)
      BY <1>1, <2>1
    <3> QED BY <1>2, <2>1, <3>1
  <2>2. CASE m > n
    <3>1. m - 1 \in 1..(Len(q) - 1) /\ ~(m - 1 < n) /\ (m - 1) + 1 = m
      BY <1>1, <2>2
    <3> QED BY <1>2, <3>1
  <2> QED BY <1>1, <1>4, <2>1, <2>2
<1>5. \A k \in 1..(Len(q) - 1) : o[k] \in 1..Len(q) /\ o[k] # n /\ r[k] = q[o[k]]
  BY <1>1, <1>2
<1>6. \A k, l \in 1..(Len(q) - 1) : (k < l <=> o[k] < o[l]) /\ (k = l <=> o[k] = o[l])
  BY <1>1, <1>2
<1>7. o \in [DOMAIN r -> DOMAIN q \ {n}]
  BY <1>1, <1>3, <1>5
<1>8. Thinned(r, q, n, o)
  BY <1>1, <1>4, <1>5, <1>6, <1>7 DEF Thinned
<1> QED BY <1>8, <1>a

LEMMA TailThins ==
  ASSUME NEW S, NEW q \in Seq(S), q # <<>>
  PROVE  1 \in DOMAIN q /\ q[1] = Head(q) /\ \E o : Thinned(Tail(q), q, 1, o)
<1> DEFINE r == Tail(q)
           o == [k \in 1..(Len(q) - 1) |-> k + 1]
<1>1. /\ Len(q) \in Nat \ {0} /\ DOMAIN q = 1..Len(q) /\ DOMAIN r = 1..(Len(q) - 1)
      /\ \A k \in 1..(Len(q) - 1) : r[k] = q[k + 1]
      /\ q[1] = Head(q)
  OBVIOUS
<1>2. \A k \in 1..(Len(q) - 1) : o[k] = k + 1
  OBVIOUS
<1>3. o \in [1..(Len(q) - 1) -> 1..Len(q)]
  BY <1>1
<1> HIDE DEF r, o
<1>4. ASSUME NEW m \in 1..Len(q), m # 1
      PROVE  \E k \in 1..(Len(q) - 1) : o[k] = m
  <2>1. m - 1 \in 1..(Len(q) - 1) /\ (m - 1) + 1 = m
    BY <1>1, <1>4
  <2> QED BY <1>2, <2>1
<1>5. \A k \in 1..(Len(q) - 1) : o[k] \in 1..Len(q) /\ o[k] # 1 /\ r[k] = q[o[k]]
  BY <1>1, <1>2
<1>6. \A k, l \in 1..(Len(q) - 1) : (k < l <=> o[k] < o[l]) /\ (k = l <=> o[k] = o[l])
  BY <1>1, <1>2
<1>7. o \in [DOMAIN r -> DOMAIN q \ {1}]
  BY <1>1, <1>3, <1>5
<1>8. Thinned(r, q, 1, o)
  BY <1>1, <1>4, <1>5, <1>6, <1>7 DEF Thinned
<1>9. 1 \in DOMAIN q
  BY <1>1
<1> QED BY <1>1, <1>8, <1>9 DEF r

\* The next answer finds the request it answers, with identifiers and without.
LEMMA HeadFindsItsRequest ==
  ASSUME PendingInv, WireTypeOK, OrderInv, down # <<>>
  PROVE  /\ Head(down).id = Unasked => SettledBy(Head(down)) = {}
         /\ Head(down).id # Unasked =>
              \E n \in DOMAIN pending : /\ SettledBy(Head(down)) = {n}
                                        /\ pending[n].id = Head(down).id
<1> DEFINE msg == Head(down)
<1>1. 1 \in DOMAIN down /\ msg = down[1] /\ DOMAIN down \subseteq Nat \ {0}
  BY TailThins DEF WireTypeOK
<1>2. /\ DOMAIN pending \subseteq Nat
      /\ \A n \in DOMAIN pending : pending[n].kind \in {"spawn", "join", "list"}
  BY RequestsHaveIds DEF Request
<1> HIDE DEF msg
<1>3. ASSUME msg.id = Unasked  PROVE SettledBy(msg) = {}
  <2>1. msg.type \in {"ended", "left"}
    BY <1>1, <1>3 DEF OrderInv, AnsweredOnce
  <2>2. \A n \in DOMAIN pending : msg.type \notin {"error", Answer(pending[n].kind)}
    BY <1>2, <2>1 DEF Answer
  <2> QED BY <2>2 DEF SettledBy, First
<1>4. ASSUME msg.id # Unasked
      PROVE  \E n \in DOMAIN pending : SettledBy(msg) = {n} /\ pending[n].id = msg.id
  <2>1. PICK n \in DOMAIN pending : Answers(msg, n)
    BY <1>1, <1>4 DEF OrderInv, AnsweredOnce
  <2> DEFINE fits == {k \in DOMAIN pending : msg.type \in {"error", Answer(pending[k].kind)}}
             own == {k \in fits : ids /\ pending[k].id = msg.id}
  <2>2. n \in fits /\ pending[n].id = msg.id
    BY <2>1 DEF Answers
  <2>3. \A k \in DOMAIN pending : pending[k].id = msg.id => k = n
    BY <2>2 DEF OrderInv, OneByOne
  <2>4. ASSUME NEW k \in fits, k < n  PROVE FALSE
    BY <1>1, <2>2, <2>4 DEF OrderInv, AnsweredInTurn
  <2>5. First(fits) = {n}
    <3>1. \A k \in fits : n <= k
      BY <1>2, <2>4
    <3>2. \A k \in fits : k <= n => k = n
      BY <1>2, <3>1
    <3> QED BY <2>2, <3>1, <3>2 DEF First
  <2>6. own = {n} \/ own = {}
    BY <2>3
  <2>7. SettledBy(msg) = IF own # {} THEN own ELSE First(fits)
    BY DEF SettledBy
  <2> HIDE DEF fits, own
  <2> QED BY <2>2, <2>5, <2>6, <2>7
<1> QED BY <1>3, <1>4 DEF msg

LEMMA SettleInOrder ==
  ASSUME PendingInv, WireTypeOK, OrderInv, UNCHANGED <<alive, up>>,
         down # <<>>, down' = Tail(down),
         NEW n \in DOMAIN pending, pending[n].id = Head(down).id, pending' = Except(n)
  PROVE  OrderInv'
<1>1. PICK o : Thinned(pending', pending, n, o)
  BY WithoutThins, RequestsHaveIds DEF PendingInv, Except, Without
<1>2. 1 \in DOMAIN down /\ pending[n].id = down[1].id
  BY TailThins DEF WireTypeOK
<1>3. PICK h : Thinned(down', down, 1, h)
  BY TailThins DEF WireTypeOK
<1>4. \A m \in DOMAIN pending : pending[m].id = pending[n].id => m = n
  BY DEF OrderInv, OneByOne
<1>5. pending[n].id # Unasked
  BY RequestsHaveIds
<1>6. /\ \A a \in DOMAIN up : up[a].id # pending[n].id
      /\ \A i \in DOMAIN down : down[i].id = pending[n].id => i = 1
  BY <1>2, <1>5 DEF OrderInv, AskedOnce, AnsweredOnce
<1>7. OneByOne'
  BY <1>1 DEF OrderInv, OneByOne, Thinned
<1>8. AskedOnce'
  <2> SUFFICES ASSUME NEW a \in DOMAIN up
               PROVE  IF up[a].id = Unasked THEN up[a].type \in {"leave", "close"}
                      ELSE /\ \E k \in DOMAIN pending' : pending'[k].id = up[a].id
                                                           /\ pending'[k].kind = up[a].type
                           /\ \A b \in DOMAIN up : up[b].id = up[a].id => a = b
                           /\ \A i \in DOMAIN down' : down'[i].id # up[a].id
    BY DEF AskedOnce
  <2>1. CASE up[a].id = Unasked
    BY <2>1 DEF OrderInv, AskedOnce
  <2>2. CASE up[a].id # Unasked
    <3>1. PICK m \in DOMAIN pending : pending[m].id = up[a].id /\ pending[m].kind = up[a].type
      BY <2>2 DEF OrderInv, AskedOnce
    <3>2. m # n
      BY <1>6, <3>1
    <3>3. \E k \in DOMAIN pending' : pending'[k] = pending[m]
      BY <1>1, <3>2 DEF Thinned
    <3>4. \A i \in DOMAIN down' : down'[i].id # up[a].id
      BY <1>3, <2>2 DEF OrderInv, AskedOnce, Thinned
    <3> QED BY <2>2, <3>1, <3>3, <3>4 DEF OrderInv, AskedOnce
  <2> QED BY <2>1, <2>2
<1>9. AnsweredOnce'
  <2> SUFFICES ASSUME NEW i \in DOMAIN down'
               PROVE  IF down'[i].id = Unasked THEN down'[i].type \in {"ended", "left"}
                      ELSE /\ \E k \in DOMAIN pending' : Answers(down[i], k)'
                           /\ \A j \in DOMAIN down' : down'[j].id = down'[i].id => i = j
    BY DEF AnsweredOnce
  <2>1. h[i] \in DOMAIN down /\ h[i] # 1 /\ down'[i] = down[h[i]]
    BY <1>3 DEF Thinned
  <2>2. CASE down'[i].id = Unasked
    BY <2>1, <2>2 DEF OrderInv, AnsweredOnce
  <2>3. CASE down'[i].id # Unasked
    <3>1. PICK m \in DOMAIN pending : Answers(down[h[i]], m)
      BY <2>1, <2>3 DEF OrderInv, AnsweredOnce
    <3>2. m # n
      BY <1>6, <2>1, <3>1 DEF Answers
    <3>3. PICK k \in DOMAIN pending' : pending'[k] = pending[m]
      BY <1>1, <3>2 DEF Thinned
    <3>4. Answers(down[i], k)'
      BY <2>1, <3>1, <3>3 DEF Answers
    <3>5. \A j \in DOMAIN down' : down'[j].id = down'[i].id => i = j
      BY <1>3, <2>1, <2>3 DEF OrderInv, AnsweredOnce, Thinned
    <3> QED BY <2>3, <3>4, <3>5
  <2> QED BY <2>2, <2>3
<1>10. NoneForgotten'
  <2> SUFFICES ASSUME alive, NEW k \in DOMAIN pending'
               PROVE  \/ \E a \in DOMAIN up : up[a].id = pending'[k].id
                      \/ \E i \in DOMAIN down' : down'[i].id = pending'[k].id
    BY DEF NoneForgotten
  <2>1. /\ o[k] \in DOMAIN pending /\ o[k] # n /\ pending'[k] = pending[o[k]]
    BY <1>1 DEF Thinned
  <2>2. ASSUME NEW i \in DOMAIN down, down[i].id = pending[o[k]].id
        PROVE  \E j \in DOMAIN down' : down'[j].id = pending'[k].id
    <3>1. i # 1
      BY <1>2, <1>4, <2>1, <2>2
    <3>2. \E j \in DOMAIN down' : down'[j] = down[i]
      BY <1>3, <3>1 DEF Thinned
    <3> QED BY <2>1, <2>2, <3>2
  <2> QED BY <2>1, <2>2 DEF OrderInv, NoneForgotten
<1>11. AskedInTurn'
  BY <1>1 DEF OrderInv, AskedInTurn, Thinned
<1>12. AnsweredInTurn'
  <2> SUFFICES ASSUME NEW l \in DOMAIN pending', NEW k \in DOMAIN pending', k < l,
                      NEW i \in DOMAIN down', down'[i].id = pending'[l].id
               PROVE  \E j \in DOMAIN down' : j < i /\ down'[j].id = pending'[k].id
    BY DEF AnsweredInTurn
  <2>1. /\ o[l] \in DOMAIN pending /\ pending'[l] = pending[o[l]]
        /\ o[k] \in DOMAIN pending /\ pending'[k] = pending[o[k]]
        /\ o[k] # n /\ o[k] < o[l]
    BY <1>1 DEF Thinned
  <2>2. h[i] \in DOMAIN down /\ down'[i] = down[h[i]]
    BY <1>3 DEF Thinned
  <2>3. ASSUME NEW j \in DOMAIN down, j < h[i], down[j].id = pending[o[k]].id
        PROVE  \E x \in DOMAIN down' : x < i /\ down'[x].id = pending'[k].id
    <3>1. j # 1
      BY <1>2, <1>4, <2>1, <2>3
    <3>2. PICK x \in DOMAIN down' : h[x] = j
      BY <1>3, <3>1 DEF Thinned
    <3> QED BY <1>3, <2>1, <2>3, <3>2 DEF Thinned
  <2> QED BY <2>1, <2>2, <2>3 DEF OrderInv, AnsweredInTurn
<1> QED BY <1>7, <1>8, <1>9, <1>10, <1>11, <1>12 DEF OrderInv

LEMMA ForgetInOrder ==
  ASSUME PendingInv, WireTypeOK, OrderInv, UNCHANGED <<alive, up, pending>>,
         down # <<>>, down' = Tail(down), Head(down).id = Unasked
  PROVE  OrderInv'
<1>1. 1 \in DOMAIN down /\ down[1].id = Unasked
  BY TailThins DEF WireTypeOK
<1>2. PICK h : Thinned(down', down, 1, h)
  BY TailThins DEF WireTypeOK
<1>3. \A m \in DOMAIN pending : pending[m].id # Unasked
  BY RequestsHaveIds
<1>4. AskedOnce'
  BY <1>2 DEF OrderInv, AskedOnce, Thinned
<1>5. AnsweredOnce'
  <2> SUFFICES ASSUME NEW i \in DOMAIN down'
               PROVE  IF down'[i].id = Unasked THEN down'[i].type \in {"ended", "left"}
                      ELSE /\ \E k \in DOMAIN pending : Answers(down[i], k)'
                           /\ \A j \in DOMAIN down' : down'[j].id = down'[i].id => i = j
    BY DEF AnsweredOnce
  <2>1. h[i] \in DOMAIN down /\ down'[i] = down[h[i]]
    BY <1>2 DEF Thinned
  <2>2. \A k \in DOMAIN pending : Answers(down[h[i]], k) => Answers(down[i], k)'
    BY <2>1 DEF Answers
  <2>3. down'[i].id # Unasked =>
          \A j \in DOMAIN down' : down'[j].id = down'[i].id => i = j
    BY <1>2 DEF OrderInv, AnsweredOnce, Thinned
  <2> QED BY <2>1, <2>2, <2>3 DEF OrderInv, AnsweredOnce
<1>6. ASSUME NEW n \in DOMAIN pending, NEW i \in DOMAIN down, down[i].id = pending[n].id
      PROVE  \E j \in DOMAIN down' : h[j] = i /\ down'[j].id = pending[n].id
  <2>1. i # 1
    BY <1>1, <1>3, <1>6
  <2> QED BY <1>2, <1>6, <2>1 DEF Thinned
<1>7. NoneForgotten'
  BY <1>6 DEF OrderInv, NoneForgotten
<1>8. AnsweredInTurn'
  <2> SUFFICES ASSUME NEW l \in DOMAIN pending, NEW k \in DOMAIN pending, k < l,
                      NEW i \in DOMAIN down', down'[i].id = pending[l].id
               PROVE  \E j \in DOMAIN down' : j < i /\ down'[j].id = pending[k].id
    BY DEF AnsweredInTurn
  <2>1. h[i] \in DOMAIN down /\ down'[i] = down[h[i]]
    BY <1>2 DEF Thinned
  <2>2. ASSUME NEW j \in DOMAIN down, j < h[i], down[j].id = pending[k].id
        PROVE  \E x \in DOMAIN down' : x < i /\ down'[x].id = pending[k].id
    <3>1. PICK x \in DOMAIN down' : h[x] = j /\ down'[x].id = pending[k].id
      BY <1>6, <2>2
    <3> QED BY <1>2, <2>2, <3>1 DEF Thinned
  <2> QED BY <2>1, <2>2 DEF OrderInv, AnsweredInTurn
<1> QED BY <1>4, <1>5, <1>7, <1>8 DEF OrderInv, OneByOne, AskedInTurn

LEMMA ReceiveInOrder ==
  ASSUME PendingInv, WireTypeOK, AnswersInv, Receive
  PROVE  AnswersInv'
<1>1. down # <<>> /\ down' = Tail(down) /\ UNCHANGED <<alive, up>>
  BY DEF Receive
<1>2. CASE order # "kept"
  <2>1. order' = order
    BY <1>2 DEF Receive, Settle, Forget, Mixed, requests
  <2> QED BY <1>2, <2>1 DEF AnswersInv
<1>3. CASE order = "kept"
  <2>0. OrderInv
    BY <1>3 DEF AnswersInv
  <2>1. CASE Settle(Head(down))
    <3>1. PICK n \in SettledBy(Head(down)) :
            pending' = Except(n) /\ order' = Mixed(n, Head(down))
      BY <2>1 DEF Settle
    <3>2. n \in DOMAIN pending /\ pending[n].id = Head(down).id
      BY <1>1, <2>0, <3>1, HeadFindsItsRequest
    <3>3. order' = "kept"
      BY <1>3, <3>1, <3>2 DEF Mixed
    <3>4. OrderInv'
      BY <1>1, <2>0, <3>1, <3>2, SettleInOrder
    <3> QED BY <3>3, <3>4 DEF AnswersInv
  <2>2. CASE Forget(Head(down))
    <3>1. Head(down).id = Unasked
      BY <1>1, <2>0, <2>2, HeadFindsItsRequest DEF Forget
    <3>2. OrderInv'
      BY <1>1, <2>0, <2>2, <3>1, ForgetInOrder DEF Forget, requests
    <3> QED BY <1>3, <2>2, <3>2 DEF AnswersInv, Forget, requests
  <2> QED BY <2>1, <2>2 DEF Receive
<1> QED BY <1>2, <1>3

\* The server answers the request that is next.
LEMMA ReplyInOrder ==
  ASSUME PendingInv, WireTypeOK, OrderInv, UNCHANGED <<alive, pending>>, alive,
         up # <<>>, Head(up).id # Unasked,
         NEW msg, Reply(msg), msg.id = Head(up).id,
         msg.type \in {"error", Answer(Head(up).type)}
  PROVE  OrderInv'
<1>1. 1 \in DOMAIN up /\ up[1] = Head(up) /\ DOMAIN up \subseteq Nat \ {0}
  BY TailThins DEF WireTypeOK
<1>2. PICK g : Thinned(up', up, 1, g)
  BY TailThins DEF WireTypeOK, Reply
<1> DEFINE D == Len(down)
<1>3. /\ D \in Nat /\ DOMAIN down = 1..D
      /\ \A i \in 1..D : down'[i] = down[i]
      /\ DOMAIN down' = 1..(D + 1) /\ down'[D + 1] = msg
  BY DEF WireTypeOK, Reply
<1> HIDE DEF D
<1>4. /\ DOMAIN down \subseteq DOMAIN down' /\ D + 1 \in DOMAIN down' /\ down'[D + 1] = msg
      /\ \A i \in DOMAIN down : down'[i] = down[i] /\ i < D + 1
      /\ \A i \in DOMAIN down' : \/ i \in DOMAIN down
                                 \/ i = D + 1 /\ down'[i] = msg
  BY <1>3
<1>5. PICK p \in DOMAIN pending : pending[p].id = up[1].id /\ pending[p].kind = up[1].type
  BY <1>1 DEF OrderInv, AskedOnce
<1>6. /\ \A m \in DOMAIN pending : pending[m].id = msg.id => m = p
      /\ \A a \in DOMAIN up : up[a].id = msg.id => a = 1
      /\ \A i \in DOMAIN down : down[i].id # msg.id
  BY <1>1, <1>5 DEF OrderInv, OneByOne, AskedOnce
<1>7. Answers(msg, p)
  BY <1>1, <1>5 DEF Answers
<1>8. AskedOnce'
  <2> SUFFICES ASSUME NEW a \in DOMAIN up'
               PROVE  IF up'[a].id = Unasked THEN up'[a].type \in {"leave", "close"}
                      ELSE /\ \E k \in DOMAIN pending : pending[k].id = up'[a].id
                                                          /\ pending[k].kind = up'[a].type
                           /\ \A b \in DOMAIN up' : up'[b].id = up'[a].id => a = b
                           /\ \A i \in DOMAIN down' : down'[i].id # up'[a].id
    BY DEF AskedOnce
  <2>1. g[a] \in DOMAIN up /\ g[a] # 1 /\ up'[a] = up[g[a]]
    BY <1>2 DEF Thinned
  <2>2. up'[a].id # Unasked => \A b \in DOMAIN up' : up'[b].id = up'[a].id => a = b
    BY <1>2 DEF OrderInv, AskedOnce, Thinned
  <2>3. up'[a].id # Unasked => \A i \in DOMAIN down' : down'[i].id # up'[a].id
    BY <1>4, <1>6, <2>1 DEF OrderInv, AskedOnce
  <2> QED BY <2>1, <2>2, <2>3 DEF OrderInv, AskedOnce
<1>9. AnsweredOnce'
  <2> SUFFICES ASSUME NEW i \in DOMAIN down'
               PROVE  IF down'[i].id = Unasked THEN down'[i].type \in {"ended", "left"}
                      ELSE /\ \E k \in DOMAIN pending : Answers(down[i], k)'
                           /\ \A j \in DOMAIN down' : down'[j].id = down'[i].id => i = j
    BY DEF AnsweredOnce
  <2>1. CASE i \in DOMAIN down
    <3>1. \A k \in DOMAIN pending : Answers(down[i], k) => Answers(down[i], k)'
      BY <1>4, <2>1 DEF Answers
    <3>2. down'[i].id # Unasked =>
            \A j \in DOMAIN down' : down'[j].id = down'[i].id => i = j
      BY <1>4, <1>6, <2>1 DEF OrderInv, AnsweredOnce
    <3> QED BY <1>4, <2>1, <3>1, <3>2 DEF OrderInv, AnsweredOnce
  <2>2. CASE i = D + 1 /\ down'[i] = msg
    <3>1. Answers(down[i], p)'
      BY <1>7, <2>2 DEF Answers
    <3>2. \A j \in DOMAIN down' : down'[j].id = down'[i].id => i = j
      BY <1>4, <1>6, <2>2
    <3> QED BY <2>2, <3>1, <3>2
  <2> QED BY <1>4, <2>1, <2>2
<1>10. NoneForgotten'
  <2> SUFFICES ASSUME NEW k \in DOMAIN pending
               PROVE  \/ \E a \in DOMAIN up' : up'[a].id = pending[k].id
                      \/ \E i \in DOMAIN down' : down'[i].id = pending[k].id
    BY DEF NoneForgotten
  <2>1. CASE \E i \in DOMAIN down : down[i].id = pending[k].id
    BY <1>4, <2>1
  <2>2. ASSUME NEW a \in DOMAIN up, up[a].id = pending[k].id
        PROVE  \/ \E b \in DOMAIN up' : up'[b].id = pending[k].id
               \/ \E i \in DOMAIN down' : down'[i].id = pending[k].id
    <3>1. CASE a = 1
      BY <1>1, <1>4, <2>2, <3>1
    <3>2. CASE a # 1
      BY <1>2, <2>2, <3>2 DEF Thinned
    <3> QED BY <3>1, <3>2
  <2> QED BY <2>1, <2>2 DEF OrderInv, NoneForgotten
<1>11. AskedInTurn'
  BY <1>2 DEF OrderInv, AskedInTurn, Thinned
<1>12. AnsweredInTurn'
  <2> SUFFICES ASSUME NEW l \in DOMAIN pending, NEW k \in DOMAIN pending, k < l,
                      NEW i \in DOMAIN down', down'[i].id = pending[l].id
               PROVE  \E j \in DOMAIN down' : j < i /\ down'[j].id = pending[k].id
    BY DEF AnsweredInTurn
  <2>1. CASE i \in DOMAIN down
    BY <1>4, <2>1 DEF OrderInv, AnsweredInTurn
  <2>2. CASE i = D + 1 /\ down'[i] = msg
    <3>1. l = p /\ k # p
      BY <1>6, <2>2, RequestsHaveIds
    <3>2. CASE \E j \in DOMAIN down : down[j].id = pending[k].id
      BY <1>4, <2>2, <3>2
    <3>3. ASSUME NEW b \in DOMAIN up, up[b].id = pending[k].id
          PROVE  FALSE
      BY <1>1, <1>5, <3>1, <3>3 DEF OrderInv, AskedInTurn
    <3> QED BY <3>2, <3>3 DEF OrderInv, NoneForgotten
  <2> QED BY <1>4, <2>1, <2>2
<1> QED BY <1>8, <1>9, <1>10, <1>11, <1>12 DEF OrderInv, OneByOne

\* A message that answers no request, to one that asked for none or to nobody.
LEMMA TellInOrder ==
  ASSUME PendingInv, WireTypeOK, OrderInv, UNCHANGED <<pending, alive>>,
         NEW n, NEW g, Thinned(up', up, n, g), n \in DOMAIN up => up[n].id = Unasked,
         NEW type \in {"ended", "left"}, NEW s,
         down' = Append(down, Message(type, s, Unasked))
  PROVE  OrderInv'
<1> DEFINE msg == Message(type, s, Unasked)
           D == Len(down)
<1>1. msg.id = Unasked /\ msg.type = type
  BY DEF Message
<1>2. /\ D \in Nat /\ DOMAIN down = 1..D
      /\ \A i \in 1..D : down'[i] = down[i]
      /\ DOMAIN down' = 1..(D + 1) /\ down'[D + 1] = msg
  BY DEF WireTypeOK
<1>3. \A m \in DOMAIN pending : pending[m].id # Unasked
  BY RequestsHaveIds
<1> HIDE DEF msg, D
<1>4. /\ DOMAIN down \subseteq DOMAIN down'
      /\ \A i \in DOMAIN down : down'[i] = down[i]
      /\ \A i \in DOMAIN down' : \/ i \in DOMAIN down
                                 \/ down'[i].id = Unasked /\ down'[i].type = type
  BY <1>1, <1>2
<1>5. AskedOnce'
  <2> SUFFICES ASSUME NEW a \in DOMAIN up'
               PROVE  IF up'[a].id = Unasked THEN up'[a].type \in {"leave", "close"}
                      ELSE /\ \E k \in DOMAIN pending : pending[k].id = up'[a].id
                                                          /\ pending[k].kind = up'[a].type
                           /\ \A b \in DOMAIN up' : up'[b].id = up'[a].id => a = b
                           /\ \A i \in DOMAIN down' : down'[i].id # up'[a].id
    BY DEF AskedOnce
  <2>1. g[a] \in DOMAIN up /\ up'[a] = up[g[a]]
    BY DEF Thinned
  <2>2. up'[a].id # Unasked => \A b \in DOMAIN up' : up'[b].id = up'[a].id => a = b
    BY DEF OrderInv, AskedOnce, Thinned
  <2>3. up'[a].id # Unasked => \A i \in DOMAIN down' : down'[i].id # up'[a].id
    BY <1>4, <2>1 DEF OrderInv, AskedOnce
  <2> QED BY <2>1, <2>2, <2>3 DEF OrderInv, AskedOnce
<1>6. AnsweredOnce'
  <2>1. ASSUME NEW j \in DOMAIN down, NEW m \in DOMAIN pending, Answers(down[j], m)
        PROVE  Answers(down[j], m)'
    BY <1>4, <2>1 DEF Answers
  <2> QED BY <1>4, <2>1 DEF OrderInv, AnsweredOnce
<1>7. NoneForgotten'
  <2> SUFFICES ASSUME alive, NEW k \in DOMAIN pending
               PROVE  \/ \E a \in DOMAIN up' : up'[a].id = pending[k].id
                      \/ \E i \in DOMAIN down' : down'[i].id = pending[k].id
    BY DEF NoneForgotten
  <2>1. \A a \in DOMAIN up : up[a].id = pending[k].id =>
          \E b \in DOMAIN up' : up'[b].id = pending[k].id
    BY <1>3 DEF Thinned
  <2> QED BY <1>4, <2>1 DEF OrderInv, NoneForgotten
<1>8. AskedInTurn'
  BY DEF OrderInv, AskedInTurn, Thinned
<1>9. AnsweredInTurn'
  BY <1>3, <1>4 DEF OrderInv, AnsweredInTurn
<1> QED BY <1>5, <1>6, <1>7, <1>8, <1>9 DEF OrderInv, OneByOne

LEMMA AllStays == ASSUME NEW q \in Seq(UpMessage)  PROVE \E g : Thinned(q, q, 0, g)
<1> DEFINE g == [k \in DOMAIN q |-> k]
<1>1. \A k \in DOMAIN q : g[k] = k /\ k # 0
  OBVIOUS
<1>2. g \in [DOMAIN q -> DOMAIN q \ {0}]
  BY <1>1
<1> HIDE DEF g
<1>3. Thinned(q, q, 0, g)
  BY <1>1, <1>2 DEF Thinned
<1> QED BY <1>3

LEMMA ServerAnswersInOrder ==
  ASSUME PendingInv, WireTypeOK, AnswersInv, ServerAnswers
  PROVE  AnswersInv'
<1>1. alive /\ up # <<>> /\ UNCHANGED <<alive, pending>>
  BY DEF ServerAnswers
<1>a. 1 \in DOMAIN up /\ up[1] = Head(up) /\ \E g : Thinned(Tail(up), up, 1, g)
  BY <1>1, TailThins DEF WireTypeOK
<1>2. order' = order \/ (order = "kept" /\ order' = "skewed")
  BY DEF ServerAnswers, Grant, Refuse
<1>3. CASE order' # "kept"
  BY <1>2, <1>3 DEF AnswersInv
<1>4. CASE order' = "kept" /\ Head(up).id # Unasked
  <2>1. OrderInv
    BY <1>2, <1>4 DEF AnswersInv
  <2>2. Head(up).type \in {"spawn", "join", "list"}
    <3>1. PICK p \in DOMAIN pending : pending[p].kind = Head(up).type
      BY <1>4, <1>a, <2>1 DEF OrderInv, AskedOnce
    <3> QED BY <3>1, RequestsHaveIds DEF Request
  <2>3. \E type, s : /\ Reply(Message(type, s, Head(up).id))
                     /\ type \in {"error", Answer(Head(up).type)}
    BY <2>2 DEF ServerAnswers, Grant, Refuse, Answer
  <2>4. \E msg : /\ Reply(msg) /\ msg.id = Head(up).id
                 /\ msg.type \in {"error", Answer(Head(up).type)}
    BY <2>3 DEF Message
  <2>5. OrderInv'
    BY <1>1, <1>4, <2>1, <2>4, ReplyInOrder
  <2> QED BY <1>4, <2>5 DEF AnswersInv
<1>5. CASE order' = "kept" /\ Head(up).id = Unasked
  <2>1. OrderInv
    BY <1>2, <1>5 DEF AnswersInv
  <2>2. Head(up).type \in {"leave", "close"}
    BY <1>5, <1>a, <2>1 DEF OrderInv, AskedOnce
  <2>3. PICK type \in {"ended", "left"} :
           Reply(Message(type, Head(up).session, Unasked))
    BY <1>5, <2>2 DEF ServerAnswers, Refuse
  <2>4. \E g : Thinned(up', up, 1, g)
    BY <1>a, <2>3 DEF Reply
  <2>5. OrderInv'
    BY <1>1, <1>5, <1>a, <2>1, <2>3, <2>4, TellInOrder DEF Reply
  <2> QED BY <1>5, <2>5 DEF AnswersInv
<1> QED BY <1>3, <1>4, <1>5

LEMMA CompleteInOrder ==
  ASSUME ConnectionInv, PendingInv, WireTypeOK, AnswersInv, NEW c \in Connector,
         lock \in {c, Nobody}, pc[c] # "joining", ~announced, Complete(c)
  PROVE  AnswersInv'
<1>1. pending = <<>>
  BY OnlyHolderJoins, NothingToAnnounce
<1>2. CASE UNCHANGED <<requests, wire>>
  BY <1>2, AnswersUntouched DEF requests, wire
<1>3. CASE Ask("join", session, c) /\ UNCHANGED <<alive, down, order>>
  <2>1. DOMAIN pending = {}
    BY <1>1
  <2> QED BY <1>3, <2>1, AskInOrder
<1> QED BY <1>2, <1>3 DEF Complete, Announce

LEMMA HoldLockInOrder ==
  ASSUME ConnectionInv, PendingInv, WireTypeOK, AnswersInv, NEW c \in Connector,
         lock = Nobody, HoldLock(c)
  PROVE  AnswersInv'
<1>1. pc[c] # "joining"
  BY TwoConnectors DEF ConnectionInv, LockInv, Holding
<1> QED BY <1>1, CompleteInOrder, AnswersUntouched DEF HoldLock, requests, wire

LEMMA GiveUpInOrder ==
  ASSUME AnswersInv, NEW c, GiveUp(c), UNCHANGED wire
  PROVE  AnswersInv'
<1>1. UNCHANGED requests \/ (order' # "kept" /\ order' \in {order, "skewed"})
  BY DEF GiveUp
<1> QED BY <1>1, AnswersUntouched DEF AnswersInv, requests, wire

LEMMA AnswersStep ==
  ASSUME ConnectionInv, PendingInv, WireTypeOK, RecoveryInv, AnswersInv, [PyNext]_vars
  PROVE  AnswersInv'
<1> USE TwoConnectors
<1>1. CASE UNCHANGED <<requests, wire>>
  BY <1>1, AnswersUntouched DEF requests, wire
<1>2. ASSUME NEW c \in Connector, Connecting(c)  PROVE AnswersInv'
  <2>1. CASE LockHandedOver(c)
    BY <2>1, HoldLockInOrder DEF LockHandedOver
  <2>2. CASE DialSucceeds(c)
    <3>1. ~open /\ UNCHANGED <<pending, order>> /\ up' = <<>> /\ down' = <<>>
      BY <2>2 DEF DialSucceeds, ConnectionInv, LockInv, requests
    <3>2. pending' = <<>>
      BY <3>1 DEF PendingInv
    <3> QED BY <3>1, <3>2, EmptyInOrder DEF AnswersInv
  <2>3. CASE AttemptResumes(c)
    <3>1. pc[c] = "dialed" /\ lock = c /\ ~announced
      BY <2>3 DEF AttemptResumes, ConnectionInv, LockInv, Holding
    <3> QED BY <1>1, <2>3, <3>1, CompleteInOrder DEF AttemptResumes
  <2>4. CASE DialFails(c) \/ RecoveryResumes(c) \/ AttemptClosed(c)
    BY <1>1, <2>4 DEF DialFails, RecoveryResumes, AttemptClosed, Announce
  <2>5. CASE RecoveryTimesOut(c)
    BY <2>5, CloseInOrder DEF RecoveryTimesOut
  <2> QED BY <1>2, <2>1, <2>2, <2>3, <2>4, <2>5 DEF Connecting
<1>3. CASE ConnectCalled
  BY <1>1, <1>3, GiveUpInOrder DEF ConnectCalled
<1>4. CASE ReconnectTaskGone \/ LoopWakes
  <2>1. ASSUME NEW c \in Connector, TakeLock(c)  PROVE AnswersInv'
    BY <1>1, <2>1, HoldLockInOrder DEF TakeLock, MayLock
  <2> QED BY <1>1, <1>4, <2>1 DEF ReconnectTaskGone, LoopWakes
<1>5. CASE ConnectCancelled
  BY <1>5, CloseInOrder, GiveUpInOrder DEF ConnectCancelled
<1>6. CASE RemoteDisconnect \/ DisconnectCalled
  BY <1>6, CloseInOrder DEF RemoteDisconnect, DisconnectCalled
<1>7. CASE ScheduleReconnect
  BY <1>1, <1>7 DEF ScheduleReconnect
<1>8. CASE Calling
  <2>2. CASE SpawnCalled
    BY <2>2, AskInOrder DEF SpawnCalled
  <2>3. CASE ListSessionsCalled
    BY <2>3, AskInOrder DEF ListSessionsCalled
  <2>4. CASE KillCalled
    <3>1. order \in {"kept", "skewed"} /\ UNCHANGED <<pending, order, alive, down>>
      BY <2>4 DEF KillCalled, requests, AnswersInv
    <3> QED BY <2>4, <3>1, SendInOrder DEF KillCalled
  <2>5. ASSUME NEW s \in SessionId, JoinCalled(s)  PROVE AnswersInv'
    BY <2>5, AskInOrder DEF JoinCalled
  <2>6. ASSUME NEW s \in SessionId, LeaveCalled(s)  PROVE AnswersInv'
    BY <1>1, <2>6 DEF LeaveCalled
  <2>7. ASSUME NEW s \in SessionId, LeaveSent(s)  PROVE AnswersInv'
    BY <2>7, SendInOrder DEF LeaveSent, requests
  <2>8. ASSUME NEW n \in DOMAIN pending, RequestTimesOut(n)  PROVE AnswersInv'
    BY <2>8 DEF RequestTimesOut, AnswersInv
  <2> QED BY <1>8, <2>2, <2>3, <2>4, <2>5, <2>6, <2>7, <2>8 DEF Calling
<1>9. CASE Receive
  BY <1>9, ReceiveInOrder
<1>10. ASSUME NEW s \in SessionId, SessionEnds(s)  PROVE AnswersInv'
  <2>1. UNCHANGED <<pending, order, alive, up>>
    BY <1>10 DEF SessionEnds, requests
  <2>2. CASE down' = Append(down, Message("ended", s, Unasked))
    <3>1. PICK g : Thinned(up', up, 0, g)
      BY <2>1, AllStays DEF WireTypeOK
    <3>2. 0 \notin DOMAIN up
      BY DEF WireTypeOK
    <3> QED BY <2>1, <2>2, <3>1, <3>2, TellInOrder DEF AnswersInv
  <2>3. CASE down' = down
    BY <2>1, <2>3, AnswersUntouched
  <2> QED BY <1>10, <2>2, <2>3 DEF SessionEnds
<1>11. CASE ConnectionBreaks
  <2>1. /\ ~alive' /\ up' = <<>> /\ UNCHANGED <<pending, order, down>>
    BY <1>11 DEF ConnectionBreaks, requests
  <2> QED BY <2>1 DEF AnswersInv, OrderInv, OneByOne, AskedOnce, AnsweredOnce,
                      NoneForgotten, AskedInTurn, AnsweredInTurn, Answers
<1>12. CASE UNCHANGED vars \/ ForgottenAttemptClosed
  BY <1>1, <1>12 DEF vars, ForgottenAttemptClosed
<1> QED BY <1>2, <1>3, <1>4, <1>5, <1>6, <1>7, <1>8, <1>9, <1>10, <1>11, <1>12,
           ServerAnswersInOrder DEF PyNext

-----------------------------------------------------------------------------
(* The theorems. *)

PyInv ==
  /\ ConnectionInv /\ PendingInv /\ WireTypeOK
  /\ RecoveryInv /\ SessionInv /\ AnswersInv

\* The inductive invariant: the lock and the tasks, what they have pending, and
\* what is on the way agree in every state the client can reach.
THEOREM ClientInvariant == PySafe => []PyInv
<1>1. PyInit => PyInv
  <2> SUFFICES ASSUME PyInit  PROVE PyInv
    OBVIOUS
  <2>1. ConnectionInv
    BY ConnectionInitially
  <2>2. /\ pending = <<>> /\ up = <<>> /\ down = <<>> /\ member = {} /\ leaving = {}
        /\ live = {} /\ used = {} /\ ids \in BOOLEAN
        /\ session = NoSession /\ ~recoveryPending /\ ~alive /\ ~recovering /\ ~announced
        /\ order = "kept"
    BY DEF PyInit
  <2>3. PendingInv
    <3>1. <<>> \in Seq(Request) /\ Len(<<>>) = 0 /\ DOMAIN <<>> = {}
      OBVIOUS
    <3> QED BY <2>2, <3>1 DEF PendingInv
  <2>4. WireTypeOK
    BY <2>2, NothingOnTheWay DEF WireTypeOK
  <2>5. RecoveryInv
    BY <2>2 DEF RecoveryInv, Quiet
  <2>6. SessionInv
    BY <2>2 DEF SessionInv
  <2>7. AnswersInv
    BY <2>2 DEF AnswersInv, OrderInv, OneByOne, AskedOnce, AnsweredOnce, NoneForgotten,
                AskedInTurn, AnsweredInTurn
  <2> QED BY <2>1, <2>3, <2>4, <2>5, <2>6, <2>7 DEF PyInv
<1>2. PyInv /\ [PyNext]_vars => PyInv'
  BY ConnectionStep, PendingStep, WireTypeStep, RecoveryStep, SessionStep, AnswersStep
     DEF PyInv
<1> QED BY <1>1, <1>2, PTL DEF PySafe

\* on_connect and on_disconnect alternate, and between them the connection can be
\* used: open, and with no recovery left running over it.
THEOREM AnnouncedConnectionIsUsable == PySafe => []AnnouncedIsUsable
<1>1. PyInv => AnnouncedIsUsable
  BY DEF PyInv, ConnectionInv, RecoveryInv, AnnouncedIsUsable, IsConnected
<1> QED BY <1>1, ClientInvariant, PTL

\* Cancelled tasks leave no connection behind that nobody will announce or close.
THEOREM UnannouncedConnectionIsKept == PySafe => []UnannouncedHasAKeeper
<1>1. PyInv => UnannouncedHasAKeeper
  BY DEF PyInv, ConnectionInv
<1> QED BY <1>1, ClientInvariant, PTL

\* disconnect() is final until connect() is called again, whatever was on its way.
THEOREM DisconnectStaysDisconnected == PySafe => []DisconnectIsFinal
<1>1. PyInv => DisconnectIsFinal
  BY DEF PyInv, ConnectionInv, StaleInv, DisconnectIsFinal
<1> QED BY <1>1, ClientInvariant, PTL

\* Neither connect() nor the loop replaces a connection the other has made.
THEOREM ConnectionsAreNotReplaced == PySafe => NoConnectionReplaced
<1>1. PyInv => \A c \in Connector : pc[c] = "dialing" /\ pc'[c] = "dialed" => ~open
  BY DEF PyInv, ConnectionInv, LockInv
<1> QED BY <1>1, ClientInvariant, PTL DEF NoConnectionReplaced

\* Once nothing is on the way, the active session is joined on the server over
\* this connection, however often it was lost in between.
THEOREM ActiveSessionIsRejoined == PySafe => []ActiveSessionRejoined
<1>1. PyInv => ActiveSessionRejoined
  <2> SUFFICES ASSUME PyInv, announced, alive, down = <<>>, session # NoSession
               PROVE  session \in member
    BY DEF ActiveSessionRejoined, IsConnected
  <2>1. InOrTold(session, 0)
    BY DEF PyInv, SessionInv
  <2> QED BY <2>1 DEF InOrTold
<1> QED BY <1>1, ClientInvariant, PTL

\* Answers go to the requests they answer, with identifiers and by their order
\* alone, until a request is given up or an error comes that nobody asked for.
THEOREM AnswersAreNotMixedUp == PySafe => []AnswersGoToTheirRequests
<1>1. PyInv => AnswersGoToTheirRequests
  BY DEF PyInv, AnswersInv, AnswersGoToTheirRequests
<1> QED BY <1>1, ClientInvariant, PTL
=============================================================================
