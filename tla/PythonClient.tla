---------------------------- MODULE PythonClient ----------------------------
(* The asyncio client (bindings/python/lit_shell/client.py): connect() and  *)
(* the reconnect loop, which share a lock; the session that either of them  *)
(* recovers before a connection is announced; requests matched to answers   *)
(* by order; at the other end, the server's answers to one connection.      *)
(*                                                                          *)
(* One action is what a task does between two awaits that may wait.  The    *)
(* coroutine of a spawn, join or listing goes on in the step that settles   *)
(* its future; connect() and the loop in a step of their own.  A cancelled  *)
(* task ends in the step that cancels it, unless it has a socket to close.  *)
EXTENDS Naturals, Sequences, FiniteSets

CONSTANTS SessionId,
          NoSession,             \* None
          MaxReconnectAttempts,  \* 0 is also reconnect=False
          Requests,              \* bound: requests in flight at one time
          MaxInFlight,           \* bound: messages in flight when one is sent
          MaxClosing             \* bound: lost connections still closing

ASSUME PyAssumption ==
  /\ NoSession \notin SessionId
  /\ MaxReconnectAttempts \in Nat
  /\ Requests \in Nat \ {0}
  /\ MaxInFlight \in Nat \ {0}
  /\ MaxClosing \in Nat \ {0}

\* The two that connect: a call of connect() (one at a time: a bound) and the
\* reconnect task.
Connector == {"user", "loop"}
Nobody == "nobody"
Closer == "closer" \* a cancelled reconnect task that _reconnect_task has forgotten
RequestId == 1..Requests
Unasked == 0       \* the identifier of a message that answers no request

VARIABLES
  \* The connection, seen from the client.
  open,            \* _ws is not None, _connected
  announced,       \* _connection_announced
  notified,        \* _disconnect_notified
  recovering,      \* _recovering_session
  requested,       \* _disconnect_requested
  \* The session and the requests.
  session,         \* _session_id
  recoveryPending, \* _session_recovery_pending
  leaving,         \* leave() tasks that have not sent yet
  pending,         \* _pending_order
  \* The tasks.
  pc,              \* where each connector is
  stale,           \* its generation is not _lifecycle_generation
  lock,            \* who holds _connect_lock
  tried,           \* the attempts of the reconnect loop that failed
  scheduling,      \* remote disconnects on their way to _schedule_reconnect
  \* The wire and the server.
  alive,           \* the other end is there
  up, down,
  member,          \* sessions joined over this connection
  live, used,
  ids,             \* the server advertises requestIds
  \* What an observer knows.
  order,           \* whether answers can still be told apart by their order
  lost             \* an unexpected disconnect nobody has made good

phase == <<announced, notified, recovering, requested>>
activity == <<session, recoveryPending, leaving>>
requests == <<pending, order>>
tasks == <<pc, stale, lock, tried, scheduling>>
wire == <<alive, up, down, member>>
server == <<live, used, ids>>
vars == <<open, phase, activity, requests, tasks, wire, server, lost>>

PyInit ==
  /\ open = FALSE
  /\ announced = FALSE /\ notified = TRUE
  /\ recovering = FALSE /\ requested = FALSE
  /\ session = NoSession /\ recoveryPending = FALSE /\ leaving = {}
  /\ pending = <<>>
  /\ pc = [c \in Connector |-> "idle"] /\ stale = [c \in Connector |-> FALSE]
  /\ lock = Nobody /\ tried = 0 /\ scheduling = 0
  /\ alive = FALSE /\ up = <<>> /\ down = <<>> /\ member = {}
  /\ live = {} /\ used = {} /\ ids \in BOOLEAN
  /\ order = "kept" /\ lost = FALSE

-----------------------------------------------------------------------------
(* Messages and requests. *)

Message(type, s, i) == [type |-> type, session |-> s, id |-> i]

IsConnected == open /\ announced /\ ~recovering

\* A spawn or join of the application's in flight: _session_establishing.
Establishing ==
  \E n \in DOMAIN pending :
    pending[n].by = "app" /\ pending[n].kind \in {"spawn", "join"}

\* Bound: identifiers are used again once nothing refers to them.
FreeIds == RequestId \ ({pending[n].id : n \in DOMAIN pending}
                          \cup {up[n].id : n \in DOMAIN up}
                          \cup {down[n].id : n \in DOMAIN down})

Send(msg) == up' = IF alive THEN Append(up, msg) ELSE up

Room == Len(up) + Len(down) < MaxInFlight

Ask(kind, s, by) ==
  \E i \in FreeIds :
    /\ pending' = Append(pending, [id |-> i, kind |-> kind, by |-> by])
    /\ Send(Message(kind, s, i))

Except(n) == SubSeq(pending, 1, n - 1) \o SubSeq(pending, n + 1, Len(pending))

PendingOf(c) == {n \in DOMAIN pending : pending[n].by = c}

\* The request of c, which has one at most, is given up; its answer may still come.
GiveUp(c) ==
  IF PendingOf(c) = {} THEN UNCHANGED requests
  ELSE \E n \in PendingOf(c) :
         /\ pending' = Except(n)
         /\ order' = IF order = "kept" THEN "skewed" ELSE order

ClearSession == session' = NoSession /\ recoveryPending' = FALSE

\* What a lost, an abandoned and a disconnected connection have in common;
\* _fail_pending makes a recovery that waits for its answer fail (FailJoins).
CloseTransport ==
  /\ open' = FALSE /\ announced' = FALSE /\ recovering' = FALSE
  /\ alive' = FALSE /\ up' = <<>> /\ down' = <<>> /\ member' = {}
  /\ leaving' = {} /\ pending' = <<>> /\ order' = "kept"

FailJoins(p) == [c \in Connector |-> IF p[c] = "joining" THEN "failed" ELSE p[c]]

-----------------------------------------------------------------------------
(* connect() and the reconnect loop. *)

Stale(c) == requested \/ stale[c]

\* Mutant: a connector that fails keeps the lock.
MutRelease(c) == lock' = lock

Release(c) == lock' = IF lock = c THEN Nobody ELSE lock

\* _ConnectAborted, or a return.
Stop(c) ==
  /\ pc' = [pc EXCEPT ![c] = "idle"]
  /\ Release(c)
  /\ UNCHANGED <<stale, tried, scheduling>>

\* Any other exception, at the program counters p: connect() raises it, the loop
\* goes on to its next attempt.
Fails(c, p) ==
  /\ tried' = IF c = "loop" THEN tried + 1 ELSE tried
  /\ pc' = [p EXCEPT ![c] = IF c = "loop" /\ ~Stale(c)
                                  /\ tried + 1 < MaxReconnectAttempts
                            THEN "sleeping" ELSE "idle"]
  /\ Release(c)
  /\ UNCHANGED <<stale, scheduling>>

\* _complete_connection after any recovery: announce, unless the connection has
\* gone meanwhile.
Announce(c) ==
  /\ IF Stale(c) \/ ~open
       THEN UNCHANGED <<announced, notified, lost>>
       ELSE announced' = TRUE /\ notified' = FALSE /\ lost' = FALSE
  /\ Stop(c)
  /\ UNCHANGED <<open, requested, wire, server>>

\* Mutant: a new connection is announced without the session.
MutComplete(c) == Announce(c) /\ UNCHANGED <<recovering, activity, requests>>

\* _complete_connection: a session to recover is joined again first, and without
\* a connection to send it over this attempt has failed.
Complete(c) ==
  \/ /\ ~recoveryPending
     /\ Announce(c)
     /\ UNCHANGED <<recovering, activity, requests>>
  \/ /\ recoveryPending /\ open
     /\ recovering' = TRUE
     /\ pc' = [pc EXCEPT ![c] = "joining"]
     /\ lock' = c
     /\ Ask("join", session, c)
     /\ UNCHANGED <<open, announced, notified, requested, activity, order, stale,
                    tried, scheduling, alive, down, member, server, lost>>
  \/ /\ recoveryPending /\ ~open
     /\ recovering' = FALSE
     /\ Fails(c, pc)
     /\ UNCHANGED <<open, announced, notified, requested, activity, requests,
                    wire, server, lost>>

\* The lock is held: an open connection is used; otherwise an attempt starts,
\* unless disconnect() has been called since.
HoldLock(c) ==
  \/ /\ open /\ ~announced
     /\ Complete(c)
  \/ /\ open /\ announced
     /\ Stop(c)
     /\ UNCHANGED <<open, phase, activity, requests, wire, server, lost>>
  \/ /\ ~open
     /\ IF Stale(c)
          THEN Stop(c)
          ELSE /\ pc' = [pc EXCEPT ![c] = "dialing"]
               /\ lock' = c
               /\ UNCHANGED <<stale, tried, scheduling>>
     /\ UNCHANGED <<open, phase, activity, requests, wire, server, lost>>

\* Mutant: the lock does not exclude.
MutMayLock(c) == lock # c

\* The lock is free and nobody waits for it.
MayLock(c) == lock = Nobody /\ \A d \in Connector \ {c} : pc[d] # "locking"

TakeLock(c) ==
  IF MayLock(c)
    THEN HoldLock(c)
    ELSE /\ pc' = [pc EXCEPT ![c] = "locking"]
         /\ UNCHANGED <<open, phase, activity, requests, stale, lock, tried,
                        scheduling, wire, server, lost>>

\* Where c is once it is cancelled: an attempt that has its socket closes it,
\* and keeps the lock meanwhile, unless it is cancelled again.
Cancelled(c) == IF pc[c] \in {"dialing", "closing"} THEN {"closing", "idle"} ELSE {"idle"}

Kept(c, at) == IF lock = c /\ at = "idle" THEN Nobody ELSE lock

\* connect().  A reconnect task is cancelled, and awaited, first; without one
\* only such a task, forgotten, can have the lock; an announced connection is
\* returned at once, and otherwise there is none.
ConnectCalled ==
  /\ pc["user"] = "idle"
  /\ requested' = FALSE /\ lost' = FALSE
  /\ stale' = [stale EXCEPT !["user"] = FALSE]
  /\ \/ /\ pc["loop"] = "idle" /\ ~announced
        /\ IF lock = Nobody
             THEN pc' = [pc EXCEPT !["user"] = "dialing"] /\ lock' = "user"
             ELSE pc' = [pc EXCEPT !["user"] = "locking"] /\ lock' = lock
        /\ UNCHANGED <<requests, recovering>>
     \/ /\ pc["loop"] # "idle"
        /\ \E at \in Cancelled("loop") :
             /\ pc' = [pc EXCEPT !["user"] = "canceling", !["loop"] = at]
             /\ lock' = Kept("loop", at)
        /\ GiveUp("loop")
        /\ recovering' =
             (recovering /\ pc["loop"] \notin {"joining", "joined", "refused",
                                               "failed"})
  /\ UNCHANGED <<open, announced, notified, activity, tried, scheduling, wire,
                 server>>

ReconnectTaskGone ==
  /\ pc["user"] = "canceling" /\ pc["loop"] # "closing" /\ lock # Closer
  /\ TakeLock("user")

LoopWakes ==
  /\ pc["loop"] = "sleeping"
  /\ IF Stale("loop")
       THEN /\ Stop("loop")
            /\ UNCHANGED <<open, phase, activity, requests, wire, server, lost>>
       ELSE TakeLock("loop")

LockHandedOver(c) ==
  /\ pc[c] = "locking" /\ lock = Nobody
  /\ HoldLock(c)

\* _connect_once: the connection stands before its connector runs again.
DialSucceeds(c) ==
  /\ pc[c] = "dialing" /\ ~Stale(c)
  /\ pc' = [pc EXCEPT ![c] = "dialed"]
  /\ open' = TRUE /\ announced' = FALSE /\ recovering' = recoveryPending
  /\ alive' = TRUE /\ up' = <<>> /\ down' = <<>> /\ member' = {}
  /\ UNCHANGED <<notified, requested, activity, requests, stale, lock, tried,
                 scheduling, server, lost>>

\* Refused, timed out, or no serverInfo first.
DialFails(c) ==
  /\ pc[c] = "dialing"
  /\ Fails(c, pc)
  /\ UNCHANGED <<open, phase, activity, requests, wire, server, lost>>

\* The socket of a cancelled attempt is closed.
AttemptClosed(c) ==
  /\ pc[c] = "closing"
  /\ Stop(c)
  /\ UNCHANGED <<open, phase, activity, requests, wire, server, lost>>

ForgottenAttemptClosed ==
  /\ lock = Closer
  /\ lock' = Nobody
  /\ UNCHANGED <<open, phase, activity, requests, pc, stale, tried, scheduling,
                 wire, server, lost>>

AttemptResumes(c) ==
  /\ pc[c] = "dialed"
  /\ IF Stale(c)
       THEN /\ Stop(c)
            /\ UNCHANGED <<open, phase, activity, requests, wire, server, lost>>
       ELSE Complete(c)

\* _recover_active_session has its answer.  A refusal forgets the session and
\* the connection is used without it; a lost connection ends the attempt.
RecoveryResumes(c) ==
  \/ /\ pc[c] = "joined"
     /\ recovering' = FALSE
     /\ Announce(c)
     /\ UNCHANGED <<activity, requests>>
  \/ /\ pc[c] = "refused"
     /\ recovering' = FALSE
     /\ ClearSession
     /\ Announce(c)
     /\ UNCHANGED <<leaving, requests>>
  \/ /\ pc[c] = "failed"
     /\ recovering' = FALSE
     /\ recoveryPending' = (recoveryPending \/ session # NoSession)
     /\ Fails(c, pc)
     /\ UNCHANGED <<open, announced, notified, requested, session, leaving,
                    requests, wire, server, lost>>

\* The recovery's answer does not come in time, or makes no sense.
RecoveryTimesOut(c) ==
  /\ pc[c] = "joining"
  /\ CloseTransport
  /\ recoveryPending' = (session # NoSession)
  /\ Fails(c, FailJoins(pc))
  /\ UNCHANGED <<notified, requested, session, server, lost>>

\* Mutant: a cancelled connect() leaves its connection.
MutConnectCancelled ==
  /\ pc["user"] # "idle"
  /\ pc' = [pc EXCEPT !["user"] = "idle"]
  /\ Release("user")
  /\ GiveUp("user")
  /\ recovering' = FALSE
  /\ UNCHANGED <<open, announced, notified, requested, activity, stale, tried,
                 scheduling, wire, server, lost>>

\* The application cancels connect(), which closes what is open but not
\* announced, whoever opened it.
ConnectCancelled ==
  /\ pc["user"] # "idle"
  /\ IF open /\ ~announced
       THEN /\ CloseTransport
            /\ recoveryPending' = (session # NoSession)
            /\ pc' = FailJoins([pc EXCEPT !["user"] = "idle"])
            /\ Release("user")
       ELSE /\ GiveUp("user")
            /\ \E at \in Cancelled("user") :
                 /\ pc' = [pc EXCEPT !["user"] = at]
                 /\ lock' = Kept("user", at)
            /\ UNCHANGED <<open, announced, recovering, recoveryPending, leaving,
                           wire>>
  /\ lost' = FALSE
  /\ UNCHANGED <<notified, requested, session, stale, tried, scheduling, server>>

-----------------------------------------------------------------------------
(* Losing a connection, and giving it up. *)

\* Mutant: a lost session is not marked for recovery.
MutRemoteDisconnect ==
  /\ open /\ ~alive
  /\ scheduling < MaxClosing
  /\ CloseTransport
  /\ notified' = TRUE
  /\ recoveryPending' = FALSE
  /\ pc' = FailJoins(pc)
  /\ scheduling' = scheduling + 1
  /\ lost' = TRUE
  /\ UNCHANGED <<requested, session, stale, lock, tried, server>>

\* The receive loop ends, or a send finds the connection closed; closing it and
\* _schedule_reconnect follow.
RemoteDisconnect ==
  /\ open /\ ~alive
  /\ scheduling < MaxClosing
  /\ CloseTransport
  /\ notified' = TRUE
  /\ recoveryPending' = (session # NoSession)
  /\ pc' = FailJoins(pc)
  /\ scheduling' = scheduling + 1
  /\ lost' = TRUE
  /\ UNCHANGED <<requested, session, stale, lock, tried, server>>

\* Mutant: disconnect() does not count.
MutMaySchedule == MaxReconnectAttempts > 0 /\ ~IsConnected /\ pc["loop"] = "idle"

MaySchedule ==
  /\ MaxReconnectAttempts > 0
  /\ ~requested
  /\ ~IsConnected
  /\ pc["loop"] = "idle"

ScheduleReconnect ==
  /\ scheduling > 0
  /\ scheduling' = scheduling - 1
  /\ IF MaySchedule
       THEN /\ pc' = [pc EXCEPT !["loop"] = "sleeping"]
            /\ stale' = [stale EXCEPT !["loop"] = FALSE]
            /\ tried' = 0
       ELSE UNCHANGED <<pc, stale, tried>>
  /\ UNCHANGED <<open, phase, activity, requests, lock, wire, server, lost>>

\* disconnect(): the loop is cancelled, and so is an attempt of connect().  A
\* connect() that awaits a cancelled loop reads the generation later.  A loop
\* that still closes its socket is forgotten.
DisconnectCalled ==
  /\ ~requested
  /\ requested' = TRUE /\ lost' = FALSE
  /\ CloseTransport
  /\ notified' = (notified \/ open)
  /\ ClearSession
  /\ stale' = [c \in Connector |-> pc[c] # "canceling"]
  /\ \E at \in IF pc["user"] \in {"dialing", "closing"} THEN Cancelled("user")
                                                       ELSE {pc["user"]} :
       /\ pc' = FailJoins([pc EXCEPT !["loop"] = "idle", !["user"] = at])
       /\ \/ lock # "loop" /\ lock' = Kept("user", at)
          \/ lock = "loop" /\ lock' = Nobody
          \/ lock = "loop" /\ "closing" \in Cancelled("loop") /\ lock' = Closer
  /\ UNCHANGED <<tried, scheduling, server>>

-----------------------------------------------------------------------------
(* The application's calls over an announced connection. *)

Call == IsConnected /\ Room

SpawnCalled ==
  /\ Call
  /\ session = NoSession /\ ~Establishing
  /\ Ask("spawn", NoSession, "app")
  /\ UNCHANGED <<open, phase, activity, order, tasks, alive, down, member, server,
                 lost>>

JoinCalled(s) ==
  /\ Call
  /\ session = NoSession /\ ~Establishing
  /\ s \in used
  /\ Ask("join", s, "app")
  /\ UNCHANGED <<open, phase, activity, order, tasks, alive, down, member, server,
                 lost>>

ListSessionsCalled ==
  /\ Call
  /\ Ask("list", NoSession, "app")
  /\ UNCHANGED <<open, phase, activity, order, tasks, alive, down, member, server,
                 lost>>

KillCalled ==
  /\ Call
  /\ session # NoSession
  /\ ClearSession
  /\ Send(Message("close", session, Unasked))
  /\ UNCHANGED <<open, phase, leaving, requests, tasks, alive, down, member,
                 server, lost>>

\* leave() returns at once; a background task sends the message.
LeaveCalled(s) ==
  /\ IsConnected
  /\ s \in used
  /\ leaving' = leaving \cup {s}
  /\ IF s = session THEN ClearSession ELSE UNCHANGED <<session, recoveryPending>>
  /\ UNCHANGED <<open, phase, requests, tasks, wire, server, lost>>

LeaveSent(s) ==
  /\ s \in leaving /\ Room
  /\ leaving' = leaving \ {s}
  /\ Send(Message("leave", s, Unasked))
  /\ UNCHANGED <<open, phase, session, recoveryPending, requests, tasks, alive,
                 down, member, server, lost>>

\* wait_for gives up on an answer.
RequestTimesOut(n) ==
  /\ n \in PendingOf("app")
  /\ pending' = Except(n)
  /\ order' = IF order = "kept" THEN "skewed" ELSE order
  /\ UNCHANGED <<open, phase, activity, tasks, wire, server, lost>>

-----------------------------------------------------------------------------
(* Messages from the server. *)

Answer(kind) == CASE kind = "spawn" -> "spawned"
                  [] kind = "join" -> "joined"
                  [] kind = "list" -> "sessionList"

First(ns) == {n \in ns : \A m \in ns : n <= m}

\* Mutant: an error is put down to the youngest request.
MutSettledBy(msg) ==
  LET fits == {n \in DOMAIN pending :
                 msg.type \in {"error", Answer(pending[n].kind)}}
  IN {n \in fits : \A m \in fits : m <= n}

\* _pending_for_message and _reject_pending: by identifier where there is one,
\* otherwise the oldest request of the kind (for an error, of any kind).
SettledBy(msg) ==
  LET fits == {n \in DOMAIN pending :
                 msg.type \in {"error", Answer(pending[n].kind)}}
      own == {n \in fits : ids /\ pending[n].id = msg.id}
  IN IF own # {} THEN own ELSE First(fits)

Mixed(n, msg) ==
  IF pending[n].id # msg.id /\ order = "kept" THEN "mixed" ELSE order

\* A request is settled; the answer to a spawn or join takes effect at once.
Settle(msg) ==
  \E n \in SettledBy(msg) :
    LET by == pending[n].by
        granted == msg.type \in {"spawned", "joined"}
    IN /\ pending' = Except(n)
       /\ order' = Mixed(n, msg)
       /\ IF granted THEN session' = msg.session /\ recoveryPending' = FALSE
                     ELSE UNCHANGED <<session, recoveryPending>>
       /\ pc' = IF by = "app" THEN pc
                ELSE [pc EXCEPT ![by] = IF granted THEN "joined" ELSE "refused"]
       /\ UNCHANGED leaving

\* exit, sessionClosed and left forget the session they name; an answer nobody
\* waits for is dropped.
Forget(msg) ==
  /\ SettledBy(msg) = {}
  /\ IF msg.type \in {"ended", "left"} /\ msg.session = session
       THEN ClearSession ELSE UNCHANGED <<session, recoveryPending>>
  /\ UNCHANGED <<leaving, requests, pc>>

Receive ==
  /\ open /\ down # <<>>
  /\ down' = Tail(down)
  /\ Settle(Head(down)) \/ Forget(Head(down))
  /\ UNCHANGED <<open, phase, stale, lock, tried, scheduling, alive, up, member,
                 server, lost>>

-----------------------------------------------------------------------------
(* The server, as far as one connection sees it. *)

Reply(msg) == up' = Tail(up) /\ down' = Append(down, msg)

Grant(type, msg, s) ==
  /\ Reply(Message(type, s, msg.id))
  /\ member' = member \cup {s}
  /\ UNCHANGED order

Refuse(msg) ==
  /\ Reply(Message("error", NoSession, msg.id))
  /\ order' = IF msg.id = Unasked /\ order = "kept" THEN "skewed" ELSE order
  /\ UNCHANGED <<member, live, used>>

\* Requests are handled in turn.  What others have set up can refuse every one of
\* them (a close by one who does not own the session) but the leave of a member.
ServerAnswers ==
  LET msg == Head(up)
      s == msg.session
  IN /\ alive /\ up # <<>>
     /\ \/ /\ msg.type = "spawn"
           /\ \E t \in SessionId \ used :
                /\ Grant("spawned", msg, t)
                /\ used' = used \cup {t} /\ live' = live \cup {t}
        \/ /\ msg.type = "join" /\ s \in live
           /\ Grant("joined", msg, s)
           /\ UNCHANGED <<live, used>>
        \/ /\ msg.type = "list"
           /\ Reply(Message("sessionList", NoSession, msg.id))
           /\ UNCHANGED <<member, live, used, order>>
        \/ /\ msg.type = "leave" /\ s \in member
           /\ Reply(Message("left", s, Unasked))
           /\ member' = member \ {s}
           /\ UNCHANGED <<live, used, order>>
        \/ /\ msg.type = "close" /\ s \in member
           /\ Reply(Message("ended", s, Unasked))
           /\ member' = member \ {s} /\ live' = live \ {s}
           /\ UNCHANGED <<used, order>>
        \/ /\ msg.type # "leave" \/ s \notin member
           /\ Refuse(msg)
     /\ UNCHANGED <<open, phase, activity, pending, tasks, alive, ids, lost>>

SessionEnds(s) ==
  /\ s \in live /\ Room
  /\ live' = live \ {s}
  /\ member' = member \ {s}
  /\ down' = IF s \in member /\ alive
               THEN Append(down, Message("ended", s, Unasked)) ELSE down
  /\ UNCHANGED <<open, phase, activity, requests, tasks, alive, up, used, ids,
                 lost>>

\* The connection breaks; what has arrived can still be read.
ConnectionBreaks ==
  /\ alive
  /\ alive' = FALSE /\ up' = <<>> /\ member' = {}
  /\ UNCHANGED <<open, phase, activity, requests, tasks, down, server, lost>>

-----------------------------------------------------------------------------

Connecting(c) ==
  LockHandedOver(c) \/ DialSucceeds(c) \/ DialFails(c) \/ AttemptClosed(c)
    \/ AttemptResumes(c) \/ RecoveryResumes(c) \/ RecoveryTimesOut(c)

Calling ==
  \/ SpawnCalled \/ ListSessionsCalled \/ KillCalled
  \/ \E s \in SessionId : JoinCalled(s) \/ LeaveCalled(s) \/ LeaveSent(s)
  \/ \E n \in DOMAIN pending : RequestTimesOut(n)

PyNext ==
  \/ ConnectCalled \/ ReconnectTaskGone \/ LoopWakes \/ ConnectCancelled
  \/ \E c \in Connector : Connecting(c)
  \/ ForgottenAttemptClosed
  \/ RemoteDisconnect \/ ScheduleReconnect \/ DisconnectCalled
  \/ Calling
  \/ Receive
  \/ ServerAnswers
  \/ \E s \in SessionId : SessionEnds(s)
  \/ ConnectionBreaks

\* The event loop runs every task that can run, the lock is fair, and every wait
\* for the network has a timeout.  The application and the server owe nothing.
Fairness ==
  /\ WF_vars(ReconnectTaskGone) /\ WF_vars(LoopWakes)
  /\ WF_vars(RemoteDisconnect) /\ WF_vars(ScheduleReconnect)
  /\ WF_vars(ForgottenAttemptClosed)
  /\ \A c \in Connector :
       /\ SF_vars(LockHandedOver(c))
       /\ WF_vars(DialSucceeds(c) \/ DialFails(c))
       /\ WF_vars(AttemptClosed(c))
       /\ WF_vars(AttemptResumes(c)) /\ WF_vars(RecoveryResumes(c))
       /\ WF_vars(RecoveryTimesOut(c))

PySafe == PyInit /\ [][PyNext]_vars
PySpec == PySafe /\ Fairness

-----------------------------------------------------------------------------
(* Properties. *)

\* on_connect and on_disconnect alternate, and between them the connection can
\* be used: it is open and no recovery is left running, whoever ran it.
AnnouncedIsUsable ==
  /\ announced <=> ~notified
  /\ announced => IsConnected

\* A connection that is open but not announced has somebody who will announce or
\* close it: cancelled tasks leave none behind.
UnannouncedHasAKeeper ==
  open /\ ~announced =>
    \/ lock # Nobody
    \/ pc["user"] \in {"canceling", "locking"}

\* After disconnect() nothing is open, dialing or retrying, and no session is
\* kept, whatever was on its way when it was called.
DisconnectIsFinal ==
  requested =>
    /\ ~open /\ session = NoSession
    /\ pc["loop"] = "idle" /\ pc["user"] # "dialing"

\* Once nothing is in flight, the session the client calls active is one the
\* server has joined to this connection: a session is recovered before its new
\* connection is announced, or forgotten.
ActiveSessionRejoined ==
  IsConnected /\ alive /\ up = <<>> /\ down = <<>> /\ leaving = {}
    /\ session # NoSession => session \in member

\* Answers go to the requests they answer, with identifiers and without, unless
\* a request was given up on this connection or an unasked error came.
AnswersGoToTheirRequests == order # "mixed"

\* A connection is made only when there is none: connect() and the loop never
\* replace each other's.
NoConnectionReplaced ==
  [][\A c \in Connector :
       pc[c] = "dialing" /\ pc'[c] = "dialed" => ~open]_vars

\* connect() returns or raises, whatever the network, the loop and the server do.
ConnectReturns == pc["user"] # "idle" ~> pc["user"] = "idle"

\* What the package's README promises: after an unexpected disconnect the client
\* is connected again or has used its attempts.
LostConnectionIsRetried ==
  lost /\ scheduling = 0 /\ pc["loop"] = "idle" => tried = MaxReconnectAttempts
=============================================================================
