--------------------------- MODULE TerminalClient ---------------------------
(* The browser client (src/client/terminal-client.ts): its connection,      *)
(* reconnect timer, pending requests and the session it is in, over sockets *)
(* that deliver in order, break at any time and are noticed by each side on *)
(* its own; at the other end, the server's answers to one client.           *)
(*                                                                          *)
(* One action is one call of the application or one callback of a socket or *)
(* timer, with the promise continuations it sets off: they are microtasks.  *)
EXTENDS Naturals, Sequences, FiniteSets

CONSTANTS SessionId,
          NoSession,             \* null
          Shared,                \* sessions of others, open to anybody
          MaxReconnectAttempts,
          Reconnect,             \* option reconnect
          Calls,                 \* bound: the calls the application makes
          Sockets,               \* bound: sockets in use at one time
          Requests,              \* bound: requests in flight at one time
          MaxInFlight            \* bound: messages on a socket when one is sent

ASSUME ClientAssumption ==
  /\ NoSession \notin SessionId
  /\ Shared \subseteq SessionId
  /\ MaxReconnectAttempts \in Nat
  /\ Reconnect \in BOOLEAN
  /\ Calls \subseteq {"connect", "disconnect", "spawn", "join", "list",
                     "leave", "kill", "write", "clear"}
  /\ Sockets \in Nat \ {0}
  /\ Requests \in Nat \ {0}
  /\ MaxInFlight \in Nat \ {0}

Socket == 1..Sockets
RequestId == 1..Requests
None == 0          \* no socket, no request identifier

VARIABLES
  \* The client.
  ws,              \* this.ws
  state,           \* this.state
  promise,         \* connectPromise is not null
  session, token,            \* sessionId, resumeToken
  previous, previousToken,   \* previousSessionId, previousResumeToken
  reconnecting, manual, attempts, timer,
  pending,         \* pendingRequests, in the order of insertion
  \* The sockets, and each side's messages on the way.
  wire, up, down,
  \* The server.
  registered,      \* the sockets it has not seen close
  member,          \* the sessions of each
  owner, live, used,
  \* What an observer knows; neither side reads these.
  outcome,         \* how each request's promise settled
  answered,        \* how the server answered each request
  offer,           \* the session onReconnectWithSession named
  gone             \* sessions the client was told have ended

connection == <<ws, state, promise, reconnecting, manual, attempts, timer>>
activity == <<session, token, previous, previousToken>>
requests == <<pending, outcome, answered>>
server == <<registered, member, owner, live, used>>
seen == <<offer, gone>>
vars == <<connection, activity, requests, wire, up, down, server, seen>>

Tokens == SessionId \cup {NoSession}   \* a token is named by its session
Kinds == {"spawn", "join", "list", "check"}

ClientInit ==
  /\ ws = None /\ state = "disconnected" /\ promise = FALSE
  /\ session = NoSession /\ token = NoSession
  /\ previous = NoSession /\ previousToken = NoSession
  /\ reconnecting = FALSE /\ manual = FALSE /\ attempts = 0 /\ timer = FALSE
  /\ pending = <<>>
  /\ wire = [k \in Socket |-> "closed"]
  /\ up = [k \in Socket |-> <<>>]
  /\ down = [k \in Socket |-> <<>>]
  /\ registered = {}
  /\ member = [k \in Socket |-> {}]
  /\ owner = [s \in SessionId |-> None]
  /\ live = Shared
  /\ used = Shared
  /\ outcome = [i \in RequestId |-> "none"]
  /\ answered = [i \in RequestId |-> "none"]
  /\ offer = NoSession /\ gone = {}

-----------------------------------------------------------------------------
(* Messages. *)

Ask(type, s, t, i) == [type |-> type, session |-> s, token |-> t, id |-> i]
Tell(type, s, t, i) ==
  [type |-> type, session |-> s, token |-> t, id |-> i, joinable |-> {}]

Carried(k) == {up[k][n].id : n \in DOMAIN up[k]}
                \cup {down[k][n].id : n \in DOMAIN down[k]}
Pending == {pending[n].id : n \in DOMAIN pending}

\* Bound: identifiers are used again once nothing refers to them.
FreeIds == RequestId \ (Pending \cup UNION {Carried(k) : k \in Socket})

\* A socket that is closing, or that the server has lost, swallows what is sent.
Send(k, msg) ==
  /\ Len(up[k]) + Len(down[k]) < MaxInFlight
  /\ up' = IF wire[k] = "open" /\ k \in registered
             THEN [up EXCEPT ![k] = Append(@, msg)] ELSE up

Forget == session' = NoSession /\ token' = NoSession

-----------------------------------------------------------------------------
(* Connecting. *)

\* Mutant: an attempt under way does not stop another.
MutConnecting == state = "connected"

\* connect() does nothing when connected or on the way.
Connecting == state = "connected" \/ promise

FreeSocket(k) ==
  /\ k # ws
  /\ k \notin registered
  /\ wire[k] = "closed"
  /\ up[k] = <<>> /\ down[k] = <<>>

Dial(k) ==
  /\ FreeSocket(k)
  /\ ws' = k /\ promise' = TRUE /\ state' = "connecting" /\ manual' = FALSE
  /\ wire' = [wire EXCEPT ![k] = "connecting"]

ConnectCalled(k) ==
  /\ "connect" \in Calls
  /\ ~Connecting
  /\ Dial(k)
  /\ UNCHANGED <<reconnecting, attempts, timer, activity, requests, up, down,
                 server, seen>>

\* The callback of the reconnect timer calls connect() too.
ReconnectTimerFires ==
  /\ timer
  /\ timer' = FALSE
  /\ attempts' = attempts + 1
  /\ IF Connecting THEN UNCHANGED <<ws, promise, state, manual, wire>>
                   ELSE \E k \in Socket : Dial(k)
  /\ UNCHANGED <<reconnecting, activity, requests, up, down, server, seen>>

\* Mutant: disconnect() leaves the reconnect timer armed.
MutDisconnectCalled ==
  /\ "disconnect" \in Calls
  /\ ws # None \/ timer
  /\ manual' = TRUE
  /\ wire' = IF ws = None THEN wire ELSE
               [wire EXCEPT ![ws] =
                  CASE @ = "connecting" -> "aborting"
                    [] @ = "open" -> "closing"
                    [] OTHER -> @]
  /\ UNCHANGED <<ws, state, promise, reconnecting, attempts, timer, activity,
                 requests, up, down, server, seen>>

\* disconnect().  With a socket, all else is left to its close event; without
\* one the state is "disconnected" already.
DisconnectCalled ==
  /\ "disconnect" \in Calls
  /\ ws # None \/ timer
  /\ manual' = TRUE
  /\ timer' = FALSE
  /\ wire' = IF ws = None THEN wire ELSE
               [wire EXCEPT ![ws] =
                  CASE @ = "connecting" -> "aborting"
                    [] @ = "open" -> "closing"
                    [] OTHER -> @]
  /\ UNCHANGED <<ws, state, promise, reconnecting, attempts, activity, requests,
                 up, down, server, seen>>

\* onopen.  A former session with a token is offered at once; without one the
\* client first asks which sessions may be joined.
SocketOpens(k) ==
  /\ wire[k] = "connecting"
  /\ wire' = [wire EXCEPT ![k] = "open"]
  /\ registered' = registered \cup {k}
  /\ IF ws # k
       THEN UNCHANGED <<connection, requests, up, offer>>
       ELSE LET resuming == reconnecting /\ previous # NoSession
                asking == resuming /\ previousToken = NoSession
            IN /\ state' = "connected" /\ promise' = FALSE /\ attempts' = 0
               /\ reconnecting' = FALSE
               /\ UNCHANGED <<ws, manual, timer>>
               /\ offer' = IF resuming /\ ~asking THEN previous ELSE NoSession
               /\ IF asking
                    THEN \E i \in FreeIds :
                           /\ pending' = Append(pending, [id |-> i, kind |-> "check",
                                                          about |-> previous])
                           /\ outcome' = [outcome EXCEPT ![i] = "pending"]
                           /\ answered' = [answered EXCEPT ![i] = "none"]
                           /\ up' = [up EXCEPT ![k] = Append(@,
                                Ask("check", NoSession, NoSession, i))]
                    ELSE UNCHANGED <<requests, up>>
  /\ UNCHANGED <<activity, down, member, owner, live, used, gone>>

\* onerror of an attempt; its close event follows.
SocketFails(k) ==
  /\ wire[k] \in {"connecting", "aborting"}
  /\ wire' = [wire EXCEPT ![k] = "failed"]
  /\ IF ws = k /\ state = "connecting"
       THEN state' = "disconnected" /\ promise' = FALSE
       ELSE UNCHANGED <<state, promise>>
  /\ UNCHANGED <<ws, reconnecting, manual, attempts, timer, activity, requests,
                 up, down, server, seen>>

\* Mutant: only a connection that was up is retried.
MutShouldReconnect ==
  ~manual /\ Reconnect /\ attempts < MaxReconnectAttempts /\ state = "connected"

ShouldReconnect == ~manual /\ Reconnect /\ attempts < MaxReconnectAttempts

Closes(k) ==
  /\ wire[k] \in {"open", "closing", "failed"}
  /\ wire' = [wire EXCEPT ![k] = "closed"]
  /\ down' = [down EXCEPT ![k] = <<>>]

\* onclose: remember the session, reject what is pending, retry.  Rejecting a
\* check makes the continuation that awaits it clear previousSessionId, after
\* onclose has set it.
SocketCloses(k) ==
  /\ Closes(k)
  /\ IF ws # k
       THEN UNCHANGED <<connection, activity, requests, offer>>
       ELSE LET checking == \E n \in DOMAIN pending : pending[n].kind = "check"
            IN /\ ws' = None /\ state' = "disconnected" /\ promise' = FALSE
               /\ timer' = (timer \/ ShouldReconnect)
               /\ reconnecting' = (reconnecting \/ ShouldReconnect)
               /\ previous' = IF checking THEN NoSession
                              ELSE IF session # NoSession THEN session
                              ELSE previous
               /\ previousToken' = IF session # NoSession THEN token
                                                         ELSE previousToken
               /\ Forget
               /\ pending' = <<>>
               /\ outcome' = [i \in RequestId |-> IF i \in Pending THEN "closed"
                                                  ELSE outcome[i]]
               /\ offer' = NoSession
               /\ UNCHANGED <<manual, attempts, answered>>
  /\ UNCHANGED <<up, server, gone>>

-----------------------------------------------------------------------------
(* The application's requests. *)

Connected == state = "connected" /\ ws # None

Request(type, s, t) ==
  /\ type \in Calls
  /\ Connected
  /\ \E i \in FreeIds :
       /\ pending' = Append(pending, [id |-> i, kind |-> type,
                                         about |-> NoSession])
       /\ outcome' = [outcome EXCEPT ![i] = "pending"]
       /\ answered' = [answered EXCEPT ![i] = "none"]
       /\ Send(ws, Ask(type, s, t, i))
  /\ UNCHANGED <<connection, activity, wire, down, server, seen>>

\* spawn() and join() are refused while a session is active, but not while
\* another spawn or join is pending.
SpawnCalled ==
  /\ session = NoSession
  /\ Request("spawn", NoSession, NoSession)

\* The token an application may give with a join: one it kept, of a session of
\* its own.
GivenToken(s) == {s} \ Shared

\* Mutant: the token of the former session goes with every join.
MutJoinCalled(s) ==
  /\ session = NoSession
  /\ s \in used
  /\ \E t \in {previousToken} \cup GivenToken(s) : Request("join", s, t)

\* Without a token in the options, that of the former session goes with a join
\* of that session only.
JoinCalled(s) ==
  /\ session = NoSession
  /\ s \in used
  /\ \E t \in {IF s = previous THEN previousToken ELSE NoSession}
                 \cup GivenToken(s) : Request("join", s, t)

ListSessionsCalled == Request("list", NoSession, NoSession)

\* leave(), kill(), write() and resize() are sent without an identifier; leave()
\* may name any session.
Notify(type, s) ==
  /\ Connected
  /\ Send(ws, Ask(type, s, NoSession, None))
  /\ UNCHANGED <<connection, activity, requests, wire, down, server, seen>>

SendForActiveSession(type) == session # NoSession /\ Notify(type, session)

LeaveCalled(s) == "leave" \in Calls /\ s \in used /\ Notify("leave", s)
KillCalled == "kill" \in Calls /\ SendForActiveSession("close")
WriteCalled == "write" \in Calls /\ SendForActiveSession("data")

ClearPreviousSessionId ==
  /\ "clear" \in Calls
  /\ previous # NoSession
  /\ previous' = NoSession /\ previousToken' = NoSession
  /\ UNCHANGED <<connection, session, token, requests, wire, up, down, server,
                 offer, gone>>

-----------------------------------------------------------------------------
(* Messages from the server. *)

Expected(kind) == CASE kind = "spawn" -> "spawned"
                    [] kind = "join" -> "joined"
                    [] kind \in {"list", "check"} -> "sessionList"

\* Mutant: the oldest request of the type is settled, whatever the identifier.
MutSettledBy(msg) ==
  LET fits == {n \in DOMAIN pending :
                 msg.type \in {"error", Expected(pending[n].kind)}}
  IN {n \in fits : \A o \in fits : n <= o}

\* resolvePending: the request with the message's identifier or, for a message
\* without one, the oldest that it could answer (any, if it is an error).
SettledBy(msg) ==
  LET fits == {n \in DOMAIN pending :
                 msg.type \in {"error", Expected(pending[n].kind)}}
  IN IF msg.id # None
       THEN {n \in fits : pending[n].id = msg.id}
       ELSE {n \in fits : \A o \in fits : n <= o}

\* Mutant: a check offers its session whether or not it is listed.
MutResolvePending(msg) ==
  LET done == {pending[n] : n \in SettledBy(msg)}
      open == {p.about : p \in {p \in done : p.kind = "check"}}
      Left(p) == p \notin done
  IN /\ pending' = SelectSeq(pending, Left)
     /\ outcome' = [i \in RequestId |->
                      IF \A p \in done : p.id # i THEN outcome[i]
                      ELSE IF msg.type = "error" THEN "error" ELSE "ok"]
     /\ previous' = IF msg.type = "spawned" THEN NoSession ELSE previous
     /\ previousToken' = IF msg.type = "spawned" THEN NoSession
                                               ELSE previousToken
     /\ offer' = IF open # {} THEN CHOOSE s \in open : TRUE ELSE offer
     /\ UNCHANGED answered

\* Settles at most one request; a check's continuation then offers the session
\* it asked about, if that is listed as open to joining, or forgets it.
ResolvePending(msg) ==
  LET done == {pending[n] : n \in SettledBy(msg)}
      checks == {p \in done : p.kind = "check"}
      open == {p.about : p \in checks} \cap msg.joinable
      Left(p) == p \notin done
  IN /\ pending' = SelectSeq(pending, Left)
     /\ outcome' = [i \in RequestId |->
                      IF \A p \in done : p.id # i THEN outcome[i]
                      ELSE IF msg.type = "error" THEN "error" ELSE "ok"]
     /\ IF msg.type = "spawned"
          THEN previous' = NoSession /\ previousToken' = NoSession
          ELSE /\ previous' = IF checks # {} /\ open = {} THEN NoSession
                                                        ELSE previous
               /\ UNCHANGED previousToken
     /\ offer' = IF open # {} THEN CHOOSE s \in open : TRUE ELSE offer
     /\ UNCHANGED answered

\* spawned and joined make their session the active one, whichever request
\* they answer and whether or not it is still pending.
HandleEntered(msg) ==
  /\ msg.type \in {"spawned", "joined"}
  /\ session' = msg.session /\ token' = msg.token
  /\ ResolvePending(msg)
  /\ UNCHANGED gone

\* Mutant: an error is reported but settles nothing.
MutHandleAnswer(msg) ==
  /\ msg.type \in {"sessionList", "error"}
  /\ IF msg.type = "error"
       THEN UNCHANGED <<previous, previousToken, requests, offer>>
       ELSE ResolvePending(msg)
  /\ UNCHANGED <<session, token, gone>>

HandleAnswer(msg) ==
  /\ msg.type \in {"sessionList", "error"}
  /\ ResolvePending(msg)
  /\ UNCHANGED <<session, token, gone>>

\* Mutant: `left` is not taken as the end of the active session.
MutHandleEnded(msg) ==
  /\ msg.type \in {"left", "exit", "sessionClosed"}
  /\ IF msg.session = session /\ msg.type # "left"
       THEN Forget ELSE UNCHANGED <<session, token>>
  /\ gone' = IF msg.type = "left" THEN gone ELSE gone \cup {msg.session}
  /\ UNCHANGED <<previous, previousToken, requests, offer>>

HandleEnded(msg) ==
  /\ msg.type \in {"left", "exit", "sessionClosed"}
  /\ IF msg.session = session THEN Forget ELSE UNCHANGED <<session, token>>
  /\ gone' = IF msg.type = "left" THEN gone ELSE gone \cup {msg.session}
  /\ UNCHANGED <<previous, previousToken, requests, offer>>

\* onmessage, which does not ask whether the socket is still the client's own.
HandleMessage(k) ==
  /\ wire[k] \in {"open", "closing"}
  /\ down[k] # <<>>
  /\ LET msg == Head(down[k])
     IN HandleEntered(msg) \/ HandleAnswer(msg) \/ HandleEnded(msg)
  /\ down' = [down EXCEPT ![k] = Tail(@)]
  /\ UNCHANGED <<connection, wire, up, server>>

-----------------------------------------------------------------------------
(* The server's end: what TerminalServer answers to one client.             *)

Reaches(k) == wire[k] \in {"open", "closing"}

\* down with messages appended for every socket of K that takes them.
Sent(K, messages) ==
  [k \in Socket |-> IF k \in K /\ Reaches(k) THEN down[k] \o messages
                                              ELSE down[k]]

Members(s) == {k \in Socket : s \in member[k]}

EndSession(s) ==
  /\ live' = live \ {s}
  /\ member' = [k \in Socket |-> member[k] \ {s}]
  /\ owner' = [owner EXCEPT ![s] = None]
  /\ UNCHANGED used

Answered(m, how) ==
  answered' = IF m.id = None THEN answered ELSE [answered EXCEPT ![m.id] = how]

GrantSpawn(k, m) ==
  /\ m.type = "spawn"
  /\ \E s \in SessionId \ used :
       /\ live' = live \cup {s} /\ used' = used \cup {s}
       /\ member' = [member EXCEPT ![k] = @ \cup {s}]
       /\ owner' = [owner EXCEPT ![s] = k]
       /\ down' = Sent({k}, <<Tell("spawned", s, s, m.id)>>)
  /\ Answered(m, "ok")

GrantJoin(k, m) ==
  /\ m.type = "join"
  /\ m.session \in live
  /\ m.session \in Shared \/ m.token = m.session
  /\ member' = [member EXCEPT ![k] = @ \cup {m.session}]
  /\ owner' = IF m.token = m.session THEN [owner EXCEPT ![m.session] = k]
                                     ELSE owner
  /\ down' = Sent({k}, <<Tell("joined", m.session,
               IF m.token = m.session THEN m.token ELSE NoSession, m.id)>>)
  /\ UNCHANGED <<live, used>>
  /\ Answered(m, "ok")

GrantList(k, m) ==
  /\ m.type \in {"list", "check"}
  /\ down' = Sent({k}, <<[Tell("sessionList", NoSession, NoSession, m.id)
                            EXCEPT !.joinable = live \cap Shared]>>)
  /\ UNCHANGED <<member, owner, live, used>>
  /\ Answered(m, "ok")

GrantLeave(k, m) ==
  /\ m.type = "leave"
  /\ m.session \in member[k]
  /\ member' = [member EXCEPT ![k] = @ \ {m.session}]
  /\ down' = Sent({k}, <<Tell("left", m.session, NoSession, m.id)>>)
  /\ UNCHANGED <<owner, live, used, answered>>

\* Without an identifier the answer is the broadcast to the session's members.
GrantClose(k, m) ==
  /\ m.type = "close"
  /\ owner[m.session] = k
  /\ EndSession(m.session)
  /\ down' = Sent(Members(m.session),
                  <<Tell("sessionClosed", m.session, NoSession, None)>>)
  /\ UNCHANGED answered

TakeData(k, m) ==
  /\ m.type = "data"
  /\ m.session \in member[k]
  /\ UNCHANGED <<down, member, owner, live, used, answered>>

\* Spawns and joins may be refused for any reason (limits, policy, capacity), a
\* listing for its filter (the client's own check has none), and input because
\* the process does not take it.
Refuse(k, m) ==
  /\ \/ m.type \in {"spawn", "join", "list", "data"}
     \/ m.type = "leave" /\ m.session \notin member[k]
     \/ m.type = "close" /\ owner[m.session] # k
  /\ down' = Sent({k}, <<Tell("error", m.session, NoSession, m.id)>>)
  /\ UNCHANGED <<member, owner, live, used>>
  /\ Answered(m, "error")

ServerHandles(k) ==
  /\ k \in registered
  /\ up[k] # <<>>
  /\ LET m == Head(up[k])
     IN \/ GrantSpawn(k, m) \/ GrantJoin(k, m) \/ GrantList(k, m)
        \/ GrantLeave(k, m) \/ GrantClose(k, m) \/ TakeData(k, m)
        \/ Refuse(k, m)
  /\ up' = [up EXCEPT ![k] = Tail(@)]
  /\ UNCHANGED <<connection, activity, pending, outcome, wire, registered, seen>>

\* A process exits, or a session without members is reaped.
SessionEnds(s) ==
  /\ s \in live
  /\ EndSession(s)
  /\ down' = Sent(Members(s), <<Tell("exit", s, NoSession, None),
                                Tell("sessionClosed", s, NoSession, None)>>)
  /\ UNCHANGED <<connection, activity, requests, wire, up, registered, seen>>

\* The server drops a slow client, or learns that a socket has closed: before
\* or after the client does.
ServerLosesSocket(k) ==
  /\ k \in registered
  /\ registered' = registered \ {k}
  /\ member' = [member EXCEPT ![k] = {}]
  /\ owner' = [s \in SessionId |-> IF owner[s] = k THEN None ELSE owner[s]]
  /\ up' = [up EXCEPT ![k] = <<>>]
  /\ UNCHANGED <<connection, activity, requests, wire, down, live, used, seen>>

-----------------------------------------------------------------------------

ClientNext ==
  \/ \E k \in Socket :
       \/ ConnectCalled(k)
       \/ SocketOpens(k)
       \/ SocketFails(k)
       \/ SocketCloses(k)
       \/ HandleMessage(k)
       \/ ServerHandles(k)
       \/ ServerLosesSocket(k)
  \/ \E s \in SessionId : JoinCalled(s) \/ LeaveCalled(s) \/ SessionEnds(s)
  \/ ReconnectTimerFires
  \/ DisconnectCalled
  \/ SpawnCalled
  \/ ListSessionsCalled
  \/ KillCalled
  \/ WriteCalled
  \/ ClearPreviousSessionId

ClientSafe == ClientInit /\ [][ClientNext]_vars

\* Timers fire, messages that were sent arrive or the socket closes, an attempt
\* succeeds or fails, the server handles what it receives, and each side
\* notices in the end that the other has closed.
ClientSpec ==
  /\ ClientSafe
  /\ WF_vars(ReconnectTimerFires)
  /\ \A k \in Socket :
       /\ WF_vars(SocketOpens(k) \/ SocketFails(k))
       /\ WF_vars(HandleMessage(k))
       /\ WF_vars(ServerHandles(k))
       /\ WF_vars((wire[k] # "open" \/ k \notin registered) /\ SocketCloses(k))
       /\ WF_vars(wire[k] # "open" /\ ServerLosesSocket(k))

-----------------------------------------------------------------------------
(* Properties. *)

\* The client never holds two connections: no mix of connect() calls, retries,
\* errors and late close events leaves a second socket open or opening.
OneLiveSocket ==
  \A k \in Socket : wire[k] \in {"connecting", "aborting", "open", "closing"}
                      => k = ws

\* After disconnect() nothing brings the connection back but connect().
NoRetryAfterDisconnect == manual => ~timer

\* A request succeeds only if the server granted that very request.
SuccessIsGranted ==
  \A i \in RequestId : outcome[i] = "ok" => answered[i] = "ok"

\* A session's token is only ever sent with a request to join that session.
TokensStayWithTheirSession ==
  \A k \in Socket : \A n \in DOMAIN up[k] :
    up[k][n].token \in {NoSession, up[k][n].session}

\* Once nothing is on the way, the client's active session is one that its
\* connection is in on the server: neither races of spawn, join, leave, kill
\* and exit nor requests that were given up leave it in a session it is not in.
ActiveSessionIsJoined ==
  (/\ Connected /\ session # NoSession /\ ws \in registered
   /\ wire[ws] = "open" /\ up[ws] = <<>> /\ down[ws] = <<>>)
    => session \in member[ws]

\* Every request is settled in the end.
RequestsSettle ==
  \A i \in RequestId : (outcome[i] = "pending") ~> (outcome[i] # "pending")

\* A connection that was lost is made again, unless the application gives it up,
\* the attempts are exhausted, or the application calls connect() for ever (a
\* call between the error and the close of an attempt abandons its retry).
LostConnectionsReturn ==
  \/ (reconnecting /\ ~manual)
       ~> (~reconnecting \/ manual \/ attempts = MaxReconnectAttempts)
  \/ []<><<\E k \in Socket : ConnectCalled(k)>>_vars

\* Without a token the client asks before it offers its former session, and
\* then it never offers one whose end it has been told, whatever became of the
\* session and of other requests while it was asking.
ListedOffersAreAvailable ==
  [][offer' \notin {offer, NoSession} /\ previousToken = NoSession
       => offer' \notin gone]_vars

-----------------------------------------------------------------------------
(* What comments and documentation say and the code does not do.            *)

\* terminal-client.ts:57: requests are correlated by their identifiers and
\* remain independent.  So a request fails by an error only if its own answer
\* was one.
FailureIsOwn ==
  \A i \in RequestId : outcome[i] = "error" => answered[i] = "error"
=============================================================================
