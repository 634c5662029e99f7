--------------------------- MODULE TerminalServer ---------------------------
(* The WebSocket server (src/server/terminal-server.ts) on top of the       *)
(* session manager: connections that are authorized, wait for the native    *)
(* PTY runtime and meanwhile queue requests; request handlers; PTY events;  *)
(* the orphan timers, the idle sweep and shutdown.                          *)
(*                                                                          *)
(* A client of the manager is a connection (getClientId makes one id per    *)
(* WebSocket).  One action is one turn of the event loop, microtasks        *)
(* included, with one exception: when the gate of a connection opens, the   *)
(* requests queued behind it are handled one per step, and no other turn    *)
(* may begin before they are (Quiet), because they are microtasks.          *)
EXTENDS SessionManager, Sequences

CONSTANTS User,                  \* people, as `authorize` sees them
          NoUser,
          UserOf,                \* the user behind each connection
          MaxSessionsPerClient,  \* option maxSessionsPerClient
          MaxPreAuthMessages,    \* option maxPreAuthMessages
          SpawnOptions,          \* the [share, tmux] a spawn may ask for
          RequestKinds,          \* the requests clients make in this instance
          SlowClients,           \* connections whose output may back up
          IdleTimeoutOn,         \* whether option idleTimeout is not 0
          LateFrames             \* whether the ws library still delivers
                                 \* frames after the server began to close

ASSUME ServerAssumption ==
  /\ NoUser \notin User
  /\ UserOf \in [ClientId -> User]
  /\ MaxSessionsPerClient \in Nat \ {0}
  /\ MaxPreAuthMessages \in Nat
  /\ SpawnOptions \subseteq [share : BOOLEAN, tmux : BOOLEAN]
  /\ RequestKinds \subseteq {"spawn", "join", "leave", "close", "data"}
  /\ SlowClients \subseteq ClientId
  /\ IdleTimeoutOn \in BOOLEAN
  /\ LateFrames \in BOOLEAN

VARIABLES
  ws,        \* readyState of each connection's socket; "none" before it exists
  gate,      \* connectionReady of each connection, and what it waits for
  muted,     \* connections with preAuthRejected set
  queue,     \* requests chained on messageQueue behind connectionReady
  runtime,   \* the shared import of node-pty: this.pty, this.ptyInitialization
  closed,    \* this.closed
  idle,      \* sessions whose last activity is longer ago than idleTimeout
  \* What the clients and an observer know; the server never reads these.
  tokens,    \* the resume tokens each user has been sent, by session
  opener,    \* the user whose spawn made the session
  admitted,  \* connections the authorization policy answered true for
             \* while the server was open
  early,     \* connections whose close event came before their gate opened
  ended      \* the reason each session was closed with

connVars == <<ws, gate, muted, queue, runtime, admitted, early>>
vars == <<mgr, connVars, closed, idle, tokens, opener, ended>>

Reasons == {"owner_closed", "process_exit", "idle_timeout", "orphan_timeout",
            "cleanup", "error"}

JoinRequest == [kind : {"join"}, session : SessionId, token : BOOLEAN]

Request ==
  [kind : {"spawn"}, options : SpawnOptions]
    \cup JoinRequest
    \cup [kind : {"leave", "close", "data"}, session : SessionId]

\* Identifiers are random UUIDs: one that was used is never issued again.
Issued == {s \in SessionId : mgr.pty[s] # "none"}

\* What connection c may send now: sessions somebody was told about, and a
\* token only if the user holds it.
RequestsOf(c) ==
  {r \in Request :
     /\ r.kind \in RequestKinds
     /\ r.kind # "spawn" => r.session \in Issued
     /\ r.kind = "join" /\ r.token => r.session \in tokens[UserOf[c]]}

ServerInit ==
  /\ MgrInit
  /\ ws = [c \in ClientId |-> "none"]
  /\ gate = [c \in ClientId |-> "none"]
  /\ muted = {}
  /\ queue = [c \in ClientId |-> <<>>]
  /\ runtime = "absent"
  /\ closed = FALSE
  /\ idle = {}
  /\ tokens = [u \in User |-> {}]
  /\ opener = [s \in SessionId |-> NoUser]
  /\ admitted = {}
  /\ early = {}
  /\ ended = [s \in SessionId |-> "none"]

Draining(c) == gate[c] = "ready" /\ queue[c] # <<>>

\* Mutant: other turns run between a gate's opening and its queued requests.
MutQuiet == TRUE

Quiet == \A c \in ClientId : ~Draining(c)

\* Only an open socket is sent anything, so only it can overflow; the server
\* then removes the client everywhere and begins to close its socket.
Overflow(recipients, slow) ==
  /\ slow \subseteq {c \in recipients \cap SlowClients : ws[c] = "open"}
  /\ ws' = [c \in ClientId |-> IF c \in slow THEN "closing" ELSE ws[c]]

\* Mutant: a session that is gone is closed and announced once more.
MutClosing(m, S, reason) ==
  /\ ended' = [s \in SessionId |-> IF s \in S THEN reason ELSE ended[s]]
  /\ idle' = idle \ S

\* closeSession is called for S while the manager is m: what it closes, and
\* announces with the reason, are the sessions it finds.
Closing(m, S, reason) ==
  /\ ended' = [s \in SessionId |-> IF s \in S \cap m.live THEN reason
                                                        ELSE ended[s]]
  /\ idle' = idle \ S

-----------------------------------------------------------------------------
(* Request handlers, as effects of one request of connection c.  `slow` are *)
(* the recipients found over their output limit while the handler sends.    *)

AtSessionLimit(c) == Cardinality(mgr.index[c]) >= MaxSessionsPerClient

\* A shell in a container, attached to one, or local: of these only a shell in a
\* container may be in tmux.
StartSession(s, c, options) ==
  CreateSession(mgr, s, c, options.share, options.tmux)

\* spawnSession: the per-client and total limits, then PTY and session in one
\* turn.  The response carries the resume token.
HandleSpawn(c, r, slow) ==
  /\ r.kind = "spawn"
  /\ ~AtSessionLimit(c)
  /\ CanCreateSession(mgr)
  /\ Overflow({c}, slow)
  /\ \E s \in SessionId \ Issued :
       /\ mgr' = RemoveFromAll(StartSession(s, c, r.options), slow)
       /\ opener' = [opener EXCEPT ![s] = UserOf[c]]
       /\ tokens' = IF ws'[c] = "open"
                      THEN [tokens EXCEPT ![UserOf[c]] = @ \cup {s}]
                      ELSE tokens
  /\ UNCHANGED <<idle, ended>>

\* A spawn that fails once its session exists, while the handlers are set up or
\* the answer is sent: cleanupFailedSpawn closes the session again.
HandleFailedSpawn(c, r, slow) ==
  /\ r.kind = "spawn"
  /\ ~AtSessionLimit(c)
  /\ CanCreateSession(mgr)
  /\ Overflow({c}, slow)
  /\ \E s \in SessionId \ Issued :
       LET started == StartSession(s, c, r.options)
       IN /\ mgr' = RemoveFromAll(CloseSessions(started, {s}), slow)
          /\ Closing(started, {s}, "error")
          /\ opener' = [opener EXCEPT ![s] = UserOf[c]]
  /\ UNCHANGED tokens

\* Mutant: the per-client limit is not applied to joins.
MutMayJoin(c, r) == CanAddClient(mgr, r.session, r.token)

MayJoin(c, r) ==
  /\ CanAddClient(mgr, r.session, r.token)
  /\ c \notin mgr.clients[r.session] => ~AtSessionLimit(c)

\* Mutant: the answer carries the session's token, whoever joined.
MutHandleJoin(c, r, slow) ==
  /\ r.kind = "join"
  /\ MayJoin(c, r)
  /\ Overflow({c} \cup mgr.clients[r.session], slow)
  /\ mgr' = RemoveFromAll(AddClient(mgr, r.session, c, r.token), slow)
  /\ tokens' = IF ws'[c] = "open"
                 THEN [tokens EXCEPT ![UserOf[c]] = @ \cup {r.session}]
                 ELSE tokens
  /\ UNCHANGED <<idle, opener, ended>>

\* handleJoinSession: enter, answer (the token only to who presented it), and
\* tell the others.
HandleJoin(c, r, slow) ==
  /\ r.kind = "join"
  /\ MayJoin(c, r)
  /\ Overflow({c} \cup mgr.clients[r.session], slow)
  /\ mgr' = RemoveFromAll(AddClient(mgr, r.session, c, r.token), slow)
  /\ tokens' = IF r.token /\ ws'[c] = "open"
                 THEN [tokens EXCEPT ![UserOf[c]] = @ \cup {r.session}]
                 ELSE tokens
  /\ UNCHANGED <<idle, opener, ended>>

IsMember(c, r) == r.session \in mgr.live /\ c \in mgr.clients[r.session]

HandleLeave(c, r, slow) ==
  /\ r.kind = "leave"
  /\ IsMember(c, r)
  /\ Overflow({c} \cup mgr.clients[r.session], slow)
  /\ mgr' = RemoveFromAll(RemoveClient(mgr, r.session, c), slow)
  /\ UNCHANGED <<idle, tokens, opener, ended>>

OwnsSession(c, r) == r.session \in mgr.live /\ mgr.owner[r.session] = c

\* closeSession: the owner, whether or not it is still in the session.
HandleClose(c, r, slow) ==
  /\ r.kind = "close"
  /\ OwnsSession(c, r)
  /\ Overflow({c} \cup mgr.clients[r.session], slow)
  /\ mgr' = CloseSessions(RemoveFromAll(mgr, slow), {r.session})
  /\ Closing(mgr, {r.session}, "owner_closed")
  /\ UNCHANGED <<tokens, opener>>

\* updateSessionActivity, updateClientActivity.
UpdateActivity(s) == idle' = idle \ {s}

\* writeToSession, and resizeSession likewise: activity, and no answer, unless
\* the process's write throws, which is answered with an error.
HandleData(c, r, slow) ==
  /\ r.kind = "data"
  /\ IsMember(c, r)
  /\ UpdateActivity(r.session)
  /\ Overflow({c}, slow)
  /\ mgr' = RemoveFromAll(mgr, slow)
  /\ UNCHANGED <<tokens, opener, ended>>

\* Any spawn may be refused: by the shells, directories and containers that are
\* allowed, or by the operating system.
SpawnMayFail(r) == r.kind = "spawn"

\* A request that is not granted is answered with an error, which may be what
\* overflows the socket.
Refused(c, r) ==
  \/ SpawnMayFail(r)
  \/ r.kind = "join" /\ ~MayJoin(c, r)
  \/ r.kind \in {"leave", "data"} /\ ~IsMember(c, r)
  \/ r.kind = "close" /\ ~OwnsSession(c, r)

HandleRefused(c, r, slow) ==
  /\ Refused(c, r)
  /\ Overflow({c}, slow)
  /\ mgr' = RemoveFromAll(mgr, slow)
  /\ UNCHANGED <<idle, tokens, opener, ended>>

\* handleIncomingMessage looks neither at the socket nor at `closed`.
HandleIncomingMessage(c, r) ==
  /\ \E slow \in SUBSET SlowClients :
       \/ HandleSpawn(c, r, slow)
       \/ HandleFailedSpawn(c, r, slow)
       \/ HandleJoin(c, r, slow)
       \/ HandleLeave(c, r, slow)
       \/ HandleClose(c, r, slow)
       \/ HandleData(c, r, slow)
       \/ HandleRefused(c, r, slow)
  /\ UNCHANGED <<gate, muted, runtime, closed, admitted, early>>

-----------------------------------------------------------------------------
(* Connections. *)

Receivable(c) ==
  /\ c \notin muted
  /\ ws[c] = "open" \/ (LateFrames /\ ws[c] = "closing")

\* Close the sockets of C that are open (closeOpenWebSocket).
CloseOpen(C) ==
  ws' = [c \in ClientId |->
           IF c \in C /\ ws[c] = "open" THEN "closing" ELSE ws[c]]

\* Mutant: the sockets are closed and the gates keep waiting.
MutRejectGate(C) == CloseOpen(C) /\ UNCHANGED <<gate, queue>>

\* connectionReady rejects for C: what was queued behind it is given up, and
\* handleConnectionFailure closes the socket.
RejectGate(C) ==
  /\ gate' = [c \in ClientId |-> IF c \in C THEN "rejected" ELSE gate[c]]
  /\ queue' = [c \in ClientId |-> IF c \in C THEN <<>> ELSE queue[c]]
  /\ CloseOpen(C)

\* handleConnection.  A socket handed to a closed server (a manual upgrade) is
\* taken too; AuthorizeSettles can only refuse it.
Connect(c) ==
  /\ Quiet
  /\ ws[c] = "none"
  /\ ws' = [ws EXCEPT ![c] = "open"]
  /\ gate' = [gate EXCEPT ![c] = "authorizing"]
  /\ UNCHANGED <<mgr, muted, queue, runtime, closed, idle, tokens, opener,
                 admitted, early, ended>>

\* Mutant: `closed` is not read again after the await.
MutAuthorizeSettles(c, answer) ==
  /\ Quiet
  /\ gate[c] = "authorizing"
  /\ IF answer
       THEN /\ gate' = [gate EXCEPT ![c] = IF runtime = "loaded"
                                            THEN "ready" ELSE "loading"]
            /\ runtime' = IF runtime = "absent" THEN "loading" ELSE runtime
            /\ UNCHANGED <<ws, queue>>
       ELSE RejectGate({c}) /\ UNCHANGED runtime
  /\ admitted' = IF answer /\ ~closed THEN admitted \cup {c} ELSE admitted
  /\ UNCHANGED <<mgr, muted, closed, idle, tokens, opener, early, ended>>

\* The allowed origins and the authorize hook have decided.  `closed` is read
\* again after the await; the state of the socket is not.
AuthorizeSettles(c, answer) ==
  /\ Quiet
  /\ gate[c] = "authorizing"
  /\ IF answer /\ ~closed
       THEN /\ gate' = [gate EXCEPT ![c] = IF runtime = "loaded"
                                            THEN "ready" ELSE "loading"]
            /\ runtime' = IF runtime = "absent" THEN "loading" ELSE runtime
            /\ UNCHANGED <<ws, queue>>
       ELSE RejectGate({c}) /\ UNCHANGED runtime
  /\ admitted' = IF answer /\ ~closed THEN admitted \cup {c} ELSE admitted
  /\ UNCHANGED <<mgr, muted, closed, idle, tokens, opener, early, ended>>

\* Mutant: connections whose authorization is pending are let through as well.
MutWaiting == {c \in ClientId : gate[c] \in {"authorizing", "loading"}}

Waiting == {c \in ClientId : gate[c] = "loading"}

\* The one shared import of node-pty settles for every connection that awaits
\* it; a failure is forgotten, so that a later connection tries again.
RuntimeSettles(loads) ==
  /\ Quiet
  /\ runtime = "loading"
  /\ IF loads
       THEN /\ runtime' = "loaded"
            /\ gate' = [c \in ClientId |->
                          IF c \in Waiting THEN "ready" ELSE gate[c]]
            /\ UNCHANGED <<ws, queue>>
       ELSE runtime' = "absent" /\ RejectGate(Waiting)
  /\ UNCHANGED <<mgr, muted, closed, idle, tokens, opener, admitted, early,
                 ended>>

\* A frame that arrives before the gate opens is queued.  Len(queue[c]) is
\* preAuthMessages: until then nothing leaves the queue.
Pending(c) == gate[c] \in {"authorizing", "loading"}

QueueRequest(c) ==
  /\ Quiet
  /\ Pending(c)
  /\ Receivable(c)
  /\ Len(queue[c]) < MaxPreAuthMessages
  /\ \E r \in RequestsOf(c) : queue' = [queue EXCEPT ![c] = Append(@, r)]
  /\ UNCHANGED <<mgr, ws, gate, muted, runtime, closed, idle, tokens, opener,
                 admitted, early, ended>>

\* One frame, or one byte, too many before the gate opens.  The rejection wins
\* the race only while authorization is pending: once the runtime is loading
\* it has no effect, and what was queued will still be handled.
PreAuthLimit(c) ==
  /\ Quiet
  /\ Pending(c)
  /\ Receivable(c)
  /\ muted' = muted \cup {c}
  /\ IF gate[c] = "authorizing"
       THEN RejectGate({c})
       ELSE CloseOpen({c}) /\ UNCHANGED <<gate, queue>>
  /\ UNCHANGED <<mgr, runtime, closed, idle, tokens, opener, admitted, early,
                 ended>>

\* A frame over maxMessageBytes mutes the connection for good.
OversizedFrame(c) ==
  /\ Quiet
  /\ Receivable(c)
  /\ muted' = muted \cup {c}
  /\ CloseOpen({c})
  /\ UNCHANGED <<mgr, gate, queue, runtime, closed, idle, tokens, opener,
                 admitted, early, ended>>

\* A request on a ready connection is handled in the turn of its frame.
Serve(c) ==
  /\ Quiet
  /\ gate[c] = "ready"
  /\ Receivable(c)
  /\ \E r \in RequestsOf(c) : HandleIncomingMessage(c, r)
  /\ UNCHANGED queue

\* The requests queued behind a gate that has just opened, in their order.
Drain(c) ==
  /\ Draining(c)
  /\ HandleIncomingMessage(c, Head(queue[c]))
  /\ queue' = [queue EXCEPT ![c] = Tail(@)]

\* Mutant: a client whose socket the server closed is taken to be gone already.
MutCloseEvent(c) ==
  /\ Quiet
  /\ ws[c] \in {"open", "closing"}
  /\ ws' = [ws EXCEPT ![c] = "closed"]
  /\ mgr' = IF ws[c] = "open" THEN RemoveFromAll(mgr, {c}) ELSE mgr
  /\ early' = IF gate[c] = "ready" THEN early ELSE early \cup {c}
  /\ UNCHANGED <<gate, muted, queue, runtime, closed, idle, tokens, opener,
                 admitted, ended>>

\* The client closes, or the server's own close completes or times out; the
\* close event reaches handleClientDisconnect.
CloseEvent(c) ==
  /\ Quiet
  /\ ws[c] \in {"open", "closing"}
  /\ ws' = [ws EXCEPT ![c] = "closed"]
  /\ mgr' = RemoveFromAll(mgr, {c})
  /\ early' = IF gate[c] = "ready" THEN early ELSE early \cup {c}
  /\ UNCHANGED <<gate, muted, queue, runtime, closed, idle, tokens, opener,
                 admitted, ended>>

-----------------------------------------------------------------------------
(* Sessions on their own. *)

unchangedByPty == <<gate, muted, queue, runtime, closed, tokens, opener,
                    admitted, early>>

PtyOutput(s) ==
  /\ Quiet
  /\ s \in mgr.live
  /\ \E slow \in SUBSET SlowClients :
       Overflow(mgr.clients[s], slow) /\ mgr' = RemoveFromAll(mgr, slow)
  /\ UpdateActivity(s)
  /\ UNCHANGED <<ended, unchangedByPty>>

\* onExit: two broadcasts, then closeSession.  A process that was killed, or
\* that ran on because it could not be, exits as well, and its event is to find
\* nothing to do.
PtyExit(s) ==
  /\ Quiet
  /\ mgr.pty[s] \in {"running", "killed", "stray"}
  /\ \E slow \in SUBSET SlowClients :
       /\ Overflow(mgr.clients[s], slow)
       /\ mgr' = CloseSessions([RemoveFromAll(mgr, slow) EXCEPT
                                  !.pty[s] = "exited"], {s})
  /\ Closing(mgr, {s}, "process_exit")
  /\ UNCHANGED unchangedByPty

\* Mutant: nothing is reaped once the server is closed.
MutOrphanTimerFires(s) ==
  /\ Quiet
  /\ ~closed
  /\ mgr.armed[s] > 0
  /\ mgr' = FireOrphanTimer(mgr, s)
  /\ Closing(mgr, mgr.live \ mgr'.live, "orphan_timeout")
  /\ UNCHANGED <<ws, unchangedByPty>>

OrphanTimerFires(s) ==
  /\ Quiet
  /\ mgr.armed[s] > 0
  /\ mgr' = FireOrphanTimer(mgr, s)
  /\ Closing(mgr, mgr.live \ mgr'.live, "orphan_timeout")
  /\ UNCHANGED <<ws, unchangedByPty>>

\* Time passes without input or output of s.
GoIdle(s) ==
  /\ Quiet
  /\ IdleTimeoutOn
  /\ s \in mgr.live \ idle
  /\ idle' = idle \cup {s}
  /\ UNCHANGED <<mgr, ws, ended, unchangedByPty>>

\* cleanupSessions: every idle session is told and closed, in one turn.  The
\* interval is cleared by close().
CleanupSessions ==
  /\ Quiet
  /\ ~closed
  /\ idle # {}
  /\ \E slow \in SUBSET SlowClients :
       /\ Overflow(UNION {mgr.clients[s] : s \in idle}, slow)
       /\ mgr' = CloseSessions(RemoveFromAll(mgr, slow), idle)
  /\ Closing(mgr, idle, "idle_timeout")
  /\ UNCHANGED unchangedByPty

\* TerminalServer.close.
Shutdown ==
  /\ Quiet
  /\ ~closed
  /\ closed' = TRUE
  /\ mgr' = Cleanup(mgr)
  /\ CloseOpen(ClientId)
  /\ Closing(mgr, mgr.live, "cleanup")
  /\ UNCHANGED <<gate, muted, queue, runtime, tokens, opener, admitted, early>>

ServerNext ==
  \/ \E c \in ClientId :
       \/ Connect(c)
       \/ \E answer \in BOOLEAN : AuthorizeSettles(c, answer)
       \/ QueueRequest(c)
       \/ PreAuthLimit(c)
       \/ OversizedFrame(c)
       \/ Serve(c)
       \/ Drain(c)
       \/ CloseEvent(c)
  \/ \E loads \in BOOLEAN : RuntimeSettles(loads)
  \/ \E s \in SessionId :
       \/ PtyOutput(s)
       \/ PtyExit(s)
       \/ OrphanTimerFires(s)
       \/ GoIdle(s)
  \/ CleanupSessions
  \/ Shutdown

ServerSafe == ServerInit /\ [][ServerNext]_vars

\* The event loop runs its microtasks and its expired timers, a close that the
\* server began completes (it terminates the socket if it must), and an import
\* settles.  Nothing is assumed of clients, of processes or of the hook.
ServerSpec ==
  /\ ServerSafe
  /\ \A c \in ClientId :
       /\ WF_vars(Drain(c))
       /\ WF_vars(ws[c] = "closing" /\ CloseEvent(c))
  /\ \A s \in SessionId : WF_vars(OrphanTimerFires(s))
  /\ WF_vars(\E loads \in BOOLEAN : RuntimeSettles(loads))

-----------------------------------------------------------------------------
(* Properties. *)

\* The state of the server has the shape of its maps, flags and queues.
ServerTypeOK ==
  /\ MgrTypeOK
  /\ ws \in [ClientId -> {"none", "open", "closing", "closed"}]
  /\ gate \in [ClientId -> {"none", "authorizing", "loading", "ready",
                            "rejected"}]
  /\ muted \subseteq ClientId
  /\ queue \in [ClientId -> Seq(Request)]
  /\ runtime \in {"absent", "loading", "loaded"}
  /\ closed \in BOOLEAN
  /\ idle \subseteq mgr.live
  /\ tokens \in [User -> SUBSET SessionId]
  /\ opener \in [SessionId -> User \cup {NoUser}]
  /\ admitted \subseteq ClientId
  /\ early \subseteq ClientId
  /\ ended \in [SessionId -> Reasons \cup {"none"}]

\* Whoever is in a session was admitted by the authorization policy, also when
\* its request was queued before the policy had answered, and an answer that
\* came only after close() admits nobody.
OnlyAdmittedMembers ==
  \A s \in SessionId : mgr.clients[s] \subseteq admitted

\* A session that was not opened for sharing is only ever entered by the user
\* who spawned it, on whatever connection: resume tokens reach nobody else.
PrivateSessionsStayPrivate ==
  \A s \in mgr.live \ mgr.accepting, c \in ClientId :
    c \in mgr.clients[s] => UserOf[c] = opener[s]

\* Ownership moves between connections but never between users, shared
\* sessions included: a guest cannot come to own (and so close) a session.
OwnersAreOpeners ==
  \A s \in mgr.live :
    mgr.owner[s] \in ClientId /\ UserOf[mgr.owner[s]] = opener[s]

\* The per-client limit holds over every way into a session, spawn, join and
\* resume together.
ClientsWithinSessionLimit ==
  \A c \in ClientId :
    Cardinality({s \in SessionId : c \in mgr.clients[s]})
      <= MaxSessionsPerClient

\* A connection whose socket is gone is in no session, but for one way in: its
\* close event came before its gate opened, and its queued requests after.
GhostsClosedBeforeReady ==
  \A s \in SessionId : \A c \in mgr.clients[s] :
    ws[c] = "closed" => c \in early

\* Whoever waits for the runtime waits for an import that is under way: no
\* failure, shutdown or late connection leaves a connection waiting for good.
WaitersHaveALoader == Waiting # {} => runtime = "loading"

\* The orphan timer takes only sessions that are empty and not kept by tmux,
\* whatever joined, left or was dropped since it was armed.
TimerTakesOnlyOrphans ==
  [][\A s \in SessionId :
       ended[s] = "none" /\ ended'[s] = "orphan_timeout"
         => s \in mgr.orphaned \ mgr.tmux]_vars

\* A session ends once.  The owner's close, the orphan timer, the idle sweep,
\* shutdown, a failed spawn and the exit of the process race for it, and the
\* exit follows all the others; the first gives the reason, and the others find
\* nothing to end, nor does the identifier come back to life.
EndsOnce ==
  [][\A s \in SessionId :
       ended[s] # "none" => ended'[s] = ended[s] /\ s \notin mgr'.live]_vars

\* A member whose socket the server is closing leaves every session it is in.
ClosingMembersLeave ==
  \A s \in SessionId, c \in ClientId :
    (c \in mgr.clients[s] /\ ws[c] = "closing")
      ~> (c \notin mgr.clients[s])

\* An empty session without tmux does not stay empty for ever, whatever the
\* handlers that emptied it did besides.
OrphansGetReaped ==
  \A s \in SessionId :
    (s \in mgr.orphaned \ mgr.tmux) ~> (s \notin mgr.orphaned)

\* Requests that were queued when the server was closed may still open a
\* session in it; unless tmux keeps it, such a session ends too, but for one
\* whose member had closed before its gate opened.
ClosedServerEmpties ==
  <>[](closed => \A s \in mgr.live \ mgr.tmux : mgr.clients[s] \cap early # {})

-----------------------------------------------------------------------------
(* What the documentation says and the code does not do.  *)

\* README.md:596 and 609: a session lives while clients are connected to it
\* and for orphanTimeout after the last one has gone.  So an existing session
\* without tmux has a client whose socket is not closed, or a timer.
ConnectedOrTimed ==
  \A s \in mgr.live \ mgr.tmux :
    (\E c \in mgr.clients[s] : ws[c] # "closed") \/ mgr.armed[s] > 0
=============================================================================
