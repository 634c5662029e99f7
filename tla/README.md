# lit-shell in TLA+

lit-shell is a web terminal: a WebSocket server that runs pseudo-terminals
(local shells, `docker exec`, `docker attach`) and lets several connections
share, leave and resume them; a TypeScript client; a web component; and a
Python client. This directory models the server with its history, both clients
and the tabs of the web component, checks them with TLC and proves with TLAPS
every safety property that TLC checks in a passing run. Line numbers refer to the
repository's files under `src/`.

    tlc -config MCServerGate.cfg MCTerminalServer     # any run of the table below
    tlapm SessionManagerProofs.tla                    # any *Proofs module

## The system

| Component | State | Operations | Talks to |
|---|---|---|---|
| `SessionManager` (`src/server/session-manager.ts`) | sessions (members, owner, flags, orphan mark, history, process), index from client to sessions, orphan timers | create, close, add/remove client, remove everywhere, broadcast, history, activity, cleanup | PTY processes, the clients' sockets, `setTimeout` |
| `TerminalServer` (`src/server/terminal-server.ts`) | connections, per-connection gate, message queue and pre-authorization counters (closures of `handleConnection`), the shared `node-pty` import, container-list cache, `closed` | connection handling, eight request kinds, PTY callbacks, idle sweep, shutdown | `SessionManager`, `ws`, `node-pty`, docker CLI |
| Output limit (`src/server/websocket-output.ts`) | none (reads `bufferedAmount`) | may a message be queued; close a socket that is too slow | both of the above |
| `CircularBuffer` (`src/server/circular-buffer.ts`) | chunks and their total length | append, read the tail, clear | one per session |
| `TerminalClient` (`src/client/terminal-client.ts`) | connection state, current session, pending requests, reconnect timer, stored previous session | connect, disconnect, reconnect, spawn, join, leave, kill, list | the server |
| `<lit-shell-terminal>` (`src/ui/lit-shell-terminal.ts`) | tabs, each with a client, a terminal and a session | connect, spawn, join, switch and close tabs, reconnect prompt | `TerminalClient`, xterm |
| Python client (`bindings/python/lit_shell/client.py`) | connection, receive task, pending requests, resume token | connect, spawn, join, leave, kill, reconnect loop | the server |
| Demo, examples, scripts, docker | none of the system's | | |

What makes the server hard is not parallelism (JavaScript runs one turn at a
time) but what happens between turns: a connection becomes usable after two
awaits, while its frames are already queued and its socket may close; one
broadcast may drop clients from sessions that the handler is still using;
timers, process exits, owners and the idle sweep may each end the same session;
connections come and go while sessions stay, with ownership and resume tokens
handed from one connection to the next.

What makes each component correct:

- *SessionManager*: its two maps agree; a session is an orphan exactly when it
  is empty; exactly the orphans without tmux have a timer, one each; limits
  hold; a process runs exactly while its session exists, unless it could not be
  killed; orphans do not stay for ever.
- *TerminalServer*: only admitted connections reach a session; private sessions
  are entered by their opener alone and ownership never changes user;
  per-client and pre-authorization limits hold; nobody waits for an import that
  is not running; closed connections leave; a session ends once; a closed server
  admits nobody, and empties.
- *CircularBuffer*: it holds the last `maxSize` characters.
- *History and live output*: what a client is sent on joining and afterwards is
  one contiguous piece of the session's output.
- *Clients*: every request is settled exactly once and by its own answer; a
  stale socket never changes the state of the connection that replaced it; a
  session offered for resumption is one the server may still have.
- *Python client*: besides, a connection is announced only when its session is
  recovered, and `connect()`, the retries and `disconnect()` never undo each
  other.
- *UI*: a tab shows what its own client is in, and what it opened ends with it.

## Modules

| Module | What it is |
|---|---|
| `SessionLifecycle` | abstract: a session is absent, attached or orphaned, its process lives as long as it does; Open, Abandon, Adopt, End, Reap |
| `SessionManager` | the manager, call by call; refines `SessionLifecycle` |
| `TerminalServer` | the server on top of the manager (EXTENDS it) |
| `TerminalClient` | the browser client, the sockets between, and the server's answers to one client |
| `RecentOutput` | abstract: the last characters written, and clearing them |
| `CircularBuffer` | the history buffer, chunk by chunk; refines `RecentOutput` |
| `SessionOutput` | one session's output: history, broadcast, joins, drops (EXTENDS `CircularBuffer`) |
| `PythonClient` | the asyncio client, its tasks, its connection and the server's answers |
| `Tabs` | the web component's tabs and the clients they hold |
| `MCTerminalServer`, `MCTerminalClient`, `MCTabs` | instances for TLC |
| `SessionManagerProofs` | the effect of each call, preservation of the invariant, the manager's theorems and its refinement |
| `TerminalServerProofs` | what the server does to the manager, on top of the manager's lemmas |
| `ServerAccessProofs` | who gets past the gate and into which session |
| `CircularBufferProofs` | the buffer's invariant and its refinement |
| `SessionOutputProofs` | history and live output meet, on top of the buffer's theorems |
| `TerminalClientProofs` | the browser client's sockets, tokens, answers, its session and what it offers to resume |
| `PythonClientProofs` | the Python client's connection, its recovery and the order of its answers |
| `TabsProofs` | what the tabs do not share, and that they show their own clients |

### SessionManager

The manager is one object whose calls run to completion, so its state is one
record `mgr` and each call is an operator from a record to a record. The
record's fields are the class's maps turned inside out: `live` is the key set
of `sessions`; `clients`, `owner`, `accepting`, `tmux`, `orphaned` and `pty`
are fields of `SharedSession`; `index` is `clientToSessions`; `timer` is the
key set of `orphanTimers`; `armed` counts the timeouts the runtime still holds,
apart from the map, so that a timeout whose handle was lost or overwritten
remains visible. Handlers that make several calls in one turn compose the
operators.

| Operator (action) | Code |
|---|---|
| `MayCreate`, `CreateSession` (`Create`) | `createSession` 190-264 |
| `CanAddClient`, `AddClient` (`Join`) | `addClient` 363-413 |
| `RemoveClient` (`Leave`) | `removeClient` 418-444 |
| `RemoveFromAll` (`Disconnect`, `BroadcastDrops`) | `removeClientFromAllSessions` 449-459; the drop of slow recipients in `broadcastToSession` 509-567 |
| `CloseSessions` (`Close`) | `closeSession` 297-331: clear the timer, leave both maps (`Deregister`), kill the process (`KillPty`) |
| `HandleOrphaned`, `FireOrphanTimer` (`OrphanTimeout`) | `handleOrphanedSession` 653-681 and its callback |
| `Cleanup` (`CleanupAll`) | `cleanup` 723-738 |

`kill()` may throw, and the code then goes on (323-328): the process of a session
in `Unkillable` is afterwards `stray`, running without a session until it exits by
itself. `ProcessesAccounted` says that no other process ever is.

`Detach` stands for any set of removals in one turn, which commute; it is what
`RemoveClient` and `RemoveFromAll` share.

### TerminalServer

A client of the manager is a connection: `getClientId` (600-607) gives each
socket its own identifier. Each connection has a socket state `ws`, a `gate`
(`authorizing`, `loading` while the native PTY runtime is imported, `ready` or
`rejected`: the promise `connectionReady` of `handleConnection` 694-703),
membership in `muted` (`preAuthRejected`) and a `queue` (what is chained on
`messageQueue`). `runtime` is the shared import of `node-pty` (`initPty`
612-629). `idle` holds the sessions whose last activity is older than
`idleTimeout`. `tokens`, `opener`, `admitted`, `early` and `ended` are history
and knowledge variables that the server never reads: the tokens each user was
sent, who opened a session, who was authorized before the server was closed,
whose socket closed before its gate opened, and why each session ended.

A socket handed to a closed server (a manual upgrade) is open and `authorizing`
like any other, and its frames are queued, until `AuthorizeSettles` reads
`closed` again (812-813) and rejects the gate, which closes the socket
(`handleConnectionFailure` 783-790). The import of the runtime, awaited after
that, is not followed by such a look at `closed`; what was queued behind it is
handled.

One action is one turn of the event loop with its microtasks. The exception:
when a gate opens, the requests queued behind it are handled one per step
(`Drain`) and every other action waits for that (`Quiet`), since in the code
they run as microtasks, before the next turn.

| Action | Code |
|---|---|
| `Connect`, `AuthorizeSettles`, `RuntimeSettles` | `handleConnection` 677-771, `authorizeConnection` 792-814, `initPty` 612-629 |
| `QueueRequest`, `PreAuthLimit`, `OversizedFrame` | the message listener 706-751 before the gate is open, and `acceptedMessageBytes` 314-323 |
| `Serve`, `Drain` | `handleIncomingMessage` 819-922 and the handlers: `HandleSpawn` (1515-1664, with `StartSession` 1350-1499), `SpawnMayFail` (its early returns), `HandleFailedSpawn` (a throw once the session exists, 1673-1725), `HandleJoin` (1138-1227), `HandleLeave` (1232-1272), `HandleData` (1774-1839; a write that throws is answered with an error, 915-920), `HandleClose` (1844-1895), `HandleRefused` (every error answer) |
| `CloseEvent` | `handleClientDisconnect` 773-781 |
| `PtyOutput`, `PtyExit` | `setupSessionHandlers` 1730-1769 |
| `OrphanTimerFires` | the manager's callback |
| `GoIdle`, `CleanupSessions` | time passing; `cleanupSessions` 1897-1924 |
| `Shutdown` | `close` 2184-2218 |

Every answer or broadcast may find recipients over the output limit: `slow` is
chosen among the recipients whose socket is open, and they are removed from all
sessions and their sockets begin to close (`Overflow`), as in
`disconnectSlowClient` 1978-1990.

Abstracted: the contents of input, output and history; sizes and byte counts
(the limits they trigger are choices); validation of options and the policies
on shells, directories and containers (a spawn may be refused for any reason);
list requests (they change nothing but the socket's backlog); the server-info
greeting; logging and labels. Identifiers are random UUIDs and never reused. A
user knows a resume token only if some connection of that user was sent it.

### TerminalClient

The client's fields have their names, without `Id` and `reconnect`:
`connectPromise` is `promise` (whether there is one), `sessionId` and
`resumeToken` are `session` and `token`, `previousSessionId` and
`previousResumeToken` are `previous` and `previousToken`, `pendingRequests` is
the sequence `pending` (a `Map` keeps the order of insertion). `wire` is what a
socket is for the browser; `up` and `down` are what is on the way. A socket
delivers in order or is lost with what it carries, and either side may notice
first. The other end is the least the server may do: it answers one client's
messages in their order, refuses a spawn, a join, a listing or input for any
reason (`Refuse`), and ends sessions when it likes; `registered` are the sockets
it has not seen close. `outcome`, `answered`, `offer` and `gone` record what an
observer knows.

| Action | Code |
|---|---|
| `ConnectCalled`, `ReconnectTimerFires` (`Connecting`, `Dial`) | `connect` 105-130, `scheduleReconnect` 216-231 |
| `DisconnectCalled` | `disconnect` 196-214 |
| `SocketOpens`, `SocketFails`, `SocketCloses` | `onopen` 132-145 with `checkPreviousSessionAndNotify` 665-690, `onerror` 178-186, `onclose` 147-176 with `rejectPendingRequests` |
| `SpawnCalled`, `JoinCalled`, `ListSessionsCalled` (`Request`) | 441, 511, 497; `request` 238-263 |
| `LeaveCalled`, `KillCalled`, `WriteCalled` (`Notify`) | 535, 479, 469-476 (resize is a write); `sendForActiveSession` 484-494 |
| `ClearPreviousSessionId` | 650-653 |
| `HandleMessage` (`HandleEntered`, `HandleAnswer`, `HandleEnded`) | `handleMessage` 308-438; `SettledBy` and `ResolvePending` are `resolvePending` 265-300 and what awaits it |
| `ServerHandles`, `SessionEnds`, `ServerLosesSocket` | the handlers of `terminal-server.ts`, PTY exit, the close event |

A continuation of a promise is part of the action that settles it. That is why
`SocketCloses` clears `previous` when a check was pending: the check's `catch`
(684) runs after `onclose` has saved the session. The check that a reconnecting
client makes by itself is a kind of request of its own (`check`), since the
server never refuses it: it has no filter. A token is named by its session, and
an application that kept one may give it to `join` (`GivenToken`, 519); sessions
of other people are open to joining (`Shared`), the client's own are not, which
is its default (448). Not modelled: handlers that call back into the client
while it emits, a `WebSocket` constructor that throws, messages that do not
parse, and the lists and greetings it only stores or passes on.

### CircularBuffer and SessionOutput

What matters of output is which piece it is, so a chunk is the place in the
output where it starts and its length, and `written` and `cleared` say how far
the output has come and where the history was last cleared. `append` is one
call; its loop (43-56) is split into its iterations, because that is what the
proof is about: `AppendChunk`, then `DropOldest` or `SliceOldest` while the
buffer is over its limit, during which nothing else runs (`Appending`).
`Limited` is `tail`, the history sent on joining.

`SessionOutput` adds the connections of one session. `PtyData` (server
1733-1740) appends, `TrimHistory` is the rest of that call, and
`BroadcastToSession` (manager 509-567) follows in the same turn: what is sent to
each member, a slow one excepted, which is dropped there, and one whose send
throws (`Failing`), which misses the piece and stays (557-566). `HandleJoin`,
`HandleLeave`, `Disconnect`, `ClearHistory` and `EndSession` (`closeSession`) are
the others; what the process writes afterwards finds no session. `shown` is
what a connection has been sent since it last joined, history and live output
together.

### PythonClient

The client is one asyncio program: an action is what a task does between two
awaits. `pc` says where `connect()` by the user and the reconnect loop are
(waiting for `_connect_lock`, dialing, dialed but not yet resumed, recovering
the session, closing a socket after cancellation, sleeping between attempts),
which is all the control the two have; cancellation of `connect()` may come at
each of these.

| Action | Code (`bindings/python/lit_shell/client.py`) |
|---|---|
| `ConnectCalled`, `ReconnectTaskGone`, `LockHandedOver` | `connect` 168-184 |
| `DialSucceeds`, `DialFails`, `AttemptResumes` | `_connect_once` 227-276, `_connect_locked` 189-209 |
| `AttemptClosed`, `ForgottenAttemptClosed` (`Cancelled`, `Kept`) | a cancelled attempt awaits `websocket.close()` (259-266) and has the lock until then; that of the loop goes on although `disconnect()` has forgotten its task (287-297) |
| `RecoveryResumes`, `RecoveryTimesOut` (`Complete`) | `_complete_connection`, `_recover_active_session` 211-225, 543-571 |
| `ConnectCancelled` | `connect` 185-187, `_abandon_unannounced_connection` 1076-1099 |
| `RemoteDisconnect`, `ScheduleReconnect`, `LoopWakes` | `_handle_remote_disconnect` 954-983, `_schedule_reconnect`, `_reconnect_loop` 985-1037 |
| `DisconnectCalled` | `disconnect` 278-327 |
| `SpawnCalled`, `JoinCalled`, `ListSessionsCalled`, `KillCalled`, `LeaveCalled`, `LeaveSent` | 350-460, 462-541, 573-582 (`leave` sends from a background task) |
| `RequestTimesOut`, `Receive` (`SettledBy`, `Settle`, `Forget`) | `_send_request` 650-701; `_receive_loop` 703-732 and what it calls, 774-943 |
| `ServerAnswers`, `SessionEnds`, `ConnectionBreaks` | the server, which handles the messages of a connection in turn (terminal-server.ts 735-751, 819-922) and may refuse all but the leave of a member (a close, for one, by who does not own the session); the network |

Not modelled: `write` and `resize`, which neither wait nor change anything;
handlers that raise; parsing and validation.

### Tabs

`comp` holds the component's own client, terminal and session (the fields that
older, single-terminal code uses), `view` the same for each tab, and the code
copies between them: `SwitchTo` one way, `Synced` (`syncStateToActiveTab`) the
other. `target` is the tab a client was made for, which its handlers close over,
while other handlers look for the tab that has the client now (`Holders`).
A client is reduced to what the component sees: `link` (its connection),
`session`, `previous`. `call` is a `spawn()` or `join()` that is being awaited.

| Action | Code (`src/ui/lit-shell-terminal.ts`) |
|---|---|
| `CreateTab`, `SwitchTab`, `CloseTab` | 1400-1491 |
| `Connect`, `Disconnect` | 797-818, 1111-1120 |
| `Spawn`, `Join`, `TerminalReady`, `Granted`, `Refused` | 1125-1162, 1674-1730; `initTerminalUI` 1194-1269; the handlers 921-1005 that come before the answer is returned |
| `Leave`, `Kill` | 1735-1743, 1309-1316 |
| `Opens`, `Closes`, `Recovered` | the handlers 821-857, `recoverSession` 1076-1106 |
| `Exits`, `SessionClosed`, `Left` | 882-900, 1037-1057; the client alone |
| `Fails`, `RetryTimerFires` | the client (terminal-client.ts 147-186, 216-231) |

The panel's connect (1748-1785) is a connect and then a spawn or a join, and
`autoSpawn` a spawn: they are calls the model makes anyway.

Three of the four invariants are claimed only until one of the cases listed at
`Note` has happened, because in each of them the code does show or keep what is
wrong; one (`TabsKeepApart`) is claimed through all of them. Two of the cases are
ordinary:

- a connection ends while its session is being recovered, because it is lost or
  because the user disconnects: the tab is left marked connected (1093-1105);
- a session ends that a tab in the background shares with the one in view, which
  the repository's README offers (196): the handler looks only at the session's
  identifier, and the tab in view forgets it too (1037-1057).

In the others the user is quicker than the element: tabs are created, switched or
closed during an awaited `spawn()` or `join()`; a tab connects while a former
client of it waits to retry, dials or has yet to report its close (which then
marks the tab disconnected), or there is no tab; a session is left during its
recovery.

## Runs

| Run | Question | Instance |
|---|---|---|
| `manager` | do the manager's maps, marks, timers, limits and processes stay consistent, and does it implement `SessionLifecycle`, liveness included? | 3 identifiers for 2 sessions, 3 clients for 2 places |
| `server_gate` | do connections pass the gate only as they should, and what becomes of the session, does it end once, and does a closed server empty? | 2 connections, 1 session, tmux, idle sweep, c1 slow, late frames, shutdown; liveness |
| `server_sharing` | do private sessions and ownership stay with their user, within the limits? | 3 connections of 2 users, 2 sessions, private or shared |
| `output` | does the buffer hold the last characters, and is what a connection is shown of a session seamless? | buffer of 3, pieces up to 4, 6 characters in all, 2 connections, one slow, one whose sends may throw |
| `client_connection` | does the client keep one socket, retry exactly when it should, and settle every request? | 2 sockets, 1 request, 2 attempts; liveness |
| `client_sessions` | does its idea of its session agree with the server's, and does only a granted request succeed? | 1 socket, 2 requests, own and shared session, tokens kept or given |
| `python` | do `connect()`, retries, recovery, cancellation (again, too, while a cancelled attempt closes) and `disconnect()` keep one usable connection, and do requests keep their answers? | 1 session, 2 attempts, 2 requests; liveness |
| `tabs` | do tabs keep apart, show their own clients, and take with them what they opened? | 2 tabs, 2 clients, 2 sessions, 2 terminals |
| `server_ghost`, `client_error`, `python_gives_up`, `tabs_session` | see *Disagreements* | the smallest in which it happens |

Properties that need several steps of several actors to break:

- `ReapersExact`, `IndexInStep`: membership is changed by
  join, leave, disconnect, slow drop, close, timer and cleanup; the two maps,
  the marks and the timers have to agree after any sequence.
- `ImplementsLifecycle`: a temporal property, with `WF(Reap)` on the abstract
  side.
- `OnlyAdmittedMembers`: a frame queued before the policy answered is handled
  only if it answered yes, and before `close()`.
- `EndsOnce`: owner, timer, sweep, shutdown, a failed spawn and the process's own
  exit race to end a session, and the exit follows all the others.
- `PrivateSessionsStayPrivate`, `OwnersAreOpeners`: follow tokens from answer
  to answer and user to user.
- `GhostsClosedBeforeReady`: bounds the defect below: a closed connection is in
  a session only if its close event preceded its gate.
- `WaitersHaveALoader`: no failure, shutdown or late connection leaves somebody
  waiting for an import that is not under way.
- `ActiveSessionIsJoined`: whatever raced, once nothing is on the way the
  client's session is one its connection is in on the server.
- `SuccessIsGranted`: an uncorrelated error may settle a request before its own
  answer comes; that answer must not settle another one.
- `OneLiveSocket`, `LostConnectionsReturn`: between an attempt's error and its
  close event, `connect()` and the retry timer may both act.
- `TimerTakesOnlyOrphans`, `ClosingMembersLeave`, `OrphansGetReaped`,
  `ClosedServerEmpties`: an action property and three leads-to properties; the
  last says that even what runs after `close()` is gone in the end.
- `SeamlessOutput`: history and live output meet without gap or repetition; only
  a connection that was dropped misses the end, and only one whose own sends threw
  misses a piece.
- `KeepsRecentOutput`: the buffer implements `RecentOutput`.
- `AnnouncedIsUsable`, `UnannouncedHasAKeeper`, `ActiveSessionRejoined`: a
  Python connection is announced only with its session recovered, and until
  then some task is there to finish or close it, wherever it is cancelled.
- `NoConnectionReplaced`, `DisconnectIsFinal`, `ConnectReturns`: the loop,
  `connect()` and `disconnect()` share one connection and one lock.
- `AnswersGoToTheirRequests`: matching first in, first out is right as long as
  no request was given up and no error came unasked.
- `ComponentShowsActiveTab`, `TabShowsItsClient`: two copies of one state, and
  callbacks that know the tab in three different ways.

Every property of a passing run has a mutant (`Mut...`, defined beside the
definition it replaces) that a plausible bug would produce and that the run
finds.

**Bounds.** Two clients in a session, one outside and one more identifier than
sessions are what it takes for a session to be full, for a slot to be freed and
reused, and for a dropped client to be in two sessions. Two queued frames give a
spawn and a request about what it made. Identifiers are never reused in the
server, so two of them bound its length; the manager alone (which only requires
an identifier not to be in use) reuses them. `MaxSessionsTotal`,
`MaxClientsPerSession`, `MaxSessionsPerClient` and `MaxPreAuthMessages` are
options of the code, not artificial bounds; nothing else is bounded there. In
the client, `MaxReconnectAttempts` is an option; `Sockets`, `Requests` and
`MaxInFlight` bound what is in use at one time (sockets and identifiers are used
again when nothing refers to them, so they do not bound the length of a
behaviour), and `Calls` says which calls the application makes in a run. Two
sockets are a failed one that has yet to close and its successor; two requests
are one that was settled early and one that its late answer might hit; two
messages in flight are a write and a request behind it. A buffer of 3 with
pieces of up to 4 has chunks that fit, that must be cut and that are larger than
the buffer; 6 characters let it overflow twice. In the Python client one session
is enough to be recovered or lost, and two attempts are one that fails and one
that is left; its identifiers and messages are bounded as in the browser client.
Two tabs with a client, a terminal and a session each are one in view and one in
the background; a client whose tab has another one needs the second; a bound
(`Bound`) keeps what careless use leads to at one terminal at a time. Deadlock
is not checked where nobody has to do anything: those systems may stop. Symmetry
is used for safety runs only.

**Fairness.** `MgrSpec` assumes that a timer that stays armed fires.
`ServerSpec` assumes what the runtime guarantees: microtasks run (`Drain`), an
armed timer fires, a close begun by the server completes (`ws` terminates the
socket after its own timeout) and an import settles one way or the other.
Nothing is assumed of clients, processes, the authorization hook or shutdown.
`ClientSpec` assumes that the retry timer fires, an attempt opens or fails,
messages are delivered and handled while the socket lasts, and a close that one
side began reaches the other. Nothing is assumed of the application. `PySpec`
assumes that tasks go on, attempts and recoveries end (each has a timeout), the
socket of a cancelled attempt is closed (the WebSocket library's `close()` has a
timeout), and that whoever waits for `_connect_lock` gets it, which needs strong
fairness since the other may come between: `asyncio.Lock` serves its waiters in
order. Calls by the application, cancellation and the loss of a connection are
never assumed. `Tabs` and `SessionOutput` state no liveness.

## Disagreements between code and documentation

- `server_ghost` (terminal-server.ts:742). If a socket closes while its gate is
  pending, its queued requests still run when the gate opens; the close
  listener has come and gone, so a queued spawn leaves a session whose only
  member is gone, with no timer. README.md:596 and 609-610 promise that a
  session is kept while clients are connected or for `orphanTimeout`.
- `client_error` (terminal-client.ts:275). `write`, `resize`, `kill` and
  `leave` carry no `requestId`; the server's error for one of them is taken for
  the answer to the oldest pending request, whatever that is. The class comment
  (57-58) says that requests are correlated and independent.
- `python_gives_up` (client.py:1027). The reconnect loop has just made a
  connection, and it is lost before the loop's task goes on. The loss finds that
  task still running and schedules nothing; the task then finds its connection
  gone and ends the loop. The package's README (63, 78-80) promises recovery
  and a number of attempts.
- `tabs_session` (lit-shell-terminal.ts:1143). A tab opened while `spawn()` is
  awaited in another is given that session, active, without a client. README.md
  (193, 215) says tabs are independent and each has its own.

The models have other behaviours that some text excludes; no run is spent on
them. A spawn queued while the runtime loads is handled after `close()`
(terminal-server.ts:2185); `OnlyAdmittedMembers` says that only connections
admitted before it get that far, `ClosedServerEmpties` that what they open ends.
The idle sweep takes orphaned tmux sessions (session-manager.ts:656 says they
persist). Two `spawn()` calls before the first answer give two owned sessions
(terminal-client.ts:55). With a token the former session is offered whether or not
it still exists (README.md:389). An answer that comes after its request timed out
settles the next request of its kind (client.py:909-912). A tab forgets a session
that another tab shares and sees end (README.md:196), counts as connected after a
loss during recovery, and has its former client connect a second time if
`connect()` came while that one waited to retry (README.md:193).

## Proofs

All theorems hold for every value of the constants that the modules' named
assumptions allow (any finite sets of sessions and connections, any limits, any
tabs, requests or pieces of output), which the runs evaluate.

The properties of the manager are not inductive one by one. That a reaper is
exact after a rejoin depends on the orphan mark being right (the code clears
the timer only if the session is marked); that the mark is right depends on
membership; that a removal reaches every session depends on the index; that a
new session starts clean depends on an absent identifier having left nothing
behind. `MgrInv` is their conjunction, and that is inductive.

`SessionManagerProofs` first states the *effect* of each call field by field
(`DetachEffect`, `CloseEffect`, ...), proves that the operator has it (the
`...Fields` lemmas), and then that each call preserves `MgrInv` (the `...Inv`
lemmas), one step per conjunct. `FireIsClose` shows that under the invariant an
orphan timer's callback does exactly what `closeSession` does. `MgrStep`
collects the actions.

- `ManagerInvariant`, and from it `ManagerIndexInStep`, `ManagerReapersExact`,
  `ManagerLimitsKept`, `ManagerProcessesAccounted`, and the type invariant
  (`ManagerTypeCorrect`).
- `ManagerImplementsLifecycle`: `MgrSafe => Lifecycle!Safe`. The `...Seen`
  lemmas say what each call looks like through the refinement mapping; each
  action is then Open, Adopt, Abandon, End or a stutter.
- `ServerKeepsManagerInv`: every step of the server keeps `MgrInv`, because it
  composes calls that do. Besides the manager's lemmas it needs that a fresh
  identifier may be created, that a process that exits by itself is accounted
  for (`ExitInv`), and that queues hold requests. From it `ServerReapersExact`,
  `ServerProcessesAccounted` and, with `FireIsClose`,
  `ServerTimerTakesOnlyOrphans` (an action property).

`CircularBufferProofs`: the loop of `append` is correct because between its
iterations the chunks are contiguous, end where the output ends, are not empty,
and their lengths add up to `size` (`BufferInv`). The code's one bold step,
taking the first chunk without looking, needs that the buffer is never empty
there; slicing needs that the excess is smaller than the chunk. From
`BufferInvariant`: `BufferKeepsTail` (outside `append`, exactly the last
`MaxSize` characters) and `BufferImplementsRecentOutput`.

`ServerAccessProofs` proves the rest of the server's invariants; none is
inductive alone.

- `ServerPrivateSessions`, `ServerOwnersAreOpeners`: a session is entered with
  a token, so the invariant (`SharingInv`) follows the tokens: whoever knows one
  is the session's opener, a token is only known once the session was issued,
  and the tokens in queued requests are known to their senders. A request is
  queued long before it is served, which is why the queues are part of it.
- `ServerOnlyAdmittedMembers`, `ServerWaitersHaveALoader`,
  `ServerGhostsClosedBeforeReady`: `GateInv` says that a connection beyond
  authorization was admitted, and that what is queued by a connection that is
  gone came from one that closed early.
- `ServerSessionLimit`: the limit is the server's, the index the manager's; the
  proof joins the two. `Shrinks` (a drop only takes members away) and
  `RequestEffect` serve all. `ServerTypeCorrect` is the type invariant.
- `ServerEndsOnce` (an action property): a session that has ended is not in the
  manager's maps, and what is not there no call of `closeSession` finds; it comes
  back only by a fresh identifier.

`SessionOutputProofs`: `OutputUsesBuffer` shows that the session's handlers make
only the buffer's steps, so its theorems carry over. The screens are not
inductive as `SeamlessOutput` states them: while `onData` runs, the buffer has
the new piece and the members do not. `OutputInv` therefore says how far they
were told (`Told`). `LimitedIsEntitlement`, that the history sent is exactly
what a client is entitled to, rests on the buffer's invariant. From it
`OutputIsSeamless`.

`TerminalClientProofs`: `ClientOneLiveSocket` and `ClientNoRetryAfterDisconnect`
from `ConnectionInv` (state, socket, timer and attempts agree);
`ClientTokensStay` from `TokenInv` (wherever a token is, in the client or on the
way, its session is beside it); `ClientSuccessIsGranted` from `SuccessInv`: a
request number is used once, so that what is on the way for it, a question or an
answer, excludes the other.

`ClientSessionIsJoined` is about a moment when nothing is on the way, but nothing
can be said of that moment alone: `JoinedInv` says that for whatever session a
live connection is *not* in on the server, what is on the way to the client tells
it so after the last thing that makes it enter (`EndsToCome`). A leave that the
client sent, an end and an answer may cross as they like.
`ClientOffersAreAvailable`, an action property, rests on `OfferInv`: ends and
lists come over one socket in the order of what they report, so a list on the way
names no session whose end comes before it or is already known (`gone`).

`PythonClientProofs`: `ClientInvariant` is six invariants, each needing those
before it.

- `ConnectionInv`: the lock is held exactly where `pc` says, whoever dials finds
  no connection open, and an open connection that is not announced has a task at
  work on it. `AnnouncedConnectionIsUsable`, `UnannouncedConnectionIsKept`,
  `DisconnectStaysDisconnected` and `ConnectionsAreNotReplaced` come from it, the
  first with `RecoveryInv`.
- `PendingInv`: before the announcement only the recovering task may have a
  request pending, and it has one at most; after it, only the application. An
  answer to a recovery can therefore not be taken for an answer to a call.
- `SessionInv`: while a session is active and not to be recovered, the connection
  is in it on the server or its end is on the way (`InOrTold`); the same holds of
  the session in each answer still to come, counted from that answer on. From it
  `ActiveSessionIsRejoined`.
- `AnswersInv`: as long as order is kept, the requests that wait are those the
  server has not handled or whose answers are on the way, in the same order.
  From it `AnswersAreNotMixedUp`.

`TabsProofs`: `TabsStayApart` needs, besides `TabsKeepApart` itself, that no tab
is twice in the list (so that closing one takes it out) and that the terminals
of the tabs are not disposed (so that a new one is nobody's). It assumes nothing
about how the component is used. The other three hold short of `disturbed`, and
hold together (`Settled`): a client is held by the tab it was made for
(`ClientsPlaced`), so that handlers which know their tab by closure and handlers
which look it up agree; a client is in a session only where a tab can answer for
it (`SessionsPlaced`); and a call that is awaited belongs to the tab in view
(`CallPlaced`), so that its answer is written where it was asked. From these
`ComponentIsItsTab`, `TabsShowTheirClients` and `ClosedTabsLeaveNothing`.

Only model-checked is liveness, which is out of the prover's reach:
`ImplementsLifecycle`'s fairness part (its safety part is proved),
`ClosingMembersLeave`, `OrphansGetReaped`, `ClosedServerEmpties`,
`RequestsSettle`, `LostConnectionsReturn` and `ConnectReturns`.

## Plan

In this order; each with its instance, mutants and, where marked, proofs.

1. `ContainerList`: the coalesced, cached `docker ps` (2059-2092).
2. `TmuxNames`: default tmux session names (1390) and which sessions then share
   a tmux session.
3. Several clients against an abstraction of `TerminalServer` instead of one
   against its answers; there, a reconnecting owner and its own half-open
   connection (session-manager.ts:384).

## Not modelled

Rendering and styling, xterm, the demo's simulated socket, build and packaging
scripts, docker files: they keep no state of the system's own. Of the web
component: its removal from the page, the reconnect dialog (no code opens it),
the container and session lists, the number of clients. Of the server: the
container list and the names of tmux sessions (see the plan), the validation of
options and the policies on shells, directories and containers.
