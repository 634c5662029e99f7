--------------------------- MODULE SessionOutput ---------------------------
(* What the connections in one session are shown: the history when they     *)
(* join, then the output as it comes.  onData appends to the history buffer *)
(* and then broadcasts; the iterations of the buffer's loop lie between the *)
(* two, in the same turn, during which nobody joins or leaves (Between).    *)
EXTENDS CircularBuffer

CONSTANTS ClientId,
          SlowClients,    \* connections whose output may back up
          Failing         \* connections on which ws.send may throw

ASSUME OutputAssumption ==
  SlowClients \subseteq ClientId /\ Failing \subseteq ClientId

VARIABLES live,           \* the session exists
          historyEnabled, \* the session's option, fixed when it is spawned
          data,           \* the process's last piece of output
          handling,       \* onData has not returned
          clients,        \* members of the session
          closing,        \* connections whose socket the server closes
          \* What the clients know; the server never reads it.
          screen,         \* the pieces of output each was sent since it joined
          entitled        \* where in the stream these should begin

outputVars == <<bufferVars, live, historyEnabled, data, handling, clients, closing,
                screen, entitled>>

Emitted == data.to        \* characters the process has written

\* A piece that continues the last one extends it; an empty one shows nothing.
Show(pieces, piece) ==
  IF piece.from = piece.to THEN pieces
  ELSE IF pieces # <<>> /\ pieces[Len(pieces)].to = piece.from
         THEN [pieces EXCEPT ![Len(pieces)].to = piece.to]
         ELSE Append(pieces, piece)

\* The session begins with the client that spawned it.
OutputInit ==
  /\ BufferInit
  /\ live = TRUE
  /\ historyEnabled \in BOOLEAN
  /\ data = [from |-> 0, to |-> 0]
  /\ handling = FALSE
  /\ \E opener \in ClientId : clients = {opener}
  /\ closing = {}
  /\ screen = [c \in ClientId |-> <<>>]
  /\ entitled = [c \in ClientId |-> 0]

Between == ~handling

\* onData: activity, then appendHistory.  What a process writes once its session
\* is gone finds none.
PtyData(n) ==
  /\ Between /\ live
  /\ Emitted + n <= MaxWritten
  /\ data' = [from |-> Emitted, to |-> Emitted + n]
  /\ handling' = TRUE
  /\ IF historyEnabled THEN AppendChunk(n) ELSE UNCHANGED bufferVars
  /\ UNCHANGED <<live, historyEnabled, clients, closing, screen, entitled>>

TrimHistory ==
  /\ Trim
  /\ UNCHANGED <<live, historyEnabled, data, handling, clients, closing, screen,
                 entitled>>

\* Only open sockets are written to; one over its limit is not written to
\* either, and its client is removed and its socket closed.
Slow(recipients) == SUBSET ((recipients \cap SlowClients) \ closing)
Drop(slow, members) ==
  clients' = members \ slow /\ closing' = closing \cup slow

\* onData, second half: broadcastToSession.  A send that throws loses the piece
\* for its client, which stays a member, and for nobody else.
BroadcastToSession ==
  /\ handling /\ ~Appending
  /\ handling' = FALSE
  /\ \E slow \in Slow(clients), thrown \in SUBSET Failing :
       /\ screen' = [c \in ClientId |->
                       IF c \in clients \ (slow \cup closing \cup thrown)
                         THEN Show(screen[c], data) ELSE screen[c]]
       /\ Drop(slow, clients)
  /\ UNCHANGED <<bufferVars, live, historyEnabled, data, entitled>>

\* What a client that asks for `limit` characters of history is entitled to
\* see: the latest of the last MaxSize since the history was cleared.
Entitlement(limit) ==
  CHOOSE from \in 0..Emitted :
    /\ Emitted - from <= limit /\ Emitted - from <= MaxSize
    /\ from >= cleared
    /\ \/ Emitted - from \in {limit, MaxSize}
       \/ from = cleared

\* handleJoinSession: enter, take the history, answer with it, tell the others.
\* A member may join again; a client whose socket is closing is not answered.
HandleJoin(c, requestHistory, limit) ==
  /\ Between /\ live
  /\ LET asked == requestHistory /\ historyEnabled
         history == IF asked THEN Limited(limit)
                             ELSE [from |-> Emitted, to |-> Emitted]
     IN \E slow \in Slow(clients \cup {c}) :
          /\ Drop(slow, clients \cup {c})
          /\ IF c \in slow \cup closing
               THEN UNCHANGED <<screen, entitled>>
               ELSE /\ screen' = [screen EXCEPT ![c] = Show(<<>>, history)]
                    /\ entitled' = [entitled EXCEPT ![c] =
                                      IF asked THEN Entitlement(limit)
                                               ELSE Emitted]
  /\ UNCHANGED <<bufferVars, live, historyEnabled, data, handling>>

HandleLeave(c) ==
  /\ Between
  /\ c \in clients
  /\ \E slow \in Slow(clients) : Drop(slow, clients \ {c})
  /\ UNCHANGED <<bufferVars, live, historyEnabled, data, handling, screen,
                 entitled>>

\* handleClientDisconnect; the name is then used for another connection.
Disconnect(c) ==
  /\ Between
  /\ c \in clients \cup closing
  /\ clients' = clients \ {c} /\ closing' = closing \ {c}
  /\ screen' = [screen EXCEPT ![c] = <<>>]
  /\ entitled' = [entitled EXCEPT ![c] = Emitted]
  /\ UNCHANGED <<bufferVars, live, historyEnabled, data, handling>>

\* clearHistory, which the manager offers to the program that embeds it.
ClearHistory ==
  /\ Between /\ live
  /\ historyEnabled
  /\ Clear
  /\ UNCHANGED <<live, historyEnabled, data, handling, clients, closing, screen,
                 entitled>>

\* The session is closed, after its members were told why (the process exited,
\* the owner closed it, it was idle or orphaned, the server shuts down): in the
\* turn of another event than output, so never between its two halves.
EndSession ==
  /\ Between /\ live
  /\ live' = FALSE
  /\ clients' = {}
  /\ \E slow \in Slow(clients) : closing' = closing \cup slow
  /\ UNCHANGED <<bufferVars, historyEnabled, data, handling, screen, entitled>>

OutputNext ==
  \/ \E n \in 1..MaxChunk : PtyData(n)
  \/ TrimHistory
  \/ BroadcastToSession
  \/ \E c \in ClientId :
       \/ \E requestHistory \in BOOLEAN, limit \in 0..MaxSize :
            HandleJoin(c, requestHistory, limit)
       \/ HandleLeave(c)
       \/ Disconnect(c)
  \/ ClearHistory
  \/ EndSession

OutputSpec == OutputInit /\ [][OutputNext]_outputVars

-----------------------------------------------------------------------------
(* Properties. *)

\* Between turns, what a member has been shown since it joined is one piece
\* of the stream, from where it is entitled to begin up to the latest output:
\* nothing lost or doubled where history and live output meet, however often
\* it left, was dropped or joined again, and whatever the buffer trimmed.  What
\* it was shown before it left or was dropped has no gap either: it is the drop,
\* never a missing piece, that ends it, and so does the session's end.  A client
\* whose sends throw loses pieces; the others lose nothing by it.
SeamlessOutput ==
  /\ Between => \A c \in clients \ (closing \cup Failing) :
       screen[c] = Show(<<>>, [from |-> entitled[c], to |-> Emitted])
  /\ \A c \in ClientId \ Failing : Len(screen[c]) <= 1

=============================================================================
