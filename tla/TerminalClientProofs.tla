------------------------ MODULE TerminalClientProofs ------------------------
(* What holds of the client for any number of sockets, requests, sessions   *)
(* and messages on the way: it has one connection at a time, a retry never  *)
(* survives disconnect(), tokens go only with a join of their own session,  *)
(* a request succeeds only if it was granted, the active session is one its *)
(* connection is in once nothing is on the way, and a former session is     *)
(* offered from a list only if the client was not told that it has ended.   *)
EXTENDS TerminalClient, TLAPS

-----------------------------------------------------------------------------
(* The connection.                                                          *)

WireStates ==
  {"connecting", "aborting", "open", "closing", "failed", "closed"}

\* A socket that is not done belongs to the client, and the client's state and
\* its connect() promise say so: that is why connect() can tell from them alone
\* that it must not dial again.
ConnectionInv ==
  /\ wire \in [Socket -> WireStates]
  /\ ws \in Socket \cup {None}
  /\ timer \in BOOLEAN
  /\ \A k \in Socket :
       wire[k] \in {"connecting", "aborting"}
         => k = ws /\ promise /\ state = "connecting"
  /\ \A k \in Socket :
       wire[k] \in {"open", "closing"} => k = ws /\ state = "connected"
  /\ manual => ~timer

LEMMA DialStep ==
  ASSUME ConnectionInv, ~Connecting, NEW k \in Socket, Dial(k),
         timer' \in BOOLEAN
  PROVE  ConnectionInv'
<1>1. \A j \in Socket : wire[j] \in {"failed", "closed"}
  BY DEF ConnectionInv, Connecting, WireStates
<1>2. \A j \in Socket : j # k => wire'[j] = wire[j]
  BY DEF Dial, ConnectionInv
<1> QED BY <1>1, <1>2 DEF Dial, ConnectionInv, WireStates

LEMMA ConnectionStep == ConnectionInv /\ [ClientNext]_vars => ConnectionInv'
<1> SUFFICES ASSUME ConnectionInv, [ClientNext]_vars
             PROVE  ConnectionInv'
  OBVIOUS
<1>0. ASSUME UNCHANGED <<connection, wire>>
      PROVE  ConnectionInv'
  BY <1>0 DEF connection, ConnectionInv
<1>1. ASSUME NEW k \in Socket, ConnectCalled(k)
      PROVE  ConnectionInv'
  BY <1>1, DialStep DEF ConnectCalled, ConnectionInv
<1>2. CASE ReconnectTimerFires
  <2>1. timer' = FALSE
    BY <1>2 DEF ReconnectTimerFires
  <2>2. CASE Connecting
    BY <1>2, <2>1, <2>2 DEF ReconnectTimerFires, ConnectionInv
  <2>3. CASE ~Connecting
    BY <1>2, <2>1, <2>3, DialStep DEF ReconnectTimerFires
  <2> QED BY <2>2, <2>3
<1>3. CASE DisconnectCalled
  <2>1. /\ timer' = FALSE
        /\ UNCHANGED <<ws, state, promise>>
        /\ \A j \in Socket :
             \/ wire'[j] = wire[j]
             \/ wire[j] = "connecting" /\ wire'[j] = "aborting"
             \/ wire[j] = "open" /\ wire'[j] = "closing"
        /\ wire' \in [Socket -> WireStates]
    BY <1>3 DEF DisconnectCalled, ConnectionInv, WireStates
  <2> QED BY <2>1 DEF ConnectionInv
<1>4. ASSUME NEW k \in Socket, SocketOpens(k)
      PROVE  ConnectionInv'
  <2>1. ws = k /\ wire' = [wire EXCEPT ![k] = "open"] /\ state' = "connected"
        /\ UNCHANGED <<ws, manual, timer>>
    BY <1>4 DEF SocketOpens, ConnectionInv
  <2> QED BY <2>1 DEF ConnectionInv, WireStates
<1>5. ASSUME NEW k \in Socket, SocketFails(k)
      PROVE  ConnectionInv'
  <2>1. ws = k /\ wire' = [wire EXCEPT ![k] = "failed"]
        /\ UNCHANGED <<ws, manual, timer>>
    BY <1>5 DEF SocketFails, ConnectionInv
  <2> QED BY <2>1 DEF ConnectionInv, WireStates
<1>6. ASSUME NEW k \in Socket, SocketCloses(k)
      PROVE  ConnectionInv'
  <2>1. wire' = [wire EXCEPT ![k] = "closed"]
    BY <1>6 DEF SocketCloses, Closes
  <2>2. CASE ws # k
    BY <1>6, <2>1, <2>2
       DEF SocketCloses, connection, ConnectionInv, WireStates
  <2>3. CASE ws = k
    <3>1. /\ timer' = (timer \/ ShouldReconnect)
          /\ manual' = manual /\ ws' = None
      BY <1>6, <2>3 DEF SocketCloses
    <3> QED BY <2>1, <2>3, <3>1 DEF ConnectionInv, WireStates, ShouldReconnect
  <2> QED BY <2>2, <2>3
<1>7. ASSUME NEW k \in Socket,
             HandleMessage(k) \/ ServerHandles(k) \/ ServerLosesSocket(k)
      PROVE  ConnectionInv'
  BY <1>0, <1>7 DEF HandleMessage, ServerHandles, ServerLosesSocket
<1>8. ASSUME NEW s \in SessionId,
             JoinCalled(s) \/ LeaveCalled(s) \/ SessionEnds(s)
      PROVE  ConnectionInv'
  BY <1>0, <1>8 DEF JoinCalled, Request, LeaveCalled, Notify, SessionEnds
<1>9. CASE SpawnCalled \/ ListSessionsCalled \/ KillCalled \/ WriteCalled
  BY <1>0, <1>9 DEF SpawnCalled, ListSessionsCalled, KillCalled, WriteCalled,
                    Request, SendForActiveSession, Notify
<1>10. CASE ClearPreviousSessionId
  BY <1>0, <1>10 DEF ClearPreviousSessionId
<1>11. CASE UNCHANGED vars
  BY <1>0, <1>11 DEF vars
<1> QED BY <1>1, <1>2, <1>3, <1>4, <1>5, <1>6, <1>7, <1>8, <1>9, <1>10, <1>11
        DEF ClientNext

LEMMA ConnectionInit == ClientInit => ConnectionInv
BY DEF ClientInit, ConnectionInv, WireStates

LEMMA ConnectionAlways == ClientSafe => []ConnectionInv
BY ConnectionInit, ConnectionStep, PTL DEF ClientSafe

\* The client never holds two connections, however connect() calls, retries,
\* errors and late close events mix.
THEOREM ClientOneLiveSocket == ClientSafe => []OneLiveSocket
<1>1. ConnectionInv => OneLiveSocket
  BY DEF ConnectionInv, OneLiveSocket
<1> QED BY <1>1, ConnectionAlways, PTL

\* Once disconnect() is called no timer is left to bring the connection back.
THEOREM ClientNoRetryAfterDisconnect == ClientSafe => []NoRetryAfterDisconnect
<1>1. ConnectionInv => NoRetryAfterDisconnect
  BY DEF ConnectionInv, NoRetryAfterDisconnect
<1> QED BY <1>1, ConnectionAlways, PTL

-----------------------------------------------------------------------------
(* Messages: a token in a message is of the session the message names, and  *)
(* exactly the requests that are answered one by one carry an identifier.   *)

Correlated == {"spawn", "join", "list", "check"}
Granting == {"spawned", "joined", "sessionList"}

UpMsg ==
  {m \in [type : Correlated \cup {"leave", "close", "data"}, session : Tokens,
          token : Tokens, id : Nat] :
     /\ m.token \in {NoSession, m.session}
     /\ IF m.type \in Correlated THEN m.id \in RequestId ELSE m.id = None}

DownMsg ==
  {m \in [type : Granting \cup {"error", "left", "exit", "sessionClosed"},
          session : Tokens, token : Tokens, id : Nat,
          joinable : SUBSET SessionId] :
     /\ m.token \in {NoSession, m.session}
     /\ m.type \in Granting => m.id \in RequestId
     /\ m.id # None => m.id \in RequestId}

MessagesOK ==
  /\ up \in [Socket -> Seq(UpMsg)]
  /\ down \in [Socket -> Seq(DownMsg)]

\* The tokens the client keeps are of the session they are kept with.
TokensKept ==
  /\ session \in Tokens /\ previous \in Tokens
  /\ token \in {NoSession, session}
  /\ previous # NoSession => previousToken \in {NoSession, previous}
  /\ previousToken \in Tokens
  /\ live \subseteq SessionId /\ used \subseteq SessionId

TokenInv == MessagesOK /\ TokensKept

LEMMA AskIsUpMsg ==
  ASSUME NEW type \in Correlated, NEW s \in Tokens, NEW t \in {NoSession, s},
         NEW i \in RequestId
  PROVE  Ask(type, s, t, i) \in UpMsg
BY ClientAssumption DEF Ask, UpMsg, RequestId, Tokens

LEMMA NotifyIsUpMsg ==
  ASSUME NEW type \in {"leave", "close", "data"}, NEW s \in Tokens
  PROVE  Ask(type, s, NoSession, None) \in UpMsg
BY ClientAssumption DEF Ask, UpMsg, Tokens, None, Correlated

LEMMA TellIsDownMsg ==
  ASSUME NEW type \in Granting \cup {"error", "left", "exit", "sessionClosed"},
         NEW s \in Tokens, NEW t \in {NoSession, s}, NEW i \in RequestId \cup {None},
         type \in Granting => i # None
  PROVE  Tell(type, s, t, i) \in DownMsg
BY ClientAssumption DEF Tell, DownMsg, RequestId, Tokens, None, Granting

LEMMA SendKeepsUp ==
  ASSUME up \in [Socket -> Seq(UpMsg)], NEW k, NEW m \in UpMsg, Send(k, m)
  PROVE  up' \in [Socket -> Seq(UpMsg)]
<1>1. ASSUME k \in Socket
      PROVE  Append(up[k], m) \in Seq(UpMsg)
  BY <1>1
<1> QED BY <1>1 DEF Send

LEMMA SentKeepsDown ==
  ASSUME down \in [Socket -> Seq(DownMsg)], NEW K, NEW ms \in Seq(DownMsg),
         down' = Sent(K, ms)
  PROVE  down' \in [Socket -> Seq(DownMsg)]
<1>1. \A k \in Socket : down[k] \o ms \in Seq(DownMsg)
  OBVIOUS
<1> QED BY <1>1 DEF Sent

\* What the server makes of one request, whatever it answers.
LEMMA ServerMessages ==
  ASSUME TokenInv, NEW k \in Socket, ServerHandles(k)
  PROVE  TokenInv'
<1> DEFINE m == Head(up[k])
<1>0. /\ up[k] \in Seq(UpMsg) /\ up[k] # <<>>
      /\ up' = [up EXCEPT ![k] = Tail(up[k])]
      /\ UNCHANGED <<activity, pending, outcome>>
      /\ \/ GrantSpawn(k, m) \/ GrantJoin(k, m) \/ GrantList(k, m)
         \/ GrantLeave(k, m) \/ GrantClose(k, m) \/ TakeData(k, m)
         \/ Refuse(k, m)
  BY DEF ServerHandles, TokenInv, MessagesOK
<1>1. m \in UpMsg /\ Tail(up[k]) \in Seq(UpMsg)
  BY <1>0
<1>2. up' \in [Socket -> Seq(UpMsg)]
  BY <1>0, <1>1 DEF TokenInv, MessagesOK
<1> HIDE DEF m
<1>d. down \in [Socket -> Seq(DownMsg)]
  BY DEF TokenInv, MessagesOK
<1>m. /\ m.session \in Tokens /\ m.token \in {NoSession, m.session}
      /\ m.id \in RequestId \cup {None}
      /\ m.type \in Correlated => m.id \in RequestId
      /\ None \notin RequestId
      /\ NoSession \in Tokens
  BY <1>1 DEF UpMsg, RequestId, None, Tokens
<1>a. ASSUME NEW K, NEW x \in DownMsg, down' = Sent(K, <<x>>)
      PROVE  down' \in [Socket -> Seq(DownMsg)]
  <2>1. <<x>> \in Seq(DownMsg)
    OBVIOUS
  <2> QED BY <1>a, <1>d, <2>1, SentKeepsDown
<1>3. /\ down' \in [Socket -> Seq(DownMsg)]
      /\ live' \subseteq SessionId /\ used' \subseteq SessionId
  <2>u. live \subseteq SessionId /\ used \subseteq SessionId
    BY DEF TokenInv, TokensKept
  <2>1. CASE GrantSpawn(k, m)
    <3>1. PICK s \in SessionId \ used :
            /\ live' = live \cup {s} /\ used' = used \cup {s}
            /\ down' = Sent({k}, <<Tell("spawned", s, s, m.id)>>)
      BY <2>1 DEF GrantSpawn
    <3>2. Tell("spawned", s, s, m.id) \in DownMsg
      BY <1>m, <2>1, TellIsDownMsg DEF GrantSpawn, Correlated, Granting, Tokens
    <3> QED BY <1>a, <2>u, <3>1, <3>2
  <2>2. CASE GrantJoin(k, m)
    <3> DEFINE t == IF m.token = m.session THEN m.token ELSE NoSession
    <3>1. /\ down' = Sent({k}, <<Tell("joined", m.session, t, m.id)>>)
          /\ UNCHANGED <<live, used>>
      BY <2>2 DEF GrantJoin
    <3>2. Tell("joined", m.session, t, m.id) \in DownMsg
      BY <1>m, <2>2, TellIsDownMsg DEF GrantJoin, Correlated, Granting
    <3> QED BY <1>a, <2>u, <3>1, <3>2
  <2>3. CASE GrantList(k, m)
    <3> DEFINE x == Tell("sessionList", NoSession, NoSession, m.id)
               y == [x EXCEPT !.joinable = live \cap Shared]
    <3>1. /\ down' = Sent({k}, <<y>>)
          /\ UNCHANGED <<live, used>>
      BY <2>3 DEF GrantList
    <3>2. y \in DownMsg
      <4>1. x \in DownMsg
        BY <1>m, <2>3, TellIsDownMsg DEF GrantList, Correlated, Granting
      <4> HIDE DEF x
      <4> QED BY <2>u, <4>1 DEF DownMsg
    <3> QED BY <1>a, <2>u, <3>1, <3>2
  <2>4. CASE GrantLeave(k, m)
    <3>1. Tell("left", m.session, NoSession, m.id) \in DownMsg
      BY <1>m, TellIsDownMsg DEF Granting
    <3> QED BY <1>a, <2>4, <2>u, <3>1 DEF GrantLeave
  <2>5. CASE GrantClose(k, m)
    <3>1. Tell("sessionClosed", m.session, NoSession, None) \in DownMsg
      BY <1>m, TellIsDownMsg DEF Granting
    <3> QED BY <1>a, <2>5, <2>u, <3>1 DEF GrantClose, EndSession
  <2>6. CASE TakeData(k, m)
    BY <1>d, <2>6, <2>u DEF TakeData
  <2>7. CASE Refuse(k, m)
    <3>1. Tell("error", m.session, NoSession, m.id) \in DownMsg
      BY <1>m, TellIsDownMsg DEF Granting
    <3> QED BY <1>a, <2>7, <2>u, <3>1 DEF Refuse
  <2> QED BY <1>0, <2>1, <2>2, <2>3, <2>4, <2>5, <2>6, <2>7 DEF m
<1> QED BY <1>0, <1>2, <1>3 DEF TokenInv, MessagesOK, TokensKept, activity

\* What the client makes of one message.
LEMMA MessageTokens ==
  ASSUME TokenInv, NEW k \in Socket, HandleMessage(k)
  PROVE  TokenInv'
<1> DEFINE msg == Head(down[k])
<1>0. /\ down[k] \in Seq(DownMsg) /\ down[k] # <<>>
      /\ down' = [down EXCEPT ![k] = Tail(down[k])]
      /\ UNCHANGED <<up, live, used>>
      /\ HandleEntered(msg) \/ HandleAnswer(msg) \/ HandleEnded(msg)
  BY DEF HandleMessage, TokenInv, MessagesOK, server
<1>1. msg \in DownMsg /\ Tail(down[k]) \in Seq(DownMsg)
  BY <1>0
<1>2. MessagesOK'
  BY <1>0, <1>1 DEF TokenInv, MessagesOK
<1> HIDE DEF msg
<1>m. msg.session \in Tokens /\ msg.token \in {NoSession, msg.session}
  BY <1>1 DEF DownMsg
<1>3. session' \in Tokens /\ token' \in {NoSession, session'}
  BY <1>0, <1>m DEF HandleEntered, HandleAnswer, HandleEnded, Forget, TokenInv,
                    TokensKept, Tokens, msg
<1>4. /\ previous' \in Tokens /\ previousToken' \in Tokens
      /\ previous' # NoSession => previousToken' \in {NoSession, previous'}
  <2>1. CASE ResolvePending(msg)
    <3>1. \/ previous' = NoSession /\ previousToken' = NoSession
          \/ previous' \in {NoSession, previous} /\ previousToken' = previousToken
      BY <2>1 DEF ResolvePending
    <3> QED BY <3>1 DEF TokenInv, TokensKept, Tokens
  <2>2. CASE UNCHANGED <<previous, previousToken>>
    BY <2>2 DEF TokenInv, TokensKept
  <2> QED BY <1>0, <2>1, <2>2 DEF HandleEntered, HandleAnswer, HandleEnded, msg
<1> QED BY <1>0, <1>2, <1>3, <1>4 DEF TokenInv, TokensKept

LEMMA TokenStep == TokenInv /\ [ClientNext]_vars => TokenInv'
<1> SUFFICES ASSUME TokenInv, [ClientNext]_vars
             PROVE  TokenInv'
  OBVIOUS
<1> USE DEF TokenInv, TokensKept, MessagesOK
<1>n. NoSession \in Tokens /\ SessionId \subseteq Tokens
  BY DEF Tokens
<1>e. <<>> \in Seq(UpMsg) /\ <<>> \in Seq(DownMsg)
  OBVIOUS
<1>0. ASSUME UNCHANGED <<activity, live, used, up, down>>
      PROVE  TokenInv'
  BY <1>0 DEF activity
<1>1. ASSUME NEW k \in Socket, ConnectCalled(k)
      PROVE  TokenInv'
  BY <1>0, <1>1 DEF ConnectCalled, server
<1>2. CASE ReconnectTimerFires \/ DisconnectCalled
  BY <1>0, <1>2 DEF ReconnectTimerFires, DisconnectCalled, server
<1>3. ASSUME NEW k \in Socket, SocketOpens(k)
      PROVE  TokenInv'
  <2>1. UNCHANGED <<activity, down, live, used>>
    BY <1>3 DEF SocketOpens
  <2>2. \/ up' = up
        \/ \E i \in FreeIds : up' = [up EXCEPT ![k] =
             Append(up[k], Ask("check", NoSession, NoSession, i))]
    BY <1>3 DEF SocketOpens, requests
  <2>3. up' \in [Socket -> Seq(UpMsg)]
    <3>1. ASSUME NEW i \in FreeIds, up' = [up EXCEPT ![k] =
                   Append(up[k], Ask("check", NoSession, NoSession, i))]
          PROVE  up' \in [Socket -> Seq(UpMsg)]
      <4>1. Ask("check", NoSession, NoSession, i) \in UpMsg
        BY <1>n, AskIsUpMsg DEF Correlated, FreeIds
      <4>2. Append(up[k], Ask("check", NoSession, NoSession, i)) \in Seq(UpMsg)
        BY <4>1
      <4> QED BY <3>1, <4>2
    <3> QED BY <2>2, <3>1
  <2> QED BY <2>1, <2>3 DEF activity
<1>4. ASSUME NEW k \in Socket, SocketFails(k)
      PROVE  TokenInv'
  BY <1>0, <1>4 DEF SocketFails, server
<1>5. ASSUME NEW k \in Socket, SocketCloses(k)
      PROVE  TokenInv'
  <2>1. down' \in [Socket -> Seq(DownMsg)] /\ UNCHANGED <<up, live, used>>
    BY <1>5, <1>e DEF SocketCloses, Closes, server
  <2>2. CASE ws # k
    BY <1>5, <2>1, <2>2 DEF SocketCloses, activity
  <2>3. CASE ws = k
    <3>1. /\ session' = NoSession /\ token' = NoSession
          /\ previous' \in {NoSession, IF session # NoSession THEN session
                                                              ELSE previous}
          /\ previousToken' = IF session # NoSession THEN token
                                                     ELSE previousToken
      BY <1>5, <2>3 DEF SocketCloses, Forget
    <3> QED BY <1>n, <2>1, <3>1
  <2> QED BY <2>2, <2>3
<1>6. ASSUME NEW type \in Correlated, NEW t \in Tokens,
             NEW u \in {NoSession, t}, Request(type, t, u)
      PROVE  TokenInv'
  <2>1. PICK i \in FreeIds : Send(ws, Ask(type, t, u, i))
    BY <1>6 DEF Request
  <2>2. Ask(type, t, u, i) \in UpMsg
    BY AskIsUpMsg DEF FreeIds
  <2>3. up' \in [Socket -> Seq(UpMsg)]
    BY <2>1, <2>2, SendKeepsUp
  <2> QED BY <1>6, <2>3 DEF Request, activity, server
<1>7. ASSUME NEW type \in {"leave", "close", "data"}, NEW t \in Tokens,
             Notify(type, t)
      PROVE  TokenInv'
  <2>1. up' \in [Socket -> Seq(UpMsg)]
    BY <1>7, NotifyIsUpMsg, SendKeepsUp DEF Notify
  <2> QED BY <1>7, <2>1 DEF Notify, activity, server
<1>8. CASE SpawnCalled \/ ListSessionsCalled
  BY <1>6, <1>8, <1>n DEF SpawnCalled, ListSessionsCalled, Correlated
<1>9. ASSUME NEW s \in SessionId, JoinCalled(s)
      PROVE  TokenInv'
  <2>1. PICK t : /\ Request("join", s, t)
                 /\ \/ t = IF s = previous THEN previousToken ELSE NoSession
                    \/ t = s
    BY <1>9 DEF JoinCalled, GivenToken
  <2>2. t \in {NoSession, s}
    BY <2>1, ClientAssumption
  <2>3. s \in Tokens
    BY <1>n
  <2> QED BY <1>6, <2>1, <2>2, <2>3 DEF Correlated
<1>10. ASSUME NEW s \in SessionId, LeaveCalled(s)
       PROVE  TokenInv'
  BY <1>7, <1>10, <1>n DEF LeaveCalled
<1>11. CASE KillCalled \/ WriteCalled
  BY <1>7, <1>11 DEF KillCalled, WriteCalled, SendForActiveSession
<1>12. CASE ClearPreviousSessionId
  BY <1>12, <1>n DEF ClearPreviousSessionId, server
<1>13. ASSUME NEW k \in Socket, HandleMessage(k) \/ ServerHandles(k)
       PROVE  TokenInv'
  BY <1>13, MessageTokens, ServerMessages
<1>14. ASSUME NEW k \in Socket, ServerLosesSocket(k)
       PROVE  TokenInv'
  BY <1>14, <1>e DEF ServerLosesSocket, activity
<1>15. ASSUME NEW s \in SessionId, SessionEnds(s)
       PROVE  TokenInv'
  <2> DEFINE ms == <<Tell("exit", s, NoSession, None),
                     Tell("sessionClosed", s, NoSession, None)>>
  <2>1. ms \in Seq(DownMsg)
    <3>1. /\ Tell("exit", s, NoSession, None) \in DownMsg
          /\ Tell("sessionClosed", s, NoSession, None) \in DownMsg
      BY <1>n, TellIsDownMsg DEF Granting
    <3> QED BY <3>1
  <2>2. down' = Sent(Members(s), ms)
    BY <1>15 DEF SessionEnds
  <2> HIDE DEF ms
  <2>3. down' \in [Socket -> Seq(DownMsg)]
    BY <2>1, <2>2, SentKeepsDown
  <2> QED BY <1>15, <2>3 DEF SessionEnds, EndSession, activity
<1>16. CASE UNCHANGED vars
  BY <1>0, <1>16 DEF vars, server
<1> QED BY <1>1, <1>2, <1>3, <1>4, <1>5, <1>8, <1>9, <1>10, <1>11, <1>12,
           <1>13, <1>14, <1>15, <1>16 DEF ClientNext

LEMMA TokenInit == ClientInit => TokenInv
BY ClientAssumption
   DEF ClientInit, TokenInv, MessagesOK, TokensKept, Tokens

LEMMA TokenAlways == ClientSafe => []TokenInv
BY TokenInit, TokenStep, PTL DEF ClientSafe

\* A session's token is only ever sent with a request to join that session,
\* whatever sessions the client was in and lost before.
THEOREM ClientTokensStay == ClientSafe => []TokensStayWithTheirSession
<1>1. TokenInv => TokensStayWithTheirSession
  <2> SUFFICES ASSUME TokenInv, NEW k \in Socket, NEW n \in DOMAIN up[k]
               PROVE  up[k][n].token \in {NoSession, up[k][n].session}
    BY DEF TokensStayWithTheirSession
  <2>1. up[k][n] \in UpMsg
    BY DEF TokenInv, MessagesOK
  <2> QED BY <2>1 DEF UpMsg
<1> QED BY <1>1, TokenAlways, PTL
-----------------------------------------------------------------------------
(* Requests and answers.                                                    *)

\* Two requests on the way never have the same identifier.
AskedOnce ==
  \A k, l \in Socket : \A n \in DOMAIN up[k], o \in DOMAIN up[l] :
    up[k][n].id # None /\ up[k][n].id = up[l][o].id => k = l /\ n = o

\* A request on the way is not answered yet, and so has not succeeded.
NotAnsweredYet ==
  \A k \in Socket : \A n \in DOMAIN up[k] : up[k][n].id # None =>
    /\ outcome[up[k][n].id] # "ok"
    /\ \A l \in Socket : \A o \in DOMAIN down[l] :
         down[l][o].id # up[k][n].id

\* A granting answer on the way is what the server did with that request.
AnswersTrue ==
  \A l \in Socket : \A o \in DOMAIN down[l] :
    down[l][o].type \in Granting => answered[down[l][o].id] = "ok"

\* Why success means granted: an identifier is not used again while a request or
\* an answer carries it.
SuccessInv ==
  /\ outcome \in [RequestId -> {"none", "pending", "ok", "error", "closed"}]
  /\ answered \in [RequestId -> {"none", "ok", "error"}]
  /\ AskedOnce
  /\ NotAnsweredYet
  /\ AnswersTrue
  /\ SuccessIsGranted

\* Steps that neither ask for nor answer anything.
LEMMA NothingAsked ==
  ASSUME MessagesOK, MessagesOK', SuccessInv, UNCHANGED answered,
         outcome' \in [RequestId -> {"none", "pending", "ok", "error", "closed"}],
         \A i \in RequestId : outcome'[i] = "ok" => outcome[i] = "ok",
         \A k \in Socket : \/ up'[k] = up[k]
                           \/ up'[k] = <<>>
                           \/ \E m \in UpMsg : /\ m.id = None
                                               /\ up'[k] = Append(up[k], m),
         \A l \in Socket : \A o \in DOMAIN down'[l] :
           \/ down'[l][o].id = None /\ down'[l][o].type \notin Granting
           \/ \E p \in DOMAIN down[l] : down'[l][o] = down[l][p]
  PROVE  SuccessInv'
<1>u. \A k \in Socket : \A n \in DOMAIN up'[k] :
        up'[k][n].id # None => n \in DOMAIN up[k] /\ up'[k][n] = up[k][n]
  <2> SUFFICES ASSUME NEW k \in Socket, NEW n \in DOMAIN up'[k],
                      up'[k][n].id # None
               PROVE  n \in DOMAIN up[k] /\ up'[k][n] = up[k][n]
    OBVIOUS
  <2>1. up[k] \in Seq(UpMsg)
    BY DEF MessagesOK
  <2>2. CASE up'[k] = <<>>
    BY <2>2
  <2>3. ASSUME NEW m \in UpMsg, m.id = None, up'[k] = Append(up[k], m)
        PROVE  n \in DOMAIN up[k] /\ up'[k][n] = up[k][n]
    BY <2>1, <2>3
  <2> QED BY <2>2, <2>3
<1>i. \A k \in Socket : \A n \in DOMAIN up[k] :
        up[k][n].id # None => up[k][n].id \in RequestId
  <2> SUFFICES ASSUME NEW k \in Socket, NEW n \in DOMAIN up[k]
               PROVE  up[k][n].id # None => up[k][n].id \in RequestId
    OBVIOUS
  <2>1. up[k][n] \in UpMsg
    BY DEF MessagesOK
  <2> QED BY <2>1 DEF UpMsg
<1>1. AskedOnce'
  BY <1>u DEF SuccessInv, AskedOnce
<1>2. NotAnsweredYet'
  BY <1>u, <1>i DEF SuccessInv, NotAnsweredYet
<1>3. AnswersTrue'
  BY DEF SuccessInv, AnswersTrue
<1>4. SuccessIsGranted'
  BY DEF SuccessInv, SuccessIsGranted
<1> QED BY <1>1, <1>2, <1>3, <1>4 DEF SuccessInv

\* A new request takes an identifier that nothing carries.
LEMMA NewRequest ==
  ASSUME MessagesOK, SuccessInv, NEW i \in FreeIds, NEW k \in Socket,
         NEW m \in UpMsg, m.id = i, UNCHANGED down,
         outcome' = [outcome EXCEPT ![i] = "pending"],
         answered' = [answered EXCEPT ![i] = "none"],
         up' = up \/ up' = [up EXCEPT ![k] = Append(up[k], m)]
  PROVE  SuccessInv'
<1>f. /\ i \in RequestId
      /\ \A l \in Socket : \A n \in DOMAIN up[l] : up[l][n].id # i
      /\ \A l \in Socket : \A n \in DOMAIN down[l] : down[l][n].id # i
  BY DEF FreeIds, Carried
<1>u. \A l \in Socket : \A n \in DOMAIN up'[l] :
        \/ n \in DOMAIN up[l] /\ up'[l][n] = up[l][n]
        \/ l = k /\ n = Len(up[k]) + 1 /\ up'[l][n] = m
  <2>1. ASSUME NEW q \in Seq(UpMsg), NEW n \in DOMAIN Append(q, m)
        PROVE  \/ n \in DOMAIN q /\ Append(q, m)[n] = q[n]
               \/ n = Len(q) + 1 /\ Append(q, m)[n] = m
    OBVIOUS
  <2>2. \A l \in Socket :
          \/ up'[l] = up[l]
          \/ l = k /\ up'[l] = Append(up[k], m)
    BY DEF MessagesOK
  <2>3. up[k] \in Seq(UpMsg)
    BY DEF MessagesOK
  <2> QED BY <2>1, <2>2, <2>3
<1>1. AskedOnce'
  <2> SUFFICES ASSUME NEW l \in Socket, NEW j \in Socket,
                      NEW n \in DOMAIN up'[l], NEW o \in DOMAIN up'[j],
                      up'[l][n].id # None, up'[l][n].id = up'[j][o].id
               PROVE  l = j /\ n = o
    BY DEF AskedOnce
  <2>1. CASE n \in DOMAIN up[l] /\ up'[l][n] = up[l][n]
    <3>1. o \in DOMAIN up[j] /\ up'[j][o] = up[j][o]
      BY <1>f, <1>u, <2>1
    <3> QED BY <2>1, <3>1 DEF SuccessInv, AskedOnce
  <2>2. CASE l = k /\ n = Len(up[k]) + 1 /\ up'[l][n] = m
    BY <1>f, <1>u, <2>2
  <2> QED BY <1>u, <2>1, <2>2
<1>2. NotAnsweredYet'
  BY <1>f, <1>u DEF SuccessInv, NotAnsweredYet
<1>3. AnswersTrue'
  BY <1>f DEF SuccessInv, AnswersTrue
<1>4. SuccessIsGranted'
  BY <1>f DEF SuccessInv, SuccessIsGranted
<1> QED BY <1>f, <1>1, <1>2, <1>3, <1>4 DEF SuccessInv

\* An answer settles at most the request whose identifier it carries as granted.
LEMMA MessageSettles ==
  ASSUME MessagesOK, SuccessInv, NEW k \in Socket, HandleMessage(k)
  PROVE  SuccessInv'
<1> DEFINE msg == Head(down[k])
<1>0. /\ down[k] \in Seq(DownMsg) /\ down[k] # <<>>
      /\ down' = [down EXCEPT ![k] = Tail(down[k])]
      /\ up' = up /\ answered' = answered
      /\ HandleEntered(msg) \/ HandleAnswer(msg) \/ HandleEnded(msg)
  BY DEF HandleMessage, MessagesOK, HandleEntered, HandleAnswer, HandleEnded,
         ResolvePending, requests
<1>1. msg \in DownMsg /\ 1 \in DOMAIN down[k] /\ msg = down[k][1]
  BY <1>0
<1>d. \A l \in Socket : \A o \in DOMAIN down'[l] :
        \E p \in DOMAIN down[l] : down'[l][o] = down[l][p]
  <2>1. \A o \in DOMAIN Tail(down[k]) :
          o + 1 \in DOMAIN down[k] /\ Tail(down[k])[o] = down[k][o + 1]
    BY <1>0
  <2> QED BY <1>0, <2>1 DEF MessagesOK
<1> HIDE DEF msg
<1>2. /\ outcome' \in [RequestId -> {"none", "pending", "ok", "error", "closed"}]
      /\ \A i \in RequestId : outcome'[i] = "ok" =>
           \/ outcome[i] = "ok"
           \/ msg.type \in Granting /\ i = msg.id
  <2>1. ASSUME ResolvePending(msg), msg.type \in Granting \cup {"error"}
        PROVE  /\ outcome' \in [RequestId ->
                                  {"none", "pending", "ok", "error", "closed"}]
               /\ \A i \in RequestId : outcome'[i] = "ok" =>
                    \/ outcome[i] = "ok"
                    \/ msg.type \in Granting /\ i = msg.id
    <3> DEFINE done == {pending[n] : n \in SettledBy(msg)}
    <3>1. outcome' = [i \in RequestId |->
                        IF \A p \in done : p.id # i THEN outcome[i]
                        ELSE IF msg.type = "error" THEN "error" ELSE "ok"]
      BY <2>1 DEF ResolvePending
    <3>2. msg.id # None => \A p \in done : p.id = msg.id
      BY DEF SettledBy
    <3>3. msg.type \in Granting => msg.id # None
      BY <1>1 DEF DownMsg, RequestId, None
    <3> HIDE DEF done
    <3> QED BY <2>1, <3>1, <3>2, <3>3 DEF SuccessInv
  <2>2. CASE outcome' = outcome
    BY <2>2 DEF SuccessInv
  <2> QED BY <1>0, <2>1, <2>2 DEF HandleEntered, HandleAnswer, HandleEnded,
                                  Granting, requests, msg
<1>3. msg.type \in Granting => answered[msg.id] = "ok"
  BY <1>1 DEF SuccessInv, AnswersTrue
<1>4. AskedOnce'
  BY <1>0 DEF SuccessInv, AskedOnce
<1>5. NotAnsweredYet'
  <2> SUFFICES ASSUME NEW l \in Socket, NEW n \in DOMAIN up[l],
                      up[l][n].id # None
               PROVE  /\ outcome'[up[l][n].id] # "ok"
                      /\ \A j \in Socket : \A o \in DOMAIN down'[j] :
                           down'[j][o].id # up[l][n].id
    BY <1>0 DEF NotAnsweredYet
  <2>1. up[l][n].id \in RequestId
    <3>1. up[l][n] \in UpMsg
      BY DEF MessagesOK
    <3> QED BY <3>1 DEF UpMsg
  <2>2. /\ outcome[up[l][n].id] # "ok"
        /\ \A j \in Socket : \A o \in DOMAIN down[j] :
             down[j][o].id # up[l][n].id
    BY DEF SuccessInv, NotAnsweredYet
  <2> QED BY <1>1, <1>2, <1>d, <2>1, <2>2
<1>6. AnswersTrue'
  BY <1>0, <1>d DEF SuccessInv, AnswersTrue
<1>7. SuccessIsGranted'
  BY <1>0, <1>2, <1>3 DEF SuccessInv, SuccessIsGranted
<1> QED BY <1>0, <1>2, <1>4, <1>5, <1>6, <1>7 DEF SuccessInv

\* The server takes one request off the wire and puts on at most one message
\* with its identifier; what it grants it notes first.
LEMMA ServerAnswers ==
  ASSUME TokenInv, SuccessInv, NEW k \in Socket, ServerHandles(k)
  PROVE  SuccessInv'
<1> DEFINE m == Head(up[k])
<1>0. /\ up[k] \in Seq(UpMsg) /\ up[k] # <<>>
      /\ up' = [up EXCEPT ![k] = Tail(up[k])]
      /\ outcome' = outcome
      /\ \/ GrantSpawn(k, m) \/ GrantJoin(k, m) \/ GrantList(k, m)
         \/ GrantLeave(k, m) \/ GrantClose(k, m) \/ TakeData(k, m)
         \/ Refuse(k, m)
  BY DEF ServerHandles, TokenInv, MessagesOK
<1>1. m \in UpMsg /\ 1 \in DOMAIN up[k] /\ m = up[k][1]
  BY <1>0
<1>u. \A l \in Socket : \A n \in DOMAIN up'[l] :
        \E o \in DOMAIN up[l] :
          /\ up'[l][n] = up[l][o]
          /\ IF l = k THEN o = n + 1 /\ n \in Nat \ {0} ELSE o = n
  <2>1. \A n \in DOMAIN Tail(up[k]) :
          /\ n \in Nat \ {0}
          /\ n + 1 \in DOMAIN up[k] /\ Tail(up[k])[n] = up[k][n + 1]
    BY <1>0
  <2> QED BY <1>0, <2>1 DEF TokenInv, MessagesOK
<1> HIDE DEF m
<1>m. /\ m.id \in RequestId \cup {None} /\ None \notin RequestId
      /\ m.type \in Correlated => m.id \in RequestId
      /\ m.type \notin Correlated => m.id = None
  BY <1>1 DEF UpMsg, RequestId, None
<1>t. \A type, s, t, i : /\ Tell(type, s, t, i).type = type
                         /\ Tell(type, s, t, i).id = i
  BY DEF Tell
<1>s. ASSUME NEW K, NEW x, down' = Sent(K, <<x>>)
      PROVE  \A l \in Socket : \A o \in DOMAIN down'[l] :
               \/ down'[l][o] = x
               \/ o \in DOMAIN down[l] /\ down'[l][o] = down[l][o]
  <2>1. \A l \in Socket : down[l] \in Seq(DownMsg)
    BY DEF TokenInv, MessagesOK
  <2>2. ASSUME NEW q \in Seq(DownMsg), NEW o \in DOMAIN (q \o <<x>>)
        PROVE  \/ (q \o <<x>>)[o] = x
               \/ o \in DOMAIN q /\ (q \o <<x>>)[o] = q[o]
    BY <2>2
  <2>3. \A l \in Socket : down'[l] = down[l] \o <<x>> \/ down'[l] = down[l]
    BY <1>s DEF Sent
  <2> QED BY <2>1, <2>2, <2>3
<1>2. \/ answered' = answered
      \/ m.id \in RequestId /\ answered' = [answered EXCEPT ![m.id] = "ok"]
      \/ m.id \in RequestId /\ answered' = [answered EXCEPT ![m.id] = "error"]
  BY <1>0, <1>m DEF GrantSpawn, GrantJoin, GrantList, GrantLeave, GrantClose,
                    TakeData, Refuse, Answered, m
<1>3. \A l \in Socket : \A o \in DOMAIN down'[l] :
        \/ o \in DOMAIN down[l] /\ down'[l][o] = down[l][o]
        \/ /\ down'[l][o].id \in {m.id, None}
           /\ down'[l][o].type \in Granting =>
                m.id # None /\ down'[l][o].id = m.id /\ answered'[m.id] = "ok"
  <2> DEFINE Claim ==
        \A l \in Socket : \A o \in DOMAIN down'[l] :
          \/ o \in DOMAIN down[l] /\ down'[l][o] = down[l][o]
          \/ /\ down'[l][o].id \in {m.id, None}
             /\ down'[l][o].type \in Granting =>
                  m.id # None /\ down'[l][o].id = m.id /\ answered'[m.id] = "ok"
  <2>g. ASSUME m.type \in Correlated, Answered(m, "ok"), NEW x, x.id = m.id,
               down' = Sent({k}, <<x>>)
        PROVE  Claim
    <3>1. answered'[m.id] = "ok" /\ m.id # None
      BY <1>m, <2>g DEF Answered, SuccessInv
    <3> QED BY <1>s, <2>g, <3>1
  <2>o. ASSUME NEW K, NEW x, x.id \in {m.id, None}, x.type \notin Granting,
               down' = Sent(K, <<x>>)
        PROVE  Claim
    BY <1>s, <2>o
  <2> SUFFICES Claim
    OBVIOUS
  <2> HIDE DEF Claim
  <2>1. CASE GrantSpawn(k, m)
    <3>1. PICK s : down' = Sent({k}, <<Tell("spawned", s, s, m.id)>>)
      BY <2>1 DEF GrantSpawn
    <3>2. m.type \in Correlated /\ Answered(m, "ok")
      BY <2>1 DEF GrantSpawn, Correlated
    <3> QED BY <1>t, <2>g, <3>1, <3>2
  <2>2. CASE GrantJoin(k, m)
    <3> DEFINE t == IF m.token = m.session THEN m.token ELSE NoSession
    <3>1. down' = Sent({k}, <<Tell("joined", m.session, t, m.id)>>)
      BY <2>2 DEF GrantJoin
    <3>2. m.type \in Correlated /\ Answered(m, "ok")
      BY <2>2 DEF GrantJoin, Correlated
    <3> HIDE DEF t
    <3> QED BY <1>t, <2>g, <3>1, <3>2
  <2>3. CASE GrantList(k, m)
    <3> DEFINE x == Tell("sessionList", NoSession, NoSession, m.id)
               y == [x EXCEPT !.joinable = live \cap Shared]
    <3>1. y.id = m.id
      BY DEF Tell
    <3>2. down' = Sent({k}, <<y>>)
      BY <2>3 DEF GrantList
    <3>3. m.type \in Correlated /\ Answered(m, "ok")
      BY <2>3 DEF GrantList, Correlated
    <3> HIDE DEF y
    <3> QED BY <2>g, <3>1, <3>2, <3>3
  <2>4. CASE GrantLeave(k, m)
    <3>1. down' = Sent({k}, <<Tell("left", m.session, NoSession, m.id)>>)
      BY <2>4 DEF GrantLeave
    <3>2. "left" \notin Granting
      BY DEF Granting
    <3> QED BY <1>t, <2>o, <3>1, <3>2
  <2>5. CASE GrantClose(k, m)
    <3>1. down' = Sent(Members(m.session),
                       <<Tell("sessionClosed", m.session, NoSession, None)>>)
      BY <2>5 DEF GrantClose
    <3>2. "sessionClosed" \notin Granting
      BY DEF Granting
    <3> QED BY <1>t, <2>o, <3>1, <3>2
  <2>6. CASE TakeData(k, m)
    BY <2>6 DEF TakeData, Claim
  <2>7. CASE Refuse(k, m)
    <3>1. down' = Sent({k}, <<Tell("error", m.session, NoSession, m.id)>>)
      BY <2>7 DEF Refuse
    <3>2. "error" \notin Granting
      BY DEF Granting
    <3> QED BY <1>t, <2>o, <3>1, <3>2
  <2> QED BY <1>0, <2>1, <2>2, <2>3, <2>4, <2>5, <2>6, <2>7 DEF m
\* Until now nothing else carries the identifier of the request.
<1>4. m.id # None =>
        /\ outcome[m.id] # "ok"
        /\ \A l \in Socket : \A o \in DOMAIN down[l] : down[l][o].id # m.id
        /\ \A l \in Socket : \A n \in DOMAIN up'[l] : up'[l][n].id # m.id
  <2>1. m.id # None =>
          /\ outcome[m.id] # "ok"
          /\ \A l \in Socket : \A o \in DOMAIN down[l] : down[l][o].id # m.id
    BY <1>1 DEF SuccessInv, NotAnsweredYet
  <2>2. ASSUME m.id # None, NEW l \in Socket, NEW n \in DOMAIN up'[l],
               up'[l][n].id = m.id
        PROVE  FALSE
    <3>1. PICK o \in DOMAIN up[l] :
            /\ up'[l][n] = up[l][o]
            /\ IF l = k THEN o = n + 1 /\ n \in Nat \ {0} ELSE o = n
      BY <1>u
    <3>2. l = k /\ o = 1
      BY <1>1, <2>2, <3>1 DEF SuccessInv, AskedOnce
    <3> QED BY <3>1, <3>2
  <2> QED BY <2>1, <2>2
<1>5. AskedOnce'
  <2> SUFFICES ASSUME NEW l \in Socket, NEW j \in Socket,
                      NEW n \in DOMAIN up'[l], NEW o \in DOMAIN up'[j],
                      up'[l][n].id # None, up'[l][n].id = up'[j][o].id
               PROVE  l = j /\ n = o
    BY DEF AskedOnce
  <2>1. PICK p \in DOMAIN up[l] :
          /\ up'[l][n] = up[l][p]
          /\ IF l = k THEN p = n + 1 /\ n \in Nat \ {0} ELSE p = n
    BY <1>u
  <2>2. PICK q \in DOMAIN up[j] :
          /\ up'[j][o] = up[j][q]
          /\ IF j = k THEN q = o + 1 /\ o \in Nat \ {0} ELSE q = o
    BY <1>u
  <2>3. l = j /\ p = q
    BY <2>1, <2>2 DEF SuccessInv, AskedOnce
  <2> QED BY <2>1, <2>2, <2>3
<1>6. NotAnsweredYet'
  <2> SUFFICES ASSUME NEW l \in Socket, NEW n \in DOMAIN up'[l],
                      up'[l][n].id # None
               PROVE  /\ outcome[up'[l][n].id] # "ok"
                      /\ \A j \in Socket : \A o \in DOMAIN down'[j] :
                           down'[j][o].id # up'[l][n].id
    BY <1>0 DEF NotAnsweredYet
  <2>1. PICK p \in DOMAIN up[l] : up'[l][n] = up[l][p]
    BY <1>u
  <2>2. /\ outcome[up'[l][n].id] # "ok"
        /\ \A j \in Socket : \A o \in DOMAIN down[j] :
             down[j][o].id # up'[l][n].id
    BY <2>1 DEF SuccessInv, NotAnsweredYet
  <2> QED BY <1>3, <1>4, <2>2
<1>7. AnswersTrue'
  <2> SUFFICES ASSUME NEW l \in Socket, NEW o \in DOMAIN down'[l],
                      down'[l][o].type \in Granting
               PROVE  answered'[down'[l][o].id] = "ok"
    BY DEF AnswersTrue
  <2>1. CASE o \in DOMAIN down[l] /\ down'[l][o] = down[l][o]
    <3>1. answered[down[l][o].id] = "ok" /\ down[l][o].id \in RequestId
      <4>1. down[l][o] \in DownMsg
        BY <2>1 DEF TokenInv, MessagesOK
      <4> QED BY <2>1, <4>1 DEF SuccessInv, AnswersTrue, DownMsg
    <3>2. m.id \in RequestId => m.id # down[l][o].id
      BY <1>m, <1>4, <2>1
    <3> QED BY <1>2, <2>1, <3>1, <3>2 DEF SuccessInv
  <2> QED BY <1>3, <2>1
<1>8. SuccessIsGranted'
  BY <1>0, <1>2, <1>4, <1>m DEF SuccessInv, SuccessIsGranted
<1>9. answered' \in [RequestId -> {"none", "ok", "error"}]
  BY <1>2 DEF SuccessInv
<1> QED BY <1>0, <1>5, <1>6, <1>7, <1>8, <1>9 DEF SuccessInv

LEMMA SuccessStep ==
  ASSUME ConnectionInv, TokenInv, TokenInv', SuccessInv, [ClientNext]_vars
  PROVE  SuccessInv'
<1>m. MessagesOK /\ MessagesOK'
  BY DEF TokenInv
<1>0. ASSUME UNCHANGED <<answered, outcome, up, down>>
      PROVE  SuccessInv'
  BY <1>0 DEF SuccessInv, AskedOnce, NotAnsweredYet, AnswersTrue,
              SuccessIsGranted
<1>o. outcome \in [RequestId -> {"none", "pending", "ok", "error", "closed"}]
  BY DEF SuccessInv
<1>1. ASSUME NEW k \in Socket, ConnectCalled(k) \/ SocketFails(k)
      PROVE  SuccessInv'
  BY <1>0, <1>1 DEF ConnectCalled, SocketFails, requests
<1>2. CASE ReconnectTimerFires \/ DisconnectCalled \/ ClearPreviousSessionId
  BY <1>0, <1>2 DEF ReconnectTimerFires, DisconnectCalled,
                    ClearPreviousSessionId, requests
<1>3. ASSUME NEW k \in Socket, SocketOpens(k)
      PROVE  SuccessInv'
  <2>1. CASE UNCHANGED <<requests, up>>
    BY <1>0, <1>3, <2>1 DEF SocketOpens, requests
  <2>2. ASSUME NEW i \in FreeIds,
               outcome' = [outcome EXCEPT ![i] = "pending"],
               answered' = [answered EXCEPT ![i] = "none"],
               up' = [up EXCEPT ![k] =
                        Append(up[k], Ask("check", NoSession, NoSession, i))]
        PROVE  SuccessInv'
    <3>1. Ask("check", NoSession, NoSession, i) \in UpMsg
      BY AskIsUpMsg DEF Correlated, FreeIds, Tokens
    <3>2. Ask("check", NoSession, NoSession, i).id = i
      BY DEF Ask
    <3>3. down' = down
      BY <1>3 DEF SocketOpens
    <3> QED BY <1>m, <2>2, <3>1, <3>2, <3>3, NewRequest
  <2> QED BY <1>3, <2>1, <2>2 DEF SocketOpens
<1>4. ASSUME NEW k \in Socket, SocketCloses(k)
      PROVE  SuccessInv'
  <2>1. answered' = answered /\ up' = up
    BY <1>4 DEF SocketCloses, requests
  <2>2. /\ outcome' \in [RequestId -> {"none", "pending", "ok", "error", "closed"}]
        /\ \A i \in RequestId : outcome'[i] = "ok" => outcome[i] = "ok"
    BY <1>4, <1>o DEF SocketCloses, requests
  <2>3. \A l \in Socket : \A o \in DOMAIN down'[l] :
          \E p \in DOMAIN down[l] : down'[l][o] = down[l][p]
    BY <1>4, <1>m DEF SocketCloses, Closes, MessagesOK
  <2> QED BY <1>m, <2>1, <2>2, <2>3, NothingAsked
<1>5. ASSUME NEW type \in Correlated, NEW t \in Tokens,
             NEW u \in {NoSession, t}, Request(type, t, u), ws \in Socket
      PROVE  SuccessInv'
  <2>1. PICK i \in FreeIds :
          /\ outcome' = [outcome EXCEPT ![i] = "pending"]
          /\ answered' = [answered EXCEPT ![i] = "none"]
          /\ Send(ws, Ask(type, t, u, i))
    BY <1>5 DEF Request
  <2>2. Ask(type, t, u, i) \in UpMsg /\ Ask(type, t, u, i).id = i
    BY AskIsUpMsg DEF FreeIds, Ask
  <2>3. \/ up' = up
        \/ up' = [up EXCEPT ![ws] = Append(up[ws], Ask(type, t, u, i))]
    BY <2>1 DEF Send
  <2>4. down' = down
    BY <1>5 DEF Request
  <2> QED BY <1>5, <1>m, <2>1, <2>2, <2>3, <2>4, NewRequest
<1>6. ASSUME NEW type \in {"leave", "close", "data"}, NEW t \in Tokens,
             Notify(type, t)
      PROVE  SuccessInv'
  <2> DEFINE m == Ask(type, t, NoSession, None)
  <2>1. m \in UpMsg /\ m.id = None
    BY NotifyIsUpMsg DEF Ask
  <2>2. up' = up \/ up' = [up EXCEPT ![ws] = Append(up[ws], m)]
    BY <1>6 DEF Notify, Send
  <2> HIDE DEF m
  <2>3. \A l \in Socket : up'[l] = up[l] \/ up'[l] = Append(up[l], m)
    BY <1>m, <2>2 DEF MessagesOK
  <2>4. UNCHANGED <<answered, outcome, down>>
    BY <1>6 DEF Notify, requests
  <2> QED BY <1>m, <1>o, <2>1, <2>3, <2>4, NothingAsked
<1>7. ASSUME SpawnCalled \/ ListSessionsCalled, ws \in Socket
      PROVE  SuccessInv'
  BY <1>5, <1>7 DEF SpawnCalled, ListSessionsCalled, Correlated, Tokens
<1>8. ASSUME NEW s \in SessionId, JoinCalled(s), ws \in Socket
      PROVE  SuccessInv'
  <2>1. PICK t : /\ Request("join", s, t)
                 /\ \/ t = IF s = previous THEN previousToken ELSE NoSession
                    \/ t = s
    BY <1>8 DEF JoinCalled, GivenToken
  <2>2. t \in {NoSession, s} /\ s \in Tokens
    BY <2>1, ClientAssumption DEF TokenInv, TokensKept, Tokens
  <2> QED BY <1>5, <1>8, <2>1, <2>2 DEF Correlated
<1>9. ASSUME NEW s \in SessionId, LeaveCalled(s)
      PROVE  SuccessInv'
  BY <1>6, <1>9 DEF LeaveCalled, Tokens
<1>10. CASE KillCalled \/ WriteCalled
  BY <1>6, <1>10
     DEF KillCalled, WriteCalled, SendForActiveSession, TokenInv, TokensKept
<1>11. ASSUME NEW k \in Socket, HandleMessage(k) \/ ServerHandles(k)
       PROVE  SuccessInv'
  BY <1>m, <1>11, MessageSettles, ServerAnswers
<1>12. ASSUME NEW k \in Socket, ServerLosesSocket(k)
       PROVE  SuccessInv'
  <2>1. UNCHANGED <<answered, outcome, down>>
    BY <1>12 DEF ServerLosesSocket, requests
  <2>2. \A l \in Socket : up'[l] = up[l] \/ up'[l] = <<>>
    BY <1>12, <1>m DEF ServerLosesSocket, MessagesOK
  <2> QED BY <1>m, <1>o, <2>1, <2>2, NothingAsked
<1>13. ASSUME NEW s \in SessionId, SessionEnds(s)
       PROVE  SuccessInv'
  <2> DEFINE x == Tell("exit", s, NoSession, None)
             y == Tell("sessionClosed", s, NoSession, None)
  <2>1. UNCHANGED <<answered, outcome, up>>
    BY <1>13 DEF SessionEnds, requests
  <2>2. /\ x.id = None /\ x.type \notin Granting
        /\ y.id = None /\ y.type \notin Granting
    BY DEF Tell, Granting
  <2>3. \A l \in Socket : down'[l] = down[l] \/ down'[l] = down[l] \o <<x, y>>
    BY <1>13 DEF SessionEnds, Sent
  <2> HIDE DEF x, y
  <2>4. ASSUME NEW q \in Seq(DownMsg), NEW o \in DOMAIN (q \o <<x, y>>)
        PROVE  \/ (q \o <<x, y>>)[o] \in {x, y}
               \/ o \in DOMAIN q /\ (q \o <<x, y>>)[o] = q[o]
    BY <2>4
  <2>5. \A l \in Socket : down[l] \in Seq(DownMsg)
    BY <1>m DEF MessagesOK
  <2>6. \A l \in Socket : \A o \in DOMAIN down'[l] :
          \/ down'[l][o] \in {x, y}
          \/ o \in DOMAIN down[l] /\ down'[l][o] = down[l][o]
    BY <2>3, <2>4, <2>5
  <2>7. \A l \in Socket : \A o \in DOMAIN down'[l] :
          \/ down'[l][o].id = None /\ down'[l][o].type \notin Granting
          \/ \E p \in DOMAIN down[l] : down'[l][o] = down[l][p]
    BY <2>2, <2>6
  <2> QED BY <1>m, <1>o, <2>1, <2>7, NothingAsked
<1>14. CASE UNCHANGED vars
  BY <1>0, <1>14 DEF vars, requests
<1>15. ASSUME NEW s \in SessionId, JoinCalled(s)
       PROVE  SuccessInv'
  BY <1>8, <1>15 DEF JoinCalled, Request, Connected, ConnectionInv
<1>16. CASE SpawnCalled \/ ListSessionsCalled
  BY <1>7, <1>16 DEF SpawnCalled, ListSessionsCalled, Request, Connected,
                     ConnectionInv
<1> QED BY <1>1, <1>2, <1>3, <1>4, <1>9, <1>10, <1>11, <1>12, <1>13, <1>14,
           <1>15, <1>16 DEF ClientNext

LEMMA SuccessInit == ClientInit => SuccessInv
BY DEF ClientInit, SuccessInv, AskedOnce, NotAnsweredYet, AnswersTrue,
       SuccessIsGranted

\* A request succeeds only if the server granted that very request, however
\* answers, lost connections and abandoned requests cross.
THEOREM ClientSuccessIsGranted == ClientSafe => []SuccessIsGranted
<1> DEFINE Inv == ConnectionInv /\ TokenInv /\ SuccessInv
<1>1. ClientInit => Inv
  BY ConnectionInit, TokenInit, SuccessInit
<1>2. Inv /\ [ClientNext]_vars => Inv'
  BY ConnectionStep, TokenStep, SuccessStep
<1>3. Inv => SuccessIsGranted
  BY DEF SuccessInv
<1> QED BY <1>1, <1>2, <1>3, PTL DEF ClientSafe
-----------------------------------------------------------------------------
(* The session of the client: what the server has told of it, and what is   *)
(* still on the way, agree with where the client's connection is.           *)

Ends(msg, s) ==
  msg.type \in {"left", "exit", "sessionClosed"} /\ msg.session = s
Enters(msg, s) == msg.type \in {"spawned", "joined"} /\ msg.session = s

\* Messages are on the way only to a connection that is up, and only on one has the
\* client a session.
OnTheWay ==
  /\ \A k \in Socket : down[k] # <<>> => Reaches(k)
  /\ session # NoSession => \E k \in Socket : k = ws /\ Reaches(k)

\* A session that the connection is not in, and that the client has or is about to
\* be told it has entered, is one whose end it is about to be told after that.
EndsToCome(k, s) ==
  /\ session = s => \E n \in DOMAIN down[k] : Ends(down[k][n], s)
  /\ \A n \in DOMAIN down[k] : Enters(down[k][n], s) =>
       \E m \in DOMAIN down[k] : n < m /\ Ends(down[k][m], s)

JoinedInv ==
  /\ member \in [Socket -> SUBSET Tokens]
  /\ OnTheWay
  /\ \A k \in registered \cap Socket : wire[k] = "open" =>
       \A s \in SessionId \ member[k] : EndsToCome(k, s)

\* What the client is told has ended, or will be, has: it is not live any more.
TellsEnd(msg, s) == msg.type \in {"exit", "sessionClosed"} /\ msg.session = s

\* A session has an owner only once it was made.
OwnersUsed ==
  /\ owner \in [SessionId -> Socket \cup {None}]
  /\ \A s \in SessionId : owner[s] # None => s \in used

\* A list that is on the way names no session whose end the client has been told,
\* or will be before the list.
OfferInv ==
  /\ OnTheWay
  /\ live \subseteq used /\ gone \cap live = {} /\ gone \subseteq used \cup {NoSession}
  /\ OwnersUsed
  /\ \A k \in Socket : \A n \in DOMAIN down[k] :
       /\ \A s \in Tokens : TellsEnd(down[k][n], s) =>
            s \in (used \cup {NoSession}) \ live
       /\ \A s \in down[k][n].joinable :
            s \notin gone /\ \A j \in 1..(n - 1) : ~TellsEnd(down[k][j], s)

\* A connection that has not opened yet, or no longer is, says nothing.
LEMMA SilentUnlessUp ==
  ASSUME OnTheWay, NEW k \in Socket, ~Reaches(k)
  PROVE  down[k] = <<>> /\ (ws = k => session = NoSession)
BY DEF OnTheWay

\* Steps of the connection leave what is on the way to those that stay up.
LEMMA OnTheWayStep ==
  ASSUME ConnectionInv, TokenInv, OnTheWay, [ClientNext]_vars
  PROVE  OnTheWay'
<1>w. wire \in [Socket -> WireStates]
  BY DEF ConnectionInv
<1>d. down \in [Socket -> Seq(DownMsg)]
  BY DEF TokenInv, MessagesOK
<1>0. ASSUME UNCHANGED <<ws, wire, session, down>>
      PROVE  OnTheWay'
  BY <1>0 DEF OnTheWay, Reaches
<1>1. ASSUME NEW K, NEW ms, down' = Sent(K, ms), UNCHANGED <<ws, wire, session>>
      PROVE  OnTheWay'
  BY <1>1 DEF OnTheWay, Reaches, Sent
<1>2. ASSUME ~Connecting, NEW k \in Socket, Dial(k), UNCHANGED <<session, down>>
      PROVE  OnTheWay'
  <2>1. \A j \in Socket : ~Reaches(j)
    BY <1>2 DEF ConnectionInv, Connecting, Reaches
  <2> QED BY <1>2, <2>1 DEF OnTheWay
<1>3. ASSUME NEW k \in Socket, ConnectCalled(k)
      PROVE  OnTheWay'
  BY <1>2, <1>3 DEF ConnectCalled, activity
<1>4. CASE ReconnectTimerFires
  <2>1. UNCHANGED <<session, down>>
    BY <1>4 DEF ReconnectTimerFires, activity
  <2>2. CASE Connecting
    BY <1>0, <1>4, <2>1, <2>2 DEF ReconnectTimerFires
  <2>3. CASE ~Connecting
    BY <1>2, <1>4, <2>1, <2>3 DEF ReconnectTimerFires
  <2> QED BY <2>2, <2>3
<1>5. CASE DisconnectCalled
  <2>1. /\ UNCHANGED <<ws, session, down>>
        /\ \A k \in Socket : wire'[k] = wire[k] \/ (wire[k] = "open" /\ wire'[k] = "closing")
             \/ (wire[k] = "connecting" /\ wire'[k] = "aborting")
    BY <1>5, <1>w DEF DisconnectCalled, activity
  <2> QED BY <2>1 DEF OnTheWay, Reaches
<1>6. ASSUME NEW k \in Socket, SocketOpens(k) \/ SocketFails(k)
      PROVE  OnTheWay'
  <2>1. /\ UNCHANGED <<ws, session, down>>
        /\ wire[k] \in {"connecting", "aborting"}
        /\ \E w : wire' = [wire EXCEPT ![k] = w]
    BY <1>6 DEF SocketOpens, SocketFails, activity, connection
  <2> QED BY <1>w, <2>1 DEF OnTheWay, Reaches
<1>7. ASSUME NEW k \in Socket, SocketCloses(k)
      PROVE  OnTheWay'
  <2>1. wire' = [wire EXCEPT ![k] = "closed"] /\ down' = [down EXCEPT ![k] = <<>>]
    BY <1>7 DEF SocketCloses, Closes
  <2>2. IF ws = k THEN session' = NoSession ELSE UNCHANGED <<ws, session>>
    BY <1>7 DEF SocketCloses, Forget, connection, activity
  <2> QED BY <1>w, <1>d, <2>1, <2>2 DEF OnTheWay, Reaches
<1>8. ASSUME NEW k \in Socket, HandleMessage(k)
      PROVE  OnTheWay'
  <2>1. /\ Reaches(k) /\ UNCHANGED <<ws, wire>>
        /\ down' = [down EXCEPT ![k] = Tail(@)]
    BY <1>8 DEF HandleMessage, Reaches, connection
  <2>2. k = ws
    BY <2>1 DEF ConnectionInv, Reaches
  <2> QED BY <1>d, <2>1, <2>2 DEF OnTheWay, Reaches
<1>9. ASSUME NEW k \in Socket, ServerHandles(k)
      PROVE  OnTheWay'
  <2>1. UNCHANGED <<ws, wire, session>>
    BY <1>9 DEF ServerHandles, connection, activity
  <2>2. (\E K, ms : down' = Sent(K, ms)) \/ down' = down
    BY <1>9 DEF ServerHandles, GrantSpawn, GrantJoin, GrantList, GrantLeave, GrantClose,
                TakeData, Refuse
  <2> QED BY <1>0, <1>1, <2>1, <2>2
<1>10. ASSUME NEW s \in SessionId, SessionEnds(s)
       PROVE  OnTheWay'
  BY <1>1, <1>10 DEF SessionEnds, connection, activity
<1>11. ASSUME NEW k \in Socket, ServerLosesSocket(k)
       PROVE  OnTheWay'
  BY <1>0, <1>11 DEF ServerLosesSocket, connection, activity
<1>12. ASSUME NEW s \in SessionId, JoinCalled(s) \/ LeaveCalled(s)
       PROVE  OnTheWay'
  BY <1>0, <1>12 DEF JoinCalled, LeaveCalled, Request, Notify, connection, activity
<1>13. CASE \/ SpawnCalled \/ ListSessionsCalled \/ KillCalled \/ WriteCalled
            \/ ClearPreviousSessionId \/ UNCHANGED vars
  BY <1>0, <1>13 DEF SpawnCalled, ListSessionsCalled, KillCalled, WriteCalled, Request,
       SendForActiveSession, Notify, ClearPreviousSessionId, vars, connection, activity
<1> QED BY <1>3, <1>4, <1>5, <1>6, <1>7, <1>8, <1>9, <1>10, <1>11, <1>12, <1>13
        DEF ClientNext

\* Messages that say of every session what became of the connection in it.
LEMMA JoinedTold ==
  ASSUME TokenInv, JoinedInv, OnTheWay', NEW K, NEW ms \in Seq(DownMsg),
         down' = Sent(K, ms), UNCHANGED <<registered, wire, session>>,
         member' \in [Socket -> SUBSET Tokens],
         \A k \in registered \cap Socket : \A s \in member[k] \ member'[k] :
           k \in K /\ \E n \in DOMAIN ms : Ends(ms[n], s),
         \A k \in registered \cap Socket : k \in K =>
           \A s \in SessionId : \A n \in DOMAIN ms :
             Enters(ms[n], s) => s \in member'[k]
  PROVE  JoinedInv'
<1> SUFFICES ASSUME NEW k \in registered \cap Socket, wire[k] = "open",
                    NEW s \in SessionId \ member'[k]
             PROVE  EndsToCome(k, s)'
  BY DEF JoinedInv
<1> DEFINE q == down[k]
           r == down'[k]
<1>1. q \in Seq(DownMsg) /\ Reaches(k)
  BY DEF TokenInv, MessagesOK, Reaches
<1>2. r = IF k \in K THEN q \o ms ELSE q
  BY <1>1 DEF Sent
<1> HIDE DEF q, r
<1>3. /\ Len(q) \in Nat /\ DOMAIN q = 1..Len(q)
      /\ DOMAIN q \subseteq DOMAIN r
      /\ \A n \in DOMAIN q : r[n] = q[n]
      /\ k \in K => /\ DOMAIN r = 1..(Len(q) + Len(ms))
                    /\ \A n \in 1..Len(ms) : r[Len(q) + n] = ms[n]
      /\ k \notin K => DOMAIN r = DOMAIN q
  BY <1>1, <1>2
<1>l. DOMAIN ms = 1..Len(ms) /\ Len(ms) \in Nat
  OBVIOUS
<1>4. ASSUME NEW n \in DOMAIN r, Enters(r[n], s)
      PROVE  n \in DOMAIN q
  <2> SUFFICES ASSUME n \notin DOMAIN q
               PROVE  FALSE
    OBVIOUS
  <2>1. k \in K
    BY <1>3
  <2>a. n \in 1..(Len(q) + Len(ms)) /\ n \notin 1..Len(q) /\ Len(q) \in Nat
    BY <1>3, <2>1
  <2>2. n - Len(q) \in 1..Len(ms) /\ n = Len(q) + (n - Len(q))
    BY ONLY <1>l, <2>a
  <2>3. r[n] = ms[n - Len(q)]
    BY <1>3, <2>1, <2>2
  <2>4. n - Len(q) \in DOMAIN ms /\ Enters(ms[n - Len(q)], s)
    BY <1>l, <1>4, <2>2, <2>3
  <2> QED BY <2>1, <2>4
<1>5. CASE s \notin member[k]
  <2>1. EndsToCome(k, s)
    BY <1>5 DEF JoinedInv
  <2>2. /\ session = s => \E n \in DOMAIN q : Ends(q[n], s)
        /\ \A n \in DOMAIN q : Enters(q[n], s) =>
             \E m \in DOMAIN q : n < m /\ Ends(q[m], s)
    BY <2>1 DEF EndsToCome, q
  <2>3. session = s => \E n \in DOMAIN r : Ends(r[n], s)
    BY <1>3, <2>2
  <2>4. ASSUME NEW n \in DOMAIN r, Enters(r[n], s)
        PROVE  \E m \in DOMAIN r : n < m /\ Ends(r[m], s)
    <3>1. n \in DOMAIN q /\ Enters(q[n], s)
      BY <1>3, <1>4, <2>4
    <3> QED BY <1>3, <2>2, <3>1
  <2> QED BY <2>3, <2>4 DEF EndsToCome, r
<1>6. CASE s \in member[k]
  <2>1. PICK j \in DOMAIN ms : k \in K /\ Ends(ms[j], s)
    BY <1>6
  <2>a. /\ j \in 1..Len(ms) /\ Len(q) \in Nat
        /\ DOMAIN q = 1..Len(q) /\ DOMAIN r = 1..(Len(q) + Len(ms))
    BY <1>l, <1>3, <2>1
  <2>b. Len(q) + j \in DOMAIN r /\ \A n \in DOMAIN q : n < Len(q) + j
    BY ONLY <1>l, <2>a
  <2>c. r[Len(q) + j] = ms[j]
    BY <1>3, <2>1, <2>a
  <2>2. /\ Len(q) + j \in DOMAIN r /\ Ends(r[Len(q) + j], s)
        /\ \A n \in DOMAIN q : n < Len(q) + j
    BY <2>1, <2>b, <2>c
  <2>3. \A n \in DOMAIN r : Enters(r[n], s) =>
          \E m \in DOMAIN r : n < m /\ Ends(r[m], s)
    BY <1>4, <2>2
  <2> QED BY <2>2, <2>3 DEF EndsToCome, r
<1> QED BY <1>5, <1>6

\* What the client makes of one message.
LEMMA JoinedMessage ==
  ASSUME ConnectionInv, TokenInv, JoinedInv, OnTheWay', NEW k \in Socket,
         HandleMessage(k)
  PROVE  JoinedInv'
<1> DEFINE q == down[k]
           msg == Head(q)
<1>0. /\ q \in Seq(DownMsg) /\ q # <<>> /\ Reaches(k)
      /\ down' = [down EXCEPT ![k] = Tail(q)]
      /\ UNCHANGED <<wire, registered, member>>
      /\ HandleEntered(msg) \/ HandleAnswer(msg) \/ HandleEnded(msg)
  BY DEF HandleMessage, Reaches, TokenInv, MessagesOK, server
<1>1. \A l \in Socket : Reaches(l) => l = k
  BY <1>0 DEF ConnectionInv, Reaches
<1> SUFFICES ASSUME k \in registered, wire[k] = "open", NEW s \in SessionId \ member[k]
             PROVE  EndsToCome(k, s)'
  BY <1>0, <1>1 DEF JoinedInv, Reaches
<1>2. EndsToCome(k, s)
  BY DEF JoinedInv
<1>3. /\ down'[k] = Tail(q) /\ q[1] = msg /\ Len(q) \in Nat /\ Len(q) > 0
      /\ DOMAIN q = 1..Len(q) /\ DOMAIN Tail(q) = 1..(Len(q) - 1)
      /\ \A n \in 1..(Len(q) - 1) : Tail(q)[n] = q[n + 1]
  BY <1>0 DEF TokenInv, MessagesOK
<1>q. /\ session = s => \E n \in DOMAIN q : Ends(q[n], s)
      /\ \A n \in DOMAIN q : Enters(q[n], s) =>
           \E m \in DOMAIN q : n < m /\ Ends(q[m], s)
  BY <1>2 DEF EndsToCome
<1>4. session' = s => \/ session = s /\ ~Ends(msg, s)
                      \/ Enters(msg, s)
  <2>1. CASE HandleEntered(msg)
    BY <2>1 DEF HandleEntered, Enters
  <2>2. CASE HandleAnswer(msg)
    BY <2>2 DEF HandleAnswer, Ends
  <2>3. CASE HandleEnded(msg)
    BY <2>3, ClientAssumption DEF HandleEnded, Ends, Forget
  <2> QED BY <1>0, <2>1, <2>2, <2>3
<1> HIDE DEF q, msg
<1>5. ASSUME session' = s
      PROVE  \E n \in 1..(Len(q) - 1) : Ends(Tail(q)[n], s)
  <2>1. PICK n \in DOMAIN q : n # 1 /\ Ends(q[n], s)
    <3>1. CASE session = s /\ ~Ends(msg, s)
      BY <1>3, <1>q, <3>1
    <3>2. CASE Enters(msg, s)
      BY <1>3, <1>q, <3>2
    <3> QED BY <1>4, <1>5, <3>1, <3>2
  <2>2. n - 1 \in 1..(Len(q) - 1) /\ Tail(q)[n - 1] = q[(n - 1) + 1]
    BY <1>3, <2>1
  <2>3. (n - 1) + 1 = n
    BY <1>3, <2>1
  <2> QED BY <2>1, <2>2, <2>3
<1>6. ASSUME NEW n \in 1..(Len(q) - 1), Enters(Tail(q)[n], s)
      PROVE  \E m \in 1..(Len(q) - 1) : n < m /\ Ends(Tail(q)[m], s)
  <2>1. PICK m \in DOMAIN q : n + 1 < m /\ Ends(q[m], s)
    BY <1>3, <1>6, <1>q
  <2>2. m - 1 \in 1..(Len(q) - 1) /\ Tail(q)[m - 1] = q[(m - 1) + 1] /\ n < m - 1
    BY <1>3, <2>1
  <2>3. (m - 1) + 1 = m
    BY <1>3, <2>1
  <2> QED BY <2>1, <2>2, <2>3
<1> QED BY <1>3, <1>5, <1>6 DEF EndsToCome

\* What the server makes of one request.
LEMMA JoinedServer ==
  ASSUME TokenInv, JoinedInv, OnTheWay', NEW k \in Socket, ServerHandles(k)
  PROVE  JoinedInv'
<1> DEFINE m == Head(up[k])
<1>0. /\ up[k] \in Seq(UpMsg) /\ up[k] # <<>>
      /\ UNCHANGED <<registered, wire, session>>
      /\ \/ GrantSpawn(k, m) \/ GrantJoin(k, m) \/ GrantList(k, m)
         \/ GrantLeave(k, m) \/ GrantClose(k, m) \/ TakeData(k, m)
         \/ Refuse(k, m)
  BY DEF ServerHandles, TokenInv, MessagesOK, activity
<1>1. m \in UpMsg
  BY <1>0
<1> HIDE DEF m
<1>m. /\ m.session \in Tokens /\ m.token \in {NoSession, m.session}
      /\ m.id \in RequestId \cup {None}
      /\ m.type \in Correlated => m.id \in RequestId
      /\ None \notin RequestId /\ SessionId \subseteq Tokens /\ NoSession \in Tokens
      /\ live \subseteq SessionId /\ member \in [Socket -> SUBSET Tokens]
  BY <1>1 DEF UpMsg, RequestId, None, Tokens, TokenInv, TokensKept, JoinedInv
<1>s. ASSUME UNCHANGED <<down, member>>
      PROVE  JoinedInv'
  BY <1>0, <1>m, <1>s DEF JoinedInv, EndsToCome
<1>a. ASSUME NEW x \in DownMsg, down' = Sent({k}, <<x>>),
             member' \in [Socket -> SUBSET Tokens],
             \A l \in Socket \ {k} : member'[l] = member[l],
             \A s \in member[k] \ member'[k] : Ends(x, s),
             \A s \in SessionId : Enters(x, s) => s \in member'[k]
      PROVE  JoinedInv'
  <2> DEFINE ms == <<x>>
  <2>1. ms \in Seq(DownMsg) /\ DOMAIN ms = {1} /\ ms[1] = x /\ down' = Sent({k}, ms)
    BY <1>a
  <2> HIDE DEF ms
  <2>2. \A l \in registered \cap Socket : \A s \in member[l] \ member'[l] :
          l \in {k} /\ \E n \in DOMAIN ms : Ends(ms[n], s)
    BY <1>a, <2>1
  <2>3. \A l \in registered \cap Socket : l \in {k} =>
          \A s \in SessionId : \A n \in DOMAIN ms :
            Enters(ms[n], s) => s \in member'[l]
    BY <1>a, <2>1
  <2> QED BY <1>0, <1>a, <2>1, <2>2, <2>3, JoinedTold
<1>b. ASSUME NEW type \in {"sessionList", "error"}, NEW s, NEW t, NEW i
      PROVE  /\ \A u : ~Enters(Tell(type, s, t, i), u)
             /\ \A j, u : ~Enters([Tell(type, s, t, i) EXCEPT !.joinable = j], u)
  BY <1>b DEF Enters, Tell
<1>2. CASE GrantSpawn(k, m)
  <2>1. PICK s \in SessionId \ used :
          /\ member' = [member EXCEPT ![k] = @ \cup {s}]
          /\ down' = Sent({k}, <<Tell("spawned", s, s, m.id)>>)
    BY <1>2 DEF GrantSpawn
  <2>2. Tell("spawned", s, s, m.id) \in DownMsg
    BY <1>m, <1>2, TellIsDownMsg DEF GrantSpawn, Correlated, Granting
  <2>3. \A u : Enters(Tell("spawned", s, s, m.id), u) => u = s
    BY DEF Enters, Tell
  <2>4. /\ member' \in [Socket -> SUBSET Tokens]
        /\ member'[k] = member[k] \cup {s}
        /\ \A l \in Socket \ {k} : member'[l] = member[l]
    BY <1>m, <2>1
  <2> QED BY <1>a, <2>1, <2>2, <2>3, <2>4
<1>3. CASE GrantJoin(k, m)
  <2> DEFINE t == IF m.token = m.session THEN m.token ELSE NoSession
  <2>1. /\ down' = Sent({k}, <<Tell("joined", m.session, t, m.id)>>)
        /\ member' = [member EXCEPT ![k] = @ \cup {m.session}]
    BY <1>3 DEF GrantJoin
  <2>2. Tell("joined", m.session, t, m.id) \in DownMsg
    BY <1>m, <1>3, TellIsDownMsg DEF GrantJoin, Correlated, Granting
  <2>3. \A u : Enters(Tell("joined", m.session, t, m.id), u) => u = m.session
    BY DEF Enters, Tell
  <2>4. /\ member' \in [Socket -> SUBSET Tokens]
        /\ member'[k] = member[k] \cup {m.session}
        /\ \A l \in Socket \ {k} : member'[l] = member[l]
    BY <1>m, <2>1
  <2> QED BY <1>a, <2>1, <2>2, <2>3, <2>4
<1>4. CASE GrantList(k, m)
  <2> DEFINE x == Tell("sessionList", NoSession, NoSession, m.id)
             y == [x EXCEPT !.joinable = live \cap Shared]
  <2>1. down' = Sent({k}, <<y>>) /\ UNCHANGED member
    BY <1>4 DEF GrantList
  <2>2. y \in DownMsg
    <3>1. x \in DownMsg
      BY <1>m, <1>4, TellIsDownMsg DEF GrantList, Correlated, Granting
    <3> HIDE DEF x
    <3> QED BY <1>m, <3>1 DEF DownMsg
  <2>3. \A u : ~Enters(y, u)
    BY <1>b
  <2> HIDE DEF y
  <2> QED BY <1>a, <1>m, <2>1, <2>2, <2>3
<1>5. CASE GrantLeave(k, m)
  <2> DEFINE x == Tell("left", m.session, NoSession, m.id)
  <2>1. /\ down' = Sent({k}, <<x>>)
        /\ member' = [member EXCEPT ![k] = @ \ {m.session}]
    BY <1>5 DEF GrantLeave
  <2>2. x \in DownMsg /\ Ends(x, m.session) /\ \A u : ~Enters(x, u)
    BY <1>m, TellIsDownMsg DEF Granting, Ends, Enters, Tell
  <2>3. /\ member' \in [Socket -> SUBSET Tokens]
        /\ member'[k] = member[k] \ {m.session}
        /\ \A l \in Socket \ {k} : member'[l] = member[l]
    BY <1>m, <2>1
  <2> HIDE DEF x
  <2> QED BY <1>a, <2>1, <2>2, <2>3
<1>6. CASE GrantClose(k, m)
  <2> DEFINE x == Tell("sessionClosed", m.session, NoSession, None)
             ms == <<x>>
  <2>1. /\ down' = Sent(Members(m.session), ms)
        /\ member' = [l \in Socket |-> member[l] \ {m.session}]
    BY <1>6 DEF GrantClose, EndSession
  <2>2. x \in DownMsg /\ Ends(x, m.session) /\ \A u : ~Enters(x, u)
    BY <1>m, TellIsDownMsg DEF Granting, Ends, Enters, Tell
  <2> HIDE DEF x
  <2>3. ms \in Seq(DownMsg) /\ DOMAIN ms = {1} /\ ms[1] = x
    BY <2>2
  <2> HIDE DEF ms
  <2>4. member' \in [Socket -> SUBSET Tokens]
    BY <1>m, <2>1
  <2>5. \A l \in registered \cap Socket : \A s \in member[l] \ member'[l] :
          l \in Members(m.session) /\ \E n \in DOMAIN ms : Ends(ms[n], s)
    BY <2>1, <2>2, <2>3 DEF Members
  <2>6. \A s \in SessionId : \A n \in DOMAIN ms : ~Enters(ms[n], s)
    BY <2>2, <2>3
  <2> QED BY <1>0, <2>1, <2>3, <2>4, <2>5, <2>6, JoinedTold
<1>7. CASE TakeData(k, m)
  BY <1>7, <1>s DEF TakeData
<1>8. CASE Refuse(k, m)
  <2> DEFINE x == Tell("error", m.session, NoSession, m.id)
  <2>1. down' = Sent({k}, <<x>>) /\ UNCHANGED member
    BY <1>8 DEF Refuse
  <2>2. x \in DownMsg /\ \A u : ~Enters(x, u)
    BY <1>b, <1>m, TellIsDownMsg DEF Granting
  <2> HIDE DEF x
  <2> QED BY <1>a, <1>m, <2>1, <2>2
<1> QED BY <1>0, <1>2, <1>3, <1>4, <1>5, <1>6, <1>7, <1>8
LEMMA JoinedStep ==
  ASSUME ConnectionInv, TokenInv, JoinedInv, [ClientNext]_vars
  PROVE  JoinedInv'
<1>t. OnTheWay'
  BY OnTheWayStep DEF JoinedInv
<1>w. /\ wire \in [Socket -> WireStates] /\ down \in [Socket -> Seq(DownMsg)]
      /\ member \in [Socket -> SUBSET Tokens]
  BY DEF ConnectionInv, TokenInv, MessagesOK, JoinedInv
\* A connection that is open and that the server still sees was so before.
<1>0. ASSUME session' \in {session, NoSession}, member' \in [Socket -> SUBSET Tokens],
             \A l \in registered' \cap Socket : wire'[l] = "open" =>
               /\ l \in registered /\ wire[l] = "open"
               /\ member'[l] = member[l] /\ down'[l] = down[l]
      PROVE  JoinedInv'
  <2> SUFFICES ASSUME NEW l \in registered' \cap Socket, wire'[l] = "open",
                      NEW s \in SessionId \ member'[l]
               PROVE  EndsToCome(l, s)'
    BY <1>0, <1>t DEF JoinedInv
  <2>1. EndsToCome(l, s) /\ down'[l] = down[l]
    BY <1>0 DEF JoinedInv
  <2>2. session' = s => session = s
    BY <1>0, ClientAssumption
  <2> QED BY <2>1, <2>2 DEF EndsToCome
<1>1. ASSUME NEW k \in Socket, Dial(k), UNCHANGED <<session, member, down, registered>>
      PROVE  JoinedInv'
  <2>1. wire' = [wire EXCEPT ![k] = "connecting"]
    BY <1>1 DEF Dial
  <2>2. \A l \in registered' \cap Socket : wire'[l] = "open" =>
          l \in registered /\ wire[l] = "open"
    BY <1>1, <1>w, <2>1
  <2> QED BY <1>0, <1>1, <1>w, <2>2
<1>2. ASSUME UNCHANGED <<session, member, down, registered, wire>>
      PROVE  JoinedInv'
  BY <1>0, <1>2, <1>w
<1>3. ASSUME NEW k \in Socket, ConnectCalled(k)
      PROVE  JoinedInv'
  BY <1>1, <1>3 DEF ConnectCalled, activity, server
<1>4. CASE ReconnectTimerFires
  <2>1. UNCHANGED <<session, member, down, registered>>
    BY <1>4 DEF ReconnectTimerFires, activity, server
  <2>2. UNCHANGED wire \/ \E k \in Socket : Dial(k)
    BY <1>4 DEF ReconnectTimerFires
  <2> QED BY <1>1, <1>2, <2>1, <2>2
<1>5. CASE DisconnectCalled
  <2>1. /\ UNCHANGED <<session, member, down, registered>>
        /\ \A l \in Socket : wire'[l] = "open" => wire[l] = "open"
    BY <1>5, <1>w DEF DisconnectCalled, activity, server
  <2> QED BY <1>0, <1>w, <2>1
<1>6. ASSUME NEW k \in Socket, SocketOpens(k)
      PROVE  JoinedInv'
  <2>1. /\ wire[k] = "connecting" /\ wire' = [wire EXCEPT ![k] = "open"]
        /\ registered' = registered \cup {k}
        /\ UNCHANGED <<session, member, down>>
    BY <1>6 DEF SocketOpens, activity
  <2>2. k = ws /\ down[k] = <<>> /\ session = NoSession
    BY <2>1, SilentUnlessUp DEF ConnectionInv, JoinedInv, Reaches
  <2> SUFFICES ASSUME NEW l \in registered' \cap Socket, wire'[l] = "open",
                      NEW s \in SessionId \ member'[l]
               PROVE  EndsToCome(l, s)'
    BY <1>t, <1>w, <2>1 DEF JoinedInv
  <2>3. CASE l = k
    <3>1. DOMAIN down'[k] = {} /\ session' # s
      BY <2>1, <2>2, ClientAssumption
    <3> QED BY <2>3, <3>1 DEF EndsToCome
  <2>4. CASE l # k
    <3>1. EndsToCome(l, s)
      BY <1>w, <2>1, <2>4 DEF JoinedInv
    <3> QED BY <2>1, <3>1 DEF EndsToCome
  <2> QED BY <2>3, <2>4
<1>7. ASSUME NEW k \in Socket, SocketFails(k)
      PROVE  JoinedInv'
  <2>1. /\ wire' = [wire EXCEPT ![k] = "failed"]
        /\ UNCHANGED <<session, member, down, registered>>
    BY <1>7 DEF SocketFails, activity, server
  <2> QED BY <1>0, <1>w, <2>1
<1>8. ASSUME NEW k \in Socket, SocketCloses(k)
      PROVE  JoinedInv'
  <2>1. /\ wire' = [wire EXCEPT ![k] = "closed"] /\ down' = [down EXCEPT ![k] = <<>>]
        /\ UNCHANGED <<registered, member>>
        /\ session' \in {session, NoSession}
    BY <1>8 DEF SocketCloses, Closes, Forget, activity, server
  <2> QED BY <1>0, <1>w, <2>1
<1>9. ASSUME NEW k \in Socket, HandleMessage(k)
      PROVE  JoinedInv'
  BY <1>9, <1>t, JoinedMessage
<1>10. ASSUME NEW k \in Socket, ServerHandles(k)
       PROVE  JoinedInv'
  BY <1>10, <1>t, JoinedServer
<1>11. ASSUME NEW s \in SessionId, SessionEnds(s)
       PROVE  JoinedInv'
  <2> DEFINE x == Tell("exit", s, NoSession, None)
             y == Tell("sessionClosed", s, NoSession, None)
             ms == <<x, y>>
  <2>1. /\ down' = Sent(Members(s), ms)
        /\ member' = [l \in Socket |-> member[l] \ {s}]
        /\ UNCHANGED <<registered, wire, session>>
    BY <1>11 DEF SessionEnds, EndSession, activity
  <2>2. /\ x \in DownMsg /\ y \in DownMsg /\ Ends(x, s)
        /\ \A u : ~Enters(x, u) /\ ~Enters(y, u)
    BY TellIsDownMsg DEF Granting, Ends, Enters, Tell, Tokens
  <2> HIDE DEF x, y
  <2>3. ms \in Seq(DownMsg) /\ DOMAIN ms = {1, 2} /\ ms[1] = x /\ ms[2] = y
    BY <2>2
  <2> HIDE DEF ms
  <2>4. member' \in [Socket -> SUBSET Tokens]
    BY <1>w, <2>1
  <2>5. \A l \in registered \cap Socket : \A u \in member[l] \ member'[l] :
          l \in Members(s) /\ \E n \in DOMAIN ms : Ends(ms[n], u)
    BY <2>1, <2>2, <2>3 DEF Members
  <2>6. \A u \in SessionId : \A n \in DOMAIN ms : ~Enters(ms[n], u)
    BY <2>2, <2>3
  <2> QED BY <1>t, <2>1, <2>3, <2>4, <2>5, <2>6, JoinedTold
<1>12. ASSUME NEW k \in Socket, ServerLosesSocket(k)
       PROVE  JoinedInv'
  <2>1. /\ registered' = registered \ {k} /\ member' = [member EXCEPT ![k] = {}]
        /\ UNCHANGED <<session, wire, down>>
    BY <1>12 DEF ServerLosesSocket, activity
  <2> QED BY <1>0, <1>w, <2>1
<1>13. ASSUME NEW s \in SessionId, JoinCalled(s) \/ LeaveCalled(s)
       PROVE  JoinedInv'
  BY <1>2, <1>13 DEF JoinCalled, LeaveCalled, Request, Notify, activity, server
<1>14. CASE \/ SpawnCalled \/ ListSessionsCalled \/ KillCalled \/ WriteCalled
            \/ ClearPreviousSessionId \/ UNCHANGED vars
  BY <1>2, <1>14 DEF SpawnCalled, ListSessionsCalled, KillCalled, WriteCalled, Request,
       SendForActiveSession, Notify, ClearPreviousSessionId, vars, activity, server
<1> QED BY <1>3, <1>4, <1>5, <1>6, <1>7, <1>8, <1>9, <1>10, <1>11, <1>12, <1>13, <1>14
        DEF ClientNext

LEMMA JoinedInit == ClientInit => JoinedInv
BY DEF ClientInit, JoinedInv, OnTheWay, Tokens

LEMMA JoinedAlways == ClientSafe => []JoinedInv
BY JoinedInit, JoinedStep, ConnectionAlways, TokenAlways, PTL DEF ClientSafe

\* Once nothing is on the way the client's active session is one its connection is
\* in on the server: whatever ends the connection's part in a session is told to it
\* after whatever made it enter, so that no order of answers, departures and ends
\* leaves it in a session it is not in.
THEOREM ClientSessionIsJoined == ClientSafe => []ActiveSessionIsJoined
<1>1. ConnectionInv /\ TokenInv /\ JoinedInv => ActiveSessionIsJoined
  <2> SUFFICES ASSUME ConnectionInv, TokenInv, JoinedInv, Connected,
                      session # NoSession, ws \in registered, wire[ws] = "open",
                      down[ws] = <<>>
               PROVE  session \in member[ws]
    BY DEF ActiveSessionIsJoined
  <2>1. ws \in Socket /\ session \in SessionId
    BY DEF Connected, ConnectionInv, TokenInv, TokensKept, Tokens
  <2>2. ~EndsToCome(ws, session)
    BY DEF EndsToCome
  <2> QED BY <2>1, <2>2 DEF JoinedInv
<1> QED BY <1>1, ConnectionAlways, TokenAlways, JoinedAlways, PTL

-----------------------------------------------------------------------------
(* Lists of sessions.                                                       *)

\* Messages about ends, and lists of what is live, at the end of what is on the way.
LEMMA OfferTold ==
  ASSUME TokenInv, OfferInv, OnTheWay', NEW K, NEW ms \in Seq(DownMsg),
         down' = Sent(K, ms), UNCHANGED gone,
         used \subseteq used', live' \subseteq used', live' \cap used \subseteq live,
         live' \subseteq SessionId,
         OwnersUsed',
         \A n \in DOMAIN ms : \A s \in Tokens :
           TellsEnd(ms[n], s) => s \in (used' \cup {NoSession}) \ live',
         \A n \in DOMAIN ms : \A s \in ms[n].joinable :
           s \in live /\ \A j \in DOMAIN ms : ~TellsEnd(ms[j], s)
  PROVE  OfferInv'
<1>0. /\ live \subseteq used /\ gone \cap live = {} /\ gone \subseteq used \cup {NoSession}
      /\ NoSession \notin SessionId
  BY ClientAssumption DEF OfferInv
<1>1. live' \subseteq used' /\ gone' \cap live' = {} /\ gone' \subseteq used' \cup {NoSession}
  BY <1>0
<1>2. ASSUME NEW k \in Socket, NEW n \in DOMAIN down'[k]
      PROVE  /\ \A s \in Tokens : TellsEnd(down'[k][n], s) =>
                  s \in (used' \cup {NoSession}) \ live'
             /\ \A s \in down'[k][n].joinable :
                  s \notin gone /\ \A j \in 1..(n - 1) : ~TellsEnd(down'[k][j], s)
  <2> DEFINE q == down[k]
             r == down'[k]
  <2>1. q \in Seq(DownMsg)
    BY DEF TokenInv, MessagesOK
  <2>2. r = q \/ r = q \o ms
    BY DEF Sent
  <2>q. /\ \A i \in DOMAIN q : \A s \in Tokens : TellsEnd(q[i], s) =>
             s \in (used \cup {NoSession}) \ live
        /\ \A i \in DOMAIN q : \A s \in q[i].joinable :
             s \notin gone /\ \A j \in 1..(i - 1) : ~TellsEnd(q[j], s)
    BY DEF OfferInv
  <2>j. \A i \in DOMAIN ms : ms[i].joinable \subseteq SessionId
    BY DEF DownMsg
  <2>n. n \in DOMAIN r
    OBVIOUS
  <2> SUFFICES /\ \A s \in Tokens : TellsEnd(r[n], s) =>
                    s \in (used' \cup {NoSession}) \ live'
               /\ \A s \in r[n].joinable :
                    s \notin gone /\ \A j \in 1..(n - 1) : ~TellsEnd(r[j], s)
    OBVIOUS
  <2> HIDE DEF q, r
  <2>l. /\ DOMAIN ms = 1..Len(ms) /\ Len(ms) \in Nat
        /\ DOMAIN q = 1..Len(q) /\ Len(q) \in Nat
    BY <2>1
  <2>3. CASE n \in DOMAIN q /\ \A j \in DOMAIN q : r[j] = q[j]
    <3>1. \A j \in 1..(n - 1) : j \in DOMAIN q
      BY ONLY <2>l, <2>3
    <3>2. ASSUME NEW s \in Tokens, TellsEnd(r[n], s)
          PROVE  s \in (used' \cup {NoSession}) \ live'
      <4>1. s \in (used \cup {NoSession}) \ live
        BY <2>3, <2>q, <3>2
      <4> QED BY <1>0, <4>1
    <3> QED BY <2>3, <2>q, <3>1, <3>2
  <2>4. CASE r = q \o ms /\ n \notin DOMAIN q
    <3>1. /\ DOMAIN r = 1..(Len(q) + Len(ms))
          /\ \A i \in 1..Len(q) : r[i] = q[i]
          /\ \A i \in 1..Len(ms) : r[Len(q) + i] = ms[i]
      BY <2>1, <2>4
    <3>2. n \in 1..(Len(q) + Len(ms)) /\ n \notin 1..Len(q)
      BY <2>4, <2>l, <2>n, <3>1
    <3>3. PICK i \in 1..Len(ms) : n = Len(q) + i
      <4>1. n - Len(q) \in 1..Len(ms) /\ n = Len(q) + (n - Len(q))
        BY ONLY <2>l, <3>2
      <4> QED BY <4>1
    <3>4. r[n] = ms[i] /\ i \in DOMAIN ms
      BY <2>l, <3>1, <3>3
    <3>5. ASSUME NEW s \in ms[i].joinable, NEW j \in 1..(n - 1)
          PROVE  s \notin gone /\ ~TellsEnd(r[j], s)
      <4>1. s \in live /\ s \notin gone /\ s \in Tokens
        BY <1>0, <2>j, <3>4 DEF Tokens
      <4>2. CASE j \in DOMAIN q
        BY <2>l, <2>q, <3>1, <4>1, <4>2
      <4>3. CASE j \notin DOMAIN q
        <5>1. j - Len(q) \in 1..Len(ms) /\ j = Len(q) + (j - Len(q))
          BY ONLY <2>l, <3>2, <3>3, <4>3
        <5>2. r[j] = ms[j - Len(q)] /\ j - Len(q) \in DOMAIN ms
          BY <2>l, <3>1, <5>1
        <5> QED BY <3>4, <4>1, <5>2
      <4> QED BY <4>2, <4>3
    <3>6. \A s \in Tokens : TellsEnd(r[n], s) => s \in (used' \cup {NoSession}) \ live'
      BY <3>4
    <3>7. n - 1 \in Nat
      BY ONLY <2>l, <3>2
    <3>8. ASSUME NEW s \in ms[i].joinable
          PROVE  s \notin gone
      BY <1>0, <3>4
    <3> QED BY <3>4, <3>5, <3>6, <3>8
  <2>5. n \in DOMAIN q => \A j \in DOMAIN q : r[j] = q[j]
    BY <2>1, <2>2, <2>l
  <2>6. n \notin DOMAIN q => r = q \o ms
    BY <2>2, <2>n
  <2> QED BY <2>3, <2>4, <2>5, <2>6
<1>3. OfferInv'
  BY <1>1, <1>2 DEF OfferInv
<1> QED BY <1>3

\* What the client makes of one message.
LEMMA OfferMessage ==
  ASSUME ConnectionInv, TokenInv, OfferInv, OnTheWay', NEW k \in Socket,
         HandleMessage(k)
  PROVE  OfferInv'
<1> DEFINE q == down[k]
           msg == Head(q)
<1>0. /\ q \in Seq(DownMsg) /\ q # <<>> /\ Reaches(k)
      /\ down' = [down EXCEPT ![k] = Tail(q)]
      /\ UNCHANGED <<live, used, owner>>
      /\ HandleEntered(msg) \/ HandleAnswer(msg) \/ HandleEnded(msg)
  BY DEF HandleMessage, Reaches, TokenInv, MessagesOK, server
<1>1. \A l \in Socket : l # k => down'[l] = <<>>
  BY <1>0 DEF ConnectionInv, Reaches, OfferInv, OnTheWay
<1>2. /\ down'[k] = Tail(q) /\ q[1] = msg /\ Len(q) \in Nat /\ Len(q) > 0
      /\ DOMAIN q = 1..Len(q) /\ DOMAIN Tail(q) = 1..(Len(q) - 1)
      /\ \A n \in 1..(Len(q) - 1) : Tail(q)[n] = q[n + 1]
  BY <1>0 DEF TokenInv, MessagesOK
<1>q. /\ \A i \in DOMAIN q : \A s \in Tokens : TellsEnd(q[i], s) =>
           s \in (used \cup {NoSession}) \ live
      /\ \A i \in DOMAIN q : \A s \in q[i].joinable :
           s \notin gone /\ \A j \in 1..(i - 1) : ~TellsEnd(q[j], s)
  BY DEF OfferInv
<1>m. msg.session \in Tokens
  BY <1>0 DEF DownMsg
<1>3. \/ gone' = gone
      \/ gone' = gone \cup {msg.session} /\ TellsEnd(msg, msg.session)
  BY <1>0 DEF HandleEntered, HandleAnswer, HandleEnded, TellsEnd
<1> HIDE DEF q, msg
<1>4. gone' \cap live = {} /\ gone' \subseteq used \cup {NoSession}
  <2>1. gone \cap live = {} /\ gone \subseteq used \cup {NoSession}
    BY DEF OfferInv
  <2>2. TellsEnd(msg, msg.session) => msg.session \in (used \cup {NoSession}) \ live
    BY <1>2, <1>m, <1>q
  <2> QED BY <1>3, <2>1, <2>2
<1>5. ASSUME NEW n \in 1..(Len(q) - 1)
      PROVE  /\ \A s \in Tokens : TellsEnd(Tail(q)[n], s) =>
                  s \in (used \cup {NoSession}) \ live
             /\ \A s \in Tail(q)[n].joinable :
                  s \notin gone' /\ \A j \in 1..(n - 1) : ~TellsEnd(Tail(q)[j], s)
  <2>1. /\ n + 1 \in DOMAIN q /\ Tail(q)[n] = q[n + 1] /\ 1 \in 1..((n + 1) - 1)
        /\ \A j \in 1..(n - 1) : /\ j \in 1..(Len(q) - 1)
                                 /\ j + 1 \in 1..((n + 1) - 1)
    BY <1>2
  <2>2. \A j \in 1..(n - 1) : Tail(q)[j] = q[j + 1]
    BY <1>2, <2>1
  <2>3. ASSUME NEW s \in q[n + 1].joinable
        PROVE  s \notin gone' /\ \A j \in 1..(n - 1) : ~TellsEnd(Tail(q)[j], s)
    <3>1. s \notin gone /\ \A j \in 1..((n + 1) - 1) : ~TellsEnd(q[j], s)
      BY <1>q, <2>1
    <3>2. ~TellsEnd(msg, s)
      BY <1>2, <2>1, <3>1
    <3>3. s \notin gone'
      BY <1>3, <3>1, <3>2
    <3> QED BY <2>1, <2>2, <3>1, <3>3
  <2>4. \A s \in Tokens : TellsEnd(q[n + 1], s) => s \in (used \cup {NoSession}) \ live
    BY <1>q, <2>1
  <2> QED BY <2>1, <2>3, <2>4
<1>6. ASSUME NEW l \in Socket, NEW n \in DOMAIN down'[l]
      PROVE  l = k /\ n \in 1..(Len(q) - 1)
  BY <1>1, <1>2, <1>6
<1>7. live' \subseteq used' /\ OwnersUsed'
  BY <1>0 DEF OfferInv, OwnersUsed
<1> QED BY <1>0, <1>2, <1>4, <1>5, <1>6, <1>7 DEF OfferInv

\* What the server makes of one request.
LEMMA OfferServer ==
  ASSUME TokenInv, OfferInv, OnTheWay', NEW k \in Socket, ServerHandles(k)
  PROVE  OfferInv'
<1> DEFINE m == Head(up[k])
<1>0. /\ up[k] \in Seq(UpMsg) /\ up[k] # <<>> /\ UNCHANGED gone
      /\ \/ GrantSpawn(k, m) \/ GrantJoin(k, m) \/ GrantList(k, m)
         \/ GrantLeave(k, m) \/ GrantClose(k, m) \/ TakeData(k, m)
         \/ Refuse(k, m)
  BY DEF ServerHandles, TokenInv, MessagesOK, seen
<1>1. m \in UpMsg
  BY <1>0
<1> HIDE DEF m
<1>m. /\ m.session \in Tokens /\ m.token \in {NoSession, m.session}
      /\ m.id \in RequestId \cup {None}
      /\ m.type \in Correlated => m.id \in RequestId
      /\ None \notin RequestId /\ k # None
      /\ SessionId \subseteq Tokens /\ NoSession \in Tokens
      /\ live \subseteq SessionId /\ used \subseteq SessionId /\ live \subseteq used
      /\ OwnersUsed
  BY <1>1 DEF UpMsg, RequestId, Socket, None, Tokens, TokenInv, TokensKept, OfferInv
\* An answer that neither tells of an end nor lists anything.
<1>a. ASSUME NEW type \in {"spawned", "joined", "left", "error"},
             NEW s \in Tokens, NEW t \in {NoSession, s},
             type \in Granting => m.id \in RequestId,
             down' = Sent({k}, <<Tell(type, s, t, m.id)>>),
             used \subseteq used', live' \subseteq used', live' \cap used \subseteq live,
             live' \subseteq SessionId,
             OwnersUsed'
      PROVE  OfferInv'
  <2> DEFINE x == Tell(type, s, t, m.id)
             ms == <<x>>
  <2>1. x \in DownMsg
    BY <1>a, <1>m, TellIsDownMsg DEF Granting
  <2>2. (\A u : ~TellsEnd(x, u)) /\ x.joinable = {}
    BY DEF TellsEnd, Tell
  <2> HIDE DEF x
  <2>3. ms \in Seq(DownMsg) /\ DOMAIN ms = {1} /\ ms[1] = x /\ down' = Sent({k}, ms)
    BY <1>a, <2>1 DEF x
  <2> HIDE DEF ms
  <2>4. \A n \in DOMAIN ms : /\ \A u : ~TellsEnd(ms[n], u)
                             /\ ms[n].joinable = {}
    BY <2>2, <2>3
  <2> QED BY <1>0, <1>a, <2>3, <2>4, OfferTold
<1>2. CASE GrantSpawn(k, m)
  <2>1. PICK s \in SessionId \ used :
          /\ live' = live \cup {s} /\ used' = used \cup {s}
          /\ owner' = [owner EXCEPT ![s] = k]
          /\ down' = Sent({k}, <<Tell("spawned", s, s, m.id)>>)
    BY <1>2 DEF GrantSpawn
  <2>2. OwnersUsed'
    BY <1>m, <2>1 DEF OwnersUsed
  <2>3. m.id \in RequestId /\ s \in Tokens
    BY <1>m, <1>2 DEF GrantSpawn, Correlated
  <2>4. live' \subseteq used' /\ live' \cap used \subseteq live /\ live' \subseteq SessionId
    BY <1>m, <2>1
  <2> QED BY <1>a, <2>1, <2>2, <2>3, <2>4
<1>3. CASE GrantJoin(k, m)
  <2> DEFINE t == IF m.token = m.session THEN m.token ELSE NoSession
  <2>1. /\ down' = Sent({k}, <<Tell("joined", m.session, t, m.id)>>)
        /\ UNCHANGED <<live, used>>
        /\ m.session \in live
        /\ owner' = owner \/ owner' = [owner EXCEPT ![m.session] = k]
    BY <1>3 DEF GrantJoin
  <2>2. OwnersUsed'
    BY <1>m, <2>1 DEF OwnersUsed
  <2>3. m.id \in RequestId /\ t \in {NoSession, m.session}
    BY <1>m, <1>3 DEF GrantJoin, Correlated
  <2> HIDE DEF t
  <2> QED BY <1>a, <1>m, <2>1, <2>2, <2>3
<1>4. CASE GrantList(k, m)
  <2> DEFINE x == Tell("sessionList", NoSession, NoSession, m.id)
             y == [x EXCEPT !.joinable = live \cap Shared]
             ms == <<y>>
  <2>1. down' = Sent({k}, ms) /\ UNCHANGED <<live, used, owner>>
    BY <1>4 DEF GrantList
  <2>2. y \in DownMsg
    <3>1. x \in DownMsg
      BY <1>m, <1>4, TellIsDownMsg DEF GrantList, Correlated, Granting
    <3> HIDE DEF x
    <3> QED BY <1>m, <3>1 DEF DownMsg
  <2>3. (\A u : ~TellsEnd(y, u)) /\ y.joinable = live \cap Shared
    BY DEF TellsEnd, Tell
  <2> HIDE DEF y
  <2>4. ms \in Seq(DownMsg) /\ DOMAIN ms = {1} /\ ms[1] = y
    BY <2>2
  <2> HIDE DEF ms
  <2>5. \A n \in DOMAIN ms : /\ \A u : ~TellsEnd(ms[n], u)
                             /\ ms[n].joinable \subseteq live
    BY <2>3, <2>4
  <2>o. OwnersUsed'
    BY <1>m, <2>1 DEF OwnersUsed
  <2> QED BY <1>0, <1>m, <2>1, <2>4, <2>5, <2>o, OfferTold
<1>5. CASE GrantLeave(k, m)
  <2>1. /\ down' = Sent({k}, <<Tell("left", m.session, NoSession, m.id)>>)
        /\ UNCHANGED <<live, used, owner>>
    BY <1>5 DEF GrantLeave
  <2>o. OwnersUsed'
    BY <1>m, <2>1 DEF OwnersUsed
  <2> QED BY <1>a, <1>m, <2>1, <2>o DEF Granting
<1>6. CASE GrantClose(k, m)
  <2> DEFINE x == Tell("sessionClosed", m.session, NoSession, None)
             ms == <<x>>
  <2>1. /\ down' = Sent(Members(m.session), ms)
        /\ live' = live \ {m.session} /\ UNCHANGED used
        /\ owner' = [owner EXCEPT ![m.session] = None]
        /\ owner[m.session] = k
    BY <1>6 DEF GrantClose, EndSession
  <2>2. /\ x \in DownMsg /\ x.joinable = {}
        /\ \A u : TellsEnd(x, u) => u = m.session
    BY <1>m, TellIsDownMsg DEF Granting, TellsEnd, Tell
  <2> HIDE DEF x
  <2>3. ms \in Seq(DownMsg) /\ DOMAIN ms = {1} /\ ms[1] = x
    BY <2>2
  <2> HIDE DEF ms
  <2>4. m.session \in (used' \cup {NoSession}) \ live'
    BY <1>m, <2>1 DEF Tokens, OwnersUsed
  <2>5. OwnersUsed'
    BY <1>m, <2>1 DEF OwnersUsed
  <2>6. \A n \in DOMAIN ms : \A u \in Tokens :
          TellsEnd(ms[n], u) => u \in (used' \cup {NoSession}) \ live'
    BY <2>2, <2>3, <2>4
  <2>7. \A n \in DOMAIN ms : ms[n].joinable = {}
    BY <2>2, <2>3
  <2>8. live' \subseteq used' /\ live' \cap used \subseteq live /\ live' \subseteq SessionId
    BY <1>m, <2>1
  <2> QED BY <1>0, <2>1, <2>3, <2>5, <2>6, <2>7, <2>8, OfferTold
<1>7. CASE TakeData(k, m)
  <2>1. UNCHANGED <<down, owner, live, used, gone>>
    BY <1>0, <1>7 DEF TakeData
  <2> QED BY <2>1 DEF OfferInv, OwnersUsed
<1>8. CASE Refuse(k, m)
  <2>1. /\ down' = Sent({k}, <<Tell("error", m.session, NoSession, m.id)>>)
        /\ UNCHANGED <<live, used, owner>>
    BY <1>8 DEF Refuse
  <2>o. OwnersUsed'
    BY <1>m, <2>1 DEF OwnersUsed
  <2> QED BY <1>a, <1>m, <2>1, <2>o DEF Granting
<1> QED BY <1>0, <1>2, <1>3, <1>4, <1>5, <1>6, <1>7, <1>8

LEMMA OfferStep ==
  ASSUME ConnectionInv, TokenInv, OfferInv, [ClientNext]_vars
  PROVE  OfferInv'
<1>t. OnTheWay'
  BY OnTheWayStep DEF OfferInv
<1>w. down \in [Socket -> Seq(DownMsg)]
  BY DEF TokenInv, MessagesOK
<1>0. ASSUME UNCHANGED <<down, gone, live, used, owner>>
      PROVE  OfferInv'
  BY <1>0, <1>t DEF OfferInv, OwnersUsed
<1>1. ASSUME NEW k \in Socket, \/ ConnectCalled(k) \/ SocketOpens(k) \/ SocketFails(k)
      PROVE  OfferInv'
  BY <1>0, <1>1 DEF ConnectCalled, SocketOpens, SocketFails, server, seen
<1>2. ASSUME NEW k \in Socket, SocketCloses(k)
      PROVE  OfferInv'
  <2>1. down' = [down EXCEPT ![k] = <<>>] /\ UNCHANGED <<gone, live, used, owner>>
    BY <1>2 DEF SocketCloses, Closes, server
  <2>2. \A l \in Socket : down'[l] = IF l = k THEN <<>> ELSE down[l]
    BY <1>w, <2>1
  <2>3. ASSUME NEW l \in Socket, NEW n \in DOMAIN down'[l]
        PROVE  l # k /\ down'[l] = down[l]
    BY <2>2, <2>3
  <2> QED BY <1>t, <2>1, <2>3 DEF OfferInv, OwnersUsed
<1>3. ASSUME NEW k \in Socket, HandleMessage(k)
      PROVE  OfferInv'
  BY <1>3, <1>t, OfferMessage
<1>4. ASSUME NEW k \in Socket, ServerHandles(k)
      PROVE  OfferInv'
  BY <1>4, <1>t, OfferServer
<1>5. ASSUME NEW s \in SessionId, SessionEnds(s)
      PROVE  OfferInv'
  <2> DEFINE x == Tell("exit", s, NoSession, None)
             y == Tell("sessionClosed", s, NoSession, None)
             ms == <<x, y>>
  <2>1. /\ down' = Sent(Members(s), ms) /\ UNCHANGED <<gone, used>>
        /\ s \in live /\ live' = live \ {s} /\ owner' = [owner EXCEPT ![s] = None]
    BY <1>5 DEF SessionEnds, EndSession, seen
  <2>2. /\ x \in DownMsg /\ y \in DownMsg /\ x.joinable = {} /\ y.joinable = {}
        /\ \A u : TellsEnd(x, u) \/ TellsEnd(y, u) => u = s
    BY TellIsDownMsg DEF Granting, TellsEnd, Tell, Tokens
  <2> HIDE DEF x, y
  <2>3. ms \in Seq(DownMsg) /\ DOMAIN ms = {1, 2} /\ ms[1] = x /\ ms[2] = y
    BY <2>2
  <2> HIDE DEF ms
  <2>4. /\ live \subseteq used /\ live \subseteq SessionId
        /\ OwnersUsed
    BY DEF OfferInv, TokenInv, TokensKept
  <2>5. /\ OwnersUsed'
        /\ s \in (used' \cup {NoSession}) \ live'
    BY <2>1, <2>4 DEF OwnersUsed
  <2>6. \A n \in DOMAIN ms : \A u \in Tokens :
          TellsEnd(ms[n], u) => u \in (used' \cup {NoSession}) \ live'
    BY <2>2, <2>3, <2>5
  <2>7. \A n \in DOMAIN ms : ms[n].joinable = {}
    BY <2>2, <2>3
  <2>8. live' \subseteq used' /\ live' \cap used \subseteq live /\ live' \subseteq SessionId
    BY <2>1, <2>4
  <2> QED BY <1>t, <2>1, <2>3, <2>5, <2>6, <2>7, <2>8, OfferTold
<1>6. ASSUME NEW k \in Socket, ServerLosesSocket(k)
      PROVE  OfferInv'
  <2>1. /\ UNCHANGED <<down, gone, live, used>>
        /\ OwnersUsed'
    BY <1>6 DEF ServerLosesSocket, OfferInv, OwnersUsed, seen
  <2> QED BY <1>t, <2>1 DEF OfferInv
<1>7. ASSUME NEW s \in SessionId, JoinCalled(s) \/ LeaveCalled(s)
      PROVE  OfferInv'
  BY <1>0, <1>7 DEF JoinCalled, LeaveCalled, Request, Notify, server, seen
<1>8. CASE \/ ReconnectTimerFires \/ DisconnectCalled \/ SpawnCalled
           \/ ListSessionsCalled \/ KillCalled \/ WriteCalled
           \/ ClearPreviousSessionId \/ UNCHANGED vars
  BY <1>0, <1>8 DEF ReconnectTimerFires, DisconnectCalled, SpawnCalled,
       ListSessionsCalled, KillCalled, WriteCalled, Request, SendForActiveSession,
       Notify, ClearPreviousSessionId, vars, server, seen
<1> QED BY <1>1, <1>2, <1>3, <1>4, <1>5, <1>6, <1>7, <1>8 DEF ClientNext

LEMMA OfferInit == ClientInit => OfferInv
BY ClientAssumption DEF ClientInit, OfferInv, OnTheWay, OwnersUsed

LEMMA OfferAlways == ClientSafe => []OfferInv
BY OfferInit, OfferStep, ConnectionAlways, TokenAlways, PTL DEF ClientSafe

\* A former session without a token is offered only from a list that is true of all
\* the client has been told: an end the client knows of came before the list, and
\* the list was made after it.
THEOREM ClientOffersAreAvailable == ClientSafe => ListedOffersAreAvailable
<1> DEFINE Available == offer' \notin {offer, NoSession} /\ previousToken = NoSession
                          => offer' \notin gone
<1>1. ASSUME TokenInv, OfferInv, [ClientNext]_vars
      PROVE  Available
  <2>0. ASSUME offer' \in {offer, NoSession}
        PROVE  Available
    BY <2>0
  <2>1. ASSUME NEW k \in Socket, SocketOpens(k)
        PROVE  Available
    BY <2>1 DEF SocketOpens
  <2>2. ASSUME NEW k \in Socket, HandleMessage(k)
        PROVE  Available
    <3> DEFINE msg == Head(down[k])
    <3>1. \/ HandleEntered(msg) \/ HandleAnswer(msg) \/ HandleEnded(msg)
      BY <2>2 DEF HandleMessage
    <3>a. down[k] \in Seq(DownMsg) /\ down[k] # <<>>
      BY <1>1, <2>2 DEF HandleMessage, TokenInv, MessagesOK
    <3>2. msg = down[k][1] /\ 1 \in DOMAIN down[k]
      BY <3>a
    <3>3. \A s \in msg.joinable : s \notin gone
      BY <1>1, <3>2 DEF OfferInv
    <3> HIDE DEF msg
    <3>4. offer' = offer \/ offer' \in msg.joinable
      BY <3>1 DEF HandleEntered, HandleAnswer, HandleEnded, ResolvePending
    <3> QED BY <3>3, <3>4
  <2>3. ASSUME NEW k \in Socket,
               \/ ConnectCalled(k) \/ SocketFails(k) \/ SocketCloses(k)
               \/ ServerHandles(k) \/ ServerLosesSocket(k)
        PROVE  Available
    BY <2>0, <2>3 DEF ConnectCalled, SocketFails, SocketCloses, ServerHandles,
                      ServerLosesSocket, seen
  <2>4. ASSUME NEW s \in SessionId, JoinCalled(s) \/ LeaveCalled(s) \/ SessionEnds(s)
        PROVE  Available
    BY <2>0, <2>4 DEF JoinCalled, LeaveCalled, SessionEnds, Request, Notify, seen
  <2>5. CASE \/ ReconnectTimerFires \/ DisconnectCalled \/ SpawnCalled
             \/ ListSessionsCalled \/ KillCalled \/ WriteCalled
             \/ ClearPreviousSessionId \/ UNCHANGED vars
    BY <2>0, <2>5 DEF ReconnectTimerFires, DisconnectCalled, SpawnCalled,
         ListSessionsCalled, KillCalled, WriteCalled, Request, SendForActiveSession,
         Notify, ClearPreviousSessionId, vars, seen
  <2> QED BY <1>1, <2>1, <2>2, <2>3, <2>4, <2>5 DEF ClientNext
<1>2. TokenInv /\ OfferInv /\ [ClientNext]_vars => [Available]_vars
  BY <1>1
<1> QED BY <1>2, TokenAlways, OfferAlways, PTL DEF ClientSafe, ListedOffersAreAvailable
=============================================================================
