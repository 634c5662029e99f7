-------------------------- MODULE ServerAccessProofs --------------------------
(* Who gets into a session, for any number of connections, users and        *)
(* sessions: members were admitted, private sessions are entered only by    *)
(* the user who opened them, ownership never leaves that user, and a        *)
(* connection that is gone got in only by the one way the code leaves open. *)
EXTENDS TerminalServerProofs

-----------------------------------------------------------------------------
(* All calls of the manager but createSession and addClient only take away. *)

Shrinks(n, m) ==
  /\ n \in Manager
  /\ n.live \subseteq m.live
  /\ \A s \in SessionId :
       /\ n.clients[s] \subseteq m.clients[s]
       /\ n.pty[s] = "none" <=> m.pty[s] = "none"
  /\ \A s \in n.live :
       /\ n.owner[s] = m.owner[s]
       /\ s \in n.accepting <=> s \in m.accepting

LEMMA ShrinksTransitive ==
  ASSUME NEW k, NEW m, NEW n, m.live \subseteq SessionId,
         Shrinks(m, k), Shrinks(n, m)
  PROVE  Shrinks(n, k)
BY DEF Shrinks

LEMMA DetachShrinks ==
  ASSUME NEW m, MgrInv(m), NEW gone \in [SessionId -> SUBSET ClientId]
  PROVE  Shrinks(Detach(m, gone), m)
<1> DEFINE n == Detach(m, gone)
<1>1. m \in Manager /\ DetachEffect(n, m, gone)
  BY DetachFields DEF MgrInv
<1> HIDE DEF n
<1>2. Shrinks(n, m)
  BY <1>1 DEF DetachEffect, Leaving, Shrinks, Manager
<1> QED BY <1>2 DEF n

LEMMA RemoveFromAllShrinks ==
  ASSUME NEW m, MgrInv(m), NEW D \in SUBSET ClientId
  PROVE  Shrinks(RemoveFromAll(m, D), m)
BY DetachShrinks DEF RemoveFromAll

\* A disconnect reaches every session the client is in: here the reverse index
\* has to be right.
LEMMA RemovedEverywhere ==
  ASSUME NEW m, MgrInv(m), NEW D \in SUBSET ClientId, NEW s \in SessionId
  PROVE  RemoveFromAll(m, D).clients[s] \cap D = {}
<1> DEFINE gone == [t \in SessionId |-> {c \in D : t \in m.index[c]}]
           n == RemoveFromAll(m, D)
<1>1. n = Detach(m, gone) /\ gone \in [SessionId -> SUBSET ClientId]
  BY DEF RemoveFromAll
<1>2. m \in Manager
  BY DEF MgrInv
<1>3. DetachEffect(n, m, gone)
  <2> HIDE DEF n, gone
  <2> QED BY <1>1, <1>2, DetachFields
<1> HIDE DEF n
<1>4. n.clients[s] = m.clients[s] \ Leaving(m, gone, s)
  BY <1>3 DEF DetachEffect
<1>5. m.clients[s] \cap gone[s] = m.clients[s] \cap D
  BY DEF MgrInv, IndexMirrorsMembership
<1>6. s \notin m.live => m.clients[s] = {}
  BY DEF MgrInv, ClearedWhenAbsent
<1> HIDE DEF gone
<1> QED BY <1>4, <1>5, <1>6 DEF Leaving, n

LEMMA CloseShrinks ==
  ASSUME NEW m, MgrInv(m), NEW S
  PROVE  Shrinks(CloseSessions(m, S), m)
<1> DEFINE n == CloseSessions(m, S)
<1>1. m \in Manager /\ CloseEffect(n, m, S \cap m.live)
  BY CloseFields DEF MgrInv
<1> HIDE DEF n
<1>2. Shrinks(n, m)
  BY <1>1 DEF CloseEffect, AfterKill, Shrinks, Manager
<1> QED BY <1>2 DEF n

LEMMA ExitShrinks ==
  ASSUME NEW m, MgrInv(m), NEW t \in SessionId, m.pty[t] # "none"
  PROVE  Shrinks(CloseSessions([m EXCEPT !.pty[t] = "exited"], {t}), m)
<1> DEFINE e == [m EXCEPT !.pty[t] = "exited"]
           n == CloseSessions(e, {t})
<1>1. m \in Manager /\ m.pty[t] # "none"
  BY DEF MgrInv
<1>2. /\ e \in Manager /\ e.live = m.live /\ e.clients = m.clients
      /\ e.owner = m.owner /\ e.accepting = m.accepting
      /\ e.pty = [m.pty EXCEPT ![t] = "exited"]
  BY <1>1 DEF Manager, Process
<1> HIDE DEF e
<1>3. CloseEffect(n, e, {t} \cap e.live)
  BY <1>2, CloseFields
<1> HIDE DEF n
<1>4. Shrinks(n, m)
  BY <1>1, <1>2, <1>3 DEF CloseEffect, Shrinks, Manager
<1> QED BY <1>4 DEF n, e

LEMMA CleanupShrinks ==
  ASSUME NEW m, MgrInv(m)
  PROVE  Shrinks(Cleanup(m), m)
<1> DEFINE n == Cleanup(m)
<1>1. m \in Manager /\ CleanupEffect(n, m)
  BY CleanupFields DEF MgrInv
<1> HIDE DEF n
<1>2. Shrinks(n, m)
  BY <1>1 DEF CleanupEffect, AfterKill, Shrinks, Manager
<1> QED BY <1>2 DEF n

\* addClient makes the client the owner only when it resumes.
LEMMA AddOwner ==
  ASSUME NEW m \in Manager, NEW t \in SessionId, NEW c \in ClientId, NEW resume
  PROVE  AddClient(m, t, c, resume).owner[t]
           = IF resume THEN c ELSE m.owner[t]
<1> DEFINE q == IF t \in m.orphaned THEN ClearOrphanTimers(m, {t}) ELSE m
<1>1. q \in Manager /\ q.owner = m.owner
  BY ClearFields DEF ClearEffect
<1>2. AddClient(m, t, c, resume)
        = [q EXCEPT !.orphaned = q.orphaned \ {t},
                    !.clients[t] = q.clients[t] \cup {c},
                    !.owner[t] = IF resume THEN c ELSE q.owner[t],
                    !.index[c] = q.index[c] \cup {t}]
  BY DEF AddClient
<1> HIDE DEF q
<1> QED BY <1>1, <1>2 DEF Manager
-----------------------------------------------------------------------------
(* What one request does, of whatever kind and however it is answered.      *)

\* The manager grew by one new session, which its caller is in and owns.
Spawned(c) ==
  /\ ~AtSessionLimit(c)
  /\ \E s \in SessionId \ Issued, share \in BOOLEAN, tmux \in BOOLEAN :
       /\ Shrinks(mgr', CreateSession(mgr, s, c, share, tmux))
       /\ opener' = [opener EXCEPT ![s] = UserOf[c]]
       /\ \/ tokens' = tokens
          \/ tokens' = [tokens EXCEPT ![UserOf[c]] = tokens[UserOf[c]] \cup {s}]

\* The manager grew by one membership, in the session the request names.
Joined(c, r) ==
  /\ r.kind = "join" /\ r.session \in SessionId /\ r.token \in BOOLEAN
  /\ MayJoin(c, r)
  /\ Shrinks(mgr', AddClient(mgr, r.session, c, r.token))
  /\ opener' = opener
  /\ \/ tokens' = tokens
     \/ /\ r.token
        /\ tokens' = [tokens EXCEPT
                        ![UserOf[c]] = tokens[UserOf[c]] \cup {r.session}]

Undisturbed == Shrinks(mgr', mgr) /\ opener' = opener /\ tokens' = tokens

\* A handler only ever begins to close sockets that are open.
OnlyBeginsClosing ==
  /\ ws' \in [ClientId -> {"none", "open", "closing", "closed"}]
  /\ \A d \in ClientId :
       ws'[d] = ws[d] \/ (ws[d] = "open" /\ ws'[d] = "closing")

SocketTypeOK == ws \in [ClientId -> {"none", "open", "closing", "closed"}]

LEMMA OverflowCloses ==
  ASSUME SocketTypeOK, NEW R, NEW slow, Overflow(R, slow)
  PROVE  OnlyBeginsClosing
BY DEF SocketTypeOK, Overflow, OnlyBeginsClosing

LEMMA SameShrinks == ManagerInv => Shrinks(mgr, mgr)
BY DEF ManagerInv, MgrInv, Shrinks

LEMMA RequestEffect ==
  ASSUME ManagerInv, SocketTypeOK, NEW c \in ClientId, NEW r \in Request,
         HandleIncomingMessage(c, r)
  PROVE  /\ Spawned(c) \/ Joined(c, r) \/ Undisturbed
         /\ OnlyBeginsClosing
<1>0. PICK slow \in SUBSET SlowClients :
        \/ HandleSpawn(c, r, slow)
        \/ HandleFailedSpawn(c, r, slow)
        \/ HandleJoin(c, r, slow)
        \/ HandleLeave(c, r, slow)
        \/ HandleClose(c, r, slow)
        \/ HandleData(c, r, slow)
        \/ HandleRefused(c, r, slow)
  BY DEF HandleIncomingMessage
<1>s. slow \in SUBSET ClientId
  BY SlowAreClients
<1>m. MgrInv(mgr)
  BY DEF ManagerInv
<1>1. CASE HandleSpawn(c, r, slow)
  <2>1. PICK s \in SessionId \ Issued :
          /\ mgr' = RemoveFromAll(
                      CreateSession(mgr, s, c, r.options.share, r.options.tmux),
                      slow)
          /\ opener' = [opener EXCEPT ![s] = UserOf[c]]
          /\ tokens' = IF ws'[c] = "open"
                         THEN [tokens EXCEPT
                                 ![UserOf[c]] = tokens[UserOf[c]] \cup {s}]
                         ELSE tokens
    BY <1>1 DEF HandleSpawn, StartSession
  <2>2. MayCreate(mgr, s)
    BY <1>1, FreshMayBeCreated DEF HandleSpawn, StartSession
  <2>3. MgrInv(CreateSession(mgr, s, c, r.options.share, r.options.tmux))
    BY <1>m, <2>2, CreateInv
  <2>4. Shrinks(mgr',
                CreateSession(mgr, s, c, r.options.share, r.options.tmux))
    BY <1>s, <2>1, <2>3, RemoveFromAllShrinks
  <2>5. r.options.share \in BOOLEAN /\ r.options.tmux \in BOOLEAN
    <3>1. r.options \in SpawnOptions
      BY <1>1 DEF HandleSpawn, Request, JoinRequest
    <3> QED BY <3>1, ServerAssumption
  <2>6. Spawned(c)
    BY <1>1, <2>1, <2>4, <2>5 DEF Spawned, HandleSpawn
  <2> QED BY <1>1, <2>6, OverflowCloses DEF HandleSpawn
<1>7. CASE HandleFailedSpawn(c, r, slow)
  <2>1. PICK s \in SessionId \ Issued :
          /\ mgr' = RemoveFromAll(
                      CloseSessions(
                        CreateSession(mgr, s, c, r.options.share,
                                      r.options.tmux), {s}),
                      slow)
          /\ opener' = [opener EXCEPT ![s] = UserOf[c]]
          /\ tokens' = tokens
    BY <1>7 DEF HandleFailedSpawn, StartSession
  <2> DEFINE n == CreateSession(mgr, s, c, r.options.share, r.options.tmux)
             k == CloseSessions(n, {s})
  <2>2. MayCreate(mgr, s)
    BY <1>7, FreshMayBeCreated DEF HandleFailedSpawn
  <2>3. MgrInv(n)
    BY <1>m, <2>2, CreateInv
  <2>d. mgr' = RemoveFromAll(k, slow)
    BY <2>1
  <2> HIDE DEF n
  <2>4. MgrInv(k) /\ Shrinks(k, n) /\ k.live \subseteq SessionId
    BY <2>3, CloseSessionsInv, CloseShrinks DEF MgrInv, Manager
  <2> HIDE DEF k
  <2>5. Shrinks(mgr', k)
    BY <1>s, <2>d, <2>4, RemoveFromAllShrinks
  <2>6. Shrinks(mgr', n)
    BY <2>4, <2>5, ShrinksTransitive
  <2>7. r.options.share \in BOOLEAN /\ r.options.tmux \in BOOLEAN
    <3>1. r.options \in SpawnOptions
      BY <1>7 DEF HandleFailedSpawn, Request, JoinRequest
    <3> QED BY <3>1, ServerAssumption
  <2>8. Spawned(c)
    BY <1>7, <2>1, <2>6, <2>7 DEF Spawned, HandleFailedSpawn, n
  <2> QED BY <1>7, <2>8, OverflowCloses DEF HandleFailedSpawn
<1>2. CASE HandleJoin(c, r, slow)
  <2>1. /\ r.kind = "join" /\ r.session \in SessionId /\ r.token \in BOOLEAN
        /\ MayJoin(c, r) /\ CanAddClient(mgr, r.session, r.token)
        /\ mgr' = RemoveFromAll(AddClient(mgr, r.session, c, r.token), slow)
    BY <1>2 DEF HandleJoin, MayJoin, Request, JoinRequest
  <2>2. MgrInv(AddClient(mgr, r.session, c, r.token))
    BY <1>m, <2>1, AddInv
  <2>3. Shrinks(mgr', AddClient(mgr, r.session, c, r.token))
    BY <1>s, <2>1, <2>2, RemoveFromAllShrinks
  <2>4. /\ opener' = opener
        /\ \/ tokens' = tokens
           \/ /\ r.token
              /\ tokens' = [tokens EXCEPT
                              ![UserOf[c]] = tokens[UserOf[c]] \cup {r.session}]
    BY <1>2 DEF HandleJoin
  <2>5. Joined(c, r)
    BY <2>1, <2>3, <2>4 DEF Joined
  <2> QED BY <1>2, <2>5, OverflowCloses DEF HandleJoin
<1>3. CASE HandleLeave(c, r, slow)
  <2> DEFINE m == RemoveClient(mgr, r.session, c)
  <2>1. r.session \in SessionId
    BY <1>3 DEF HandleLeave, Request, JoinRequest
  <2>2. Shrinks(m, mgr)
    BY <1>m, DetachShrinks DEF RemoveClient
  <2>3. MgrInv(m)
    BY <1>m, <2>1, RemoveClientInv
  <2>4. m.live \subseteq SessionId
    BY <2>3 DEF MgrInv, Manager
  <2> HIDE DEF m
  <2>5. Shrinks(RemoveFromAll(m, slow), m)
    BY <1>s, <2>3, RemoveFromAllShrinks
  <2>6. Undisturbed
    BY <1>3, <2>2, <2>4, <2>5, ShrinksTransitive
       DEF HandleLeave, Undisturbed, m
  <2> QED BY <1>3, <2>6, OverflowCloses DEF HandleLeave
<1>4. CASE HandleClose(c, r, slow)
  <2> DEFINE m == RemoveFromAll(mgr, slow)
  <2>1. Shrinks(m, mgr) /\ MgrInv(m)
    BY <1>m, <1>s, RemoveFromAllShrinks, RemoveFromAllInv
  <2>2. m.live \subseteq SessionId
    BY <2>1 DEF MgrInv, Manager
  <2> HIDE DEF m
  <2>3. Shrinks(CloseSessions(m, {r.session}), m)
    BY <2>1, CloseShrinks
  <2>4. Undisturbed
    BY <1>4, <2>1, <2>2, <2>3, ShrinksTransitive
       DEF HandleClose, Undisturbed, m
  <2> QED BY <1>4, <2>4, OverflowCloses DEF HandleClose
<1>5. CASE HandleData(c, r, slow)
  <2>1. Undisturbed
    BY <1>5, <1>m, <1>s, RemoveFromAllShrinks DEF HandleData, Undisturbed
  <2> QED BY <1>5, <2>1, OverflowCloses DEF HandleData
<1>6. CASE HandleRefused(c, r, slow)
  <2>1. Undisturbed
    BY <1>6, <1>m, <1>s, RemoveFromAllShrinks DEF HandleRefused, Undisturbed
  <2> QED BY <1>6, <2>1, OverflowCloses DEF HandleRefused
<1> QED BY <1>0, <1>1, <1>2, <1>3, <1>4, <1>5, <1>6, <1>7

\* No step but a request lets anybody into a session.
LEMMA OtherStepsUndisturbed ==
  ASSUME ManagerInv, [ServerNext]_vars,
         \A c \in ClientId : ~Serve(c) /\ ~Drain(c)
  PROVE  Undisturbed
<1>m. MgrInv(mgr) /\ mgr.live \subseteq SessionId
  BY DEF ManagerInv, MgrInv, Manager
<1>s. \A slow \in SUBSET SlowClients : slow \in SUBSET ClientId
  BY SlowAreClients
<1>1. ASSUME NEW c \in ClientId,
             \/ Connect(c)
             \/ \E answer \in BOOLEAN : AuthorizeSettles(c, answer)
             \/ QueueRequest(c)
             \/ PreAuthLimit(c)
             \/ OversizedFrame(c)
      PROVE  Undisturbed
  BY <1>1, SameShrinks DEF Connect, AuthorizeSettles, QueueRequest,
       PreAuthLimit, OversizedFrame, Undisturbed
<1>2. ASSUME NEW c \in ClientId, CloseEvent(c)
      PROVE  Undisturbed
  BY <1>2, <1>m, RemoveFromAllShrinks DEF CloseEvent, Undisturbed
<1>3. ASSUME NEW loads \in BOOLEAN, RuntimeSettles(loads)
      PROVE  Undisturbed
  BY <1>3, SameShrinks DEF RuntimeSettles, Undisturbed
<1>4. ASSUME NEW t \in SessionId, PtyOutput(t)
      PROVE  Undisturbed
  BY <1>4, <1>m, <1>s, RemoveFromAllShrinks
     DEF PtyOutput, unchangedByPty, Undisturbed
<1>5. ASSUME NEW t \in SessionId, PtyExit(t)
      PROVE  Undisturbed
  <2>1. PICK slow \in SUBSET SlowClients :
          mgr' = CloseSessions([RemoveFromAll(mgr, slow) EXCEPT
                                  !.pty[t] = "exited"], {t})
    BY <1>5 DEF PtyExit
  <2> DEFINE gone == [u \in SessionId |-> {d \in slow : u \in mgr.index[d]}]
             m == RemoveFromAll(mgr, slow)
  <2>2. Shrinks(m, mgr) /\ MgrInv(m)
    BY <1>m, <1>s, RemoveFromAllShrinks, RemoveFromAllInv
  <2>3. m.live = mgr.live
    <3>1. gone \in [SessionId -> SUBSET ClientId]
      BY <1>s
    <3>2. mgr \in Manager /\ m = Detach(mgr, gone)
      BY <1>m DEF MgrInv, RemoveFromAll
    <3> HIDE DEF gone, m
    <3> QED BY <3>1, <3>2, DetachFields DEF DetachEffect
  <2>4. m.pty[t] # "none"
    BY <1>5, <2>2 DEF PtyExit, Shrinks
  <2> HIDE DEF m
  <2>5. Shrinks(CloseSessions([m EXCEPT !.pty[t] = "exited"], {t}), m)
    BY <2>2, <2>4, ExitShrinks
  <2>6. Shrinks(mgr', mgr)
    BY <1>m, <2>1, <2>2, <2>3, <2>5, ShrinksTransitive DEF m
  <2> QED BY <1>5, <2>6 DEF PtyExit, unchangedByPty, Undisturbed
<1>6. ASSUME NEW t \in SessionId, OrphanTimerFires(t)
      PROVE  Undisturbed
  <2>1. mgr' = CloseSessions(mgr, {t})
    BY <1>6, <1>m, FireIsClose DEF OrphanTimerFires
  <2> QED BY <1>6, <1>m, <2>1, CloseShrinks
          DEF OrphanTimerFires, unchangedByPty, Undisturbed
<1>7. ASSUME NEW t \in SessionId, GoIdle(t)
      PROVE  Undisturbed
  BY <1>7, SameShrinks DEF GoIdle, unchangedByPty, Undisturbed
<1>8. CASE CleanupSessions
  <2>1. PICK slow \in SUBSET SlowClients :
          mgr' = CloseSessions(RemoveFromAll(mgr, slow), idle)
    BY <1>8 DEF CleanupSessions
  <2> DEFINE m == RemoveFromAll(mgr, slow)
  <2>2. Shrinks(m, mgr) /\ MgrInv(m)
    BY <1>m, <1>s, RemoveFromAllShrinks, RemoveFromAllInv
  <2>3. m.live \subseteq SessionId
    BY <2>2 DEF MgrInv, Manager
  <2> HIDE DEF m
  <2>4. Shrinks(CloseSessions(m, idle), m)
    BY <2>2, CloseShrinks
  <2>5. Shrinks(mgr', mgr)
    BY <2>1, <2>2, <2>3, <2>4, ShrinksTransitive DEF m
  <2> QED BY <1>8, <2>5 DEF CleanupSessions, unchangedByPty, Undisturbed
<1>9. CASE Shutdown
  BY <1>9, <1>m, CleanupShrinks DEF Shutdown, Undisturbed
<1>10. CASE UNCHANGED vars
  BY <1>10, SameShrinks DEF vars, Undisturbed
<1> QED BY <1>1, <1>2, <1>3, <1>4, <1>5, <1>6, <1>7, <1>8, <1>9, <1>10
        DEF ServerNext

-----------------------------------------------------------------------------
(* Private sessions: follow the resume tokens.                              *)

\* A request that shows a token shows one its sender's user holds.
TokenHeld(c, r) ==
  r.kind = "join" /\ r.token => r.session \in tokens[UserOf[c]]

\* Why private sessions stay private: a token is held only by the user who
\* opened the session, and is of a session that was issued (so that its
\* identifier cannot come to be somebody else's); whoever is in a private
\* session, or owns any session, is that user.
SharingState ==
  /\ tokens \in [User -> SUBSET SessionId]
  /\ opener \in [SessionId -> User \cup {NoUser}]
  /\ \A u \in User : \A s \in tokens[u] : opener[s] = u /\ s \in Issued
  /\ PrivateSessionsStayPrivate
  /\ OwnersAreOpeners

QueuedTokensHeld ==
  \A c \in ClientId : \A i \in DOMAIN queue[c] : TokenHeld(c, queue[c][i])

SharingInv == ServerInv /\ SocketTypeOK /\ SharingState /\ QueuedTokensHeld

TokensOnlyGrow == \A u \in User : tokens[u] \subseteq tokens'[u]

LEMMA UndisturbedSharing ==
  ASSUME ManagerInv, SharingState, Undisturbed
  PROVE  SharingState' /\ TokensOnlyGrow
<1>1. mgr \in Manager /\ mgr' \in Manager
  BY DEF ManagerInv, MgrInv, Undisturbed, Shrinks
<1>2. Issued \subseteq Issued'
  BY DEF Issued, Undisturbed, Shrinks
<1>3. PrivateSessionsStayPrivate'
  BY <1>1 DEF PrivateSessionsStayPrivate, SharingState, Undisturbed, Shrinks,
              Manager
<1>4. OwnersAreOpeners'
  BY <1>1 DEF OwnersAreOpeners, SharingState, Undisturbed, Shrinks, Manager
<1> QED BY <1>2, <1>3, <1>4 DEF SharingState, TokensOnlyGrow, Undisturbed

LEMMA SpawnedSharing ==
  ASSUME ManagerInv, SharingState, NEW c \in ClientId, Spawned(c)
  PROVE  SharingState' /\ TokensOnlyGrow
<1>0. PICK s \in SessionId \ Issued, share \in BOOLEAN, tmux \in BOOLEAN :
        /\ Shrinks(mgr', CreateSession(mgr, s, c, share, tmux))
        /\ opener' = [opener EXCEPT ![s] = UserOf[c]]
        /\ \/ tokens' = tokens
           \/ tokens' = [tokens EXCEPT ![UserOf[c]] = tokens[UserOf[c]] \cup {s}]
  BY DEF Spawned
<1> DEFINE n == CreateSession(mgr, s, c, share, tmux)
<1>1. mgr \in Manager /\ CreateEffect(n, mgr, s, c, tmux)
  BY CreateFields DEF ManagerInv, MgrInv
<1>2. Shrinks(mgr', n)
  BY <1>0
<1> HIDE DEF n
<1>3. n \in Manager /\ mgr' \in Manager /\ UserOf[c] \in User
  BY <1>1, <1>2, ServerAssumption DEF CreateEffect, Shrinks
<1>4. /\ \A t \in SessionId : t # s => opener'[t] = opener[t]
      /\ opener'[s] = UserOf[c]
      /\ opener' \in [SessionId -> User \cup {NoUser}]
  BY <1>0, <1>3 DEF SharingState
<1>5. Issued \cup {s} \subseteq Issued'
  BY <1>1, <1>2 DEF Issued, Shrinks, CreateEffect, Manager
<1>6. \A u \in User : s \notin tokens[u]
  BY <1>0 DEF SharingState
<1>7. /\ tokens' \in [User -> SUBSET SessionId]
      /\ TokensOnlyGrow
      /\ \A u \in User : \A t \in tokens'[u] :
           t \in tokens[u] \/ (t = s /\ u = UserOf[c])
  BY <1>0, <1>3 DEF SharingState, TokensOnlyGrow
<1>8. \A u \in User : \A t \in tokens'[u] : opener'[t] = u /\ t \in Issued'
  BY <1>4, <1>5, <1>6, <1>7 DEF SharingState
<1>9. PrivateSessionsStayPrivate'
  <2> SUFFICES ASSUME NEW t \in mgr'.live, t \notin mgr'.accepting,
                      NEW d \in ClientId, d \in mgr'.clients[t]
               PROVE  UserOf[d] = opener'[t]
    BY DEF PrivateSessionsStayPrivate
  <2>1. t \in SessionId /\ t \in n.live /\ t \notin n.accepting
        /\ d \in n.clients[t]
    BY <1>2, <1>3 DEF Shrinks, Manager
  <2>2. CASE t = s
    BY <1>1, <1>4, <2>1, <2>2 DEF CreateEffect, Manager
  <2>3. CASE t # s
    <3>1. t \in mgr.live /\ t \notin mgr.accepting /\ d \in mgr.clients[t]
      BY <1>1, <2>1, <2>3 DEF CreateEffect, Manager
    <3> QED BY <1>4, <2>1, <2>3, <3>1
            DEF SharingState, PrivateSessionsStayPrivate
  <2> QED BY <2>2, <2>3
<1>10. OwnersAreOpeners'
  <2> SUFFICES ASSUME NEW t \in mgr'.live
               PROVE  /\ mgr'.owner[t] \in ClientId
                      /\ UserOf[mgr'.owner[t]] = opener'[t]
    BY DEF OwnersAreOpeners
  <2>1. t \in SessionId /\ t \in n.live /\ mgr'.owner[t] = n.owner[t]
    BY <1>2, <1>3 DEF Shrinks, Manager
  <2>2. CASE t = s
    BY <1>1, <1>4, <2>1, <2>2 DEF CreateEffect, Manager
  <2>3. CASE t # s
    <3>1. t \in mgr.live /\ n.owner[t] = mgr.owner[t]
      BY <1>1, <2>1, <2>3 DEF CreateEffect, Manager
    <3> QED BY <1>4, <2>1, <2>3, <3>1 DEF SharingState, OwnersAreOpeners
  <2> QED BY <2>2, <2>3
<1> QED BY <1>4, <1>7, <1>8, <1>9, <1>10 DEF SharingState

LEMMA JoinedSharing ==
  ASSUME ManagerInv, SharingState, NEW c \in ClientId, NEW r,
         TokenHeld(c, r), Joined(c, r)
  PROVE  SharingState' /\ TokensOnlyGrow
<1> DEFINE s == r.session
           n == AddClient(mgr, s, c, r.token)
<1>0. /\ r.kind = "join" /\ s \in SessionId /\ s \in mgr.live
      /\ s \in mgr.accepting \/ r.token
      /\ Shrinks(mgr', n)
      /\ opener' = opener
      /\ \/ tokens' = tokens
         \/ /\ r.token
            /\ tokens' = [tokens EXCEPT ![UserOf[c]] = tokens[UserOf[c]] \cup {s}]
  BY DEF Joined, MayJoin, CanAddClient, CanJoinSession
<1>1. mgr \in Manager /\ AddEffect(n, mgr, s, c)
  BY <1>0, AddFields DEF ManagerInv, MgrInv
<1>2. n.owner[s] = IF r.token THEN c ELSE mgr.owner[s]
  BY <1>0, <1>1, AddOwner
<1> HIDE DEF n
<1>3. n \in Manager /\ mgr' \in Manager /\ UserOf[c] \in User
  BY <1>0, <1>1, ServerAssumption DEF AddEffect, Shrinks
<1>4. r.token => s \in tokens[UserOf[c]] /\ opener[s] = UserOf[c]
  BY <1>0, <1>3 DEF TokenHeld, SharingState
<1>5. Issued \subseteq Issued'
  BY <1>0, <1>1 DEF Issued, Shrinks, AddEffect, Manager
<1> HIDE DEF s
<1>6. tokens' = tokens
  <2>1. CASE r.token
    <3>1. tokens[UserOf[c]] \cup {s} = tokens[UserOf[c]]
      BY <1>4, <2>1
    <3>2. [tokens EXCEPT ![UserOf[c]] = tokens[UserOf[c]]] = tokens
      BY DEF SharingState
    <3> QED BY <1>0, <3>1, <3>2
  <2> QED BY <1>0, <2>1
<1>7. PrivateSessionsStayPrivate'
  <2> SUFFICES ASSUME NEW t \in mgr'.live, t \notin mgr'.accepting,
                      NEW d \in ClientId, d \in mgr'.clients[t]
               PROVE  UserOf[d] = opener'[t]
    BY DEF PrivateSessionsStayPrivate
  <2>1. /\ t \in SessionId /\ t \in mgr.live /\ t \notin mgr.accepting
        /\ d \in n.clients[t]
    BY <1>0, <1>1, <1>3 DEF Shrinks, Manager, AddEffect
  <2>2. CASE d \in mgr.clients[t]
    BY <1>0, <2>1, <2>2 DEF SharingState, PrivateSessionsStayPrivate
  <2>3. CASE d \notin mgr.clients[t]
    <3>1. t = s /\ d = c
      BY <1>1, <2>1, <2>3 DEF AddEffect, Manager
    <3> QED BY <1>0, <1>4, <2>1, <3>1
  <2> QED BY <2>2, <2>3
<1>8. OwnersAreOpeners'
  <2> SUFFICES ASSUME NEW t \in mgr'.live
               PROVE  /\ mgr'.owner[t] \in ClientId
                      /\ UserOf[mgr'.owner[t]] = opener'[t]
    BY DEF OwnersAreOpeners
  <2>1. t \in SessionId /\ t \in mgr.live /\ mgr'.owner[t] = n.owner[t]
    BY <1>0, <1>1, <1>3 DEF Shrinks, Manager, AddEffect
  <2>2. CASE t = s /\ r.token
    BY <1>0, <1>2, <1>4, <2>1, <2>2
  <2>3. CASE ~(t = s /\ r.token)
    <3>1. n.owner[t] = mgr.owner[t]
      BY <1>1, <1>2, <2>1, <2>3 DEF AddEffect
    <3> QED BY <1>0, <2>1, <3>1 DEF SharingState, OwnersAreOpeners
  <2> QED BY <2>2, <2>3
<1> QED BY <1>0, <1>5, <1>6, <1>7, <1>8 DEF SharingState, TokensOnlyGrow

\* Requests enter a queue only as something their sender could send, and what
\* is queued is moved or given up, never changed.
LEMMA QueuedTokensStep ==
  ASSUME queue \in [ClientId -> Seq(Request)], QueuedTokensHeld,
         [ServerNext]_vars, TokensOnlyGrow
  PROVE  QueuedTokensHeld'
<1> DEFINE Held(c, r) ==
             r.kind = "join" /\ r.token => r.session \in tokens'[UserOf[c]]
<1>h. \A c \in ClientId : \A r : TokenHeld(c, r) => Held(c, r)
  BY ServerAssumption DEF TokenHeld, TokensOnlyGrow
<1>q. ASSUME \A c \in ClientId : \A i \in DOMAIN queue'[c] : Held(c, queue'[c][i])
      PROVE  QueuedTokensHeld'
  BY <1>q DEF QueuedTokensHeld, TokenHeld
<1>k. \A c \in ClientId : \A i \in DOMAIN queue[c] : Held(c, queue[c][i])
  BY <1>h DEF QueuedTokensHeld
<1> HIDE DEF Held
<1>0. ASSUME queue' = queue
      PROVE  QueuedTokensHeld'
  BY <1>0, <1>k, <1>q
<1>1. ASSUME NEW c \in ClientId, QueueRequest(c)
      PROVE  QueuedTokensHeld'
  <2>1. PICK r \in RequestsOf(c) :
          queue' = [queue EXCEPT ![c] = Append(queue[c], r)]
    BY <1>1 DEF QueueRequest
  <2>2. r \in Request /\ TokenHeld(c, r)
    BY DEF RequestsOf, TokenHeld
  <2>3. \A d \in ClientId : \A i \in DOMAIN queue'[d] :
          \/ i \in DOMAIN queue[d] /\ queue'[d][i] = queue[d][i]
          \/ d = c /\ queue'[d][i] = r
    BY <2>1, <2>2
  <2> QED BY <1>h, <1>k, <1>q, <2>2, <2>3
<1>2. ASSUME NEW c \in ClientId, Drain(c)
      PROVE  QueuedTokensHeld'
  <2>1. queue[c] # <<>> /\ queue' = [queue EXCEPT ![c] = Tail(queue[c])]
    BY <1>2 DEF Drain, Draining
  <2>2. \A i \in DOMAIN Tail(queue[c]) :
          i + 1 \in DOMAIN queue[c] /\ Tail(queue[c])[i] = queue[c][i + 1]
    BY <2>1
  <2>3. \A d \in ClientId : \A i \in DOMAIN queue'[d] :
          \E j \in DOMAIN queue[d] : queue'[d][i] = queue[d][j]
    BY <2>1, <2>2
  <2> QED BY <1>k, <1>q, <2>3
<1>3. ASSUME NEW C, RejectGate(C)
      PROVE  QueuedTokensHeld'
  <2>1. \A d \in ClientId : queue'[d] = <<>> \/ queue'[d] = queue[d]
    BY <1>3 DEF RejectGate
  <2> QED BY <1>k, <1>q, <2>1
<1>4. ASSUME NEW c \in ClientId, NEW answer \in BOOLEAN,
             AuthorizeSettles(c, answer)
      PROVE  QueuedTokensHeld'
  BY <1>0, <1>3, <1>4 DEF AuthorizeSettles
<1>5. ASSUME NEW loads \in BOOLEAN, RuntimeSettles(loads)
      PROVE  QueuedTokensHeld'
  BY <1>0, <1>3, <1>5 DEF RuntimeSettles
<1>6. ASSUME NEW c \in ClientId, PreAuthLimit(c)
      PROVE  QueuedTokensHeld'
  BY <1>0, <1>3, <1>6 DEF PreAuthLimit
<1>7. ASSUME NEW c \in ClientId,
             Connect(c) \/ OversizedFrame(c) \/ Serve(c) \/ CloseEvent(c)
      PROVE  QueuedTokensHeld'
  BY <1>0, <1>7 DEF Connect, OversizedFrame, Serve, CloseEvent
<1>8. ASSUME NEW s \in SessionId,
             PtyOutput(s) \/ PtyExit(s) \/ OrphanTimerFires(s) \/ GoIdle(s)
      PROVE  QueuedTokensHeld'
  BY <1>0, <1>8 DEF PtyOutput, PtyExit, OrphanTimerFires, GoIdle, unchangedByPty
<1>9. CASE CleanupSessions \/ Shutdown
  BY <1>0, <1>9 DEF CleanupSessions, Shutdown, unchangedByPty
<1>10. CASE UNCHANGED vars
  BY <1>0, <1>10 DEF vars, connVars
<1> QED BY <1>1, <1>2, <1>4, <1>5, <1>6, <1>7, <1>8, <1>9, <1>10 DEF ServerNext

LEMMA SocketTypeStep ==
  ASSUME ManagerInv, SocketTypeOK, queue \in [ClientId -> Seq(Request)],
         [ServerNext]_vars
  PROVE  SocketTypeOK'
<1> USE DEF SocketTypeOK
<1>1. ASSUME NEW c \in ClientId, Serve(c) \/ Drain(c)
      PROVE  SocketTypeOK'
  <2>1. PICK r \in Request : HandleIncomingMessage(c, r)
    BY <1>1 DEF Serve, Drain, Draining, RequestsOf
  <2> QED BY <2>1, RequestEffect DEF OnlyBeginsClosing
<1>2. ASSUME NEW C, CloseOpen(C)
      PROVE  SocketTypeOK'
  BY <1>2 DEF CloseOpen
<1>3. ASSUME NEW R, NEW slow, Overflow(R, slow)
      PROVE  SocketTypeOK'
  BY <1>3 DEF Overflow
<1>4. ASSUME NEW c \in ClientId,
             \/ Connect(c)
             \/ \E answer \in BOOLEAN : AuthorizeSettles(c, answer)
             \/ QueueRequest(c)
             \/ PreAuthLimit(c)
             \/ OversizedFrame(c)
             \/ CloseEvent(c)
      PROVE  SocketTypeOK'
  BY <1>2, <1>4 DEF Connect, AuthorizeSettles, QueueRequest, PreAuthLimit,
                    OversizedFrame, CloseEvent, RejectGate
<1>5. ASSUME NEW loads \in BOOLEAN, RuntimeSettles(loads)
      PROVE  SocketTypeOK'
  BY <1>2, <1>5 DEF RuntimeSettles, RejectGate
<1>6. ASSUME NEW t \in SessionId,
             PtyOutput(t) \/ PtyExit(t) \/ OrphanTimerFires(t) \/ GoIdle(t)
      PROVE  SocketTypeOK'
  BY <1>3, <1>6 DEF PtyOutput, PtyExit, OrphanTimerFires, GoIdle
<1>7. CASE CleanupSessions \/ Shutdown
  BY <1>2, <1>3, <1>7 DEF CleanupSessions, Shutdown
<1>8. CASE UNCHANGED vars
  BY <1>8 DEF vars, connVars
<1> QED BY <1>1, <1>4, <1>5, <1>6, <1>7, <1>8 DEF ServerNext

\* Whoever is being served sends a request it may send, now or when it was
\* queued.
LEMMA ServedRequest ==
  ASSUME SharingInv, NEW c \in ClientId, Serve(c) \/ Drain(c)
  PROVE  \E r \in Request : TokenHeld(c, r) /\ HandleIncomingMessage(c, r)
<1>1. CASE Serve(c)
  BY <1>1 DEF Serve, RequestsOf, TokenHeld
<1>2. CASE Drain(c)
  <2>1. /\ queue[c] \in Seq(Request) /\ queue[c] # <<>>
        /\ HandleIncomingMessage(c, Head(queue[c]))
    BY <1>2 DEF Drain, Draining, SharingInv, ServerInv
  <2>2. 1 \in DOMAIN queue[c] /\ Head(queue[c]) = queue[c][1]
        /\ Head(queue[c]) \in Request
    BY <2>1
  <2>3. TokenHeld(c, Head(queue[c]))
    BY <2>2 DEF SharingInv, QueuedTokensHeld
  <2> QED BY <2>1, <2>2, <2>3
<1> QED BY <1>1, <1>2

LEMMA SharingStep == SharingInv /\ [ServerNext]_vars => SharingInv'
<1> SUFFICES ASSUME SharingInv, [ServerNext]_vars
             PROVE  SharingInv'
  OBVIOUS
<1>1. ManagerInv /\ queue \in [ClientId -> Seq(Request)] /\ SocketTypeOK
  BY DEF SharingInv, ServerInv
<1>2. ServerInv' /\ SocketTypeOK'
  BY <1>1, ServerStep, SocketTypeStep DEF SharingInv
<1>3. SharingState' /\ TokensOnlyGrow
  <2>1. ASSUME NEW c \in ClientId, Serve(c) \/ Drain(c)
        PROVE  SharingState' /\ TokensOnlyGrow
    <3>1. PICK r \in Request : TokenHeld(c, r) /\ HandleIncomingMessage(c, r)
      BY <2>1, ServedRequest
    <3>2. Spawned(c) \/ Joined(c, r) \/ Undisturbed
      BY <1>1, <3>1, RequestEffect
    <3> QED BY <1>1, <3>1, <3>2, SpawnedSharing, JoinedSharing,
               UndisturbedSharing DEF SharingInv
  <2>2. CASE \A c \in ClientId : ~Serve(c) /\ ~Drain(c)
    BY <1>1, <2>2, OtherStepsUndisturbed, UndisturbedSharing DEF SharingInv
  <2> QED BY <2>1, <2>2
<1>4. QueuedTokensHeld'
  BY <1>1, <1>3, QueuedTokensStep DEF SharingInv
<1> QED BY <1>2, <1>3, <1>4 DEF SharingInv

LEMMA SharingInit == ServerInit => SharingInv
<1> SUFFICES ASSUME ServerInit
             PROVE  SharingInv
  OBVIOUS
<1>1. ServerInv
  BY EmptyInv DEF ServerInit, MgrInit, ServerInv, ManagerInv
<1>2. mgr.live = {}
  BY DEF ServerInit, MgrInit, EmptyManager
<1>3. PrivateSessionsStayPrivate /\ OwnersAreOpeners
  BY <1>2 DEF PrivateSessionsStayPrivate, OwnersAreOpeners
<1>4. SharingState /\ SocketTypeOK /\ QueuedTokensHeld
  BY <1>3 DEF ServerInit, SharingState, SocketTypeOK, QueuedTokensHeld
<1> QED BY <1>1, <1>4 DEF SharingInv

\* A session that was not opened for sharing is only ever entered by the user
\* who spawned it, for any number of users, connections and sessions and
\* whatever the order of spawns, joins, resumes, drops and timers.
THEOREM ServerPrivateSessions == ServerSafe => []PrivateSessionsStayPrivate
<1>1. SharingInv => PrivateSessionsStayPrivate
  BY DEF SharingInv, SharingState
<1> QED BY <1>1, SharingInit, SharingStep, PTL DEF ServerSafe

\* No guest of a session, shared or not, ever comes to own it.
THEOREM ServerOwnersAreOpeners == ServerSafe => []OwnersAreOpeners
<1>1. SharingInv => OwnersAreOpeners
  BY DEF SharingInv, SharingState
<1> QED BY <1>1, SharingInit, SharingStep, PTL DEF ServerSafe

-----------------------------------------------------------------------------
(* The gate.                                                                *)

GateTypeOK ==
  /\ gate \in [ClientId -> {"none", "authorizing", "loading", "ready",
                            "rejected"}]
  /\ runtime \in {"absent", "loading", "loaded"}

\* A gate goes beyond "authorizing" only for who was admitted.
BeyondAuthorizing ==
  \A c \in ClientId : gate[c] \in {"loading", "ready"} => c \in admitted

\* A closed connection that can still come to be served is one whose close
\* event came before its gate opened: its gate is pending, or what it queued
\* is being handled.
LateIsEarly ==
  \A c \in ClientId :
    ws[c] = "closed" /\ (Pending(c) \/ Draining(c)) => c \in early

\* Why only admitted connections are members: only who is beyond authorization
\* is ever served.  The three properties are about the same gate.
GateState ==
  /\ GateTypeOK
  /\ BeyondAuthorizing
  /\ LateIsEarly
  /\ OnlyAdmittedMembers
  /\ WaitersHaveALoader
  /\ GhostsClosedBeforeReady

GateInv == ServerInv /\ SocketTypeOK /\ GateState

\* Served connections are ready, and gone only if they were gone early.
LEMMA ServedIsReady ==
  ASSUME GateState, NEW c \in ClientId, Serve(c) \/ Drain(c)
  PROVE  /\ gate[c] = "ready" /\ c \in admitted
         /\ ws[c] = "closed" => c \in early
BY DEF GateState, GateTypeOK, BeyondAuthorizing, LateIsEarly, Serve, Drain,
       Draining, Receivable

\* Whoever is in a session after a request was in it before, or has sent it.
LEMMA RequestMembers ==
  ASSUME ManagerInv, NEW c \in ClientId, NEW r,
         Spawned(c) \/ Joined(c, r) \/ Undisturbed, NEW s \in SessionId
  PROVE  mgr'.clients[s] \subseteq mgr.clients[s] \cup {c}
<1>m. mgr \in Manager
  BY DEF ManagerInv, MgrInv
<1>1. CASE Spawned(c)
  <2>1. PICK t \in SessionId, share \in BOOLEAN, tmux \in BOOLEAN :
          Shrinks(mgr', CreateSession(mgr, t, c, share, tmux))
    BY <1>1 DEF Spawned
  <2> DEFINE n == CreateSession(mgr, t, c, share, tmux)
  <2>2. CreateEffect(n, mgr, t, c, tmux) /\ Shrinks(mgr', n)
    BY <1>m, <2>1, CreateFields
  <2> HIDE DEF n
  <2> QED BY <1>m, <2>2 DEF CreateEffect, Shrinks, Manager
<1>2. CASE Joined(c, r)
  <2> DEFINE n == AddClient(mgr, r.session, c, r.token)
  <2>1. /\ r.session \in SessionId
        /\ AddEffect(n, mgr, r.session, c) /\ Shrinks(mgr', n)
    BY <1>m, <1>2, AddFields DEF Joined
  <2> HIDE DEF n
  <2> QED BY <1>m, <2>1 DEF AddEffect, Shrinks, Manager
<1>3. CASE Undisturbed
  BY <1>3 DEF Undisturbed, Shrinks
<1> QED BY <1>1, <1>2, <1>3

LEMMA ServedGate ==
  ASSUME ManagerInv, SocketTypeOK, queue \in [ClientId -> Seq(Request)],
         GateState, NEW c \in ClientId, Serve(c) \/ Drain(c)
  PROVE  GateState'
<1>1. PICK r \in Request : HandleIncomingMessage(c, r)
  BY DEF Serve, Drain, Draining, RequestsOf
<1>2. \A s \in SessionId : mgr'.clients[s] \subseteq mgr.clients[s] \cup {c}
  BY <1>1, RequestEffect, RequestMembers
<1>3. OnlyBeginsClosing
  BY <1>1, RequestEffect
<1>4. UNCHANGED <<gate, runtime, admitted, early>>
  BY <1>1 DEF HandleIncomingMessage
<1>5. \A d \in ClientId : ws'[d] = "closed" => ws[d] = "closed"
  BY <1>3 DEF OnlyBeginsClosing
<1>6. \A d \in ClientId : Draining(d)' => Draining(d)
  BY <1>4 DEF Serve, Drain, Draining
<1>7. LateIsEarly'
  BY <1>4, <1>5, <1>6 DEF GateState, LateIsEarly, Pending
<1>8. mgr' \in Manager
  BY <1>1, HandlerStep DEF ManagerInv, MgrInv
<1>9. OnlyAdmittedMembers' /\ GhostsClosedBeforeReady'
  <2>1. c \in admitted /\ (ws[c] = "closed" => c \in early)
    BY ServedIsReady
  <2>2. \A s \in SessionId : mgr'.clients[s] \subseteq ClientId
    BY <1>8 DEF Manager
  <2> QED BY <1>2, <1>4, <1>5, <2>1, <2>2
          DEF GateState, OnlyAdmittedMembers, GhostsClosedBeforeReady
<1>10. GateTypeOK' /\ BeyondAuthorizing' /\ WaitersHaveALoader'
  BY <1>4 DEF GateState, GateTypeOK, BeyondAuthorizing, WaitersHaveALoader,
              Waiting
<1> QED BY <1>7, <1>9, <1>10 DEF GateState

\* Steps that let nobody in and close no socket by themselves.
LEMMA MembersStay ==
  ASSUME SocketTypeOK, GateState, ManagerInv, Undisturbed,
         admitted \subseteq admitted', early \subseteq early',
         \A d \in ClientId : ws'[d] = "closed" => ws[d] = "closed"
  PROVE  OnlyAdmittedMembers' /\ GhostsClosedBeforeReady'
<1>1. \A s \in SessionId : /\ mgr'.clients[s] \subseteq mgr.clients[s]
                           /\ mgr.clients[s] \subseteq ClientId
  BY DEF Undisturbed, Shrinks, ManagerInv, MgrInv, Manager
<1> QED BY <1>1 DEF GateState, OnlyAdmittedMembers, GhostsClosedBeforeReady

LEMMA GateUntouched ==
  ASSUME SocketTypeOK, GateState, ManagerInv, Undisturbed,
         UNCHANGED <<gate, queue, runtime, admitted, early>>,
         \A d \in ClientId : ws'[d] = "closed" => ws[d] = "closed"
  PROVE  GateState'
<1>1. OnlyAdmittedMembers' /\ GhostsClosedBeforeReady'
  BY MembersStay
<1>2. LateIsEarly'
  BY DEF GateState, LateIsEarly, Pending, Draining
<1>3. GateTypeOK' /\ BeyondAuthorizing' /\ WaitersHaveALoader'
  BY DEF GateState, GateTypeOK, BeyondAuthorizing, WaitersHaveALoader, Waiting
<1> QED BY <1>1, <1>2, <1>3 DEF GateState

\* Giving gates up opens none and leaves nobody waiting who was not.
LEMMA RejectedGates ==
  ASSUME SocketTypeOK, GateState, NEW C, RejectGate(C), UNCHANGED early,
         admitted \subseteq admitted'
  PROVE  /\ gate' \in [ClientId -> {"none", "authorizing", "loading", "ready",
                                    "rejected"}]
         /\ BeyondAuthorizing'
         /\ LateIsEarly'
         /\ Waiting' \subseteq Waiting \ C
         /\ \A d \in ClientId : ws'[d] = "closed" => ws[d] = "closed"
<1>1. \A d \in ClientId :
        /\ gate'[d] = IF d \in C THEN "rejected" ELSE gate[d]
        /\ queue'[d] = IF d \in C THEN <<>> ELSE queue[d]
        /\ ws'[d] = "closed" => ws[d] = "closed"
  BY DEF RejectGate, CloseOpen
<1>2. gate' \in [ClientId -> {"none", "authorizing", "loading", "ready",
                              "rejected"}]
  BY DEF RejectGate, GateState, GateTypeOK
<1>3. BeyondAuthorizing' /\ LateIsEarly' /\ Waiting' \subseteq Waiting \ C
  BY <1>1 DEF GateState, BeyondAuthorizing, LateIsEarly, Pending, Draining,
              Waiting
<1> QED BY <1>1, <1>2, <1>3

LEMMA OtherGate ==
  ASSUME SocketTypeOK, queue \in [ClientId -> Seq(Request)], ManagerInv,
         GateState, [ServerNext]_vars,
         \A c \in ClientId : ~Serve(c) /\ ~Drain(c)
  PROVE  GateState'
<1>u. Undisturbed
  BY OtherStepsUndisturbed
<1>1. ASSUME NEW c \in ClientId, Connect(c)
      PROVE  GateState'
  <2>1. /\ \A d \in ClientId :
             /\ d # c => gate'[d] = gate[d] /\ ws'[d] = ws[d]
             /\ queue'[d] = queue[d]
        /\ gate'[c] = "authorizing"
        /\ ws'[c] = "open"
        /\ UNCHANGED <<runtime, admitted, early>>
    BY <1>1 DEF Connect, GateState, GateTypeOK, SocketTypeOK
  <2>2. OnlyAdmittedMembers' /\ GhostsClosedBeforeReady'
    BY <1>u, <2>1, MembersStay
  <2>3. GateTypeOK'
    BY <1>1 DEF Connect, GateState, GateTypeOK
  <2>4. BeyondAuthorizing' /\ LateIsEarly' /\ WaitersHaveALoader'
    BY <2>1 DEF GateState, BeyondAuthorizing, LateIsEarly, Pending, Draining,
                WaitersHaveALoader, Waiting
  <2> QED BY <2>2, <2>3, <2>4 DEF GateState
<1>2. ASSUME NEW c \in ClientId, NEW answer \in BOOLEAN,
             AuthorizeSettles(c, answer)
      PROVE  GateState'
  <2>a. /\ early' = early /\ gate[c] = "authorizing"
        /\ admitted' = IF answer /\ ~closed THEN admitted \cup {c}
                                            ELSE admitted
    BY <1>2 DEF AuthorizeSettles
  <2>1. CASE answer /\ ~closed
    <3>1. /\ \A d \in ClientId : d # c => gate'[d] = gate[d]
          /\ gate'[c] = IF runtime = "loaded" THEN "ready" ELSE "loading"
          /\ runtime' = IF runtime = "absent" THEN "loading" ELSE runtime
          /\ ws' = ws /\ queue' = queue
          /\ c \in admitted'
      BY <1>2, <2>1 DEF AuthorizeSettles, GateState, GateTypeOK
    <3>2. OnlyAdmittedMembers' /\ GhostsClosedBeforeReady'
      BY <1>u, <2>a, <3>1, MembersStay
    <3>3. GateTypeOK'
      BY <1>2, <2>1 DEF AuthorizeSettles, GateState, GateTypeOK
    <3>4. BeyondAuthorizing' /\ LateIsEarly'
      BY <2>a, <3>1 DEF GateState, BeyondAuthorizing, LateIsEarly, Pending,
                        Draining
    <3>5. WaitersHaveALoader'
      BY <3>1 DEF GateState, GateTypeOK, WaitersHaveALoader, Waiting
    <3> QED BY <3>2, <3>3, <3>4, <3>5 DEF GateState
  <2>2. CASE ~(answer /\ ~closed)
    <3>1. RejectGate({c}) /\ runtime' = runtime
      BY <1>2, <2>2 DEF AuthorizeSettles
    <3>2. admitted \subseteq admitted'
      BY <2>a
    <3> QED BY <1>u, <2>a, <3>1, <3>2, RejectedGates, MembersStay
            DEF GateState, GateTypeOK, WaitersHaveALoader
  <2> QED BY <2>1, <2>2
<1>3. ASSUME NEW loads \in BOOLEAN, RuntimeSettles(loads)
      PROVE  GateState'
  <2>a. early' = early /\ admitted' = admitted
    BY <1>3 DEF RuntimeSettles
  <2>1. CASE loads
    <3>1. /\ \A d \in ClientId :
               gate'[d] = IF gate[d] = "loading" THEN "ready" ELSE gate[d]
          /\ runtime' = "loaded" /\ ws' = ws /\ queue' = queue
      BY <1>3, <2>1 DEF RuntimeSettles, Waiting
    <3>2. OnlyAdmittedMembers' /\ GhostsClosedBeforeReady'
      BY <1>u, <2>a, <3>1, MembersStay
    <3>3. GateTypeOK'
      BY <1>3, <2>1 DEF RuntimeSettles, GateState, GateTypeOK
    <3>4. BeyondAuthorizing' /\ LateIsEarly' /\ WaitersHaveALoader'
      BY <2>a, <3>1 DEF GateState, BeyondAuthorizing, LateIsEarly, Pending,
                        Draining, WaitersHaveALoader, Waiting
    <3> QED BY <3>2, <3>3, <3>4 DEF GateState
  <2>2. CASE ~loads
    <3>1. RejectGate(Waiting) /\ runtime' = "absent"
      BY <1>3, <2>2 DEF RuntimeSettles
    <3> QED BY <1>u, <2>a, <3>1, RejectedGates, MembersStay
            DEF GateState, GateTypeOK, WaitersHaveALoader
  <2> QED BY <2>1, <2>2
<1>4. ASSUME NEW c \in ClientId, QueueRequest(c)
      PROVE  GateState'
  <2>1. /\ UNCHANGED <<ws, gate, runtime, admitted, early>>
        /\ Pending(c)
        /\ \A d \in ClientId : d # c => queue'[d] = queue[d]
    BY <1>4 DEF QueueRequest
  <2>2. OnlyAdmittedMembers' /\ GhostsClosedBeforeReady'
    BY <1>u, <2>1, MembersStay
  <2>3. LateIsEarly'
    BY <2>1 DEF GateState, LateIsEarly, Pending, Draining
  <2> QED BY <2>1, <2>2, <2>3
          DEF GateState, GateTypeOK, BeyondAuthorizing, WaitersHaveALoader,
              Waiting
<1>5. ASSUME NEW c \in ClientId, PreAuthLimit(c)
      PROVE  GateState'
  <2>a. UNCHANGED <<runtime, admitted, early>>
    BY <1>5 DEF PreAuthLimit
  <2>1. CASE gate[c] = "authorizing"
    <3>1. RejectGate({c})
      BY <1>5, <2>1 DEF PreAuthLimit
    <3> QED BY <1>u, <2>a, <3>1, RejectedGates, MembersStay
            DEF GateState, GateTypeOK, WaitersHaveALoader
  <2>2. CASE gate[c] # "authorizing"
    BY <1>5, <1>u, <2>2, GateUntouched DEF PreAuthLimit, CloseOpen
  <2> QED BY <2>1, <2>2
<1>6. ASSUME NEW c \in ClientId, OversizedFrame(c)
      PROVE  GateState'
  BY <1>6, <1>u, GateUntouched DEF OversizedFrame, CloseOpen
<1>7. ASSUME NEW c \in ClientId, CloseEvent(c)
      PROVE  GateState'
  <2>1. /\ Quiet
        /\ UNCHANGED <<gate, queue, runtime, admitted>>
        /\ \A d \in ClientId : d # c => ws'[d] = ws[d]
        /\ mgr' = RemoveFromAll(mgr, {c})
        /\ early' = IF gate[c] = "ready" THEN early ELSE early \cup {c}
    BY <1>7 DEF CloseEvent, SocketTypeOK
  <2>2. LateIsEarly'
    BY <2>1 DEF GateState, LateIsEarly, Pending, Draining, Quiet
  <2>3. \A s \in SessionId : /\ c \notin mgr'.clients[s]
                             /\ mgr'.clients[s] \subseteq mgr.clients[s]
                             /\ mgr.clients[s] \subseteq ClientId
    <3>1. \A s \in SessionId : RemoveFromAll(mgr, {c}).clients[s] \cap {c} = {}
      BY RemovedEverywhere DEF ManagerInv
    <3> QED BY <1>u, <2>1, <3>1
            DEF Undisturbed, Shrinks, ManagerInv, MgrInv, Manager
  <2>4. OnlyAdmittedMembers' /\ GhostsClosedBeforeReady'
    BY <2>1, <2>3
       DEF GateState, OnlyAdmittedMembers, GhostsClosedBeforeReady
  <2> QED BY <2>1, <2>2, <2>4
          DEF GateState, GateTypeOK, BeyondAuthorizing, WaitersHaveALoader,
              Waiting
<1>8. ASSUME NEW s \in SessionId,
             PtyOutput(s) \/ PtyExit(s) \/ OrphanTimerFires(s) \/ GoIdle(s)
      PROVE  GateState'
  BY <1>8, <1>u, GateUntouched
     DEF PtyOutput, PtyExit, OrphanTimerFires, GoIdle, unchangedByPty, Overflow
<1>9. CASE CleanupSessions \/ Shutdown
  BY <1>9, <1>u, GateUntouched
     DEF CleanupSessions, Shutdown, unchangedByPty, Overflow, CloseOpen
<1>10. CASE UNCHANGED vars
  BY <1>10, <1>u, GateUntouched DEF vars, connVars
<1> QED BY <1>1, <1>2, <1>3, <1>4, <1>5, <1>6, <1>7, <1>8, <1>9, <1>10
        DEF ServerNext

LEMMA GateStep == GateInv /\ [ServerNext]_vars => GateInv'
<1> SUFFICES ASSUME GateInv, [ServerNext]_vars
             PROVE  GateInv'
  OBVIOUS
<1>1. /\ ManagerInv /\ queue \in [ClientId -> Seq(Request)] /\ SocketTypeOK
      /\ GateState
  BY DEF GateInv, ServerInv
<1>2. ServerInv' /\ SocketTypeOK'
  BY <1>1, ServerStep, SocketTypeStep DEF GateInv
<1>3. GateState'
  BY <1>1, ServedGate, OtherGate
<1> QED BY <1>2, <1>3 DEF GateInv

LEMMA GateInit == ServerInit => GateInv
<1> SUFFICES ASSUME ServerInit
             PROVE  GateInv
  OBVIOUS
<1>1. ServerInv /\ SocketTypeOK
  BY SharingInit DEF SharingInv
<1>2. \A s \in SessionId : mgr.clients[s] = {}
  BY DEF ServerInit, MgrInit, EmptyManager
<1>3. GateState
  BY <1>2 DEF ServerInit, GateState, GateTypeOK, BeyondAuthorizing, LateIsEarly,
              Pending, Draining, OnlyAdmittedMembers, WaitersHaveALoader,
              Waiting, GhostsClosedBeforeReady
<1> QED BY <1>1, <1>3 DEF GateInv

LEMMA GateAlways == ServerSafe => []GateState
<1>1. GateInv => GateState
  BY DEF GateInv
<1> QED BY <1>1, GateInit, GateStep, PTL DEF ServerSafe

\* Nobody is in a session whom the authorization policy did not admit, however
\* early its requests came and however long the policy or the runtime took.
THEOREM ServerOnlyAdmittedMembers == ServerSafe => []OnlyAdmittedMembers
<1>1. GateState => OnlyAdmittedMembers
  BY DEF GateState
<1> QED BY <1>1, GateAlways, PTL

\* Whoever waits for the runtime waits for an import that is under way.
THEOREM ServerWaitersHaveALoader == ServerSafe => []WaitersHaveALoader
<1>1. GateState => WaitersHaveALoader
  BY DEF GateState
<1> QED BY <1>1, GateAlways, PTL

\* A connection that is gone can be in a session in one way only: its close
\* event came before its gate opened, and its queued requests after.
THEOREM ServerGhostsClosedBeforeReady == ServerSafe => []GhostsClosedBeforeReady
<1>1. GateState => GhostsClosedBeforeReady
  BY DEF GateState
<1> QED BY <1>1, GateAlways, PTL

-----------------------------------------------------------------------------
(* The per-client session limit.  The code counts with the reverse index;   *)
(* the property counts the sessions' own client maps.                       *)

SessionsOf(c) == {s \in SessionId : c \in mgr.clients[s]}

LEMMA IndexCounts ==
  ASSUME ManagerInv, NEW c \in ClientId
  PROVE  mgr.index[c] = SessionsOf(c) /\ IsFiniteSet(SessionsOf(c))
<1>1. mgr.index[c] \subseteq SessionId
  BY DEF ManagerInv, MgrInv, Manager
<1>2. mgr.index[c] = SessionsOf(c)
  BY <1>1 DEF ManagerInv, MgrInv, IndexMirrorsMembership, SessionsOf
<1>3. SessionsOf(c) \subseteq SessionId
  BY DEF SessionsOf
<1> QED BY <1>2, <1>3, ConstantsAssumption, FS_Subset

\* One more session than fewer than the limit is still within it.
LEMMA OneMoreSession ==
  ASSUME ManagerInv, NEW c \in ClientId, ~AtSessionLimit(c), NEW t,
         SessionsOf(c)' \subseteq SessionsOf(c) \cup {t}
  PROVE  Cardinality(SessionsOf(c)') <= MaxSessionsPerClient
<1> DEFINE S == SessionsOf(c)
           T == SessionsOf(c)'
<1>1. IsFiniteSet(S) /\ Cardinality(S) < MaxSessionsPerClient
      /\ Cardinality(S) \in Nat
  <2>1. mgr.index[c] = S /\ IsFiniteSet(S)
    BY IndexCounts
  <2>2. Cardinality(S) \in Nat
    BY <2>1, FS_CardinalityType
  <2> QED BY <2>1, <2>2, ServerAssumption DEF AtSessionLimit
<1>2. T \subseteq S \cup {t}
  OBVIOUS
<1> HIDE DEF S, T
<1>3. /\ IsFiniteSet(S \cup {t})
      /\ Cardinality(S \cup {t})
           = IF t \in S THEN Cardinality(S) ELSE Cardinality(S) + 1
  BY <1>1, FS_AddElement
<1>4. /\ Cardinality(T) <= Cardinality(S \cup {t})
      /\ Cardinality(T) \in Nat
  BY <1>2, <1>3, FS_Subset, FS_CardinalityType
<1> QED BY <1>1, <1>3, <1>4, ServerAssumption DEF T

LEMMA NoMoreSessions ==
  ASSUME ManagerInv, NEW c \in ClientId, SessionsOf(c)' \subseteq SessionsOf(c),
         Cardinality(SessionsOf(c)) <= MaxSessionsPerClient
  PROVE  Cardinality(SessionsOf(c)') <= MaxSessionsPerClient
<1> DEFINE S == SessionsOf(c)
           T == SessionsOf(c)'
<1>1. IsFiniteSet(S)
  BY IndexCounts
<1>2. T \subseteq S /\ Cardinality(S) <= MaxSessionsPerClient
  OBVIOUS
<1> HIDE DEF S, T
<1>3. /\ Cardinality(T) <= Cardinality(S)
      /\ Cardinality(T) \in Nat /\ Cardinality(S) \in Nat
  BY <1>1, <1>2, FS_Subset, FS_CardinalityType
<1>4. Cardinality(T) <= MaxSessionsPerClient
  BY <1>2, <1>3, ServerAssumption
<1> QED BY <1>4 DEF T

LimitInv == ServerInv /\ SocketTypeOK /\ ClientsWithinSessionLimit

LEMMA LimitStep == LimitInv /\ [ServerNext]_vars => LimitInv'
<1> SUFFICES ASSUME LimitInv, [ServerNext]_vars
             PROVE  ClientsWithinSessionLimit'
  BY ServerStep, SocketTypeStep DEF LimitInv, ServerInv
<1>1. /\ ManagerInv /\ queue \in [ClientId -> Seq(Request)] /\ SocketTypeOK
      /\ \A d \in ClientId : Cardinality(SessionsOf(d)) <= MaxSessionsPerClient
  BY DEF LimitInv, ServerInv, ClientsWithinSessionLimit, SessionsOf
<1>2. ASSUME \A d \in ClientId :
               Cardinality(SessionsOf(d)') <= MaxSessionsPerClient
      PROVE  ClientsWithinSessionLimit'
  BY <1>2 DEF ClientsWithinSessionLimit, SessionsOf
<1>m. mgr \in Manager
  BY <1>1 DEF ManagerInv, MgrInv
<1>3. CASE Undisturbed
  <2>1. \A d \in ClientId : SessionsOf(d)' \subseteq SessionsOf(d)
    BY <1>3 DEF SessionsOf, Undisturbed, Shrinks
  <2> QED BY <1>1, <1>2, <2>1, NoMoreSessions
<1>4. ASSUME NEW c \in ClientId, Serve(c) \/ Drain(c)
      PROVE  ClientsWithinSessionLimit'
  <2>1. PICK r \in Request : HandleIncomingMessage(c, r)
    BY <1>1, <1>4 DEF Serve, Drain, Draining, RequestsOf
  <2>2. Spawned(c) \/ Joined(c, r) \/ Undisturbed
    BY <1>1, <2>1, RequestEffect
  <2>3. \A d \in ClientId : d # c => SessionsOf(d)' \subseteq SessionsOf(d)
    BY <1>1, <2>2, RequestMembers DEF SessionsOf
  <2>4. Cardinality(SessionsOf(c)') <= MaxSessionsPerClient
    <3>1. CASE Spawned(c)
      <4>1. PICK t \in SessionId, share \in BOOLEAN, tmux \in BOOLEAN :
              Shrinks(mgr', CreateSession(mgr, t, c, share, tmux))
        BY <3>1 DEF Spawned
      <4> DEFINE n == CreateSession(mgr, t, c, share, tmux)
      <4>2. CreateEffect(n, mgr, t, c, tmux) /\ Shrinks(mgr', n)
        BY <1>m, <4>1, CreateFields
      <4> HIDE DEF n
      <4>3. SessionsOf(c)' \subseteq SessionsOf(c) \cup {t}
        BY <1>m, <4>2 DEF CreateEffect, Shrinks, Manager, SessionsOf
      <4> QED BY <1>1, <3>1, <4>3, OneMoreSession DEF Spawned
    <3>2. CASE Joined(c, r)
      <4> DEFINE n == AddClient(mgr, r.session, c, r.token)
      <4>1. /\ r.session \in SessionId
            /\ AddEffect(n, mgr, r.session, c) /\ Shrinks(mgr', n)
        BY <1>m, <3>2, AddFields DEF Joined
      <4> HIDE DEF n
      <4>2. SessionsOf(c)' \subseteq SessionsOf(c) \cup {r.session}
        BY <1>m, <4>1 DEF AddEffect, Shrinks, Manager, SessionsOf
      <4>3. CASE c \in mgr.clients[r.session]
        <5>1. SessionsOf(c)' \subseteq SessionsOf(c)
          BY <4>1, <4>2, <4>3 DEF SessionsOf
        <5> QED BY <1>1, <5>1, NoMoreSessions
      <4>4. CASE c \notin mgr.clients[r.session]
        BY <1>1, <3>2, <4>2, <4>4, OneMoreSession DEF Joined, MayJoin
      <4> QED BY <4>3, <4>4
    <3>3. CASE Undisturbed
      BY <1>3, <3>3, <1>1, NoMoreSessions DEF SessionsOf, Undisturbed, Shrinks
    <3> QED BY <2>2, <3>1, <3>2, <3>3
  <2> QED BY <1>1, <1>2, <2>3, <2>4, NoMoreSessions
<1>5. CASE \A c \in ClientId : ~Serve(c) /\ ~Drain(c)
  BY <1>1, <1>3, <1>5, OtherStepsUndisturbed
<1> QED BY <1>4, <1>5

\* No client is in more sessions than it may be, whether it spawned, joined or
\* resumed them and whatever left the index in between.
THEOREM ServerSessionLimit == ServerSafe => []ClientsWithinSessionLimit
<1>1. ServerInit => LimitInv
  <2> SUFFICES ASSUME ServerInit
               PROVE  LimitInv
    OBVIOUS
  <2>1. ServerInv /\ SocketTypeOK
    BY SharingInit DEF SharingInv
  <2>2. \A c \in ClientId : {s \in SessionId : c \in mgr.clients[s]} = {}
    BY DEF ServerInit, MgrInit, EmptyManager
  <2>3. Cardinality({}) <= MaxSessionsPerClient
    BY FS_EmptySet, ServerAssumption
  <2> QED BY <2>1, <2>2, <2>3 DEF LimitInv, ClientsWithinSessionLimit
<1>2. LimitInv => ClientsWithinSessionLimit
  BY DEF LimitInv
<1> QED BY <1>1, <1>2, LimitStep, PTL DEF ServerSafe

-----------------------------------------------------------------------------
(* Type correctness, with what every step does to the reasons sessions end  *)
(* for.                                                                     *)

LEMMA RemoveFromAllLive ==
  ASSUME NEW m, MgrInv(m), NEW D \in SUBSET ClientId
  PROVE  RemoveFromAll(m, D).live = m.live
<1> DEFINE gone == [s \in SessionId |-> {c \in D : s \in m.index[c]}]
<1>1. /\ gone \in [SessionId -> SUBSET ClientId] /\ m \in Manager
      /\ RemoveFromAll(m, D) = Detach(m, gone)
  BY DEF MgrInv, RemoveFromAll
<1> HIDE DEF gone
<1>2. DetachEffect(Detach(m, gone), m, gone)
  BY <1>1, DetachFields
<1> QED BY <1>1, <1>2 DEF DetachEffect

LEMMA CloseLive ==
  ASSUME NEW m, MgrInv(m), NEW S
  PROVE  CloseSessions(m, S).live = m.live \ S
<1> DEFINE n == CloseSessions(m, S)
<1>1. CloseEffect(n, m, S \cap m.live)
  BY CloseFields DEF MgrInv
<1> HIDE DEF n
<1>2. n.live = m.live \ S
  BY <1>1 DEF CloseEffect
<1> QED BY <1>2 DEF n

RestTypeOK ==
  /\ muted \subseteq ClientId
  /\ closed \in BOOLEAN
  /\ idle \subseteq mgr.live
  /\ admitted \subseteq ClientId
  /\ early \subseteq ClientId
  /\ ended \in [SessionId -> Reasons \cup {"none"}]

\* Only a session that exists, or that the step itself issued, is given a
\* reason, and then it is gone.
EndsWhatIsThere ==
  \A s \in SessionId :
    ended'[s] # ended[s] =>
      /\ s \notin mgr'.live
      /\ s \in mgr.live \/ (s \notin Issued /\ s \in Issued')

\* What the steps leave alone, and what closing sessions does to `ended`.
LEMMA RequestRest ==
  ASSUME ManagerInv, RestTypeOK, NEW c \in ClientId, NEW r \in Request,
         HandleIncomingMessage(c, r)
  PROVE  RestTypeOK' /\ EndsWhatIsThere
<1>0. PICK slow \in SUBSET SlowClients :
        \/ HandleSpawn(c, r, slow)
        \/ HandleFailedSpawn(c, r, slow)
        \/ HandleJoin(c, r, slow)
        \/ HandleLeave(c, r, slow)
        \/ HandleClose(c, r, slow)
        \/ HandleData(c, r, slow)
        \/ HandleRefused(c, r, slow)
  BY DEF HandleIncomingMessage
<1>s. slow \in SUBSET ClientId /\ MgrInv(mgr) /\ mgr \in Manager
  BY SlowAreClients DEF ManagerInv, MgrInv
<1>u. UNCHANGED <<muted, closed, admitted, early>>
  BY DEF HandleIncomingMessage
<1>1. CASE HandleSpawn(c, r, slow)
  <2>1. PICK s \in SessionId \ Issued :
          mgr' = RemoveFromAll(
                   CreateSession(mgr, s, c, r.options.share, r.options.tmux),
                   slow)
    BY <1>1 DEF HandleSpawn, StartSession
  <2> DEFINE n == CreateSession(mgr, s, c, r.options.share, r.options.tmux)
  <2>2. MayCreate(mgr, s)
    BY <1>1, FreshMayBeCreated DEF HandleSpawn, StartSession
  <2>3. MgrInv(n)
    BY <1>s, <2>2, CreateInv
  <2>4. CreateEffect(n, mgr, s, c, r.options.tmux)
    BY <1>s, CreateFields
  <2> HIDE DEF n
  <2>5. mgr'.live = mgr.live \cup {s}
    BY <1>s, <2>1, <2>3, <2>4, RemoveFromAllLive DEF CreateEffect, n
  <2> QED BY <1>1, <1>u, <2>5 DEF HandleSpawn, RestTypeOK, EndsWhatIsThere
<1>7. CASE HandleFailedSpawn(c, r, slow)
  <2>1. PICK s \in SessionId \ Issued :
          /\ mgr' = RemoveFromAll(
                      CloseSessions(
                        CreateSession(mgr, s, c, r.options.share,
                                      r.options.tmux), {s}),
                      slow)
          /\ Closing(CreateSession(mgr, s, c, r.options.share,
                                   r.options.tmux), {s}, "error")
    BY <1>7 DEF HandleFailedSpawn, StartSession
  <2> DEFINE n == CreateSession(mgr, s, c, r.options.share, r.options.tmux)
             k == CloseSessions(n, {s})
  <2>2. MayCreate(mgr, s)
    BY <1>7, FreshMayBeCreated DEF HandleFailedSpawn
  <2>3. MgrInv(n)
    BY <1>s, <2>2, CreateInv
  <2>4. CreateEffect(n, mgr, s, c, r.options.tmux)
    BY <1>s, CreateFields
  <2>d. mgr' = RemoveFromAll(k, slow) /\ Closing(n, {s}, "error")
    BY <2>1
  <2> HIDE DEF n
  <2>5. MgrInv(k) /\ k.live = n.live \ {s} /\ Shrinks(k, n)
    BY <2>3, CloseSessionsInv, CloseLive, CloseShrinks
  <2> HIDE DEF k
  <2>6. Shrinks(mgr', k) /\ mgr'.live = k.live
    BY <1>s, <2>d, <2>5, RemoveFromAllShrinks, RemoveFromAllLive
  <2>7. mgr'.live = mgr.live
    BY <2>2, <2>4, <2>5, <2>6 DEF CreateEffect, MayCreate
  <2>8. s \in Issued'
    BY <1>s, <2>4, <2>5, <2>6 DEF CreateEffect, Shrinks, Issued, Manager
  <2>9. idle' = idle \ {s}
    BY <2>d DEF Closing
  <2>10. ended' = [t \in SessionId |-> IF t \in {s} \cap n.live
                                         THEN "error" ELSE ended[t]]
    BY <2>d DEF Closing
  <2>11. RestTypeOK'
    BY <1>u, <2>7, <2>9, <2>10 DEF RestTypeOK, Reasons
  <2>12. EndsWhatIsThere
    BY <2>2, <2>7, <2>8, <2>10 DEF EndsWhatIsThere, MayCreate
  <2> QED BY <2>11, <2>12
<1>2. CASE HandleJoin(c, r, slow)
  <2> DEFINE n == AddClient(mgr, r.session, c, r.token)
  <2>1. r.session \in SessionId /\ CanAddClient(mgr, r.session, r.token)
        /\ mgr' = RemoveFromAll(n, slow)
    BY <1>2 DEF HandleJoin, MayJoin, Request, JoinRequest
  <2>2. MgrInv(n)
    BY <1>s, <2>1, AddInv
  <2>3. AddEffect(n, mgr, r.session, c)
    BY <1>s, <2>1, AddFields
  <2> HIDE DEF n
  <2>4. mgr'.live = mgr.live
    BY <1>s, <2>1, <2>2, <2>3, RemoveFromAllLive DEF AddEffect
  <2> QED BY <1>2, <1>u, <2>4 DEF HandleJoin, RestTypeOK, EndsWhatIsThere
<1>3. CASE HandleLeave(c, r, slow)
  <2> DEFINE gone == [t \in SessionId |-> IF t = r.session THEN {c} ELSE {}]
             n == RemoveClient(mgr, r.session, c)
  <2>1. r.session \in SessionId /\ mgr' = RemoveFromAll(n, slow)
    BY <1>3 DEF HandleLeave, Request, JoinRequest
  <2>2. MgrInv(n)
    BY <1>s, <2>1, RemoveClientInv
  <2>3. gone \in [SessionId -> SUBSET ClientId] /\ n = Detach(mgr, gone)
    BY DEF RemoveClient
  <2> HIDE DEF n, gone
  <2>4. DetachEffect(n, mgr, gone)
    BY <1>s, <2>3, DetachFields
  <2>5. mgr'.live = mgr.live
    BY <1>s, <2>1, <2>2, <2>4, RemoveFromAllLive DEF DetachEffect
  <2> QED BY <1>3, <1>u, <2>5 DEF HandleLeave, RestTypeOK, EndsWhatIsThere
<1>4. CASE HandleClose(c, r, slow)
  <2> DEFINE m == RemoveFromAll(mgr, slow)
  <2>1. MgrInv(m) /\ m.live = mgr.live
    BY <1>s, RemoveFromAllInv, RemoveFromAllLive
  <2> HIDE DEF m
  <2>2. mgr'.live = mgr.live \ {r.session}
    BY <1>4, <2>1, CloseLive DEF HandleClose, m
  <2> QED BY <1>4, <1>u, <2>2 DEF HandleClose, Closing, RestTypeOK, Reasons, EndsWhatIsThere
<1>5. CASE HandleData(c, r, slow)
  BY <1>5, <1>u, <1>s, RemoveFromAllLive
     DEF HandleData, UpdateActivity, RestTypeOK, EndsWhatIsThere
<1>6. CASE HandleRefused(c, r, slow)
  BY <1>6, <1>u, <1>s, RemoveFromAllLive DEF HandleRefused, RestTypeOK, EndsWhatIsThere
<1> QED BY <1>0, <1>1, <1>2, <1>3, <1>4, <1>5, <1>6, <1>7

LEMMA RestStep ==
  ASSUME ManagerInv, queue \in [ClientId -> Seq(Request)], RestTypeOK,
         [ServerNext]_vars
  PROVE  RestTypeOK' /\ EndsWhatIsThere
<1>m. MgrInv(mgr) /\ \A slow \in SUBSET SlowClients : slow \in SUBSET ClientId
  BY SlowAreClients DEF ManagerInv
<1>1. ASSUME NEW c \in ClientId, Serve(c) \/ Drain(c)
      PROVE  RestTypeOK' /\ EndsWhatIsThere
  <2>1. PICK r \in Request : HandleIncomingMessage(c, r)
    BY <1>1 DEF Serve, Drain, Draining, RequestsOf
  <2> QED BY <2>1, RequestRest
<1>2. ASSUME NEW c \in ClientId,
             \/ Connect(c)
             \/ \E answer \in BOOLEAN : AuthorizeSettles(c, answer)
             \/ QueueRequest(c)
             \/ PreAuthLimit(c)
             \/ OversizedFrame(c)
      PROVE  RestTypeOK' /\ EndsWhatIsThere
  BY <1>2 DEF Connect, AuthorizeSettles, QueueRequest, PreAuthLimit,
              OversizedFrame, RestTypeOK, EndsWhatIsThere
<1>3. ASSUME NEW c \in ClientId, CloseEvent(c)
      PROVE  RestTypeOK' /\ EndsWhatIsThere
  BY <1>3, <1>m, RemoveFromAllLive DEF CloseEvent, RestTypeOK, EndsWhatIsThere
<1>4. ASSUME NEW loads \in BOOLEAN, RuntimeSettles(loads)
      PROVE  RestTypeOK' /\ EndsWhatIsThere
  BY <1>4 DEF RuntimeSettles, RestTypeOK, EndsWhatIsThere
<1>5. ASSUME NEW s \in SessionId, PtyOutput(s)
      PROVE  RestTypeOK' /\ EndsWhatIsThere
  BY <1>5, <1>m, RemoveFromAllLive
     DEF PtyOutput, UpdateActivity, unchangedByPty, RestTypeOK, EndsWhatIsThere
<1>6. ASSUME NEW s \in SessionId, PtyExit(s)
      PROVE  RestTypeOK' /\ EndsWhatIsThere
  <2>1. PICK slow \in SUBSET SlowClients :
          mgr' = CloseSessions([RemoveFromAll(mgr, slow) EXCEPT
                                  !.pty[s] = "exited"], {s})
    BY <1>6 DEF PtyExit
  <2> DEFINE m == RemoveFromAll(mgr, slow)
             e == [m EXCEPT !.pty[s] = "exited"]
  <2>2. MgrInv(m) /\ m \in Manager /\ m.live = mgr.live
    BY <1>m, RemoveFromAllInv, RemoveFromAllLive DEF MgrInv
  <2> HIDE DEF m
  <2>3. e \in Manager /\ e.live = mgr.live
    BY <2>2 DEF Manager, Process
  <2> HIDE DEF e
  <2>4. CloseEffect(CloseSessions(e, {s}), e, {s} \cap e.live)
    BY <2>3, CloseFields
  <2>5. mgr'.live = mgr.live \ {s}
    BY <2>1, <2>3, <2>4 DEF CloseEffect, e, m
  <2> QED BY <1>6, <2>5
          DEF PtyExit, Closing, unchangedByPty, RestTypeOK, Reasons,
              EndsWhatIsThere
<1>7. ASSUME NEW s \in SessionId, OrphanTimerFires(s)
      PROVE  RestTypeOK' /\ EndsWhatIsThere
  BY <1>7, FireEndsOne
     DEF OrphanTimerFires, Closing, unchangedByPty, RestTypeOK, Reasons,
              EndsWhatIsThere
<1>8. ASSUME NEW s \in SessionId, GoIdle(s)
      PROVE  RestTypeOK' /\ EndsWhatIsThere
  BY <1>8 DEF GoIdle, unchangedByPty, RestTypeOK, EndsWhatIsThere
<1>9. CASE CleanupSessions
  <2>1. PICK slow \in SUBSET SlowClients :
          mgr' = CloseSessions(RemoveFromAll(mgr, slow), idle)
    BY <1>9 DEF CleanupSessions
  <2>2. mgr'.live = mgr.live \ idle
    BY <1>m, <2>1, RemoveFromAllInv, RemoveFromAllLive, CloseLive
  <2> QED BY <1>9, <2>2
          DEF CleanupSessions, Closing, unchangedByPty, RestTypeOK, Reasons,
              EndsWhatIsThere
<1>10. CASE Shutdown
  <2>1. mgr'.live = {}
    BY <1>10, <1>m, CleanupFields DEF Shutdown, CleanupEffect, MgrInv
  <2> QED BY <1>10, <2>1
          DEF Shutdown, Closing, RestTypeOK, Reasons, EndsWhatIsThere
<1>11. CASE UNCHANGED vars
  BY <1>11 DEF vars, connVars, RestTypeOK, EndsWhatIsThere
<1> QED BY <1>1, <1>2, <1>3, <1>4, <1>5, <1>6, <1>7, <1>8, <1>9, <1>10, <1>11
        DEF ServerNext

\* The server's state always has the shape of its maps, flags and queues.
THEOREM ServerTypeCorrect == ServerSafe => []ServerTypeOK
<1> DEFINE TypeInv == SharingInv /\ GateInv /\ RestTypeOK
<1>1. ServerInit => TypeInv
  BY SharingInit, GateInit DEF ServerInit, RestTypeOK
<1>2. TypeInv /\ [ServerNext]_vars => TypeInv'
  BY SharingStep, GateStep, RestStep DEF GateInv, ServerInv
<1>3. TypeInv => ServerTypeOK
  BY DEF SharingInv, SharingState, SocketTypeOK, GateInv, GateState, GateTypeOK,
         ServerInv, ManagerInv, MgrInv, MgrTypeOK, RestTypeOK, ServerTypeOK
<1> QED BY <1>1, <1>2, <1>3, PTL DEF ServerSafe

-----------------------------------------------------------------------------
(* A session ends once.                                                     *)

\* What has ended is gone, and its identifier is used up.
EndedGone ==
  \A s \in SessionId :
    ended[s] # "none" => s \notin mgr.live /\ s \in Issued

\* Only an identifier that was never issued comes to life, and one that was
\* issued stays so.
LEMMA NoneRevived ==
  ASSUME ManagerInv, NEW c \in ClientId, NEW r,
         Spawned(c) \/ Joined(c, r) \/ Undisturbed
  PROVE  /\ mgr'.live \subseteq mgr.live \cup (SessionId \ Issued)
         /\ Issued \subseteq Issued'
<1>m. mgr \in Manager
  BY DEF ManagerInv, MgrInv
<1>1. CASE Spawned(c)
  <2>1. PICK t \in SessionId \ Issued, share \in BOOLEAN, tmux \in BOOLEAN :
          Shrinks(mgr', CreateSession(mgr, t, c, share, tmux))
    BY <1>1 DEF Spawned
  <2> DEFINE n == CreateSession(mgr, t, c, share, tmux)
  <2>2. CreateEffect(n, mgr, t, c, tmux) /\ Shrinks(mgr', n)
    BY <1>m, <2>1, CreateFields
  <2> HIDE DEF n
  <2> QED BY <1>m, <2>2 DEF CreateEffect, Shrinks, Issued, Manager
<1>2. CASE Joined(c, r)
  <2> DEFINE n == AddClient(mgr, r.session, c, r.token)
  <2>1. /\ r.session \in SessionId
        /\ AddEffect(n, mgr, r.session, c) /\ Shrinks(mgr', n)
    BY <1>m, <1>2, AddFields DEF Joined
  <2> HIDE DEF n
  <2> QED BY <1>m, <2>1 DEF AddEffect, Shrinks, Issued, Manager
<1>3. CASE Undisturbed
  BY <1>3 DEF Undisturbed, Shrinks, Issued
<1> QED BY <1>1, <1>2, <1>3

LEMMA EndedStep ==
  ASSUME ManagerInv, SocketTypeOK, queue \in [ClientId -> Seq(Request)],
         RestTypeOK, EndedGone, [ServerNext]_vars
  PROVE  /\ EndedGone'
         /\ \A s \in SessionId :
              ended[s] # "none" => ended'[s] = ended[s] /\ s \notin mgr'.live
<1>1. EndsWhatIsThere
  BY RestStep
<1>2. /\ mgr'.live \subseteq mgr.live \cup (SessionId \ Issued)
      /\ Issued \subseteq Issued'
  <2>1. ASSUME NEW c \in ClientId, Serve(c) \/ Drain(c)
        PROVE  /\ mgr'.live \subseteq mgr.live \cup (SessionId \ Issued)
               /\ Issued \subseteq Issued'
    <3>1. PICK r \in Request : HandleIncomingMessage(c, r)
      BY <2>1 DEF Serve, Drain, Draining, RequestsOf
    <3> QED BY <3>1, RequestEffect, NoneRevived
  <2>2. CASE \A c \in ClientId : ~Serve(c) /\ ~Drain(c)
    BY <2>2, OtherStepsUndisturbed DEF Undisturbed, Shrinks, Issued
  <2> QED BY <2>1, <2>2
<1>3. \A s \in mgr.live : s \in SessionId => s \in Issued
  BY DEF ManagerInv, MgrInv, ProcessIffSession, Issued
<1> QED BY <1>1, <1>2, <1>3 DEF EndsWhatIsThere, EndedGone

\* A session ends once: of its owner's close, the orphan timer, the idle sweep,
\* shutdown, a failed spawn and the exit of its process the first gives the
\* reason, the others find nothing, and the identifier stays dead.
THEOREM ServerEndsOnce == ServerSafe => EndsOnce
<1> DEFINE EndInv == ServerInv /\ SocketTypeOK /\ RestTypeOK /\ EndedGone
<1>1. ServerInit => EndInv
  BY SharingInit DEF SharingInv, ServerInit, RestTypeOK, EndedGone
<1>2. EndInv /\ [ServerNext]_vars => EndInv'
  BY ServerStep, SocketTypeStep, RestStep, EndedStep DEF ServerInv
<1>3. EndInv /\ [ServerNext]_vars
        => [\A s \in SessionId :
              ended[s] # "none" => ended'[s] = ended[s] /\ s \notin mgr'.live]_vars
  BY EndedStep DEF ServerInv
<1> QED BY <1>1, <1>2, <1>3, PTL DEF ServerSafe, EndsOnce
=============================================================================
