------------------------- MODULE SessionOutputProofs -------------------------
(* History and live output meet without gap or repetition, for any number   *)
(* of connections, any size of the buffer and any pieces of output.         *)
EXTENDS SessionOutput, CircularBufferProofs

\* onData and those who join and clear use the buffer as it is meant to be used.
\* What the buffer keeps is therefore what CircularBufferProofs says 
\* (terminal-server.ts:1733-1740; session-manager.ts: appendHistory, clearHistory).
THEOREM OutputUsesBuffer == OutputSpec => BufferSpec
<1>1. OutputInit => BufferInit
  BY DEF OutputInit
<1>2. [OutputNext]_outputVars => [BufferNext]_bufferVars
  <2> SUFFICES ASSUME [OutputNext]_outputVars
               PROVE  BufferNext \/ UNCHANGED bufferVars
    OBVIOUS
  <2>1. ASSUME NEW n \in 1..MaxChunk, PtyData(n)
        PROVE  BufferNext \/ UNCHANGED bufferVars
    BY <2>1 DEF PtyData, BufferNext
  <2>2. CASE TrimHistory \/ ClearHistory
    BY <2>2 DEF TrimHistory, ClearHistory, BufferNext
  <2>3. CASE BroadcastToSession
    BY <2>3 DEF BroadcastToSession
  <2>4. ASSUME NEW c \in ClientId,
               \/ \E requestHistory \in BOOLEAN, limit \in 0..MaxSize :
                    HandleJoin(c, requestHistory, limit)
               \/ HandleLeave(c) \/ Disconnect(c)
        PROVE  UNCHANGED bufferVars
    BY <2>4 DEF HandleJoin, HandleLeave, Disconnect
  <2>5. CASE EndSession
    BY <2>5 DEF EndSession
  <2>6. CASE UNCHANGED outputVars
    BY <2>6 DEF outputVars
  <2> QED BY <2>1, <2>2, <2>3, <2>4, <2>5, <2>6 DEF OutputNext
<1> QED BY <1>1, <1>2, PTL DEF OutputSpec, BufferSpec

\* In a session, too, the buffer holds exactly the last MaxSize characters between
\* two pieces of output.
THEOREM SessionKeepsTail == OutputSpec => []BufferHoldsTail
BY OutputUsesBuffer, BufferKeepsTail, PTL

-----------------------------------------------------------------------------
(* The invariant. *)

\* How far the session's members were told the output: while onData runs, not yet
\* of the last piece.
Told == IF handling THEN data.from ELSE data.to

\* The shape of the state, as far as the screens depend on it.
OutputShape ==
  /\ historyEnabled \in BOOLEAN /\ handling \in BOOLEAN
  /\ data \in Chunk /\ data.from <= data.to
  /\ handling => data.from < data.to
  /\ screen \in [ClientId -> Seq(Chunk)]
  /\ entitled \in [ClientId -> Nat]
  /\ clients \subseteq ClientId

\* The history keeps up with the process, and is only trimmed within onData.
HistoryInStep ==
  /\ historyEnabled => written = Emitted
  /\ Appending => handling

\* A member sees one piece, up to what the session was told; nobody sees two,
\* but for those to whom a send may throw.
ScreensSeamless ==
  /\ \A c \in clients \ (closing \cup Failing) :
       /\ entitled[c] <= Told
       /\ screen[c] = Show(<<>>, [from |-> entitled[c], to |-> Told])
  /\ \A c \in ClientId \ Failing : Len(screen[c]) <= 1

OutputInv == OutputShape /\ HistoryInStep /\ ScreensSeamless

-----------------------------------------------------------------------------

\* The pieces a single piece makes.
LEMMA ShowOne ==
  ASSUME NEW p \in Chunk
  PROVE  /\ Show(<<>>, p) = IF p.from = p.to THEN <<>> ELSE <<p>>
         /\ Show(<<>>, p) \in Seq(Chunk) /\ Len(Show(<<>>, p)) <= 1
<1>1. Show(<<>>, p) = IF p.from = p.to THEN <<>> ELSE <<p>>
  BY DEF Show
<1>2. <<>> \in Seq(Chunk) /\ Len(<<>>) = 0
  OBVIOUS
<1>3. <<p>> \in Seq(Chunk) /\ Len(<<p>>) = 1
  OBVIOUS
<1> DEFINE q == Show(<<>>, p)
<1>4. q \in {<<>>, <<p>>}
  BY <1>1
<1> HIDE DEF q
<1>5. q \in Seq(Chunk) /\ Len(q) \in {0, 1}
  <2>1. CASE q = <<>>
    BY <1>2, <2>1, Zenon
  <2>2. CASE q = <<p>>
    BY <1>3, <2>2, Zenon
  <2> QED BY <1>4, <2>1, <2>2
<1>6. Len(q) <= 1
  <2>1. \A n \in {0, 1} : n <= 1
    OBVIOUS
  <2> QED BY <1>5, <2>1, Zenon
<1> QED BY <1>1, <1>5, <1>6, Zenon DEF q

LEMMA ShowTyped ==
  ASSUME NEW pieces \in Seq(Chunk), NEW p \in Chunk
  PROVE  Show(pieces, p) \in Seq(Chunk)
<1>1. CASE pieces # <<>>
  <2>1. Len(pieces) \in 1..Len(pieces) /\ p.to \in Nat
    BY <1>1 DEF Chunk
  <2> DEFINE q == pieces[Len(pieces)]
  <2>2. [q EXCEPT !.to = p.to] \in Chunk
    <3>1. q \in Chunk
      BY <2>1
    <3> HIDE DEF q
    <3> QED BY <2>1, <3>1 DEF Chunk
  <2>3. [pieces EXCEPT ![Len(pieces)] = [pieces[Len(pieces)] EXCEPT !.to = p.to]]
          \in Seq(Chunk)
    BY <2>1, <2>2
  <2> QED BY <2>3 DEF Show
<1>2. CASE pieces = <<>>
  BY <1>2 DEF Show
<1> QED BY <1>1, <1>2

\* A piece that begins where the last one ends continues it.
LEMMA ShowNext ==
  ASSUME NEW a \in Nat, NEW b \in Nat, NEW d \in Nat, a <= b, b < d
  PROVE  Show(Show(<<>>, [from |-> a, to |-> b]), [from |-> b, to |-> d])
           = Show(<<>>, [from |-> a, to |-> d])
<1>1. Show(<<>>, [from |-> a, to |-> d]) = <<[from |-> a, to |-> d]>>
  BY DEF Show
<1>2. CASE a = b
  <2>1. Show(<<>>, [from |-> a, to |-> b]) = <<>>
    BY <1>2 DEF Show
  <2> QED BY <1>1, <1>2, <2>1
<1>3. CASE a # b
  <2>1. Show(<<>>, [from |-> a, to |-> b]) = <<[from |-> a, to |-> b]>>
    BY <1>3 DEF Show
  <2>2. /\ Len(<<[from |-> a, to |-> b]>>) = 1
        /\ <<[from |-> a, to |-> b]>>[1].to = b
        /\ <<[from |-> a, to |-> b]>> # <<>>
    OBVIOUS
  <2>3. Show(<<[from |-> a, to |-> b]>>, [from |-> b, to |-> d])
          = [<<[from |-> a, to |-> b]>> EXCEPT ![1].to = d]
    BY <2>2 DEF Show
  <2>4. [<<[from |-> a, to |-> b]>> EXCEPT ![1].to = d] = <<[from |-> a, to |-> d]>>
    OBVIOUS
  <2> QED BY <1>1, <2>1, <2>3, <2>4
<1> QED BY <1>2, <1>3

\* What the history holds is what a client is entitled to, neither less nor more.
LEMMA LimitedIsEntitlement ==
  ASSUME BufferInv, ~Appending, written = Emitted, NEW limit \in 0..MaxSize
  PROVE  /\ Limited(limit) = [from |-> Entitlement(limit), to |-> Emitted]
         /\ Entitlement(limit) \in 0..Emitted
<1> DEFINE w == Emitted
           from == Limited(limit).from
           Entitled(f) == /\ w - f <= limit /\ w - f <= MaxSize
                          /\ f >= cleared
                          /\ w - f \in {limit, MaxSize} \/ f = cleared
<1>1. /\ w \in Nat /\ cleared \in Nat /\ cleared <= Start /\ Start <= w
      /\ Start = IF w - cleared > MaxSize THEN w - MaxSize ELSE cleared
      /\ Start \in Nat /\ MaxSize \in Nat /\ limit \in Nat /\ limit <= MaxSize
  BY InvGivesTail, StartIsNat, BufferAssumption
     DEF BufferInv, BufferTypeOK, BufferHoldsTail, SizeIsLength, NothingLostEarly
<1>2. from = IF limit < w - Start THEN w - limit ELSE Start
  BY DEF Limited
<1> HIDE DEF w, from
<1>3. from \in 0..w /\ Entitled(from)
  BY <1>1, <1>2
<1>4. \A f, g \in 0..w : Entitled(f) /\ Entitled(g) => f = g
  BY <1>1
<1>5. Entitlement(limit) = CHOOSE f \in 0..w : Entitled(f)
  BY DEF Entitlement, w
<1>6. Entitlement(limit) = from
  <2> HIDE DEF Entitled
  <2> QED BY <1>3, <1>4, <1>5
<1>7. Limited(limit) = [from |-> from, to |-> w]
  BY DEF Limited, from, w
<1> QED BY <1>3, <1>6, <1>7 DEF w

-----------------------------------------------------------------------------
(* Each step keeps the invariant. *)

LEMMA OutputInitially == OutputInit => OutputInv
<1> SUFFICES ASSUME OutputInit PROVE OutputInv
  OBVIOUS
<1>1. OutputShape
  <2>1. data = [from |-> 0, to |-> 0] /\ data \in Chunk
    BY DEF OutputInit, Chunk
  <2>2. <<>> \in Seq(Chunk)
    OBVIOUS
  <2>3. screen \in [ClientId -> Seq(Chunk)] /\ entitled \in [ClientId -> Nat]
    BY <2>2 DEF OutputInit
  <2>4. data.from = 0 /\ data.to = 0
    BY <2>1
  <2>5. historyEnabled \in BOOLEAN /\ handling = FALSE /\ clients \subseteq ClientId
    BY DEF OutputInit
  <2>6. handling \in BOOLEAN /\ ~handling
    BY <2>5, Zenon
  <2>7. data.from <= data.to
    BY <2>4
  <2> QED BY <2>1, <2>3, <2>5, <2>6, <2>7, Zenon DEF OutputShape
<1>2. HistoryInStep
  BY DEF OutputInit, BufferInit, HistoryInStep, Emitted, Appending
<1>3. ScreensSeamless
  BY DEF OutputInit, ScreensSeamless, Told, Show
<1> QED BY <1>1, <1>2, <1>3 DEF OutputInv

LEMMA PtyDataStep ==
  ASSUME OutputInv, BufferInv, NEW n \in 1..MaxChunk, PtyData(n)
  PROVE  OutputInv'
<1>1. /\ ~handling /\ handling'
      /\ data' = [from |-> data.to, to |-> data.to + n]
      /\ UNCHANGED <<historyEnabled, clients, closing, screen, entitled>>
      /\ data.to \in Nat /\ n \in Nat /\ n > 0
  BY BufferAssumption DEF PtyData, Between, Emitted, OutputInv, OutputShape, Chunk
<1>2. /\ data' \in Chunk /\ data'.from = data.to /\ data'.to = data.to + n
      /\ data'.from < data'.to /\ Told' = Told
  BY <1>1 DEF Chunk, Told
<1>3. OutputShape'
  BY <1>1, <1>2 DEF OutputInv, OutputShape
<1>4. HistoryInStep'
  BY <1>1, <1>2 DEF PtyData, OutputInv, HistoryInStep, Emitted, AppendChunk
<1>5. ScreensSeamless'
  BY <1>1, <1>2 DEF OutputInv, ScreensSeamless
<1> QED BY <1>3, <1>4, <1>5 DEF OutputInv

\* Trimming and clearing the history changes no screen.
LEMMA HistoryStep ==
  ASSUME OutputInv, TrimHistory \/ ClearHistory
  PROVE  OutputInv'
<1>1. /\ UNCHANGED <<historyEnabled, data, handling, clients, closing, screen,
                     entitled, written>>
      /\ Appending' => Appending
  BY DEF TrimHistory, ClearHistory, Trim, DropOldest, SliceOldest, Clear, Appending
<1>2. Told' = Told /\ Emitted' = Emitted
  BY <1>1 DEF Told, Emitted
<1>3. OutputShape'
  BY <1>1 DEF OutputInv, OutputShape
<1>4. HistoryInStep'
  BY <1>1, <1>2 DEF OutputInv, HistoryInStep
<1>5. ScreensSeamless'
  BY <1>1, <1>2 DEF OutputInv, ScreensSeamless
<1> QED BY <1>3, <1>4, <1>5 DEF OutputInv

LEMMA BroadcastStep ==
  ASSUME OutputInv, BroadcastToSession
  PROVE  OutputInv'
<1>1. PICK slow \in Slow(clients), thrown \in SUBSET Failing :
        /\ screen' = [c \in ClientId |->
                        IF c \in clients \ (slow \cup closing \cup thrown)
                          THEN Show(screen[c], data) ELSE screen[c]]
        /\ clients' = clients \ slow /\ closing' = closing \cup slow
  BY DEF BroadcastToSession, Drop
<1>2. /\ handling /\ ~handling' /\ ~Appending
      /\ handling' \in BOOLEAN
      /\ UNCHANGED <<bufferVars, historyEnabled, data, entitled>>
  BY DEF BroadcastToSession
<1>3. /\ data \in Chunk /\ data.from \in Nat /\ data.to \in Nat
      /\ data.from < data.to /\ data = [from |-> data.from, to |-> data.to]
      /\ Told = data.from /\ Told' = data.to
  BY <1>2 DEF OutputInv, OutputShape, Chunk, Told
<1>4. ASSUME NEW c \in clients' \ (closing' \cup Failing)
      PROVE  /\ entitled'[c] <= Told'
             /\ screen'[c] = Show(<<>>, [from |-> entitled'[c], to |-> Told'])
  <2>1. c \in clients \ (slow \cup closing \cup thrown \cup Failing)
        /\ c \in ClientId
    BY <1>1, <1>4 DEF OutputInv, OutputShape
  <2>2. /\ entitled[c] \in Nat /\ entitled[c] <= data.from
        /\ screen[c] = Show(<<>>, [from |-> entitled[c], to |-> data.from])
    BY <1>3, <2>1 DEF OutputInv, OutputShape, ScreensSeamless
  <2>3. screen'[c] = Show(screen[c], [from |-> data.from, to |-> data.to])
    BY <1>1, <1>3, <2>1
  <2>4. screen'[c] = Show(<<>>, [from |-> entitled[c], to |-> data.to])
    BY <1>3, <2>2, <2>3, ShowNext
  <2> QED BY <1>2, <1>3, <2>2, <2>4
<1>s. ASSUME NEW c \in ClientId
      PROVE  screen'[c] \in Seq(Chunk)
  <2>1. Show(screen[c], data) \in Seq(Chunk)
    BY <1>3, ShowTyped DEF OutputInv, OutputShape
  <2> QED BY <1>1, <2>1 DEF OutputInv, OutputShape
<1>5. ASSUME NEW c \in ClientId \ Failing
      PROVE  Len(screen'[c]) <= 1
  <2>1. CASE c \in clients \ (slow \cup closing)
    <3>1. c \in clients' \ (closing' \cup Failing)
      BY <1>1, <2>1
    <3>2. [from |-> entitled'[c], to |-> Told'] \in Chunk
      BY <1>2, <1>3 DEF OutputInv, OutputShape, Chunk
    <3> QED BY <1>4, <3>1, <3>2, ShowOne
  <2>2. CASE c \notin clients \ (slow \cup closing)
    BY <1>1, <2>2 DEF OutputInv, OutputShape, ScreensSeamless
  <2> QED BY <2>1, <2>2
<1>6. screen' \in [ClientId -> Seq(Chunk)]
  <2>1. screen' = [c \in ClientId |-> screen'[c]]
    BY <1>1
  <2> QED BY <1>s, <2>1
<1>7. OutputShape'
  BY <1>1, <1>2, <1>3, <1>6 DEF OutputInv, OutputShape
<1>8. HistoryInStep'
  BY <1>2 DEF OutputInv, HistoryInStep, Emitted, bufferVars, Appending
<1>9. ScreensSeamless'
  BY <1>4, <1>5 DEF ScreensSeamless
<1> QED BY <1>7, <1>8, <1>9 DEF OutputInv

\* A join shows the history from where the client is entitled to begin.
LEMMA JoinStep ==
  ASSUME OutputInv, BufferInv, NEW c \in ClientId, NEW requestHistory \in BOOLEAN,
         NEW limit \in 0..MaxSize, HandleJoin(c, requestHistory, limit)
  PROVE  OutputInv'
<1> DEFINE asked == requestHistory /\ historyEnabled
           history == IF asked THEN Limited(limit)
                               ELSE [from |-> Emitted, to |-> Emitted]
           first == IF asked THEN Entitlement(limit) ELSE Emitted
<1>1. PICK slow \in Slow(clients \cup {c}) :
        /\ clients' = (clients \cup {c}) \ slow /\ closing' = closing \cup slow
        /\ IF c \in slow \cup closing
             THEN UNCHANGED <<screen, entitled>>
             ELSE /\ screen' = [screen EXCEPT ![c] = Show(<<>>, history)]
                  /\ entitled' = [entitled EXCEPT ![c] = first]
  BY DEF HandleJoin, Drop
<1>2. /\ ~handling /\ ~Appending /\ Told = Emitted /\ Told' = Emitted
      /\ UNCHANGED <<bufferVars, historyEnabled, data, handling>>
      /\ Emitted \in Nat
  BY DEF HandleJoin, Between, OutputInv, OutputShape, HistoryInStep, Told, Emitted,
         Chunk
<1>3. history = [from |-> first, to |-> Emitted] /\ first \in Nat /\ first <= Emitted
  <2>1. CASE asked
    <3>1. written = Emitted
      BY <2>1 DEF OutputInv, HistoryInStep
    <3>2. /\ Limited(limit) = [from |-> Entitlement(limit), to |-> Emitted]
          /\ Entitlement(limit) \in 0..Emitted
      BY <1>2, <3>1, LimitedIsEntitlement
    <3> QED BY <1>2, <2>1, <3>2
  <2>2. CASE ~asked
    BY <1>2, <2>2
  <2> QED BY <2>1, <2>2
<1> HIDE DEF asked, history, first
<1>4. /\ Show(<<>>, history) \in Seq(Chunk) /\ Len(Show(<<>>, history)) <= 1
  <2>1. history \in Chunk
    BY <1>2, <1>3 DEF Chunk
  <2> QED BY <2>1, ShowOne
<1>5. /\ screen' \in [ClientId -> Seq(Chunk)] /\ entitled' \in [ClientId -> Nat]
      /\ \A d \in ClientId \ Failing : Len(screen'[d]) <= 1
  BY <1>1, <1>3, <1>4 DEF OutputInv, OutputShape, ScreensSeamless
<1>6. ASSUME NEW d \in clients' \ (closing' \cup Failing)
      PROVE  /\ entitled'[d] <= Told'
             /\ screen'[d] = Show(<<>>, [from |-> entitled'[d], to |-> Told'])
  <2>1. CASE d = c
    <3>1. screen'[d] = Show(<<>>, history) /\ entitled'[d] = first
      BY <1>1, <1>6, <2>1 DEF OutputInv, OutputShape
    <3> QED BY <1>2, <1>3, <3>1
  <2>2. CASE d # c
    <3>1. d \in clients \ (closing \cup Failing) /\ d \in ClientId
      BY <1>1, <1>6, <2>2 DEF OutputInv, OutputShape
    <3>2. screen'[d] = screen[d] /\ entitled'[d] = entitled[d]
      BY <1>1, <2>2, <3>1 DEF OutputInv, OutputShape
    <3> QED BY <1>2, <3>1, <3>2 DEF OutputInv, ScreensSeamless
  <2> QED BY <2>1, <2>2
<1>7. OutputShape'
  BY <1>1, <1>2, <1>5 DEF OutputInv, OutputShape
<1>8. HistoryInStep'
  BY <1>2 DEF OutputInv, HistoryInStep, Emitted, bufferVars, Appending
<1>9. ScreensSeamless'
  BY <1>5, <1>6 DEF ScreensSeamless
<1> QED BY <1>7, <1>8, <1>9 DEF OutputInv

\* Who goes leaves the others' screens alone.
LEMMA DepartureStep ==
  ASSUME OutputInv,
         EndSession \/ \E c \in ClientId : HandleLeave(c) \/ Disconnect(c)
  PROVE  OutputInv'
<1>1. /\ UNCHANGED <<bufferVars, historyEnabled, data, handling>>
      /\ clients' \subseteq clients
      /\ clients' \ closing' \subseteq clients \ closing
  BY DEF HandleLeave, Disconnect, EndSession, Drop
<1>2. /\ screen' \in [ClientId -> Seq(Chunk)] /\ entitled' \in [ClientId -> Nat]
      /\ \A d \in ClientId \ Failing : Len(screen'[d]) <= 1
      /\ \A d \in clients' : screen'[d] = screen[d] /\ entitled'[d] = entitled[d]
  <2>1. CASE EndSession \/ \E c \in ClientId : HandleLeave(c)
    BY <2>1 DEF HandleLeave, EndSession, OutputInv, OutputShape, ScreensSeamless
  <2>2. ASSUME NEW c \in ClientId, Disconnect(c)
        PROVE  /\ screen' \in [ClientId -> Seq(Chunk)]
               /\ entitled' \in [ClientId -> Nat]
               /\ \A d \in ClientId \ Failing : Len(screen'[d]) <= 1
               /\ \A d \in clients' :
                    screen'[d] = screen[d] /\ entitled'[d] = entitled[d]
    <3>1. /\ screen' = [screen EXCEPT ![c] = <<>>]
          /\ entitled' = [entitled EXCEPT ![c] = Emitted]
          /\ clients' = clients \ {c}
      BY <2>2 DEF Disconnect
    <3>2. Emitted \in Nat
      BY DEF OutputInv, OutputShape, Chunk, Emitted
    <3>3. <<>> \in Seq(Chunk) /\ Len(<<>>) = 0
      OBVIOUS
    <3> QED BY <3>1, <3>2, <3>3 DEF OutputInv, OutputShape, ScreensSeamless
  <2> QED BY <2>1, <2>2
<1>3. Told' = Told
  BY <1>1 DEF Told
<1>4. OutputShape'
  BY <1>1, <1>2 DEF OutputInv, OutputShape
<1>5. HistoryInStep'
  BY <1>1 DEF OutputInv, HistoryInStep, Emitted, bufferVars, Appending
<1>6. ScreensSeamless'
  BY <1>1, <1>2, <1>3 DEF OutputInv, ScreensSeamless
<1> QED BY <1>4, <1>5, <1>6 DEF OutputInv

LEMMA OutputStep == OutputInv /\ BufferInv /\ [OutputNext]_outputVars => OutputInv'
<1> SUFFICES ASSUME OutputInv, BufferInv, [OutputNext]_outputVars PROVE OutputInv'
  OBVIOUS
<1>1. CASE UNCHANGED outputVars
  BY <1>1 DEF outputVars, bufferVars, OutputInv, OutputShape, HistoryInStep,
              ScreensSeamless, Told, Emitted, Appending
<1>2. CASE \E n \in 1..MaxChunk : PtyData(n)
  BY <1>2, PtyDataStep
<1>3. CASE TrimHistory \/ ClearHistory
  BY <1>3, HistoryStep
<1>4. CASE BroadcastToSession
  BY <1>4, BroadcastStep
<1>5. CASE \E c \in ClientId :
             \/ \E requestHistory \in BOOLEAN, limit \in 0..MaxSize :
                  HandleJoin(c, requestHistory, limit)
             \/ HandleLeave(c) \/ Disconnect(c)
  BY <1>5, JoinStep, DepartureStep
<1>6. CASE EndSession
  BY <1>6, DepartureStep
<1> QED BY <1>1, <1>2, <1>3, <1>4, <1>5, <1>6 DEF OutputNext

\* What a connection is shown since it joined is one piece of the session's output,
\* from where it is entitled to begin up to the latest: handleJoinSession's history,
\* as much as the buffer was made to keep, and what broadcastToSession sends next.
THEOREM OutputIsSeamless == OutputSpec => []SeamlessOutput
<1>1. OutputSpec => []BufferInv
  BY OutputUsesBuffer, BufferInvariant, PTL
<1>2. OutputSpec => []OutputInv
  BY <1>1, OutputInitially, OutputStep, PTL DEF OutputSpec
<1>3. OutputInv => SeamlessOutput
  BY DEF OutputInv, ScreensSeamless, SeamlessOutput, Between, Told, Emitted
<1> QED BY <1>2, <1>3, PTL
=============================================================================
