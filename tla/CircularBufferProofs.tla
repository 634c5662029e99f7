------------------------ MODULE CircularBufferProofs ------------------------
(* The history buffer keeps exactly the last MaxSize characters, for every  *)
(* capacity, every chunk size and every sequence of calls, by the invariant *)
(* of its loop.                                                             *)
EXTENDS CircularBuffer, TLAPS

USE DEF Appending

LEMMA StartIsNat == BufferTypeOK => Start \in Nat
<1> SUFFICES ASSUME BufferTypeOK PROVE Start \in Nat
  OBVIOUS
<1>1. CASE buffer = <<>>
  BY <1>1 DEF BufferTypeOK, Start
<1>2. CASE buffer # <<>>
  <2>1. Head(buffer) = buffer[1] /\ buffer[1] \in Chunk
    BY <1>2 DEF BufferTypeOK
  <2> QED BY <1>2, <2>1 DEF Start, Chunk
<1> QED BY <1>1, <1>2

LEMMA InitKeepsInv == BufferInit => BufferInv
<1> SUFFICES ASSUME BufferInit PROVE BufferInv
  OBVIOUS
<1>1. /\ buffer = <<>> /\ currentSize = 0 /\ overflow = 0 /\ ~Appending
      /\ written = 0 /\ cleared = 0 /\ Start = 0
  BY DEF BufferInit, Start
<1>2. BufferTypeOK /\ Contiguous
  BY <1>1 DEF BufferTypeOK, Contiguous
<1> QED BY <1>1, <1>2, BufferAssumption
        DEF BufferInv, SizeIsLength, OverflowExact, NothingLostEarly,
            FitsWhenIdle, NeverBreaks

LEMMA AppendKeepsInv ==
  ASSUME BufferInv, NEW n \in 1..MaxChunk, AppendChunk(n)
  PROVE  BufferInv'
<1> USE BufferAssumption
<1>c. [from |-> written, to |-> written + n] \in Chunk
  BY DEF BufferInv, BufferTypeOK, Chunk
<1>1. BufferTypeOK'
  BY <1>c DEF BufferInv, BufferTypeOK, AppendChunk
<1>2. Contiguous'
  BY <1>c DEF BufferInv, BufferTypeOK, Contiguous, AppendChunk, Chunk
<1>3. Start' = Start
  BY <1>c DEF BufferInv, BufferTypeOK, AppendChunk, Start, Chunk
<1>4. SizeIsLength'
  <2>1. Start \in Nat
    BY StartIsNat DEF BufferInv
  <2> QED BY <1>3, <2>1 DEF BufferInv, BufferTypeOK, SizeIsLength, AppendChunk
<1>5. OverflowExact'
  BY DEF BufferInv, BufferTypeOK, OverflowExact, AppendChunk
<1>6. NothingLostEarly'
  <2>1. Start \in Nat
    BY StartIsNat DEF BufferInv
  <2> QED BY <1>3, <2>1 DEF BufferInv, BufferTypeOK, NothingLostEarly,
                            SizeIsLength, AppendChunk
<1>7. FitsWhenIdle'
  BY <1>1 DEF BufferTypeOK, FitsWhenIdle, AppendChunk
<1>8. NeverBreaks'
  BY <1>c DEF BufferInv, BufferTypeOK, NeverBreaks, AppendChunk
<1> QED BY <1>1, <1>2, <1>4, <1>5, <1>6, <1>7, <1>8 DEF BufferInv

\* What one iteration of the loop leaves: the stream from where the dropped
\* part ended.
LEMMA DropKeepsInv ==
  ASSUME BufferInv, DropOldest
  PROVE  /\ BufferInv' /\ UNCHANGED <<written, cleared>>
         /\ currentSize' >= MaxSize
<1> USE BufferAssumption
<1>1. /\ buffer \in Seq(Chunk) /\ buffer # <<>> /\ Len(buffer) \in Nat \ {0}
      /\ Head(buffer) = buffer[1] /\ buffer[1] \in Chunk
      /\ buffer' = Tail(buffer)
  BY DEF BufferInv, BufferTypeOK, DropOldest
<1>2. /\ buffer' \in Seq(Chunk) /\ Len(buffer') = Len(buffer) - 1
      /\ \A i \in 1..Len(buffer') : buffer'[i] = buffer[i + 1]
  BY <1>1
<1>3. Length(Head(buffer)) \in Nat /\ Length(Head(buffer)) <= currentSize
  <2>1. written = buffer[Len(buffer)].to /\ buffer[1].from < buffer[1].to
    BY <1>1 DEF BufferInv, Contiguous
  <2>2. Length(Head(buffer)) <= overflow /\ overflow = currentSize - MaxSize
    BY DEF BufferInv, OverflowExact, DropOldest
  <2> QED BY <1>1, <2>1, <2>2 DEF Length, Chunk, BufferInv, BufferTypeOK
<1>4. BufferTypeOK'
  BY <1>2, <1>3 DEF BufferInv, BufferTypeOK, DropOldest
<1>5. Contiguous'
  <2>1. \A i \in DOMAIN buffer' : buffer'[i].from < buffer'[i].to
    BY <1>1, <1>2 DEF BufferInv, Contiguous
  <2>2. \A i \in 1..(Len(buffer') - 1) : buffer'[i].to = buffer'[i + 1].from
    <3> SUFFICES ASSUME NEW i \in 1..(Len(buffer') - 1)
                 PROVE  buffer'[i].to = buffer'[i + 1].from
      OBVIOUS
    <3>1. i + 1 \in 1..(Len(buffer) - 1) /\ i \in 1..Len(buffer')
          /\ i + 1 \in 1..Len(buffer')
      BY <1>1, <1>2
    <3> QED BY <1>2, <3>1 DEF BufferInv, Contiguous
  <2>3. buffer' # <<>> => buffer'[Len(buffer')].to = written'
    <3> SUFFICES ASSUME buffer' # <<>>
                 PROVE  buffer'[Len(buffer')].to = written'
      OBVIOUS
    <3>1. Len(buffer') \in 1..Len(buffer')
      BY <1>2
    <3>2. buffer'[Len(buffer')] = buffer[Len(buffer)]
      BY <1>1, <1>2, <3>1
    <3> QED BY <1>1, <3>2 DEF BufferInv, Contiguous, DropOldest
  <2> QED BY <2>1, <2>2, <2>3 DEF Contiguous
<1>6. Start' = buffer[1].to
  <2>1. CASE Len(buffer) = 1
    <3>1. buffer' = <<>>
      BY <1>2, <2>1
    <3> QED BY <1>1, <2>1, <3>1
            DEF BufferInv, Contiguous, Start, DropOldest
  <2>2. CASE Len(buffer) > 1
    <3>0. 1 \in 1..Len(buffer') /\ buffer' # <<>>
      <4>1. Len(buffer') >= 1 /\ Len(buffer') \in Nat
        BY <1>1, <1>2, <2>2
      <4>2. Len(<<>>) = 0
        OBVIOUS
      <4> QED BY <4>1, <4>2
    <3>1. buffer' # <<>> /\ Head(buffer') = buffer[2]
      BY <1>2, <3>0
    <3>2. buffer[1].to = buffer[2].from
      <4>1. 1 \in 1..(Len(buffer) - 1)
        BY <2>2
      <4> QED BY <4>1 DEF BufferInv, Contiguous
    <3>3. Start' = Head(buffer').from
      BY <3>1 DEF Start
    <3>4. Head(buffer').from = buffer[2].from
      BY <3>1
    <3> QED BY <3>2, <3>3, <3>4
  <2>3. Len(buffer) = 1 \/ Len(buffer) > 1
    <3>1. \A n \in Nat \ {0} : n = 1 \/ n > 1
      OBVIOUS
    <3> QED BY <1>1, <3>1
  <2> QED BY <2>1, <2>2, <2>3
<1>7. Start = buffer[1].from /\ Length(Head(buffer)) = Start' - Start
  BY <1>1, <1>6 DEF Start, Length
<1>8. SizeIsLength' /\ UNCHANGED <<written, cleared>>
  BY <1>1, <1>6, <1>7 DEF BufferInv, BufferTypeOK, SizeIsLength, DropOldest,
                          Chunk
<1>9. currentSize' >= MaxSize /\ overflow' = currentSize' - MaxSize
  BY <1>3 DEF BufferInv, BufferTypeOK, OverflowExact, DropOldest
<1>10. OverflowExact' /\ FitsWhenIdle'
  <2>1. currentSize' \in Nat /\ overflow' \in Int /\ MaxSize \in Nat
    BY <1>4, BufferAssumption DEF BufferTypeOK
  <2>2. overflow' > 0 => overflow' = currentSize' - MaxSize
    BY <1>9
  <2>a. \A o \in Int, size, max \in Nat :
          o = size - max /\ ~(o > 0) => size <= max
    OBVIOUS
  <2>3. ~(overflow' > 0) => currentSize' <= MaxSize
    BY <1>9, <2>1, <2>a
  <2> QED BY <2>2, <2>3 DEF OverflowExact, FitsWhenIdle
<1>11. NothingLostEarly'
  BY <1>1, <1>4, <1>3, <1>6, <1>7, <1>8, <1>9
     DEF NothingLostEarly, BufferInv, BufferTypeOK, Chunk
<1>12. NeverBreaks'
  <2> SUFFICES ASSUME Appending', buffer' = <<>> PROVE FALSE
    BY DEF NeverBreaks
  <2>1. currentSize' = 0
    BY <1>4, <1>8 DEF SizeIsLength, Start, BufferTypeOK
  <2> QED BY <1>10, <2>1 DEF OverflowExact
<1> QED BY <1>4, <1>5, <1>8, <1>9, <1>10, <1>11, <1>12 DEF BufferInv

LEMMA SliceKeepsInv ==
  ASSUME BufferInv, SliceOldest
  PROVE  /\ BufferInv' /\ UNCHANGED <<written, cleared>>
         /\ currentSize' >= MaxSize
<1> USE BufferAssumption
<1> DEFINE rest == [buffer[1] EXCEPT !.from = @ + overflow]
<1>1. /\ buffer \in Seq(Chunk) /\ buffer # <<>> /\ Len(buffer) \in Nat \ {0}
      /\ Head(buffer) = buffer[1] /\ buffer[1] \in Chunk
      /\ overflow \in Nat /\ overflow > 0
      /\ overflow = currentSize - MaxSize
      /\ overflow < buffer[1].to - buffer[1].from
  BY DEF BufferInv, BufferTypeOK, OverflowExact, SliceOldest, Length
<1>2. /\ rest \in Chunk /\ rest.from = buffer[1].from + overflow
      /\ rest.to = buffer[1].to
  <2>1. PICK from \in Nat, to \in Nat : buffer[1] = [from |-> from, to |-> to]
    BY <1>1 DEF Chunk
  <2>2. rest = [from |-> from + overflow, to |-> to] /\ from + overflow \in Nat
    BY <1>1, <2>1
  <2> QED BY <2>1, <2>2 DEF Chunk
<1>3. buffer' = [buffer EXCEPT ![1] = rest]
  BY DEF SliceOldest
<1>4. /\ buffer' \in Seq(Chunk) /\ Len(buffer') = Len(buffer)
      /\ buffer'[1] = rest /\ buffer' # <<>>
      /\ \A i \in 2..Len(buffer) : buffer'[i] = buffer[i]
  BY <1>1, <1>2, <1>3
<1> HIDE DEF rest
<1>5. BufferTypeOK'
  <2>1. currentSize - overflow = MaxSize
    BY <1>1, BufferAssumption DEF BufferInv, BufferTypeOK
  <2> QED BY <1>4, <2>1 DEF BufferInv, BufferTypeOK, SliceOldest
<1>6. Contiguous'
  <2>0. \A i \in 1..Len(buffer) :
          buffer'[i].to = buffer[i].to
            /\ (i # 1 => buffer'[i].from = buffer[i].from)
    <3> SUFFICES ASSUME NEW i \in 1..Len(buffer)
                 PROVE  buffer'[i].to = buffer[i].to
                          /\ (i # 1 => buffer'[i].from = buffer[i].from)
      OBVIOUS
    <3>1. CASE i = 1 BY <1>2, <1>4, <3>1
    <3>2. CASE i # 1
      <4>1. i \in 2..Len(buffer)
        BY <3>2
      <4> QED BY <1>4, <4>1
    <3> QED BY <3>1, <3>2
  <2>1. \A i \in DOMAIN buffer' : buffer'[i].from < buffer'[i].to
    <3> SUFFICES ASSUME NEW i \in 1..Len(buffer)
                 PROVE  buffer'[i].from < buffer'[i].to
      BY <1>1, <1>4
    <3>1. CASE i = 1
      BY <1>1, <1>2, <1>4, <3>1 DEF Chunk
    <3>2. CASE i # 1
      BY <1>1, <2>0, <3>2 DEF BufferInv, Contiguous
    <3> QED BY <3>1, <3>2
  <2>2. \A i \in 1..(Len(buffer') - 1) : buffer'[i].to = buffer'[i + 1].from
    <3> SUFFICES ASSUME NEW i \in 1..(Len(buffer) - 1)
                 PROVE  buffer'[i].to = buffer'[i + 1].from
      BY <1>4
    <3>1. i \in 1..Len(buffer) /\ i + 1 \in 1..Len(buffer) /\ i + 1 # 1
      BY <1>1
    <3> QED BY <2>0, <3>1 DEF BufferInv, Contiguous
  <2>3. buffer'[Len(buffer')].to = written'
    <3>1. Len(buffer) \in 1..Len(buffer)
      BY <1>1
    <3> QED BY <1>1, <1>4, <2>0, <3>1 DEF BufferInv, Contiguous, SliceOldest
  <2> QED BY <2>1, <2>2, <2>3 DEF Contiguous
<1>7. Start' = Start + overflow /\ Start \in Nat
  <2>1. Head(buffer') = buffer'[1]
    BY <1>4
  <2> QED BY <1>1, <1>2, <1>4, <2>1 DEF Start, Chunk
<1>8. SizeIsLength' /\ currentSize' = MaxSize /\ UNCHANGED <<written, cleared>>
  <2>1. currentSize \in Nat /\ written \in Nat /\ currentSize = written - Start
    BY DEF BufferInv, BufferTypeOK, SizeIsLength
  <2>2. currentSize' = currentSize - overflow /\ UNCHANGED <<written, cleared>>
    BY DEF SliceOldest
  <2> QED BY <1>1, <1>7, <2>1, <2>2 DEF SizeIsLength
<1>9. NothingLostEarly'
  BY <1>1, <1>7, <1>8 DEF BufferInv, BufferTypeOK, NothingLostEarly
<1>10. OverflowExact' /\ FitsWhenIdle' /\ NeverBreaks'
  BY <1>8 DEF OverflowExact, FitsWhenIdle, NeverBreaks, SliceOldest
<1> QED BY <1>5, <1>6, <1>8, <1>9, <1>10, BufferAssumption DEF BufferInv

LEMMA ClearKeepsInv == ASSUME BufferInv, Clear PROVE BufferInv'
BY BufferAssumption DEF Clear, BufferInv, BufferTypeOK, Contiguous,
  SizeIsLength, OverflowExact, NothingLostEarly, FitsWhenIdle, NeverBreaks,
  Start

LEMMA NextKeepsInv == BufferInv /\ [BufferNext]_bufferVars => BufferInv'
<1> SUFFICES ASSUME BufferInv, [BufferNext]_bufferVars PROVE BufferInv'
  OBVIOUS
<1>1. CASE DropOldest BY <1>1, DropKeepsInv
<1>2. CASE SliceOldest BY <1>2, SliceKeepsInv
<1>3. CASE Clear BY <1>3, ClearKeepsInv
<1>4. ASSUME NEW n \in 1..MaxChunk, AppendChunk(n) PROVE BufferInv'
  BY <1>4, AppendKeepsInv
<1>5. CASE UNCHANGED bufferVars
  BY <1>5 DEF bufferVars, BufferInv, BufferTypeOK, Contiguous, SizeIsLength,
              OverflowExact, NothingLostEarly, FitsWhenIdle, NeverBreaks, Start
<1> QED BY <1>1, <1>2, <1>3, <1>4, <1>5 DEF BufferNext, Trim

\* The loop's invariant holds in every state of the buffer, between its calls
\* and within them: circular-buffer.ts:31-56, and the `break` is dead code.
THEOREM BufferInvariant == BufferSpec => []BufferInv
BY InitKeepsInv, NextKeepsInv, PTL DEF BufferSpec

LEMMA InvGivesTail == BufferInv => BufferHoldsTail
<1> SUFFICES ASSUME BufferInv, ~Appending
             PROVE  Start = IF written - cleared > MaxSize
                              THEN written - MaxSize ELSE cleared
  BY DEF BufferHoldsTail, BufferInv
<1>1. Start \in Nat
  BY StartIsNat DEF BufferInv
<1> QED BY <1>1, BufferAssumption
        DEF BufferInv, BufferTypeOK, SizeIsLength, NothingLostEarly,
            FitsWhenIdle

\* Between calls, what toString() returns is the last maxSize characters of
\* what was appended since clear(): neither one less nor one more, for every
\* capacity, and chunks of every size.
THEOREM BufferKeepsTail == BufferSpec => []BufferHoldsTail
BY BufferInvariant, InvGivesTail, PTL

-----------------------------------------------------------------------------
(* The refinement. *)

Kept == IF Appending THEN written - MaxSize ELSE Start

LEMMA KeptAtInit == BufferInit => Recent!Init
BY DEF BufferInit, Recent!Init, Start

LEMMA KeptBounds ==
  BufferInv => /\ Start \in Nat /\ written \in Nat
               /\ Appending => written - MaxSize > Start
               /\ ~Appending => written - Start <= MaxSize
               /\ currentSize >= MaxSize => written - Start >= MaxSize
BY StartIsNat, BufferAssumption
   DEF BufferInv, BufferTypeOK, OverflowExact, SizeIsLength, FitsWhenIdle

LEMMA KeptAtStep ==
  ASSUME BufferInv, BufferInv', [BufferNext]_bufferVars
  PROVE  [Recent!Next]_<<written, Kept>>
<1> USE BufferAssumption
<1>1. /\ Start \in Nat /\ written \in Nat
      /\ Appending => written - MaxSize > Start
  BY KeptBounds
<1>2. (/\ Start \in Nat /\ written \in Nat
       /\ Appending => written - MaxSize > Start
       /\ ~Appending => written - Start <= MaxSize
       /\ currentSize >= MaxSize => written - Start >= MaxSize)'
  BY KeptBounds, PTL
<1>3. \A w, st, max \in Nat :
        /\ w - st <= max /\ w - st >= max => st = w - max
        /\ w - max > st => w - st > max
        /\ w - st <= max => ~(w - st > max)
  OBVIOUS
<1>4. CASE Trim
  <2>1. written' = written
    BY <1>4 DEF Trim, DropOldest, SliceOldest
  <2>2. ~Appending' => Start' = written - MaxSize
    <3>1. currentSize' >= MaxSize
      <4>1. CASE SliceOldest
        BY <4>1, SliceKeepsInv
      <4>2. CASE DropOldest
        BY <4>2, DropKeepsInv
      <4> QED BY <1>4, <4>1, <4>2 DEF Trim
    <3> QED BY <1>1, <1>2, <1>3, <2>1, <3>1, BufferAssumption
  <2>3. Kept' = Kept
    BY <1>4, <2>1, <2>2 DEF Kept, Trim, DropOldest, SliceOldest
  <2> QED BY <2>1, <2>3
<1>5. CASE Clear
  <2>1. Recent!Forget
    BY <1>5, <1>1 DEF Recent!Forget, Clear, Start
  <2> QED BY <2>1 DEF Recent!Next
<1>6. ASSUME NEW n \in 1..MaxChunk, AppendChunk(n) PROVE Recent!Next
  <2>1. written' = written + n /\ ~Appending
    BY <1>6 DEF AppendChunk
  <2>2. Start' = Start
    BY <1>6, <1>1 DEF AppendChunk, BufferInv, BufferTypeOK, Start, Chunk
  <2>3. /\ Appending' => written' - Start > MaxSize
        /\ ~Appending' => ~(written' - Start > MaxSize)
    BY <1>1, <1>2, <1>3, <2>2, BufferAssumption
  <2>4. Recent!Write(n)
    BY <2>1, <2>2, <2>3 DEF Recent!Write
  <2> QED BY <2>4 DEF Recent!Next
<1>7. CASE UNCHANGED bufferVars
  BY <1>7 DEF bufferVars, Kept, Start
<1> QED BY <1>4, <1>5, <1>6, <1>7 DEF BufferNext

\* append and clear implement "keep the last maxSize characters", the loop of
\* append being invisible to whoever reads the buffer between calls.
THEOREM BufferImplementsRecentOutput == BufferSpec => KeepsRecentOutput
<1>1. BufferInv /\ BufferInv' /\ [BufferNext]_bufferVars
        => [Recent!Next]_<<written, Kept>>
  BY KeptAtStep
<1>2. BufferSpec => Recent!Init /\ [][Recent!Next]_<<written, Kept>>
  BY <1>1, KeptAtInit, BufferInvariant, PTL DEF BufferSpec
<1> QED BY <1>2 DEF KeepsRecentOutput, Recent!Spec, Kept
=============================================================================
