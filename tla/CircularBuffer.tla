--------------------------- MODULE CircularBuffer ---------------------------
(* The history buffer (src/server/circular-buffer.ts): a list of chunks and *)
(* their total size.  append pushes a chunk and then, in a loop, takes the  *)
(* overflow off the front, whole chunks first and a prefix last.            *)
(*                                                                          *)
(* Characters are named by their position in the stream of everything that  *)
(* was ever appended, so a chunk, whatever its text, is an interval of      *)
(* positions.  One action is one iteration of the loop.  Its `break` for an *)
(* empty list is not modelled, since it is never taken (NeverBreaks).       *)
EXTENDS Integers, Sequences

CONSTANTS MaxSize,      \* the constructor's maxSize, any safe integer >= 0
          MaxChunk,     \* bound: the longest chunk appended
          MaxWritten    \* bound: the characters appended in a behaviour

ASSUME BufferAssumption ==
  MaxSize \in Nat /\ MaxChunk \in Nat /\ MaxWritten \in Nat

VARIABLES buffer,       \* the chunks, oldest first
          currentSize,
          overflow,     \* append's local variable: its loop runs while > 0
          written,      \* the characters ever appended
          cleared       \* how many of them clear() has dealt with

bufferVars == <<buffer, currentSize, overflow, written, cleared>>

Chunk == [from : Nat, to : Nat]
Length(chunk) == chunk.to - chunk.from

Appending == overflow > 0

BufferInit ==
  /\ buffer = <<>>
  /\ currentSize = 0
  /\ overflow = 0
  /\ written = 0
  /\ cleared = 0

\* Mutant: the size is not what the trimming is computed from.
MutAppendChunk(n) ==
  /\ ~Appending
  /\ written + n <= MaxWritten
  /\ buffer' = Append(buffer, [from |-> written, to |-> written + n])
  /\ currentSize' = currentSize + n
  /\ overflow' = currentSize - MaxSize
  /\ written' = written + n
  /\ UNCHANGED cleared

\* append, up to its loop; the empty string is ignored.
AppendChunk(n) ==
  /\ ~Appending
  /\ written + n <= MaxWritten
  /\ buffer' = Append(buffer, [from |-> written, to |-> written + n])
  /\ currentSize' = currentSize + n
  /\ overflow' = currentSize' - MaxSize
  /\ written' = written + n
  /\ UNCHANGED cleared

\* Mutant: only whole chunks are dropped, the boundary chunk with them.
MutDropOldest ==
  /\ Appending
  /\ buffer # <<>>
  /\ buffer' = Tail(buffer)
  /\ currentSize' = currentSize - Length(Head(buffer))
  /\ overflow' = overflow - Length(Head(buffer))
  /\ UNCHANGED <<written, cleared>>

\* An iteration that drops the oldest chunk.
DropOldest ==
  /\ Appending
  /\ buffer # <<>>
  /\ Length(Head(buffer)) <= overflow
  /\ buffer' = Tail(buffer)
  /\ currentSize' = currentSize - Length(Head(buffer))
  /\ overflow' = overflow - Length(Head(buffer))
  /\ UNCHANGED <<written, cleared>>

\* The iteration that takes a prefix off the oldest chunk.
SliceOldest ==
  /\ Appending
  /\ buffer # <<>>
  /\ Length(Head(buffer)) > overflow
  /\ buffer' = [buffer EXCEPT ![1].from = @ + overflow]
  /\ currentSize' = currentSize - overflow
  /\ overflow' = 0
  /\ UNCHANGED <<written, cleared>>

Clear ==
  /\ ~Appending
  /\ buffer' = <<>>
  /\ currentSize' = 0
  /\ cleared' = written
  /\ UNCHANGED <<overflow, written>>

Trim == DropOldest \/ SliceOldest

BufferNext == Trim \/ Clear \/ \E n \in 1..MaxChunk : AppendChunk(n)

BufferSpec == BufferInit /\ [][BufferNext]_bufferVars

\* What the joined chunks are: the positions Start .. written - 1.
Start == IF buffer = <<>> THEN written ELSE Head(buffer).from

\* Mutant: the limit counts from the wrong end.
MutLimited(limit) ==
  [from |-> Start, to |-> IF limit < written - Start THEN Start + limit
                                                     ELSE written]

\* toString(limit) and tail: the last `limit` characters, or all of them.
Limited(limit) ==
  [from |-> IF limit < written - Start THEN written - limit ELSE Start,
   to |-> written]

-----------------------------------------------------------------------------
(* Properties. *)

BufferTypeOK ==
  /\ buffer \in Seq(Chunk)
  /\ currentSize \in Nat
  /\ overflow \in Int
  /\ written \in Nat
  /\ cleared \in Nat

\* The chunks are non-empty and follow one another without gap or overlap up
\* to the last character written.
Contiguous ==
  /\ \A i \in DOMAIN buffer : buffer[i].from < buffer[i].to
  /\ \A i \in 1..(Len(buffer) - 1) : buffer[i].to = buffer[i + 1].from
  /\ buffer # <<>> => buffer[Len(buffer)].to = written

\* The size field, which the trimming relies on, is the size of the text.
SizeIsLength == currentSize = written - Start

\* While trimming, the overflow is what is still too much.
OverflowExact == Appending => overflow = currentSize - MaxSize

\* Nothing is lost before it must be.
NothingLostEarly ==
  Start >= cleared /\ (currentSize < MaxSize => Start = cleared)

FitsWhenIdle == ~Appending => currentSize <= MaxSize

\* There is always a chunk left to take the overflow from.
NeverBreaks == Appending => buffer # <<>>

BufferInv ==
  /\ BufferTypeOK
  /\ Contiguous
  /\ SizeIsLength
  /\ OverflowExact
  /\ NothingLostEarly
  /\ FitsWhenIdle
  /\ NeverBreaks

\* The buffer holds exactly the last MaxSize characters since it was cleared,
\* chunks larger than the whole buffer and a capacity of zero included.
BufferHoldsTail ==
  ~Appending =>
    /\ Contiguous
    /\ SizeIsLength
    /\ Start = IF written - cleared > MaxSize THEN written - MaxSize
                                              ELSE cleared

\* append is one Write of the abstract buffer, taken when its chunk arrives;
\* the iterations that follow do not show.
Recent == INSTANCE RecentOutput
            WITH oldest <- IF Appending THEN written - MaxSize ELSE Start

\* The buffer implements "keep the last MaxSize characters".
KeepsRecentOutput == Recent!Spec
=============================================================================
