---------------------------- MODULE RecentOutput ----------------------------
(* What a history buffer promises: of a stream of characters, numbered from *)
(* 0, it keeps the last MaxSize written since it was last cleared.          *)
EXTENDS Integers

CONSTANTS MaxSize,     \* how many characters are kept
          MaxChunk     \* the longest piece written at once

VARIABLES written,     \* how many characters were ever written
          oldest       \* the first one kept: oldest .. written - 1 are

Init == written = 0 /\ oldest = 0

Write(n) ==
  /\ written' = written + n
  /\ oldest' = IF written' - oldest > MaxSize THEN written' - MaxSize
                                              ELSE oldest

Forget == oldest' = written /\ UNCHANGED written

Next == Forget \/ \E n \in 1..MaxChunk : Write(n)

Spec == Init /\ [][Next]_<<written, oldest>>
=============================================================================
