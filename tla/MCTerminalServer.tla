-------------------------- MODULE MCTerminalServer --------------------------
(* Instances of the terminal server for model checking. *)
EXTENDS TerminalServer, TLC

CONSTANTS c1, c2, c3, u1, u2

\* A user with two connections (a reconnect) and a guest with one.
Alice == {c1, c2}
TwoUsers == [c \in ClientId |-> IF c \in Alice THEN u1 ELSE u2]
OneUser == [c \in ClientId |-> u1]

Private == [share |-> FALSE, tmux |-> FALSE]
Shared == [share |-> TRUE, tmux |-> FALSE]
PrivateTmux == [share |-> FALSE, tmux |-> TRUE]

PrivateOrShared == {Private, Shared}
PrivateOnly == {Private}
PrivateOrTmux == {Private, PrivateTmux}

\* Fresh session identifiers are interchangeable.
Symmetric == Permutations(SessionId)
=============================================================================
