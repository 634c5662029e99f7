-------------------------- MODULE MCTerminalClient --------------------------
(* Instances of the client and the server's end for model checking: which   *)
(* calls the application makes in each run.                                 *)
EXTENDS TerminalClient

\* Connecting and giving up, with something pending.
Connections == {"connect", "disconnect", "spawn", "list", "clear"}

\* Everything about sessions and requests.
Sessions == {"connect", "spawn", "join", "leave", "kill", "list", "write"}

\* As little as the disagreement takes.
Errors == {"connect", "spawn", "list", "write"}
=============================================================================
