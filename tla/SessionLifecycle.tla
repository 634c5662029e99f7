-------------------------- MODULE SessionLifecycle --------------------------
(* What the session manager promises about the life of a terminal session,  *)
(* with clients, timers and maps left out.  A session is absent, attached   *)
(* (some client is in it) or orphaned (nobody is); the pseudo-terminal      *)
(* process runs exactly while the session exists, unless it cannot be       *)
(* killed; an ordinary orphan does not stay one for ever, a tmux-backed one *)
(* may.                                                                     *)
EXTENDS Naturals, FiniteSets

CONSTANTS Session,      \* session identifiers
          MaxSessions,  \* how many sessions may exist at once
          Stubborn      \* sessions whose process cannot be killed

VARIABLES status,       \* [Session -> {"absent", "attached", "orphaned"}]
          persistent,   \* sessions backed by tmux
          running       \* sessions whose process runs

vars == <<status, persistent, running>>

Existing == {s \in Session : status[s] # "absent"}

Init == /\ status = [s \in Session |-> "absent"]
        /\ persistent = {}
        /\ running = {}

Open(s, keep) ==
  /\ status[s] = "absent"
  /\ Cardinality(Existing) < MaxSessions
  /\ status' = [status EXCEPT ![s] = "attached"]
  /\ persistent' = IF keep THEN persistent \cup {s} ELSE persistent
  /\ running' = running \cup {s}

\* One event may empty several sessions: a disconnect, or a slow client dropped.
Abandon(S) ==
  /\ S # {}
  /\ \A s \in S : status[s] = "attached"
  /\ status' = [s \in Session |-> IF s \in S THEN "orphaned" ELSE status[s]]
  /\ UNCHANGED <<persistent, running>>

Adopt(s) ==
  /\ status[s] = "orphaned"
  /\ status' = [status EXCEPT ![s] = "attached"]
  /\ UNCHANGED <<persistent, running>>

\* On request: one session, or all of them when the manager is cleaned up.
End(S) ==
  /\ S # {}
  /\ S \subseteq Existing
  /\ status' = [s \in Session |-> IF s \in S THEN "absent" ELSE status[s]]
  /\ persistent' = persistent \ S
  /\ running' = running \ (S \ Stubborn)

\* The reaper ends orphans only, and never a persistent one.
Reap(s) ==
  /\ status[s] = "orphaned"
  /\ s \notin persistent
  /\ End({s})

Next ==
  \/ \E s \in Session, keep \in BOOLEAN : Open(s, keep)
  \/ \E S \in SUBSET Session : Abandon(S) \/ End(S)
  \/ \E s \in Session : Adopt(s) \/ Reap(s)

Safe == Init /\ [][Next]_vars

Spec == Safe /\ \A s \in Session : WF_vars(Reap(s))
=============================================================================
