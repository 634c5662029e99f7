\* Two tabs: the answer to spawn() comes after another tab is in view.
\* The system may stop: nobody is obliged to use the element.
SPECIFICATION TabsSpec
CONSTANTS
  TabId = {t1, t2}
  ClientId = {k1, k2}
  SessionId = {s1}
  TerminalId = {x1}
  None = None
CHECK_DEADLOCK FALSE
INVARIANT TabsHaveOwnSessions
