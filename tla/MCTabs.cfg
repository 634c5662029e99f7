\* Two tabs with a client, a terminal and a session each.
\* The system may stop: nobody is obliged to use the element.
SPECIFICATION TabsSpec
CONSTANTS
  TabId = {t1, t2}
  ClientId = {k1, k2}
  SessionId = {s1, s2}
  TerminalId = {x1, x2}
  None = None
SYMMETRY Symmetry
CONSTRAINT Bound
CHECK_DEADLOCK FALSE
INVARIANTS
  TabsKeepApart
  ComponentShowsActiveTab
  TabShowsItsClient
  NothingIsLeftBehind
