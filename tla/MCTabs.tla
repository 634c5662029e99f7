------------------------------- MODULE MCTabs -------------------------------
(* The element with its tabs for model checking: every kind of identifier   *)
(* is interchangeable.                                                      *)
EXTENDS Tabs, TLC

Symmetry == UNION {Permutations(S) : S \in {TabId, ClientId, SessionId, TerminalId}}

\* Bound: what careless use leads to is followed with one terminal at a time.
Bound == disturbed => Cardinality(terminals) <= 1
=============================================================================
