----------------------------- MODULE MCJiraFiling -----------------------------
(* Instances of JiraFiling: which command uses which keys and which ledger.  *)
EXTENDS JiraFiling

CONSTANTS run1, run2, k1, k2, shared

\* Two commands over the same three defects, one of whose keys is repeated.
SameKeys == [p \in Command |-> <<k1, k2, k2>>]

TwoKeys == [p \in Command |-> <<k1, k2>>]

OneLedger == [p \in Command |-> shared]

\* The first command files one issue at a time, the second has no limit.
Limits == [p \in Command |-> IF p = run1 THEN 1 ELSE N]

=============================================================================
