----------------------------- MODULE ResultFeed -----------------------------
(***************************************************************************)
(* What runner/orchestrator.py promises to whoever watches a run folder    *)
(* (the dashboard, the metrics and analysis steps): Results land one by    *)
(* one, the index page shows a growing subset of the landed Results, a     *)
(* batch that returns has landed and shown every case, and a folder is     *)
(* frozen once run_batch has returned or raised.  No scheduling, no locks, *)
(* no threads: Orchestrator is shown to implement this module.             *)
(***************************************************************************)
CONSTANT Case     \* the selected use-cases of one batch

VARIABLES
  landed,         \* cases whose <id>.result.json is complete on disk
  shown,          \* cases listed by index.html
  outcome         \* "running", then "returned" or "raised"

feedVars == <<landed, shown, outcome>>

Init ==
  /\ landed = {}
  /\ shown = {}
  /\ outcome = "running"

\* A case's canonical Result becomes complete on disk.
Land(c) ==
  /\ outcome = "running"
  /\ landed' = landed \union {c}
  /\ UNCHANGED <<shown, outcome>>

\* The index is rebuilt: it may gain landed cases and never loses one.
Show ==
  /\ outcome = "running"
  /\ shown' \in SUBSET landed
  /\ shown \subseteq shown'
  /\ UNCHANGED <<landed, outcome>>

\* run_batch returns only when the folder is complete.
Return ==
  /\ outcome = "running"
  /\ landed = Case
  /\ shown = Case
  /\ outcome' = "returned"
  /\ UNCHANGED <<landed, shown>>

\* run_batch raises: some case failed, whatever has landed stays.
Raise ==
  /\ outcome = "running"
  /\ outcome' = "raised"
  /\ UNCHANGED <<landed, shown>>

Next ==
  \/ \E c \in Case : Land(c)
  \/ Show
  \/ Return
  \/ Raise

Safety == Init /\ [][Next]_feedVars

=============================================================================
