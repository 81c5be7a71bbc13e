------------------------------- MODULE MCUiJobs -------------------------------
(* UiJobs with two jobs of one cell, one of which goes on to the reports.    *)
EXTENDS UiJobs

CONSTANTS j1, j2, c1

MCJob == {j1, j2}
MCCase == {c1}
MCCell == [j \in MCJob |-> "bravo.int.fd"]
MCPipeline == {j1}
MCWatched == {j1}
=============================================================================
