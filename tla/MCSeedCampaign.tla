---------------------------- MODULE MCSeedCampaign ----------------------------
(* Instances of SeedCampaign: the command lines.                             *)
EXTENDS SeedCampaign

All(verify, limit) == [all |-> TRUE, verify |-> verify, limit |-> limit, given |-> <<>>]
From(verify) == [all |-> FALSE, verify |-> verify, limit |-> N, given |-> << <<0, 1>> >>]

\* Two cases of four are seedable; a given booking may be seeded twice.
AllCommands == << {All(TRUE, N), All(FALSE, 1), From(TRUE)}, {From(TRUE), All(TRUE, 1)} >>

\* A booking cloned from a fixture, then the first case of the catalog.
OneOfEach == << {From(TRUE)}, {All(TRUE, 1)} >>

=============================================================================
