------------------------------ MODULE MCOtpInbox ------------------------------
(* Instances of OtpInbox: two sessions, and names that may clash.            *)
EXTENDS OtpInbox, TLC

CONSTANTS s1, s2, Anna, Emil, Otto

\* The sessions are interchangeable: every initial assignment of names to them
\* is considered, and the set of assignments is closed under permutation.
Sessions == Permutations(Session)

\* Where both are first names only, so are Anna and Emil.
Interchange == {p @@ q : p \in Sessions, q \in Permutations({Anna, Emil})}

=============================================================================
