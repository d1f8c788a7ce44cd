----------------------------- MODULE MCEvidence -----------------------------
(* Every finding of every collector, over every cloud of at most five of      *)
(* anything (four, for the findings that look at three quantities, two for    *)
(* four to six, and one for more).                                            *)
EXTENDS Collector, FiniteSets

R == INSTANCE EvidenceRules

MCRules == R!AllRules
MCKinds(r) == R!ReadsOf(r)
MCFindingOf(r, v) == R!VerdictOf(r, v)
MCMost(r) == LET c == Cardinality(DOMAIN R!ReadsOf(r))
             IN  IF c <= 2 THEN 5 ELSE IF c = 3 THEN 4 ELSE IF c <= 6 THEN 2 ELSE 1
MCUngated == R!Named(R!UngatedFindings)
MCOverlooks == R!Named(R!OverlookingFindings)
MCMisses == R!Named(R!MissingFindings)
MCNameless == R!Named(R!NamelessFindings)
=============================================================================
