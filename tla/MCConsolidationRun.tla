------------------------- MODULE MCConsolidationRun -------------------------
(* Instances of ConsolidationRun for TLC. *)
EXTENDS ConsolidationRun, TLC

\* The first two metered phases, alone and behind a free one.
TwoModelPhases == <<"extract", "synopsis">>
ThreePhases == <<"salience", "extract", "synopsis">>

\* Processes and run ids are interchangeable.
Identities == Permutations(Workers) \cup Permutations(Runs)
=============================================================================
