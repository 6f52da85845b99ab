--------------------------- MODULE MCClusterLoad ---------------------------
(* Small instances of ClusterLoad for TLC.                                 *)
EXTENDS ClusterLoad, TLC

CONSTANTS id1, id2, id3

\* The fixtures that poll for the answer after every request they write, and
\* all of them.
PollingFixtures == {"pause", "pause_and_resume", "reduce_and_resume", "resume"}
EveryFixture == AllFixtures

\* Identifiers are interchangeable.
IdSymmetry == Permutations(Ids)
=============================================================================
