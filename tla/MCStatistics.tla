---------------------------- MODULE MCStatistics ----------------------------
(* Small instances of the statistics for TLC.                              *)
EXTENDS StatisticsProperties, TLC

\* Nothing tells one civetweb thread from another.
WorkerSymmetry == Permutations(Workers)

\* A batch of good lines, one with a bad line behind a good one, and one
\* that is bad from the start.
SomeBatches == {<<TRUE, TRUE>>, <<TRUE, FALSE>>, <<FALSE>>}
=============================================================================
