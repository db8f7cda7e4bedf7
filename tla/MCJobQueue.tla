----------------------------- MODULE MCJobQueue -----------------------------
(* The job repository on a small instance: two jobs, up to two attempts.   *)
EXTENDS JobQueue, TLC

CONSTANTS k1, k2, a, w1, w2

MCJobs == {1, 2}
MCKeys == {k1, k2}
MCRequests == {a}
MCWorkers == {w1, w2}
MCAttemptLimits == {1, 2}
MCSymmetry == Permutations(MCKeys) \cup Permutations(MCWorkers)
=============================================================================
