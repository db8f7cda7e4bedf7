---------------------------- MODULE MCJobWorkers ----------------------------
(* Workers and an operator on a small instance: one job, two attempts.     *)
EXTENDS JobWorkers

CONSTANTS k1, a, w1, w2, o1

MCJobs == {1}
MCAttemptLimits == {2}
=============================================================================
