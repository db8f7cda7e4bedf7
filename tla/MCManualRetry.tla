---------------------------- MODULE MCManualRetry ---------------------------
(* Three jobs, two operators, a policy with room for one retry, as many as *)
(* a history may have, and one with room for two.                          *)
EXTENDS ManualRetry, TLC

CONSTANTS k1, k2, k3, a, w1, o1, o2

MCJobs == {1, 2, 3}
MCKeys == {k1, k2, k3}
MCReviewers == {o1, o2}
MCRules ==
  {[id |-> "open", allows |-> TRUE, max |-> 1, approved |-> TRUE],
   [id |-> "wide", allows |-> TRUE, max |-> 2, approved |-> TRUE]}
MCSymmetry == Permutations(MCKeys) \cup Permutations(MCReviewers)
=============================================================================
