--------------------------- MODULE MCAuthSessions ---------------------------
(* Two concurrent requests, two sessions, one password change.    *)
EXTENDS AuthSessions, TLC

CONSTANTS c1, c2, s1, s2

MCCalls == {c1, c2}
MCSessions == {s1, s2}
MCSymmetry == Permutations(MCCalls) \cup Permutations(MCSessions)
=============================================================================
