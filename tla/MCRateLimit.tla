---------------------------- MODULE MCRateLimit ----------------------------
(* Instances of RateLimit for TLC.                                          *)
EXTENDS RateLimit
CONSTANTS p1, p2, t1, t2, i1, i2, i3, i4

\* Two threads, each in a process of its own.
MCProcesses == {p1, p2}
MCThreads   == {t1, t2}
MCProcessOf == [t \in MCThreads |-> IF t = t2 THEN p2 ELSE p1]

\* Two threads with the largest limit 2 can exceed it by one: the fourth
\* request key is the one that must not be needed.
MCIds       == {i1, i2, i3, i4}
MCZeroOrTwo == {0, 2}
=============================================================================
