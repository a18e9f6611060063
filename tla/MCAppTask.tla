----------------------------- MODULE MCAppTask -----------------------------
(* Instances of AppTask for TLC.                                            *)
EXTENDS AppTask, TLC
CONSTANTS n1, n2, alice, bob

MCNodes    == {n1, n2}
MCUsers    == {alice, bob}
NodeSymmetry == Permutations(MCNodes)
=============================================================================
