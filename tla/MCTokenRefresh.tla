--------------------------- MODULE MCTokenRefresh ---------------------------
(* Instances of TokenRefresh: two tabs, three calls, one of them a stream. *)
EXTENDS TokenRefresh, TLC

CONSTANTS t1, t2, c1, c2, c3

MCTabs == {t1, t2}
MCCalls == {c1, c2, c3}
MCTabOf == c1 :> t1 @@ c2 :> t1 @@ c3 :> t2
=============================================================================
