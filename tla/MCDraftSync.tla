---------------------------- MODULE MCDraftSync ----------------------------
(* Two tabs with the same draft open; the first also runs it, looks at older *)
(* graphs, is hidden and left.                                               *)
EXTENDS DraftSync, TLC

CONSTANTS t1, t2, e1, e2, e3, p1, p2, p3

MCTabs == {t1, t2}
MCEdits == {e1, e2}
MCEditorOf == e1 :> t1 @@ e2 :> t2
MCIds == {p1, p2, p3}
IdSymmetry == Permutations(MCIds)
=============================================================================
