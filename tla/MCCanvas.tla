------------------------------ MODULE MCCanvas ------------------------------
(* A canvas with a branching node both of whose branches lead to an          *)
(* aggregator, one with an iteration and a loop, and one with a loop of      *)
(* several children.                                                         *)
EXTENDS Canvas, TLC

Plain(kind) == Fresh(kind, None, None)
Inside(kind, c) == Fresh(kind, c, IF kind = "first" THEN None ELSE c)
Box(kind, first) == [Plain(kind) EXCEPT !.first = first]

Branching ==
  [nodes |-> 0 :> Plain("start") @@ 1 :> Plain("if") @@ 2 :> Plain("join"),
   edges |-> {<<0, "source", 1>>, <<1, "true", 2>>, <<1, "false", 2>>}]

Boxes ==
  [nodes |-> 0 :> Plain("start") @@ 1 :> Box("iter", 2) @@ 2 :> Inside("first", 1) @@ 3 :> Inside("code", 1)
             @@ 4 :> Box("loop", 5) @@ 5 :> Inside("first", 4),
   edges |-> {<<0, "source", 1>>, <<1, "source", 4>>, <<2, "source", 3>>}]

Crowded ==
  [nodes |-> 0 :> Plain("start") @@ 1 :> Box("loop", 2) @@ 2 :> Inside("first", 1) @@ 3 :> Inside("code", 1)
             @@ 4 :> Inside("code", 1) @@ 5 :> Inside("code", 1),
   edges |-> {<<0, "source", 1>>, <<2, "source", 3>>, <<3, "source", 4>>}]

MCTemplates == {Branching, Boxes, Crowded}
MCOpsOn == Branching :> 3 @@ Boxes :> 3 @@ Crowded :> 3
=============================================================================
