------------------------------- MODULE MCChat -------------------------------
(* Three messages: a tree with two branches, or one that goes two deep.      *)
EXTENDS Chat, TLC
=============================================================================
