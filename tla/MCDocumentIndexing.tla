------------------------ MODULE MCDocumentIndexing ------------------------
(* Instances of DocumentIndexing for TLC.                                   *)
EXTENDS DocumentIndexing
CONSTANTS d1, d2, c1, c2, w1, w2, r1, r2, g1, g2, g3

\* One document of one chunk.
MCDoc     == {d1}
MCChunk   == {c1}
MCDocOf   == [c \in MCChunk |-> d1]

\* Two documents uploaded together, of one chunk each.
MCDocs    == {d1, d2}
MCChunks  == {c1, c2}
MCDocsOf  == [c \in MCChunks |-> IF c = c1 THEN d1 ELSE d2]

\* The requests are about the first.
MCAsked   == {d1}

MCGens     == {g1, g2, g3}
MCWorker   == {w1}
MCWorkers  == {w1, w2}
MCRequest  == {r1}
MCRequests == {r1, r2}
=============================================================================
