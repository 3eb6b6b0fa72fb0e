--------------------------- MODULE MCCorpusPeople ---------------------------
(* Finite instance of CorpusPeople: one guest in two videos, each with a    *)
(* face and a voice, and a second run of the first video's voices.          *)
EXTENDS CorpusPeople

CONSTANTS ada, bob

\* 11 and 12 are faces, 13 to 15 voices: 15 is what a second run makes of 13.
MCVideoOf(t) == IF t \in {12, 14} THEN 2 ELSE 1
MCRunOf(t) == IF t = 15 THEN 2 ELSE 1
MCAlikeSets == {{11, 12}, {13, 14, 15}}
MCSeen(v) == IF v = 14 THEN {12} ELSE {11}
MCSays(t) == IF t \in {11, 13, 15} THEN {ada} ELSE {}
MCAnnounces(v) == {}
=============================================================================
