------------------------ MODULE MCCanonicalIdentities ------------------------
(* A finite instance of CanonicalIdentities.                               *)
EXTENDS CanonicalIdentities

CONSTANTS g1, g2, p1, p2

\* The mention groups of a name in two corpora, and a person of each who bears it.
KeyOf(u) == CASE u = g1 -> 1 [] u = g2 -> 2 [] u = p1 -> 3 [] u = p2 -> 4
PersonType(u) == "person"
OneName(u) == IF u = p2 THEN None ELSE "name"

\* A shared video, two attributed names, a shared track.
NamedTwice == {<<g1, g2>>, <<p1, g1>>, <<p2, g2>>, <<p1, p2>>}
==============================================================================
