-------------------------- MODULE MCMediaEvidence ---------------------------
(* A finite instance of MediaEvidence.                                     *)
EXTENDS MediaEvidence

CONSTANTS j1, j2, j3, j4

Kind(a, b, c, d) == (j1 :> a) @@ (j2 :> b) @@ (j3 :> c) @@ (j4 :> d)

\* Two scenes; for the bytes of the next download one that begins alike; none.
Lengths == <<<<2, 1>>, <<2>>, <<>>>>

\* Faces a and b look alike, c does not look like either.
Alike == [a |-> [a |-> 9, b |-> 6, c |-> 1],
          b |-> [a |-> 6, b |-> 9, c |-> 2],
          c |-> [a |-> 1, b |-> 2, c |-> 9]]

Face(name, points) == [face |-> name, score |-> points, inside |-> TRUE]
Shot(time, found) == [at |-> time, faces |-> found]
Found == {<<>>} \cup {<<x>> : x \in {Face("a", 1), Face("b", 2), Face("c", 1)}}
           \cup {<<x, y>> : x \in {Face("a", 1), Face("c", 2)}, y \in {Face("a", 2), Face("b", 1)}}

\* Every film of five frames of which the second is never sampled and the last
\* comes after a long gap.
Films == {<<Shot(0, f), Shot(1, <<Face("c", 2)>>), Shot(2, g), Shot(4, h), Shot(9, i)>> :
            f, g, h, i \in Found}
Clips == {<<Shot(0, <<Face("a", 1)>>), Shot(2, <<Face("b", 2), Face("c", 1)>>)>>,
          <<Shot(0, <<Face("c", 1), Face("a", 2)>>), Shot(2, <<Face("b", 1)>>)>>,
          <<Shot(2, <<Face("b", 2)>>)>>,
          <<Shot(0, <<[Face("a", 1) EXCEPT !.inside = FALSE]>>)>>}

Segment(s, from, to) == [speaker |-> s, start |-> from, end |-> to]
Recordings ==
  {[segments |-> s, windows |-> w] :
     s \in {<<Segment("x", 0, 4), Segment(None, 4, 5), Segment("y", 6, 9), Segment("x", 9, 11)>>,
            <<Segment("x", 0, 6)>>, <<Segment(None, 0, 2), Segment("y", 3, 5)>>},
     w \in {<<3, 3, 2>>, <<2, 2, 2, 2>>, <<3, 1, 3, 2>>, <<4, 2>>, <<2>>, <<>>}}

Track(name, of, count, in) == [key |-> name, members |-> of, samples |-> count, scenes |-> in]
Pages ==
  {[observations |-> <<"t1", "t2">>, tracks |-> <<Track("k1", {1, 2}, 2, {1, 2})>>],
   [observations |-> <<"t1", None, "t2">>,
    tracks |-> <<Track("k1", {1}, 1, {1}), Track("k2", {3}, 1, {2, 3})>>],
   [observations |-> <<None>>, tracks |-> <<>>],
   [observations |-> <<"t1", None>>, tracks |-> <<Track("k1", {1, 2}, 2, {1})>>],
   [observations |-> <<"t1">>, tracks |-> <<Track("k1", {1}, 2, {1})>>]}

Part(name, from) == [uuid |-> name, start |-> from]
Replies == {[categories |-> "all", segments |-> {Part("u", 1), Part("v", 2)}],
            [categories |-> "all", segments |-> {Part("u", 1), Part("w", 3)}],
            [categories |-> "intro", segments |-> {}]}

With4(kinds, again, one, seen, n) ==
  [job |-> kinds, refresh |-> again, select |-> one, faces |-> seen, changes |-> n]

Footage == [films |-> Films, clips |-> Clips]

Cases ==
  {With4(Kind("faces", None, None, None), {}, FALSE, "films", 0),
   With4(Kind("faces", "faces", "faces", None), {j2}, FALSE, "clips", 1),
   With4(Kind("voices", "voices", "voices", None), {j2}, FALSE, "clips", 1),
   With4(Kind("ocr", "scenes", "exact", None), {}, FALSE, "clips", 2),
   With4(Kind("sponsorblock", "sponsorblock", "sponsorblock", "export"), {j2, j3}, FALSE, "clips", 0)}
    \cup {With4(Kind("ocr", "ocr", "scenes", "export"), {j2}, one, "clips", 1) : one \in BOOLEAN}
    \cup {With4(Kind("scenes", "ocr", "exact", "export"), {j1}, one, "clips", 1) : one \in BOOLEAN}
=============================================================================
