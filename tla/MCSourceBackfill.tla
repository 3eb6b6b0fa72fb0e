-------------------------- MODULE MCSourceBackfill --------------------------
(* Finite instances of SourceBackfill.                                     *)
EXTENDS SourceBackfill

CONSTANTS s1, s2, v1, v2, u1

InOrder == {<<v1, v2>>}

\* The order changes from one listing to the next, as a new upload makes it.
BothOrders == {<<v1, v2>>, <<v2, v1>>}

\* An automatic source is asked twice, for the first listed video and then for
\* all; a check found the first listed video before.
AskedTwice ==
  [automatic |-> {s1}, excluded |-> {}, waiting |-> {<<s1, v1>>},
   sourceOf |-> <<s1, s1>>, scopeOf |-> <<"limited", "full">>,
   listings |-> InOrder, switchable |-> {}, maxFaults |-> 1, users |-> {u1}]

\* A source under review is asked once and changes its policy meanwhile.
PolicyChanges ==
  [automatic |-> {}, excluded |-> {}, waiting |-> {},
   sourceOf |-> <<s1>>, scopeOf |-> <<"full">>,
   listings |-> BothOrders, switchable |-> {s1}, maxFaults |-> 1, users |-> {u1}]

\* A review-first source and an automatic one that list the same videos, of
\* which the filters of the first reject the second; and an automatic one that
\* a check has filled and that suffers a fault, beside one that changes its policy.
LiveSettings ==
  { [automatic |-> {s2}, excluded |-> {<<s1, v2>>}, waiting |-> {},
     sourceOf |-> <<s1, s2>>, scopeOf |-> <<"full", "full">>,
     listings |-> InOrder, switchable |-> {}, maxFaults |-> 0,
     users |-> {u1}],
    [AskedTwice EXCEPT !.sourceOf = <<s1>>, !.scopeOf = <<"full">>,
                       !.listings = {<<v1>>}, !.switchable = {s2}, !.users = {}] }

\* An automatic source is asked twice.
CompletedSettings == { [AskedTwice EXCEPT !.waiting = {}, !.maxFaults = 0] }
============================================================================
