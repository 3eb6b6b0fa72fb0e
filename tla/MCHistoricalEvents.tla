-------------------------- MODULE MCHistoricalEvents --------------------------
(***************************************************************************)
(* Two suggestions, dates of two events; the text may lose the first.     *)
(***************************************************************************)
EXTENDS HistoricalEvents, TLC

CONSTANTS x1, x2, war, peace

LabelOf(s) == IF s = 2 THEN peace ELSE war
IsDate(s) == TRUE
BothOrLast == {{1, 2}, {2}}

\* Nothing yet and room for the two events of the text, or two events and room for a third.
NoneOrTwo == {[events |-> 0, left |-> 2], [events |-> 2, left |-> 1]}
Overlapping == Permutations({x1, x2})
==============================================================================
