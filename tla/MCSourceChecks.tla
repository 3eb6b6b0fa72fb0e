--------------------------- MODULE MCSourceChecks ---------------------------
(* Finite instances of SourceChecks.                                       *)
EXTENDS SourceChecks, MCSourceBackfill, TLC

CONSTANTS c1, c2, c3

\* An automatic source; v1 is history, v2 is uploaded after it was listed.
OneSource ==
  [automatic |-> {s1}, excluded |-> {}, waiting |-> {}, users |-> {},
   sourceOf |-> <<s1>>, scopeOf |-> <<"none">>,
   listings |-> {<<v1>>}, checkListings |-> {{v1, v2}}]

\* Two tasks check for the scheduler, a user and the CLI.
CheckedByAll ==
  [switchable |-> {}, maxFaults |-> 0, maxStale |-> 0,
   checkers |-> {c1, c2}, kinds |-> {"scheduled", "manual", "cli"}] @@ OneSource

\* The scheduler checks; a step fails, and the policy changes or a claim goes stale.
CheckedWhenDue(switchable_, maxStale_) ==
  [switchable |-> switchable_, maxFaults |-> 1, maxStale |-> maxStale_,
   checkers |-> {c1}, kinds |-> {"scheduled"}] @@ OneSource

\* Three tasks check one listed video, and claims go stale or the server restarts.
ClaimsLost(kinds_, maxStale_) ==
  [switchable |-> {}, maxFaults |-> 1 - maxStale_, maxStale |-> maxStale_,
   checkers |-> {c1, c2, c3}, kinds |-> kinds_,
   listings |-> {<<>>}, checkListings |-> {{v1}}] @@ OneSource

\* Nobody checks: the history requests alone.
Unchecked == [maxStale |-> 0, checkers |-> {}, kinds |-> {}, checkListings |-> {}]

CheckSettings ==
  { CheckedByAll, CheckedWhenDue({s1}, 0), CheckedWhenDue({}, 1),
    ClaimsLost({"manual"}, 1), ClaimsLost({"cli"}, 0),
    Unchecked @@ AskedTwice, Unchecked @@ PolicyChanges }
============================================================================
