----------------------- MODULE HistoricalEventsProofs -----------------------
(***************************************************************************)
(* What researchers decide of claims survives the extractions: for any     *)
(* number of events, claims, suggestions and extractions that overlap in   *)
(* any way with corrections, a reviewed claim stays as it was reviewed, no *)
(* event has two preferred readings, and every merged event leads to a     *)
(* live one.  The invariant that carries this says of whom a row is that   *)
(* is written and not committed: ids of claims and of events belong to one *)
(* extraction, and the events of a correction stay live under its locks.   *)
(***************************************************************************)
EXTENDS HistoricalEvents, FiniteSetTheorems, WellFoundedInduction, TLAPS

\* A correction has what its action needs, and its events stay live: it holds their locks.
\* A claim to be preferred is dated for as long as it exists.
CorrectionSound ==
  correction # None =>
    /\ correction.event \in Live
    /\ correction.action = "review" => correction.status \in Statuses
    /\ correction.action = "merge" => correction.other \in Live \ {correction.event}
    /\ correction.action \in {"rename", "split"} => correction.name \in Labels
    /\ correction.action = "prefer" =>
         \E c \in Claims : /\ correction.claims = {c} /\ review[c] # None
                           /\ eventOf[c] # None => IsDated(keyOf[c])

\* Only events that exist were merged, each into a live one.
MergesLead ==
  \A e \in Events : mergedInto[e] # None => e \in Rows /\ mergedInto[e] \in Live

\* A claim that was never made is of no event, and a claim's event exists.
ClaimsMade ==
  \A c \in Claims :
    /\ review[c] = None => eventOf[c] = None
    /\ eventOf[c] # None => eventOf[c] \in Rows

\* What an extraction inserts is nobody else's: ids that no claim has, in events that exist
\* or that it made.
NewFresh ==
  \A x \in Extractions : \A n \in run[x].new :
    /\ review[n.claim] = None
    /\ \E h \in run[x].homes : h.event = n.event /\ (h.made \/ n.event \in Rows)
    /\ \A y \in Extractions : \A m \in run[y].new : m.claim = n.claim => x = y /\ m = n

\* An event that an extraction has made is its own until it commits.
HomesFresh ==
  \A x \in Extractions : \A h \in run[x].homes : h.made =>
    /\ label[h.event] = None
    /\ \A y \in Extractions : \A g \in run[y].homes : g.event = h.event => x = y /\ g = h

IInv ==
  /\ EventsTypeOK /\ CorrectionSound /\ MergesLead /\ ClaimsMade /\ NewFresh /\ HomesFresh
  /\ OnePreferred

---------------------------------------------------------------------------
(* The rows that are still free.                                           *)

LEMMA NewClaimIsFree ==
  ASSUME NEW c \in NewClaim
  PROVE  /\ c \in Claims /\ review[c] = None
         /\ \A x \in Extractions : \A n \in run[x].new : n.claim # c
  BY DEF NewClaim, Least, New

LEMMA NewEventIsFree ==
  ASSUME NEW e \in NewEvent
  PROVE  /\ e \in Events /\ label[e] = None
         /\ \A x \in Extractions : \A h \in run[x].homes : h.event # e
  BY DEF NewEvent, Least

LEMMA NamesDiffer ==
  /\ None # Gone /\ None \notin Labels /\ Gone \notin Labels /\ None \notin Events
  /\ None \notin Statuses /\ Gone \notin Statuses
  /\ {"unverified", "confirmed", "rejected"} = Statuses
  BY GoneAssumption, LabelAssumption, IdsAssumption DEF Statuses

---------------------------------------------------------------------------
(* Types.                                                                  *)

LEMMA ResearchTyped ==
  ASSUME EventsTypeOK, CorrectionSound, Research
  PROVE  EventsTypeOK'
  <1> USE NamesDiffer, LabelAssumption, ActsAssumption
  <1>1. CASE CreateEvent
    <2>1. PICK l \in Names, e \in NewEvent, c \in NewClaim :
            label' = [label EXCEPT ![e] = l] /\ Inserted(e, c, Manual)
      BY <1>1 DEF CreateEvent
    <2>2. e \in Events /\ c \in Claims /\ l \in Labels /\ review[c] = None
      BY <2>1, NewEventIsFree, NewClaimIsFree
    <2>3. preferred' \subseteq Existing'
      BY <2>1, <2>2 DEF Inserted, EventsTypeOK, Existing
    <2> QED
      BY <1>1, <2>1, <2>2, <2>3 DEF CreateEvent, Inserted, EventsTypeOK, Acts, history
  <1>2. CASE ResolveEvent
    BY <1>2 DEF ResolveEvent, EventsTypeOK, Live, Rows, Acts, eventVars, claimVars, history,
       Existing
  <1>3. CASE AddClaim
    <2>1. PICK c \in NewClaim : Inserted(adding, c, Manual)
      BY <1>3 DEF AddClaim
    <2>2. adding \in Events /\ c \in Claims /\ review[c] = None
      BY <1>3, NewClaimIsFree DEF AddClaim, Rows
    <2>3. preferred' \subseteq Existing'
      BY <2>1, <2>2 DEF Inserted, EventsTypeOK, Existing
    <2> QED
      BY <1>3, <2>1, <2>2, <2>3 DEF AddClaim, Inserted, EventsTypeOK, eventVars, history
  <1>4. CASE AddFails \/ CorrectionFails
    BY <1>4 DEF AddFails, CorrectionFails, EventsTypeOK, eventVars, claimVars, history, Existing
  <1>5. CASE \E e \in Live : \/ StartReview(e) \/ StartPrefer(e) \/ StartUnprefer(e) \/ StartRename(e)
                             \/ StartMerge(e) \/ StartSplit(e)
    <2>1. UNCHANGED <<texts, eventVars, claimVars, adding, run, history>> /\ Acts
      BY <1>5 DEF StartReview, StartPrefer, StartUnprefer, StartRename, StartMerge,
         StartSplit, Locks
    <2>2. correction' \in Corrections
      BY <1>5 DEF StartReview, StartPrefer, StartUnprefer, StartRename, StartMerge, StartSplit,
                  Locks, Corrections, Live, Rows, Selections, ClaimsOf
    <2> QED
      BY <2>1, <2>2 DEF EventsTypeOK, eventVars, claimVars, history, Existing, Acts
  <1>6. CASE Review
    BY <1>6 DEF Review, Writes, EventsTypeOK, Left, Corrections, Existing, eventVars,
       CorrectionSound
  <1>7. CASE Prefer
    BY <1>7 DEF Prefer, Writes, PreferredBut, EventsTypeOK, Left, Corrections, Existing,
       ClaimsOf, eventVars, history
  <1>8. CASE Unprefer
    BY <1>8 DEF Unprefer, Writes, PreferredBut, EventsTypeOK, Corrections, Existing,
       eventVars, history
  <1>9. CASE Rename
    BY <1>9 DEF Rename, Writes, EventsTypeOK, Corrections, Existing, claimVars, history,
       CorrectionSound
  <1>10. CASE Merge
    <2>1. correction.event \in Events /\ correction.other \in Events
      BY <1>10 DEF Merge, Writes, CorrectionSound, Live, Rows
    <2>2. eventOf' \in [Claims -> Events \cup {None}] /\ mergedInto' \in [Events -> Events \cup {None}]
      BY <1>10, <2>1 DEF Merge, EventsTypeOK, Redirected
    <2>3. preferred' \subseteq Existing'
      BY <1>10, <2>1 DEF Merge, EventsTypeOK, Existing
    <2> QED
      BY <1>10, <2>2, <2>3 DEF Merge, Writes, EventsTypeOK, history
  <1>11. CASE Split
    <2>1. PICK new \in NewEvent :
            /\ label' = [label EXCEPT ![new] = correction.name]
            /\ eventOf' = [c \in Claims |-> IF c \in Left(correction.claims) THEN new ELSE eventOf[c]]
      BY <1>11 DEF Split
    <2>2. new \in Events /\ correction.name \in Labels
      BY <1>11, <2>1, NewEventIsFree DEF Split, Writes, CorrectionSound
    <2>3. preferred' \subseteq Existing'
      BY <1>11, <2>1, <2>2 DEF Split, EventsTypeOK, Existing
    <2> QED
      BY <1>11, <2>1, <2>2, <2>3 DEF Split, Writes, EventsTypeOK, history
  <1> QED
    BY <1>1, <1>2, <1>3, <1>4, <1>5, <1>6, <1>7, <1>8, <1>9, <1>10, <1>11 DEF Research

Homes == [label : Labels, event : Events, made : BOOLEAN]
Inserts == [claim : Claims, key : Suggestions, event : Events]

\* What the steps of an extraction make of its run.
LEMMA MatchedRun ==
  ASSUME NEW r \in Runs, NEW M
  PROVE  LET q == Matched(r, M) IN q \in Runs /\ q.new = r.new /\ q.homes = r.homes
  BY DEF Runs, Matched, Returned, Extracted, Unreviewed, Existing

LEMMA SnapshotRun ==
  ASSUME NEW r \in Runs, NEW C \in SUBSET Claims
  PROVE  \A phase \in {"select", "delete"} :
           LET q == Snapshot(r, phase, C)
           IN q \in Runs /\ q.new = r.new /\ q.homes = r.homes
  BY DEF Runs, Snapshot

LEMMA HomesOf ==
  ASSUME NEW r \in Runs, NEW h \in SUBSET Homes
  PROVE  LET q == [r EXCEPT !.homes = h] IN q \in Runs /\ q.new = r.new /\ q.homes = h
  BY DEF Runs, Homes

LEMMA HomeFound ==
  ASSUME NEW r \in Runs, NEW l \in Labels, NEW e \in Events
  PROVE  \E h \in Homes : LET q == AtHome(r, l, e)
                          IN /\ q \in Runs /\ q.new = r.new /\ q.homes = r.homes \cup {h}
                             /\ h.event = e
                             /\ (e \in Rows /\ ~h.made) \/ (e \notin Rows /\ h.made)
  <1>0. r.homes \in SUBSET Homes
    BY DEF Runs, Homes
  <1>1. CASE e \in Rows
    <2> DEFINE h == [label |-> l, event |-> e, made |-> FALSE]
    <2>1. h \in Homes /\ h.event = e /\ ~h.made
      BY DEF Homes
    <2>2. (e \notin Rows) = FALSE
      BY <1>1
    <2>3. AtHome(r, l, e) = [r EXCEPT !.homes = r.homes \cup {h}]
      BY <2>2 DEF AtHome
    <2>4. r.homes \cup {h} \in SUBSET Homes
      BY <1>0, <2>1
    <2> HIDE DEF h
    <2>5. LET q == AtHome(r, l, e)
          IN q \in Runs /\ q.new = r.new /\ q.homes = r.homes \cup {h}
      BY <2>3, <2>4, HomesOf
    <2> QED
      BY <1>1, <2>1, <2>5
  <1>2. CASE e \notin Rows
    <2> DEFINE h == [label |-> l, event |-> e, made |-> TRUE]
    <2>1. h \in Homes /\ h.event = e /\ h.made
      BY DEF Homes
    <2>2. (e \notin Rows) = TRUE
      BY <1>2
    <2>3. AtHome(r, l, e) = [r EXCEPT !.homes = r.homes \cup {h}]
      BY <2>2 DEF AtHome
    <2>4. r.homes \cup {h} \in SUBSET Homes
      BY <1>0, <2>1
    <2> HIDE DEF h
    <2>5. LET q == AtHome(r, l, e)
          IN q \in Runs /\ q.new = r.new /\ q.homes = r.homes \cup {h}
      BY <2>3, <2>4, HomesOf
    <2> QED
      BY <1>2, <2>1, <2>5
  <1> QED
    BY <1>1, <1>2

LEMMA NewOf ==
  ASSUME NEW r \in Runs, NEW n \in SUBSET Inserts, NEW t \in SUBSET Suggestions
  PROVE  LET q == [r EXCEPT !.todo = t, !.new = n]
         IN q \in Runs /\ q.new = n /\ q.homes = r.homes
  BY DEF Runs, Inserts

LEMMA ClaimInserting ==
  ASSUME NEW r \in Runs, NEW s \in Suggestions, NEW c \in Claims, NEW e \in Events
  PROVE  LET q == Inserting(r, s, c, e)
         IN /\ q \in Runs /\ q.homes = r.homes
            /\ q.new = r.new \cup {[claim |-> c, key |-> s, event |-> e]}
  <1> DEFINE n == r.new \cup {[claim |-> c, key |-> s, event |-> e]}
             t == r.todo \ {s}
  <1>1. n \in SUBSET Inserts /\ t \in SUBSET Suggestions
    BY DEF Runs, Inserts
  <1>2. Inserting(r, s, c, e) = [r EXCEPT !.todo = t, !.new = n]
    BY DEF Inserting
  <1> HIDE DEF n, t
  <1>3. LET q == [r EXCEPT !.todo = t, !.new = n]
        IN q \in Runs /\ q.homes = r.homes /\ q.new = n
    BY <1>1, NewOf
  <1>4. LET q == Inserting(r, s, c, e) IN q \in Runs /\ q.homes = r.homes /\ q.new = n
    BY <1>2, <1>3, Zenon
  <1> QED
    BY <1>4 DEF n

LEMMA DisturbedRun ==
  ASSUME NEW r \in Runs
  PROVE  Disturbed(r) \in Runs /\ Disturbed(r).new = r.new /\ Disturbed(r).homes = r.homes
  BY DEF Runs, Disturbed

LEMMA NoRunTyped == NoRun \in Runs /\ NoRun.new = {} /\ NoRun.homes = {}
  BY DEF Runs, NoRun

\* What each step of an extraction changes: its own run ...
LEMMA ReadEffect ==
  ASSUME EventsTypeOK, NEW x \in Extractions,
         ReadTexts(x) \/ BeginSelect(x) \/ ReadExisting(x) \/ BeginDelete(x)
  PROVE  \E q \in Runs : /\ run' = [run EXCEPT ![x] = q]
                         /\ \/ q.new = run[x].new /\ q.homes = run[x].homes
                            \/ q.new = {} /\ q.homes = {}
  <1>0. run[x] \in Runs
    BY DEF EventsTypeOK
  <1>1. CASE ReadTexts(x)
    <2>1. [NoRun EXCEPT !.phase = "read", !.found = texts] \in Runs
      BY LabelAssumption DEF NoRun, Runs, EventsTypeOK
    <2> QED
      BY <1>1, <2>1 DEF ReadTexts, NoRun
  <1>2. CASE ReadExisting(x)
    <2>1. PICK M \in Matches(run[x]) : run' = [run EXCEPT ![x] = Matched(run[x], M)]
      BY <1>2 DEF ReadExisting
    <2> QED
      BY <1>0, <2>1, MatchedRun
  <1>3. CASE BeginSelect(x) \/ BeginDelete(x)
    <2>1. Extracted \in SUBSET Claims /\ Unreviewed \in SUBSET Claims
      BY DEF Extracted, Unreviewed, Existing
    <2> QED
      BY <1>0, <1>3, <2>1, SnapshotRun DEF BeginSelect, BeginDelete
  <1> QED
    BY <1>1, <1>2, <1>3

LEMMA FindEffect ==
  ASSUME EventsTypeOK, NEW x \in Extractions, FindEvent(x)
  PROVE  \E q \in Runs : \E h :
           /\ run' = [run EXCEPT ![x] = q]
           /\ q.new = run[x].new /\ q.homes = run[x].homes \cup {h}
           /\ (h.event \in Rows /\ ~h.made) \/ h.event \in NewEvent
  <1>0. run[x] \in Runs
    BY DEF EventsTypeOK
  <1>1. PICK s \in NextTodo(x) : \E e \in EventsNamed(Label(s)) :
          run' = [run EXCEPT ![x] = AtHome(run[x], Label(s), e)]
    BY DEF FindEvent
  <1>2. PICK e \in EventsNamed(Label(s)) : run' = [run EXCEPT ![x] = AtHome(run[x], Label(s), e)]
    BY <1>1
  <1>3. s \in Suggestions /\ Label(s) \in Labels /\ e \in Events
    BY <1>0, LabelAssumption DEF NextTodo, Least, Runs, EventsNamed, Live, Rows, NewEvent
  <1>4. e \in Rows \/ e \in NewEvent
    BY DEF EventsNamed, Least, Live
  <1> DEFINE q == AtHome(run[x], Label(s), e)
  <1>5. PICK h \in Homes : /\ q \in Runs /\ q.new = run[x].new /\ q.homes = run[x].homes \cup {h}
                           /\ h.event = e
                           /\ (e \in Rows /\ ~h.made) \/ (e \notin Rows /\ h.made)
    BY <1>0, <1>3, HomeFound
  <1>6. (h.event \in Rows /\ ~h.made) \/ h.event \in NewEvent
    BY <1>4, <1>5
  <1> HIDE DEF q
  <1>7. run' = [run EXCEPT ![x] = q]
    BY <1>2 DEF q
  <1> QED
    BY <1>5, <1>6, <1>7

LEMMA InsertEffect ==
  ASSUME EventsTypeOK, NEW x \in Extractions, InsertClaim(x)
  PROVE  \E q \in Runs : \E h \in run[x].homes, c \in NewClaim, s \in Suggestions :
           /\ run' = [run EXCEPT ![x] = q] /\ q.homes = run[x].homes
           /\ q.new = run[x].new \cup {[claim |-> c, key |-> s, event |-> h.event]}
           /\ h.made \/ h.event \in Rows
  <1>0. run[x] \in Runs
    BY DEF EventsTypeOK
  <1>1. PICK s \in NextTodo(x) : \E h \in Home(x, s), c \in NewClaim :
          (h.made \/ h.event \in Rows) /\ run' = [run EXCEPT ![x] = Inserting(run[x], s, c, h.event)]
    BY DEF InsertClaim
  <1>2. PICK h \in Home(x, s), c \in NewClaim :
          (h.made \/ h.event \in Rows) /\ run' = [run EXCEPT ![x] = Inserting(run[x], s, c, h.event)]
    BY <1>1
  <1>3. s \in Suggestions /\ h \in run[x].homes /\ h.event \in Events /\ c \in Claims
    BY <1>0, <1>2 DEF NextTodo, Least, Runs, Home, NewClaim
  <1> QED
    <2> DEFINE q == Inserting(run[x], s, c, h.event)
    <2>1. /\ q \in Runs /\ q.homes = run[x].homes
          /\ q.new = run[x].new \cup {[claim |-> c, key |-> s, event |-> h.event]}
      BY <1>0, <1>3, ClaimInserting
    <2>2. run' = [run EXCEPT ![x] = q]
      BY <1>2
    <2> HIDE DEF q
    <2>3. c \in NewClaim
      BY <1>2
    <2>4. \E hh \in run[x].homes, cc \in NewClaim, ss \in Suggestions :
             /\ q.new = run[x].new \cup {[claim |-> cc, key |-> ss, event |-> hh.event]}
             /\ hh.made \/ hh.event \in Rows
      BY <1>2, <1>3, <2>1, <2>3
    <2> QED
      BY <2>1, <2>2, <2>4

\* ... and the commit, and a change of the text, that the others are disturbed.
LEMMA TextsEffect ==
  ASSUME EventsTypeOK, TextsChange
  PROVE  /\ run' \in [Extractions -> Runs]
         /\ \A y \in Extractions : run'[y].new = run[y].new /\ run'[y].homes = run[y].homes
  <1>1. \A y \in Extractions : run[y] \in Runs
    BY DEF EventsTypeOK
  <1>2. run' = [y \in Extractions |-> Disturbed(run[y])]
    BY DEF TextsChange
  <1> QED
    BY <1>1, <1>2, DisturbedRun

LEMMA CommitEffect ==
  ASSUME EventsTypeOK, NEW x \in Extractions, CommitExtraction(x)
  PROVE  /\ run' \in [Extractions -> Runs]
         /\ run'[x].new = {} /\ run'[x].homes = {}
         /\ \A y \in Extractions \ {x} :
              run'[y].new = run[y].new /\ run'[y].homes = run[y].homes
  <1>1. \A y \in Extractions : run[y] \in Runs
    BY DEF EventsTypeOK
  <1>2. run' = [y \in Extractions |-> IF y = x THEN NoRun ELSE Disturbed(run[y])]
    BY DEF CommitExtraction
  <1> QED
    BY <1>1, <1>2, DisturbedRun, NoRunTyped

LEMMA Replaced ==
  ASSUME EventsTypeOK, NEW x \in Extractions, NEW q \in Runs, run' = [run EXCEPT ![x] = q]
  PROVE  run' \in [Extractions -> Runs]
  BY DEF EventsTypeOK

LEMMA TextsTyped ==
  ASSUME EventsTypeOK, TextsChange
  PROVE  EventsTypeOK'
  <1>1. run' \in [Extractions -> Runs]
    BY TextsEffect
  <1>2. texts' \in Texts /\ acts' \in 0..MaxActs
    BY ActsAssumption DEF TextsChange, EventsTypeOK, Acts
  <1>3. matched' \in BOOLEAN
    BY DEF TextsChange
  <1>4. UNCHANGED <<eventVars, claimVars, adding, correction, overlapped>>
    BY DEF TextsChange
  <1> QED
    BY <1>1, <1>2, <1>3, <1>4 DEF EventsTypeOK, eventVars, claimVars, Existing

LEMMA ExtractTyped ==
  ASSUME EventsTypeOK, NEW x \in Extractions, Extract(x)
  PROVE  EventsTypeOK'
  <1> USE NamesDiffer, LabelAssumption, ActsAssumption
  <1>0. run[x] \in Runs
    BY DEF EventsTypeOK
  <1>1. CASE ReadTexts(x)
    <2>1. run' \in [Extractions -> Runs]
      BY <1>1, ReadEffect, Replaced
    <2> QED
      BY <1>1, <2>1 DEF ReadTexts, EventsTypeOK, eventVars, claimVars, history, Existing
  <1>2. CASE ReadExisting(x)
    <2>1. run' \in [Extractions -> Runs]
      BY <1>2, ReadEffect, Replaced
    <2> QED
      BY <1>2, <2>1 DEF ReadExisting, EventsTypeOK, eventVars, claimVars, history, Existing
  <1>7. CASE BeginSelect(x) \/ BeginDelete(x)
    <2>1. run' \in [Extractions -> Runs]
      BY <1>7, ReadEffect, Replaced
    <2> QED
      BY <1>7, <2>1 DEF BeginSelect, BeginDelete, EventsTypeOK, eventVars, claimVars, history,
         Existing
  <1>3. CASE FindEvent(x)
    <2>1. run' \in [Extractions -> Runs]
      BY <1>3, FindEffect, Replaced
    <2> QED
      BY <1>3, <2>1 DEF FindEvent, EventsTypeOK, eventVars, claimVars, history, Existing
  <1>4. CASE InsertClaim(x)
    <2>1. run' \in [Extractions -> Runs]
      BY <1>4, InsertEffect, Replaced
    <2> QED
      BY <1>4, <2>1 DEF InsertClaim, EventsTypeOK, eventVars, claimVars, history, Existing
  <1>5. CASE CommitExtraction(x)
    <2>1. \A n \in New(x) : n.claim \in Claims /\ n.key \in Suggestions /\ n.event \in Events
      BY <1>0 DEF New, Runs
    <2>2. /\ eventOf' \in [Claims -> Events \cup {None}]
          /\ keyOf' \in [Claims -> Suggestions \cup {Manual, None}]
          /\ review' \in [Claims -> Statuses \cup {None, Gone}]
      BY <1>5, <2>1 DEF CommitExtraction, EventsTypeOK
    <2>3. preferred' \subseteq Existing'
      BY <1>5, <2>1 DEF CommitExtraction, EventsTypeOK, Existing
    <2>4. label' \in [Events -> Labels \cup {None, Gone}]
      <3>1. \A h \in run[x].homes : h.label \in Labels
        BY <1>0 DEF Runs
      <3> QED
        BY <1>5, <3>1 DEF CommitExtraction, EventsTypeOK
    <2>5. mergedInto' \in [Events -> Events \cup {None}]
      BY <1>5 DEF CommitExtraction, EventsTypeOK
    <2>6. run' \in [Extractions -> Runs]
      BY <1>5, CommitEffect
    <2>7. matched' \in BOOLEAN
      BY <1>0, <1>5 DEF CommitExtraction, Runs
    <2> QED
      BY <1>5, <2>2, <2>3, <2>4, <2>5, <2>6, <2>7 DEF CommitExtraction, EventsTypeOK
  <1>6. CASE ExtractionFails(x)
    <2>1. NoRun \in Runs
      BY NoRunTyped
    <2> QED
      BY <1>6, <2>1 DEF ExtractionFails, EventsTypeOK, eventVars, claimVars, history, Existing
  <1> QED
    BY <1>1, <1>2, <1>3, <1>4, <1>5, <1>6, <1>7 DEF Extract

---------------------------------------------------------------------------
(* Corrections, one at a time.                                             *)

LEMMA ResearchCases ==
  ASSUME Research
  PROVE  \/ /\ UNCHANGED <<label, mergedInto, eventOf, keyOf, review, preferred, run>>
            /\ \/ correction' = None \/ correction' = correction
               \/ correction = None /\ \E e \in Live : \/ StartReview(e) \/ StartPrefer(e)
                     \/ StartUnprefer(e) \/ StartRename(e) \/ StartMerge(e) \/ StartSplit(e)
         \/ CreateEvent \/ AddClaim
         \/ Review \/ Prefer \/ Unprefer \/ Rename \/ Merge \/ Split
  BY DEF Research, ResolveEvent, AddFails, CorrectionFails, eventVars, claimVars, StartReview,
         StartPrefer, StartUnprefer, StartRename, StartMerge, StartSplit, Locks

LEMMA ResearchOnePreferred ==
  ASSUME IInv, Research
  PROVE  OnePreferred'
  <1> USE NamesDiffer DEF IInv
  <1>1. CASE UNCHANGED <<eventOf, keyOf, review, preferred>>
    BY <1>1 DEF OnePreferred
  <1>2. ASSUME NEW e, NEW c \in NewClaim, Inserted(e, c, Manual)
        PROVE  OnePreferred'
    <2>1. c \in Claims /\ c \notin preferred
      BY NewClaimIsFree DEF ClaimsMade, EventsTypeOK, Existing
    <2>2. \A d \in preferred : /\ d \in Claims /\ eventOf'[d] = eventOf[d]
                               /\ keyOf'[d] = keyOf[d] /\ review'[d] = review[d]
      BY <1>2, <2>1 DEF Inserted, EventsTypeOK, Existing
    <2> QED
      BY <1>2, <2>2 DEF OnePreferred, Inserted
  <1>3. CASE CreateEvent \/ AddClaim
    BY <1>2, <1>3 DEF CreateEvent, AddClaim
  <1>4. CASE Review
    BY <1>4 DEF Review, Writes, OnePreferred, Left, EventsTypeOK, Existing
  <1>5. CASE Prefer
    <2>1. PICK c \in Claims : correction.claims = {c} /\ (eventOf[c] # None => IsDated(keyOf[c]))
      BY <1>5 DEF Prefer, Writes, CorrectionSound
    <2>2. correction.event \in Events
      BY <1>5 DEF Prefer, Writes, CorrectionSound, Live, Rows
    <2> DEFINE S == Left(correction.claims)
    <2>3. S \subseteq {c} /\ \A d \in S : IsDated(keyOf[d]) /\ eventOf[d] = correction.event
      BY <2>1, <2>2 DEF Left, ClaimsOf
    <2>4. preferred' = (preferred \ ClaimsOf(correction.event)) \cup S /\ UNCHANGED <<eventOf, keyOf>>
      BY <1>5 DEF Prefer, PreferredBut
    <2>5. review' = [d \in Claims |-> IF d \in S THEN "confirmed" ELSE review[d]]
      BY <1>5 DEF Prefer
    <2> HIDE DEF S
    <2> QED
      BY <2>3, <2>4, <2>5 DEF OnePreferred, EventsTypeOK, Existing, ClaimsOf, IsDated
  <1>6. CASE Unprefer
    BY <1>6 DEF Unprefer, PreferredBut, OnePreferred
  <1>7. CASE Rename
    BY <1>1, <1>7 DEF Rename, claimVars
  <1>8. CASE Merge
    BY <1>8 DEF Merge, OnePreferred, EventsTypeOK, Existing, ClaimsOf
  <1>9. CASE Split
    <2>1. PICK new \in NewEvent :
            eventOf' = [c \in Claims |-> IF c \in Left(correction.claims) THEN new ELSE eventOf[c]]
      BY <1>9 DEF Split
    <2>2. \A c \in Claims : eventOf[c] # new
      BY NewEventIsFree DEF ClaimsMade, Rows
    <2>3. \A c \in Left(correction.claims) : eventOf[c] = correction.event
      BY DEF Left, ClaimsOf
    <2>4. UNCHANGED <<keyOf, review, preferred>>
      BY <1>9 DEF Split
    <2> QED
      BY <2>1, <2>2, <2>3, <2>4 DEF OnePreferred, EventsTypeOK, Existing
  <1> QED
    BY <1>1, <1>3, <1>4, <1>5, <1>6, <1>7, <1>8, <1>9, ResearchCases

LEMMA ResearchKeepsRows ==
  ASSUME IInv, Research
  PROVE  /\ MergesLead' /\ ClaimsMade'
         /\ Rows \subseteq Rows'
         /\ \A e \in Events : label'[e] # label[e] => e \in Rows \/ e \in NewEvent
  <1> USE NamesDiffer DEF IInv
  <1>1. CASE UNCHANGED <<label, mergedInto, eventOf, review>>
    BY <1>1 DEF MergesLead, ClaimsMade, Rows, Live
  <1>2. CASE CreateEvent
    <2>1. PICK l \in Names, e \in NewEvent, c \in NewClaim :
            label' = [label EXCEPT ![e] = l] /\ Inserted(e, c, Manual)
      BY <1>2 DEF CreateEvent
    <2>2. e \in Events /\ c \in Claims /\ l \in Labels /\ label[e] = None
      BY <2>1, NewEventIsFree, NewClaimIsFree, LabelAssumption
    <2>3. Rows' = Rows \cup {e} /\ e \notin Rows /\ mergedInto' = mergedInto
      BY <1>2, <2>1, <2>2 DEF Rows, EventsTypeOK, CreateEvent
    <2>4. MergesLead'
      BY <2>3 DEF MergesLead, Live
    <2> QED
      BY <2>1, <2>2, <2>3, <2>4 DEF ClaimsMade, Inserted, EventsTypeOK
  <1>3. CASE AddClaim
    <2>1. PICK c \in NewClaim : Inserted(adding, c, Manual)
      BY <1>3 DEF AddClaim
    <2>2. c \in Claims /\ adding \in Rows /\ UNCHANGED <<label, mergedInto>>
      BY <1>3, <2>1, NewClaimIsFree DEF AddClaim, eventVars
    <2> QED
      BY <2>1, <2>2 DEF ClaimsMade, MergesLead, Inserted, EventsTypeOK, Rows, Live
  <1>4. CASE Review
    BY <1>4 DEF Review, Writes, MergesLead, ClaimsMade, Rows, Live, eventVars, EventsTypeOK,
       Left, ClaimsOf, CorrectionSound
  <1>5. CASE Prefer
    BY <1>5 DEF Prefer, Writes, MergesLead, ClaimsMade, Rows, Live, eventVars, EventsTypeOK,
       Left, ClaimsOf, CorrectionSound
  <1>6. CASE Unprefer
    BY <1>1, <1>6 DEF Unprefer, eventVars
  <1>7. CASE Rename
    <2>1. correction.event \in Rows /\ correction.name \in Labels
      BY <1>7 DEF Rename, Writes, CorrectionSound, Live
    <2>2. Rows' = Rows
      BY <1>7, <2>1 DEF Rename, Rows, EventsTypeOK
    <2> QED
      BY <1>7, <2>1, <2>2 DEF Rename, Rows, MergesLead, ClaimsMade, Live, claimVars,
         EventsTypeOK
  <1>8. CASE Merge
    <2>1. correction.event \in Live /\ correction.other \in Live \ {correction.event}
      BY <1>8 DEF Merge, Writes, CorrectionSound
    <2>2. Rows' = Rows /\ UNCHANGED <<label, review>>
      BY <1>8 DEF Merge, Rows
    <2>3. mergedInto' = Redirected(correction.event, correction.other)
      BY <1>8 DEF Merge
    <2>4. MergesLead'
      BY <2>1, <2>2, <2>3 DEF MergesLead, Redirected, Live, Rows
    <2>5. eventOf' = [c \in Claims |-> IF eventOf[c] = correction.other THEN correction.event
                                      ELSE eventOf[c]]
      BY <1>8 DEF Merge
    <2>6. ClaimsMade'
      BY <2>1, <2>2, <2>5 DEF ClaimsMade, Live, Rows
    <2> QED
      BY <2>2, <2>4, <2>6
  <1>9. CASE Split
    <2>1. PICK new \in NewEvent :
            /\ label' = [label EXCEPT ![new] = correction.name]
            /\ eventOf' = [c \in Claims |-> IF c \in Left(correction.claims) THEN new ELSE eventOf[c]]
      BY <1>9 DEF Split
    <2>2. new \in Events /\ correction.name \in Labels /\ label[new] = None
      BY <1>9, <2>1, NewEventIsFree DEF Split, Writes, CorrectionSound
    <2>3. Rows' = Rows \cup {new} /\ new \notin Rows /\ mergedInto' = mergedInto /\ review' = review
      BY <1>9, <2>1, <2>2 DEF Rows, EventsTypeOK, Split
    <2>4. MergesLead'
      BY <2>3 DEF MergesLead, Live
    <2>5. \A c \in Left(correction.claims) : eventOf[c] # None
      BY <1>9 DEF Left, ClaimsOf, Split, Writes, CorrectionSound, Live, Rows
    <2>6. ClaimsMade'
      BY <2>1, <2>3, <2>5 DEF ClaimsMade
    <2> QED
      BY <2>1, <2>2, <2>3, <2>4, <2>6 DEF EventsTypeOK
  <1> QED
    BY <1>1, <1>2, <1>3, <1>4, <1>5, <1>6, <1>7, <1>8, <1>9, ResearchCases

\* No correction makes a claim of what an extraction is about to insert.
LEMMA ResearchMakes ==
  ASSUME IInv, Research
  PROVE  /\ run' = run
         /\ \A c \in Claims : review[c] # None => review'[c] # None
         /\ \A c \in Claims : review[c] = None => review'[c] = None \/ c \in NewClaim
  <1> USE NamesDiffer DEF IInv
  <1>0. run' = run
    BY ResearchCases DEF CreateEvent, AddClaim, Review, Prefer, Unprefer, Rename, Merge, Split
  <1>1. CASE UNCHANGED review
    BY <1>0, <1>1
  <1>2. ASSUME NEW e, NEW c \in NewClaim, Inserted(e, c, Manual)
        PROVE  \A d \in Claims : IF d = c THEN review'[d] # None ELSE review'[d] = review[d]
    BY <1>2, NewClaimIsFree DEF Inserted, EventsTypeOK
  <1>3. CASE CreateEvent \/ AddClaim
    BY <1>0, <1>2, <1>3 DEF CreateEvent, AddClaim
  <1>4. CASE Review \/ Prefer
    <2>1. \A c \in Left(correction.claims) : review[c] # None
      BY <1>4 DEF Left, ClaimsOf, Review, Prefer, Writes, CorrectionSound, Live, Rows,
         ClaimsMade
    <2>2. correction.action = "review" => correction.status # None
      BY <1>4 DEF Review, Prefer, Writes, CorrectionSound
    <2>3. CASE Review
      BY <1>0, <2>1, <2>2, <2>3 DEF Review, Writes
    <2>4. CASE Prefer
      BY <1>0, <2>1, <2>4 DEF Prefer
    <2> QED
      BY <1>4, <2>3, <2>4
  <1>5. CASE Unprefer \/ Rename \/ Merge \/ Split
    BY <1>1, <1>5 DEF Unprefer, Rename, Merge, Split, claimVars
  <1> QED
    BY <1>1, <1>3, <1>4, <1>5, ResearchCases

LEMMA ResearchKeepsNew ==
  ASSUME IInv, Research
  PROVE  NewFresh' /\ HomesFresh'
  <1> USE DEF IInv
  <1>1. \A x \in Extractions : run[x] \in Runs
    BY DEF EventsTypeOK
  <1>2. \A x \in Extractions : \A n \in run[x].new : n.claim \in Claims
    BY <1>1 DEF Runs
  <1>3. \A x \in Extractions : \A h \in run[x].homes : h.event \in Events
    BY <1>1 DEF Runs
  <1>4. \A x \in Extractions : \A n \in run[x].new : review'[n.claim] = None
    BY <1>2, ResearchMakes, NewClaimIsFree DEF NewFresh
  <1>5. \A x \in Extractions : \A h \in run[x].homes : h.made => label'[h.event] = None
    BY <1>3, ResearchKeepsRows, NewEventIsFree, NamesDiffer DEF HomesFresh, Rows
  <1>6. Rows \subseteq Rows' /\ run' = run
    BY ResearchKeepsRows, ResearchMakes
  <1>7. NewFresh'
    BY <1>4, <1>6 DEF NewFresh
  <1>8. HomesFresh'
    BY <1>5, <1>6 DEF HomesFresh
  <1> QED
    BY <1>7, <1>8

LEMMA ResearchCorrects ==
  ASSUME IInv, Research
  PROVE  CorrectionSound'
  <1> USE NamesDiffer DEF IInv
  <1>1. CASE correction' = None
    BY <1>1 DEF CorrectionSound
  <1>2. CASE /\ correction = None /\ UNCHANGED <<label, mergedInto, eventOf, keyOf, review>>
             /\ \E e \in Live : \/ StartReview(e) \/ StartPrefer(e) \/ StartUnprefer(e)
                                 \/ StartRename(e) \/ StartMerge(e) \/ StartSplit(e)
    <2>1. PICK e \in Live : \/ StartReview(e) \/ StartPrefer(e) \/ StartUnprefer(e)
                            \/ StartRename(e) \/ StartMerge(e) \/ StartSplit(e)
      BY <1>2
    <2>2. Live' = Live /\ e \in Events
      BY <1>2 DEF Live, Rows
    <2>3. CASE StartReview(e)
      BY <2>1, <2>2, <2>3 DEF StartReview, Locks, CorrectionSound
    <2>4. CASE StartPrefer(e)
      <3>1. PICK c \in ClaimsOf(e) :
              IsDated(keyOf[c]) /\ Locks(e, "prefer", None, {c}, None, None)
        BY <2>4 DEF StartPrefer
      <3>2. c \in Claims /\ review[c] # None
        BY <2>2, <3>1 DEF ClaimsOf, ClaimsMade
      <3> QED
        BY <1>2, <2>1, <2>2, <3>1, <3>2 DEF Locks, CorrectionSound, IsDated
    <2>5. CASE StartUnprefer(e)
      BY <2>1, <2>2, <2>5 DEF StartUnprefer, Locks, CorrectionSound
    <2>6. CASE StartRename(e)
      BY <2>1, <2>2, <2>6, LabelAssumption DEF StartRename, Locks, CorrectionSound
    <2>7. CASE StartMerge(e)
      BY <2>1, <2>2, <2>7 DEF StartMerge, Locks, CorrectionSound
    <2>8. CASE StartSplit(e)
      BY <2>1, <2>2, <2>8, LabelAssumption DEF StartSplit, Locks, CorrectionSound
    <2> QED
      BY <2>1, <2>3, <2>4, <2>5, <2>6, <2>7, <2>8
  <1>3. CASE UNCHANGED <<label, mergedInto, eventOf, keyOf, review, correction>>
    BY <1>3 DEF CorrectionSound, Live, Rows, IsDated
  <1>4. ASSUME NEW e, NEW k \in NewClaim, Inserted(e, k, Manual), Live \subseteq Live',
               correction' = correction
        PROVE  CorrectionSound'
    <2>1. k \in Claims /\ review[k] = None
      BY NewClaimIsFree
    <2>2. \A c \in Claims \ {k} : /\ eventOf'[c] = eventOf[c] /\ keyOf'[c] = keyOf[c]
                                  /\ review'[c] = review[c]
      BY <1>4, <2>1 DEF Inserted, EventsTypeOK
    <2> QED
      BY <1>4, <2>1, <2>2 DEF CorrectionSound, IsDated
  <1>5. CASE CreateEvent
    <2>1. mergedInto' = mergedInto /\ correction' = correction
      BY <1>5 DEF CreateEvent
    <2> QED
      BY <1>4, <1>5, <2>1, ResearchKeepsRows DEF CreateEvent, Live
  <1>6. CASE AddClaim
    <2>1. UNCHANGED <<label, mergedInto, correction>>
      BY <1>6 DEF AddClaim, eventVars
    <2> QED
      BY <1>4, <1>6, <2>1 DEF AddClaim, Live, Rows
  <1>7. CASE Review \/ Prefer \/ Unprefer \/ Rename \/ Merge \/ Split
    BY <1>1, <1>7 DEF Review, Prefer, Unprefer, Rename, Merge, Split, Writes
  <1> QED
    BY <1>1, <1>2, <1>3, <1>5, <1>6, <1>7, ResearchCases

---------------------------------------------------------------------------
(* Extractions, which may overlap.                                         *)

\* What all but the commit leave alone.
Tables == <<label, mergedInto, eventOf, keyOf, review, preferred, correction>>

LEMMA OnlyItsRun ==
  ASSUME NEW x \in Extractions, Extract(x), ~CommitExtraction(x)
  PROVE  UNCHANGED Tables
  BY DEF Extract, Tables, ReadTexts, BeginSelect, ReadExisting, BeginDelete, FindEvent, InsertClaim, ExtractionFails,
         eventVars, claimVars

\* What was read and inserted by the others stays theirs.
LEMMA FewerInserts ==
  ASSUME IInv, UNCHANGED Tables, NEW x \in Extractions, NEW q \in Runs,
         run' = [run EXCEPT ![x] = q], 
         (q.new = run[x].new /\ q.homes = run[x].homes) \/ (q.new = {} /\ q.homes = {})
  PROVE  NewFresh' /\ HomesFresh'
  <1>1. run'[x] = q /\ \A y \in Extractions \ {x} : run'[y] = run[y]
    BY DEF IInv, EventsTypeOK
  <1>2. Rows' = Rows /\ review' = review /\ label' = label
    BY DEF Tables, Rows
  <1> QED
    BY <1>1, <1>2 DEF IInv, NewFresh, HomesFresh

LEMMA ExtractKeepsNew ==
  ASSUME IInv, NEW x \in Extractions, Extract(x), ~CommitExtraction(x)
  PROVE  NewFresh' /\ HomesFresh'
  <1> USE DEF IInv
  <1>0. UNCHANGED Tables
    BY OnlyItsRun
  <1>1. Rows' = Rows /\ review' = review /\ label' = label
    BY <1>0 DEF Tables, Rows
  <1>2. CASE ReadTexts(x) \/ BeginSelect(x) \/ ReadExisting(x) \/ BeginDelete(x)
    <2>1. PICK q \in Runs : /\ run' = [run EXCEPT ![x] = q]
                            /\ \/ q.new = run[x].new /\ q.homes = run[x].homes
                               \/ q.new = {} /\ q.homes = {}
      BY <1>2, ReadEffect
    <2> QED
      BY <1>0, <2>1, FewerInserts
  <1>3. CASE ExtractionFails(x)
    BY <1>0, <1>3, NoRunTyped, FewerInserts DEF ExtractionFails
  <1>4. CASE FindEvent(x)
    <2>1. PICK q \in Runs : \E h :
            /\ run' = [run EXCEPT ![x] = q]
            /\ q.new = run[x].new /\ q.homes = run[x].homes \cup {h}
            /\ (h.event \in Rows /\ ~h.made) \/ h.event \in NewEvent
      BY <1>4, FindEffect
    <2>2. PICK h : /\ q.homes = run[x].homes \cup {h}
                   /\ (h.event \in Rows /\ ~h.made) \/ h.event \in NewEvent
      BY <2>1
    <2>3. run'[x] = q /\ q.new = run[x].new /\ \A y \in Extractions \ {x} : run'[y] = run[y]
      BY <2>1 DEF EventsTypeOK
    <2>4. NewFresh'
      BY <1>1, <2>2, <2>3 DEF NewFresh
    <2>5. \A y \in Extractions : \A g \in run'[y].homes : g \in run[y].homes \/ (y = x /\ g = h)
      BY <2>2, <2>3
    <2>6. \/ label[h.event] # None /\ ~h.made
          \/ label[h.event] = None /\ \A y \in Extractions : \A g \in run[y].homes : g.event # h.event
      BY <2>2, NewEventIsFree, NamesDiffer DEF Rows
    <2>7. ASSUME NEW y \in Extractions, NEW a \in run'[y].homes, a.made,
                 NEW z \in Extractions, NEW g \in run'[z].homes
          PROVE  label[a.event] = None /\ (g.event = a.event => y = z /\ g = a)
      BY <2>5, <2>6, <2>7 DEF HomesFresh
    <2>8. HomesFresh'
      BY <1>1, <2>7 DEF HomesFresh
    <2> QED
      BY <2>4, <2>8
  <1>5. CASE InsertClaim(x)
    <2>1. PICK q \in Runs : \E h \in run[x].homes, c \in NewClaim, s \in Suggestions :
            /\ run' = [run EXCEPT ![x] = q] /\ q.homes = run[x].homes
            /\ q.new = run[x].new \cup {[claim |-> c, key |-> s, event |-> h.event]}
            /\ h.made \/ h.event \in Rows
      BY <1>5, InsertEffect
    <2>2. PICK h \in run[x].homes, c \in NewClaim, s \in Suggestions :
            /\ q.new = run[x].new \cup {[claim |-> c, key |-> s, event |-> h.event]}
            /\ h.made \/ h.event \in Rows
      BY <2>1
    <2>3. run'[x] = q /\ q.homes = run[x].homes /\ \A y \in Extractions \ {x} : run'[y] = run[y]
      BY <2>1 DEF EventsTypeOK
    <2>4. HomesFresh'
      BY <1>1, <2>3 DEF HomesFresh
    <2>5. review[c] = None /\ \A y \in Extractions : \A n \in run[y].new : n.claim # c
      BY <2>2, NewClaimIsFree
    <2>6. NewFresh'
      BY <1>1, <2>2, <2>3, <2>5 DEF NewFresh
    <2> QED
      BY <2>4, <2>6
  <1> QED
    BY <1>2, <1>3, <1>4, <1>5 DEF Extract

\* The rows a commit writes.
LEMMA CommitRows ==
  ASSUME IInv, NEW x \in Extractions, CommitExtraction(x)
  PROVE  /\ Rows \ Emptied(x) \subseteq Rows'
         /\ \A n \in run[x].new : n.event \in Rows'
         /\ \A e \in Events : label[e] # None => label'[e] # None
         /\ \A e \in Rows' : e \in Rows \/ (\E h \in run[x].homes : h.made /\ h.event = e)
         /\ \A e \in Events : label'[e] # label[e] =>
              e \in Emptied(x) \/ \E h \in run[x].homes : h.made /\ h.event = e
  <1> USE NamesDiffer DEF IInv
  <1>1. \A h \in run[x].homes : h.label \in Labels /\ h.event \in Events
    BY DEF EventsTypeOK, Runs
  <1>2. label' = [e \in Events |-> IF e \in Emptied(x) THEN Gone
                                 ELSE IF \E h \in run[x].homes : h.made /\ h.event = e
                                      THEN (CHOOSE h \in run[x].homes : h.event = e).label
                                      ELSE label[e]]
    BY DEF CommitExtraction
  <1>3. \A e \in Events : (\E h \in run[x].homes : h.made /\ h.event = e) =>
           (CHOOSE h \in run[x].homes : h.event = e).label \in Labels
    BY <1>1
  <1>4. \A n \in run[x].new : n.event \notin Emptied(x)
    BY DEF Emptied, New
  <1>5. \A n \in run[x].new : \E h \in run[x].homes : h.event = n.event /\ (h.made \/ n.event \in Rows)
    BY DEF NewFresh
  <1>6. \A n \in run[x].new : n.event \in Rows'
    BY <1>1, <1>2, <1>3, <1>4, <1>5 DEF Rows
  <1>7. Rows \ Emptied(x) \subseteq Rows'
    BY <1>2, <1>3 DEF Rows
  <1>8. \A e \in Events : label'[e] # label[e] =>
           e \in Emptied(x) \/ \E h \in run[x].homes : h.made /\ h.event = e
    BY <1>2
  <1>9. \A e \in Events : label[e] # None => label'[e] # None
    BY <1>2, <1>3
  <1>10. \A e \in Rows' : e \in Rows \/ \E h \in run[x].homes : h.made /\ h.event = e
    BY <1>2 DEF Rows
  <1> QED
    BY <1>6, <1>7, <1>8, <1>9, <1>10

\* The claim it inserts, the suggestion it removes, and the claim it leaves alone.
InsertedBy(n, c) ==
  n.claim = c /\ eventOf'[c] = n.event /\ keyOf'[c] = n.key /\ review'[c] = "unverified"
Removed(c) == eventOf'[c] = None /\ keyOf'[c] = None /\ review'[c] = Gone
LeftAlone(c) == eventOf'[c] = eventOf[c] /\ keyOf'[c] = keyOf[c] /\ review'[c] = review[c]

LEMMA CommitClaims ==
  ASSUME IInv, NEW x \in Extractions, CommitExtraction(x)
  PROVE  \A c \in Claims :
           \/ \E n \in run[x].new : InsertedBy(n, c)
           \/ c \in Stale(x) /\ Removed(c)
           \/ c \notin Stale(x) /\ LeftAlone(c)
  <1>1. /\ eventOf' = [c \in Claims |->
             IF \E n \in run[x].new : n.claim = c THEN (CHOOSE n \in run[x].new : n.claim = c).event
             ELSE IF c \in Stale(x) THEN None ELSE eventOf[c]]
        /\ keyOf' = [c \in Claims |->
             IF \E n \in run[x].new : n.claim = c THEN (CHOOSE n \in run[x].new : n.claim = c).key
             ELSE IF c \in Stale(x) THEN None ELSE keyOf[c]]
        /\ review' = [c \in Claims |->
             IF \E n \in run[x].new : n.claim = c THEN "unverified"
             ELSE IF c \in Stale(x) THEN Gone ELSE review[c]]
    BY DEF CommitExtraction, New
  <1>2. ASSUME NEW c \in Claims, \E n \in run[x].new : n.claim = c
        PROVE  \E n \in run[x].new : InsertedBy(n, c)
    <2> DEFINE n == CHOOSE m \in run[x].new : m.claim = c
    <2>1. n \in run[x].new /\ n.claim = c
      BY <1>2
    <2>2. InsertedBy(n, c)
      BY <1>1, <1>2, <2>1 DEF InsertedBy
    <2> QED
      BY <2>1, <2>2
  <1>3. ASSUME NEW c \in Claims, \A n \in run[x].new : n.claim # c
        PROVE  (c \in Stale(x) /\ Removed(c)) \/ (c \notin Stale(x) /\ LeftAlone(c))
    BY <1>1, <1>3 DEF Removed, LeftAlone
  <1> QED
    BY <1>2, <1>3

LEMMA CommitSound ==
  ASSUME IInv, NEW x \in Extractions, CommitExtraction(x)
  PROVE  MergesLead' /\ ClaimsMade' /\ CorrectionSound' /\ OnePreferred'
  <1> USE NamesDiffer DEF IInv
  <1>1. /\ preferred' = preferred \ Stale(x) /\ correction' = correction
        /\ mergedInto' = [e \in Events |-> IF mergedInto[e] \in Emptied(x) THEN None ELSE mergedInto[e]]
        /\ Emptied(x) \cap Corrected = {}
    BY DEF CommitExtraction
  <1>2. \A e \in Live \ Emptied(x) : e \in Live'
    <2>1. \A e \in Live \ Emptied(x) : e \in Events /\ e \in Rows' /\ mergedInto'[e] = None
      BY <1>1, CommitRows DEF Live, Rows
    <2> QED
      BY <2>1 DEF Live
  <1>3. MergesLead'
    <2>1. \A e \in Events : mergedInto'[e] # None =>
             mergedInto'[e] = mergedInto[e] /\ e \in Rows /\ mergedInto[e] \in Live \ Emptied(x)
      BY <1>1 DEF MergesLead
    <2>2. \A e \in Events : mergedInto'[e] # None => e \notin Emptied(x)
      BY <2>1 DEF Emptied, Live
    <2> QED
      BY <1>2, <2>1, <2>2, CommitRows DEF MergesLead
  <1>4. ClaimsMade'
    <2>1. ASSUME NEW c \in Claims, NEW n \in run[x].new, InsertedBy(n, c)
          PROVE  review'[c] # None /\ eventOf'[c] \in Rows'
      BY <2>1, CommitRows DEF InsertedBy
    <2>2. ASSUME NEW c \in Claims, c \notin Stale(x), LeftAlone(c), eventOf[c] # None
          PROVE  review'[c] # None /\ eventOf'[c] \in Rows'
      <3>1. eventOf[c] \notin Emptied(x) /\ eventOf[c] \in Rows /\ review[c] # None
        BY <2>2 DEF Emptied, ClaimsOf, ClaimsMade
      <3> QED
        BY <2>2, <3>1, CommitRows DEF LeftAlone
    <2> QED
      BY <2>1, <2>2, CommitClaims DEF ClaimsMade, Removed, LeftAlone
  <1>5. ASSUME NEW c \in Claims, review[c] # None
        PROVE  /\ review'[c] # None
               /\ eventOf'[c] # None => eventOf[c] # None /\ keyOf'[c] = keyOf[c]
    <2>1. \A n \in run[x].new : ~InsertedBy(n, c)
      BY <1>5 DEF InsertedBy, NewFresh
    <2> QED
      BY <1>5, <2>1, CommitClaims DEF Removed, LeftAlone
  <1>6. CorrectionSound'
    <2>1. CASE correction = None
      BY <1>1, <2>1 DEF CorrectionSound
    <2>2. CASE correction # None
      <3>1. correction.event \in Live' /\ (correction.action = "merge" => correction.other \in Live')
        BY <1>1, <1>2, <2>2 DEF CorrectionSound, Corrected, Live, Rows
      <3> QED
        BY <1>1, <1>5, <2>2, <3>1 DEF CorrectionSound, IsDated
    <2> QED
      BY <2>1, <2>2
  <1>7. OnePreferred'
    <2>1. \A c \in preferred' : c \in preferred /\ c \in Claims /\ c \notin Stale(x) /\ review[c] # None
      BY <1>1 DEF EventsTypeOK, Existing, ClaimsMade
    <2>2. \A c \in preferred' : LeftAlone(c)
      BY <2>1, CommitClaims DEF InsertedBy, NewFresh
    <2> QED
      BY <2>1, <2>2 DEF OnePreferred, LeftAlone, IsDated
  <1> QED
    BY <1>3, <1>4, <1>6, <1>7

LEMMA CommitKeepsNew ==
  ASSUME IInv, NEW x \in Extractions, CommitExtraction(x)
  PROVE  NewFresh' /\ HomesFresh'
  <1> USE NamesDiffer DEF IInv
  <1>1. /\ run'[x].new = {} /\ run'[x].homes = {}
        /\ \A y \in Extractions \ {x} : run'[y].new = run[y].new /\ run'[y].homes = run[y].homes
    BY CommitEffect
  <1>2. \A y \in Extractions : \A n \in run[y].new : n.claim \in Claims
    BY DEF EventsTypeOK, Runs
  <1>3. ASSUME NEW y \in Extractions \ {x}, NEW n \in run[y].new
        PROVE  review'[n.claim] = None
    <2>1. n.claim \notin Stale(x) /\ \A m \in run[x].new : ~InsertedBy(m, n.claim)
      BY DEF InsertedBy, NewFresh, Stale, Unreviewed
    <2> QED
      BY <1>2, <2>1, CommitClaims DEF LeftAlone, NewFresh
  <1>4. ASSUME NEW y \in Extractions \ {x}, NEW n \in run[y].new
        PROVE  n.event \in Rows => n.event \in Rows'
    <2>1. Emptied(x) \cap EventsInserted(Extractions \ {x}) = {}
      BY DEF CommitExtraction
    <2>2. n \in UNION {New(z) : z \in Extractions \ {x}}
      BY DEF New
    <2>3. n.event \notin Emptied(x)
      BY <2>1, <2>2 DEF EventsInserted
    <2> QED
      BY <2>3, CommitRows
  <1>5. ASSUME NEW y \in Extractions \ {x}, NEW h \in run[y].homes, h.made
        PROVE  label'[h.event] = None
    <2>1. h.event \notin Emptied(x)
      BY <1>5 DEF Emptied, Live, Rows, HomesFresh
    <2>2. \A g \in run[x].homes : g.event # h.event
      BY <1>5 DEF HomesFresh
    <2>3. h.event \in Events
      <3>1. run[y] \in Runs
        BY DEF EventsTypeOK
      <3> QED
        BY <3>1 DEF Runs
    <2>4. label[h.event] = None
      BY <1>5 DEF HomesFresh
    <2>5. label'[h.event] # label[h.event] => \E g \in run[x].homes : g.made /\ g.event = h.event
      BY <2>1, <2>3, CommitRows
    <2> QED
      BY <2>2, <2>4, <2>5
  <1>6. NewFresh'
    BY <1>1, <1>3, <1>4 DEF NewFresh
  <1>7. HomesFresh'
    BY <1>1, <1>5 DEF HomesFresh
  <1> QED
    BY <1>6, <1>7

---------------------------------------------------------------------------
(* The invariant, and what follows.                                        *)

LEMMA InitSound == Init => IInv
  <1> SUFFICES ASSUME Init PROVE IInv
    OBVIOUS
  <1> USE NamesDiffer
  <1>1. PICK start \in Starts, l \in Names : LET n == start.events IN
          /\ label = [e \in Events |-> IF e <= n THEN l
                                       ELSE IF e <= n + start.left THEN None ELSE Gone]
          /\ eventOf = [c \in Claims |-> IF c <= n THEN c ELSE None]
          /\ keyOf = [c \in Claims |-> IF c <= n THEN Manual ELSE None]
          /\ review = [c \in Claims |-> IF c <= n THEN "unverified" ELSE None]
    BY DEF Init
  <1> DEFINE n == start.events
  <1>2. l \in Labels /\ n \in Nat /\ \A i \in 1..n : i \in Events
    BY StartsAssumption, LabelAssumption
  <1>3. \A c \in Claims : c \in Nat \ {0} /\ (c <= n => c \in Events)
    BY <1>2, IdsAssumption
  <1>4. run \in [Extractions -> Runs] /\ \A x \in Extractions : run[x].new = {} /\ run[x].homes = {}
    BY NoRunTyped DEF Init
  <1>5. /\ preferred = {} /\ correction = None /\ adding = None /\ texts \in Texts /\ acts = 0
        /\ matched = FALSE /\ overlapped = FALSE /\ mergedInto = [e \in Events |-> None]
    BY DEF Init
  <1>6. EventsTypeOK
    <2>1. label \in [Events -> Labels \cup {None, Gone}] /\ mergedInto \in [Events -> Events \cup {None}]
      BY <1>1, <1>2, <1>5
    <2>2. /\ eventOf \in [Claims -> Events \cup {None}]
          /\ keyOf \in [Claims -> Suggestions \cup {Manual, None}]
          /\ review \in [Claims -> Statuses \cup {None, Gone}]
      BY <1>1, <1>3
    <2>3. acts \in 0..MaxActs
      BY <1>5, ActsAssumption
    <2>4. matched \in BOOLEAN /\ overlapped \in BOOLEAN
      BY <1>5
    <2> QED
      BY <1>4, <1>5, <2>1, <2>2, <2>3, <2>4 DEF EventsTypeOK
  <1>7. ClaimsMade
    BY <1>1, <1>2, <1>3 DEF ClaimsMade, Rows
  <1> QED
    BY <1>4, <1>5, <1>6, <1>7 DEF IInv, CorrectionSound, MergesLead, NewFresh, HomesFresh,
       OnePreferred

LEMMA StepSound == IInv /\ [Next]_vars => IInv'
  <1> SUFFICES ASSUME IInv, [Next]_vars PROVE IInv'
    OBVIOUS
  <1>1. CASE Research
    BY <1>1, ResearchTyped, ResearchCorrects, ResearchKeepsRows, ResearchKeepsNew,
       ResearchOnePreferred
    DEF IInv
  <1>2. ASSUME UNCHANGED Tables
        PROVE  CorrectionSound' /\ MergesLead' /\ ClaimsMade' /\ OnePreferred'
    BY <1>2 DEF Tables, IInv, CorrectionSound, MergesLead, ClaimsMade, OnePreferred, Live,
       Rows, IsDated
  <1>3. ASSUME NEW x \in Extractions, Extract(x)
        PROVE  IInv'
    <2>1. EventsTypeOK'
      BY <1>3, ExtractTyped DEF IInv
    <2>2. CASE CommitExtraction(x)
      BY <2>1, <2>2, CommitSound, CommitKeepsNew DEF IInv
    <2>3. CASE ~CommitExtraction(x)
      BY <1>2, <1>3, <2>1, <2>3, OnlyItsRun, ExtractKeepsNew DEF IInv
    <2> QED
      BY <2>2, <2>3
  <1>4. CASE TextsChange
    <2>1. UNCHANGED Tables
      BY <1>4 DEF TextsChange, Tables, eventVars, claimVars
    <2>2. EventsTypeOK'
      BY <1>4, TextsTyped DEF IInv
    <2>3. NewFresh' /\ HomesFresh'
      BY <1>4, <2>1, TextsEffect DEF IInv, NewFresh, HomesFresh, Tables, Rows
    <2> QED
      BY <1>2, <2>1, <2>2, <2>3 DEF IInv
  <1>5. CASE UNCHANGED vars
    <2>1. UNCHANGED Tables /\ UNCHANGED <<texts, adding, run, matched, overlapped, acts>>
      BY <1>5 DEF vars, Tables, eventVars, claimVars, history
    <2>2. EventsTypeOK'
      BY <2>1 DEF IInv, EventsTypeOK, Tables, Existing
    <2>3. NewFresh' /\ HomesFresh'
      BY <2>1 DEF IInv, NewFresh, HomesFresh, Tables, Rows
    <2> QED
      BY <1>2, <2>1, <2>2, <2>3 DEF IInv
  <1> QED
    BY <1>1, <1>3, <1>4, <1>5 DEF Next

LEMMA Invariant == Spec => []IInv
  BY InitSound, StepSound, PTL DEF Spec

\* Every event has at most one preferred reading, confirmed and dated, and every claim and
\* every merged event leads to an event that exists, in one step to a live one: neither the
\* table's unique index nor its check can refuse a correction or an extraction.
THEOREM TablesAreSound == Spec => []EventsAreSound
  <1>1. IInv => EventsAreSound
    BY DEF EventsAreSound, IInv, EventsLead, MergesLead, ClaimsMade, Rows, Existing
  <1> QED
    BY <1>1, Invariant, PTL

\* A claim that was reviewed, and what a step keeps of it.
Reviewed(c) == c \in Existing /\ review[c] \in {"confirmed", "rejected"}
Kept(c) ==
  keyOf'[c] = keyOf[c] /\ (review'[c] = review[c] \/ (correction # None /\ correction' = None))

LEMMA ResearchKeepsReviewed ==
  ASSUME IInv, Research, NEW c \in Claims, Reviewed(c)
  PROVE  Kept(c)
  <1> USE NamesDiffer DEF IInv
  <1>1. review[c] # None
    BY DEF Reviewed
  <1>2. ASSUME NEW e, NEW d \in NewClaim, Inserted(e, d, Manual)
        PROVE  Kept(c)
    BY <1>1, <1>2, NewClaimIsFree DEF Inserted, EventsTypeOK, Kept
  <1>3. CASE CreateEvent \/ AddClaim
    BY <1>2, <1>3 DEF CreateEvent, AddClaim
  <1>4. CASE Review \/ Prefer \/ Unprefer \/ Rename \/ Merge \/ Split
    BY <1>4 DEF Review, Prefer, Unprefer, Rename, Merge, Split, Writes, claimVars, Kept
  <1> QED
    BY <1>3, <1>4, ResearchCases DEF Kept

\* A claim that was confirmed or rejected keeps its decision, its evidence and its existence
\* until a researcher changes them, whatever extractions overlap with the review.
THEOREM ReviewedClaimsStay == Spec => ReviewedStays
  <1>1. ASSUME IInv, [Next]_vars, NEW c \in Claims, Reviewed(c)
        PROVE  Kept(c)
    <2>1. CASE Research
      BY <1>1, <2>1, ResearchKeepsReviewed
    <2>2. ASSUME UNCHANGED Tables
          PROVE  Kept(c)
      BY <2>2 DEF Tables, Kept
    <2>3. ASSUME NEW x \in Extractions, CommitExtraction(x)
          PROVE  Kept(c)
      <3>1. c \notin Stale(x)
        BY <1>1 DEF Stale, Unreviewed, Reviewed
      <3>2. \A n \in run[x].new : ~InsertedBy(n, c)
        BY <1>1, NamesDiffer DEF IInv, InsertedBy, NewFresh, Reviewed
      <3> QED
        BY <1>1, <2>3, <3>1, <3>2, CommitClaims DEF LeftAlone, Kept
    <2>4. CASE TextsChange \/ UNCHANGED vars
      BY <2>2, <2>4 DEF TextsChange, vars, Tables, eventVars, claimVars
    <2> QED
      BY <1>1, <2>1, <2>2, <2>3, <2>4, OnlyItsRun DEF Next
  <1>2. IInv /\ [Next]_vars =>
          [\A c \in Existing : review[c] \in {"confirmed", "rejected"} =>
             /\ keyOf'[c] = keyOf[c]
             /\ review'[c] = review[c] \/ (correction # None /\ correction' = None)]_vars
    BY <1>1 DEF Reviewed, Kept, Existing
  <1> QED
    BY <1>2, Invariant, PTL DEF Spec, ReviewedStays

---------------------------------------------------------------------------
(* The suggestions match the text.                                         *)

KeysOf(S) == {keyOf[c] : c \in S}

\* What an extraction that is writing has of its text's suggestions: those that it was
\* given, which it holds and nobody reviews or removes; of them the ones it keeps; those it
\* has inserted; and the others still to do.  Undisturbed, it was given all there are, and
\* what it deletes from is all that is unreviewed.
Writing(r) == r.phase \in {"write", "delete"}

RunSound(r) ==
  /\ ~Writing(r) => r.held = {} /\ r.kept = {} /\ r.new = {}
  /\ r.phase # "idle" /\ r.clean => r.found = texts
  /\ r.phase = "select" /\ r.clean => r.seen = Extracted
  /\ r.phase = "delete" => r.todo = {} /\ r.held \cap Unreviewed \subseteq r.seen
  /\ Writing(r) =>
       /\ r.held \subseteq Extracted /\ r.kept \subseteq r.held \cap Unreviewed
       /\ KeysOf(r.kept) \subseteq r.found
       /\ \A c, d \in r.kept : keyOf[c] = keyOf[d] => c = d
       /\ r.todo \subseteq r.found /\ r.todo \cap KeysOf(r.held) = {}
       /\ \A n \in r.new : n.key \in (r.found \ r.todo) \ KeysOf(r.held)
       /\ \A n, m \in r.new : n.key = m.key => n = m
       /\ \A k \in r.found :
            \/ k \in r.todo
            \/ \E n \in r.new : n.key = k
            \/ \E c \in r.held : keyOf[c] = k /\ (c \in r.kept \/ review[c] # "unverified")
       /\ r.clean => r.held = Extracted
RunsSound == \A x \in Extractions : RunSound(run[x])

\* As long as one extraction's transaction is open at a time, no suggestion is made twice:
\* it is given all there are.
KeysUnique ==
  ~overlapped =>
    /\ \A c, d \in Extracted : keyOf[c] = keyOf[d] => c = d
    /\ \A x, y \in Extractions : InTransaction(x) /\ InTransaction(y) => x = y
    /\ \A x \in Extractions : run[x].phase = "select" => run[x].seen = Extracted
    /\ \A x \in Extractions : Writing(run[x]) => run[x].held = Extracted

TextInv == IInv /\ RunsSound /\ KeysUnique /\ SuggestionsMatchText

LEMMA ResearchKeepsExtracted ==
  ASSUME IInv, Research
  PROVE  /\ Extracted' = Extracted /\ UNCHANGED <<texts, overlapped, run>>
         /\ \A c \in Extracted : keyOf'[c] = keyOf[c]
         /\ \A c \in Extracted \cap Held : review'[c] = review[c]
         /\ matched' =>
              matched /\ \A c \in Extracted : review'[c] = "unverified" => review[c] = "unverified"
  <1> USE NamesDiffer, LabelAssumption DEF IInv
  <1>1. UNCHANGED <<texts, overlapped, run>>
    BY DEF Research, CreateEvent, ResolveEvent, AddClaim, AddFails, CorrectionFails,
       StartReview, StartPrefer, StartUnprefer, StartRename, StartMerge, StartSplit, Locks,
       Review, Prefer, Unprefer, Rename, Merge, Split, history
  <1>2. Review \/ (matched' = matched)
    BY DEF Research, CreateEvent, ResolveEvent, AddClaim, AddFails, CorrectionFails,
       StartReview, StartPrefer, StartUnprefer, StartRename, StartMerge, StartSplit, Locks,
       Prefer, Unprefer, Rename, Merge, Split, history
  <1>3. CASE UNCHANGED <<eventOf, keyOf, review, matched>>
    BY <1>1, <1>3 DEF Extracted, Existing
  <1>4. ASSUME NEW e, NEW c \in NewClaim, Inserted(e, c, Manual), matched' = matched
        PROVE  /\ Extracted' = Extracted
               /\ \A d \in Extracted : keyOf'[d] = keyOf[d] /\ review'[d] = review[d]
    <2>1. c \in Claims /\ eventOf[c] = None
      BY NewClaimIsFree DEF ClaimsMade
    <2>2. \A d \in Claims \ {c} : /\ eventOf'[d] = eventOf[d] /\ keyOf'[d] = keyOf[d]
                                  /\ review'[d] = review[d]
      BY <1>4 DEF Inserted, EventsTypeOK
    <2>3. keyOf'[c] = Manual
      BY <1>4, <2>1 DEF Inserted, EventsTypeOK
    <2> QED BY <2>1, <2>2, <2>3 DEF Extracted, Existing
  <1>5. CASE CreateEvent \/ AddClaim
    BY <1>1, <1>2, <1>4, <1>5 DEF CreateEvent, AddClaim, history
  <1>6. CASE Review
    <2>1. UNCHANGED <<eventOf, keyOf>> /\ Extracted' = Extracted
      BY <1>6 DEF Review, Extracted, Existing
    <2>2. /\ \A c \in Claims : review'[c] = IF c \in Left(correction.claims) THEN correction.status
                                            ELSE review[c]
          /\ correction.claims \cap Held = {}
          /\ matched' = (matched /\ correction.status # "unverified")
      BY <1>6 DEF Review
    <2> QED BY <1>1, <2>1, <2>2 DEF Extracted, Existing, Left
  <1>7. CASE Prefer
    <2>1. UNCHANGED <<eventOf, keyOf>> /\ Extracted' = Extracted
      BY <1>7 DEF Prefer, Extracted, Existing
    <2>2. /\ \A c \in Claims : review'[c] = IF c \in Left(correction.claims) THEN "confirmed"
                                            ELSE review[c]
          /\ correction.claims \cap Held = {} /\ matched' = matched
      BY <1>7 DEF Prefer, history
    <2> QED BY <1>1, <2>1, <2>2 DEF Extracted, Existing, Left
  <1>8. CASE Unprefer \/ Rename
    BY <1>3, <1>8 DEF Unprefer, Rename, claimVars, history
  <1>9. CASE Merge
    <2>1. /\ eventOf' = [c \in Claims |-> IF eventOf[c] = correction.other THEN correction.event
                                         ELSE eventOf[c]]
          /\ UNCHANGED <<keyOf, review, matched>>
      BY <1>9 DEF Merge, history
    <2>2. correction.event \in Events /\ correction.other \in Events
      BY <1>9 DEF Merge, Writes, CorrectionSound, Live, Rows
    <2>3. Extracted' = Extracted
      BY <2>1, <2>2 DEF Extracted, Existing
    <2> QED BY <1>1, <2>1, <2>3
  <1>10. CASE Split
    <2>1. PICK new \in NewEvent :
            eventOf' = [c \in Claims |-> IF c \in Left(correction.claims) THEN new ELSE eventOf[c]]
      BY <1>10 DEF Split
    <2>2. new # None /\ \A c \in Left(correction.claims) : eventOf[c] # None
      BY <1>10, NewEventIsFree DEF Left, ClaimsOf, Split, Writes, CorrectionSound, Live, Rows
    <2>3. UNCHANGED <<keyOf, review, matched>>
      BY <1>10 DEF Split, history
    <2>4. Extracted' = Extracted
      BY <2>1, <2>2, <2>3 DEF Extracted, Existing
    <2> QED BY <1>1, <2>3, <2>4
  <1> QED
    BY <1>2, <1>3, <1>5, <1>6, <1>7, <1>8, <1>9, <1>10, ResearchCases DEF Review

\* A run that changes nothing of what it holds stays sound while that stays as it was.
LEMMA RunStays ==
  ASSUME NEW x \in Extractions, RunSound(run[x]),
         /\ run'[x].phase = run[x].phase /\ run'[x].found = run[x].found
         /\ run'[x].seen = run[x].seen
         /\ run'[x].held = run[x].held /\ run'[x].kept = run[x].kept
         /\ run'[x].todo = run[x].todo /\ run'[x].new = run[x].new,
         \A c \in run[x].held :
           c \in Extracted' /\ keyOf'[c] = keyOf[c] /\ review'[c] = review[c],
         run[x].phase # "idle" /\ run'[x].clean =>
           run[x].clean /\ texts' = texts /\ Extracted' = Extracted
  PROVE  RunSound(run[x])'
  <1> DEFINE r == run[x]
             q == run'[x]
  <1>1. CASE ~Writing(r)
    BY <1>1 DEF RunSound, Writing
  <1>2. CASE Writing(r)
    <2>1. KeysOf(r.held)' = KeysOf(r.held) /\ KeysOf(r.kept)' = KeysOf(r.kept)
      BY <1>2 DEF KeysOf, RunSound
    <2>2. r.kept \subseteq Unreviewed'
      BY <1>2 DEF RunSound, Unreviewed
    <2>3. r.held \cap Unreviewed' \subseteq Unreviewed /\ Writing(q) /\ q.phase # "select"
      BY <1>2 DEF RunSound, Unreviewed, Writing
    <2>4. q.phase = "delete" => q.todo = {} /\ q.held \cap Unreviewed' \subseteq q.seen
      BY <2>3 DEF RunSound
    <2>5. q.phase # "idle" /\ q.clean => q.found = texts'
      BY DEF RunSound
    <2>6. q.held \subseteq Extracted' /\ q.kept \subseteq q.held \cap Unreviewed'
      BY <1>2, <2>2 DEF RunSound
    <2>7. KeysOf(run[x].kept)' \subseteq q.found /\ q.todo \cap KeysOf(run[x].held)' = {}
      BY <1>2, <2>1 DEF RunSound, KeysOf
    <2>8. \A c, d \in q.kept : keyOf'[c] = keyOf'[d] => c = d
      BY <1>2 DEF RunSound
    <2>9. \A k \in q.found :
            \/ k \in q.todo \/ \E n \in q.new : n.key = k
            \/ \E c \in q.held : keyOf'[c] = k /\ (c \in q.kept \/ review'[c] # "unverified")
      BY <1>2 DEF RunSound
    <2>10. /\ q.todo \subseteq q.found
           /\ \A n \in q.new : n.key \in (q.found \ q.todo) \ KeysOf(run[x].held)'
           /\ \A n, m \in q.new : n.key = m.key => n = m
      <3>1. KeysOf(run[x].held)' = KeysOf(r.held)
        BY <2>1 DEF KeysOf
      <3> QED BY <1>2, <3>1 DEF RunSound
    <2>11. q.clean => q.held = Extracted'
      BY <1>2, <2>3 DEF RunSound, Writing
    <2> QED BY <2>3, <2>4, <2>5, <2>6, <2>7, <2>8, <2>9, <2>10, <2>11 DEF RunSound
  <1> QED BY <1>1, <1>2

\* What an extraction's own steps make of its run.
LEMMA FieldsMatched ==
  ASSUME NEW r \in Runs, NEW M
  PROVE  LET q == Matched(r, M)
         IN /\ q.phase = "write" /\ q.found = r.found /\ q.held = Returned(r)
            /\ q.kept = M \cap Unreviewed /\ q.todo = r.found \ {keyOf[d] : d \in M}
            /\ q.new = r.new /\ q.clean = r.clean
  BY DEF Matched, Runs

LEMMA FieldsSnapshot ==
  ASSUME NEW r \in Runs, NEW phase, NEW C
  PROVE  LET q == Snapshot(r, phase, C)
         IN /\ q.phase = phase /\ q.seen = C /\ q.found = r.found /\ q.held = r.held
            /\ q.kept = r.kept /\ q.todo = r.todo /\ q.new = r.new /\ q.clean = r.clean
  BY DEF Snapshot, Runs

LEMMA FieldsAtHome ==
  ASSUME NEW r \in Runs, NEW l, NEW e
  PROVE  LET q == AtHome(r, l, e)
         IN /\ q.phase = r.phase /\ q.found = r.found /\ q.seen = r.seen /\ q.held = r.held
            /\ q.kept = r.kept /\ q.todo = r.todo /\ q.new = r.new /\ q.clean = r.clean
  BY DEF AtHome, Runs

LEMMA FieldsInserting ==
  ASSUME NEW r \in Runs, NEW s, NEW c, NEW e
  PROVE  LET q == Inserting(r, s, c, e)
         IN /\ q.phase = r.phase /\ q.found = r.found /\ q.seen = r.seen /\ q.held = r.held
            /\ q.kept = r.kept /\ q.todo = r.todo \ {s} /\ q.clean = r.clean
            /\ q.new = r.new \cup {[claim |-> c, key |-> s, event |-> e]}
  BY DEF Inserting, Runs

LEMMA FieldsDisturbed ==
  ASSUME NEW r \in Runs
  PROVE  LET q == Disturbed(r)
         IN /\ q.phase = r.phase /\ q.found = r.found /\ q.seen = r.seen /\ q.held = r.held
            /\ q.kept = r.kept /\ q.todo = r.todo /\ q.new = r.new
            /\ q.phase # "idle" => ~q.clean
  BY DEF Disturbed, Runs

LEMMA ReadingIsSound ==
  ASSUME TextInv, NEW x \in Extractions,
         ReadTexts(x) \/ BeginSelect(x) \/ ReadExisting(x) \/ BeginDelete(x)
  PROVE  RunSound(run[x])'
  <1>0. run[x] \in Runs /\ run \in [Extractions -> Runs]
    BY DEF TextInv, IInv, EventsTypeOK
  <1>1. CASE ReadTexts(x)
    <2>1. run'[x] = [NoRun EXCEPT !.phase = "read", !.found = texts] /\ texts' = texts
      BY <1>0, <1>1 DEF ReadTexts
    <2>2. /\ run'[x].phase = "read" /\ run'[x].found = texts /\ run'[x].held = {}
          /\ run'[x].kept = {} /\ run'[x].new = {}
      BY <2>1 DEF NoRun
    <2> QED BY <2>1, <2>2 DEF RunSound, Writing
  <1>3. CASE BeginSelect(x)
    <2> DEFINE r == run[x]
    <2>1. /\ run'[x] = Snapshot(r, "select", Extracted) /\ r.phase = "read"
          /\ UNCHANGED <<texts, keyOf, review>> /\ Extracted' = Extracted
      BY <1>0, <1>3 DEF BeginSelect, claimVars, Extracted, Existing
    <2>2. /\ run'[x].phase = "select" /\ run'[x].seen = Extracted /\ run'[x].found = r.found
          /\ run'[x].held = r.held /\ run'[x].kept = r.kept /\ run'[x].new = r.new
          /\ run'[x].clean = r.clean
      BY <1>0, <2>1, FieldsSnapshot
    <2>3. RunSound(r) /\ ~Writing(r)
      BY <2>1 DEF TextInv, RunsSound, Writing
    <2> HIDE DEF r
    <2> QED BY <2>1, <2>2, <2>3 DEF RunSound, Writing
  <1>4. CASE BeginDelete(x)
    <2> DEFINE r == run[x]
    <2>1. /\ run'[x] = Snapshot(r, "delete", Unreviewed) /\ r.phase = "write" /\ r.todo = {}
          /\ UNCHANGED <<texts, keyOf, review>>
          /\ Extracted' = Extracted /\ Unreviewed' = Unreviewed
      BY <1>0, <1>4 DEF BeginDelete, claimVars, Extracted, Existing, Unreviewed
    <2>2. /\ run'[x].phase = "delete" /\ run'[x].seen = Unreviewed /\ run'[x].found = r.found
          /\ run'[x].held = r.held /\ run'[x].kept = r.kept /\ run'[x].todo = r.todo
          /\ run'[x].new = r.new /\ run'[x].clean = r.clean
      BY <1>0, <2>1, FieldsSnapshot
    <2>3. RunSound(r) /\ Writing(r)
      BY <2>1 DEF TextInv, RunsSound, Writing
    <2>4. KeysOf(run[x].kept)' = KeysOf(r.kept) /\ KeysOf(run[x].held)' = KeysOf(r.held)
      BY <2>1, <2>2 DEF KeysOf
    <2> HIDE DEF r
    <2> QED BY <2>1, <2>2, <2>3, <2>4 DEF RunSound, Writing
  <1>2. CASE ReadExisting(x)
    <2> DEFINE r == run[x]
    <2>1. PICK M \in Matches(r) : run' = [run EXCEPT ![x] = Matched(r, M)]
      BY <1>2 DEF ReadExisting
    <2>2. /\ run'[x].phase = "write" /\ run'[x].found = r.found /\ run'[x].held = Returned(r)
          /\ run'[x].kept = M \cap Unreviewed /\ run'[x].todo = r.found \ {keyOf[d] : d \in M}
          /\ run'[x].new = r.new /\ run'[x].clean = r.clean
      BY <1>0, <2>1, FieldsMatched
    <2>3. /\ M \subseteq {c \in Returned(r) : keyOf[c] \in r.found}
          /\ \A c, d \in M : keyOf[c] = keyOf[d] => c = d
          /\ \A c \in Returned(r) : keyOf[c] \in r.found => \E d \in M : keyOf[d] = keyOf[c]
      BY DEF Matches
    <2>4. /\ r.phase = "select" /\ r.new = {} /\ (r.clean => r.found = texts)
          /\ r.clean => Returned(r) = Extracted
      BY <1>2 DEF ReadExisting, TextInv, RunsSound, RunSound, Writing, Returned
    <2>5. UNCHANGED <<texts, keyOf, review>> /\ Extracted' = Extracted /\ Unreviewed' = Unreviewed
      BY <1>2 DEF ReadExisting, claimVars, Extracted, Existing, Unreviewed
    <2>6. run'[x].todo \cap KeysOf(Returned(r)) = {}
      BY <2>2, <2>3 DEF KeysOf
    <2>7. KeysOf(run'[x].kept) \subseteq r.found
      BY <2>2, <2>3 DEF KeysOf
    <2>8. \A k \in r.found :
             k \in run'[x].todo
             \/ \E c \in Returned(r) : keyOf[c] = k /\ (c \in run'[x].kept \/ review[c] # "unverified")
      <3> SUFFICES ASSUME NEW k \in r.found, k \notin run'[x].todo
                   PROVE  \E c \in Returned(r) : keyOf[c] = k
                                /\ (c \in run'[x].kept \/ review[c] # "unverified")
        OBVIOUS
      <3>1. PICK d \in M : keyOf[d] = k
        BY <2>2
      <3>2. d \in Returned(r) /\ d \in Extracted
        BY <2>3 DEF Returned
      <3>3. d \in run'[x].kept \/ review[d] # "unverified"
        BY <2>2, <3>2 DEF Unreviewed
      <3> QED BY <3>1, <3>2, <3>3
    <2>9. run'[x].kept \subseteq Returned(r) \cap Unreviewed /\ Returned(r) \subseteq Extracted
      BY <2>2, <2>3 DEF Returned
    <2>10. KeysOf(run[x].kept)' \subseteq r.found /\ run'[x].todo \cap KeysOf(run[x].held)' = {}
      BY <2>2, <2>5, <2>6, <2>7 DEF KeysOf
    <2>11. \A c, d \in run'[x].kept : keyOf[c] = keyOf[d] => c = d
      BY <2>2, <2>3
    <2>12. /\ KeysOf(run[x].kept)' = KeysOf(run'[x].kept)
           /\ KeysOf(run[x].held)' = KeysOf(run'[x].held)
      BY <2>5 DEF KeysOf
    <2>13. run'[x].clean => run'[x].held = Extracted
      BY <2>2, <2>4
    <2>14. run'[x].todo \subseteq run'[x].found /\ run'[x].held \subseteq Extracted
      BY <2>2, <2>9
    <2>15. \A k \in run'[x].found :
             \/ k \in run'[x].todo
             \/ \E c \in run'[x].held :
                  keyOf[c] = k /\ (c \in run'[x].kept \/ review[c] # "unverified")
      BY <2>2, <2>8
    <2>16. run'[x].kept \subseteq run'[x].held \cap Unreviewed'
      BY <2>2, <2>5, <2>9
    <2>17. run'[x].clean => run'[x].found = texts'
      BY <2>2, <2>4, <2>5
    <2>18. run'[x].held \subseteq Extracted'
      BY <2>5, <2>14
    <2>19. run'[x].clean => run'[x].held = Extracted'
      BY <2>5, <2>13
    <2>20. keyOf' = keyOf /\ review' = review
      BY <2>5
    <2>21. run'[x].phase = "write" /\ run'[x].new = {} /\ KeysOf(run[x].kept)' \subseteq run'[x].found
      BY <2>2, <2>4, <2>10
    <2> HIDE DEF r
    <2> QED BY <2>10, <2>11, <2>14, <2>15, <2>16, <2>17, <2>18, <2>19, <2>20, <2>21
            DEF RunSound, Writing
  <1> QED BY <1>1, <1>2, <1>3, <1>4

LEMMA InsertingIsSound ==
  ASSUME TextInv, NEW x \in Extractions, InsertClaim(x)
  PROVE  RunSound(run[x])'
  <1> DEFINE r == run[x]
  <1>0. r \in Runs /\ run \in [Extractions -> Runs]
    BY DEF TextInv, IInv, EventsTypeOK
  <1>1. r.phase = "write" /\ Writing(r) /\ RunSound(r)
    BY DEF InsertClaim, TextInv, RunsSound, Writing
  <1>2. PICK s \in NextTodo(x) : \E h \in Home(x, s), c \in NewClaim :
          run' = [run EXCEPT ![x] = Inserting(r, s, c, h.event)]
    BY DEF InsertClaim
  <1>3. PICK h \in Home(x, s), c \in NewClaim :
          run' = [run EXCEPT ![x] = Inserting(r, s, c, h.event)]
    BY <1>2
  <1> DEFINE n == [claim |-> c, key |-> s, event |-> h.event]
  <1>4. /\ run'[x].phase = r.phase /\ run'[x].found = r.found /\ run'[x].held = r.held
        /\ run'[x].kept = r.kept /\ run'[x].todo = r.todo \ {s} /\ run'[x].clean = r.clean
        /\ run'[x].new = r.new \cup {n}
    BY <1>0, <1>3, FieldsInserting
  <1>5. n.key = s /\ s \in r.todo
    BY DEF NextTodo, Least
  <1>6. UNCHANGED <<texts, keyOf, review>> /\ Extracted' = Extracted /\ Unreviewed' = Unreviewed
    BY DEF InsertClaim, claimVars, Extracted, Existing, Unreviewed
  <1>7. KeysOf(run[x].kept)' = KeysOf(r.kept) /\ KeysOf(run[x].held)' = KeysOf(r.held)
    BY <1>4, <1>6 DEF KeysOf
  <1>8. s \in r.found /\ s \notin KeysOf(r.held)
    BY <1>1, <1>5 DEF RunSound
  <1>9. \A m \in run'[x].new : m.key \in (r.found \ run'[x].todo) \ KeysOf(r.held)
    BY <1>1, <1>4, <1>5, <1>8 DEF RunSound
  <1>10. \A m, o \in run'[x].new : m.key = o.key => m = o
    BY <1>1, <1>4, <1>5 DEF RunSound
  <1>11. \A k \in r.found :
            \/ k \in run'[x].todo
            \/ \E m \in run'[x].new : m.key = k
            \/ \E a \in r.held : keyOf[a] = k /\ (a \in r.kept \/ review[a] # "unverified")
    BY <1>1, <1>4, <1>5 DEF RunSound
  <1> HIDE DEF r, n
  <1> QED BY <1>1, <1>4, <1>6, <1>7, <1>9, <1>10, <1>11 DEF RunSound, Writing

\* The suggestions there are once an extraction has committed.
LEMMA CommitExtracts ==
  ASSUME IInv, NEW x \in Extractions, CommitExtraction(x)
  PROVE  /\ \A n \in run[x].new : n.claim \in Extracted' /\ InsertedBy(n, n.claim)
         /\ \A c \in Extracted \ Stale(x) : c \in Extracted' /\ LeftAlone(c)
         /\ \A c \in Extracted' :
              \/ \E n \in run[x].new : InsertedBy(n, c)
              \/ c \in Extracted \ Stale(x) /\ LeftAlone(c)
  <1> USE NamesDiffer, LabelAssumption DEF IInv
  <1>1. \A n \in run[x].new : n.claim \in Claims /\ n.key \in Suggestions /\ n.event \in Events
    BY DEF EventsTypeOK, Runs
  <1>2. \A n \in run[x].new : review[n.claim] = None /\ eventOf[n.claim] = None
    BY <1>1 DEF NewFresh, ClaimsMade
  <1>3. ASSUME NEW n \in run[x].new
        PROVE  n.claim \in Extracted' /\ InsertedBy(n, n.claim)
    <2>1. \A m \in run[x].new : m.claim = n.claim => m = n
      BY DEF NewFresh
    <2>2. \A c \in Stale(x) : eventOf[c] # None
      BY DEF Stale, Unreviewed, Extracted, Existing
    <2>3. ~LeftAlone(n.claim)
      <3>1. review'[n.claim] = "unverified"
        BY <1>1 DEF CommitExtraction, New
      <3> QED BY <1>2, <3>1 DEF LeftAlone
    <2>4. \E m \in run[x].new : InsertedBy(m, n.claim)
      BY <1>1, <1>2, <2>2, <2>3, CommitClaims
    <2>5. InsertedBy(n, n.claim)
      BY <2>1, <2>4 DEF InsertedBy
    <2> QED BY <1>1, <2>5 DEF InsertedBy, Extracted, Existing
  <1>4. ASSUME NEW c \in Extracted \ Stale(x)
        PROVE  c \in Extracted' /\ LeftAlone(c)
    <2>1. c \in Claims /\ \A n \in run[x].new : ~InsertedBy(n, c)
      BY <1>2 DEF Extracted, Existing, InsertedBy
    <2>2. LeftAlone(c)
      BY <2>1, CommitClaims
    <2> QED BY <2>1, <2>2 DEF LeftAlone, Extracted, Existing
  <1>5. ASSUME NEW c \in Extracted', \A n \in run[x].new : ~InsertedBy(n, c)
        PROVE  c \in Extracted \ Stale(x) /\ LeftAlone(c)
    BY <1>5, CommitClaims DEF Extracted, Existing, Removed, LeftAlone
  <1> QED BY <1>3, <1>4, <1>5

LEMMA OthersAfterCommit ==
  ASSUME TextInv, NEW x \in Extractions, CommitExtraction(x), NEW y \in Extractions \ {x}
  PROVE  RunSound(run[y])'
  <1>1. run'[y] = Disturbed(run[y]) /\ run[y] \in Runs
    BY DEF CommitExtraction, TextInv, IInv, EventsTypeOK
  <1>2. /\ run'[y].phase = run[y].phase /\ run'[y].found = run[y].found /\ run'[y].seen = run[y].seen
        /\ run'[y].held = run[y].held /\ run'[y].kept = run[y].kept
        /\ run'[y].todo = run[y].todo /\ run'[y].new = run[y].new
        /\ run'[y].phase # "idle" => ~run'[y].clean
    BY <1>1, FieldsDisturbed
  <1>3. run[y].held \subseteq Extracted
    BY DEF TextInv, RunsSound, RunSound, Writing
  <1>4. run[y].held \cap Stale(x) = {}
    BY DEF CommitExtraction, HeldBut
  <1>5. \A c \in run[y].held : c \in Extracted' /\ LeftAlone(c)
    BY <1>3, <1>4, CommitExtracts DEF TextInv
  <1> QED BY <1>2, <1>5, RunStays DEF TextInv, RunsSound, LeftAlone

LEMMA RunsStay ==
  ASSUME TextInv, [Next]_vars
  PROVE  RunsSound'
  <1> USE DEF TextInv
  <1>0. run \in [Extractions -> Runs]
    BY DEF IInv, EventsTypeOK
  <1>1. ASSUME UNCHANGED <<texts, eventOf, keyOf, review>>, NEW y \in Extractions,
               run'[y] = run[y]
        PROVE  RunSound(run[y])'
    <2>1. Extracted' = Extracted /\ run[y].held \subseteq Extracted
      BY <1>1 DEF Extracted, Existing, RunsSound, RunSound
    <2> QED BY <1>1, <2>1, RunStays DEF RunsSound
  <1>2. CASE Research
    <2>1. \A y \in Extractions : run[y].held \subseteq Extracted \cap Held
      BY DEF RunsSound, RunSound, Held
    <2>2. /\ \A c \in Extracted \cap Held :
               c \in Extracted' /\ keyOf'[c] = keyOf[c] /\ review'[c] = review[c]
          /\ UNCHANGED <<texts, run>> /\ Extracted' = Extracted
      BY <1>2, ResearchKeepsExtracted
    <2>3. ASSUME NEW y \in Extractions
          PROVE  RunSound(run[y])'
      BY <2>1, <2>2, RunStays DEF RunsSound
    <2> QED BY <2>3 DEF RunsSound
  <1>3. CASE TextsChange
    <2>1. ASSUME NEW y \in Extractions
          PROVE  RunSound(run[y])'
      <3>1. run'[y] = Disturbed(run[y]) /\ run[y] \in Runs
        BY <1>0, <1>3 DEF TextsChange
      <3>2. /\ run'[y].phase = run[y].phase /\ run'[y].found = run[y].found /\ run'[y].seen = run[y].seen
            /\ run'[y].held = run[y].held /\ run'[y].kept = run[y].kept
            /\ run'[y].todo = run[y].todo /\ run'[y].new = run[y].new
            /\ run'[y].phase # "idle" => ~run'[y].clean
        BY <3>1, FieldsDisturbed
      <3>3. UNCHANGED <<keyOf, review>> /\ Extracted' = Extracted
        BY <1>3 DEF TextsChange, claimVars, Extracted, Existing
      <3>4. run[y].held \subseteq Extracted
        BY DEF RunsSound, RunSound
      <3> QED BY <3>2, <3>3, <3>4, RunStays DEF RunsSound
    <2> QED BY <2>1 DEF RunsSound
  <1>4. ASSUME NEW x \in Extractions, Extract(x)
        PROVE  RunsSound'
    <2>1. CASE CommitExtraction(x)
      <3>1. run'[x] = NoRun
        BY <1>0, <2>1 DEF CommitExtraction
      <3>2. RunSound(run[x])'
        BY <3>1 DEF NoRun, RunSound, Writing
      <3> QED BY <2>1, <3>2, OthersAfterCommit DEF RunsSound
    <2>2. CASE ~CommitExtraction(x)
      <3>1. UNCHANGED <<texts, eventOf, keyOf, review>>
        BY <1>4, <2>2, OnlyItsRun DEF Tables, Extract, ReadTexts, BeginSelect, ReadExisting, BeginDelete, FindEvent,
           InsertClaim, ExtractionFails
      <3>2. \A y \in Extractions \ {x} : run'[y] = run[y]
        BY <1>0, <1>4, <2>2 DEF Extract, ReadTexts, BeginSelect, ReadExisting, BeginDelete, FindEvent,
           InsertClaim, ExtractionFails
      <3>3. RunSound(run[x])'
        <4>1. CASE ExtractionFails(x)
          <5>1. run'[x] = NoRun
            BY <1>0, <4>1 DEF ExtractionFails
          <5> QED BY <5>1 DEF NoRun, RunSound, Writing
        <4>2. CASE FindEvent(x)
          <5>1. PICK s \in NextTodo(x) : \E e \in EventsNamed(Label(s)) :
                  run' = [run EXCEPT ![x] = AtHome(run[x], Label(s), e)]
            BY <4>2 DEF FindEvent
          <5>2. PICK e : run' = [run EXCEPT ![x] = AtHome(run[x], Label(s), e)]
            BY <5>1
          <5>3. /\ run'[x].phase = run[x].phase /\ run'[x].found = run[x].found
                /\ run'[x].seen = run[x].seen
                /\ run'[x].held = run[x].held /\ run'[x].kept = run[x].kept
                /\ run'[x].todo = run[x].todo /\ run'[x].new = run[x].new
                /\ run'[x].clean = run[x].clean
            BY <1>0, <5>2, FieldsAtHome
          <5>4. Extracted' = Extracted /\ run[x].held \subseteq Extracted
            BY <3>1 DEF Extracted, Existing, RunsSound, RunSound
          <5> QED BY <3>1, <5>3, <5>4, RunStays DEF RunsSound
        <4> QED BY <1>4, <2>2, <4>1, <4>2, ReadingIsSound, InsertingIsSound DEF Extract
      <3>4. \A y \in Extractions \ {x} : RunSound(run[y])'
        BY <1>1, <3>1, <3>2
      <3> QED BY <3>3, <3>4 DEF RunsSound
    <2> QED BY <2>1, <2>2
  <1>5. CASE UNCHANGED vars
    BY <1>1, <1>5 DEF vars, claimVars, RunsSound
  <1> QED BY <1>2, <1>3, <1>4, <1>5 DEF Next

\* What a step that is no commit and no correction does to the texts and the runs.
LEMMA PhasesAfter ==
  ASSUME TextInv, NEW x \in Extractions, Extract(x), ~CommitExtraction(x)
  PROVE  /\ UNCHANGED <<texts, eventOf, keyOf, review, matched>> /\ Extracted' = Extracted
         /\ \A y \in Extractions \ {x} : run'[y] = run[y]
         /\ overlapped => overlapped'
         /\ \/ run'[x].phase \in {"idle", "read"}
            \/ /\ run'[x].phase = "select" /\ run'[x].seen = Extracted
               /\ overlapped' \/ \A y \in Extractions : ~InTransaction(y)
            \/ /\ run'[x].phase = "write" /\ run[x].phase = "select"
               /\ run'[x].held = Extracted \cap run[x].seen
            \/ Writing(run[x]) /\ Writing(run'[x]) /\ run'[x].held = run[x].held
  <1>0. run \in [Extractions -> Runs] /\ run[x] \in Runs /\ overlapped \in BOOLEAN
    BY DEF TextInv, IInv, EventsTypeOK
  <1>1. UNCHANGED <<texts, eventOf, keyOf, review, matched>>
    BY OnlyItsRun DEF Tables, Extract, ReadTexts, BeginSelect, ReadExisting, BeginDelete, FindEvent, InsertClaim,
       ExtractionFails, history
  <1>2. Extracted' = Extracted
    BY <1>1 DEF Extracted, Existing
  <1>3. \A y \in Extractions \ {x} : run'[y] = run[y]
    BY <1>0 DEF Extract, ReadTexts, BeginSelect, ReadExisting, BeginDelete, FindEvent, InsertClaim, ExtractionFails
  <1>4. CASE ReadTexts(x) \/ ExtractionFails(x)
    <2>1. overlapped' = overlapped
      BY <1>4 DEF ReadTexts, ExtractionFails, history
    <2>2. run'[x] = NoRun \/ run'[x] = [NoRun EXCEPT !.phase = "read", !.found = texts]
      BY <1>0, <1>4 DEF ReadTexts, ExtractionFails
    <2>3. NoRun.phase = "idle" /\ [NoRun EXCEPT !.phase = "read", !.found = texts].phase = "read"
      BY DEF NoRun
    <2>4. run'[x].phase \in {"idle", "read"}
      BY <2>2, <2>3
    <2> QED BY <1>1, <1>2, <1>3, <2>1, <2>4
  <1>5. CASE ReadExisting(x)
    <2>1. PICK M : run' = [run EXCEPT ![x] = Matched(run[x], M)]
      BY <1>5 DEF ReadExisting
    <2>2. run'[x].held = Returned(run[x]) /\ run'[x].phase = "write"
      BY <1>0, <2>1, FieldsMatched
    <2>3. overlapped' = overlapped /\ run[x].phase = "select"
      BY <1>5 DEF ReadExisting, history
    <2> QED BY <1>1, <1>2, <1>3, <1>5, <2>2, <2>3 DEF Returned
  <1>8. CASE BeginSelect(x)
    <2>1. run'[x] = Snapshot(run[x], "select", Extracted)
      BY <1>0, <1>8 DEF BeginSelect
    <2>2. run'[x].phase = "select" /\ run'[x].seen = Extracted
      BY <1>0, <2>1, FieldsSnapshot
    <2>3. overlapped' = (overlapped \/ \E y \in Extractions : InTransaction(y))
      BY <1>8 DEF BeginSelect
    <2> QED BY <1>1, <1>2, <1>3, <2>2, <2>3
  <1>9. CASE BeginDelete(x)
    <2>1. run'[x] = Snapshot(run[x], "delete", Unreviewed) /\ run[x].phase = "write"
      BY <1>0, <1>9 DEF BeginDelete
    <2>2. run'[x].phase = "delete" /\ run'[x].held = run[x].held
      BY <1>0, <2>1, FieldsSnapshot
    <2>3. overlapped' = overlapped
      BY <1>9 DEF BeginDelete, history
    <2> QED BY <1>1, <1>2, <1>3, <2>1, <2>2, <2>3 DEF Writing
  <1>6. CASE FindEvent(x)
    <2>1. PICK s \in NextTodo(x) : \E e \in EventsNamed(Label(s)) :
            run' = [run EXCEPT ![x] = AtHome(run[x], Label(s), e)]
      BY <1>6 DEF FindEvent
    <2>2. PICK e : run' = [run EXCEPT ![x] = AtHome(run[x], Label(s), e)]
      BY <2>1
    <2>3. run'[x].phase = run[x].phase /\ run'[x].held = run[x].held
      BY <1>0, <2>2, FieldsAtHome
    <2>4. run[x].phase = "write" /\ overlapped' = overlapped
      BY <1>6 DEF FindEvent, history
    <2> QED BY <1>1, <1>2, <1>3, <2>3, <2>4 DEF Writing
  <1>7. CASE InsertClaim(x)
    <2>1. PICK s \in NextTodo(x) : \E h \in Home(x, s), c \in NewClaim :
            run' = [run EXCEPT ![x] = Inserting(run[x], s, c, h.event)]
      BY <1>7 DEF InsertClaim
    <2>2. PICK h \in Home(x, s), c \in NewClaim :
            run' = [run EXCEPT ![x] = Inserting(run[x], s, c, h.event)]
      BY <2>1
    <2>3. run'[x].phase = run[x].phase /\ run'[x].held = run[x].held
      BY <1>0, <2>2, FieldsInserting
    <2>4. run[x].phase = "write" /\ overlapped' = overlapped
      BY <1>7 DEF InsertClaim, history
    <2> QED BY <1>1, <1>2, <1>3, <2>3, <2>4 DEF Writing
  <1> QED BY <1>4, <1>5, <1>6, <1>7, <1>8, <1>9 DEF Extract

LEMMA KeysStayUnique ==
  ASSUME TextInv, [Next]_vars
  PROVE  KeysUnique'
  <1> USE DEF TextInv
  <1>0. run \in [Extractions -> Runs]
    BY DEF IInv, EventsTypeOK
  <1>1. CASE UNCHANGED <<Extracted, overlapped, run>> /\ \A c \in Extracted : keyOf'[c] = keyOf[c]
    BY <1>1 DEF KeysUnique, Writing, InTransaction
  <1>2. CASE Research
    BY <1>1, <1>2, ResearchKeepsExtracted
  <1>3. CASE TextsChange
    <2>1. /\ UNCHANGED <<keyOf, overlapped>> /\ Extracted' = Extracted
          /\ \A y \in Extractions : run'[y] = Disturbed(run[y]) /\ run[y] \in Runs
      BY <1>0, <1>3 DEF TextsChange, claimVars, Extracted, Existing
    <2>2. \A y \in Extractions : /\ run'[y].phase = run[y].phase /\ run'[y].held = run[y].held
                                  /\ run'[y].seen = run[y].seen
      BY <2>1, FieldsDisturbed
    <2> QED BY <2>1, <2>2 DEF KeysUnique, Writing, InTransaction
  <1>4. ASSUME NEW x \in Extractions, Extract(x), ~CommitExtraction(x)
        PROVE  KeysUnique'
    <2>1. SUFFICES ASSUME ~overlapped'
                   PROVE  KeysUnique'
      BY DEF KeysUnique
    <2>2. /\ UNCHANGED keyOf /\ Extracted' = Extracted /\ ~overlapped
          /\ \A y \in Extractions \ {x} : run'[y] = run[y]
      BY <1>4, <2>1, PhasesAfter
    <2>3. KeysUnique
      OBVIOUS
    <2>4. CASE run'[x].phase \in {"idle", "read"}
      BY <2>2, <2>3, <2>4 DEF KeysUnique, Writing, InTransaction
    <2>5. CASE /\ run'[x].phase = "select" /\ run'[x].seen = Extracted
               /\ \A y \in Extractions : ~InTransaction(y)
      BY <2>2, <2>3, <2>5 DEF KeysUnique, Writing, InTransaction
    <2>6. CASE /\ run'[x].phase = "write" /\ run[x].phase = "select"
               /\ run'[x].held = Extracted \cap run[x].seen
      BY <2>1, <2>2, <2>3, <2>6 DEF KeysUnique, Writing, InTransaction
    <2>7. CASE Writing(run[x]) /\ Writing(run'[x]) /\ run'[x].held = run[x].held
      BY <2>1, <2>2, <2>3, <2>7 DEF KeysUnique, Writing, InTransaction
    <2> QED BY <1>4, <2>1, <2>4, <2>5, <2>6, <2>7, PhasesAfter
  <1>5. ASSUME NEW x \in Extractions, CommitExtraction(x), ~overlapped
        PROVE  /\ \A c, d \in Extracted' : keyOf'[c] = keyOf'[d] => c = d
               /\ \A y \in Extractions : run'[y].phase \in {"idle", "read"}
    <2>1. InTransaction(x) /\ Writing(run[x])
      BY <1>5 DEF CommitExtraction, InTransaction, Writing
    <2>2. /\ run[x].held = Extracted
          /\ \A y \in Extractions \ {x} : run[y].phase \in {"idle", "read"}
      <3>1. \A y \in Extractions \ {x} : ~InTransaction(y) /\ run[y] \in Runs
        BY <1>0, <1>5, <2>1 DEF KeysUnique
      <3>2. \A q \in Runs : q.phase \in {"idle", "read", "select", "write", "delete"}
        BY DEF Runs
      <3> QED BY <1>5, <2>1, <3>1, <3>2 DEF KeysUnique, InTransaction
    <2>3. \A y \in Extractions : run'[y].phase \in {"idle", "read"}
      <3>1. \A y \in Extractions \ {x} : run'[y] = Disturbed(run[y]) /\ run[y] \in Runs
        BY <1>0, <1>5 DEF CommitExtraction
      <3>2. \A y \in Extractions \ {x} : run'[y].phase = run[y].phase
        BY <3>1, FieldsDisturbed
      <3>3. run'[x] = NoRun
        BY <1>0, <1>5 DEF CommitExtraction
      <3> QED BY <2>2, <3>2, <3>3 DEF NoRun
    <2>4. /\ \A n \in run[x].new : n.key \notin KeysOf(Extracted)
          /\ \A n, m \in run[x].new : n.key = m.key => n = m
      BY <2>1, <2>2 DEF RunsSound, RunSound
    <2>5. \A c \in Extracted : keyOf[c] \in KeysOf(Extracted)
      BY DEF KeysOf
    <2>6. ASSUME NEW c \in Extracted', NEW d \in Extracted', keyOf'[c] = keyOf'[d]
          PROVE  c = d
      <3>1. \A e \in {c, d} : \/ \E n \in run[x].new : n.claim = e /\ keyOf'[e] = n.key
                              \/ e \in Extracted /\ keyOf'[e] = keyOf[e]
        BY <1>5, CommitExtracts DEF InsertedBy, LeftAlone
      <3>2. \A e, f \in Extracted : keyOf[e] = keyOf[f] => e = f
        BY <1>5 DEF KeysUnique
      <3> QED BY <2>4, <2>5, <2>6, <3>1, <3>2
    <2> QED BY <2>3, <2>6
  <1>6. ASSUME NEW x \in Extractions, CommitExtraction(x)
        PROVE  KeysUnique'
    <2>1. overlapped' = overlapped
      BY <1>6 DEF CommitExtraction
    <2> QED BY <1>5, <1>6, <2>1 DEF KeysUnique, Writing, InTransaction
  <1>7. CASE UNCHANGED vars
    BY <1>1, <1>7 DEF vars, claimVars, history, Extracted, Existing
  <1> QED BY <1>2, <1>3, <1>4, <1>6, <1>7 DEF Next

LEMMA MatchStays ==
  ASSUME TextInv, [Next]_vars
  PROVE  SuggestionsMatchText'
  <1> USE DEF TextInv
  <1>1. ASSUME matched' => matched, UNCHANGED <<texts, Extracted>>,
               overlapped => overlapped',
               \A c \in Extracted : keyOf'[c] = keyOf[c],
               matched' => \A c \in Extracted : review'[c] = "unverified" => review[c] = "unverified"
        PROVE  SuggestionsMatchText'
    <2> SUFFICES ASSUME matched' PROVE SuggestionsMatchText'
      BY DEF SuggestionsMatchText
    <2>1. Unreviewed' \subseteq Unreviewed
      BY <1>1 DEF Unreviewed
    <2>2. \A c \in Unreviewed' : c \in Extracted
      BY <1>1 DEF Unreviewed
    <2>3. {keyOf'[c] : c \in Extracted'} = {keyOf[c] : c \in Extracted}
      BY <1>1
    <2>4. {keyOf'[c] : c \in Unreviewed'} \subseteq {keyOf[c] : c \in Unreviewed}
      BY <1>1, <2>1, <2>2
    <2> QED BY <1>1, <2>1, <2>2, <2>3, <2>4 DEF SuggestionsMatchText
  <1>2. CASE Research
    BY <1>1, <1>2, ResearchKeepsExtracted
  <1>3. CASE TextsChange
    BY <1>3 DEF TextsChange, SuggestionsMatchText
  <1>4. ASSUME NEW x \in Extractions, Extract(x), ~CommitExtraction(x)
        PROVE  SuggestionsMatchText'
    BY <1>1, <1>4, PhasesAfter
  <1>5. ASSUME NEW x \in Extractions, CommitExtraction(x), run[x].clean
        PROVE  SuggestionsMatchText'
    <2> DEFINE r == run[x]
    <2>1. /\ r.phase = "delete" /\ Writing(r) /\ RunSound(r)
          /\ texts' = texts /\ overlapped' = overlapped
      BY <1>5 DEF CommitExtraction, RunsSound, Writing
    <2>10. r.todo = {} /\ r.held \cap Unreviewed \subseteq r.seen
      BY <2>1 DEF RunSound
    <2>2. r.found = texts /\ r.held = Extracted
      BY <1>5, <2>1 DEF RunSound
    <2>3. texts' \subseteq {keyOf'[c] : c \in Extracted'}
      <3> SUFFICES ASSUME NEW k \in texts PROVE \E c \in Extracted' : keyOf'[c] = k
        BY <2>1
      <3>1. CASE \E n \in r.new : n.key = k
        BY <1>5, <3>1, CommitExtracts DEF InsertedBy
      <3>2. ASSUME NEW c \in r.held, keyOf[c] = k, c \in r.kept \/ review[c] # "unverified"
            PROVE  c \in Extracted' /\ keyOf'[c] = k
        <4>1. c \in Extracted \ Stale(x)
          BY <2>2, <3>2 DEF Stale, Unreviewed
        <4> QED BY <1>5, <3>2, <4>1, CommitExtracts DEF LeftAlone
      <3> QED BY <2>1, <2>2, <2>10, <3>1, <3>2 DEF RunSound
    <2>4. \A c \in Unreviewed' :
             \/ \E n \in r.new : n.claim = c /\ keyOf'[c] = n.key
             \/ c \in r.kept /\ keyOf'[c] = keyOf[c]
      <3> SUFFICES ASSUME NEW c \in Unreviewed', \A n \in r.new : ~InsertedBy(n, c)
                   PROVE  c \in r.kept /\ keyOf'[c] = keyOf[c]
        BY DEF InsertedBy
      <3>1. c \in Extracted \ Stale(x) /\ LeftAlone(c)
        BY <1>5, CommitExtracts DEF Unreviewed
      <3>2. c \in Unreviewed
        BY <3>1 DEF Unreviewed, LeftAlone
      <3>3. c \in r.seen
        BY <2>2, <2>10, <3>1, <3>2
      <3> QED BY <3>1, <3>2, <3>3 DEF Stale, LeftAlone
    <2>5. /\ \A n \in r.new : n.key \in texts /\ \A c \in r.held : n.key # keyOf[c]
          /\ \A n, m \in r.new : n.key = m.key => n = m
          /\ \A c \in r.kept : keyOf[c] \in texts /\ c \in r.held
          /\ \A c, d \in r.kept : keyOf[c] = keyOf[d] => c = d
      BY <2>1, <2>2 DEF RunSound, KeysOf
    <2>6. \A c \in Unreviewed' : keyOf'[c] \in texts
      BY <2>4, <2>5
    <2>7. \A c, d \in Unreviewed' : keyOf'[c] = keyOf'[d] => c = d
      BY <2>4, <2>5
    <2>8. ~overlapped' => \A c, d \in Extracted' : keyOf'[c] = keyOf'[d] => c = d
      BY KeysStayUnique DEF KeysUnique
    <2>9. Unreviewed' \subseteq Extracted'
      BY DEF Unreviewed
    <2> HIDE DEF r
    <2> QED BY <2>1, <2>3, <2>6, <2>7, <2>8, <2>9 DEF SuggestionsMatchText
  <1>6. ASSUME NEW x \in Extractions, CommitExtraction(x)
        PROVE  SuggestionsMatchText'
    <2>1. matched' = run[x].clean
      BY <1>6 DEF CommitExtraction
    <2> QED BY <1>5, <1>6, <2>1 DEF SuggestionsMatchText
  <1>7. CASE UNCHANGED vars
    BY <1>7 DEF vars, claimVars, history, Extracted, Existing, Unreviewed, SuggestionsMatchText
  <1> QED BY <1>2, <1>3, <1>4, <1>6, <1>7 DEF Next

LEMMA TextInvariant == Spec => []TextInv
  <1>1. Init => TextInv
    <2> SUFFICES ASSUME Init PROVE TextInv
      OBVIOUS
    <2>1. IInv
      BY InitSound
    <2>2. \A x \in Extractions : run[x] = NoRun
      BY DEF Init
    <2>3. RunsSound
      BY <2>2 DEF RunsSound, RunSound, NoRun, Writing
    <2>4. Extracted = {}
      <3>1. \A c \in Claims : eventOf[c] # None => keyOf[c] = Manual
        BY NamesDiffer DEF Init
      <3> QED BY <3>1 DEF Extracted, Existing
    <2>5. KeysUnique
      BY <2>2, <2>4 DEF KeysUnique, NoRun, Writing, InTransaction
    <2>6. SuggestionsMatchText
      BY DEF Init, SuggestionsMatchText
    <2> QED BY <2>1, <2>3, <2>5, <2>6 DEF TextInv
  <1>2. TextInv /\ [Next]_vars => TextInv'
    BY StepSound, RunsStay, KeysStayUnique, MatchStays DEF TextInv
  <1> QED BY <1>1, <1>2, PTL DEF Spec

---------------------------------------------------------------------------
(* What readers are shown.                                                 *)

\* A claim of a merged event came after the merge: nobody has decided on it.
LateUndecided ==
  \A c \in Existing :
    mergedInto[eventOf[c]] # None => review[c] = "unverified" /\ c \notin preferred

LEMMA LateStay ==
  ASSUME IInv, LateUndecided, [Next]_vars
  PROVE  LateUndecided'
  <1> USE NamesDiffer DEF IInv
  <1>1. CASE UNCHANGED <<eventOf, review, preferred, mergedInto>>
    BY <1>1 DEF LateUndecided, Existing
  <1>2. ASSUME NEW e \in Events, NEW c \in NewClaim, Inserted(e, c, Manual), UNCHANGED mergedInto
        PROVE  LateUndecided'
    <2>1. c \in Claims /\ c \notin preferred
      BY NewClaimIsFree DEF ClaimsMade, EventsTypeOK, Existing
    <2>2. \A d \in Claims \ {c} : eventOf'[d] = eventOf[d] /\ review'[d] = review[d]
      BY <1>2, <2>1 DEF Inserted, EventsTypeOK
    <2>3. review'[c] = "unverified" /\ preferred' = preferred
      BY <1>2, <2>1 DEF Inserted, EventsTypeOK
    <2> QED BY <1>2, <2>1, <2>2, <2>3 DEF LateUndecided, Existing
  <1>3. CASE Research
    <2>1. CASE CreateEvent
      BY <1>2, <2>1, NewEventIsFree DEF CreateEvent
    <2>2. CASE AddClaim
      BY <1>2, <2>2 DEF AddClaim, Rows, eventVars
    <2>3. CASE Review
      <3>1. \A c \in Left(correction.claims) : mergedInto[eventOf[c]] = None
        BY <2>3 DEF Left, ClaimsOf, Review, Writes, CorrectionSound, Live
      <3>2. /\ review' = [c \in Claims |-> IF c \in Left(correction.claims) THEN correction.status
                                          ELSE review[c]]
            /\ preferred' \subseteq preferred /\ UNCHANGED <<eventOf, mergedInto>>
        BY <2>3 DEF Review, eventVars
      <3> QED BY <3>1, <3>2 DEF LateUndecided, Existing
    <2>4. CASE Prefer
      <3>1. \A c \in Left(correction.claims) : mergedInto[eventOf[c]] = None
        BY <2>4 DEF Left, ClaimsOf, Prefer, Writes, CorrectionSound, Live
      <3>2. /\ review' = [c \in Claims |-> IF c \in Left(correction.claims) THEN "confirmed"
                                          ELSE review[c]]
            /\ preferred' \subseteq preferred \cup Left(correction.claims)
            /\ UNCHANGED <<eventOf, mergedInto>>
        BY <2>4 DEF Prefer, PreferredBut, eventVars
      <3> QED BY <3>1, <3>2 DEF LateUndecided, Existing
    <2>5. CASE Unprefer
      BY <2>5 DEF Unprefer, PreferredBut, LateUndecided, Existing, eventVars
    <2>6. CASE Rename
      BY <1>1, <2>6 DEF Rename, claimVars
    <2>7. CASE Merge
      <3>1. /\ correction.event \in Live /\ correction.other \in Live \ {correction.event}
            /\ correction.event \in Events /\ correction.other \in Events
        BY <2>7 DEF Merge, Writes, CorrectionSound, Live, Rows
      <3>2. /\ eventOf' = [c \in Claims |-> IF eventOf[c] = correction.other
                                           THEN correction.event ELSE eventOf[c]]
            /\ preferred' \subseteq preferred /\ review' = review
            /\ mergedInto' = Redirected(correction.event, correction.other)
        BY <2>7 DEF Merge
      <3>3. \A d \in Events : mergedInto'[d] # None => d = correction.other \/ mergedInto[d] # None
        BY <3>1, <3>2, NamesDiffer DEF Redirected
      <3>4. \A c \in Existing' : mergedInto'[eventOf'[c]] # None =>
               c \in Existing /\ eventOf'[c] = eventOf[c] /\ mergedInto[eventOf[c]] # None
        <4> SUFFICES ASSUME NEW c \in Existing', mergedInto'[eventOf'[c]] # None
                     PROVE  c \in Existing /\ eventOf'[c] = eventOf[c] /\ mergedInto[eventOf[c]] # None
          OBVIOUS
        <4>1. c \in Claims /\ eventOf'[c] # None
          BY DEF Existing
        <4>0. mergedInto'[correction.event] = None
          <5>1. mergedInto[correction.event] = None /\ correction.other # None
            BY <3>1 DEF Live
          <5> QED BY <3>1, <3>2, <5>1 DEF Redirected
        <4>2. eventOf'[c] # correction.event
          BY <4>0
        <4>3. eventOf'[c] = eventOf[c] /\ eventOf[c] # correction.other /\ eventOf[c] \in Events
          BY <3>2, <4>1, <4>2 DEF EventsTypeOK
        <4> QED BY <3>3, <4>1, <4>3 DEF Existing
      <3> QED BY <3>2, <3>4 DEF LateUndecided
    <2>8. CASE Split
      <3>1. PICK new \in NewEvent :
              eventOf' = [c \in Claims |-> IF c \in Left(correction.claims) THEN new ELSE eventOf[c]]
        BY <2>8 DEF Split
      <3>2. new \in Events /\ mergedInto[new] = None
        BY NewEventIsFree DEF MergesLead, Rows
      <3>3. UNCHANGED <<review, preferred, mergedInto>>
        BY <2>8 DEF Split
      <3> QED BY <3>1, <3>2, <3>3 DEF LateUndecided, Existing
    <2> QED BY <1>1, <1>3, <2>1, <2>2, <2>3, <2>4, <2>5, <2>6, <2>7, <2>8, ResearchCases
  <1>4. ASSUME NEW x \in Extractions, CommitExtraction(x)
        PROVE  LateUndecided'
    <2>1. /\ mergedInto' = [e \in Events |-> IF mergedInto[e] \in Emptied(x) THEN None
                                            ELSE mergedInto[e]]
          /\ preferred' = preferred \ Stale(x)
      BY <1>4 DEF CommitExtraction
    <2>2. \A n \in run[x].new : n.claim \in Claims /\ n.claim \notin preferred
      BY DEF EventsTypeOK, Runs, Existing, NewFresh, ClaimsMade
    <2> SUFFICES ASSUME NEW c \in Existing', mergedInto'[eventOf'[c]] # None
                 PROVE  review'[c] = "unverified" /\ c \notin preferred'
      BY DEF LateUndecided
    <2>3. c \in Claims /\ eventOf'[c] # None
      BY DEF Existing
    <2>4. CASE \E n \in run[x].new : InsertedBy(n, c)
      BY <2>1, <2>2, <2>4 DEF InsertedBy
    <2>5. CASE LeftAlone(c)
      <3>1. eventOf[c] \in Events /\ mergedInto[eventOf[c]] # None
        BY <2>1, <2>3, <2>5 DEF LeftAlone, EventsTypeOK
      <3> QED BY <2>1, <2>3, <2>5, <3>1 DEF LeftAlone, LateUndecided, Existing
    <2> QED BY <1>4, <2>3, <2>4, <2>5, CommitClaims DEF Removed
  <1>5. ASSUME NEW x \in Extractions, Extract(x), ~CommitExtraction(x)
        PROVE  LateUndecided'
    BY <1>1, <1>5, OnlyItsRun DEF Tables
  <1>6. CASE TextsChange \/ UNCHANGED vars
    BY <1>1, <1>6 DEF TextsChange, vars, claimVars, eventVars
  <1> QED BY <1>3, <1>4, <1>5, <1>6 DEF Next

---------------------------------------------------------------------------
Before == {p \in Nat \X Nat : p[1] < p[2]}

\* Induction over the natural numbers, for a set: what holds of zero and of every successor.
LEMMA NaturalsOneByOne ==
  ASSUME NEW S, 0 \in S, \A n \in Nat : n \in S => n + 1 \in S
  PROVE  \A n \in Nat : n \in S
  <1> DEFINE Missing == {n \in Nat : n \notin S}
  <1>1. SUFFICES ASSUME Missing # {} PROVE FALSE
    OBVIOUS
  <1>2. IsWellFoundedOn(Before, Nat)
    BY NatLessThanWellFounded DEF OpToRel, Before
  <1>3. PICK x \in Missing : \A y \in Missing : <<y, x>> \notin Before
    BY <1>1, <1>2, WFMin
  <1>4. x # 0 /\ x - 1 \in Nat
    BY <1>3
  <1>5. x - 1 \in Missing
    BY <1>3, <1>4
  <1>6. <<x - 1, x>> \in Before
    BY <1>4 DEF Before
  <1> QED BY <1>3, <1>5, <1>6

\* A row's id leads to itself, or to the event it was merged into, however long live_event
\* goes on from there.
LEMMA LiveReached ==
  ASSUME IInv, IsFiniteSet(Rows), NEW id \in Rows
  PROVE  LiveEvent(id) = IF mergedInto[id] = None THEN id ELSE mergedInto[id]
  <1> DEFINE N == Cardinality(Rows)
             to == IF mergedInto[id] = None THEN id ELSE mergedInto[id]
             Step(e) == IF e \in Rows /\ mergedInto[e] # None THEN mergedInto[e] ELSE e
             Path == [n \in 0..N |-> IF n = 0 THEN id ELSE to]
             Leads(g) == g = [n \in 0..N |-> IF n = 0 THEN id ELSE Step(g[n - 1])]
  <1>1. N \in Nat /\ N # 0
    BY FS_CardinalityType, FS_EmptySet
  <1>2. to \in Live /\ Step(id) = to
    BY DEF IInv, MergesLead, Live, Rows
  <1>3. Step(to) = to
    BY <1>2 DEF Live
  <1> HIDE DEF N, to, Step
  <1>4. Leads(Path)
    <2>1. \A n \in 0..N : n # 0 => n - 1 \in 0..N /\ Path[n - 1] \in {id, to}
      BY <1>1
    <2>2. \A n \in 0..N : n # 0 => Step(Path[n - 1]) = to
      BY <1>2, <1>3, <2>1
    <2> QED BY <2>2
  <1>5. ASSUME NEW g, Leads(g)
        PROVE  g[N] = to
    <2> DEFINE S == {n \in Nat : n + 1 \in 0..N => g[n + 1] = to}
    <2>1. g[0] = id /\ \A n \in 1..N : g[n] = Step(g[n - 1])
      BY <1>1, <1>5
    <2>2. 0 \in S
      BY <1>1, <1>2, <2>1
    <2>3. ASSUME NEW n \in Nat, n \in S
          PROVE  n + 1 \in S
      <3> SUFFICES ASSUME n + 2 \in 0..N PROVE g[n + 2] = to
        OBVIOUS
      <3>1. n + 2 \in 1..N /\ n + 1 \in 0..N /\ (n + 2) - 1 = n + 1
        BY <1>1
      <3>2. g[n + 2] = Step(g[n + 1])
        BY <2>1, <3>1
      <3> QED BY <1>3, <2>3, <3>1, <3>2
    <2> HIDE DEF S
    <2>4. \A n \in Nat : n \in S
      BY <2>2, <2>3, NaturalsOneByOne
    <2>5. N - 1 \in S /\ (N - 1) + 1 = N /\ N \in 0..N
      BY <1>1, <2>4
    <2> QED BY <1>1, <2>5 DEF S
  <1>6. (CHOOSE g : Leads(g))[N] = to
    <2>1. Leads(CHOOSE g : Leads(g))
      BY <1>4
    <2> QED BY <1>5, <2>1
  <1>7. LiveEvent(id) = IF (CHOOSE g : Leads(g))[N] \in Live THEN (CHOOSE g : Leads(g))[N] ELSE None
    BY DEF LiveEvent, N, Step
  <1> QED BY <1>2, <1>6, <1>7 DEF to

---------------------------------------------------------------------------
Chosen(e) ==
  IF ClaimsOf(e) \cap preferred = {} THEN {None} ELSE ClaimsOf(e) \cap preferred
RowOf(e, p) ==
  [event |-> e, claims |-> Cardinality(ClaimsOf(e)), preferred |-> p,
   disputed |-> Cardinality(Readings(e)) > 1]

LEMMA OneChosen ==
  ASSUME OnePreferred, NEW e
  PROVE  \E p : Chosen(e) = {p}
  <1>1. CASE ClaimsOf(e) \cap preferred = {}
    BY <1>1 DEF Chosen
  <1>2. CASE ClaimsOf(e) \cap preferred # {}
    <2>1. PICK p : p \in ClaimsOf(e) \cap preferred
      BY <1>2
    <2>2. \A q \in ClaimsOf(e) \cap preferred : q = p
      BY <2>1 DEF OnePreferred, ClaimsOf
    <2> QED BY <1>2, <2>1, <2>2 DEF Chosen
  <1> QED BY <1>1, <1>2

LEMMA ListedOnce ==
  ASSUME OnePreferred, NEW ids
  PROVE  /\ \A r \in Listing(ids) : r.event \in Live \cap ids
         /\ \A e \in Live \cap ids : \E row : /\ row.event = e
                                              /\ {r \in Listing(ids) : r.event = e} = {row}
  <1> DEFINE RowsOf(e) == {RowOf(e, p) : p \in Chosen(e)}
  <1>1. Listing(ids) = UNION {RowsOf(e) : e \in Live \cap ids}
    BY DEF Listing, RowOf, Chosen
  <1>2. ASSUME NEW e \in Live \cap ids, NEW r \in RowsOf(e)
        PROVE  r.event = e
    BY DEF RowOf
  <1>3. ASSUME NEW e \in Live \cap ids
        PROVE  \E row : row.event = e /\ {r \in Listing(ids) : r.event = e} = {row}
    <2>1. PICK p : Chosen(e) = {p}
      BY OneChosen
    <2>2. RowsOf(e) = {RowOf(e, p)} /\ RowOf(e, p).event = e
      BY <2>1 DEF RowOf
    <2> HIDE DEF RowsOf
    <2>3. {r \in Listing(ids) : r.event = e} = RowsOf(e)
      BY <1>1, <1>2
    <2> QED BY <2>2, <2>3
  <1> HIDE DEF RowsOf
  <1> QED BY <1>1, <1>2, <1>3

ProfileOf(e, row) == [event |-> e, summary |-> row, claims |-> ClaimsOf(e)]

LEMMA OneProfile ==
  ASSUME IInv, IsFiniteSet(Rows), NEW id \in Rows
  PROVE  /\ LiveEvent(id) \in Live
         /\ \E row : Profiles(id) = {ProfileOf(LiveEvent(id), row)}
  <1> DEFINE e == LiveEvent(id)
  <1>1. e \in Live
    BY LiveReached DEF IInv, MergesLead, Live, Rows
  <1>2. PICK row : row.event = e /\ {r \in Listing({e}) : r.event = e} = {row}
    BY <1>1, ListedOnce DEF IInv
  <1>3. Listing({e}) = {row}
    BY <1>2, ListedOnce DEF IInv
  <1> HIDE DEF e
  <1>4. {ProfileOf(r.event, r) : r \in Listing({e})} = {ProfileOf(e, row)}
    BY <1>2, <1>3
  <1>5. Profiles(id) = {ProfileOf(r.event, r) : r \in Listing({e})}
    BY DEF Profiles, ProfileOf, e
  <1> QED BY <1>1, <1>4, <1>5 DEF e

LEMMA TimelineIs ==
  ASSUME IInv, IsFiniteSet(Rows)
  PROVE  /\ \A t \in Timeline(Live) : t.event \in Live /\ t.claims = DatedClaims(t.event)
         /\ \A t, u \in Timeline(Live) : t.event = u.event => t = u
         /\ \A e \in Live : DatedClaims(e) # {} => \E t \in Timeline(Live) : t.event = e
  <1> DEFINE Entry(p) == [event |-> p.event, claims |-> {c \in p.claims : IsDated(keyOf[c])}]
             Opened == UNION {Profiles(e) : e \in Live}
             Shown(e) == [event |-> e, claims |-> DatedClaims(e)]
  <1>1. Timeline(Live) = {t \in {Entry(p) : p \in Opened} : t.claims # {}}
    BY DEF Timeline
  <1>2. ASSUME NEW e \in Live
        PROVE  \E row : Profiles(e) = {ProfileOf(e, row)} /\ Entry(ProfileOf(e, row)) = Shown(e)
    <2>1. e \in Rows /\ LiveEvent(e) = e
      BY LiveReached DEF Live
    <2>2. PICK row : Profiles(e) = {ProfileOf(e, row)}
      BY <2>1, OneProfile
    <2>3. Entry(ProfileOf(e, row)) = Shown(e)
      BY DEF ProfileOf, DatedClaims
    <2> QED BY <2>2, <2>3
  <1> HIDE DEF Entry, Shown
  <1>3. {Entry(p) : p \in Opened} = {Shown(e) : e \in Live}
    BY <1>2
  <1>4. \A e : Shown(e).event = e /\ Shown(e).claims = DatedClaims(e)
    BY DEF Shown
  <1> HIDE DEF Opened
  <1>5. \A t \in Timeline(Live) : \E e \in Live : t = Shown(e)
    BY <1>1, <1>3
  <1>6. \A e \in Live : DatedClaims(e) # {} => Shown(e) \in Timeline(Live)
    BY <1>1, <1>3, <1>4
  <1> QED BY <1>4, <1>5, <1>6

LEMMA ShownWhenSound ==
  ASSUME IInv, LateUndecided, IsFiniteSet(Rows)
  PROVE  ClaimsAreShown
  <1> DEFINE timeline == Timeline(Live)
             listing == Listing(Events)
  <1>1. ASSUME NEW e \in Rows
        PROVE  \E p \in Profiles(e) : Profiles(e) = {p} /\ p.event \in Live
    <2>1. PICK row : Profiles(e) = {ProfileOf(LiveEvent(e), row)}
      BY OneProfile
    <2>2. ProfileOf(LiveEvent(e), row).event \in Live
      BY OneProfile DEF ProfileOf
    <2> QED BY <2>1, <2>2
  <1>2. ASSUME NEW e \in Live
        PROVE  Cardinality({row \in listing : row.event = e}) = 1
    <2>1. PICK row : {r \in listing : r.event = e} = {row}
      BY ListedOnce DEF IInv, Live, Rows
    <2> HIDE DEF listing
    <2> QED BY <2>1, FS_Singleton
  <1>3. ASSUME NEW c \in Existing, IsDated(keyOf[c])
        PROVE  LET under == {t \in timeline : c \in t.claims}
               IN \/ \E t \in under : under = {t} /\ t.event = eventOf[c]
                  \/ /\ under = {} /\ mergedInto[eventOf[c]] # None
                     /\ review[c] = "unverified" /\ c \notin preferred
    <2>1. c \in Claims /\ eventOf[c] \in Rows
      BY DEF IInv, ClaimsMade, Existing
    <2>2. \A t \in timeline : c \in t.claims => t.event = eventOf[c] /\ t.event \in Live
      BY TimelineIs DEF DatedClaims, ClaimsOf
    <2>3. CASE eventOf[c] \in Live
      <3>1. c \in DatedClaims(eventOf[c])
        BY <1>3, <2>1 DEF DatedClaims, ClaimsOf
      <3>2. PICK t \in timeline : t.event = eventOf[c]
        BY <2>3, <3>1, TimelineIs
      <3>3. c \in t.claims
        BY <3>1, <3>2, TimelineIs
      <3>4. \A u \in timeline : c \in u.claims => u = t
        BY <2>2, <3>2, TimelineIs
      <3> HIDE DEF timeline
      <3> QED BY <3>2, <3>3, <3>4
    <2>4. CASE eventOf[c] \notin Live
      <3>1. mergedInto[eventOf[c]] # None
        BY <2>1, <2>4 DEF Live
      <3>2. \A t \in timeline : c \notin t.claims
        BY <2>2, <2>4
      <3>3. review[c] = "unverified" /\ c \notin preferred
        BY <3>1 DEF LateUndecided
      <3> HIDE DEF timeline
      <3> QED BY <3>1, <3>2, <3>3
    <2> QED BY <2>3, <2>4
  <1> QED BY <1>1, <1>2, <1>3 DEF ClaimsAreShown

---------------------------------------------------------------------------
\* A step makes finitely many events: those an extraction has found or made are.
RowsFinite == IsFiniteSet(Rows) /\ \A x \in Extractions : IsFiniteSet(run[x].homes)

LEMMA RowsStayFinite ==
  ASSUME IInv, RowsFinite, [Next]_vars
  PROVE  RowsFinite'
  <1> USE DEF IInv
  <1>0. run \in [Extractions -> Runs]
    BY DEF EventsTypeOK
  <1>1. ASSUME UNCHANGED label
        PROVE  IsFiniteSet(Rows')
    BY <1>1 DEF RowsFinite, Rows
  <1>2. ASSUME NEW e, NEW l, label' = [label EXCEPT ![e] = l]
        PROVE  IsFiniteSet(Rows')
    <2>1. IsFiniteSet(Rows \cup {e})
      BY FS_AddElement DEF RowsFinite
    <2>2. Rows' \subseteq Rows \cup {e}
      BY <1>2 DEF Rows, EventsTypeOK
    <2> QED BY <2>1, <2>2, FS_Subset
  <1>3. CASE Research
    <2>1. IsFiniteSet(Rows')
      BY <1>1, <1>2, <1>3 DEF Research, CreateEvent, ResolveEvent, AddClaim, AddFails,
         CorrectionFails, StartReview, StartPrefer, StartUnprefer, StartRename, StartMerge,
         StartSplit, Locks, Review, Prefer, Unprefer, Rename, Merge, Split, eventVars
    <2>2. run' = run
      BY <1>3 DEF Research, CreateEvent, ResolveEvent, AddClaim, AddFails, CorrectionFails,
         StartReview, StartPrefer, StartUnprefer, StartRename, StartMerge, StartSplit, Locks,
         Review, Prefer, Unprefer, Rename, Merge, Split
    <2> QED BY <2>1, <2>2 DEF RowsFinite
  <1>4. \A y \in Extractions : Disturbed(run[y]).homes = run[y].homes
    BY <1>0 DEF Disturbed, Runs
  <1>5. CASE TextsChange
    <2>1. \A y \in Extractions : run'[y] = Disturbed(run[y])
      BY <1>5 DEF TextsChange
    <2>2. label' = label
      BY <1>5 DEF TextsChange, eventVars
    <2> QED BY <1>1, <1>4, <2>1, <2>2 DEF RowsFinite
  <1>6. ASSUME NEW x \in Extractions, Extract(x), ~CommitExtraction(x)
        PROVE  RowsFinite'
    <2>1. label' = label /\ \A y \in Extractions \ {x} : run'[y] = run[y]
      BY <1>0, <1>6 DEF Extract, ReadTexts, BeginSelect, ReadExisting, BeginDelete, FindEvent, InsertClaim,
         ExtractionFails, eventVars
    <2>2. \/ run'[x].homes = {} \/ run'[x].homes = run[x].homes
          \/ \E h : run'[x].homes = run[x].homes \cup {h}
      <3>1. CASE ReadTexts(x) \/ ExtractionFails(x)
        <4>1. run'[x] = NoRun \/ run'[x] = [NoRun EXCEPT !.phase = "read", !.found = texts]
          BY <1>0, <3>1 DEF ReadTexts, ExtractionFails
        <4>2. NoRun.homes = {} /\ [NoRun EXCEPT !.phase = "read", !.found = texts].homes = {}
          BY DEF NoRun
        <4> QED BY <4>1, <4>2
      <3>2. CASE ReadExisting(x)
        <4>1. PICK M : run' = [run EXCEPT ![x] = Matched(run[x], M)]
          BY <3>2 DEF ReadExisting
        <4> QED BY <1>0, <4>1 DEF Matched, Runs
      <3>5. CASE BeginSelect(x) \/ BeginDelete(x)
        BY <1>0, <3>5 DEF BeginSelect, BeginDelete, Snapshot, Runs
      <3>3. CASE FindEvent(x)
        <4>1. PICK s \in NextTodo(x) : \E e \in EventsNamed(Label(s)) :
                run' = [run EXCEPT ![x] = AtHome(run[x], Label(s), e)]
          BY <3>3 DEF FindEvent
        <4>2. PICK e : run' = [run EXCEPT ![x] = AtHome(run[x], Label(s), e)]
          BY <4>1
        <4> QED BY <1>0, <4>2 DEF AtHome, Runs
      <3>4. CASE InsertClaim(x)
        <4>1. PICK s \in NextTodo(x) : \E h \in Home(x, s), c \in NewClaim :
                run' = [run EXCEPT ![x] = Inserting(run[x], s, c, h.event)]
          BY <3>4 DEF InsertClaim
        <4>2. PICK h \in Home(x, s), c \in NewClaim :
                run' = [run EXCEPT ![x] = Inserting(run[x], s, c, h.event)]
          BY <4>1
        <4> QED BY <1>0, <4>2 DEF Inserting, Runs
      <3> QED BY <1>6, <3>1, <3>2, <3>3, <3>4, <3>5 DEF Extract
    <2>3. IsFiniteSet(run'[x].homes)
      <3>1. IsFiniteSet(run[x].homes) /\ \A h : IsFiniteSet(run[x].homes \cup {h})
        BY FS_AddElement DEF RowsFinite
      <3> QED BY <2>2, <3>1, FS_EmptySet
    <2> QED BY <1>1, <2>1, <2>3 DEF RowsFinite
  <1>7. ASSUME NEW x \in Extractions, CommitExtraction(x)
        PROVE  RowsFinite'
    <2> DEFINE made == {h.event : h \in run[x].homes}
    <2>1. IsFiniteSet(made)
      <3> DEFINE event == [h \in run[x].homes |-> h.event]
      <3>1. event \in Surjection(run[x].homes, made)
        BY DEF Surjection
      <3> QED BY <3>1, FS_Surjection DEF RowsFinite
    <2>2. IsFiniteSet(Rows \cup made)
      BY <2>1, FS_Union DEF RowsFinite
    <2>3. Rows' \subseteq Rows \cup made
      <3>1. \A e \in Events : e \in made \/ label'[e] = label[e] \/ label'[e] = Gone
        BY <1>7 DEF CommitExtraction
      <3> QED BY <3>1, NamesDiffer DEF Rows
    <2>4. \A y \in Extractions : run'[y] = IF y = x THEN NoRun ELSE Disturbed(run[y])
      BY <1>7 DEF CommitExtraction
    <2>5. \A y \in Extractions : run'[y].homes = {} \/ run'[y].homes = run[y].homes
      BY <1>4, <2>4 DEF NoRun
    <2> QED BY <2>2, <2>3, <2>5, FS_Subset, FS_EmptySet DEF RowsFinite
  <1>8. CASE UNCHANGED vars
    BY <1>1, <1>8 DEF vars, eventVars, RowsFinite
  <1> QED BY <1>3, <1>5, <1>6, <1>7, <1>8 DEF Next

\* While nothing is under way every claim is shown once, in its event or nowhere, and the
\* suggestions are those of the text after an extraction: what readers see of the events.
THEOREM ReadersSee == Spec => []ReadersSeeClaims
  <1>1. Init => LateUndecided /\ RowsFinite
    <2> SUFFICES ASSUME Init PROVE LateUndecided /\ RowsFinite
      OBVIOUS
    <2>1. \A e \in Events : mergedInto[e] = None
      BY DEF Init
    <2>2. LateUndecided
      BY <2>1, InitSound DEF IInv, ClaimsMade, LateUndecided, Existing, Rows
    <2>3. PICK start \in Starts, l \in Names :
            label = [e \in Events |-> IF e <= start.events THEN l
                                     ELSE IF e <= start.events + start.left THEN None ELSE Gone]
      BY DEF Init
    <2> DEFINE n == start.events
    <2>4. n \in Nat /\ \A e \in Rows : e \in Nat /\ e <= n
      <3>1. \A e \in Events : e <= n \/ label[e] \in {None, Gone}
        BY <2>3
      <3>2. \A e \in Rows : e \in Events /\ e <= n
        BY <3>1, NamesDiffer DEF Rows
      <3> QED BY <3>2, StartsAssumption, IdsAssumption
    <2>5. IsFiniteSet(Rows)
      <3>1. Rows \in SUBSET (0..n) /\ IsFiniteSet(0..n)
        BY <2>4, FS_Interval
      <3> QED BY <3>1, FS_Subset
    <2>6. \A x \in Extractions : run[x].homes = {}
      BY DEF Init, NoRun
    <2> QED BY <2>2, <2>5, <2>6, FS_EmptySet DEF RowsFinite
  <1>2. IInv /\ LateUndecided /\ RowsFinite /\ [Next]_vars => (LateUndecided /\ RowsFinite)'
    BY LateStay, RowsStayFinite
  <1>3. TextInv /\ LateUndecided /\ RowsFinite => ReadersSeeClaims
    BY ShownWhenSound DEF TextInv, RowsFinite, ReadersSeeClaims
  <1> QED BY <1>1, <1>2, <1>3, Invariant, TextInvariant, PTL DEF Spec
==============================================================================
