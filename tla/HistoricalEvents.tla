--------------------------- MODULE HistoricalEvents ---------------------------
(***************************************************************************)
(* Historical events and the claims that make them up (src/events.rs), and *)
(* the extraction that suggests claims from a video's text                 *)
(* (src/event_extraction.rs).  An event is a group of claims; researchers  *)
(* review, prefer, merge and split, while an extraction replaces the       *)
(* suggestions nobody has reviewed.  A correction locks its events, an     *)
(* extraction the suggestions it found: neither locks what the other does. *)
(* One video; what is not committed is in "run" and seen by no one else.   *)
(***************************************************************************)
EXTENDS Integers, FiniteSets

CONSTANTS
  Events,         \* ids of historical_events rows, in the order they are made
  Claims,         \* ids of historical_event_claims rows, in the order they are made
  Suggestions,    \* what a text may give rise to: the suggestion keys, in its order
  Texts,          \* the texts the video may have, as the suggestions they give rise to
  Label(_),       \* the label of a suggestion's event, folded to lower case
  Dated(_),       \* whether a suggestion is a dated date claim
  Labels,
  Names,          \* the labels researchers give events
  Starts,         \* how many events researchers have created before, and how many ids
                  \* are left: those of the others were deleted since
  Extractions,    \* the extractions of the video that may run at once
  Manual,         \* the key of what a researcher records: no suggestion has it
  Gone,           \* the label of a deleted event
  None,
  MaxActs         \* bounds what researchers start and the changes of the text together

ASSUME IdsAssumption ==
  Events \subseteq Nat \ {0} /\ Claims \subseteq Nat \ {0} /\ None \notin Events
ASSUME StartsAssumption ==
  \A start \in Starts :
    start.events \in Nat /\ start.left \in Nat /\ 1..start.events \subseteq Events \cap Claims
ASSUME LabelAssumption ==
  /\ Suggestions \subseteq Nat /\ Texts \subseteq SUBSET Suggestions
  /\ \A s \in Suggestions : Label(s) \in Labels /\ Dated(s) \in BOOLEAN
  /\ Names \subseteq Labels /\ Manual \notin Suggestions /\ {Gone, None} \cap Labels = {}
ASSUME ActsAssumption == MaxActs \in Nat

VARIABLES
  texts,      \* the suggestions the video's text gives rise to now
  label,      \* event |-> its label; None before it is made, Gone once it is deleted
  mergedInto, \* event |-> the event it redirects to, or None
  eventOf,    \* claim |-> its event_id; None if the claim does not exist
  keyOf,      \* claim |-> its suggestion key, or Manual
  review,     \* claim |-> its review_status; None before it is made, Gone once deleted
  preferred,  \* the claims that are the preferred reading
  adding,     \* the event add_claim has resolved its request to, or None
  correction, \* the correction that holds its events' locks, or None
  run,        \* extraction |-> what it has read and not committed
  matched,    \* history: whether an undisturbed extraction has met the present text,
  overlapped, \* and whether the transactions of two ever were open at once
  acts

claimVars == <<eventOf, keyOf, review, preferred>>
eventVars == <<label, mergedInto>>
history == <<matched, overlapped>>
vars == <<texts, eventVars, claimVars, adding, correction, run, history, acts>>

Statuses == {"unverified", "confirmed", "rejected"}

ASSUME GoneAssumption == Gone # None /\ {Gone, None} \cap Statuses = {}

Existing == {c \in Claims : eventOf[c] # None}
ClaimsOf(e) == {c \in Claims : eventOf[c] = e}
Rows == {e \in Events : label[e] \in Labels}
Live == {e \in Rows : mergedInto[e] = None}
Extracted == {c \in Existing : keyOf[c] # Manual}
Unreviewed == {c \in Extracted : review[c] = "unverified"}
IsDated(k) == k = Manual \/ Dated(k)

Corrections ==
  [action : {"review", "prefer", "unprefer", "rename", "merge", "split"}, event : Events,
   other : Events \cup {None}, claims : SUBSET Claims, status : Statuses \cup {None},
   name : Labels \cup {None}]

\* "seen" holds the claims in the snapshot of the statement under way, "homes" the events
\* an extraction found or made for its labels, "new" the claims it inserted.
Runs == [phase : {"idle", "read", "select", "write", "delete"}, found : SUBSET Suggestions,
         seen : SUBSET Claims, held : SUBSET Claims, kept : SUBSET Claims,
         todo : SUBSET Suggestions,
         homes : SUBSET [label : Labels, event : Events, made : BOOLEAN],
         new : SUBSET [claim : Claims, key : Suggestions, event : Events], clean : BOOLEAN]

EventsTypeOK ==
  /\ texts \in Texts
  /\ label \in [Events -> Labels \cup {None, Gone}]
  /\ mergedInto \in [Events -> Events \cup {None}]
  /\ eventOf \in [Claims -> Events \cup {None}]
  /\ keyOf \in [Claims -> Suggestions \cup {Manual, None}]
  /\ review \in [Claims -> Statuses \cup {None, Gone}]
  /\ preferred \subseteq Existing
  /\ adding \in Events \cup {None}
  /\ correction \in Corrections \cup {None}
  /\ run \in [Extractions -> Runs]
  /\ matched \in BOOLEAN /\ overlapped \in BOOLEAN
  /\ acts \in 0..MaxActs

NoRun == [phase |-> "idle", found |-> {}, seen |-> {}, held |-> {}, kept |-> {}, todo |-> {},
          homes |-> {}, new |-> {}, clean |-> TRUE]

\* Researchers have created some events, each with its claim; nothing was extracted yet.
Init ==
  /\ texts \in Texts
  /\ \E start \in Starts, l \in Names : LET n == start.events IN
       /\ label = [e \in Events |-> IF e <= n THEN l ELSE IF e <= n + start.left THEN None
                                    ELSE Gone]
       /\ eventOf = [c \in Claims |-> IF c <= n THEN c ELSE None]
       /\ keyOf = [c \in Claims |-> IF c <= n THEN Manual ELSE None]
       /\ review = [c \in Claims |-> IF c <= n THEN "unverified" ELSE None]
  /\ mergedInto = [e \in Events |-> None] /\ preferred = {}
  /\ adding = None /\ correction = None
  /\ run = [x \in Extractions |-> NoRun]
  /\ matched = FALSE /\ overlapped = FALSE /\ acts = 0

Acts == acts < MaxActs /\ acts' = acts + 1

---------------------------------------------------------------------------
(* The rows and the locks.                                                  *)

New(x) == run[x].new
Least(S) == {i \in S : \A j \in S : i <= j}
NewClaim == Least({c \in Claims : review[c] = None /\ \A x \in Extractions :
                                    \A n \in New(x) : n.claim # c})
NewEvent == Least({e \in Events : label[e] = None /\ \A x \in Extractions :
                                    \A h \in run[x].homes : h.event # e})

\* Rows an extraction that has not committed locks against everyone else.
HeldBut(x) == UNION {run[y].held : y \in Extractions \ {x}}
Held == UNION {run[y].held : y \in Extractions}
EventsInserted(S) == {n.event : n \in UNION {New(y) : y \in S}}

\* Events a correction has locked FOR UPDATE.
Corrected == IF correction = None THEN {} ELSE {correction.event, correction.other} \ {None}

\* A claim is inserted into an event that exists: a foreign key.
Inserted(e, c, k) ==
  /\ eventOf' = [eventOf EXCEPT ![c] = e]
  /\ keyOf' = [keyOf EXCEPT ![c] = k]
  /\ review' = [review EXCEPT ![c] = "unverified"]
  /\ UNCHANGED preferred

CreateEvent ==
  /\ Acts
  /\ \E l \in Names, e \in NewEvent, c \in NewClaim :
       /\ label' = [label EXCEPT ![e] = l]
       /\ Inserted(e, c, Manual)
  /\ UNCHANGED <<texts, mergedInto, adding, correction, run, history>>

\* add_claim resolves the event before its transaction ...
ResolveEvent ==
  /\ adding = None /\ Acts
  /\ \E e \in Live : adding' = e
  /\ UNCHANGED <<texts, eventVars, claimVars, correction, run, history>>

\* ... and inserts into it once its row is free, whatever has become of it.
AddClaim ==
  /\ adding \in Rows \ Corrected
  /\ \E c \in NewClaim : Inserted(adding, c, Manual)
  /\ adding' = None
  /\ UNCHANGED <<texts, eventVars, correction, run, history, acts>>

AddFails ==
  /\ adding # None /\ adding' = None
  /\ UNCHANGED <<texts, eventVars, claimVars, correction, run, history, acts>>

---------------------------------------------------------------------------
(* correct_event: the request is validated under the lock of the event ...  *)

Locks(e, action, other, claims, status, name) ==
  /\ correction = None /\ Acts
  /\ e \in Live /\ e \notin EventsInserted(Extractions)
  /\ correction' = [action |-> action, event |-> e, other |-> other, claims |-> claims,
                    status |-> status, name |-> name]
  /\ UNCHANGED <<texts, eventVars, claimVars, adding, run, history>>

Selections(e) == SUBSET ClaimsOf(e) \ {{}}

StartReview(e) ==
  \E S \in Selections(e), s \in Statuses : Locks(e, "review", None, S, s, None)

StartPrefer(e) ==
  \E c \in ClaimsOf(e) : IsDated(keyOf[c]) /\ Locks(e, "prefer", None, {c}, None, None)

StartUnprefer(e) == Locks(e, "unprefer", None, {}, None, None)

StartRename(e) == \E l \in Names : Locks(e, "rename", None, {}, None, l)

StartMerge(e) ==
  \E other \in Live \ ({e} \cup EventsInserted(Extractions)) :
    Locks(e, "merge", other, {}, None, None)

\* At least one claim stays.
StartSplit(e) ==
  \E S \in Selections(e) \ {ClaimsOf(e)}, l \in Names : Locks(e, "split", None, S, None, l)

(* ... and written once no extraction holds the claims it writes: those of  *)
(* them that are left.                                                       *)

Writes(action) == correction # None /\ correction.action = action /\ correction' = None

Left(S) == S \cap ClaimsOf(correction.event)

Review ==
  /\ Writes("review") /\ correction.claims \cap Held = {}
  /\ LET S == Left(correction.claims)
     IN /\ review' = [c \in Claims |-> IF c \in S THEN correction.status ELSE review[c]]
        /\ preferred' = IF correction.status = "confirmed" THEN preferred ELSE preferred \ S
  /\ matched' = (matched /\ correction.status # "unverified")
  /\ UNCHANGED <<texts, eventVars, eventOf, keyOf, adding, run, overlapped, acts>>

\* Mutant of PreferredBut: the earlier reading stays preferred.
PreferredAsWell(e, S) == preferred \cup S

PreferredBut(e, S) == (preferred \ ClaimsOf(e)) \cup S

Prefer ==
  /\ Writes("prefer") /\ correction.claims \cap Held = {}
  /\ LET S == Left(correction.claims)
     IN /\ review' = [c \in Claims |-> IF c \in S THEN "confirmed" ELSE review[c]]
        /\ preferred' = PreferredBut(correction.event, S)
  /\ UNCHANGED <<texts, eventVars, eventOf, keyOf, adding, run, history, acts>>

Unprefer ==
  /\ Writes("unprefer")
  /\ preferred' = PreferredBut(correction.event, {})
  /\ UNCHANGED <<texts, eventVars, eventOf, keyOf, review, adding, run, history, acts>>

Rename ==
  /\ Writes("rename")
  /\ label' = [label EXCEPT ![correction.event] = correction.name]
  /\ UNCHANGED <<texts, mergedInto, claimVars, adding, run, history, acts>>

Redirected(e, other) ==
  [d \in Events |-> IF d = other \/ mergedInto[d] = other THEN e ELSE mergedInto[d]]

\* The target's preferred reading wins.
Merge ==
  /\ Writes("merge") /\ ClaimsOf(correction.other) \cap Held = {}
  /\ LET e == correction.event
         other == correction.other
     IN /\ eventOf' = [c \in Claims |-> IF eventOf[c] = other THEN e ELSE eventOf[c]]
        /\ preferred' = IF preferred \cap ClaimsOf(e) = {} THEN preferred
                        ELSE preferred \ ClaimsOf(other)
        /\ mergedInto' = Redirected(e, other)
  /\ UNCHANGED <<texts, label, keyOf, review, adding, run, history, acts>>

Split ==
  /\ Writes("split") /\ correction.claims \cap Held = {}
  /\ \E new \in NewEvent :
       /\ label' = [label EXCEPT ![new] = correction.name]
       /\ eventOf' = [c \in Claims |-> IF c \in Left(correction.claims) THEN new
                                       ELSE eventOf[c]]
  /\ UNCHANGED <<texts, mergedInto, keyOf, review, preferred, adding, run, history, acts>>

\* A deadlock with an extraction, or a lost connection.
CorrectionFails ==
  /\ correction # None /\ correction' = None
  /\ UNCHANGED <<texts, eventVars, claimVars, adding, run, history, acts>>

---------------------------------------------------------------------------
(* extract_video_event_claims                                               *)

\* The text is read, and the suggestions it gives rise to, before the transaction begins.
ReadTexts(x) ==
  /\ run[x].phase = "idle"
  /\ run' = [run EXCEPT ![x] = [NoRun EXCEPT !.phase = "read", !.found = texts]]
  /\ UNCHANGED <<texts, eventVars, claimVars, adding, correction, history, acts>>

\* The transaction begins with SELECT .. FOR UPDATE.  What it returns is chosen by the
\* snapshot it takes before it waits for the rows another extraction holds.
Snapshot(r, phase, claims) == [r EXCEPT !.phase = phase, !.seen = claims]

InTransaction(y) == run[y].phase \in {"select", "write", "delete"}

BeginSelect(x) ==
  /\ run[x].phase = "read"
  /\ run' = [run EXCEPT ![x] = Snapshot(run[x], "select", Extracted)]
  /\ overlapped' = (overlapped \/ \E y \in Extractions : InTransaction(y))
  /\ UNCHANGED <<texts, eventVars, claimVars, adding, correction, matched, acts>>

\* The rows of the snapshot as they are now: those deleted meanwhile are not returned.
Returned(r) == Extracted \cap r.seen

\* Mutant of Matches: only claims nobody has reviewed are matched.
MatchesUnreviewed(r) == {{c \in Returned(r) \cap Unreviewed : keyOf[c] \in r.found}}

\* One claim of every suggestion that has one: of two the map keeps either.
Matches(r) ==
  {M \in SUBSET {c \in Returned(r) : keyOf[c] \in r.found} :
     /\ \A c, d \in M : keyOf[c] = keyOf[d] => c = d
     /\ \A c \in Returned(r) : keyOf[c] \in r.found => \E d \in M : keyOf[d] = keyOf[c]}

\* The suggestions there are, locked: reviewed ones are skipped, the others kept.
Matched(r, M) ==
  [r EXCEPT !.phase = "write", !.seen = {}, !.held = Returned(r), !.kept = M \cap Unreviewed,
            !.todo = r.found \ {keyOf[c] : c \in M}]

ReadExisting(x) ==
  /\ run[x].phase = "select" /\ run[x].seen \cap HeldBut(x) = {}
  /\ \E M \in Matches(run[x]) : run' = [run EXCEPT ![x] = Matched(run[x], M)]
  /\ UNCHANGED <<texts, eventVars, claimVars, adding, correction, history, acts>>

\* The suggestions are gone through in the order of the text.
NextTodo(x) == Least(run[x].todo)
Home(x, s) == {h \in run[x].homes : h.label = Label(s)}

\* The oldest live event of a label, or a new one; it is looked up once for every label.
EventsNamed(l) ==
  LET named == {e \in Live : label[e] = l}
  IN IF named = {} THEN NewEvent ELSE Least(named)

AtHome(r, l, e) ==
  [r EXCEPT !.homes = r.homes \cup {[label |-> l, event |-> e, made |-> e \notin Rows]}]

FindEvent(x) ==
  /\ run[x].phase = "write"
  /\ \E s \in NextTodo(x) : \E e \in EventsNamed(Label(s)) :
       Home(x, s) = {} /\ run' = [run EXCEPT ![x] = AtHome(run[x], Label(s), e)]
  /\ UNCHANGED <<texts, eventVars, claimVars, adding, correction, history, acts>>

\* A suggestion is inserted into the event found for it, which from then on is locked.
Inserting(r, s, c, e) ==
  [r EXCEPT !.todo = r.todo \ {s},
            !.new = r.new \cup {[claim |-> c, key |-> s, event |-> e]}]

InsertClaim(x) ==
  /\ run[x].phase = "write"
  /\ \E s \in NextTodo(x) : \E h \in Home(x, s), c \in NewClaim :
       /\ h.event \notin Corrected \cup EventsInserted(Extractions \ {x})
       /\ h.made \/ h.event \in Rows
       /\ run' = [run EXCEPT ![x] = Inserting(run[x], s, c, h.event)]
  /\ UNCHANGED <<texts, eventVars, claimVars, adding, correction, history, acts>>

Disturbed(r) == IF r.phase = "idle" THEN r ELSE [r EXCEPT !.clean = FALSE]

\* The DELETE of the suggestions the run does not make again has its snapshot, too.
BeginDelete(x) ==
  /\ run[x].phase = "write" /\ run[x].todo = {}
  /\ run' = [run EXCEPT ![x] = Snapshot(run[x], "delete", Unreviewed)]
  /\ UNCHANGED <<texts, eventVars, claimVars, adding, correction, history, acts>>

\* Mutant of Stale: what was reviewed goes as well.
StaleOrReviewed(x) == Extracted \ run[x].kept

\* What it removes, claims another run has committed included, was unreviewed when the
\* statement began and still is.
Stale(x) == (Unreviewed \cap run[x].seen) \ run[x].kept

\* Events that only held the removed suggestions go with them.
Emptied(x) ==
  {e \in Live : /\ ClaimsOf(e) \subseteq Stale(x) /\ ClaimsOf(e) # {}
                /\ \A n \in New(x) : n.event # e
                /\ \A d \in Events : mergedInto[d] # e}

\* The stale suggestions and the emptied events are deleted, and everything is committed.
CommitExtraction(x) ==
  /\ run[x].phase = "delete"
  /\ Stale(x) \cap HeldBut(x) = {}
  /\ Emptied(x) \cap (Corrected \cup EventsInserted(Extractions \ {x})) = {}
  /\ LET inserted(c) == CHOOSE n \in New(x) : n.claim = c
         isNew(c) == \E n \in New(x) : n.claim = c
     IN /\ eventOf' = [c \in Claims |-> IF isNew(c) THEN inserted(c).event
                                        ELSE IF c \in Stale(x) THEN None ELSE eventOf[c]]
        /\ keyOf' = [c \in Claims |-> IF isNew(c) THEN inserted(c).key
                                      ELSE IF c \in Stale(x) THEN None ELSE keyOf[c]]
        /\ review' = [c \in Claims |-> IF isNew(c) THEN "unverified"
                                       ELSE IF c \in Stale(x) THEN Gone ELSE review[c]]
        /\ preferred' = preferred \ Stale(x)
  /\ label' = [e \in Events |-> IF e \in Emptied(x) THEN Gone
                                ELSE IF \E h \in run[x].homes : h.made /\ h.event = e
                                     THEN (CHOOSE h \in run[x].homes : h.event = e).label
                                     ELSE label[e]]
  /\ mergedInto' = [e \in Events |-> IF mergedInto[e] \in Emptied(x) THEN None
                                     ELSE mergedInto[e]]
  /\ run' = [y \in Extractions |-> IF y = x THEN NoRun ELSE Disturbed(run[y])]
  /\ matched' = run[x].clean
  /\ UNCHANGED <<texts, adding, correction, overlapped, acts>>

\* A foreign key refuses an event that was deleted meanwhile, a deadlock, a lost connection.
ExtractionFails(x) ==
  /\ run[x].phase # "idle"
  /\ run' = [run EXCEPT ![x] = NoRun]
  /\ UNCHANGED <<texts, eventVars, claimVars, adding, correction, history, acts>>

\* Reprocessing replaces the text, and a merge of identities the names of its participants.
TextsChange ==
  /\ Acts
  /\ \E S \in Texts \ {texts} : texts' = S
  /\ matched' = FALSE
  /\ run' = [x \in Extractions |-> Disturbed(run[x])]
  /\ UNCHANGED <<eventVars, claimVars, adding, correction, overlapped>>

---------------------------------------------------------------------------
Research ==
  \/ CreateEvent \/ ResolveEvent \/ AddClaim \/ AddFails
  \/ \E e \in Live : \/ StartReview(e) \/ StartPrefer(e) \/ StartUnprefer(e) \/ StartRename(e)
                     \/ StartMerge(e) \/ StartSplit(e)
  \/ Review \/ Prefer \/ Unprefer \/ Rename \/ Merge \/ Split \/ CorrectionFails

Extract(x) ==
  \/ ReadTexts(x) \/ BeginSelect(x) \/ ReadExisting(x) \/ FindEvent(x) \/ InsertClaim(x)
  \/ BeginDelete(x) \/ CommitExtraction(x) \/ ExtractionFails(x)

Next == Research \/ TextsChange \/ \E x \in Extractions : Extract(x)

Spec == Init /\ [][Next]_vars

---------------------------------------------------------------------------
(* What readers are shown, of one corpus that has the video.  Every one of  *)
(* these is a query of its own on what is committed.                         *)

\* The live event a (possibly merged) id leads to: an id may lead through several others.
LiveEvent(id) ==
  LET reached[n \in 0..Cardinality(Rows)] ==
        IF n = 0 THEN id
        ELSE LET e == reached[n - 1]
             IN IF e \in Rows /\ mergedInto[e] # None THEN mergedInto[e] ELSE e
      last == reached[Cardinality(Rows)]
  IN IF last \in Live THEN last ELSE None

DatedClaims(e) == {c \in ClaimsOf(e) : IsDated(keyOf[c])}

\* The dates a suggestion key stands for differ; what researchers record has one.
Readings(e) == {keyOf[c] : c \in {d \in DatedClaims(e) : review[d] # "rejected"}}

\* list_events: a row for a live event and each of its preferred claims, or for the event
\* alone where it has none.
Listing(ids) ==
  UNION {LET row(p) == [event |-> e, claims |-> Cardinality(ClaimsOf(e)), preferred |-> p,
                        disputed |-> Cardinality(Readings(e)) > 1]
             chosen == ClaimsOf(e) \cap preferred
         IN {row(p) : p \in IF chosen = {} THEN {None} ELSE chosen} : e \in Live \cap ids}

\* Either of the rows an event has is its summary; none at all is no profile.
Profiles(id) ==
  {[event |-> row.event, summary |-> row, claims |-> ClaimsOf(row.event)] :
     row \in Listing({LiveEvent(id)})}

\* The dated claims of the events asked for; an event without any is left out.
Timeline(ids) ==
  {entry \in {[event |-> p.event, claims |-> {c \in p.claims : IsDated(keyOf[c])}] :
                 p \in UNION {Profiles(e) : e \in ids}} : entry.claims # {}}

---------------------------------------------------------------------------
(* What researchers and readers may rely on.                               *)

\* An event has at most one preferred reading, a confirmed dated one: no correction and no
\* extraction runs into the table's unique index or its check (correct_event).
OnePreferred ==
  /\ \A c, d \in preferred : eventOf[c] = eventOf[d] => c = d
  /\ \A c \in preferred : review[c] = "confirmed" /\ IsDated(keyOf[c])

\* Every event that was merged leads in one step to a live one, whatever is merged or
\* deleted later, so live_event ends; a claim never loses its event.
EventsLead ==
  /\ \A e \in Rows : mergedInto[e] # None => mergedInto[e] \in Live
  /\ \A c \in Existing : eventOf[c] \in Rows

\* Whatever is under way may fail and leave the tables as they are: what readers see of them
\* is the same when nothing is.
Quiet == correction = None /\ adding = None /\ \A x \in Extractions : run[x].phase = "idle"

\* Every event, merged or not, opens one profile, that of a live event listed once.  A dated
\* claim stands once on the timeline, under the event it belongs to, or nowhere: then its
\* event was merged before the claim was inserted, no correction can reach it, and nobody
\* has decided on it.  Whatever was decided is shown.
ClaimsAreShown ==
  LET timeline == Timeline(Live)
      listing == Listing(Events)
  IN /\ \A e \in Rows : \E p \in Profiles(e) : Profiles(e) = {p} /\ p.event \in Live
     /\ \A e \in Live : Cardinality({row \in listing : row.event = e}) = 1
     /\ \A c \in Existing : IsDated(keyOf[c]) =>
          LET under == {t \in timeline : c \in t.claims}
          IN \/ \E t \in under : under = {t} /\ t.event = eventOf[c]
             \/ /\ under = {} /\ mergedInto[eventOf[c]] # None
                /\ review[c] = "unverified" /\ c \notin preferred

\* What corrections and extractions keep of the tables, one statement between the other.
EventsAreSound == EventsTypeOK /\ OnePreferred /\ EventsLead

\* A claim that was confirmed or rejected keeps its decision, its evidence and its existence
\* until a researcher changes them: no extraction, however it overlaps with a review, does.
ReviewedStays ==
  [][\A c \in Existing : review[c] \in {"confirmed", "rejected"} =>
       /\ keyOf'[c] = keyOf[c]
       /\ review'[c] = review[c] \/ (correction # None /\ correction' = None)]_vars

\* After an extraction that no other one disturbed, and until the text changes, there is a
\* claim of every suggestion, none that is unreviewed of anything else, no suggestion is made
\* twice, and none of what a researcher has decided unless the transactions of two
\* extractions once were open at once: the one that waits does not see what the other adds.
SuggestionsMatchText ==
  matched =>
    /\ texts \subseteq {keyOf[c] : c \in Extracted}
    /\ {keyOf[c] : c \in Unreviewed} \subseteq texts
    /\ \A c, d \in Unreviewed : keyOf[c] = keyOf[d] => c = d
    /\ ~overlapped => \A c \in Unreviewed, d \in Extracted : keyOf[c] = keyOf[d] => c = d

\* What readers see of the events and their claims: all of them while nothing is under way,
\* and after an extraction the suggestions of the text.
ReadersSeeClaims == (Quiet => ClaimsAreShown) /\ SuggestionsMatchText
==============================================================================
