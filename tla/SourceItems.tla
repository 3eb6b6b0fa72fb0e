---------------------------- MODULE SourceItems ----------------------------
(***************************************************************************)
(* The tables every worker on channels and playlists shares:               *)
(* corpus_subscription_items (what became of each listed video, per        *)
(* source), corpus_source_backfills and corpus_backfill_items (what a      *)
(* history request selected).  The operators are the statements and the    *)
(* decisions that several workers use; the workers are in SourceBackfill   *)
(* and SourceChecks.                                                       *)
(***************************************************************************)
EXTENDS Integers, FiniteSets, Sequences

CONSTANTS
  Sources,      (* enabled subscriptions                                    *)
  Videos,       (* videos, by source_url                                    *)
  Settings,     (* what a behaviour starts from: see IsSetting              *)
  LimitCount,   (* limit_count of the "limited" requests                    *)
  Recent        (* the videos published inside the "recent" window          *)

Scopes == {"none", "recent", "limited", "full"}

(* automatic: the sources added with the 'automatic' processing policy;    *)
(* excluded: <<source, video>> pairs the source's filters reject; waiting: *)
(* pairs a check has queued before; sourceOf, scopeOf: the history         *)
(* requests, numbered in the order they are made; listings: what yt-dlp    *)
(* may list, sequences of distinct videos; users: those who use the        *)
(* controls; switchable: the sources whose policy users change; maxFaults: *)
(* bound on failing statements and stops.                                  *)
IsSetting(t) ==
  /\ t.automatic \subseteq Sources
  /\ t.excluded \subseteq Sources \X Videos
  /\ t.waiting \subseteq t.automatic \X Videos
  /\ t.sourceOf \in Seq(Sources)
  /\ t.scopeOf \in Seq(Scopes) /\ Len(t.scopeOf) = Len(t.sourceOf)
  /\ t.listings \subseteq Seq(Videos)
  /\ t.switchable \subseteq Sources
  /\ t.maxFaults \in Nat

ASSUME BackfillAssumption ==
  /\ LimitCount \in Nat \ {0}
  /\ Recent \subseteq Videos
  /\ \A t \in Settings : IsSetting(t)

VARIABLES
  setting,    (* the sources and requests of this behaviour; never changes *)
  automatic,  (* the sources whose processing_policy is 'automatic'         *)
  status,     (* status of the item row, or "absent" when there is none     *)
  origin,     (* its origin                                                 *)
  bstate,     (* state of the backfill row, or "absent"                     *)
  note,       (* the backfills with a discovery_message                     *)
  position,   (* position of the snapshot row of a video, 0 without a row   *)
  selected,   (* the videos whose snapshot row is selected                  *)
  frozen      (* the videos whose snapshot row has outcome 'canceled'       *)

tables == <<setting, automatic, status, origin, bstate, note, position, selected, frozen>>

Automatic == setting.automatic
Excluded == setting.excluded
Waiting == setting.waiting
SourceOf == setting.sourceOf
ScopeOf == setting.scopeOf
Backfills == DOMAIN ScopeOf

Pending == {"queued", "running"}
Processed == {"indexed", "skipped"}
Outcomes == Processed \cup {"no_transcript", "failed"}
Statuses == Outcomes \cup Pending \cup
  {"absent", "discovered", "filtered", "awaiting_review", "not_selected", "canceled"}
Origins == {"new", "history"}
Live == {"running", "awaiting_review"}
BackfillStates == Live \cup
  {"absent", "discovering", "paused", "canceled", "completed", "partial", "failed"}

TablesTypeOK ==
  /\ setting \in Settings
  /\ automatic \subseteq Sources
  /\ status \in [Sources -> [Videos -> Statuses]]
  /\ origin \in [Sources -> [Videos -> Origins]]
  /\ bstate \in [Backfills -> BackfillStates]
  /\ note \subseteq Backfills
  /\ position \in [Backfills -> [Videos -> Nat]]
  /\ selected \in [Backfills -> SUBSET Videos]
  /\ frozen \in [Backfills -> SUBSET Videos]

TablesInit ==
  /\ setting \in Settings
  /\ automatic = Automatic
  /\ status = [s \in Sources |-> [v \in Videos |->
                 IF <<s, v>> \in Waiting THEN "queued" ELSE "absent"]]
  /\ origin = [s \in Sources |-> [v \in Videos |-> "new"]]
  /\ bstate = [b \in Backfills |-> "absent"]
  /\ note = {}
  /\ position = [b \in Backfills |-> [v \in Videos |-> 0]]
  /\ selected = [b \in Backfills |-> {}]
  /\ frozen = [b \in Backfills |-> {}]

---------------------------------------------------------------------------
(* Statements on item rows.                                                *)

Mark(s, v, st) == status' = [status EXCEPT ![s][v] = st]

Queue(s, v, o) ==
  /\ Mark(s, v, "queued")
  /\ origin' = [origin EXCEPT ![s][v] = o]

\* An upsert leaves the status and the origin of a known row alone.
Upsert(s, v) ==
  status' = [status EXCEPT ![s][v] = IF @ = "absent" THEN "discovered" ELSE @]

\* settle_pending_elsewhere: the video waits for approval nowhere any more.
SettlePending(v, st) ==
  status' = [s \in Sources |->
               [status[s] EXCEPT ![v] = IF @ = "awaiting_review" THEN st ELSE @]]

(* admit_item: a video another source has processed takes that status; an  *)
(* automatic source ("own": as the caller read it), or another automatic   *)
(* one that lists the video, lets it through; else it waits for approval.  *)
ProcessedElsewhere(s, v) ==
  {status[o][v] : o \in Sources \ {s}} \cap Processed

AutomaticElsewhere(s, v) ==
  \E o \in automatic \ {s} : status[o][v] # "absent"

\* Mutant of Admission: the policy is not consulted.
AdmissionUnreviewed(s, v, own) ==
  IF ProcessedElsewhere(s, v) # {} THEN ProcessedElsewhere(s, v) ELSE {"process"}

Admission(s, v, own) ==
  IF ProcessedElsewhere(s, v) # {} THEN ProcessedElsewhere(s, v)
  ELSE IF own \/ AutomaticElsewhere(s, v) THEN {"process"} ELSE {"awaiting_review"}

---------------------------------------------------------------------------
(* Backfills.                                                              *)

\* select_entries: does the request select the video at this position?
Selects(b, at, v) ==
  \/ ScopeOf[b] = "full"
  \/ ScopeOf[b] = "limited" /\ at <= LimitCount
  \/ ScopeOf[b] = "recent" /\ v \in Recent

\* The snapshot rows that count: selected, and not frozen by a cancel.
Wanted(b) == selected[b] \ frozen[b]

WantedIn(b, sts) == {v \in Wanted(b) : status[SourceOf[b]][v] \in sts}

Refreshed(b) ==
  IF WantedIn(b, Pending) # {} THEN "running"
  ELSE IF WantedIn(b, {"awaiting_review"}) # {} THEN "awaiting_review"
  ELSE IF WantedIn(b, {"failed"}) # {} \/ b \in note THEN "partial" ELSE "completed"

\* Mutant of Refreshable: refresh_state looks at every recorded backfill.
RefreshableRecorded == {b \in Backfills : bstate[b] \notin {"absent", "discovering"}}

Refreshable == {b \in Backfills : bstate[b] \in Live}

\* refresh_state of each backfill in B.
Refresh(B) ==
  bstate' = [b \in Backfills |->
               IF b \in B \cap Refreshable THEN Refreshed(b) ELSE bstate[b]]
============================================================================
