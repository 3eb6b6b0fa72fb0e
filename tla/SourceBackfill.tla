--------------------------- MODULE SourceBackfill ---------------------------
(***************************************************************************)
(* History backfills.  A request is recorded as 'discovering'; the         *)
(* discovery worker lists the source and records the snapshot entry by     *)
(* entry, queueing what the request selects; the dispatcher processes one  *)
(* queued video at a time, new uploads and history in turn; users pause,   *)
(* resume and cancel a request and approve videos held for review.         *)
(*                                                                         *)
(* Every statement commits by itself, so each write is a step; a read is   *)
(* one with the write it precedes where nobody can come between them.  A   *)
(* worker that hits an error, and a server that stops, forget what they    *)
(* were doing.                                                             *)
(***************************************************************************)
EXTENDS SourceItems

CONSTANTS
  Results,     (* what processing a video can come to                       *)
  Users,       (* users of the controls                                     *)
  None

\* "error": the ingest fails as a whole; "missing": its report lacks the video.
ASSUME ResultsAssumption ==
  /\ Results \subseteq Outcomes \cup {"error", "missing"}
  /\ \A t \in Settings : t.users \subseteq Users

Listings == setting.listings
Switchable == setting.switchable
MaxFaults == setting.maxFaults

VARIABLES
  up,          (* the server runs                                           *)
  discovery,   (* what the discovery worker is doing                        *)
  turn,        (* Dispatcher.next: the class that is tried first            *)
  job,         (* the video the dispatcher has claimed                      *)
  control,     (* the control request of each user                          *)
  approval,    (* the approval being processed                              *)
  faults       (* faults so far                                             *)

workers == <<up, discovery, turn, job, control, approval, faults>>
vars == <<tables, workers>>

Actions == {"pause", "resume", "cancel"}

DiscoverySteps == {"list", "look", "entry", "queue", "mark", "count", "refresh"}

Listing(backfills, listings) ==
  [backfill : backfills, step : DiscoverySteps, canceled : BOOLEAN, own : BOOLEAN,
   short : BOOLEAN, listing : listings, at : Nat, seen : Statuses]

\* "None" is no record of a worker.
ASSUME NoneAssumption == None \notin Listing(Nat, Seq(Videos))

Discovery == Listing(Backfills, Listings)
Job == [source : Sources, video : Videos, class : Origins,
        step : {"admit", "process", "settle", "refresh"}, verdict : Outcomes \cup {None}]
Control == [backfill : Backfills, action : Actions, step : {"write", "refresh"}]
Approval == [source : Sources, video : Videos, step : {"process", "refresh"}]

TypeOK ==
  /\ TablesTypeOK
  /\ up \in BOOLEAN
  /\ discovery \in Discovery \cup {None}
  /\ turn \in Origins
  /\ job \in Job \cup {None}
  /\ control \in [Users -> Control \cup {None}]
  /\ approval \in Approval \cup {None}
  /\ faults \in 0..MaxFaults

Init ==
  /\ TablesInit
  /\ up = TRUE
  /\ discovery = None
  /\ turn = "new"
  /\ job = None
  /\ control = [u \in Users |-> None]
  /\ approval = None
  /\ faults = 0

---------------------------------------------------------------------------
(* start_backfill                                                          *)

StartBackfill(b) ==
  /\ up
  /\ bstate[b] = "absent"
  /\ \A o \in Backfills : o < b => bstate[o] # "absent"
  /\ bstate' = [bstate EXCEPT ![b] = "discovering"]
  /\ UNCHANGED <<setting, automatic, status, origin, note, position, selected, frozen, workers>>

---------------------------------------------------------------------------
(* The discovery worker: discover_next and record_snapshot.                *)

Discovering == {b \in Backfills : bstate[b] = "discovering"}

InDiscovery(step) == up /\ discovery # None /\ discovery.step = step

\* The oldest request that awaits its listing.
PickBackfill ==
  /\ up
  /\ discovery = None
  /\ \E b \in Discovering, l \in Listings, short \in BOOLEAN :
       /\ \A o \in Discovering : b <= o
       /\ discovery' = [backfill |-> b, step |-> "list", canceled |-> FALSE, own |-> FALSE,
                        short |-> short, listing |-> l, at |-> 1, seen |-> "absent"]
  /\ UNCHANGED <<tables, up, turn, job, control, approval, faults>>

StateAfterFailedListing(s) == IF s = "canceled" THEN s ELSE "failed"

\* fail_discovery: the source could not be listed.
ListingFails ==
  /\ InDiscovery("list")
  /\ LET b == discovery.backfill IN
       /\ bstate' = [bstate EXCEPT ![b] = StateAfterFailedListing(@)]
       /\ note' = note \cup {b}
  /\ discovery' = None
  /\ UNCHANGED <<setting, automatic, status, origin, position, selected, frozen,
                 up, turn, job, control, approval, faults>>

\* The step after the entry before position "at" of the listing.
StepAt(at) == IF at <= Len(discovery.listing) THEN "look" ELSE "count"

\* The listing is in; record_snapshot reads the state of the request and the
\* policy of the source, once.
ReadState ==
  /\ InDiscovery("list")
  /\ discovery' = [discovery EXCEPT !.step = StepAt(1),
                                    !.canceled = (bstate[discovery.backfill] = "canceled"),
                                    !.own = SourceOf[discovery.backfill] \in automatic]
  /\ UNCHANGED <<tables, up, turn, job, control, approval, faults>>

Listed == discovery.listing[discovery.at]
DiscoverySource == SourceOf[discovery.backfill]

\* The status the video had, then the upsert of its row.
LookUp ==
  /\ InDiscovery("look")
  /\ Upsert(DiscoverySource, Listed)
  /\ discovery' = [discovery EXCEPT !.step = "entry",
                                    !.seen = status[DiscoverySource][Listed]]
  /\ UNCHANGED <<setting, automatic, origin, bstate, note, position, selected, frozen,
                 up, turn, job, control, approval, faults>>

InScope == Selects(discovery.backfill, discovery.at, Listed)

\* The snapshot row: ON CONFLICT DO NOTHING, on its position and on its video.
RecordEntry ==
  /\ InDiscovery("entry")
  /\ LET b == discovery.backfill IN
       IF \/ position[b][Listed] # 0
          \/ \E v \in Videos : position[b][v] = discovery.at
         THEN UNCHANGED <<setting, position, selected>>
         ELSE /\ position' = [position EXCEPT ![b][Listed] = discovery.at]
              /\ selected' = IF InScope THEN [selected EXCEPT ![b] = @ \cup {Listed}]
                                        ELSE selected
  /\ discovery' = [discovery EXCEPT !.step = "queue"]
  /\ UNCHANGED <<setting, automatic, status, origin, bstate, note, frozen,
                 up, turn, job, control, approval, faults>>

\* Mutant of Candidate: what a listing that broke off had only upserted is left alone.
CandidateUnlessDiscovered(previous, own) ==
  previous \in {"absent", "failed", "not_selected", "canceled"}

\* The statuses queue_history_item queues again; the others are reused.
Candidate(previous, own) ==
  \/ previous \in {"absent", "discovered", "failed", "not_selected", "canceled"}
  \/ previous = "awaiting_review" /\ own

\* What queue_history_item makes of a selected video.
Decision(s, v, own) ==
  IF <<s, v>> \in Excluded THEN {"filtered"}
  ELSE {IF a = "process" THEN "queued" ELSE a : a \in Admission(s, v, own)}

NextEntry == [discovery EXCEPT !.at = @ + 1, !.step = StepAt(discovery.at + 1), !.seen = "absent"]

\* A selected candidate is decided on; unselected history is set aside.
DecideEntry ==
  /\ InDiscovery("queue")
  /\ LET decisions ==
           IF InScope /\ ~discovery.canceled
             THEN IF Candidate(discovery.seen, discovery.own)
                    THEN Decision(DiscoverySource, Listed, discovery.own) ELSE {}
             ELSE IF discovery.seen \in {"absent", "discovered"}
                    THEN {"not_selected"} ELSE {}
     IN  \/ decisions = {} /\ discovery' = NextEntry
         \/ \E d \in decisions :
              discovery' = [discovery EXCEPT !.step = "mark", !.seen = d]
  /\ UNCHANGED <<tables, up, turn, job, control, approval, faults>>

\* The decision is written, whatever the row has become since.
MarkEntry ==
  /\ InDiscovery("mark")
  /\ IF discovery.seen = "queued"
       THEN Queue(DiscoverySource, Listed, "history")
       ELSE Mark(DiscoverySource, Listed, discovery.seen) /\ UNCHANGED origin
  /\ discovery' = NextEntry
  /\ UNCHANGED <<setting, automatic, bstate, note, position, selected, frozen,
                 up, turn, job, control, approval, faults>>

StateAfterSnapshot(s) == IF s = "discovering" THEN "running" ELSE s

CountSnapshot ==
  /\ InDiscovery("count")
  /\ LET b == discovery.backfill IN
       /\ bstate' = [bstate EXCEPT ![b] = StateAfterSnapshot(@)]
       /\ note' = IF discovery.short THEN note \cup {b} ELSE note \ {b}
  /\ discovery' = [discovery EXCEPT !.step = "refresh"]
  /\ UNCHANGED <<setting, automatic, status, origin, position, selected, frozen,
                 up, turn, job, control, approval, faults>>

\* Mutant of SnapshotRefreshes: the last refresh of record_snapshot is left out.
SnapshotRefreshesNothing == {}

SnapshotRefreshes == {discovery.backfill}

RefreshSnapshot ==
  /\ InDiscovery("refresh")
  /\ Refresh(SnapshotRefreshes)
  /\ discovery' = None
  /\ UNCHANGED <<setting, automatic, status, origin, note, position, selected, frozen,
                 up, turn, job, control, approval, faults>>

\* A statement of the worker fails: it logs the error and starts over.
DiscoveryFails ==
  /\ up
  /\ discovery # None
  /\ faults < MaxFaults
  /\ faults' = faults + 1
  /\ discovery' = None
  /\ UNCHANGED <<tables, up, turn, job, control, approval>>

DiscoveryStep ==
  \/ PickBackfill \/ ListingFails \/ ReadState \/ LookUp \/ RecordEntry
  \/ DecideEntry \/ MarkEntry \/ CountSnapshot \/ RefreshSnapshot

---------------------------------------------------------------------------
(* The dispatcher: run_next, claim and process_claimed.                    *)

QueuedNew ==
  {e \in Sources \X Videos : status[e[1]][e[2]] = "queued" /\ origin[e[1]][e[2]] = "new"}

\* A history video is eligible only through a running request that wants it.
QueuedHistory ==
  {e \in Backfills \X Videos :
     LET s == SourceOf[e[1]]  v == e[2]
     IN  /\ bstate[e[1]] = "running" /\ v \in Wanted(e[1])
         /\ status[s][v] = "queued" /\ origin[s][v] = "history"}

\* The entry of the oldest request that comes first in its listing.
First(e, entries) ==
  \A o \in entries : \/ e[1] < o[1]
                     \/ e[1] = o[1] /\ position[e[1]][e[2]] <= position[o[1]][o[2]]

Claimed(class, s, v) ==
  /\ Mark(s, v, "running")
  /\ job' = [source |-> s, video |-> v, class |-> class, step |-> "admit", verdict |-> None]
  /\ UNCHANGED <<setting, automatic, origin, bstate, note, position, selected, frozen,
                 up, discovery, control, approval, faults>>

Idle == up /\ job = None

ClaimNew ==
  /\ Idle
  /\ turn = "new" \/ QueuedHistory = {}
  /\ turn' = "history"
  /\ \E e \in QueuedNew : Claimed("new", e[1], e[2])

ClaimHistory ==
  /\ Idle
  /\ turn = "history" \/ QueuedNew = {}
  /\ turn' = "new"
  /\ \E e \in QueuedHistory :
       /\ First(e, QueuedHistory)
       /\ Claimed("history", SourceOf[e[1]], e[2])

InJob(step) == up /\ job # None /\ job.step = step

\* Another source may have processed the video since it was queued.
AdmitClaimed ==
  /\ InJob("admit")
  /\ LET done == ProcessedElsewhere(job.source, job.video) IN
       \/ /\ done = {}
          /\ job' = [job EXCEPT !.step = "process"]
          /\ UNCHANGED status
       \/ /\ \E st \in done : Mark(job.source, job.video, st)
          /\ job' = [job EXCEPT !.step = "refresh"]
  /\ UNCHANGED <<setting, automatic, origin, bstate, note, position, selected, frozen,
                 up, discovery, turn, control, approval, faults>>

StatusFor(result) ==
  CASE result = "error" -> "failed" [] result = "missing" -> "filtered" [] OTHER -> result

\* The ingest ends: update_ingested_items and record_failure.
ProcessClaimed ==
  /\ InJob("process")
  /\ \E r \in Results :
       /\ Mark(job.source, job.video, StatusFor(r))
       /\ job' = IF r \in Outcomes THEN [job EXCEPT !.step = "settle", !.verdict = r]
                                   ELSE [job EXCEPT !.step = "refresh"]
  /\ UNCHANGED <<setting, automatic, origin, bstate, note, position, selected, frozen,
                 up, discovery, turn, control, approval, faults>>

SettleElsewhere ==
  /\ InJob("settle")
  /\ SettlePending(job.video, job.verdict)
  /\ job' = [job EXCEPT !.step = "refresh"]
  /\ UNCHANGED <<setting, automatic, origin, bstate, note, position, selected, frozen,
                 up, discovery, turn, control, approval, faults>>

\* refresh_for_item: the requests of the source whose snapshot has the video.
RefreshForItem ==
  /\ InJob("refresh")
  /\ Refresh({b \in Backfills : SourceOf[b] = job.source /\ position[b][job.video] # 0})
  /\ job' = None
  /\ UNCHANGED <<setting, automatic, status, origin, note, position, selected, frozen,
                 up, discovery, turn, control, approval, faults>>

\* A statement of process_item fails: the video is recorded as failed, even
\* when its status was written before.
ProcessingFails ==
  /\ up
  /\ job # None
  /\ job.step # "refresh"
  /\ faults < MaxFaults
  /\ faults' = faults + 1
  /\ Mark(job.source, job.video, "failed")
  /\ job' = [job EXCEPT !.step = "refresh"]
  /\ UNCHANGED <<setting, automatic, origin, bstate, note, position, selected, frozen,
                 up, discovery, turn, control, approval>>

\* A statement outside process_item fails: the dispatcher leaves the video.
DispatcherFails ==
  /\ up
  /\ job # None
  /\ faults < MaxFaults
  /\ faults' = faults + 1
  /\ job' = None
  /\ UNCHANGED <<tables, up, discovery, turn, control, approval>>

DispatcherStep ==
  \/ ClaimNew \/ ClaimHistory \/ AdmitClaimed \/ ProcessClaimed
  \/ SettleElsewhere \/ RefreshForItem

---------------------------------------------------------------------------
(* control_backfill: the state is read first and written in a transaction. *)

Allowed(a) == CASE a = "pause"  -> {"running"}
                [] a = "resume" -> {"paused"}
                [] a = "cancel" -> {"discovering", "running", "paused", "awaiting_review"}

StateAfter(a) == CASE a = "pause"  -> "paused"
                   [] a = "resume" -> "running"
                   [] a = "cancel" -> "canceled"

ReadForControl(u, b, a) ==
  /\ up
  /\ u \in setting.users
  /\ control[u] = None
  /\ bstate[b] \in Allowed(a)
  /\ control' = [control EXCEPT ![u] = [backfill |-> b, action |-> a, step |-> "write"]]
  /\ UNCHANGED <<tables, up, discovery, turn, job, approval, faults>>

\* The videos of b that have not started, and those of them another active
\* request of the source still wants.
NotStarted(b) ==
  {v \in Wanted(b) : status[SourceOf[b]][v] = "queued" /\ origin[SourceOf[b]][v] = "history"}

WantedByOthers(b) ==
  UNION {Wanted(o) : o \in {x \in Backfills \ {b} :
                              SourceOf[x] = SourceOf[b] /\ bstate[x] \in {"running", "paused"}}}

\* Cancel freezes what has not started and releases what nobody else wants;
\* a row an earlier cancel of the same request froze is released again.
Release(b) ==
  LET s == SourceOf[b]
      stopped == {v \in frozen[b] \cup NotStarted(b) :
                    status[s][v] = "queued" /\ origin[s][v] = "history"}
  IN  /\ frozen' = [frozen EXCEPT ![b] = @ \cup NotStarted(b)]
      /\ status' = [status EXCEPT ![s] =
           [v \in Videos |-> IF v \in stopped \ WantedByOthers(b) THEN "canceled" ELSE @[v]]]

WriteControl(u) ==
  /\ up
  /\ control[u] # None
  /\ control[u].step = "write"
  /\ LET b == control[u].backfill
         a == control[u].action
     IN  /\ bstate' = [bstate EXCEPT ![b] = StateAfter(a)]
         /\ IF a = "cancel" THEN Release(b) ELSE UNCHANGED <<setting, frozen, status>>
         /\ control' = [control EXCEPT ![u] =
                          IF a = "resume" THEN [@ EXCEPT !.step = "refresh"] ELSE None]
  /\ UNCHANGED <<setting, automatic, origin, note, position, selected,
                 up, discovery, turn, job, approval, faults>>

RefreshResumed(u) ==
  /\ up
  /\ control[u] # None
  /\ control[u].step = "refresh"
  /\ Refresh({control[u].backfill})
  /\ control' = [control EXCEPT ![u] = None]
  /\ UNCHANGED <<setting, automatic, status, origin, note, position, selected, frozen,
                 up, discovery, turn, job, approval, faults>>

ControlStep(u) ==
  \/ \E b \in Backfills, a \in Actions : ReadForControl(u, b, a)
  \/ WriteControl(u)
  \/ RefreshResumed(u)

---------------------------------------------------------------------------
(* approve_pending_items, one video at a time: the row keeps waiting while *)
(* the ingest runs.                                                        *)

Approve(s, v) ==
  /\ up
  /\ approval = None
  /\ status[s][v] = "awaiting_review"
  /\ approval' = [source |-> s, video |-> v, step |-> "process"]
  /\ UNCHANGED <<tables, up, discovery, turn, job, control, faults>>

\* The report's status, which no other source waits to decide any more.
ProcessApproved ==
  /\ up
  /\ approval # None
  /\ approval.step = "process"
  /\ \E r \in Results :
       IF r = "error"
         THEN approval' = None /\ UNCHANGED status
         ELSE /\ approval' = [approval EXCEPT !.step = "refresh"]
              /\ IF r = "missing" THEN UNCHANGED status
                 ELSE status' = [s \in Sources |-> [status[s] EXCEPT ![approval.video] =
                        IF s = approval.source \/ @ = "awaiting_review" THEN r ELSE @]]
  /\ UNCHANGED <<setting, automatic, origin, bstate, note, position, selected, frozen,
                 up, discovery, turn, job, control, faults>>

\* refresh_for_subscription
RefreshApproved ==
  /\ up
  /\ approval # None
  /\ approval.step = "refresh"
  /\ Refresh({b \in Backfills : SourceOf[b] = approval.source})
  /\ approval' = None
  /\ UNCHANGED <<setting, automatic, status, origin, note, position, selected, frozen,
                 up, discovery, turn, job, control, faults>>

ApprovalStep ==
  \/ \E s \in Sources, v \in Videos : Approve(s, v)
  \/ ProcessApproved
  \/ RefreshApproved

\* set_processing_policy
SetPolicy(s) ==
  /\ up
  /\ automatic' = IF s \in automatic THEN automatic \ {s} ELSE automatic \cup {s}
  /\ UNCHANGED <<setting, status, origin, bstate, note, position, selected, frozen, workers>>

---------------------------------------------------------------------------
(* The server process.                                                     *)

Stop ==
  /\ up
  /\ faults < MaxFaults
  /\ faults' = faults + 1
  /\ up' = FALSE
  /\ discovery' = None
  /\ turn' = "new"
  /\ job' = None
  /\ control' = [u \in Users |-> None]
  /\ approval' = None
  /\ UNCHANGED tables

\* spawn_background: recover_interrupted comes before both workers.
Start ==
  /\ ~up
  /\ up' = TRUE
  /\ status' = [s \in Sources |-> [v \in Videos |->
                  IF status[s][v] = "running" THEN "queued" ELSE status[s][v]]]
  /\ UNCHANGED <<setting, automatic, origin, bstate, note, position, selected, frozen,
                 discovery, turn, job, control, approval, faults>>

Next ==
  \/ \E b \in Backfills : StartBackfill(b)
  \/ DiscoveryStep \/ DiscoveryFails
  \/ DispatcherStep \/ ProcessingFails \/ DispatcherFails
  \/ \E u \in Users : ControlStep(u)
  \/ ApprovalStep
  \/ \E s \in Switchable : SetPolicy(s)
  \/ Stop \/ Start

Spec == Init /\ [][Next]_vars

(* The worker loops go on while the server runs, and a stopped server is   *)
(* started again; nothing is assumed of users.                             *)
Fairness ==
  /\ WF_vars(DiscoveryStep)
  /\ WF_vars(DispatcherStep)
  /\ WF_vars(Start)
  /\ WF_vars(ProcessApproved \/ RefreshApproved)
  /\ \A u \in Users : WF_vars(WriteControl(u) \/ RefreshResumed(u))

FairSpec == Spec /\ Fairness

---------------------------------------------------------------------------
(* Properties.                                                             *)

(* Nobody approves a video while the dispatcher works on it for another    *)
(* source, or for a source that is no longer under review: no video is     *)
(* listed by two sources, or none is under review, and policies stay.  (An *)
(* approval ends by writing the row whatever it has become since.)         *)
Separate ==
  Switchable = {} /\ ((\A s, o \in Sources : s = o) \/ Automatic = Sources)

(* The video the dispatcher is processing stays 'running' until its report *)
(* is written: no snapshot, cancel or second request takes the row away    *)
(* (the reuse rule of queue_history_item, the origin rule of claim).       *)
HeldVideoIsRunning ==
  Separate /\ job # None /\ job.step \in {"admit", "process"} =>
    status[job.source][job.video] = "running"

Unhandled == {"absent", "discovered", "not_selected"}

\* A listing of the request may break off and be repeated: it selects the same videos again.
\* (The first of a "limited" request may be others the second time.)
Repeatable(b) ==
  /\ ScopeOf[b] # "limited"
  /\ \A l, m \in Listings : \A i \in DOMAIN l : \E j \in DOMAIN m : m[j] = l[i]

(* Once the snapshot is recorded every selected video has been acted upon, *)
(* whoever else lists, approves or cancels, and however often the listing  *)
(* broke off, if it may be repeated.                                       *)
SelectedIsHandled ==
  TypeOK /\ \A b \in Backfills :
    /\ bstate[b] \notin {"absent", "discovering", "failed", "canceled"}
    /\ faults = 0 \/ Repeatable(b)
    => \A v \in selected[b] : status[SourceOf[b]][v] \notin Unhandled

(* The workers never undo a user's pause or cancel, although they finish a *)
(* listing or a video that was started before it; nor what a video came    *)
(* to: unless a statement fails after the report an indexed video stays    *)
(* indexed, whatever requests select it (0023_source_backfills.sql,        *)
(* queue_history_item), approvals of what is processed again excepted.     *)
ResultsStand ==
  /\ \A b \in Backfills :
       bstate[b] \in {"canceled", "paused"} /\ UNCHANGED control => bstate'[b] = bstate[b]
  /\ \A s \in Sources, v \in Videos :
       Separate /\ status[s][v] = "indexed" =>
         status'[s][v] = "indexed" \/ faults' # faults

\* The sources that are automatic, or may become so.
Trusted == Automatic \cup Switchable

(* Review-first: a video is queued or processed only when a source that is *)
(* automatic, or that users switch, lists it; otherwise it waits for the   *)
(* approval of a user, whichever sources list it in which order.           *)
ReviewFirstHolds ==
  \A s \in Sources, v \in Videos : status[s][v] \in Pending =>
    s \in Trusted \/ \E o \in Trusted \ {s} : status[o][v] # "absent"

IsIn(b, s) == b \in Backfills /\ bstate[b] = s

(* Every request's listing ends and, while it runs, its videos are worked  *)
(* off and it is reported finished (or a user stops it), although two      *)
(* requests want the same videos and users pause, resume and cancel.  A    *)
(* listing ends after a fault as well; a stop between a request's last     *)
(* video and the refresh of its counts leaves it running.                  *)
RequestsFinish ==
  \A b \in UNION {DOMAIN t.scopeOf : t \in Settings} :
    /\ IsIn(b, "discovering") ~> ~IsIn(b, "discovering")
    /\ IsIn(b, "running") ~> ~IsIn(b, "running") \/ faults > 0

(* refresh_state: "completed only when every selected video finished".     *)
CompletedMeansFinished ==
  \A b \in Backfills : bstate[b] = "completed" =>
    \A v \in selected[b] : v \notin frozen[b] /\
      status[SourceOf[b]][v] \in Processed \cup {"no_transcript", "filtered"}
============================================================================
