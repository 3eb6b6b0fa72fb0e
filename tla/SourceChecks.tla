---------------------------- MODULE SourceChecks ----------------------------
(***************************************************************************)
(* Checks for new uploads beside the backfill workers.  A check claims its *)
(* source, waits for a history listing that is still due, lists the source *)
(* and, video by video, queues (server) or ingests (CLI) what it has not   *)
(* seen.  The scheduler starts due checks and records a baseline for a     *)
(* source without history; users and the CLI start checks at any time.     *)
(***************************************************************************)
EXTENDS SourceBackfill

\* What the checks of a behaviour start from: the tasks that can check a source
\* at the same time, who starts checks, what a check may find listed (sets of
\* videos), and how often checks outlive STALE_CHECK_SECONDS.
Checkers == setting.checkers
Kinds == setting.kinds
CheckListings == setting.checkListings
MaxStale == setting.maxStale

ASSUME CheckAssumption ==
  \A t \in Settings :
    /\ IsFiniteSet(t.checkers)
    /\ t.kinds \subseteq {"scheduled", "manual", "cli"}
    /\ t.checkListings \subseteq SUBSET Videos
    /\ t.maxStale \in Nat

VARIABLES
  check,     (* what each checker is doing                                  *)
  claimed,   (* check_started_at: "free", "held", or "stale" when too old   *)
  due,       (* the sources whose next_check_at has passed                  *)
  checked,   (* the sources with a last_checked_at                          *)
  stales     (* claims that went stale so far                               *)

checkVars == <<check, claimed, due, checked, stales>>
allVars == <<vars, checkVars>>

\* todo: the videos left in this step; next: those the next step works on.
Check == [source : Sources, kind : Kinds, own : BOOLEAN,
          step : {"gate", "list", "look", "admit", "mark", "queue", "wait", "finish"},
          todo : SUBSET Videos, next : SUBSET Videos,
          video : Videos \cup {None}, verdict : Statuses \cup {None}]

ChecksTypeOK ==
  /\ TypeOK
  /\ check \in [Checkers -> Check \cup {None}]
  /\ claimed \in [Sources -> {"free", "held", "stale"}]
  /\ due \subseteq Sources
  /\ checked \subseteq Sources
  /\ stales \in 0..MaxStale

ChecksInit ==
  /\ Init
  /\ check = [c \in Checkers |-> None]
  /\ claimed = [s \in Sources |-> "free"]
  /\ due = {}
  /\ checked = {}
  /\ stales = 0

---------------------------------------------------------------------------
(* claim_check and the callers of check_one.                               *)

\* Mutant of Unclaimed: a running check is not looked at.
UnclaimedAlways(s) == TRUE

Unclaimed(s) == claimed[s] \in {"free", "stale"}

ClaimCheck(c, s, kind) ==
  /\ check[c] = None
  /\ Unclaimed(s)
  /\ claimed' = [claimed EXCEPT ![s] = "held"]
  /\ check' = [check EXCEPT ![c] =
       [source |-> s, kind |-> kind, own |-> s \in automatic, step |-> "gate",
        todo |-> {}, next |-> {}, video |-> None, verdict |-> None]]
  /\ UNCHANGED <<vars, due, checked, stales>>

HistoryPending(s) == \E b \in Discovering : SourceOf[b] = s

DueSource(s) == up /\ s \in due /\ Unclaimed(s) /\ ~HistoryPending(s)

\* Mutant of NeedsBaseline: no baseline is ever recorded.
NeedsBaselineNever(s) == FALSE

\* needs_history_baseline
NeedsBaseline(s) ==
  s \notin checked /\ \A b \in Backfills : SourceOf[b] = s => bstate[b] = "absent"

\* run_due_checks starts a check, or records the baseline (scope "none") instead.
ScheduleCheck(c, s) ==
  DueSource(s) /\ ~NeedsBaseline(s) /\ ClaimCheck(c, s, "scheduled")

RecordBaseline(s) ==
  /\ DueSource(s)
  /\ NeedsBaseline(s)
  /\ \E b \in Backfills : SourceOf[b] = s /\ ScopeOf[b] = "none" /\ StartBackfill(b)
  /\ UNCHANGED checkVars

\* "Check now" in the browser, and the CLI's own process.
CheckNow(c, s) == up /\ ClaimCheck(c, s, "manual")
CheckByCli(c, s) == ClaimCheck(c, s, "cli")

StartCheck(c, s) ==
  \/ "scheduled" \in Kinds /\ ScheduleCheck(c, s)
  \/ "manual" \in Kinds /\ CheckNow(c, s)
  \/ "cli" \in Kinds /\ CheckByCli(c, s)

---------------------------------------------------------------------------
(* check_subscription.                                                     *)

In(c, step) == check[c] # None /\ check[c].step = step
Continue(c, record) == check' = [check EXCEPT ![c] = record]

\* The next step, which works on the videos the last one passed on.
Passing(r, step, videos) ==
  [r EXCEPT !.step = IF videos = {} THEN "finish" ELSE step, !.todo = videos, !.next = {}]

PassGate(c) ==
  /\ In(c, "gate")
  /\ Continue(c, [check[c] EXCEPT
       !.step = IF HistoryPending(check[c].source) THEN "wait" ELSE "list"])
  /\ UNCHANGED <<vars, claimed, due, checked, stales>>

ListUploads(c) ==
  /\ In(c, "list")
  /\ \E l \in CheckListings : Continue(c, Passing(check[c], "look", l))
  /\ UNCHANGED <<vars, claimed, due, checked, stales>>

\* should_ingest_status, or a source that no longer holds for review.
Wants(r, previous) ==
  \/ previous \in {"absent", "discovered", "failed"}
  \/ previous = "awaiting_review" /\ r.own

\* The status a listed video had, and the upsert of its row.
LookAtUpload(c) ==
  /\ In(c, "look")
  /\ \E v \in check[c].todo :
       LET r == check[c]
           wanted == Wants(r, status[r.source][v])
           rejected == <<r.source, v>> \in Excluded
           passed == IF wanted /\ ~rejected THEN r.next \cup {v} ELSE r.next
       IN  /\ IF wanted /\ rejected THEN Mark(r.source, v, "filtered") ELSE Upsert(r.source, v)
           /\ Continue(c, IF r.todo = {v} THEN Passing(r, "admit", passed)
                          ELSE [r EXCEPT !.todo = @ \ {v}, !.next = passed])
  /\ UNCHANGED <<setting, automatic, origin, bstate, note, position, selected, frozen, workers,
                 claimed, due, checked, stales>>

\* The record once v has been admitted or held.
Decided(r, v, passed) ==
  IF r.todo = {v} THEN [Passing(r, "queue", passed) EXCEPT !.video = None, !.verdict = None]
  ELSE [r EXCEPT !.step = "admit", !.todo = @ \ {v}, !.next = passed,
                 !.video = None, !.verdict = None]

AdmitUpload(c) ==
  /\ In(c, "admit")
  /\ \E v \in check[c].todo :
       \E a \in Admission(check[c].source, v, check[c].own) :
         Continue(c, IF a = "process" THEN Decided(check[c], v, check[c].next \cup {v})
                     ELSE [check[c] EXCEPT !.step = "mark", !.video = v, !.verdict = a])
  /\ UNCHANGED <<vars, claimed, due, checked, stales>>

MarkUpload(c) ==
  /\ In(c, "mark")
  /\ LET r == check[c] IN
       /\ Mark(r.source, r.video, r.verdict)
       /\ Continue(c, Decided(r, r.video, r.next))
  /\ UNCHANGED <<setting, automatic, origin, bstate, note, position, selected, frozen, workers,
                 claimed, due, checked, stales>>

\* enqueue_new_upload: the row is queued whatever it has become since.
EnqueueUpload(c) ==
  /\ In(c, "queue")
  /\ check[c].kind # "cli"
  /\ \E v \in check[c].todo :
       /\ Queue(check[c].source, v, "new")
       /\ Continue(c, Passing(check[c], "queue", check[c].todo \ {v}))
  /\ UNCHANGED <<setting, automatic, bstate, note, position, selected, frozen, workers,
                 claimed, due, checked, stales>>

\* The CLI ingests what was admitted and writes the report's statuses.
IngestUpload(c) ==
  /\ In(c, "queue")
  /\ check[c].kind = "cli"
  /\ \E v \in check[c].todo, r \in Results \cap Outcomes :
       /\ status' = [s \in Sources |-> [status[s] EXCEPT ![v] =
            IF s = check[c].source \/ @ = "awaiting_review" THEN r ELSE @]]
       /\ Continue(c, Passing(check[c], "queue", check[c].todo \ {v}))
  /\ UNCHANGED <<setting, automatic, origin, bstate, note, position, selected, frozen, workers,
                 claimed, due, checked, stales>>

\* The listing or a statement fails: the check is reported as failed.
CheckFails(c) ==
  /\ check[c] # None
  /\ check[c].step \notin {"wait", "finish"}
  /\ Continue(c, [check[c] EXCEPT !.step = "finish", !.todo = {}, !.next = {},
                                  !.video = None, !.verdict = None])
  /\ UNCHANGED <<vars, claimed, due, checked, stales>>

\* finish_check: a check that waits for history stays due.
FinishCheck(c) ==
  /\ check[c] # None
  /\ check[c].step \in {"wait", "finish"}
  /\ LET s == check[c].source IN
       /\ claimed' = [claimed EXCEPT ![s] = "free"]
       /\ IF check[c].step = "wait" THEN UNCHANGED <<due, checked>>
          ELSE due' = due \ {s} /\ checked' = checked \cup {s}
  /\ check' = [check EXCEPT ![c] = None]
  /\ UNCHANGED <<vars, stales>>

CheckStep(c) ==
  \/ PassGate(c) \/ ListUploads(c) \/ LookAtUpload(c) \/ AdmitUpload(c) \/ MarkUpload(c)
  \/ EnqueueUpload(c) \/ IngestUpload(c) \/ CheckFails(c) \/ FinishCheck(c)

---------------------------------------------------------------------------
(* Time, and the server process.                                           *)

BecomesDue(s) ==
  /\ Kinds # {}
  /\ s \notin due
  /\ due' = due \cup {s}
  /\ UNCHANGED <<vars, check, claimed, checked, stales>>

\* STALE_CHECK_SECONDS pass: every claim may be taken over, its check goes on.
ClaimsGoStale ==
  /\ stales < MaxStale
  /\ stales' = stales + 1
  /\ claimed' = [s \in Sources |-> IF claimed[s] = "held" THEN "stale" ELSE claimed[s]]
  /\ UNCHANGED <<vars, check, due, checked>>

\* The server's checks die with it, the CLI's go on.
StopServer ==
  /\ Stop
  /\ check' = [c \in Checkers |->
                 IF check[c] # None /\ check[c].kind = "cli" THEN check[c] ELSE None]
  /\ UNCHANGED <<claimed, due, checked, stales>>

\* spawn_scheduler: recover_interrupted_checks releases every claim.
StartServer ==
  /\ Start
  /\ claimed' = [s \in Sources |-> "free"]
  /\ UNCHANGED <<check, due, checked, stales>>

BackfillStep ==
  \/ \E b \in Backfills : StartBackfill(b)
  \/ DiscoveryStep \/ DiscoveryFails
  \/ DispatcherStep \/ ProcessingFails \/ DispatcherFails
  \/ \E u \in Users : ControlStep(u)
  \/ ApprovalStep
  \/ \E s \in Switchable : SetPolicy(s)

ChecksNext ==
  \/ BackfillStep /\ UNCHANGED checkVars
  \/ \E s \in Sources : RecordBaseline(s) \/ BecomesDue(s)
  \/ \E c \in Checkers, s \in Sources : StartCheck(c, s)
  \/ \E c \in Checkers : CheckStep(c)
  \/ ClaimsGoStale \/ StopServer \/ StartServer

ChecksSpec == ChecksInit /\ [][ChecksNext]_allVars

---------------------------------------------------------------------------
(* Properties.                                                             *)

Checking(s) == {c \in Checkers : check[c] # None /\ check[c].source = s}

\* How often a claim can have been lost under a check that goes on: each time
\* claims grow old and, where the CLI's checks outlive a server, each stop.
LostClaims == stales + IF "cli" \in Kinds THEN faults ELSE 0

(* claim_check: "Marks the source as being checked unless another check of *)
(* it is running".  A check that lost its claim ends by clearing its       *)
(* successor's (finish_check), and a server that starts clears every claim *)
(* (recover_interrupted_checks), so a source may be checked twice; but     *)
(* each lost claim lets in one more check at most: they do not pile up,    *)
(* and while no claim is lost a source is checked once at a time.          *)
ChecksDoNotPileUp ==
  ChecksTypeOK /\ \A s \in Sources : Cardinality(Checking(s)) <= 1 + LostClaims

(* The scheduler alone checks; each source has one history request, which  *)
(* nobody cancels.  (A request, or a cancel, that comes while a check      *)
(* lists the source lets it queue what is set aside meanwhile; so does a   *)
(* check that a user or the CLI starts on a source without history.)       *)
Routine ==
  /\ Kinds = {"scheduled"} /\ setting.users = {}
  /\ \A b, o \in Backfills : SourceOf[b] = SourceOf[o] => b = o

(* check_subscription: "a routine check must not sweep excluded history    *)
(* into analysis": what a recorded snapshot set aside is not queued as new.*)
HistoryStaysExcluded ==
  [][\A s \in Sources, v \in Videos :
       Routine /\ status[s][v] = "not_selected" => status'[s][v] # "queued" \/ origin'[s][v] # "new"]_allVars

(* Between users, approvals, the listing and the dispatcher alone the      *)
(* dispatcher keeps its video and every selected video is acted upon.  (A  *)
(* check queues what it admitted whatever the row has become since.)       *)
BackfillsAreSound ==
  Checkers = {} => HeldVideoIsRunning /\ SelectedIsHandled

(* Nor is a decision of a user or a result ever undone there: a pause or a *)
(* cancel stands, and an indexed video stays indexed.                      *)
DecisionsAndResultsStand == [][Checkers = {} => ResultsStand]_allVars
============================================================================
