----------------------------- MODULE WorkflowRuns -----------------------------
(***************************************************************************)
(* Processing workflows in one corpus (src/processing_workflows.rs):       *)
(* definitions stored as versions, the corpus's overrides of them, and     *)
(* runs.  A request handler starts a run in many statements; a spawned     *)
(* task executes it video by video.  Which runs the process executes is    *)
(* kept in memory (ACTIVE_RUNS); every page read marks the running rows it *)
(* does not find there as interrupted.                                     *)
(*                                                                         *)
(* Handlers interleave at every statement; any of them may end early, by a *)
(* failing statement or because its client went away, and the server may   *)
(* stop.  A definition is the set of the stages it runs.                   *)
(***************************************************************************)
EXTENDS Integers, Sequences, FiniteSets

CONSTANTS
  Workflows,
  Stages,
  Saved,        (* the definitions there are at the start                   *)
  Definitions,  (* the stage sets users save later                          *)
  Overrides,    (* the sets of stages users disable in the corpus           *)
  Edits,        (* the corpus plans users set directly                      *)
  Handlers,     (* HTTP requests under way at the same time                 *)
  Starting,     (* the handlers that start runs; the others read pages      *)
  Overriding,   (* the handlers that set overrides                          *)
  NumVideos,    (* videos of the corpus                                     *)
  MaxRuns, MaxVersions, MaxFaults  (* bounds                                *)

RunIds == 1..MaxRuns

\* What stages_from_compiled accepts: each detector in one stage, and some stage.
Definable == SUBSET Stages \ {{}}

ASSUME WorkflowAssumption ==
  /\ Saved \in [Workflows -> Definable] /\ Definitions \subseteq Definable
  /\ Overrides \subseteq SUBSET Stages /\ Edits \subseteq SUBSET Stages
  /\ Starting \subseteq Handlers /\ Overriding \subseteq Handlers
  /\ NumVideos \in Nat /\ MaxRuns \in Nat /\ MaxVersions \in Nat
  /\ MaxFaults \in Nat

VARIABLES
  versions,  (* processing_workflow_versions: the definitions, oldest first *)
  disabled,  (* corpus_workflow_settings: the stages this corpus disables   *)
  plan,      (* detector_settings of the corpus                             *)
  rows,      (* corpus_workflow_runs, with the enabled ones of its stages   *)
  active,    (* ACTIVE_RUNS                                                 *)
  handler,   (* the requests                                                *)
  task,      (* the spawned task of each run                                *)
  up, faults (* failing statements, vanished clients, stops of the server   *)

tables == <<versions, disabled, plan, rows>>
vars == <<tables, active, handler, task, up, faults>>

Ended == {"completed", "failed"}
RunStates == Ended \cup {"absent", "running", "interrupted"}

Row == [state : RunStates, workflow : Workflows, version : Nat,
        stages : SUBSET Stages, report : Seq(SUBSET Stages)]
Handler == [pc : {"idle", "store", "compose", "read", "mark", "check", "apply", "insert",
                 "activate", "spawn"},
            starts : BOOLEAN, workflow : Workflows, version : Nat,
            stages : SUBSET Stages, seen : SUBSET RunIds, run : RunIds \cup {0}]
Task == [step : {"none", "videos", "store", "leave"},
         verdict : Ended, report : Seq(SUBSET Stages)]

NoTask == [step |-> "none", verdict |-> "completed", report |-> <<>>]

Quiet(w) == [pc |-> "idle", starts |-> FALSE, workflow |-> w, version |-> 0,
             stages |-> {}, seen |-> {}, run |-> 0]

Absent(w) == [state |-> "absent", workflow |-> w, version |-> 0,
              stages |-> {}, report |-> <<>>]

Init ==
  /\ versions = [w \in Workflows |-> <<Saved[w]>>]
  /\ disabled = [w \in Workflows |-> {}]
  /\ plan = {}
  /\ \E w \in Workflows : /\ rows = [i \in RunIds |-> Absent(w)]
                          /\ handler = [h \in Handlers |-> Quiet(w)]
  /\ active = {}
  /\ task = [i \in RunIds |-> NoTask]
  /\ up = TRUE /\ faults = 0

At(h, pc) == up /\ handler[h].pc = pc

\* The request goes on as r, or ends.
Becomes(h, r) == handler' = [handler EXCEPT ![h] = r]

Go(h, pc) == Becomes(h, [handler[h] EXCEPT !.pc = pc])

Leave(h) == Becomes(h, Quiet(handler[h].workflow))

Latest(w) == versions[w][Len(versions[w])]

CurrentVersion(w) == Len(versions[w])

-----------------------------------------------------------------------------
(* Editing: save_workflow, set_corpus_overrides, the detector plan page.    *)

\* One transaction, behind the lock of the definition's row: an unchanged
\* definition keeps its version.
SaveWorkflow(w, d) ==
  /\ up
  /\ d # Latest(w) => Len(versions[w]) < MaxVersions
  /\ versions' = IF d = Latest(w) THEN versions
                 ELSE [versions EXCEPT ![w] = Append(@, d)]
  /\ UNCHANGED <<disabled, plan, rows, active, handler, task, up, faults>>

\* Overrides are checked against the latest version when the request reads it.
CheckOverrides(h, w, off) ==
  /\ At(h, "idle") /\ h \in Overriding /\ off \subseteq Latest(w)
  /\ Becomes(h, [handler[h] EXCEPT !.pc = "store", !.workflow = w, !.stages = off])
  /\ UNCHANGED <<tables, active, task, up, faults>>

\* They replace those there were; the workflow's page is the answer.
SetOverrides(h) ==
  /\ At(h, "store")
  /\ disabled' = [disabled EXCEPT ![handler[h].workflow] = handler[h].stages]
  /\ Becomes(h, [handler[h] EXCEPT !.pc = "read", !.stages = {}])
  /\ UNCHANGED <<versions, plan, rows, active, task, up, faults>>

EditPlan(p) ==
  /\ up
  /\ plan' = p
  /\ UNCHANGED <<versions, disabled, rows, active, handler, task, up, faults>>

-----------------------------------------------------------------------------
(* Reading a page: corpus_workflow and get_run, both over mark_interrupted. *)

OpenPage(h, w) ==
  /\ At(h, "idle") /\ h \notin Starting
  /\ Becomes(h, [handler[h] EXCEPT !.pc = "read", !.workflow = w])
  /\ UNCHANGED <<tables, active, task, up, faults>>

ReadActive(h) ==
  /\ At(h, "read")
  /\ Becomes(h, [handler[h] EXCEPT !.pc = "mark", !.seen = active])
  /\ UNCHANGED <<tables, active, task, up, faults>>

\* Mutants of Unowned: ended rows are marked as well; no row ever is.
UnownedWhateverState(seen) == {i \in RunIds : rows[i].state # "absent" /\ i \notin seen}
UnownedNever(seen) == {}

\* The running rows that were not among the active runs when they were read.
Unowned(seen) == {i \in RunIds : rows[i].state = "running" /\ i \notin seen}

MarkInterrupted(h) ==
  LET interrupted == Unowned(handler[h].seen) IN
  /\ At(h, "mark")
  /\ rows' = [i \in RunIds |->
                IF i \in interrupted THEN [rows[i] EXCEPT !.state = "interrupted"] ELSE rows[i]]
  /\ IF ~handler[h].starts THEN Leave(h)
     ELSE Go(h, IF handler[h].run = 0 THEN "check" ELSE "spawn")
  /\ UNCHANGED <<versions, disabled, plan, active, task, up, faults>>

-----------------------------------------------------------------------------
(* start_run.                                                               *)

\* corpus_workflow of the run to be: the latest version, whose stages the run
\* will record, without those ...
BeginStart(h, w) ==
  /\ At(h, "idle") /\ h \in Starting
  /\ Becomes(h, [handler[h] EXCEPT !.pc = "compose", !.starts = TRUE, !.workflow = w,
                                    !.version = CurrentVersion(w), !.stages = Latest(w)])
  /\ UNCHANGED <<tables, active, task, up, faults>>

\* ... that the corpus disables (overrides, effective_stages, detector_settings).
ComposeStages(h) ==
  /\ At(h, "compose")
  /\ Becomes(h, [handler[h] EXCEPT !.pc = "read",
                                    !.stages = @ \ disabled[handler[h].workflow]])
  /\ UNCHANGED <<tables, active, task, up, faults>>

\* Mutant of Free: rows are not looked at.
FreeAlways(w) == TRUE

\* No run of the workflow is recorded as running.
Free(w) == \A i \in RunIds : ~(rows[i].state = "running" /\ rows[i].workflow = w)

CheckFree(h) ==
  /\ At(h, "check")
  /\ IF Free(handler[h].workflow) /\ handler[h].stages # {}
       THEN Go(h, "apply") ELSE Leave(h)
  /\ UNCHANGED <<tables, active, task, up, faults>>

\* set_scope_settings: one transaction.
ApplyPlan(h) ==
  /\ At(h, "apply")
  /\ plan' = handler[h].stages
  /\ Go(h, "insert")
  /\ UNCHANGED <<versions, disabled, rows, active, task, up, faults>>

\* The stages the row records: those the plan was set to.
Recorded(h) == handler[h].stages

InsertRun(h) ==
  /\ At(h, "insert")
  /\ \E i \in RunIds :
       /\ rows[i].state = "absent" /\ \A j \in RunIds : j < i => rows[j].state # "absent"
       /\ rows' = [rows EXCEPT ![i] =
                     [state |-> "running", workflow |-> handler[h].workflow,
                      version |-> handler[h].version, stages |-> Recorded(h), report |-> <<>>]]
       /\ Becomes(h, [handler[h] EXCEPT !.pc = "activate", !.run = i])
  /\ UNCHANGED <<versions, disabled, plan, active, task, up, faults>>

\* The page of the new run follows, then its task is spawned.
Activate(h) ==
  /\ At(h, "activate")
  /\ active' = active \cup {handler[h].run}
  /\ Go(h, "read")
  /\ UNCHANGED <<tables, task, up, faults>>

Spawn(h) ==
  /\ At(h, "spawn")
  /\ task' = [task EXCEPT ![handler[h].run] = [NoTask EXCEPT !.step = "videos"]]
  /\ Leave(h)
  /\ UNCHANGED <<tables, active, up, faults>>

-----------------------------------------------------------------------------
(* execute_run and what follows it.                                         *)

\* run_video_plan of the next video, with the corpus plan as it is now.
RunVideo(i) ==
  /\ task[i].step = "videos" /\ Len(task[i].report) < NumVideos
  /\ task' = [task EXCEPT ![i].report = Append(@, plan)]
  /\ UNCHANGED <<tables, active, handler, up, faults>>

VideosDone(i) ==
  /\ task[i].step = "videos" /\ Len(task[i].report) = NumVideos
  /\ task' = [task EXCEPT ![i].step = "store"]
  /\ UNCHANGED <<tables, active, handler, up, faults>>

\* The corpus's videos cannot be listed.
ListingFails(i) ==
  /\ task[i].step = "videos" /\ task[i].report = <<>> /\ faults < MaxFaults
  /\ task' = [task EXCEPT ![i].step = "store", ![i].verdict = "failed"]
  /\ faults' = faults + 1
  /\ UNCHANGED <<tables, active, handler, up>>

\* The outcome is written whatever the row's state has become.
StoreOutcome(i) ==
  /\ task[i].step = "store"
  /\ rows' = [rows EXCEPT ![i].state = task[i].verdict, ![i].report = task[i].report]
  /\ task' = [task EXCEPT ![i].step = "leave"]
  /\ UNCHANGED <<versions, disabled, plan, active, handler, up, faults>>

StoreFails(i) ==
  /\ task[i].step = "store" /\ faults < MaxFaults
  /\ task' = [task EXCEPT ![i].step = "leave"]
  /\ faults' = faults + 1
  /\ UNCHANGED <<tables, active, handler, up>>

Deactivate(i) ==
  /\ task[i].step = "leave"
  /\ active' = active \ {i}
  /\ task' = [task EXCEPT ![i] = NoTask]
  /\ UNCHANGED <<tables, handler, up, faults>>

-----------------------------------------------------------------------------
(* A statement of a request fails or its client leaves; the server stops.   *)

RequestFails(h) ==
  /\ up /\ handler[h].pc # "idle" /\ faults < MaxFaults
  /\ faults' = faults + 1
  /\ Leave(h)
  /\ UNCHANGED <<tables, active, task, up>>

StopServer ==
  /\ up /\ faults < MaxFaults
  /\ up' = FALSE /\ faults' = faults + 1
  /\ active' = {}
  /\ handler' = [h \in Handlers |-> Quiet(handler[h].workflow)]
  /\ task' = [i \in RunIds |-> NoTask]
  /\ UNCHANGED tables

StartServer ==
  /\ ~up
  /\ up' = TRUE
  /\ UNCHANGED <<tables, active, handler, task, faults>>

HandlerStep(h) ==
  \/ SetOverrides(h) \/ ComposeStages(h) \/ ReadActive(h) \/ MarkInterrupted(h)
  \/ CheckFree(h) \/ ApplyPlan(h) \/ InsertRun(h) \/ Activate(h) \/ Spawn(h)

TaskStep(i) == RunVideo(i) \/ VideosDone(i) \/ StoreOutcome(i) \/ Deactivate(i)

Next ==
  \/ \E w \in Workflows, d \in Definitions : SaveWorkflow(w, d)
  \/ \E h \in Handlers, w \in Workflows, off \in Overrides : CheckOverrides(h, w, off)
  \/ \E p \in Edits : EditPlan(p)
  \/ \E h \in Handlers, w \in Workflows : OpenPage(h, w) \/ BeginStart(h, w)
  \/ \E h \in Handlers : HandlerStep(h) \/ RequestFails(h)
  \/ \E i \in RunIds : TaskStep(i) \/ ListingFails(i) \/ StoreFails(i)
  \/ StopServer \/ StartServer

Spec == Init /\ [][Next]_vars

(* Requests and tasks of a running server go on, a stopped server is       *)
(* started, and a page that shows a running run is polled                  *)
(* (ProcessingWorkflows.tsx, refetchInterval).                             *)
Fairness ==
  /\ \A h \in Handlers : WF_vars(HandlerStep(h))
  /\ \A i \in RunIds : WF_vars(TaskStep(i))
  /\ WF_vars(StartServer)
  /\ WF_vars(\E h \in Handlers, w \in Workflows :
               (\E i \in RunIds : rows[i].state = "running") /\ OpenPage(h, w))

FairSpec == Spec /\ Fairness

-----------------------------------------------------------------------------
(* Properties.                                                             *)

(* Types; a recorded run names a version there is, and its request and its *)
(* task hold it one after the other, the task as an active run.            *)
WorkflowTypeOK ==
  /\ versions \in [Workflows -> Seq(SUBSET Stages) \ {<<>>}]
  /\ disabled \in [Workflows -> SUBSET Stages] /\ plan \subseteq Stages
  /\ rows \in [RunIds -> Row] /\ active \subseteq RunIds
  /\ handler \in [Handlers -> Handler] /\ task \in [RunIds -> Task]
  /\ up \in BOOLEAN /\ faults \in 0..MaxFaults
  /\ \A i \in RunIds : rows[i].state # "absent" =>
       rows[i].version \in 1..Len(versions[rows[i].workflow])
  /\ \A h \in Handlers : handler[h].run # 0 =>
       /\ rows[handler[h].run].state # "absent"
       /\ task[handler[h].run] = NoTask
       /\ \A g \in Handlers : handler[g].run = handler[h].run => g = h
  /\ \A i \in RunIds : task[i] # NoTask => i \in active

(* The stages a run records are stages of the version it records, however  *)
(* often the definition is saved while the run is being started            *)
(* (0031_processing_workflows.sql, workflow_version and stages), and a run *)
(* that ended keeps its outcome and its report: no page read, no other run *)
(* and no restart changes the row again (mark_interrupted's state          *)
(* condition, start_run's task).                                           *)
RunsKeepTheirRecord ==
  [][\A i \in RunIds :
       /\ rows[i].state \in Ended => rows'[i] = rows[i]
       /\ rows'[i].state # "absent" =>
            rows'[i].stages \subseteq versions'[rows'[i].workflow][rows'[i].version]]_vars

(* start_run: "this workflow is already running for this corpus": while    *)
(* starts come one at a time, at most one run of a workflow is recorded as *)
(* running, whichever pages are read, requests fail or servers stop.       *)
OneRunAtATime ==
  /\ WorkflowTypeOK
  /\ (\A g, h \in Starting : g = h) =>
       \A i, j \in RunIds :
         /\ rows[i].state = "running" /\ rows[j].state = "running"
         /\ rows[i].workflow = rows[j].workflow
         => i = j

\* A start that failed after it put its run among the active ones: nothing
\* executes the run, and no page takes it for interrupted.
Abandoned(i) ==
  /\ i \in active /\ task[i].step = "none"
  /\ \A h \in Handlers : handler[h].run # i

(* ACTIVE_RUNS: "A `running` row nobody executes was cut off by a restart":*)
(* a run recorded as running ends or is marked interrupted, after failing  *)
(* statements and stops as well, unless its start abandons it.             *)
RunsEnd ==
  \A i \in RunIds : rows[i].state = "running" ~> rows[i].state # "running" \/ Abandoned(i)
=============================================================================
